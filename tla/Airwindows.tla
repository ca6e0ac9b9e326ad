----------------------------- MODULE Airwindows -----------------------------
(***************************************************************************)
(* The Airwindows collection as one CLAP module,                           *)
(* csrc/airwindows/airwindows_clap.cpp: the table of descriptors that the  *)
(* entry builds and frees, and one instance of an effect.                  *)
(*                                                                         *)
(* An effect has no way to clear its state, so activation and reset throw  *)
(* it away and build another, which starts from its own defaults; values   *)
(* is what the host was told, and must be what the effect in use holds.    *)
(* The audio is left out.                                                  *)
(*                                                                         *)
(* A call that the code refuses at its first look changes nothing and is   *)
(* left out.  NaN passes the clamp of set_param and is left out.           *)
(***************************************************************************)
EXTENDS Integers, Sequences

CONSTANTS
  NParams,   \* parameters of the effect
  Default,   \* their value in an effect just built
  Asked,     \* values a host sends
  Top,       \* the end of the range, from 0
  Rates,     \* sample rates
  Frames,    \* bound on the largest block an activation announces
  Users      \* bound on the loaders of the module

\* What is assumed of the constants; the runs assume it.
Assumptions ==
  /\ {NParams, Top, Frames, Users} \subseteq Nat
  /\ Default \in 0..Top

VARIABLES
  refs,      \* ENTRY_REFS
  table,     \* ENTRIES and BY_ID: 0 if null, else the number of the build
  builds,    \* history: how often build_entries ran
  desc,      \* the table that the instance's descriptor points into; 0 without instance
  values,    \* Inst.values
  fx,        \* the effect: its parameters and its sample rate
  rate,      \* defaultSampleRate, which an effect under construction reads
  active,    \* history: the rate of the last activation; 0 before any
  cap        \* frames of the scratch buffers; 0 before any activation

vars == <<refs, table, builds, desc, values, fx, rate, active, cap>>
entry == <<refs, table, builds>>

Ids == 1..NParams
Defaults == [i \in Ids |-> Default]
Built(r) == [params |-> Defaults, rate |-> r]
Clamped(v) == IF v < 0 THEN 0 ELSE IF v > Top THEN Top ELSE v

Init ==
  /\ refs = 0 /\ table = 0 /\ builds = 0 /\ desc = 0
  /\ values = Defaults /\ fx = Built(0) /\ rate = 0 /\ active = 0 /\ cap = 0

---------------------------------------------------------------------------
(* build_entries, entry_init, entry_deinit.                                *)

BuildEntries == table' = builds + 1 /\ builds' = builds + 1

\* Wrong version: every loader builds the table.
EntryInitRebuilds ==
  /\ refs < Users /\ builds <= Users
  /\ refs' = refs + 1 /\ BuildEntries
  /\ UNCHANGED <<desc, values, fx, rate, active, cap>>

EntryInit ==
  /\ refs < Users /\ builds <= Users
  /\ refs' = refs + 1
  /\ IF refs > 0 THEN UNCHANGED <<table, builds>>
     ELSE BuildEntries
  /\ UNCHANGED <<desc, values, fx, rate, active, cap>>

\* A loader that is the instance's own destroys the instance first; one call
\* too many finds nothing to free.
EntryDeinit ==
  /\ desc # 0 => refs > 1
  /\ refs' = IF refs > 0 THEN refs - 1 ELSE 0
  /\ table' = IF refs > 1 THEN table ELSE 0
  /\ UNCHANGED <<builds, desc, values, fx, rate, active, cap>>

---------------------------------------------------------------------------
(* factory_create and make, plug_destroy.                                  *)

Create ==
  /\ table # 0 /\ desc = 0
  /\ rate' = IF rate = 0 THEN CHOOSE r \in Rates : TRUE ELSE rate
  /\ fx' = Built(rate') /\ values' = Defaults
  /\ desc' = table /\ active' = 0 /\ cap' = 0
  /\ UNCHANGED entry

Destroy ==
  /\ desc # 0
  /\ desc' = 0 /\ values' = Defaults /\ fx' = Built(0) /\ active' = 0 /\ cap' = 0
  /\ UNCHANGED <<entry, rate>>

---------------------------------------------------------------------------
(* set_param by events, plug_activate, plug_reset.                         *)

Set(f, i, v) == IF i \in Ids THEN [f EXCEPT ![i] = Clamped(v)] ELSE f

\* params_flush and the first half of plug_process; 0 is an id it does not have.
Events == UNION {[1..n -> [id : 0..NParams, value : Asked]] : n \in 0..2}

Applied(f, es) == LET g[i \in 0..Len(es)] == IF i = 0 THEN f ELSE Set(g[i - 1], es[i].id, es[i].value)
                  IN g[Len(es)]

Take(es) == values' = Applied(values, es) /\ fx' = [fx EXCEPT !.params = Applied(@, es)]

Flush(es) ==
  /\ desc # 0 /\ Take(es)
  /\ UNCHANGED <<entry, desc, rate, active, cap>>

\* An effect that cannot be built leaves the old one, at a rate already changed.
Activate(r, n) ==
  /\ desc # 0
  /\ rate' = r
  /\ \/ fx' = [params |-> values, rate |-> r] /\ cap' = n /\ active' = r
     \/ UNCHANGED <<fx, cap, active>>
  /\ UNCHANGED <<entry, desc, values>>

\* Wrong version: the effect starts from its defaults.
ResetToDefaults ==
  /\ desc # 0 /\ cap # 0
  /\ rate' = fx.rate
  /\ fx' = Built(rate') \/ UNCHANGED fx
  /\ UNCHANGED <<entry, desc, values, active, cap>>

Reset ==
  /\ desc # 0 /\ cap # 0
  /\ rate' = fx.rate
  /\ fx' = [params |-> values, rate |-> rate'] \/ UNCHANGED fx
  /\ UNCHANGED <<entry, desc, values, active, cap>>

\* Another instance, in use elsewhere in the process, activates.
OtherActivates(r) ==
  /\ rate # 0 /\ rate' = r
  /\ UNCHANGED <<entry, desc, values, fx, active, cap>>

---------------------------------------------------------------------------
(* plug_process, state_load.                                               *)

\* The events count even if the instance was never activated and the call fails.
\* A block is run in pieces of cap frames at most.
Process(es) ==
  /\ desc # 0 /\ Take(es)
  /\ UNCHANGED <<entry, desc, rate, active, cap>>

\* A state: the count it declares, and the values it has.
States == [n : 0..NParams + 1, values : UNION {[1..k -> Asked] : k \in 0..NParams + 1}]

\* Read to its end and checked before any of it is applied; a state of another
\* build is applied as far as it goes.
StateLoad(st) ==
  /\ desc # 0
  /\ st.n <= Len(st.values)
  /\ Take([i \in 1..st.n |-> [id |-> i, value |-> st.values[i]]])
  /\ UNCHANGED <<entry, desc, rate, active, cap>>

Next ==
  \/ EntryInit \/ EntryDeinit \/ Create \/ Destroy \/ Reset
  \/ \E es \in Events : Flush(es) \/ Process(es)
  \/ \E r \in Rates : OtherActivates(r) \/ \E n \in 1..Frames : Activate(r, n)
  \/ \E st \in States : StateLoad(st)

Spec == Init /\ [][Next]_vars

---------------------------------------------------------------------------
\* "`values` is the host-facing truth and `fx` mirrors it": whatever order of
\* changes, loads, activations, resets and failures to build an effect; and the
\* effect runs at the rate it was activated with, though effects are built at a
\* rate that all instances of the process share.
EffectMirrorsValues == desc # 0 => fx.params = values /\ (active # 0 => fx.rate = active)

\* "A second loader in the same process must not rebuild the tables under the
\* first, nor tear them down out from under it": an instance's descriptor is in
\* the table that is there.
DescriptorLives == (desc # 0 => desc = table) /\ (refs > 0 <=> table # 0)

=============================================================================
