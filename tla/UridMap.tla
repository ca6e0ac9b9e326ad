------------------------------ MODULE UridMap -------------------------------
(***************************************************************************)
(* The URID map that the live LV2 adapter offers its plugin,               *)
(* csrc/lv2_live.c: map_uri and unmap_uri may be called by several threads *)
(* of the plugin at once, on the audio thread among others, so a lookup    *)
(* never waits.  Readers go by the published count alone; a writer takes   *)
(* a flag, and a call that finds the flag taken answers 0.                 *)
(*                                                                         *)
(* A URI of 256 characters or more is refused before the table is touched, *)
(* and is left out.                                                        *)
(***************************************************************************)
EXTENDS Naturals, Sequences

CONSTANTS
  Threads,   \* threads of the plugin
  Uris,      \* URIs that it maps
  Capacity   \* URIDS

ASSUME CapacityAssumption == Capacity \in Nat
ASSUME UriAssumption == "none" \notin Uris

VARIABLES
  uris,      \* the rows, published or not
  count,     \* uri_count
  guard,     \* map_guard
  pc,        \* where each thread is in map_uri
  call       \* its URI, whether that was published when it called, its result

vars == <<uris, count, guard, pc, call>>

Pending == Capacity + 1   \* no answer yet
Found(u) == {i \in 1..count : uris[i] = u}

Init ==
  /\ uris = [i \in 1..Capacity |-> "none"] /\ count = 0 /\ guard = FALSE
  /\ pc = [t \in Threads |-> "idle"]
  /\ call = [t \in Threads |-> [uri |-> "none", known |-> FALSE, answer |-> 0]]

Goto(t, l) == pc' = [pc EXCEPT ![t] = l]
Result(t, id) == call' = [call EXCEPT ![t].answer = id]

Call(t, u) ==
  /\ pc[t] = "idle" /\ Goto(t, "scan")
  /\ call' = [call EXCEPT ![t] = [uri |-> u, known |-> Found(u) # {}, answer |-> Pending]]
  /\ UNCHANGED <<uris, count, guard>>

\* Rows below the count never change, so the loop is one step.
Scan(t) ==
  /\ pc[t] = "scan"
  /\ \/ \E i \in Found(call[t].uri) : Result(t, i) /\ Goto(t, "idle")
     \/ Found(call[t].uri) = {} /\ Goto(t, "lock") /\ UNCHANGED call
  /\ UNCHANGED <<uris, count, guard>>

Lock(t) ==
  /\ pc[t] = "lock"
  /\ \/ guard /\ Result(t, 0) /\ Goto(t, "idle") /\ UNCHANGED guard
     \/ ~guard /\ guard' = TRUE /\ Goto(t, "rescan") /\ UNCHANGED call
  /\ UNCHANGED <<uris, count>>

\* Wrong version: the table is taken to be as it was before the flag was.
RescanSkipped(t) ==
  /\ pc[t] = "rescan"
  /\ Goto(t, IF count < Capacity THEN "store" ELSE "refuse")
  /\ UNCHANGED <<uris, count, guard, call>>

Rescan(t) ==
  /\ pc[t] = "rescan"
  /\ Goto(t, IF Found(call[t].uri) # {} THEN "found" ELSE IF count < Capacity THEN "store" ELSE "refuse")
  /\ UNCHANGED <<uris, count, guard, call>>

Store(t) ==
  /\ pc[t] = "store"
  /\ uris' = [uris EXCEPT ![count + 1] = call[t].uri]
  /\ Goto(t, "publish") /\ UNCHANGED <<count, guard, call>>

Publish(t) ==
  /\ pc[t] = "publish"
  /\ count' = count + 1
  /\ Goto(t, "found") /\ UNCHANGED <<uris, guard, call>>

Unlock(t) ==
  /\ guard' = FALSE /\ Goto(t, "idle")
  /\ \/ pc[t] = "found" /\ \E i \in Found(call[t].uri) : Result(t, i)
     \/ pc[t] = "refuse" /\ Result(t, 0)
  /\ UNCHANGED <<uris, count>>

Next ==
  \E t \in Threads :
    \/ \E u \in Uris : Call(t, u)
    \/ Scan(t) \/ Lock(t) \/ Rescan(t) \/ Store(t) \/ Publish(t) \/ Unlock(t)

Spec == Init /\ [][Next]_vars

---------------------------------------------------------------------------
\* What unmap_uri answers: the published rows.
Published == [i \in 1..count |-> uris[i]]

Abstract == INSTANCE UriTable WITH table <- Published

\* However calls of several threads overlap, the map is a table that only
\* grows: a URI gets one id, an id is answered only once its URI can be read
\* back, and a URI that was published before a call is found by it.
ImplementsTable == Abstract!Spec

=============================================================================
