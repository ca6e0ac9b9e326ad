------------------------------ MODULE ClapHost ------------------------------
(***************************************************************************)
(* Instances, block tokens and shared modules of the offline CLAP host,    *)
(* csrc/clap_host.c.                                                       *)
(*                                                                         *)
(* Any number of plugin instances are open at once: the default instance   *)
(* of the legacy calls, which also scans bundles, and instances opened for *)
(* a handle.  A block travels by token: filling an instance's input        *)
(* returns one, processing takes it and returns another for the output,    *)
(* and a token whose block is gone must be refused.  All instances of one  *)
(* bundle share its initialised module.                                    *)
(*                                                                         *)
(* Calls are serialized by the caller.  A refused call changes nothing.    *)
(* The audio of a block is the number of the call that wrote it.           *)
(* Parameters are in ClapParams.                                           *)
(***************************************************************************)
EXTENDS Naturals, FiniteSets

CONSTANTS
  Bundles,      \* plugin bundles on disk
  Configs,      \* sample rate, block size and channels of an instance
  MaxHandles,   \* largest handle, 2^53 - 1 in the code
  MaxTokens,    \* largest token, 2^53 - 1 in the code
  MaxAudio      \* bound on the calls that write audio

ASSUME BoundAssumption == MaxHandles \in Nat /\ MaxTokens \in Nat /\ MaxAudio \in Nat
ASSUME BundleAssumption == "none" \notin Bundles

VARIABLES
  inst,         \* the instances that exist: a function of their handles
  refs,         \* MODULES: users of each bundle's initialised module
  inited,       \* entry->init was called, and deinit not since
  nextHandle, nextToken,   \* NEXT_HANDLE, NEXT_TOKEN
  audio,        \* history: calls that wrote audio
  issued        \* history: every token returned, and what it named

vars == <<inst, refs, inited, nextHandle, nextToken, audio, issued>>

Default == 0
NoToken == 0            \* no block yet
NaN == MaxTokens + 1    \* the token of an exhausted token space, equal to none
Handles == DOMAIN inst

Closed == [entry |-> "none", plugin |-> FALSE, config |-> "none",
           in |-> 0, inTok |-> NoToken, out |-> 0, outTok |-> NoToken, outN |-> FALSE]

Init ==
  /\ inst = [h \in {Default} |-> Closed]
  /\ refs = [b \in Bundles |-> 0] /\ inited = {}
  /\ nextHandle = 0 /\ nextToken = 0 /\ audio = 0 /\ issued = {}

---------------------------------------------------------------------------
(* acquire_entry, unload.                                                  *)

\* Wrong version: the module is deinitialised with every user that leaves.
UnloadedAlwaysDeinit(b) ==
  IF b = "none" THEN [refs |-> refs, inited |-> inited]
  ELSE [refs |-> [refs EXCEPT ![b] = @ - 1], inited |-> inited \ {b}]

\* What is left when a user of bundle b goes.
Unloaded(b) ==
  IF b = "none" THEN [refs |-> refs, inited |-> inited]
  ELSE [refs |-> [refs EXCEPT ![b] = @ - 1],
        inited |-> IF refs[b] = 1 THEN inited \ {b} ELSE inited]

\* What there is when bundle b has one user more than in m.
Acquired(m, b) == [refs |-> [m.refs EXCEPT ![b] = @ + 1], inited |-> m.inited \cup {b}]

Modules(m) == refs' = m.refs /\ inited' = m.inited

Opened(b, c) == [Closed EXCEPT !.entry = b, !.plugin = TRUE, !.config = c]
Scanned(b) == [Closed EXCEPT !.entry = b]

---------------------------------------------------------------------------
(* The default instance: clap_host_scan, clap_host_open, clap_host_close.  *)

\* Scanning closes first.  A failing bundle is let go again; a scanned one is
\* held, without a plugin, and opening it creates one.
Scan ==
  LET m == Unloaded(inst[Default].entry)
  IN /\ \/ inst' = [inst EXCEPT ![Default] = Closed] /\ Modules(m)
        \/ \E b \in Bundles : /\ Modules(Acquired(m, b))
                              /\ inst' = [inst EXCEPT ![Default] = Scanned(b)]
     /\ UNCHANGED <<nextHandle, nextToken, audio, issued>>

\* A failed open closes; its tokens start over.
Open ==
  LET m == Unloaded(inst[Default].entry)
  IN /\ \/ inst' = [inst EXCEPT ![Default] = Closed] /\ Modules(m)
        \/ \E b \in Bundles, c \in Configs :
             Modules(Acquired(m, b)) /\ inst' = [inst EXCEPT ![Default] = Opened(b, c)]
     /\ issued' = {i \in issued : i.handle # Default}
     /\ UNCHANGED <<nextHandle, nextToken, audio>>

Close ==
  /\ inst' = [inst EXCEPT ![Default] = Closed]
  /\ Modules(Unloaded(inst[Default].entry))
  /\ UNCHANGED <<nextHandle, nextToken, audio, issued>>

---------------------------------------------------------------------------
(* clap_host_open_instance, clap_host_close_instance.                      *)

\* A failed open leaves nothing behind and takes no handle.
OpenInstance ==
  /\ nextHandle < MaxHandles
  /\ nextHandle' = nextHandle + 1
  /\ \E b \in Bundles, c \in Configs :
       /\ inst' = [h \in Handles \cup {nextHandle'} |->
                     IF h = nextHandle' THEN Opened(b, c) ELSE inst[h]]
       /\ Modules(Acquired([refs |-> refs, inited |-> inited], b))
  /\ UNCHANGED <<nextToken, audio, issued>>

CloseInstance(h) ==
  /\ h # Default
  /\ inst' = [k \in Handles \ {h} |-> inst[k]]
  /\ Modules(Unloaded(inst[h].entry))
  /\ UNCHANGED <<nextHandle, nextToken, audio, issued>>

---------------------------------------------------------------------------
(* Blocks: clap_in_fill and clap_in_tone, clap_in_copy_for, clap_process.  *)

\* next_token: the default instance counts its own blocks, the others share a
\* counter that stops instead of wrapping.
NextToken(h, previous) ==
  IF h = Default THEN previous + 1
  ELSE IF nextToken >= MaxTokens THEN NaN ELSE nextToken + 1

Count(h) ==
  nextToken' = IF h = Default \/ nextToken >= MaxTokens THEN nextToken ELSE nextToken + 1

Issue(h, kind, t) ==
  issued' = issued \cup {[token |-> t, handle |-> h, kind |-> kind, audio |-> audio']}

\* A token accepted by an instance: it names a block, and NaN is equal to none.
Accepts(t) == t # NoToken /\ t # NaN

NewInput(h, source) ==
  LET t == NextToken(h, inst[h].inTok)
  IN /\ inst' = [inst EXCEPT ![h].in = source, ![h].inTok = t]
     /\ Count(h) /\ Issue(h, "in", t)
     /\ UNCHANGED <<refs, inited, nextHandle>>

Fill(h) ==
  /\ inst[h].plugin /\ audio < MaxAudio
  /\ audio' = audio + 1
  /\ NewInput(h, audio')

\* The source's current output becomes the destination's input; equal
\* configurations only.
Copy(dst, src) ==
  /\ Default \notin {dst, src} /\ Accepts(inst[src].outTok) /\ audio < MaxAudio
  /\ inst[dst].config = inst[src].config
  /\ audio' = audio + 1
  /\ NewInput(dst, audio')

\* Wrong version: a failed block leaves the frames readable.
ProcessErrorKeepsFrames(h) ==
  /\ inst[h].plugin /\ Accepts(inst[h].inTok) /\ audio < MaxAudio
  /\ audio' = audio + 1
  /\ inst' = [inst EXCEPT ![h].out = audio']
  /\ UNCHANGED <<refs, inited, nextHandle, nextToken, issued>>

\* The plugin failed, having written what it liked: no frames, the old token.
ProcessError(h) ==
  /\ inst[h].plugin /\ Accepts(inst[h].inTok) /\ audio < MaxAudio
  /\ audio' = audio + 1
  /\ inst' = [inst EXCEPT ![h].out = audio', ![h].outN = FALSE]
  /\ UNCHANGED <<refs, inited, nextHandle, nextToken, issued>>

Process(h) ==
  /\ inst[h].plugin /\ Accepts(inst[h].inTok) /\ audio < MaxAudio
  /\ audio' = audio + 1
  /\ LET t == NextToken(h, inst[h].outTok)
     IN /\ inst' = [inst EXCEPT ![h].out = audio', ![h].outTok = t, ![h].outN = TRUE]
        /\ Count(h) /\ Issue(h, "out", t)
  /\ UNCHANGED <<refs, inited, nextHandle>>

Next ==
  \/ Scan \/ Open \/ Close \/ OpenInstance
  \/ \E h \in Handles : CloseInstance(h) \/ Fill(h) \/ Process(h) \/ ProcessError(h)
  \/ \E dst, src \in Handles : Copy(dst, src)

Spec == Init /\ [][Next]_vars

---------------------------------------------------------------------------
Tokens == 0..MaxTokens + 1 + MaxAudio

\* Types.
TypeOK ==
  /\ Handles \subseteq 0..MaxHandles /\ Default \in Handles
  /\ \A h \in Handles :
       inst[h] \in [entry : Bundles \cup {"none"}, plugin : BOOLEAN, config : Configs \cup {"none"},
                    in : 0..MaxAudio, inTok : Tokens, out : 0..MaxAudio, outTok : Tokens,
                    outN : BOOLEAN]
  /\ refs \in [Bundles -> Nat] /\ inited \subseteq Bundles
  /\ nextHandle \in 0..MaxHandles /\ nextToken \in 0..MaxTokens /\ audio \in 0..MaxAudio
  /\ issued \subseteq [token : Tokens, handle : 0..MaxHandles, kind : {"in", "out"},
                       audio : 0..MaxAudio]

\* clap_host.h: "Module initialization is shared until the last user closes."  A
\* bundle's module is initialised exactly while an instance uses it, scanned or
\* open, however opens, failures and closes interleave.
ModulesShared ==
  /\ \A b \in Bundles : refs[b] = Cardinality({h \in Handles : inst[h].entry = b})
  /\ inited = {inst[h].entry : h \in Handles} \ {"none"}
  /\ \A h \in Handles : inst[h].plugin => inst[h].entry \in inited

\* A token ever returned for a block is accepted as an input only by the
\* instance that returned it, as an input, and only while that block is in its
\* buffer (clap_process).
InputTokenNamesBlock ==
  \A h \in Handles, i \in issued :
    h # Default /\ i.handle # Default /\ Accepts(inst[h].inTok) /\ i.token = inst[h].inTok
      => i.handle = h /\ i.kind = "in" /\ i.audio = inst[h].in

\* No reader of an instance's output accepts a token that another instance returned,
\* or that was returned for an input; and clap_out_sample never returns a frame of
\* another block than its token names.  The other readers, clap_out_valid, the RMS and
\* the peak and clap_in_copy_for, still accept the old token after a failed process.
OutputTokenIsOwn ==
  \A h \in Handles, i \in issued :
    h # Default /\ i.handle # Default /\ Accepts(inst[h].outTok) /\ i.token = inst[h].outTok
      => i.handle = h /\ i.kind = "out" /\ (inst[h].outN => i.audio = inst[h].out)

\* clap_host.h: "Managed block tokens are opaque, negative and unique across
\* instances; stale and foreign tokens are refused."  Of managed instances, for inputs
\* and for the frames of outputs; of the other readers of outputs, foreign tokens only.
TokensNameBlocks == InputTokenNamesBlock /\ OutputTokenIsOwn

\* clap_host.h: "NaN when `dep` does not name the current output block, which is
\* what makes a stale token a visible error rather than a plausible-looking
\* wrong answer."  For every reader of the output, clap_out_valid and
\* clap_in_copy_for among them.
OutputTokenNamesBlock ==
  \A h \in Handles, i \in issued :
    i.handle = h /\ i.kind = "out" /\ Accepts(inst[h].outTok) /\ i.token = inst[h].outTok
      => i.audio = inst[h].out

=============================================================================
