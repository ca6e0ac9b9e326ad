--------------------------- MODULE PluginTemplate ---------------------------
(***************************************************************************)
(* The plugins that the package exports: the C and C++ templates around a  *)
(* generated step function, csrc/clap_plugin_template.c,                   *)
(* csrc/vst3_plugin_template.cpp and csrc/lv2_plugin_template.c.           *)
(*                                                                         *)
(* A block comes with parameter changes.  CLAP delivers them in one list,  *)
(* ordered by frame; VST3 in one queue per parameter, each ordered; LV2    *)
(* leaves a value per parameter in its control ports, read as the block    *)
(* begins.  The state is a list of (id, value) pairs.                      *)
(*                                                                         *)
(* Values are counted in halves, so that rounding shows.  VST3 has them    *)
(* normalised to [0, 1] on the wire and in the controller: here in units   *)
(* of 1 / Scale(p), and without the error of floating-point arithmetic.  A *)
(* frame's output is the parameters it was computed with and how many      *)
(* frames the state of the step function had seen.                         *)
(***************************************************************************)
EXTENDS Integers, Sequences, FiniteSetsExt

CONSTANTS
  Params,    \* ids that the descriptor declares
  Stepped,   \* those that are rounded to whole numbers
  Low, High, Default,  \* of each parameter, as declared, in halves
  Asked,     \* values a host sends, in halves
  Block,     \* bound on the length of a block
  MaxChanges,    \* bound on the changes that come with a block
  Played     \* bound on the frames processed since the last activation

\* What is assumed of the constants; the runs assume it.
Assumptions ==
  /\ Stepped \subseteq Params /\ {"unknown", "all"} \cap Params = {}
  /\ Low \in [Params -> Int] /\ High \in [Params -> Int] /\ Default \in [Params -> Int]
  /\ \A p \in Params : Low[p] < High[p] /\ Default[p] \in Low[p]..High[p]
  /\ Asked \subseteq Int /\ Block \in Nat /\ MaxChanges \in Nat /\ Played \in Nat

VARIABLES
  format,    \* "clap", "vst3" or "lv2"
  values,    \* the values in force, clamped and rounded
  view,      \* VST3: the controller's values, normalised; else not used
  mem,       \* frames the step function has seen since it was reset
  block,     \* the block in process: its length and its changes
  frame,     \* the next frame of it, or "idle"
  cursor,    \* how far each queue has been applied, as a place in the block's changes
  \* history
  since,     \* frames that were sent since the last activation
  out,       \* the frames of the block that are computed
  heard      \* what its frames have to be

vars == <<format, values, view, mem, block, frame, cursor, since, out, heard>>

---------------------------------------------------------------------------
(* The SDK's RangeParameter, for a parameter of stepCount steps.           *)

\* stepCount: the whole number next to the length of the range, the even one of two.
Steps(p) ==
  LET range == High[p] - Low[p]
      k == range \div 2
  IN IF p \notin Stepped THEN 0
     ELSE IF range % 2 = 1 /\ k % 2 = 1 THEN k + 1 ELSE k

\* What 1 stands for, and with more than one step the place of the last step.
Scale(p) == IF Steps(p) > 1 THEN 2 * Steps(p) ELSE High[p] - Low[p]

Clip(v, low, high) == IF v < low THEN low ELSE IF v > high THEN high ELSE v

\* plainParamToNormalized, and the clip of setParamNormalized.
ToNorm(p, v) == Clip(v - Low[p], 0, Scale(p))

\* normalizedParamToPlain: with more than one step, stepCount + 1 cells of one size.
ToPlain(p, n) ==
  Low[p] + IF Steps(p) > 1
           THEN 2 * Clip((n * (Steps(p) + 1)) \div Scale(p), 0, Steps(p))
           ELSE n

---------------------------------------------------------------------------
\* set_param, apply_plain: to the range, then half away from zero.
Rounded(v) == IF v >= 0 THEN 2 * ((v + 1) \div 2) ELSE -2 * ((1 - v) \div 2)

Took(p, v) ==
  LET c == Clip(v, Low[p], High[p]) IN IF p \in Stepped THEN Rounded(c) ELSE c

\* The plain value that a host's v is for the plugin: VST3 sends it normalised.
Arriving(p, v) == IF format = "vst3" THEN ToPlain(p, ToNorm(p, v)) ELSE v

\* The value of p when the changes of es at the places in I have been applied to old.
Latest(es, I, p, old) ==
  LET own == {i \in I : es[i].id = p}
  IN IF own = {} THEN old ELSE Took(p, Arriving(p, es[Max(own)].value))

Idle == -1
NoBlock == [n |-> 0, events |-> <<>>]

\* make, initialize, instantiate.  The controller has the default as declared.
Init ==
  /\ format \in {"clap", "vst3", "lv2"}
  /\ values = [p \in Params |-> Took(p, Default[p])]
  /\ view = [p \in Params |-> Default[p] - Low[p]]
  /\ mem = 0 /\ block = NoBlock /\ frame = Idle /\ cursor = <<>>
  /\ since = 0 /\ out = <<>> /\ heard = <<>>

\* plug_activate and plug_reset, setActive, activate: the parameters stay.
Activate ==
  /\ frame = Idle
  /\ mem' = 0 /\ since' = 0
  /\ UNCHANGED <<format, values, view, block, frame, cursor, out, heard>>

---------------------------------------------------------------------------
(* plug_process, process, run.                                             *)

Change == [id : Params \cup {"unknown"}, value : Asked, time : 0..Block]
Changes == UNION {[1..n -> Change] : n \in 0..MaxChanges}

\* What a host may send with a block of n frames: ordered, within the block, and
\* with a block of no frames whatever it likes (params_flush in CLAP).
Sendable(es, n) ==
  /\ \A i \in DOMAIN es : n > 0 => es[i].time < n
  /\ \A i, j \in DOMAIN es : i < j => es[i].time <= es[j].time
  /\ format = "lv2" => /\ \A i \in DOMAIN es : es[i].time = 0 /\ es[i].id # "unknown"
                       /\ \A i, j \in DOMAIN es : es[i].id = es[j].id => i = j

\* A queue is the places of its changes in the block.
Queue(k) == {i \in DOMAIN block.events : k = "all" \/ block.events[i].id = k}
Keys == IF format = "vst3" THEN Params ELSE {"all"}

\* Where the cursor of queue k stops when the changes up to frame f are applied:
\* at the first that is later.
Upto(k, f) ==
  Min({i \in Queue(k) : cursor[k] <= i /\ block.events[i].time > f} \cup {Len(block.events) + 1})

\* The parameters when each queue k has been applied up to before to[k].
After(to) ==
  [p \in Params |->
     LET k == IF format = "vst3" THEN p ELSE "all"
     IN Latest(block.events, {i \in Queue(k) : cursor[k] <= i /\ i < to[k]}, p, values[p])]

Due(f) == [k \in Keys |-> Upto(k, f)]

\* What the formats promise of frame f of a block with changes es.
Expected(es, f) ==
  [p \in Params |-> Latest(es, {i \in DOMAIN es : es[i].time <= f}, p, values[p])]

Begin(n, es) ==
  /\ frame = Idle /\ since + n <= Played /\ Sendable(es, n)
  /\ block' = [n |-> n, events |-> es] /\ frame' = 0
  /\ cursor' = [k \in Keys |-> 1]
  /\ heard' = [i \in 1..n |-> [params |-> Expected(es, i - 1), seen |-> since + i - 1]]
  /\ since' = since + n /\ UNCHANGED <<format, values, view, mem, out>>

Compute(to) ==
  /\ frame \in 0..block.n - 1
  /\ values' = After(to) /\ cursor' = to
  /\ out' = Append(out, [params |-> After(to), seen |-> mem])
  /\ mem' = mem + 1 /\ frame' = frame + 1
  /\ UNCHANGED <<format, view, block, since, heard>>

\* Wrong version: at most one change per frame and queue.
StepOneChange ==
  Compute([k \in Keys |-> IF Upto(k, frame) > cursor[k] THEN cursor[k] + 1 ELSE cursor[k]])

\* The changes due, then one frame.
Step == Compute(Due(frame))

\* Wrong version: the controller is told what arrived.
FinishUnsynced ==
  /\ frame = block.n
  /\ values' = After(Due(Block))
  /\ view' = [p \in Params |->
               IF format # "vst3" \/ Queue(p) = {} THEN view[p]
               ELSE ToNorm(p, block.events[Max(Queue(p))].value)]
  /\ block' = NoBlock /\ frame' = Idle /\ cursor' = <<>> /\ out' = <<>> /\ heard' = <<>>
  /\ UNCHANGED <<format, mem, since>>

\* What is left of the queues, and VST3's sync_controller for each of them.
Finish ==
  /\ frame = block.n
  /\ values' = After(Due(Block))
  /\ view' = [p \in Params |->
               IF format # "vst3" \/ Queue(p) = {} THEN view[p]
               ELSE ToNorm(p, After(Due(Block))[p])]
  /\ block' = NoBlock /\ frame' = Idle /\ cursor' = <<>> /\ out' = <<>> /\ heard' = <<>>
  /\ UNCHANGED <<format, mem, since>>

---------------------------------------------------------------------------
(* state_load and setState; LV2 has none.                                  *)

\* The pairs are applied as they are read, and a short stream fails after them.
Load(es) ==
  /\ format # "lv2" /\ frame = Idle
  /\ values' = [p \in Params |-> Latest(es, DOMAIN es, p, values[p])]
  /\ view' = [p \in Params |->
               IF format # "vst3" \/ \A i \in DOMAIN es : es[i].id # p THEN view[p]
               ELSE ToNorm(p, values'[p])]
  /\ UNCHANGED <<format, mem, block, frame, cursor, since, out, heard>>

Next ==
  \/ Activate \/ Step \/ Finish
  \/ \E n \in 0..Block, es \in Changes : Begin(n, es)
  \/ \E es \in Changes : Load(es)

Spec == Init /\ [][Next]_vars

---------------------------------------------------------------------------
\* "Sample-accurate automation": however the host cuts the stream into blocks,
\* each frame is computed with the last value sent for it or before it, in the
\* parameter's range, and by a step function that saw every frame before it.
SampleAccurate == out = SubSeq(heard, 1, Len(out))

\* A parameter that is not rounded, or rounded on a range and a default of whole numbers.
Whole(p) == p \in Stepped => \A v \in {Low[p], High[p], Default[p]} : v % 2 = 0

\* VST3 template: between calls, the controller shows for each parameter the value
\* that the step function is given, through blocks, flushes and loaded states, whatever
\* the host sent -- as long as a rounded parameter is declared with whole numbers.
ViewsAgree ==
  format = "vst3" /\ frame = Idle => \A p \in Params : Whole(p) => ToPlain(p, view[p]) = values[p]

\* VST3 template: "the controller is told where each parameter ended up -- the
\* value that took effect, clamped and rounded, not the one that arrived -- so
\* the two views agree": as it is said, of every parameter that came with a block.
ToldWhatTookEffect ==
  [][format = "vst3" /\ frame # Idle /\ frame' = Idle =>
       \A p \in Params : Queue(p) # {} => ToPlain(p, view'[p]) = values'[p]]_vars

=============================================================================
