------------------------------ MODULE Vst3Host ------------------------------
(***************************************************************************)
(* Opening, closing and driving a plugin in the offline VST3 host,         *)
(* csrc/vst3_host.cpp.                                                     *)
(*                                                                         *)
(* A VST3 plugin has two halves, a processor and an edit controller.  The  *)
(* host walks the processor through a fixed sequence of calls, any of      *)
(* which may fail, and sends a parameter to both halves, to the processor  *)
(* with the next block only.  The plugin may announce a changed latency    *)
(* from within any call.                                                   *)
(*                                                                         *)
(* Refused calls change nothing.  Audio and tokens are left out: a block   *)
(* may run any number of times, and the output protocol is ClapHost's.     *)
(***************************************************************************)
EXTENDS Naturals, Sequences, FiniteSets

CONSTANTS
  Params,     \* parameter ids that the open plugin declares
  Values,     \* normalized values a driver sends
  Slots,      \* VST3_HOST_PARAM_SLOTS
  Latencies   \* latencies the plugin may report

ASSUME SlotAssumption == Slots \in Nat
ASSUME NameAssumption == /\ Params \cap {"none", "unknown"} = {}
                         /\ Values \cap {"nan", "default"} = {}

VARIABLES
  at,        \* "idle" between calls, or the next call vst3_host_open makes
  s,         \* State: open, processing, latency
  slot,      \* slot_id, slot_val
  plugin,    \* the processor: what it has been called, its latency and parameters
  view,      \* the parameters in the controller
  asked,     \* history: what the last vst3_process asked of each parameter
  drivers,   \* history: the slots each parameter was sent through
  failed     \* history: some process call failed since the open

vars == <<at, s, slot, plugin, view, asked, drivers, failed>>

NoSlot == [id |-> "none", value |-> "nan"]
Gone == [stage |-> "none", latency |-> 0, value |-> [p \in Params |-> "default"]]
Unasked == [p \in Params |-> "nan"]
Shut == [open |-> FALSE, processing |-> FALSE, latency |-> 0]

Init ==
  /\ at = "idle" /\ s = Shut
  /\ slot = [i \in 1..Slots |-> NoSlot]
  /\ plugin = Gone /\ view = Gone.value
  /\ asked = Unasked /\ drivers = [p \in Params |-> {}] /\ failed = FALSE

Forget ==
  /\ asked' = Unasked /\ drivers' = [p \in Params |-> {}] /\ failed' = FALSE
  /\ view' = Gone.value

---------------------------------------------------------------------------
(* vst3_host_close, which vst3_host_scan and every failure in              *)
(* vst3_host_open call.  The calls it makes go by the host's own flags.    *)

\* What the processor is left in by setProcessing(false) and setActive(false).
Stopped(stage) == IF s.processing /\ stage = "processing" THEN "active" ELSE stage
Deactivated(stage) == IF s.open /\ stage = "active" THEN "setup" ELSE stage

\* A plugin that is still active or processing when it is released is "leaked".
Released(stage) ==
  IF Deactivated(Stopped(stage)) \in {"active", "processing"} THEN "leaked" ELSE "none"

CloseAll ==
  /\ s' = Shut
  /\ plugin' = [Gone EXCEPT !.stage = Released(plugin.stage)]
  /\ at' = "idle" /\ Forget /\ UNCHANGED slot

Close == at = "idle" /\ CloseAll

---------------------------------------------------------------------------
(* vst3_host_open, one step per call into the plugin.  The arguments, the  *)
(* class, its interfaces and its buses are checked before the plugin is    *)
(* set up, and each check may fail.                                        *)

OpenStart ==
  /\ at = "idle"
  /\ s' = Shut /\ Forget
  /\ plugin' = [Gone EXCEPT !.stage = IF Released(plugin.stage) = "leaked" THEN "leaked"
                                      ELSE "created"]
  /\ at' = "setup" /\ UNCHANGED slot

OpenFails == at \in {"setup", "active", "prepare"} /\ CloseAll

OpenSetup ==
  /\ at = "setup"
  /\ plugin' = [plugin EXCEPT !.stage = "setup"]
  /\ at' = "active" /\ UNCHANGED <<s, slot, view, asked, drivers, failed>>

\* Wrong version: open is set only when all has succeeded.
OpenActiveUnmarked ==
  /\ at = "active"
  /\ plugin' = [plugin EXCEPT !.stage = "active"]
  /\ at' = "prepare" /\ UNCHANGED <<s, slot, view, asked, drivers, failed>>

\* From here on, close deactivates.
OpenActive ==
  /\ at = "active"
  /\ plugin' = [plugin EXCEPT !.stage = "active"]
  /\ s' = [s EXCEPT !.open = TRUE]
  /\ at' = "prepare" /\ UNCHANGED <<slot, view, asked, drivers, failed>>

\* The buffers are ready; the parameters and the latency are read.
OpenPrepare ==
  /\ at = "prepare"
  /\ s' = [s EXCEPT !.latency = plugin.latency]
  /\ at' = "process" /\ UNCHANGED <<slot, plugin, view, asked, drivers, failed>>

\* Whether the plugin implements setProcessing is not looked at.
OpenProcessing ==
  /\ at = "process"
  /\ plugin' = [plugin EXCEPT !.stage = "processing"]
  /\ s' = [s EXCEPT !.processing = TRUE]
  /\ slot' = [i \in 1..Slots |-> NoSlot]
  /\ at' = "idle" /\ UNCHANGED <<view, asked, drivers, failed>>

\* Wrong version: the latency is read again only while processing.
RestartWhileProcessing ==
  /\ plugin.stage # "none"
  /\ \E l \in Latencies :
       /\ plugin' = [plugin EXCEPT !.latency = l]
       /\ s' = IF s.processing THEN [s EXCEPT !.latency = l] ELSE s
  /\ UNCHANGED <<at, slot, view, asked, drivers, failed>>

\* The plugin announces a latency: restartComponent and on_restart.
Restart ==
  /\ plugin.stage # "none"
  /\ \E l \in Latencies :
       /\ plugin' = [plugin EXCEPT !.latency = l]
       /\ s' = IF s.open THEN [s EXCEPT !.latency = l] ELSE s
  /\ UNCHANGED <<at, slot, view, asked, drivers, failed>>

---------------------------------------------------------------------------
(* vst3_process.                                                           *)

Args == {[id |-> "none", value |-> "nan"]} \cup
        [id : Params, value : Values \cup {"nan"}] \cup [id : {"unknown"}, value : Values]

\* Wrong version: a slot that turns to another parameter compares values only.
SendsNewValue(i, arg) == arg.id \in Params /\ arg.value # "nan" /\ slot[i].value # arg.value

Sends(i, arg) == arg.id \in Params /\ arg.value # "nan" /\ slot[i] # arg

\* An unused slot forgets; a NaN value and an unknown id leave it as it was.
NewSlot(i, arg) ==
  IF arg.id = "none" THEN NoSlot ELSE IF Sends(i, arg) THEN arg ELSE slot[i]

\* One queue per parameter, one point at offset 0: the last slot's value stays.
Sent(args, old) ==
  [p \in Params |->
     LET by == {i \in 1..Slots : args[i].id = p /\ Sends(i, args[i])}
     IN IF by = {} THEN old[p] ELSE args[CHOOSE i \in by : \A j \in by : j <= i].value]

Ask(args) ==
  /\ asked' = [p \in Params |->
       LET by == {i \in 1..Slots : args[i].id = p /\ args[i].value # "nan"}
       IN IF by = {} THEN "nan" ELSE args[CHOOSE i \in by : \A j \in by : j <= i].value]
  /\ drivers' = [p \in Params |-> drivers[p] \cup {i \in 1..Slots : args[i].id = p}]

\* A processor that fails may or may not have taken the changes.
Process(args) ==
  /\ at = "idle" /\ s.open
  /\ view' = Sent(args, view)
  /\ slot' = [i \in 1..Slots |-> NewSlot(i, args[i])]
  /\ \/ plugin' = [plugin EXCEPT !.value = Sent(args, @)] /\ UNCHANGED failed
     \/ plugin' = plugin /\ failed' = TRUE
  /\ Ask(args)
  /\ UNCHANGED <<at, s>>

Next ==
  \/ Close \/ OpenStart \/ OpenFails \/ OpenSetup \/ OpenActive \/ OpenPrepare \/ OpenProcessing
  \/ Restart
  \/ \E args \in [1..Slots -> Args] : Process(args)

Spec == Init /\ [][Next]_vars

---------------------------------------------------------------------------
\* vst3_host.h on close: "setProcessing(false), setActive(false), terminate,
\* release, unload."  Whichever call of an open fails, and whatever closes
\* follow, no plugin is released while it is active or processing; between
\* calls there is a plugin exactly if the host is open, and it is processing.
LeftInOrder ==
  /\ plugin.stage # "leaked"
  /\ at = "idle" => s.open = s.processing /\ plugin.stage = IF s.open THEN "processing" ELSE "none"

\* "getLatencySamples(), read at open and after every restartComponent
\* (kLatencyChanged) the plugin requests": no announcement is missed, during
\* an open neither.
LatencyIsCurrent == at = "idle" /\ s.open => s.latency = plugin.latency

\* "The host mirrors every change it sends into the controller so the two views
\* agree", and a parameter that has been driven through one slot only has the
\* value asked for, on the block it is asked for.  Not so after a failed process
\* call, whose changes are not sent again.
AskedIsHeld ==
  ~failed => /\ view = plugin.value
             /\ \A p \in Params : asked[p] # "nan" /\ Cardinality(drivers[p]) = 1
                  => plugin.value[p] = asked[p]

=============================================================================
