----------------------------- MODULE LiveEngine -----------------------------
(***************************************************************************)
(* The queues of LiveRings in the hands of the threads of LiveSession, from *)
(* ap_live_open to ap_live_close.                                          *)
(*                                                                         *)
(* LiveRings lets stop reset the queues, and a block begin, only while no  *)
(* block is being processed.  Here neither waits for that: the reset is    *)
(* where ap_live_stop has it, and a block is processed by the timer worker *)
(* or by a device thread wherever LiveSession lets it be.                  *)
(*                                                                         *)
(* A thread in a function of the one module is not in one of the other:    *)
(* control makes one call at a time, and a thread inside process_block     *)
(* goes on when it has returned.  The plugin's process call is the step    *)
(* the two have in common.                                                 *)
(***************************************************************************)
EXTENDS LiveRings

CONSTANTS Drivers, DeviceThreads, ConcurrentBegin   \* as in LiveSession

VARIABLES
  s, plugin, ctl, worker, dev, aux,   \* as in LiveSession
  inside      \* the thread inside process_block

Session == INSTANCE LiveSession
sessionVars == <<s, plugin, ctl, worker, dev, aux>>
engineVars == <<vars, sessionVars, inside>>

Timer == "timer"    \* the worker, among the threads that process blocks
Threads == DeviceThreads \cup {Timer}
ASSUME SessionAssumption ==
  /\ Drivers \subseteq {"timer", "device"} /\ ConcurrentBegin \in BOOLEAN
  /\ DeviceThreads \cap {"free", "control", "none", Timer} = {}

At(t) == IF t = Timer THEN worker ELSE dev[t]

\* A session that ap_live_open has just returned.
EngineInit ==
  /\ Init
  /\ s \in {Session!Fresh(d) : d \in Drivers} /\ plugin = "inactive"
  /\ ctl = [at |-> "idle", by |-> "none", code |-> "OK"]
  /\ worker = "none" /\ dev = [t \in DeviceThreads |-> "idle"] /\ aux = "idle"
  /\ inside = "none"

---------------------------------------------------------------------------
(* Control.                                                                *)

StartRunning ==
  /\ control = "idle" /\ UNCHANGED inside
  /\ \/ Session!StartRun /\ IF s.driver = "device" THEN Running ELSE UNCHANGED vars
     \/ Session!StartSpawn /\ IF worker' = "begin" THEN Running ELSE UNCHANGED vars

\* A stop that finds the session inactive, called or from poll, only resets.
StopInactive ==
  /\ control = "idle" /\ UNCHANGED inside
  /\ \/ Session!StopCall /\ IF s.activated THEN UNCHANGED vars ELSE Reset
     \/ Session!Poll /\ IF s.restart /\ ~s.activated THEN Reset ELSE UNCHANGED vars

StopReset ==
  /\ control = "idle" /\ Session!StopReset /\ Reset /\ UNCHANGED inside

ControlElse ==
  /\ control = "idle"
  /\ \/ Session!StartCheck \/ Session!StartClear \/ Session!StartActivate
     \/ Session!StartWait \/ Session!StartError
     \/ Session!StopSet \/ Session!StopGuard \/ Session!StopBusy \/ Session!StopJoin
     \/ Session!StopDeactivate \/ Session!StopPrepared \/ Session!StopClear
     \/ Session!PollCallback
  /\ UNCHANGED <<vars, inside>>

\* A session that is to stop, or has, takes no more input.
TryWrite ==
  /\ ctl.at = "idle" /\ ~s.stop /\ ~s.restart /\ s.state # "FINISHED"
  /\ Write /\ UNCHANGED <<sessionVars, inside>>

TryRead == ctl.at = "idle" /\ Read /\ UNCHANGED <<sessionVars, inside>>

Store == (WriteStore \/ ReadStore) /\ UNCHANGED <<sessionVars, inside>>

---------------------------------------------------------------------------
(* The audio threads.                                                      *)

Enters(t) ==
  /\ At(t) = "processing" /\ inside = "none"
  /\ Process /\ inside' = t /\ UNCHANGED sessionVars

PluginReturns ==
  /\ \/ inside = Timer /\ Session!WorkerProcess
     \/ inside \in DeviceThreads /\ Session!ProcessBlock(inside)
  /\ ProcessPlugin /\ state' = IF s' = s THEN state ELSE "failed"
  /\ UNCHANGED inside

Continues ==
  /\ ProcessRelease \/ ProcessOutput \/ ProcessPublish
  /\ inside' = IF audio' = "idle" THEN "none" ELSE inside
  /\ UNCHANGED sessionVars

WorkerElse ==
  /\ inside # Timer
  /\ \/ Session!WorkerBegin \/ Session!WorkerReady \/ Session!WorkerLoop
     \/ Session!WorkerEnd \/ Session!WorkerFinish
  /\ UNCHANGED <<vars, inside>>

DeviceElse(t) ==
  /\ inside # t
  /\ \/ Session!DeviceCall(t)
     \/ Session!BeginState(t) \/ Session!BeginStop(t) \/ Session!BeginStart(t)
     \/ Session!ProcessCheck(t)
     \/ Session!EndCheck(t) \/ Session!EndStop(t) \/ Session!EndFinish(t)
     \/ Session!Release(t)
  /\ UNCHANGED <<vars, inside>>

PluginElse == Session!PluginStep /\ UNCHANGED <<vars, inside>>

EngineNext ==
  \/ StartRunning \/ StopInactive \/ StopReset \/ ControlElse
  \/ TryWrite \/ TryRead \/ Store
  \/ \E t \in Threads : Enters(t)
  \/ PluginReturns \/ Continues \/ WorkerElse \/ PluginElse
  \/ \E t \in DeviceThreads : DeviceElse(t)

EngineSpec == EngineInit /\ [][EngineNext]_engineVars

---------------------------------------------------------------------------
\* A thread that is about to process a block finds no other inside and the
\* session running, and once the session is inactive nobody is inside: the
\* reset of ap_live_stop never meets a block that is being processed.
BlocksUndisturbed ==
  /\ \A t \in Threads : At(t) = "processing" /\ inside # t =>
       inside = "none" /\ audio = "idle" /\ state = "running"
  /\ ~s.activated => audio = "idle" /\ inside = "none"

=============================================================================
