---------------------------- MODULE LiveSession ----------------------------
(***************************************************************************)
(* The lifecycle of one live session, csrc/clap_live.c.                    *)
(*                                                                         *)
(* Three kinds of thread share struct ap_live: the control thread, which   *)
(* opened the session and makes every ap_live_* call; the audio thread,    *)
(* which is the timer worker the session spawns (driver "timer") or a      *)
(* thread of the integrator calling ap_live_device_begin/process/end       *)
(* (driver "device"); and a thread of the plugin calling the host's        *)
(* request_restart and request_callback.                                   *)
(*                                                                         *)
(* One action is one access to an atomic field that another thread may     *)
(* also access, or one call into the plugin.  Audio data, queues, stats    *)
(* and priorities beyond their error results are left out; the queues have *)
(* a module of their own, LiveRings.                                       *)
(***************************************************************************)
EXTENDS Naturals, FiniteSets

CONSTANTS
  Drivers,         \* the values ap_live_config.driver may take
  DeviceThreads,   \* threads of the integrator that may call ap_live_device_*
  ConcurrentBegin  \* TRUE when device_begin may overlap ap_live_stop

ASSUME DriverAssumption == Drivers \subseteq {"timer", "device"}
ASSUME ThreadAssumption == DeviceThreads \cap {"free", "control", "none"} = {}
ASSUME BeginAssumption  == ConcurrentBegin \in BOOLEAN

VARIABLES
  s,        \* struct ap_live; guard is the holder of device_guard, owner the
            \* device_thread while device_started
  plugin,   \* what the plugin has been told: none, inactive, active, processing
  ctl,      \* control: where it is, which call runs ap_live_stop, and the code
            \* that call returns then or the last call returned
  worker,   \* where the timer worker is; "none" when not joinable
  dev,      \* where each device thread is
  aux       \* where the plugin's own thread is

vars == <<s, plugin, ctl, worker, dev, aux>>
audio == <<worker, dev, aux>>     \* the threads other than control

Fresh(driver) ==
  [open |-> TRUE, driver |-> driver, activated |-> FALSE,
   state |-> "PREPARED", error |-> "OK", stop |-> FALSE, ready |-> FALSE,
   restart |-> FALSE, callback |-> FALSE, guard |-> "free", owner |-> "none"]

Goto(at) == ctl' = [ctl EXCEPT !.at = at]
Return(code) == ctl' = [at |-> "idle", by |-> "none", code |-> code]

---------------------------------------------------------------------------
(* ap_live_open_adapter and ap_live_close.                                 *)

Init ==
  /\ s \in {[Fresh(d) EXCEPT !.open = FALSE] : d \in Drivers}
  /\ plugin = "none"
  /\ ctl = [at |-> "idle", by |-> "none", code |-> "OK"]
  /\ worker = "none" /\ dev = [t \in DeviceThreads |-> "idle"] /\ aux = "idle"

\* A fresh session, or NULL when the plugin cannot be created and initialised.
Open ==
  /\ ctl.at = "idle" /\ ~s.open
  /\ \/ s' \in {Fresh(d) : d \in Drivers} /\ plugin' = "inactive" /\ Return("OK")
     \/ Return("PLUGIN") /\ UNCHANGED <<s, plugin>>
  /\ UNCHANGED audio

\* The caller must exclude every other access, and a plugin joins its own
\* threads in destroy.
Close ==
  /\ ctl.at = "idle" /\ s.open
  /\ \A t \in DeviceThreads : dev[t] = "idle"
  /\ IF s.activated \/ worker # "none"
     THEN Return("STATE") /\ UNCHANGED <<s, plugin>>
     ELSE aux = "idle" /\ s' = [s EXCEPT !.open = FALSE] /\ plugin' = "none" /\ Return("OK")
  /\ UNCHANGED audio

---------------------------------------------------------------------------
(* ap_live_start, one step per contended access.                           *)

StartCheck ==
  /\ ctl.at = "idle" /\ s.open
  /\ IF worker # "none" \/ s.activated \/ s.state # "PREPARED" \/ s.restart
     THEN Return("STATE") ELSE Goto("start_clear")
  /\ UNCHANGED <<s, plugin, audio>>

StartClear ==
  /\ ctl.at = "start_clear"
  /\ s' = [s EXCEPT !.stop = FALSE, !.ready = FALSE, !.error = "OK"]
  /\ Goto("start_activate") /\ UNCHANGED <<plugin, audio>>

StartActivate ==
  /\ ctl.at = "start_activate"
  /\ \/ plugin' = "active" /\ s' = [s EXCEPT !.activated = TRUE] /\ Goto("start_run")
     \/ Return("PLUGIN") /\ UNCHANGED <<s, plugin>>
  /\ UNCHANGED audio

StartRun ==
  /\ ctl.at = "start_run"
  /\ s' = [s EXCEPT !.state = "RUNNING"]
  /\ IF s.driver = "device" THEN Return("OK") ELSE Goto("start_spawn")
  /\ UNCHANGED <<plugin, audio>>

StartSpawn ==
  /\ ctl.at = "start_spawn"
  /\ \/ worker' = "begin" /\ Goto("start_wait") /\ UNCHANGED <<s, plugin>>
     \/ /\ plugin' = "inactive" /\ s' = [s EXCEPT !.activated = FALSE, !.state = "PREPARED"]
        /\ Return("STATE") /\ UNCHANGED worker
  /\ UNCHANGED <<dev, aux>>

StartWait ==
  /\ ctl.at = "start_wait" /\ s.ready
  /\ Goto("start_error") /\ UNCHANGED <<s, plugin, audio>>

\* A begin failure, or a block that already failed, stops the session again.
StartError ==
  /\ ctl.at = "start_error"
  /\ IF s.error = "OK" THEN Return("OK")
     ELSE ctl' = [at |-> "stop_set", by |-> "start", code |-> s.error]
  /\ UNCHANGED <<s, plugin, audio>>

---------------------------------------------------------------------------
(* ap_live_stop, called by the integrator, by ap_live_poll or by a failed  *)
(* ap_live_start.                                                          *)

\* clap_live.h asks the integrator to quiesce its callbacks before stop.  With
\* ConcurrentBegin FALSE it does so for device_begin; process and end may still
\* overlap a call that stops an active session.
StopAt  == {"stop_set", "stop_guard", "stop_busy", "stop_join", "stop_deactivate",
            "stop_reset", "stop_prepared", "stop_clear"}
BeginAt == {"begin", "begin_stop", "starting"}
Quiesced == ConcurrentBegin \/ \A t \in DeviceThreads : dev[t] \notin BeginAt

\* Wrong version: a poll that stopped the session forgets the callback.
StopDoneSkipsCallback(by, code) ==
  IF by = "poll" /\ code = "OK"
  THEN ctl' = [at |-> "poll_callback", by |-> by, code |-> code]
  ELSE Return(code)

\* The end of a successful stop; a poll goes on to the callback.
StopDone(by, code) ==
  IF by = "poll" THEN ctl' = [at |-> "poll_callback", by |-> by, code |-> code]
  ELSE Return(code)

\* An inactive session only has its queues reset.
StopEnter(by, code) ==
  IF s.activated THEN ctl' = [at |-> "stop_set", by |-> by, code |-> code]
  ELSE StopDone(by, code)

StopCall ==
  /\ ctl.at = "idle" /\ s.open
  /\ StopEnter("stop", "OK") /\ UNCHANGED <<s, plugin, audio>>

StopSet ==
  /\ ctl.at = "stop_set" /\ Quiesced
  /\ s' = [s EXCEPT !.stop = TRUE]
  /\ Goto(IF s.driver = "device" THEN "stop_guard" ELSE "stop_join")
  /\ UNCHANGED <<plugin, audio>>

StopGuard ==
  /\ ctl.at = "stop_guard"
  /\ IF s.guard = "free"
     THEN s' = [s EXCEPT !.guard = "control"] /\ Goto("stop_busy")
     ELSE Return("AGAIN") /\ UNCHANGED s
  /\ UNCHANGED <<plugin, audio>>

\* Wrong version: stop ignores a device thread that has begun.
StopNeverBusy ==
  /\ ctl.at = "stop_busy"
  /\ s' = [s EXCEPT !.guard = "free"]
  /\ Goto("stop_deactivate") /\ UNCHANGED <<plugin, audio>>

StopBusy ==
  /\ ctl.at = "stop_busy"
  /\ s' = [s EXCEPT !.guard = "free"]
  /\ IF s.owner # "none" THEN Return("AGAIN") ELSE Goto("stop_deactivate")
  /\ UNCHANGED <<plugin, audio>>

StopJoin ==
  /\ ctl.at = "stop_join" /\ worker = "done"
  /\ worker' = "none"
  /\ Goto("stop_deactivate") /\ UNCHANGED <<s, plugin, dev, aux>>

StopDeactivate ==
  /\ ctl.at = "stop_deactivate"
  /\ plugin' = "inactive" /\ s' = [s EXCEPT !.activated = FALSE]
  /\ Goto("stop_reset") /\ UNCHANGED audio

\* Four stores put both queues' indices back to zero.
StopReset ==
  /\ ctl.at = "stop_reset"
  /\ Goto("stop_prepared") /\ UNCHANGED <<s, plugin, audio>>

StopPrepared ==
  /\ ctl.at = "stop_prepared"
  /\ s' = [s EXCEPT !.state = "PREPARED"]
  /\ Goto("stop_clear") /\ UNCHANGED <<plugin, audio>>

StopClear ==
  /\ ctl.at = "stop_clear"
  /\ s' = [s EXCEPT !.stop = FALSE]
  /\ StopDone(ctl.by, ctl.code) /\ UNCHANGED <<plugin, audio>>

---------------------------------------------------------------------------
(* ap_live_poll.                                                           *)

\* Wrong version: poll looks at the restart request only.
PollRestartOnly ==
  /\ ctl.at = "idle" /\ s.open
  /\ IF s.restart THEN StopEnter("poll", "STOPPED") ELSE StopDone("poll", "OK")
  /\ UNCHANGED <<s, plugin, audio>>

Poll ==
  /\ ctl.at = "idle" /\ s.open
  /\ IF s.restart \/ (s.activated /\ s.state = "FINISHED")
     THEN StopEnter("poll", "STOPPED")
     ELSE StopDone("poll", "OK")
  /\ UNCHANGED <<s, plugin, audio>>

\* The exchange; on_main_thread runs on control when the flag was set.
PollCallback ==
  /\ ctl.at = "poll_callback"
  /\ s' = [s EXCEPT !.callback = FALSE]
  /\ Return(ctl.code) /\ UNCHANGED <<plugin, audio>>

---------------------------------------------------------------------------
(* timer_main with audio_begin, process_block and audio_end.               *)

\* set_priority may be denied and start_processing may refuse.
BeginFails ==
  \E e \in {"PLUGIN", "PRIORITY"} : s' = [s EXCEPT !.error = e, !.state = "FINISHED"]

\* restore_priority may fail and overwrites s->error.
Finished(owner) ==
  \E e \in {s.error, "PRIORITY"} :
    s' = [s EXCEPT !.error = e, !.state = "FINISHED", !.owner = owner]

BlockFails == s' = [s EXCEPT !.error = "PLUGIN", !.stop = TRUE]

WorkerBegin ==
  /\ worker = "begin"
  /\ \/ plugin' = "processing" /\ worker' = "ready" /\ UNCHANGED s
     \/ BeginFails /\ worker' = "ready_failed" /\ UNCHANGED plugin
  /\ UNCHANGED <<ctl, dev, aux>>

\* Wrong version: ready is raised only when processing began.
WorkerReadyOnlyOnSuccess ==
  /\ worker \in {"ready", "ready_failed"}
  /\ s' = [s EXCEPT !.ready = (worker = "ready")]
  /\ worker' = IF worker = "ready" THEN "loop" ELSE "done"
  /\ UNCHANGED <<plugin, ctl, dev, aux>>

WorkerReady ==
  /\ worker \in {"ready", "ready_failed"}
  /\ s' = [s EXCEPT !.ready = TRUE]
  /\ worker' = IF worker = "ready" THEN "loop" ELSE "done"
  /\ UNCHANGED <<plugin, ctl, dev, aux>>

WorkerLoop ==
  /\ worker = "loop"
  /\ worker' = IF s.stop THEN "ending" ELSE "processing"
  /\ UNCHANGED <<s, plugin, ctl, dev, aux>>

WorkerProcess ==
  /\ worker = "processing"
  /\ \/ worker' = "loop" /\ UNCHANGED s
     \/ worker' = "ending" /\ BlockFails
  /\ UNCHANGED <<plugin, ctl, dev, aux>>

WorkerEnd ==
  /\ worker = "ending"
  /\ plugin' = "active" /\ worker' = "ended"
  /\ UNCHANGED <<s, ctl, dev, aux>>

WorkerFinish ==
  /\ worker = "ended"
  /\ Finished(s.owner) /\ worker' = "done"
  /\ UNCHANGED <<plugin, ctl, dev, aux>>

---------------------------------------------------------------------------
(* ap_live_device_begin/process/end.  A call that finds the guard taken    *)
(* returns AGAIN and changes nothing.                                      *)

DevGoto(t, at) == dev' = [dev EXCEPT ![t] = at]
device == <<ctl, worker, aux>>     \* what a device thread never changes

\* Wrong version: a device call does not take the guard.
EnterUnguarded(t, at) ==
  /\ s.driver = "device" /\ s.open /\ dev[t] = "idle"
  /\ s' = [s EXCEPT !.guard = t]
  /\ DevGoto(t, at) /\ UNCHANGED <<plugin, device>>

Enter(t, at) ==
  /\ s.driver = "device" /\ s.open /\ dev[t] = "idle" /\ s.guard = "free"
  /\ s' = [s EXCEPT !.guard = t]
  /\ DevGoto(t, at) /\ UNCHANGED <<plugin, device>>

Leave(t) == s' = [s EXCEPT !.guard = "free"] /\ DevGoto(t, "idle")

\* Clears the guard after a step others could see before that.
Release(t) ==
  /\ dev[t] = "leaving"
  /\ Leave(t) /\ UNCHANGED <<plugin, device>>

\* The step of a call that goes on when the test holds and leaves otherwise.
Check(t, from, test, to) ==
  /\ dev[t] = from
  /\ IF test THEN DevGoto(t, to) /\ UNCHANGED s ELSE Leave(t)
  /\ UNCHANGED <<plugin, device>>

BeginEnter(t) ==
  /\ ConcurrentBegin \/ ctl.at \notin StopAt
  /\ Enter(t, "begin")

BeginState(t) == Check(t, "begin", s.owner = "none" /\ s.state = "RUNNING", "begin_stop")

BeginStop(t) == Check(t, "begin_stop", ~s.stop, "starting")

BeginStart(t) ==
  /\ dev[t] = "starting"
  /\ \/ plugin' = "processing" /\ s' = [s EXCEPT !.owner = t]
     \/ BeginFails /\ UNCHANGED plugin
  /\ DevGoto(t, "leaving") /\ UNCHANGED device

ProcessEnter(t) == Enter(t, "process")

ProcessCheck(t) == Check(t, "process", s.owner = t /\ ~s.stop, "processing")

ProcessBlock(t) ==
  /\ dev[t] = "processing"
  /\ UNCHANGED s \/ BlockFails
  /\ DevGoto(t, "leaving") /\ UNCHANGED <<plugin, device>>

EndEnter(t) == Enter(t, "end")

EndCheck(t) == Check(t, "end", s.owner = t, "ending")

EndStop(t) ==
  /\ dev[t] = "ending"
  /\ plugin' = "active"
  /\ DevGoto(t, "ended") /\ UNCHANGED <<s, device>>

EndFinish(t) ==
  /\ dev[t] = "ended"
  /\ Finished("none")
  /\ DevGoto(t, "leaving") /\ UNCHANGED <<plugin, device>>

---------------------------------------------------------------------------
(* The host callbacks a plugin may make from any thread of its own.        *)

RequestRestart ==
  /\ aux = "idle" /\ s.open
  /\ s' = [s EXCEPT !.restart = TRUE] /\ aux' = "stop"
  /\ UNCHANGED <<plugin, ctl, worker, dev>>

RequestRestartStop ==
  /\ aux = "stop"
  /\ s' = [s EXCEPT !.stop = TRUE] /\ aux' = "idle"
  /\ UNCHANGED <<plugin, ctl, worker, dev>>

RequestCallback ==
  /\ aux = "idle" /\ s.open
  /\ s' = [s EXCEPT !.callback = TRUE]
  /\ UNCHANGED <<plugin, ctl, audio>>

---------------------------------------------------------------------------
StartStep == StartClear \/ StartActivate \/ StartRun \/ StartSpawn \/ StartWait \/ StartError
StopStep == \/ StopSet \/ StopGuard \/ StopBusy \/ StopJoin
            \/ StopDeactivate \/ StopReset \/ StopPrepared \/ StopClear
WorkerStep == \/ WorkerBegin \/ WorkerReady \/ WorkerLoop
              \/ WorkerProcess \/ WorkerEnd \/ WorkerFinish
DeviceCall(t) == BeginEnter(t) \/ ProcessEnter(t) \/ EndEnter(t)
DeviceStep(t) == \/ BeginState(t) \/ BeginStop(t) \/ BeginStart(t)
                 \/ ProcessCheck(t) \/ ProcessBlock(t)
                 \/ EndCheck(t) \/ EndStop(t) \/ EndFinish(t) \/ Release(t)
PluginStep == RequestRestart \/ RequestRestartStop \/ RequestCallback

Next ==
  \/ Open \/ Close \/ StartCheck \/ StartStep \/ StopCall \/ StopStep
  \/ Poll \/ PollCallback \/ WorkerStep \/ PluginStep
  \/ \E t \in DeviceThreads : DeviceCall(t) \/ DeviceStep(t)

Spec == Init /\ [][Next]_vars

(***************************************************************************)
(* Fairness.  A call that has begun goes on to return, threads that run    *)
(* keep running, and the plugin's calls return (live.md: "A plugin or      *)
(* device driver that never returns can prevent shutdown").                *)
(***************************************************************************)
CallFairness ==
  /\ WF_vars(StartStep) /\ WF_vars(StopStep) /\ WF_vars(PollCallback)
  /\ WF_vars(WorkerStep) /\ WF_vars(RequestRestartStop)
  /\ \A t \in DeviceThreads : WF_vars(DeviceStep(t))

\* The integrator polls regularly, not only in the instants when a device call
\* has finished the session and still holds the guard, and the audio owner
\* calls device_end after STOPPED.
OwnerEnds(t) == s.owner = t /\ s.stop /\ EndEnter(t)
IntegratorFairness ==
  /\ SF_vars(Poll) /\ SF_vars(s.state # "FINISHED" /\ Poll)
  /\ SF_vars(s.guard = "free" /\ StopGuard)
  /\ \A t \in DeviceThreads : SF_vars(OwnerEnds(t))

\* Device calls are short and pauses separate them, so a control that keeps
\* retrying stop finds the try-lock free now and then.
GuardGetsFree ==
  []<>(ctl.at = "stop_guard") => []<>(ctl.at = "stop_guard" /\ s.guard = "free")

\* Nobody need poll.
UnpolledSpec == Spec /\ CallFairness
FairSpec == UnpolledSpec /\ IntegratorFairness

---------------------------------------------------------------------------
InAudio(t) == dev[t] \in {"starting", "processing", "ending"}

\* The plugin is only ever called in the order CLAP allows, whatever the
\* interleaving of control and audio threads: start_processing on an active
\* plugin, process and stop_processing between start and stop, and
\* deactivate only once processing has stopped (audio_begin, process_block,
\* audio_end against ap_live_stop).
CallsInOrder(at) ==
  /\ at = "starting" => plugin = "active"
  /\ at \in {"processing", "ending"} => plugin = "processing"

PluginCallsLegal ==
  /\ CallsInOrder(IF worker = "begin" THEN "starting" ELSE worker)
  /\ \A t \in DeviceThreads : CallsInOrder(dev[t])
  /\ ctl.at \in {"stop_deactivate", "start_spawn"} => plugin = "active"
  /\ ~s.open => plugin = "none"

\* No two threads are inside the plugin's audio calls at once, and the guard
\* is what keeps them apart (device_guard around audio_begin, process_block
\* and audio_end).
OneAudioThread ==
  /\ Cardinality({t \in DeviceThreads : InAudio(t)}) <= 1
  /\ \A t \in DeviceThreads : InAudio(t) => s.guard = t

\* Once deactivated the session is quiet: ap_live_stop resets the queues, and
\* ap_live_close frees them, with no audio thread about to touch them.
InactiveIsQuiet ==
  ~s.activated => /\ worker = "none" /\ s.owner = "none" /\ plugin # "processing"
                  /\ \A t \in DeviceThreads : ~InAudio(t)

\* With regular polling, a session that failed or was asked to restart is
\* stopped and deactivated on control.
FailureIsCollected ==
  GuardGetsFree => ((s.activated /\ (s.restart \/ s.state = "FINISHED")) ~> ~s.activated)

\* Every main-thread callback a plugin requests is serviced while the session
\* is polled, also when polls keep finding it stopped.
CallbackServiced == GuardGetsFree => ((s.open /\ s.callback) ~> (~s.open \/ ~s.callback))

\* start and stop return: neither the wait for ready nor the join of the
\* worker blocks for ever.
ControlReturns == (ctl.at # "idle") ~> (ctl.at = "idle")

\* live.md: "Restart requests, process failures, and device loss stop the
\* worker."  Without waiting for a poll.
RestartStopsWorker ==
  (s.restart /\ worker \in {"loop", "processing"}) ~> worker \notin {"loop", "processing"}

=============================================================================
