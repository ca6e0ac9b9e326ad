------------------------- MODULE LiveSession_proofs -------------------------
(***************************************************************************)
(* Proofs about the lifecycle of a live session, for any threads of the    *)
(* integrator: the guard admits one of them at a time into the plugin, and *)
(* while the integrator keeps device_begin away from stop the plugin is    *)
(* called in order and an inactive session is quiet.                       *)
(***************************************************************************)
EXTENDS LiveSession, FiniteSetTheorems, TLAPS

Places == {"idle", "start_clear", "start_activate", "start_run", "start_spawn",
           "start_wait", "start_error", "poll_callback"} \cup StopAt

Types ==
  /\ s = [open |-> s.open, driver |-> s.driver, activated |-> s.activated,
          state |-> s.state, error |-> s.error, stop |-> s.stop, ready |-> s.ready,
          restart |-> s.restart, callback |-> s.callback, guard |-> s.guard,
          owner |-> s.owner]
  /\ s.driver \in Drivers /\ s.guard \in DeviceThreads \cup {"free", "control"}
  /\ s.owner \in DeviceThreads \cup {"none"}
  /\ ctl = [at |-> ctl.at, by |-> ctl.by, code |-> ctl.code] /\ ctl.at \in Places
  /\ dev = [t \in DeviceThreads |-> dev[t]]

\* Who is inside a device call, or in the test of stop, is who holds the guard.
Held ==
  /\ \A t \in DeviceThreads : dev[t] # "idle" <=> s.guard = t
  /\ ctl.at = "stop_busy" <=> s.guard = "control"
  /\ ~s.open => s.guard = "free" /\ ctl.at = "idle"

GuardInv == Types /\ Held

\* What control's place in start or stop says of the session.
Placed ==
  /\ ctl.at \in {"start_run", "start_spawn", "start_wait", "start_error", "stop_set",
                 "stop_guard", "stop_busy", "stop_join", "stop_deactivate"} => s.activated
  /\ ctl.at \in {"start_clear", "start_activate", "stop_reset", "stop_prepared",
                 "stop_clear"} => ~s.activated
  /\ s.state = "RUNNING" => s.activated \/ ctl.at \in {"stop_reset", "stop_prepared"}
  /\ s.activated => s.open
  /\ ~s.activated => plugin = IF s.open THEN "inactive" ELSE "none"

\* The timer driver: the worker exists from its spawn to its join.
Timed ==
  s.driver = "timer" =>
    /\ \A t \in DeviceThreads : dev[t] = "idle"
    /\ s.owner = "none" /\ ctl.at \notin {"stop_guard", "stop_busy"}
    /\ worker # "none" =>
         s.activated /\ ctl.at \in {"idle", "start_wait", "start_error", "stop_set",
                                    "stop_join", "poll_callback"}
    /\ s.activated =>
         plugin = IF worker \in {"ready", "loop", "processing", "ending"}
                  THEN "processing" ELSE "active"

\* The device driver: the owner processes, and control deactivates without one.
Owned ==
  s.driver = "device" =>
    /\ worker = "none"
    /\ ctl.at \notin {"start_spawn", "start_wait", "start_error", "stop_join"}
    /\ s.owner # "none" => s.activated /\ ctl.at # "stop_deactivate"
    /\ s.activated => plugin = IF s.owner = "none" \/ dev[s.owner] = "ended"
                               THEN "active" ELSE "processing"
    /\ \A t \in DeviceThreads :
         /\ dev[t] \in {"begin_stop", "starting"} => s.activated /\ s.owner = "none"
         /\ dev[t] \in {"processing", "ending", "ended"} => s.owner = t
         /\ ctl.at \in StopAt \ {"stop_set"} => dev[t] \notin BeginAt

IInv == GuardInv /\ Placed /\ Timed /\ Owned
---------------------------------------------------------------------------
LEMMA GuardControl ==
  ASSUME GuardInv, Open \/ Close \/ StartCheck \/ StartClear \/ StartActivate
                 \/ StartRun \/ StartSpawn \/ StartWait \/ StartError \/ StopCall
                 \/ StopSet \/ StopGuard \/ StopBusy \/ StopJoin \/ StopDeactivate
                 \/ StopReset \/ StopPrepared \/ StopClear \/ Poll \/ PollCallback
  PROVE  GuardInv'
<1>1. CASE Open
  BY <1>1, ThreadAssumption, DriverAssumption
  DEF Open, Fresh, Return, GuardInv, Types, Held, Places, StopAt, audio, device
<1>2. CASE Close
  BY <1>2, ThreadAssumption, DriverAssumption
  DEF Close, Return, GuardInv, Types, Held, Places, StopAt, audio, device
<1>3. CASE StartCheck
  BY <1>3, ThreadAssumption, DriverAssumption
  DEF StartCheck, Return, Goto, GuardInv, Types, Held, Places, StopAt, audio, device
<1>4. CASE StartClear
  BY <1>4, ThreadAssumption, DriverAssumption
  DEF StartClear, Goto, GuardInv, Types, Held, Places, StopAt, audio, device
<1>5. CASE StartActivate
  BY <1>5, ThreadAssumption, DriverAssumption
  DEF StartActivate, Goto, Return, GuardInv, Types, Held, Places, StopAt, audio, device
<1>6. CASE StartRun
  BY <1>6, ThreadAssumption, DriverAssumption
  DEF StartRun, Goto, Return, GuardInv, Types, Held, Places, StopAt, audio, device
<1>7. CASE StartSpawn
  <2>1. CASE worker' = "begin" /\ Goto("start_wait") /\ UNCHANGED <<s, plugin>>
    BY <1>7, <2>1, ThreadAssumption, DriverAssumption
    DEF StartSpawn, Goto, Return, GuardInv, Types, Held, Places, StopAt, audio, device
  <2>2. CASE /\ plugin' = "inactive" /\ s' = [s EXCEPT !.activated = FALSE, !.state = "PREPARED"]
             /\ Return("STATE") /\ UNCHANGED worker
    BY <1>7, <2>2, ThreadAssumption, DriverAssumption
    DEF StartSpawn, Goto, Return, GuardInv, Types, Held, Places, StopAt, audio, device
  <2> QED
    BY <1>7, <2>1, <2>2 DEF StartSpawn
<1>8. CASE StartWait
  BY <1>8, ThreadAssumption, DriverAssumption
  DEF StartWait, Goto, GuardInv, Types, Held, Places, StopAt, audio, device
<1>9. CASE StartError
  BY <1>9, ThreadAssumption, DriverAssumption
  DEF StartError, Return, GuardInv, Types, Held, Places, StopAt, audio, device
<1>10. CASE StopCall
  BY <1>10, ThreadAssumption, DriverAssumption
  DEF StopCall, StopEnter, StopDone, Return, GuardInv, Types, Held, Places, StopAt, audio, device
<1>11. CASE StopSet
  BY <1>11, ThreadAssumption, DriverAssumption
  DEF StopSet, Goto, Quiesced, GuardInv, Types, Held, Places, StopAt, audio, device
<1>12. CASE StopGuard
  BY <1>12, ThreadAssumption, DriverAssumption
  DEF StopGuard, Goto, Return, GuardInv, Types, Held, Places, StopAt, audio, device
<1>13. CASE StopBusy
  BY <1>13, ThreadAssumption, DriverAssumption
  DEF StopBusy, Goto, Return, GuardInv, Types, Held, Places, StopAt, audio, device
<1>14. CASE StopJoin
  BY <1>14, ThreadAssumption, DriverAssumption
  DEF StopJoin, Goto, GuardInv, Types, Held, Places, StopAt, audio, device
<1>15. CASE StopDeactivate
  BY <1>15, ThreadAssumption, DriverAssumption
  DEF StopDeactivate, Goto, GuardInv, Types, Held, Places, StopAt, audio, device
<1>16. CASE StopReset
  BY <1>16, ThreadAssumption, DriverAssumption
  DEF StopReset, Goto, GuardInv, Types, Held, Places, StopAt, audio, device
<1>17. CASE StopPrepared
  BY <1>17, ThreadAssumption, DriverAssumption
  DEF StopPrepared, Goto, GuardInv, Types, Held, Places, StopAt, audio, device
<1>18. CASE StopClear
  <2>1. s' = [s EXCEPT !.stop = FALSE] /\ UNCHANGED dev /\ ctl.at = "stop_clear"
    BY <1>18 DEF StopClear, audio
  <2>2. /\ ctl'.at \in {"poll_callback", "idle"}
        /\ ctl' = [at |-> ctl'.at, by |-> ctl'.by, code |-> ctl'.code]
    <3>1. CASE ctl.by = "poll"
      <4>1. ctl' = [at |-> "poll_callback", by |-> ctl.by, code |-> ctl.code]
        BY <1>18, <3>1 DEF StopClear, StopDone
      <4> QED
        BY <4>1
    <3>2. CASE ctl.by # "poll"
      <4>1. ctl' = [at |-> "idle", by |-> "none", code |-> ctl.code]
        BY <1>18, <3>2 DEF StopClear, StopDone, Return
      <4> QED
        BY <4>1
    <3> QED
      BY <3>1, <3>2
  <2> QED
    BY <2>1, <2>2, ThreadAssumption DEF GuardInv, Types, Held, Places
<1>19. CASE Poll
  BY <1>19, ThreadAssumption, DriverAssumption
  DEF Poll, StopEnter, StopDone, Return, GuardInv, Types, Held, Places, StopAt, audio, device
<1>20. CASE PollCallback
  BY <1>20, ThreadAssumption, DriverAssumption
  DEF PollCallback, Return, GuardInv, Types, Held, Places, StopAt, audio, device
<1> QED
  BY <1>1, <1>2, <1>3, <1>4, <1>5, <1>6, <1>7, <1>8, <1>9, <1>10, <1>11, <1>12, <1>13, <1>14, <1>15, <1>16, <1>17, <1>18, <1>19, <1>20

LEMMA GuardWorker ==
  ASSUME GuardInv, WorkerBegin \/ WorkerReady \/ WorkerLoop \/ WorkerProcess \/ WorkerEnd \/ WorkerFinish \/ RequestRestart \/ RequestRestartStop \/ RequestCallback
  PROVE  GuardInv'
<1>1. CASE WorkerBegin
  <2>1. CASE plugin' = "processing" /\ worker' = "ready" /\ UNCHANGED s
    BY <1>1, <2>1, ThreadAssumption, DriverAssumption
    DEF WorkerBegin, BeginFails, GuardInv, Types, Held, Places, StopAt, audio, device
  <2>2. CASE BeginFails /\ worker' = "ready_failed" /\ UNCHANGED plugin
    <3>1. PICK e \in {"PLUGIN", "PRIORITY"} : s' = [s EXCEPT !.error = e, !.state = "FINISHED"]
      BY <2>2 DEF BeginFails
    <3> QED
      BY <1>1, <2>2, <3>1, ThreadAssumption DEF WorkerBegin, GuardInv, Types, Held, Places, StopAt, audio, device
  <2> QED
    BY <1>1, <2>1, <2>2 DEF WorkerBegin
<1>2. CASE WorkerReady
  BY <1>2, ThreadAssumption, DriverAssumption
  DEF WorkerReady, GuardInv, Types, Held, Places, StopAt, audio, device
<1>3. CASE WorkerLoop
  BY <1>3, ThreadAssumption, DriverAssumption
  DEF WorkerLoop, GuardInv, Types, Held, Places, StopAt, audio, device
<1>4. CASE WorkerProcess
  <2>1. CASE UNCHANGED s
    BY <1>4, <2>1, ThreadAssumption, DriverAssumption
    DEF WorkerProcess, GuardInv, Types, Held, Places, StopAt, audio, device
  <2>2. CASE BlockFails
    BY <1>4, <2>2, ThreadAssumption, DriverAssumption
    DEF WorkerProcess, BlockFails, GuardInv, Types, Held, Places, StopAt, audio, device
  <2> QED
    BY <1>4, <2>1, <2>2 DEF WorkerProcess
<1>5. CASE WorkerEnd
  BY <1>5, ThreadAssumption, DriverAssumption
  DEF WorkerEnd, GuardInv, Types, Held, Places, StopAt, audio, device
<1>6. CASE WorkerFinish
  <2>1. CASE s' = [s EXCEPT !.error = s.error, !.state = "FINISHED", !.owner = s.owner]
    BY <1>6, <2>1, ThreadAssumption, DriverAssumption
    DEF WorkerFinish, GuardInv, Types, Held, Places, StopAt, audio, device
  <2>2. CASE s' = [s EXCEPT !.error = "PRIORITY", !.state = "FINISHED", !.owner = s.owner]
    BY <1>6, <2>2, ThreadAssumption, DriverAssumption
    DEF WorkerFinish, GuardInv, Types, Held, Places, StopAt, audio, device
  <2> QED
    BY <1>6, <2>1, <2>2 DEF WorkerFinish, Finished
<1>7. CASE RequestRestart
  BY <1>7, ThreadAssumption, DriverAssumption
  DEF RequestRestart, GuardInv, Types, Held, Places, StopAt, audio, device
<1>8. CASE RequestRestartStop
  BY <1>8, ThreadAssumption, DriverAssumption
  DEF RequestRestartStop, GuardInv, Types, Held, Places, StopAt, audio, device
<1>9. CASE RequestCallback
  BY <1>9, ThreadAssumption, DriverAssumption
  DEF RequestCallback, GuardInv, Types, Held, Places, StopAt, audio, device
<1> QED
  BY <1>1, <1>2, <1>3, <1>4, <1>5, <1>6, <1>7, <1>8, <1>9

LEMMA GuardDevice ==
  ASSUME GuardInv, NEW t \in DeviceThreads, BeginEnter(t) \/ BeginState(t) \/ BeginStop(t) \/ BeginStart(t) \/ ProcessEnter(t) \/ ProcessCheck(t) \/ ProcessBlock(t) \/ EndEnter(t) \/ EndCheck(t) \/ EndStop(t) \/ EndFinish(t) \/ Release(t)
  PROVE  GuardInv'
<1>1. CASE BeginEnter(t)
  BY <1>1, ThreadAssumption, DriverAssumption
  DEF BeginEnter, Enter, DevGoto, GuardInv, Types, Held, Places, StopAt, audio, device
<1>2. CASE BeginState(t)
  BY <1>2, ThreadAssumption, DriverAssumption
  DEF BeginState, Check, DevGoto, Leave, GuardInv, Types, Held, Places, StopAt, audio, device
<1>3. CASE BeginStop(t)
  BY <1>3, ThreadAssumption, DriverAssumption
  DEF BeginStop, Check, DevGoto, Leave, GuardInv, Types, Held, Places, StopAt, audio, device
<1>4. CASE BeginStart(t)
  <2>1. CASE plugin' = "processing" /\ s' = [s EXCEPT !.owner = t]
    BY <1>4, <2>1, ThreadAssumption, DriverAssumption
    DEF BeginStart, BeginFails, DevGoto, GuardInv, Types, Held, Places, StopAt, audio, device
  <2>2. CASE BeginFails /\ UNCHANGED plugin
    <3>1. PICK e \in {"PLUGIN", "PRIORITY"} : s' = [s EXCEPT !.error = e, !.state = "FINISHED"]
      BY <2>2 DEF BeginFails
    <3> QED
      BY <1>4, <2>2, <3>1, ThreadAssumption DEF BeginStart, DevGoto, GuardInv, Types, Held, Places, StopAt, audio, device
  <2> QED
    BY <1>4, <2>1, <2>2 DEF BeginStart
<1>5. CASE ProcessEnter(t)
  BY <1>5, ThreadAssumption, DriverAssumption
  DEF ProcessEnter, Enter, DevGoto, GuardInv, Types, Held, Places, StopAt, audio, device
<1>6. CASE ProcessCheck(t)
  BY <1>6, ThreadAssumption, DriverAssumption
  DEF ProcessCheck, Check, DevGoto, Leave, GuardInv, Types, Held, Places, StopAt, audio, device
<1>7. CASE ProcessBlock(t)
  <2>1. CASE UNCHANGED s
    BY <1>7, <2>1, ThreadAssumption, DriverAssumption
    DEF ProcessBlock, BlockFails, DevGoto, GuardInv, Types, Held, Places, StopAt, audio, device
  <2>2. CASE BlockFails
    BY <1>7, <2>2, ThreadAssumption, DriverAssumption
    DEF ProcessBlock, BlockFails, DevGoto, GuardInv, Types, Held, Places, StopAt, audio, device
  <2> QED
    BY <1>7, <2>1, <2>2 DEF ProcessBlock
<1>8. CASE EndEnter(t)
  BY <1>8, ThreadAssumption, DriverAssumption
  DEF EndEnter, Enter, DevGoto, GuardInv, Types, Held, Places, StopAt, audio, device
<1>9. CASE EndCheck(t)
  BY <1>9, ThreadAssumption, DriverAssumption
  DEF EndCheck, Check, DevGoto, Leave, GuardInv, Types, Held, Places, StopAt, audio, device
<1>10. CASE EndStop(t)
  BY <1>10, ThreadAssumption, DriverAssumption
  DEF EndStop, DevGoto, GuardInv, Types, Held, Places, StopAt, audio, device
<1>11. CASE EndFinish(t)
  <2>1. CASE s' = [s EXCEPT !.error = s.error, !.state = "FINISHED", !.owner = "none"]
    BY <1>11, <2>1, ThreadAssumption, DriverAssumption
    DEF EndFinish, DevGoto, GuardInv, Types, Held, Places, StopAt, audio, device
  <2>2. CASE s' = [s EXCEPT !.error = "PRIORITY", !.state = "FINISHED", !.owner = "none"]
    BY <1>11, <2>2, ThreadAssumption, DriverAssumption
    DEF EndFinish, DevGoto, GuardInv, Types, Held, Places, StopAt, audio, device
  <2> QED
    BY <1>11, <2>1, <2>2 DEF EndFinish, Finished
<1>12. CASE Release(t)
  BY <1>12, ThreadAssumption, DriverAssumption
  DEF Release, Leave, DevGoto, GuardInv, Types, Held, Places, StopAt, audio, device
<1> QED
  BY <1>1, <1>2, <1>3, <1>4, <1>5, <1>6, <1>7, <1>8, <1>9, <1>10, <1>11, <1>12

LEMMA LifeControl ==
  ASSUME IInv, GuardInv', ~ConcurrentBegin, Open \/ Close \/ StartCheck \/ StartClear \/ StartActivate \/ StartRun \/ StartSpawn \/ StartWait \/ StartError \/ StopCall \/ StopSet \/ StopGuard \/ StopBusy \/ StopJoin \/ StopDeactivate \/ StopReset \/ StopPrepared \/ StopClear \/ Poll \/ PollCallback
  PROVE  (Placed /\ Timed /\ Owned)'
<1>1. CASE Open
  BY <1>1, ThreadAssumption, DriverAssumption
  DEF Open, Fresh, Return, IInv, Placed, Timed, Owned, BeginAt, GuardInv, Types, Held, Places, StopAt, audio, device
<1>2. CASE Close
  BY <1>2, ThreadAssumption, DriverAssumption
  DEF Close, Return, IInv, Placed, Timed, Owned, BeginAt, GuardInv, Types, Held, Places, StopAt, audio, device
<1>3. CASE StartCheck
  BY <1>3, ThreadAssumption, DriverAssumption
  DEF StartCheck, Return, Goto, IInv, Placed, Timed, Owned, BeginAt, GuardInv, Types, Held, Places, StopAt, audio, device
<1>4. CASE StartClear
  BY <1>4, ThreadAssumption, DriverAssumption
  DEF StartClear, Goto, IInv, Placed, Timed, Owned, BeginAt, GuardInv, Types, Held, Places, StopAt, audio, device
<1>5. CASE StartActivate
  BY <1>5, ThreadAssumption, DriverAssumption
  DEF StartActivate, Goto, Return, IInv, Placed, Timed, Owned, BeginAt, GuardInv, Types, Held, Places, StopAt, audio, device
<1>6. CASE StartRun
  BY <1>6, ThreadAssumption, DriverAssumption
  DEF StartRun, Goto, Return, IInv, Placed, Timed, Owned, BeginAt, GuardInv, Types, Held, Places, StopAt, audio, device
<1>7. CASE StartSpawn
  <2>1. CASE worker' = "begin" /\ Goto("start_wait") /\ UNCHANGED <<s, plugin>>
    BY <1>7, <2>1, ThreadAssumption, DriverAssumption
    DEF StartSpawn, Goto, Return, IInv, Placed, Timed, Owned, BeginAt, GuardInv, Types, Held, Places, StopAt, audio, device
  <2>2. CASE /\ plugin' = "inactive" /\ s' = [s EXCEPT !.activated = FALSE, !.state = "PREPARED"]
             /\ Return("STATE") /\ UNCHANGED worker
    BY <1>7, <2>2, ThreadAssumption, DriverAssumption
    DEF StartSpawn, Goto, Return, IInv, Placed, Timed, Owned, BeginAt, GuardInv, Types, Held, Places, StopAt, audio, device
  <2> QED
    BY <1>7, <2>1, <2>2 DEF StartSpawn
<1>8. CASE StartWait
  BY <1>8, ThreadAssumption, DriverAssumption
  DEF StartWait, Goto, IInv, Placed, Timed, Owned, BeginAt, GuardInv, Types, Held, Places, StopAt, audio, device
<1>9. CASE StartError
  BY <1>9, ThreadAssumption, DriverAssumption
  DEF StartError, Return, IInv, Placed, Timed, Owned, BeginAt, GuardInv, Types, Held, Places, StopAt, audio, device
<1>10. CASE StopCall
  BY <1>10, ThreadAssumption, DriverAssumption
  DEF StopCall, StopEnter, StopDone, Return, IInv, Placed, Timed, Owned, BeginAt, GuardInv, Types, Held, Places, StopAt, audio, device
<1>11. CASE StopSet
  BY <1>11, ThreadAssumption, DriverAssumption
  DEF StopSet, Goto, Quiesced, IInv, Placed, Timed, Owned, BeginAt, GuardInv, Types, Held, Places, StopAt, audio, device
<1>12. CASE StopGuard
  BY <1>12, ThreadAssumption, DriverAssumption
  DEF StopGuard, Goto, Return, IInv, Placed, Timed, Owned, BeginAt, GuardInv, Types, Held, Places, StopAt, audio, device
<1>13. CASE StopBusy
  BY <1>13, ThreadAssumption, DriverAssumption
  DEF StopBusy, Goto, Return, IInv, Placed, Timed, Owned, BeginAt, GuardInv, Types, Held, Places, StopAt, audio, device
<1>14. CASE StopJoin
  BY <1>14, ThreadAssumption, DriverAssumption
  DEF StopJoin, Goto, IInv, Placed, Timed, Owned, BeginAt, GuardInv, Types, Held, Places, StopAt, audio, device
<1>15. CASE StopDeactivate
  BY <1>15, ThreadAssumption, DriverAssumption
  DEF StopDeactivate, Goto, IInv, Placed, Timed, Owned, BeginAt, GuardInv, Types, Held, Places, StopAt, audio, device
<1>16. CASE StopReset
  BY <1>16, ThreadAssumption, DriverAssumption
  DEF StopReset, Goto, IInv, Placed, Timed, Owned, BeginAt, GuardInv, Types, Held, Places, StopAt, audio, device
<1>17. CASE StopPrepared
  BY <1>17, ThreadAssumption, DriverAssumption
  DEF StopPrepared, Goto, IInv, Placed, Timed, Owned, BeginAt, GuardInv, Types, Held, Places, StopAt, audio, device
<1>18. CASE StopClear
  <2>1. CASE ctl.by = "poll"
    BY <1>18, <2>1, ThreadAssumption, DriverAssumption
    DEF StopClear, StopDone, Return, IInv, Placed, Timed, Owned, BeginAt, GuardInv, Types, Held, Places, StopAt, audio, device
  <2>2. CASE ctl.by # "poll"
    BY <1>18, <2>2, ThreadAssumption, DriverAssumption
    DEF StopClear, StopDone, Return, IInv, Placed, Timed, Owned, BeginAt, GuardInv, Types, Held, Places, StopAt, audio, device
  <2> QED
    BY <1>18, <2>1, <2>2 DEF StopClear
<1>19. CASE Poll
  BY <1>19, ThreadAssumption, DriverAssumption
  DEF Poll, StopEnter, StopDone, Return, IInv, Placed, Timed, Owned, BeginAt, GuardInv, Types, Held, Places, StopAt, audio, device
<1>20. CASE PollCallback
  BY <1>20, ThreadAssumption, DriverAssumption
  DEF PollCallback, Return, IInv, Placed, Timed, Owned, BeginAt, GuardInv, Types, Held, Places, StopAt, audio, device
<1> QED
  BY <1>1, <1>2, <1>3, <1>4, <1>5, <1>6, <1>7, <1>8, <1>9, <1>10, <1>11, <1>12, <1>13, <1>14, <1>15, <1>16, <1>17, <1>18, <1>19, <1>20

LEMMA LifeWorker ==
  ASSUME IInv, GuardInv', ~ConcurrentBegin, WorkerBegin \/ WorkerReady \/ WorkerLoop \/ WorkerProcess \/ WorkerEnd \/ WorkerFinish \/ RequestRestart \/ RequestRestartStop \/ RequestCallback
  PROVE  (Placed /\ Timed /\ Owned)'
<1>1. CASE WorkerBegin
  <2>1. CASE plugin' = "processing" /\ worker' = "ready" /\ UNCHANGED s
    BY <1>1, <2>1, ThreadAssumption, DriverAssumption
    DEF WorkerBegin, BeginFails, IInv, Placed, Timed, Owned, BeginAt, GuardInv, Types, Held, Places, StopAt, audio, device
  <2>2. CASE BeginFails /\ worker' = "ready_failed" /\ UNCHANGED plugin
    BY <1>1, <2>2, ThreadAssumption, DriverAssumption
    DEF WorkerBegin, BeginFails, IInv, Placed, Timed, Owned, BeginAt, GuardInv, Types, Held, Places, StopAt, audio, device
  <2> QED
    BY <1>1, <2>1, <2>2 DEF WorkerBegin
<1>2. CASE WorkerReady
  BY <1>2, ThreadAssumption, DriverAssumption
  DEF WorkerReady, IInv, Placed, Timed, Owned, BeginAt, GuardInv, Types, Held, Places, StopAt, audio, device
<1>3. CASE WorkerLoop
  BY <1>3, ThreadAssumption, DriverAssumption
  DEF WorkerLoop, IInv, Placed, Timed, Owned, BeginAt, GuardInv, Types, Held, Places, StopAt, audio, device
<1>4. CASE WorkerProcess
  BY <1>4, ThreadAssumption, DriverAssumption
  DEF WorkerProcess, BlockFails, IInv, Placed, Timed, Owned, BeginAt, GuardInv, Types, Held, Places, StopAt, audio, device
<1>5. CASE WorkerEnd
  BY <1>5, ThreadAssumption, DriverAssumption
  DEF WorkerEnd, IInv, Placed, Timed, Owned, BeginAt, GuardInv, Types, Held, Places, StopAt, audio, device
<1>6. CASE WorkerFinish
  <2>1. CASE s' = [s EXCEPT !.error = s.error, !.state = "FINISHED", !.owner = s.owner]
    BY <1>6, <2>1, ThreadAssumption, DriverAssumption
    DEF WorkerFinish, IInv, Placed, Timed, Owned, BeginAt, GuardInv, Types, Held, Places, StopAt, audio, device
  <2>2. CASE s' = [s EXCEPT !.error = "PRIORITY", !.state = "FINISHED", !.owner = s.owner]
    BY <1>6, <2>2, ThreadAssumption, DriverAssumption
    DEF WorkerFinish, IInv, Placed, Timed, Owned, BeginAt, GuardInv, Types, Held, Places, StopAt, audio, device
  <2> QED
    BY <1>6, <2>1, <2>2 DEF WorkerFinish, Finished
<1>7. CASE RequestRestart
  BY <1>7, ThreadAssumption, DriverAssumption
  DEF RequestRestart, IInv, Placed, Timed, Owned, BeginAt, GuardInv, Types, Held, Places, StopAt, audio, device
<1>8. CASE RequestRestartStop
  BY <1>8, ThreadAssumption, DriverAssumption
  DEF RequestRestartStop, IInv, Placed, Timed, Owned, BeginAt, GuardInv, Types, Held, Places, StopAt, audio, device
<1>9. CASE RequestCallback
  BY <1>9, ThreadAssumption, DriverAssumption
  DEF RequestCallback, IInv, Placed, Timed, Owned, BeginAt, GuardInv, Types, Held, Places, StopAt, audio, device
<1> QED
  BY <1>1, <1>2, <1>3, <1>4, <1>5, <1>6, <1>7, <1>8, <1>9

LEMMA LifeDevice ==
  ASSUME IInv, GuardInv', ~ConcurrentBegin, NEW t \in DeviceThreads, BeginEnter(t) \/ BeginState(t) \/ BeginStop(t) \/ BeginStart(t) \/ ProcessEnter(t) \/ ProcessCheck(t) \/ ProcessBlock(t) \/ EndEnter(t) \/ EndCheck(t) \/ EndStop(t) \/ EndFinish(t) \/ Release(t)
  PROVE  (Placed /\ Timed /\ Owned)'
<1>1. CASE BeginEnter(t)
  BY <1>1, ThreadAssumption, DriverAssumption
  DEF BeginEnter, Enter, DevGoto, IInv, Placed, Timed, Owned, BeginAt, GuardInv, Types, Held, Places, StopAt, audio, device
<1>2. CASE BeginState(t)
  BY <1>2, ThreadAssumption, DriverAssumption
  DEF BeginState, Check, DevGoto, Leave, IInv, Placed, Timed, Owned, BeginAt, GuardInv, Types, Held, Places, StopAt, audio, device
<1>3. CASE BeginStop(t)
  BY <1>3, ThreadAssumption, DriverAssumption
  DEF BeginStop, Check, DevGoto, Leave, IInv, Placed, Timed, Owned, BeginAt, GuardInv, Types, Held, Places, StopAt, audio, device
<1>4. CASE BeginStart(t)
  <2>1. CASE plugin' = "processing" /\ s' = [s EXCEPT !.owner = t]
    BY <1>4, <2>1, ThreadAssumption, DriverAssumption
    DEF BeginStart, BeginFails, DevGoto, IInv, Placed, Timed, Owned, BeginAt, GuardInv, Types, Held, Places, StopAt, audio, device
  <2>2. CASE BeginFails /\ UNCHANGED plugin
    BY <1>4, <2>2, ThreadAssumption, DriverAssumption
    DEF BeginStart, BeginFails, DevGoto, IInv, Placed, Timed, Owned, BeginAt, GuardInv, Types, Held, Places, StopAt, audio, device
  <2> QED
    BY <1>4, <2>1, <2>2 DEF BeginStart
<1>5. CASE ProcessEnter(t)
  BY <1>5, ThreadAssumption, DriverAssumption
  DEF ProcessEnter, Enter, DevGoto, IInv, Placed, Timed, Owned, BeginAt, GuardInv, Types, Held, Places, StopAt, audio, device
<1>6. CASE ProcessCheck(t)
  BY <1>6, ThreadAssumption, DriverAssumption
  DEF ProcessCheck, Check, DevGoto, Leave, IInv, Placed, Timed, Owned, BeginAt, GuardInv, Types, Held, Places, StopAt, audio, device
<1>7. CASE ProcessBlock(t)
  <2>1. CASE UNCHANGED s
    BY <1>7, <2>1, ThreadAssumption, DriverAssumption
    DEF ProcessBlock, BlockFails, DevGoto, IInv, Placed, Timed, Owned, BeginAt, GuardInv, Types, Held, Places, StopAt, audio, device
  <2>2. CASE BlockFails
    BY <1>7, <2>2, ThreadAssumption, DriverAssumption
    DEF ProcessBlock, BlockFails, DevGoto, IInv, Placed, Timed, Owned, BeginAt, GuardInv, Types, Held, Places, StopAt, audio, device
  <2> QED
    BY <1>7, <2>1, <2>2 DEF ProcessBlock
<1>8. CASE EndEnter(t)
  BY <1>8, ThreadAssumption, DriverAssumption
  DEF EndEnter, Enter, DevGoto, IInv, Placed, Timed, Owned, BeginAt, GuardInv, Types, Held, Places, StopAt, audio, device
<1>9. CASE EndCheck(t)
  BY <1>9, ThreadAssumption, DriverAssumption
  DEF EndCheck, Check, DevGoto, Leave, IInv, Placed, Timed, Owned, BeginAt, GuardInv, Types, Held, Places, StopAt, audio, device
<1>10. CASE EndStop(t)
  BY <1>10, ThreadAssumption, DriverAssumption
  DEF EndStop, DevGoto, IInv, Placed, Timed, Owned, BeginAt, GuardInv, Types, Held, Places, StopAt, audio, device
<1>11. CASE EndFinish(t)
  <2>1. CASE s' = [s EXCEPT !.error = s.error, !.state = "FINISHED", !.owner = "none"]
    BY <1>11, <2>1, ThreadAssumption, DriverAssumption
    DEF EndFinish, DevGoto, IInv, Placed, Timed, Owned, BeginAt, GuardInv, Types, Held, Places, StopAt, audio, device
  <2>2. CASE s' = [s EXCEPT !.error = "PRIORITY", !.state = "FINISHED", !.owner = "none"]
    BY <1>11, <2>2, ThreadAssumption, DriverAssumption
    DEF EndFinish, DevGoto, IInv, Placed, Timed, Owned, BeginAt, GuardInv, Types, Held, Places, StopAt, audio, device
  <2> QED
    BY <1>11, <2>1, <2>2 DEF EndFinish, Finished
<1>12. CASE Release(t)
  BY <1>12, ThreadAssumption, DriverAssumption
  DEF Release, Leave, DevGoto, IInv, Placed, Timed, Owned, BeginAt, GuardInv, Types, Held, Places, StopAt, audio, device
<1> QED
  BY <1>1, <1>2, <1>3, <1>4, <1>5, <1>6, <1>7, <1>8, <1>9, <1>10, <1>11, <1>12

---------------------------------------------------------------------------
LEMMA InitInv == Init => IInv
<1> SUFFICES ASSUME Init PROVE IInv
  OBVIOUS
<1>1. PICK d \in Drivers : s = [Fresh(d) EXCEPT !.open = FALSE]
  BY DEF Init
<1>2. GuardInv
  BY <1>1, ThreadAssumption DEF Init, Fresh, GuardInv, Types, Held, Places
<1> QED
  BY <1>1, <1>2 DEF Init, Fresh, IInv, Placed, Timed, Owned, StopAt

LEMMA StepGuard == GuardInv /\ [Next]_vars => GuardInv'
<1> SUFFICES ASSUME GuardInv, [Next]_vars PROVE GuardInv'
  OBVIOUS
<1>1. CASE UNCHANGED vars
  BY <1>1 DEF vars, GuardInv, Types, Held
<1>2. CASE WorkerStep \/ PluginStep
  BY <1>2, GuardWorker DEF WorkerStep, PluginStep
<1>3. CASE \E t \in DeviceThreads : DeviceCall(t) \/ DeviceStep(t)
  BY <1>3, GuardDevice DEF DeviceCall, DeviceStep
<1> QED
  BY <1>1, <1>2, <1>3, GuardControl DEF Next, StartStep, StopStep

LEMMA StepInv == ~ConcurrentBegin /\ IInv /\ [Next]_vars => IInv'
<1> SUFFICES ASSUME ~ConcurrentBegin, IInv, [Next]_vars PROVE IInv'
  OBVIOUS
<1>1. GuardInv'
  BY StepGuard DEF IInv
<1>2. CASE UNCHANGED vars
  BY <1>1, <1>2 DEF vars, IInv, Placed, Timed, Owned
<1>3. CASE WorkerStep \/ PluginStep
  BY <1>1, <1>3, LifeWorker DEF WorkerStep, PluginStep, IInv
<1>4. CASE \E t \in DeviceThreads : DeviceCall(t) \/ DeviceStep(t)
  BY <1>1, <1>4, LifeDevice DEF DeviceCall, DeviceStep, IInv
<1> QED
  BY <1>1, <1>2, <1>3, <1>4, LifeControl DEF Next, StartStep, StopStep, IInv

\* However device calls overlap, one of them at most is inside the plugin
\* (device_guard around audio_begin, process_block and audio_end).
THEOREM OneAtATime == Spec => []OneAudioThread
<1>1. GuardInv => OneAudioThread
  <2> SUFFICES ASSUME GuardInv PROVE OneAudioThread
    OBVIOUS
  <2> DEFINE inside == {t \in DeviceThreads : InAudio(t)}
  <2>1. \A t \in DeviceThreads : InAudio(t) => s.guard = t
    BY DEF InAudio, GuardInv, Held
  <2>2. inside \subseteq {s.guard}
    BY <2>1
  <2>3. IsFiniteSet({s.guard}) /\ Cardinality({s.guard}) = 1
    BY FS_Singleton
  <2>4. Cardinality(inside) <= 1
    BY <2>2, <2>3, FS_Subset
  <2> QED
    BY <2>1, <2>4 DEF OneAudioThread
<1>2. Init => GuardInv
  BY InitInv DEF IInv
<1> QED
  BY <1>1, <1>2, StepGuard, PTL DEF Spec

LEMMA Invariance ==
  ASSUME ~ConcurrentBegin
  PROVE  Spec => []IInv
<1>1. IInv /\ [Next]_vars => IInv'
  BY StepInv
<1> QED
  BY <1>1, InitInv, PTL DEF Spec

\* While device_begin keeps away from stop, every call into the plugin finds it
\* as CLAP requires (audio_begin, process_block, audio_end, ap_live_stop).
THEOREM CalledInOrder ==
  ASSUME ~ConcurrentBegin
  PROVE  Spec => []PluginCallsLegal
<1>1. IInv => PluginCallsLegal
  <2> SUFFICES ASSUME IInv PROVE PluginCallsLegal
    OBVIOUS
  <2>1. s.driver \in {"timer", "device"}
    BY DriverAssumption DEF IInv, GuardInv, Types
  <2>2. CallsInOrder(IF worker = "begin" THEN "starting" ELSE worker)
    BY <2>1 DEF IInv, Timed, Owned, CallsInOrder
  <2>3. ASSUME NEW t \in DeviceThreads PROVE CallsInOrder(dev[t])
    BY <2>1, ThreadAssumption DEF IInv, Timed, Owned, CallsInOrder
  <2>4. ctl.at \in {"stop_deactivate", "start_spawn"} => plugin = "active"
    BY <2>1 DEF IInv, Placed, Timed, Owned
  <2>5. ~s.open => plugin = "none"
    BY DEF IInv, Placed
  <2> QED
    BY <2>2, <2>3, <2>4, <2>5 DEF PluginCallsLegal
<1> QED
  BY <1>1, Invariance, PTL

\* Under the same condition nobody is left in the plugin once it is deactivated,
\* so that stop may reset the queues and close may free them.
THEOREM QuietWhenInactive ==
  ASSUME ~ConcurrentBegin
  PROVE  Spec => []InactiveIsQuiet
<1>1. IInv => InactiveIsQuiet
  <2> SUFFICES ASSUME IInv, ~s.activated PROVE InactiveIsQuiet
    BY DEF InactiveIsQuiet
  <2>1. s.driver \in {"timer", "device"}
    BY DriverAssumption DEF IInv, GuardInv, Types
  <2>2. worker = "none" /\ s.owner = "none" /\ plugin # "processing"
    BY <2>1 DEF IInv, Placed, Timed, Owned
  <2>3. \A t \in DeviceThreads : ~InAudio(t)
    BY <2>1, <2>2, ThreadAssumption DEF IInv, Timed, Owned, InAudio
  <2> QED
    BY <2>2, <2>3 DEF InactiveIsQuiet
<1> QED
  BY <1>1, Invariance, PTL

=============================================================================
