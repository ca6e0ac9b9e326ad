----------------------------- MODULE DeviceWake -----------------------------
(***************************************************************************)
(* How the hardware driver wakes and stops its processing worker:          *)
(* csrc/live_device.c (signal_worker, notification, callback,              *)
(* ap_audio_prepare/start/stop/wait) under hardware_main, ap_live_start    *)
(* and ap_live_stop of csrc/clap_live.c.                                   *)
(*                                                                         *)
(* A worker sleeps on a semaphore between blocks.  Three kinds of thread   *)
(* wake it: device callbacks that captured a block, device notifications   *)
(* that mark the device lost, and the control thread that stops the        *)
(* session.  All go through signal_worker, whose flag wake_pending keeps   *)
(* the semaphore at one token.                                             *)
(*                                                                         *)
(* The contents of the capture queue and the audio are left out; the queue *)
(* is its length.  DeviceTransport models the data path.                   *)
(*                                                                         *)
(* With StoreBuffer the worker's plain release store wake_pending = 0 may  *)
(* stay in its processor's store buffer while the loads that follow it     *)
(* run, as C11 and x86 allow.  A locked instruction drains the buffer: the *)
(* exchange of the signallers is one, and taking the semaphore's lock is   *)
(* another.  While no clear has been delayed, memory has been sequentially *)
(* consistent.                                                             *)
(***************************************************************************)
EXTENDS Naturals, FiniteSets

CONSTANTS
  Callbacks,    \* threads the device may run the data callback on
  QueueBlocks,  \* capacity of the capture queue
  StoreBuffer   \* whether the worker's store to wake_pending may be delayed

Notifier == "notification"
Control  == "control"
Signallers == Callbacks \cup {Notifier, Control}

ASSUME CallbackAssumption == Callbacks \cap {Notifier, Control, "free"} = {}
ASSUME QueueAssumption == QueueBlocks \in Nat \ {0}
ASSUME BufferAssumption == StoreBuffer \in BOOLEAN

VARIABLES
  d,         \* struct ap_audio_device: closing, lost, the length of capture_ring,
             \* the holder of callback_guard, and whether the native device runs
  pending,   \* d->wake_pending in memory
  tokens,    \* count of the semaphore d->wake
  buffered,  \* the worker's wake_pending = 0 is still in its store buffer
  delayed,   \* history: some clear was delayed since the device was opened
  pc,        \* where each signaller is
  worker,    \* where the worker is; "none" when joined
  s          \* the session's stop and restart

wake == <<pending, tokens, buffered, delayed>>
vars == <<d, wake, pc, worker, s>>

Goto(p, at) == pc' = [pc EXCEPT ![p] = at]

Init ==
  /\ d = [running |-> FALSE, closing |-> FALSE, lost |-> FALSE,
          captured |-> 0, guard |-> "free"]
  /\ pending = FALSE /\ tokens = 0 /\ buffered = FALSE /\ delayed = FALSE
  /\ pc = [p \in Signallers |-> "idle"]
  /\ worker = "none" /\ s = [stop |-> FALSE, restart |-> FALSE]

---------------------------------------------------------------------------
(* signal_worker: the exchange, then the release that only the signaller   *)
(* that found the flag clear makes.                                        *)

\* Wrong version: every signal releases the semaphore.
ExchangeAlwaysReleases(p, at, release, next) ==
  /\ pc[p] = at
  /\ pending' = TRUE
  /\ Goto(p, release)
  /\ UNCHANGED <<d, tokens, buffered, delayed, worker, s>>

Exchange(p, at, release, next) ==
  /\ pc[p] = at
  /\ pending' = TRUE
  /\ Goto(p, IF pending THEN next ELSE release)
  /\ UNCHANGED <<d, tokens, buffered, delayed, worker, s>>

Release(p, at, next) ==
  /\ pc[p] = at
  /\ tokens' = tokens + 1
  /\ Goto(p, next)
  /\ UNCHANGED <<d, pending, buffered, delayed, worker, s>>

---------------------------------------------------------------------------
(* notification: stopped, interrupted or rerouted.  It is asynchronous:    *)
(* only the device's uninitialization waits for it.                        *)

NotifyEnter ==
  /\ pc[Notifier] = "idle" /\ ~d.closing
  /\ Goto(Notifier, "lost") /\ UNCHANGED <<d, wake, worker, s>>

NotifyLost ==
  /\ pc[Notifier] = "lost"
  /\ d' = [d EXCEPT !.lost = TRUE]
  /\ Goto(Notifier, "exchange") /\ UNCHANGED <<wake, worker, s>>

NotifySignal ==
  \/ Exchange(Notifier, "exchange", "release", "idle")
  \/ Release(Notifier, "release", "idle")

---------------------------------------------------------------------------
(* callback: an oversized burst marks the device lost; otherwise each      *)
(* completed block is queued and signalled.                                *)

CallbackEnter(c) ==
  /\ d.running /\ pc[c] = "idle"
  /\ \E at \in {"oversize", "check"} : Goto(c, at)
  /\ UNCHANGED <<d, wake, worker, s>>

CallbackOversize(c) ==
  /\ pc[c] = "oversize"
  /\ d' = [d EXCEPT !.lost = TRUE]
  /\ Goto(c, "oversize_exchange") /\ UNCHANGED <<wake, worker, s>>

CallbackCheck(c) ==
  /\ pc[c] = "check"
  /\ Goto(c, IF d.lost \/ d.closing THEN "idle" ELSE "guard")
  /\ UNCHANGED <<d, wake, worker, s>>

\* Wrong version: the guard is taken without being tested.
CallbackGuardTaken(c) ==
  /\ pc[c] = "guard"
  /\ d' = [d EXCEPT !.guard = c] /\ Goto(c, "frames")
  /\ UNCHANGED <<wake, worker, s>>

CallbackGuard(c) ==
  /\ pc[c] = "guard"
  /\ IF d.guard = "free"
     THEN d' = [d EXCEPT !.guard = c] /\ Goto(c, "frames")
     ELSE UNCHANGED d /\ Goto(c, "idle")
  /\ UNCHANGED <<wake, worker, s>>

\* A block is complete and the queue has room; a full queue drops the block
\* and changes nothing here.
CallbackPush(c) ==
  /\ pc[c] = "frames" /\ d.captured < QueueBlocks
  /\ d' = [d EXCEPT !.captured = @ + 1]
  /\ Goto(c, "exchange") /\ UNCHANGED <<wake, worker, s>>

CallbackEnd(c) ==
  /\ pc[c] = "frames"
  /\ d' = [d EXCEPT !.guard = "free"]
  /\ Goto(c, "idle") /\ UNCHANGED <<wake, worker, s>>

CallbackSignal(c) ==
  \/ Exchange(c, "oversize_exchange", "oversize_release", "check")
  \/ Release(c, "oversize_release", "check")
  \/ Exchange(c, "exchange", "release", "frames")
  \/ Release(c, "release", "frames")

CallbackStep(c) == \/ CallbackOversize(c) \/ CallbackCheck(c) \/ CallbackGuard(c)
                   \/ CallbackPush(c) \/ CallbackEnd(c) \/ CallbackSignal(c)

---------------------------------------------------------------------------
(* The control thread: ap_live_start with ap_audio_prepare and             *)
(* ap_audio_start, ap_live_stop with ap_audio_stop, and reopening a lost   *)
(* or restarted session.                                                   *)

\* prepare refuses a lost device; it runs with the device stopped and the
\* worker joined, so nothing overlaps it.
Start ==
  /\ pc[Control] = "idle" /\ worker = "none" /\ ~d.lost /\ ~s.restart
  /\ d' = [d EXCEPT !.captured = 0, !.closing = FALSE]
  /\ s' = [s EXCEPT !.stop = FALSE] /\ worker' = "loop"
  /\ Goto(Control, "starting") /\ UNCHANGED wake

DeviceStart ==
  /\ pc[Control] = "starting"
  /\ \/ d' = [d EXCEPT !.running = TRUE] /\ Goto(Control, "idle")
     \/ UNCHANGED d /\ Goto(Control, "stop")
  /\ UNCHANGED <<wake, worker, s>>

StopCall ==
  /\ pc[Control] = "idle" /\ worker # "none"
  /\ Goto(Control, "stop") /\ UNCHANGED <<d, wake, worker, s>>

StopSet ==
  /\ pc[Control] = "stop"
  /\ s' = [s EXCEPT !.stop = TRUE]
  /\ Goto(Control, "close") /\ UNCHANGED <<d, wake, worker>>

StopClosing ==
  /\ pc[Control] = "close"
  /\ d' = [d EXCEPT !.closing = TRUE]
  /\ Goto(Control, "quiesce") /\ UNCHANGED <<wake, worker, s>>

\* ma_device_stop: a stopped device returns at once; of a running one there are
\* no new callbacks, and those in flight return.
StopDevice ==
  /\ pc[Control] = "quiesce"
  /\ d' = [d EXCEPT !.running = FALSE]
  /\ Goto(Control, IF d.running THEN "drain" ELSE "exchange")
  /\ UNCHANGED <<wake, worker, s>>

\* Wrong version: stop quiesces the device and does not signal the worker.
StopDrainedSilently ==
  /\ pc[Control] = "drain" /\ \A c \in Callbacks : pc[c] = "idle"
  /\ Goto(Control, "join") /\ UNCHANGED <<d, wake, worker, s>>

\* It waits for data callbacks, not for notifications nor for the worker's store.
StopDrained ==
  /\ pc[Control] = "drain" /\ \A c \in Callbacks : pc[c] = "idle"
  /\ Goto(Control, "exchange") /\ UNCHANGED <<d, wake, worker, s>>

StopSignal ==
  \/ Exchange(Control, "exchange", "release", "join")
  \/ Release(Control, "release", "join")

\* The join makes every store of the ended worker visible.
StopJoin ==
  /\ pc[Control] = "join" /\ worker = "done" /\ ~buffered
  /\ worker' = "none" /\ s' = [s EXCEPT !.stop = FALSE]
  /\ Goto(Control, "idle") /\ UNCHANGED <<d, wake>>

\* Close and open again: a new device, semaphore and session.  The device's
\* uninitialization quiesces callbacks and notifications.
Reopen ==
  /\ \A p \in Signallers : pc[p] = "idle"
  /\ worker = "none"
  /\ d' = [d EXCEPT !.closing = FALSE, !.lost = FALSE, !.captured = 0]
  /\ s' = [s EXCEPT !.restart = FALSE]
  /\ pending' = FALSE /\ tokens' = 0 /\ buffered' = FALSE /\ delayed' = FALSE
  /\ UNCHANGED <<pc, worker>>

\* Unplugged or reset by its driver, the device stops by itself.
DeviceStops ==
  /\ d.running /\ \A c \in Callbacks : pc[c] = "idle"
  /\ d' = [d EXCEPT !.running = FALSE]
  /\ UNCHANGED <<wake, pc, worker, s>>

ControlStep == \/ DeviceStart \/ StopSet \/ StopClosing \/ StopDevice
               \/ StopDrained \/ StopSignal \/ StopJoin

---------------------------------------------------------------------------
(* The worker: hardware_main around ap_audio_wait.                         *)

WorkerLoop ==
  /\ worker = "loop"
  /\ worker' = IF s.stop THEN "done" ELSE "lost"
  /\ UNCHANGED <<d, wake, pc, s>>

\* A lost device asks for a restart and ends the worker.
WorkerLost ==
  /\ worker = "lost"
  /\ IF d.lost THEN worker' = "done" /\ s' = [stop |-> TRUE, restart |-> TRUE]
     ELSE worker' = "closing" /\ UNCHANGED s
  /\ UNCHANGED <<d, wake, pc>>

WorkerClosing ==
  /\ worker = "closing"
  /\ worker' = IF d.closing THEN "done" ELSE "ring"
  /\ UNCHANGED <<d, wake, pc, s>>

WorkerRing ==
  /\ worker = "ring"
  /\ IF d.captured > 0
     THEN d' = [d EXCEPT !.captured = @ - 1] /\ worker' = "process"
     ELSE UNCHANGED d /\ worker' = "wait"
  /\ UNCHANGED <<wake, pc, s>>

\* process_block ends in locked counter updates; it may fail.
WorkerProcess ==
  /\ worker = "process" /\ ~buffered
  /\ \/ worker' = "loop" /\ UNCHANGED s
     \/ worker' = "done" /\ s' = [s EXCEPT !.stop = TRUE]
  /\ UNCHANGED <<d, wake, pc>>

WorkerWait ==
  /\ worker = "wait" /\ ~buffered /\ tokens > 0
  /\ tokens' = tokens - 1
  /\ worker' = "clear" /\ UNCHANGED <<d, pending, buffered, delayed, pc, s>>

\* Wrong version: after waking, only the queue is looked at again.
WorkerClearThenRing ==
  /\ worker = "clear"
  /\ pending' = FALSE
  /\ worker' = "ring" /\ UNCHANGED <<d, tokens, buffered, delayed, pc, s>>

\* Wrong version: the flag is not cleared after a wait.
WorkerNeverClears ==
  /\ worker = "clear"
  /\ worker' = "lost" /\ UNCHANGED <<d, wake, pc, s>>

WorkerClear ==
  /\ worker = "clear"
  /\ \/ pending' = FALSE /\ UNCHANGED <<buffered, delayed>>
     \/ StoreBuffer /\ buffered' = TRUE /\ delayed' = TRUE /\ UNCHANGED pending
  /\ worker' = "lost" /\ UNCHANGED <<d, tokens, pc, s>>

\* The store buffer drains.
Drain ==
  /\ buffered
  /\ pending' = FALSE /\ buffered' = FALSE
  /\ UNCHANGED <<d, tokens, delayed, pc, worker, s>>

WorkerStep == \/ WorkerLoop \/ WorkerLost \/ WorkerClosing \/ WorkerRing
              \/ WorkerProcess \/ WorkerWait \/ WorkerClear

---------------------------------------------------------------------------
Next ==
  \/ NotifyEnter \/ NotifyLost \/ NotifySignal
  \/ \E c \in Callbacks : CallbackEnter(c) \/ CallbackStep(c)
  \/ Start \/ StopCall \/ Reopen \/ ControlStep \/ DeviceStops
  \/ WorkerStep \/ Drain

Spec == Init /\ [][Next]_vars

\* Threads keep running, stores drain and a callback's frames are finitely many.
\* Whether the device calls back, notifies or stops, and whether control stops,
\* is left open.
Fairness ==
  /\ WF_vars(NotifyLost \/ NotifySignal)
  /\ \A c \in Callbacks : WF_vars(CallbackStep(c)) /\ SF_vars(CallbackEnd(c))
  /\ WF_vars(ControlStep) /\ WF_vars(WorkerStep) /\ WF_vars(Drain)

FairSpec == Spec /\ Fairness

---------------------------------------------------------------------------
SignalAt == {"exchange", "oversize_exchange"}
ReleaseAt == {"release", "oversize_release"}
Releasing(p) == pc[p] \in ReleaseAt
DeviceType == [running : BOOLEAN, closing : BOOLEAN, lost : BOOLEAN,
               captured : 0..QueueBlocks, guard : Callbacks \cup {"free"}]

\* Types; the semaphore holds at most one token.
TypeOK ==
  /\ d \in DeviceType
  /\ pending \in BOOLEAN /\ tokens \in 0..1 /\ buffered \in BOOLEAN /\ delayed \in BOOLEAN
  /\ pc \in [Signallers -> SignalAt \cup ReleaseAt \cup
               {"idle", "lost", "oversize", "check", "guard", "frames", "starting",
                "stop", "close", "quiesce", "drain", "join"}]
  /\ worker \in {"none", "loop", "lost", "closing", "ring", "process", "wait", "clear", "done"}
  /\ s \in [stop : BOOLEAN, restart : BOOLEAN]

\* wake_pending tells the truth: it is set exactly while one wake-up is under
\* way, be it a signaller about to release, the one token, a worker that took
\* it, or a clear not yet visible.  So repeated failed starts and bursts of
\* callbacks never pile tokens up (the comment over signal_worker).
WakeBalance ==
  /\ ~pending => /\ tokens = 0 /\ worker # "clear" /\ ~buffered
                 /\ \A p \in Signallers : ~Releasing(p)
  /\ pending => \/ tokens = 1 \/ worker = "clear" \/ buffered
                \/ \E p \in Signallers : Releasing(p)
  /\ tokens = 1 => /\ worker # "clear" /\ ~buffered
                   /\ \A p \in Signallers : ~Releasing(p)
  /\ (worker = "clear" \/ buffered) => \A p \in Signallers : ~Releasing(p)
  /\ ~(worker = "clear" /\ buffered)
  /\ \A p, q \in Signallers : Releasing(p) /\ Releasing(q) => p = q

\* No wake-up is lost unless a clear of wake_pending was delayed: when the
\* worker sleeps with no token and nobody is on the way to signal it, there is
\* nothing for it to see, neither a queued block nor a lost device nor a closing
\* session (ap_audio_wait against callback, notification and ap_audio_stop).
AboutToSignal ==
  \/ \E p \in Signallers : pc[p] \in SignalAt \cup ReleaseAt
  \/ pc[Control] \in {"quiesce", "drain"}
NoLostWakeup ==
  ~delayed /\ worker = "wait" /\ tokens = 0 /\ ~AboutToSignal
    => ~d.lost /\ ~d.closing /\ d.captured = 0

\* A worker asleep with something to see wakes up, unless a clear was delayed.
SleeperWakes ==
  (~delayed /\ worker = "wait" /\ (d.lost \/ d.closing \/ d.captured > 0)) ~> (worker # "wait")

\* The re-blocking state of callback (capture_fill, playback_fill, the clock) is
\* touched by at most one callback, the holder of callback_guard, although
\* callbacks overlap around a reroute, and across restarts the guard is given
\* back.
OneCallbackReblocks ==
  /\ \A c \in Callbacks : pc[c] \in {"frames", "exchange", "release"} => d.guard = c
  /\ d.guard # "free" => pc[d.guard] \in {"frames", "exchange", "release"}

\* ap_live_stop returns unless a clear of wake_pending was delayed: the join of
\* the hardware worker does not block, whether the device ran, never started or
\* stopped by itself.
StopReturns == (pc[Control] # "idle" /\ ~delayed) ~> (pc[Control] = "idle" \/ delayed)

\* live.md: "Shutdown quiesces device callbacks, wakes and joins the worker".  So
\* ap_live_stop returns, delayed clears or not.
StopAlwaysReturns == (pc[Control] # "idle") ~> (pc[Control] = "idle")

\* live.md: "Device interruption, unexpected stop, or routing change marks the
\* device lost and wakes the worker."  The worker of a lost device ends.
LossWakesWorker == d.lost ~> (worker \in {"none", "done"})

=============================================================================
