-------------------------- MODULE DeviceWake_proofs --------------------------
(***************************************************************************)
(* Proofs about the hardware driver.  First the waking and stopping of its *)
(* worker (DeviceWake), for every set of callback threads, every queue     *)
(* length, and both memory models; then, of the same runs, what            *)
(* DeviceTransport_proofs proves about its data path.                      *)
(*                                                                         *)
(* TypeOK says that the semaphore never holds a second token, which is     *)
(* inductive only together with WakeBalance: a signaller releases because  *)
(* it found wake_pending clear, and then no other token is under way.      *)
(***************************************************************************)
EXTENDS MCLiveDevice, Sequences, TLAPS

Guests == Callbacks \cup {Notifier}

IInv == TypeOK /\ WakeBalance

LEMMA SignallerFacts ==
  /\ Control \in Signallers /\ Notifier \in Signallers /\ Control # Notifier
  /\ Control \notin Guests
  /\ \A c \in Callbacks : c \in Signallers /\ c # Control /\ c # Notifier /\ c # "free"
  /\ \A p \in Signallers : p = Control \/ p \in Guests
BY CallbackAssumption DEF Signallers, Guests, Control, Notifier

LEMMA DeviceUpdates ==
  ASSUME NEW e \in DeviceType, NEW b \in BOOLEAN
  PROVE  /\ [e EXCEPT !.running = b] \in DeviceType
         /\ [e EXCEPT !.lost = b] \in DeviceType
         /\ [e EXCEPT !.closing = b] \in DeviceType
         /\ [e EXCEPT !.captured = 0, !.closing = FALSE] \in DeviceType
         /\ [e EXCEPT !.closing = FALSE, !.lost = FALSE, !.captured = 0] \in DeviceType
<1>1. 0 \in 0..QueueBlocks
  BY QueueAssumption
<1> QED BY <1>1 DEF DeviceType

LEMMA InitHolds == Init => IInv
<1> SUFFICES ASSUME Init PROVE IInv
  OBVIOUS
<1>1. \A p \in Signallers : pc[p] = "idle"
  BY DEF Init
<1>2. TypeOK
  <2>1. 0 \in 0..QueueBlocks /\ 0 \in 0..1
    BY QueueAssumption
  <2>2. d \in DeviceType
    BY <2>1 DEF Init, DeviceType
  <2>3. s \in [stop : BOOLEAN, restart : BOOLEAN]
    BY DEF Init
  <2>4. worker \in {"none"} /\ pc \in [Signallers -> {"idle"}]
    BY DEF Init
  <2> QED BY <2>1, <2>2, <2>3, <2>4 DEF Init, TypeOK
<1>3. WakeBalance
  BY <1>1 DEF Init, WakeBalance, Releasing, ReleaseAt
<1> QED BY <1>2, <1>3 DEF IInv

\* signal_worker keeps the balance whoever calls it and wherever it returns to.
LEMMA ExchangeHolds ==
  ASSUME IInv, NEW p \in Signallers,
         NEW at \in SignalAt, NEW release \in ReleaseAt,
         NEW next \in {"idle", "check", "frames", "join"},
         Exchange(p, at, release, next)
  PROVE  IInv'
<1> USE SignallerFacts
<1>1. TypeOK'
  BY DEF IInv, TypeOK, Exchange, Goto, SignalAt, ReleaseAt
<1>2. WakeBalance'
  <2>1. CASE pending
    <3>1. \A q \in Signallers : Releasing(q)' <=> Releasing(q)
      BY <2>1 DEF IInv, TypeOK, Exchange, Goto, Releasing, SignalAt, ReleaseAt
    <3> QED BY <2>1, <3>1 DEF IInv, WakeBalance, Exchange
  <2>2. CASE ~pending
    <3>1. \A q \in Signallers : Releasing(q)' <=> q = p
      BY <2>2 DEF IInv, TypeOK, WakeBalance, Exchange, Goto, Releasing, SignalAt, ReleaseAt
    <3> QED BY <2>2, <3>1 DEF IInv, TypeOK, WakeBalance, Exchange
  <2> QED BY <2>1, <2>2 DEF IInv, TypeOK
<1> QED BY <1>1, <1>2 DEF IInv

LEMMA ReleaseHolds ==
  ASSUME IInv, NEW p \in Signallers,
         NEW at \in ReleaseAt, NEW next \in {"idle", "check", "frames", "join"},
         Release(p, at, next)
  PROVE  IInv'
<1> USE SignallerFacts
<1>1. pending /\ tokens = 0 /\ worker # "clear" /\ ~buffered /\ Releasing(p)
  BY DEF IInv, TypeOK, WakeBalance, Release, Releasing
<1>2. TypeOK'
  BY <1>1 DEF IInv, TypeOK, Release, Goto
<1>3. WakeBalance'
  <2>1. \A q \in Signallers : ~Releasing(q)'
    BY <1>1 DEF IInv, TypeOK, WakeBalance, Release, Goto, Releasing, ReleaseAt
  <2> QED BY <1>1, <2>1 DEF Release, WakeBalance
<1> QED BY <1>2, <1>3 DEF IInv

\* The steps of callbacks and notifications outside signal_worker.
LEMMA GuestHolds ==
  ASSUME IInv,
         \/ NotifyEnter \/ NotifyLost
         \/ \E c \in Callbacks : \/ CallbackEnter(c) \/ CallbackOversize(c) \/ CallbackCheck(c)
                                 \/ CallbackGuard(c) \/ CallbackPush(c) \/ CallbackEnd(c)
  PROVE  IInv'
<1> USE SignallerFacts, QueueAssumption
<1>0. PICK g \in Guests :
        \/ g = Notifier /\ (NotifyEnter \/ NotifyLost)
        \/ g \in Callbacks /\ \/ CallbackEnter(g) \/ CallbackOversize(g) \/ CallbackCheck(g)
                              \/ CallbackGuard(g) \/ CallbackPush(g) \/ CallbackEnd(g)
  BY DEF Guests
<1>1. PICK at \in {"idle", "lost", "oversize", "check", "guard", "frames"} \cup SignalAt : Goto(g, at)
  BY <1>0 DEF NotifyEnter, NotifyLost, CallbackEnter, CallbackOversize, CallbackCheck,
              CallbackGuard, CallbackPush, CallbackEnd, SignalAt
<1>2. UNCHANGED <<wake, worker, s>> /\ pc[g] \notin ReleaseAt
  BY <1>0 DEF NotifyEnter, NotifyLost, CallbackEnter, CallbackOversize, CallbackCheck,
              CallbackGuard, CallbackPush, CallbackEnd, ReleaseAt
<1>3. d' \in DeviceType
  <2>1. d \in DeviceType /\ (g # Notifier => g \in Callbacks)
    BY DEF IInv, TypeOK, Guests
  <2>2. CASE UNCHANGED d
    BY <2>1, <2>2
  <2>3. CASE d' = [d EXCEPT !.lost = TRUE]
    BY <2>1, <2>3 DEF DeviceType
  <2>4. CASE \E h \in Callbacks \cup {"free"} : d' = [d EXCEPT !.guard = h]
    BY <2>1, <2>4 DEF DeviceType
  <2>5. CASE d.captured < QueueBlocks /\ d' = [d EXCEPT !.captured = @ + 1]
    BY <2>1, <2>5 DEF DeviceType
  <2> QED
    BY <1>0, <2>2, <2>3, <2>4, <2>5 DEF NotifyEnter, NotifyLost, CallbackEnter, CallbackOversize,
       CallbackCheck, CallbackGuard, CallbackPush, CallbackEnd
<1>4. TypeOK'
  BY <1>1, <1>2, <1>3 DEF IInv, TypeOK, Goto, wake, Guests, Signallers
<1>5. WakeBalance'
  <2>1. \A q \in Signallers : Releasing(q)' <=> Releasing(q)
    BY <1>1, <1>2 DEF IInv, TypeOK, Goto, Releasing, ReleaseAt, SignalAt, Guests
  <2> QED BY <1>2, <2>1 DEF IInv, WakeBalance, wake
<1> QED BY <1>4, <1>5 DEF IInv

\* The control thread outside signal_worker.
LEMMA ControlHolds ==
  ASSUME IInv,
         \/ Start \/ StopCall \/ Reopen \/ DeviceStart \/ StopSet \/ StopClosing
         \/ StopDevice \/ StopDrained \/ StopJoin
  PROVE  IInv'
<1> USE SignallerFacts, QueueAssumption
<1>1. CASE Reopen
  <2>1. \A p \in Signallers : pc[p] = "idle"
    BY <1>1 DEF Reopen
  <2>2. d' \in DeviceType
    BY <1>1, DeviceUpdates DEF Reopen, IInv, TypeOK, DeviceType
  <2>3. TypeOK'
    <3>1. s' \in [stop : BOOLEAN, restart : BOOLEAN]
      BY <1>1 DEF Reopen, IInv, TypeOK
    <3>2. tokens' \in 0..1
      BY <1>1 DEF Reopen
    <3>3. pending' \in BOOLEAN /\ buffered' \in BOOLEAN
      <4>1. pending' = FALSE /\ buffered' = FALSE
        BY <1>1 DEF Reopen
      <4> QED BY <4>1
    <3> QED BY <1>1, <2>2, <3>1, <3>2, <3>3 DEF Reopen, IInv, TypeOK
  <2>4. WakeBalance'
    BY <1>1, <2>1 DEF Reopen, WakeBalance, Releasing, ReleaseAt
  <2> QED BY <2>3, <2>4 DEF IInv
<1>2. CASE Start \/ StopCall \/ DeviceStart \/ StopSet \/ StopClosing \/ StopDevice
           \/ StopDrained \/ StopJoin
  <2>1. PICK at \in {"idle", "starting", "stop", "close", "quiesce", "drain", "exchange"} :
          Goto(Control, at)
    BY <1>2 DEF Start, StopCall, DeviceStart, StopSet, StopClosing, StopDevice, StopDrained, StopJoin
  <2>2. UNCHANGED wake /\ pc[Control] \notin ReleaseAt
    BY <1>2 DEF Start, StopCall, DeviceStart, StopSet, StopClosing, StopDevice, StopDrained,
                StopJoin, ReleaseAt
  <2>3. TypeOK'
    <3>1. pc' \in [Signallers -> SignalAt \cup ReleaseAt \cup
               {"idle", "lost", "oversize", "check", "guard", "frames", "starting",
                "stop", "close", "quiesce", "drain", "join"}]
      BY <2>1 DEF IInv, TypeOK, Goto, SignalAt
    <3>2. d' \in DeviceType
      BY <1>2, DeviceUpdates DEF IInv, TypeOK, Start, StopCall, DeviceStart, StopSet, StopClosing,
         StopDevice, StopDrained, StopJoin
    <3>3. s' \in [stop : BOOLEAN, restart : BOOLEAN] /\ worker' \in {worker, "loop", "none"}
      BY <1>2 DEF IInv, TypeOK, Start, StopCall, DeviceStart, StopSet, StopClosing,
         StopDevice, StopDrained, StopJoin
    <3> QED BY <2>2, <3>1, <3>2, <3>3 DEF IInv, TypeOK, wake
  <2>4. WakeBalance'
    <3>1. \A q \in Signallers : Releasing(q)' <=> Releasing(q)
      BY <2>1, <2>2 DEF IInv, TypeOK, Goto, Releasing, ReleaseAt
    <3>2. (worker = "clear")' <=> worker = "clear"
      BY <1>2 DEF Start, StopCall, DeviceStart, StopSet, StopClosing, StopDevice, StopDrained, StopJoin
    <3> QED BY <2>2, <3>1, <3>2 DEF IInv, WakeBalance, wake
  <2> QED BY <2>3, <2>4 DEF IInv
<1> QED BY <1>1, <1>2

\* The worker, and its store buffer.
LEMMA WorkerHolds ==
  ASSUME IInv, WorkerStep \/ Drain
  PROVE  IInv'
<1> USE SignallerFacts, QueueAssumption
<1>1. CASE WorkerLoop \/ WorkerLost \/ WorkerClosing \/ WorkerRing \/ WorkerProcess
  <2>1. UNCHANGED <<wake, pc>> /\ worker # "clear" /\ worker' # "clear"
    BY <1>1 DEF WorkerLoop, WorkerLost, WorkerClosing, WorkerRing, WorkerProcess, wake
  <2>2. TypeOK'
    <3>1. d' \in DeviceType
      BY <1>1 DEF IInv, TypeOK, DeviceType, WorkerLoop, WorkerLost, WorkerClosing, WorkerRing, WorkerProcess
    <3>2. s' \in [stop : BOOLEAN, restart : BOOLEAN]
          /\ worker' \in {"done", "loop", "lost", "closing", "ring", "process", "wait"}
      <4>1. [stop |-> TRUE, restart |-> TRUE] \in [stop : BOOLEAN, restart : BOOLEAN]
        OBVIOUS
      <4> QED BY <1>1, <4>1 DEF IInv, TypeOK, WorkerLoop, WorkerLost, WorkerClosing, WorkerRing, WorkerProcess
    <3> QED BY <2>1, <3>1, <3>2 DEF IInv, TypeOK, wake
  <2>3. WakeBalance'
    BY <2>1 DEF IInv, WakeBalance, wake, Releasing
  <2> QED BY <2>2, <2>3 DEF IInv
<1>2. CASE WorkerWait
  <2>1. tokens = 1 /\ tokens' = 0
    BY <1>2 DEF WorkerWait, IInv, TypeOK
  <2>2. TypeOK'
    BY <1>2, <2>1 DEF WorkerWait, IInv, TypeOK
  <2>3. WakeBalance'
    BY <1>2, <2>1 DEF WorkerWait, IInv, WakeBalance, Releasing
  <2> QED BY <2>2, <2>3 DEF IInv
<1>3. CASE WorkerClear
  <2>1. TypeOK'
    BY <1>3 DEF WorkerClear, IInv, TypeOK
  <2>2. WakeBalance'
    BY <1>3 DEF WorkerClear, IInv, TypeOK, WakeBalance, Releasing
  <2> QED BY <2>1, <2>2 DEF IInv
<1>4. CASE Drain
  <2>1. TypeOK'
    BY <1>4 DEF Drain, IInv, TypeOK
  <2>2. WakeBalance'
    BY <1>4 DEF Drain, IInv, TypeOK, WakeBalance, Releasing
  <2> QED BY <2>1, <2>2 DEF IInv
<1> QED BY <1>1, <1>2, <1>3, <1>4 DEF WorkerStep

LEMMA StepHolds == IInv /\ [Next]_vars => IInv'
<1> SUFFICES ASSUME IInv, [Next]_vars PROVE IInv'
  OBVIOUS
<1> USE SignallerFacts
<1>1. CASE NotifySignal
  BY <1>1, ExchangeHolds, ReleaseHolds DEF NotifySignal, SignalAt, ReleaseAt
<1>2. CASE \E c \in Callbacks : CallbackSignal(c)
  BY <1>2, ExchangeHolds, ReleaseHolds DEF CallbackSignal, SignalAt, ReleaseAt
<1>3. CASE StopSignal
  BY <1>3, ExchangeHolds, ReleaseHolds DEF StopSignal, SignalAt, ReleaseAt
<1>4. CASE \/ NotifyEnter \/ NotifyLost
           \/ \E c \in Callbacks : \/ CallbackEnter(c) \/ CallbackOversize(c) \/ CallbackCheck(c)
                                   \/ CallbackGuard(c) \/ CallbackPush(c) \/ CallbackEnd(c)
  BY <1>4, GuestHolds
<1>5. CASE \/ Start \/ StopCall \/ Reopen \/ DeviceStart \/ StopSet \/ StopClosing
           \/ StopDevice \/ StopDrained \/ StopJoin
  BY <1>5, ControlHolds
<1>6. CASE WorkerStep \/ Drain
  BY <1>6, WorkerHolds
<1>7. CASE UNCHANGED vars
  BY <1>7 DEF vars, wake, IInv, TypeOK, WakeBalance, Releasing
<1>8. CASE DeviceStops
  <2>1. d' \in DeviceType /\ UNCHANGED <<wake, pc, worker, s>>
    BY <1>8, DeviceUpdates DEF DeviceStops, IInv, TypeOK
  <2> QED BY <2>1 DEF wake, IInv, TypeOK, WakeBalance, Releasing
<1> QED BY <1>1, <1>2, <1>3, <1>4, <1>5, <1>6, <1>7, <1>8 DEF Next, CallbackStep, ControlStep

LEMMA IInvHolds == Spec => []IInv
BY InitHolds, StepHolds, PTL DEF Spec

\* Every variable keeps its type; in particular the semaphore of the device
\* never holds a second token, whatever the number of callback threads.
THEOREM TypeCorrect == Spec => []TypeOK
<1>1. IInv => TypeOK
  BY DEF IInv
<1> QED BY <1>1, IInvHolds, PTL

\* wake_pending is set exactly while one wake-up is under way, so signals are
\* coalesced and none is counted twice (signal_worker of live_device.c).
THEOREM WakeBalanced == Spec => []WakeBalance
<1>1. IInv => WakeBalance
  BY DEF IInv
<1> QED BY <1>1, IInvHolds, PTL

---------------------------------------------------------------------------
(* No wake-up is lost while no clear is delayed.  The strengthening        *)
(* follows the worker through the checks of ap_audio_wait: what it has     *)
(* already looked at and found absent can only have appeared since, and    *)
(* whoever made it appear still owes a token or has left one.              *)

Owed == tokens = 1 \/ AboutToSignal

Watched ==
  /\ buffered => delayed
  /\ ~delayed => /\ worker \in {"closing", "ring", "wait"} /\ d.lost => Owed
                 /\ worker \in {"ring", "wait"} /\ d.closing => Owed
                 /\ worker = "wait" /\ d.captured > 0 => Owed

\* Outside the worker a step keeps what is owed, or the worker is awake.
LEMMA OwedKept ==
  ASSUME IInv, IInv', ~buffered, worker \in {"closing", "ring", "wait"}, UNCHANGED worker,
         \/ NotifyEnter \/ NotifyLost \/ NotifySignal
         \/ \E c \in Callbacks : CallbackEnter(c) \/ CallbackStep(c)
         \/ StopCall \/ ControlStep,
         Owed
  PROVE  Owed'
<1> USE SignallerFacts
<1>0. pc \in [Signallers -> SignalAt \cup ReleaseAt \cup
               {"idle", "lost", "oversize", "check", "guard", "frames", "starting",
                "stop", "close", "quiesce", "drain", "join"}]
  BY DEF IInv, TypeOK
<1>1. ASSUME NEW p \in Signallers, NEW at \in SignalAt, NEW release \in ReleaseAt, NEW next,
             Exchange(p, at, release, next)
      PROVE  Owed'
  <2>1. pending' = TRUE /\ UNCHANGED <<tokens, buffered>>
    BY <1>1 DEF Exchange
  <2>2. tokens' = 1 \/ \E q \in Signallers : Releasing(q)'
    BY <2>1 DEF IInv, WakeBalance
  <2> QED BY <2>2 DEF Owed, AboutToSignal, Releasing
<1>2. ASSUME NEW p \in Signallers, NEW at \in ReleaseAt, NEW next, Release(p, at, next)
      PROVE  Owed'
  <2>1. tokens = 0
    BY <1>2 DEF Release, IInv, TypeOK, WakeBalance, Releasing
  <2> QED BY <1>2, <2>1 DEF Release, Owed
<1>3. CASE NotifySignal \/ StopSignal \/ \E c \in Callbacks : CallbackSignal(c)
  BY <1>3, <1>1, <1>2 DEF NotifySignal, StopSignal, CallbackSignal, SignalAt, ReleaseAt
<1>4. ASSUME NEW g \in Guests, pc[g] \notin SignalAt \cup ReleaseAt, NEW at, Goto(g, at), UNCHANGED tokens
      PROVE  Owed'
  BY <1>0, <1>4 DEF Goto, Owed, AboutToSignal, Guests
<1>5. CASE NotifyEnter \/ NotifyLost
  BY <1>5, <1>4 DEF NotifyEnter, NotifyLost, Guests, SignalAt, ReleaseAt, wake
<1>6. ASSUME NEW c \in Callbacks,
             \/ CallbackEnter(c) \/ CallbackOversize(c) \/ CallbackCheck(c)
             \/ CallbackGuard(c) \/ CallbackPush(c) \/ CallbackEnd(c)
      PROVE  Owed'
  <2>1. c \in Guests /\ pc[c] \notin SignalAt \cup ReleaseAt /\ UNCHANGED tokens
    BY <1>6 DEF Guests, SignalAt, ReleaseAt, wake, CallbackEnter, CallbackOversize, CallbackCheck,
       CallbackGuard, CallbackPush, CallbackEnd
  <2>2. \E at : Goto(c, at)
    BY <1>6 DEF CallbackEnter, CallbackOversize, CallbackCheck, CallbackGuard, CallbackPush, CallbackEnd
  <2> QED BY <2>1, <2>2, <1>4
<1>7. CASE StopCall \/ DeviceStart \/ StopSet \/ StopClosing \/ StopDevice \/ StopDrained \/ StopJoin
  <2>1. worker # "done" /\ UNCHANGED tokens
    BY <1>7 DEF StopCall, DeviceStart, StopSet, StopClosing, StopDevice, StopDrained, StopJoin, wake
  <2>2. PICK at : Goto(Control, at) /\ pc[Control] \notin SignalAt \cup ReleaseAt
    BY <1>7 DEF StopCall, DeviceStart, StopSet, StopClosing, StopDevice, StopDrained, StopJoin, SignalAt, ReleaseAt
  <2>3. pc[Control] \in {"quiesce", "drain"} => at \in {"drain", "exchange"}
    BY <1>0, <1>7, <2>1, <2>2 DEF StopCall, DeviceStart, StopSet, StopClosing, StopDevice, StopDrained, StopJoin, Goto
  <2> QED BY <1>0, <2>1, <2>2, <2>3 DEF Goto, Owed, AboutToSignal, SignalAt
<1> QED BY <1>3, <1>5, <1>6, <1>7 DEF CallbackStep, ControlStep

\* What a step makes visible, its maker is about to signal.
LEMMA MakerSignals ==
  ASSUME IInv, IInv', UNCHANGED worker, worker # "none",
         \/ NotifyEnter \/ NotifyLost \/ NotifySignal
         \/ \E c \in Callbacks : CallbackEnter(c) \/ CallbackStep(c)
         \/ StopCall \/ ControlStep
  PROVE  \/ Owed'
         \/ d'.lost = d.lost /\ d'.closing = d.closing /\ d'.captured <= d.captured
<1> USE SignallerFacts
<1>0. d \in DeviceType
      /\ pc \in [Signallers -> SignalAt \cup ReleaseAt \cup
               {"idle", "lost", "oversize", "check", "guard", "frames", "starting",
                "stop", "close", "quiesce", "drain", "join"}]
  BY DEF IInv, TypeOK
<1>1. CASE NotifyLost
  BY <1>0, <1>1 DEF NotifyLost, Goto, Owed, AboutToSignal, SignalAt
<1>2. ASSUME NEW c \in Callbacks, CallbackOversize(c) \/ CallbackPush(c)
      PROVE  Owed'
  BY <1>0, <1>2 DEF CallbackOversize, CallbackPush, Goto, Owed, AboutToSignal, SignalAt
<1>3. CASE StopClosing
  BY <1>0, <1>3 DEF StopClosing, Goto, Owed, AboutToSignal
<1>4. CASE UNCHANGED d
  BY <1>0, <1>4, QueueAssumption DEF DeviceType
<1>5. CASE DeviceStart \/ StopDevice \/ \E c \in Callbacks : CallbackGuard(c) \/ CallbackEnd(c)
  <2>1. \/ UNCHANGED d
        \/ \E b \in BOOLEAN : d' = [d EXCEPT !.running = b]
        \/ \E h : d' = [d EXCEPT !.guard = h]
    BY <1>5 DEF DeviceStart, StopDevice, CallbackGuard, CallbackEnd
  <2>2. d'.lost = d.lost /\ d'.closing = d.closing /\ d'.captured = d.captured
    BY <1>0, <2>1 DEF DeviceType
  <2>3. d.captured \in Nat
    BY <1>0, QueueAssumption DEF DeviceType
  <2> QED BY <2>2, <2>3
<1>6. CASE NotifyEnter \/ NotifySignal \/ StopCall \/ StopSet \/ StopDrained \/ StopSignal \/ StopJoin
  BY <1>4, <1>6 DEF NotifyEnter, NotifySignal, StopCall, StopSet, StopDrained, StopSignal, StopJoin,
     Exchange, Release
<1>7. CASE \E c \in Callbacks : CallbackEnter(c) \/ CallbackCheck(c) \/ CallbackSignal(c)
  BY <1>4, <1>7 DEF CallbackEnter, CallbackCheck, CallbackSignal, Exchange, Release
<1> QED BY <1>1, <1>2, <1>3, <1>5, <1>6, <1>7 DEF CallbackStep, ControlStep

LEMMA WatchedStep ==
  ASSUME IInv, IInv', Watched, [Next]_vars
  PROVE  Watched'
<1> USE SignallerFacts
<1>1. CASE \/ NotifyEnter \/ NotifyLost \/ NotifySignal
           \/ \E c \in Callbacks : CallbackEnter(c) \/ CallbackStep(c)
           \/ StopCall \/ ControlStep
  <2>1. UNCHANGED <<buffered, delayed>>
    BY <1>1 DEF wake, NotifyEnter, NotifyLost, NotifySignal, CallbackEnter, CallbackStep,
       CallbackOversize, CallbackCheck, CallbackGuard, CallbackPush, CallbackEnd, CallbackSignal,
       Exchange, Release, StopCall, ControlStep, DeviceStart, StopSet, StopClosing,
       StopDevice, StopDrained, StopSignal, StopJoin
  <2>2. CASE worker' \notin {"closing", "ring", "wait"}
    BY <2>1, <2>2 DEF Watched
  <2>3. CASE delayed
    BY <2>1, <2>3 DEF Watched
  <2>4. CASE worker' \in {"closing", "ring", "wait"} /\ ~delayed
    <3>1. UNCHANGED worker
      BY <1>1, <2>4 DEF NotifyEnter, NotifyLost, NotifySignal, CallbackEnter, CallbackStep,
         CallbackOversize, CallbackCheck, CallbackGuard, CallbackPush, CallbackEnd, CallbackSignal,
         Exchange, Release, StopCall, ControlStep, DeviceStart, StopSet, StopClosing, StopDevice,
         StopDrained, StopSignal, StopJoin
    <3>2. worker \in {"closing", "ring", "wait"} /\ worker # "none" /\ ~buffered
      BY <2>4, <3>1 DEF Watched
    <3>3. Owed => Owed'
      BY <1>1, <3>1, <3>2, OwedKept
    <3>4. \/ Owed'
          \/ d'.lost = d.lost /\ d'.closing = d.closing /\ d'.captured <= d.captured
      BY <1>1, <3>1, <3>2, MakerSignals
    <3>5. d.captured \in Nat /\ d'.captured \in Nat
      BY QueueAssumption DEF IInv, TypeOK, DeviceType
    <3> QED BY <2>1, <2>4, <3>1, <3>3, <3>4, <3>5 DEF Watched
  <2> QED BY <2>2, <2>3, <2>4
<1>2. CASE Start \/ Reopen
  BY <1>2 DEF Start, Reopen, Watched, wake
<1>3. CASE WorkerLoop \/ WorkerProcess \/ WorkerWait \/ WorkerClear
  BY <1>3 DEF WorkerLoop, WorkerProcess, WorkerWait, WorkerClear, Watched, wake
<1>4. CASE WorkerLost
  BY <1>4 DEF WorkerLost, Watched, wake
<1>5. CASE WorkerClosing
  BY <1>5 DEF WorkerClosing, Watched, Owed, AboutToSignal, wake
<1>6. CASE WorkerRing
  <2>1. d.captured \in Nat
    BY QueueAssumption DEF IInv, TypeOK, DeviceType
  <2> QED BY <1>6, <2>1 DEF WorkerRing, Watched, Owed, AboutToSignal, wake
<1>7. CASE Drain
  BY <1>7 DEF Drain, Watched, Owed, AboutToSignal
<1>8. CASE UNCHANGED vars
  BY <1>8 DEF vars, wake, Watched, Owed, AboutToSignal
<1>9. CASE DeviceStops
  <2>1. UNCHANGED <<wake, pc, worker>>
    BY <1>9 DEF DeviceStops
  <2>2. d'.lost = d.lost /\ d'.closing = d.closing /\ d'.captured = d.captured
    BY <1>9 DEF DeviceStops, IInv, TypeOK, DeviceType
  <2> QED BY <2>1, <2>2 DEF wake, Watched, Owed, AboutToSignal
<1> QED BY <1>1, <1>2, <1>3, <1>4, <1>5, <1>6, <1>7, <1>8, <1>9 DEF Next, WorkerStep

\* A worker asleep without a token, and with nobody about to signal it, has
\* missed nothing while no clear was delayed: no lost device, no closing
\* session, no queued block (ap_audio_wait of live_device.c).
THEOREM NothingMissed == Spec => []NoLostWakeup
<1>1. Init => Watched
  BY DEF Init, Watched
<1>2. IInv /\ IInv' /\ Watched /\ [Next]_vars => Watched'
  BY WatchedStep
<1>3. IInv /\ Watched => NoLostWakeup
  <2>1. IInv => d.captured \in Nat
    BY QueueAssumption DEF IInv, TypeOK, DeviceType
  <2> QED BY <2>1 DEF Watched, NoLostWakeup, Owed, IInv, TypeOK
<1> QED BY <1>1, <1>2, <1>3, IInvHolds, PTL DEF Spec

---------------------------------------------------------------------------
(* The re-blocking state has one owner.                                    *)

InFrames == {"frames", "exchange", "release"}

\* callback_guard is held exactly by the one callback that re-blocks, for any
\* number of overlapping callback threads.
THEOREM Reblocking == Spec => []OneCallbackReblocks
<1> USE SignallerFacts
<1>1. Init => OneCallbackReblocks
  BY DEF Init, OneCallbackReblocks, Signallers
<1>2. TypeOK /\ OneCallbackReblocks /\ [Next]_vars => OneCallbackReblocks'
  <2> SUFFICES ASSUME TypeOK, OneCallbackReblocks, [Next]_vars PROVE OneCallbackReblocks'
    OBVIOUS
  <2>0. d.guard \in Callbacks \cup {"free"} /\ d \in DeviceType
        /\ pc \in [Signallers -> SignalAt \cup ReleaseAt \cup
               {"idle", "lost", "oversize", "check", "guard", "frames", "starting",
                "stop", "close", "quiesce", "drain", "join"}]
    BY DEF TypeOK, DeviceType
  <2>1. ASSUME d'.guard = d.guard, \A c \in Callbacks : pc'[c] \in InFrames <=> pc[c] \in InFrames
        PROVE  OneCallbackReblocks'
    BY <2>0, <2>1 DEF OneCallbackReblocks, InFrames
  <2>2. ASSUME NEW c \in Callbacks, d'.guard = d.guard, NEW at, Goto(c, at),
               at \in InFrames <=> pc[c] \in InFrames
        PROVE  OneCallbackReblocks'
    BY <2>0, <2>1, <2>2 DEF Goto
  <2>3. ASSUME NEW p \in {Notifier, Control}, d'.guard = d.guard, NEW at, Goto(p, at)
        PROVE  OneCallbackReblocks'
    BY <2>0, <2>1, <2>3 DEF Goto
  <2>4. CASE NotifyEnter \/ NotifyLost \/ NotifySignal
    BY <2>0, <2>3, <2>4 DEF NotifyEnter, NotifyLost, NotifySignal, Exchange, Release, DeviceType
  <2>5. CASE Start \/ StopCall \/ ControlStep
    BY <2>0, <2>3, <2>5 DEF Start, StopCall, ControlStep, DeviceStart, StopSet, StopClosing,
       StopDevice, StopDrained, StopSignal, StopJoin, Exchange, Release, DeviceType
  <2>6. CASE Reopen \/ DeviceStops \/ WorkerStep \/ Drain \/ UNCHANGED vars
    BY <2>0, <2>1, <2>6 DEF Reopen, DeviceStops, WorkerStep, WorkerLoop, WorkerLost, WorkerClosing, WorkerRing,
       WorkerProcess, WorkerWait, WorkerClear, Drain, vars, DeviceType
  <2>7. ASSUME NEW c \in Callbacks, CallbackEnter(c) \/ CallbackOversize(c) \/ CallbackCheck(c)
        PROVE  OneCallbackReblocks'
    BY <2>0, <2>2, <2>7 DEF CallbackEnter, CallbackOversize, CallbackCheck, DeviceType, InFrames
  <2>8. ASSUME NEW c \in Callbacks, CallbackPush(c) \/ CallbackSignal(c)
        PROVE  OneCallbackReblocks'
    BY <2>0, <2>2, <2>8 DEF CallbackPush, CallbackSignal, Exchange, Release, DeviceType, InFrames
  <2>9. ASSUME NEW c \in Callbacks, CallbackGuard(c)
        PROVE  OneCallbackReblocks'
    <3>1. CASE d.guard = "free"
      BY <2>0, <2>9, <3>1 DEF CallbackGuard, OneCallbackReblocks, Goto, DeviceType
    <3>2. CASE d.guard # "free"
      BY <2>0, <2>2, <2>9, <3>2 DEF CallbackGuard, InFrames
    <3> QED BY <3>1, <3>2
  <2>10. ASSUME NEW c \in Callbacks, CallbackEnd(c)
         PROVE  OneCallbackReblocks'
    BY <2>0, <2>10 DEF CallbackEnd, OneCallbackReblocks, Goto, DeviceType
  <2> QED BY <2>4, <2>5, <2>6, <2>7, <2>8, <2>9, <2>10 DEF Next, CallbackStep
<1> QED BY <1>1, <1>2, TypeCorrect, PTL DEF Spec

---------------------------------------------------------------------------
(* The data path: what DeviceTransport_proofs proves, of this module's     *)
(* runs.                                                                   *)

Proved == INSTANCE DeviceTransport_proofs WITH worker <- busy, QueueBlocks <- Configured

LEMMA SizesAreProved ==
  /\ \A n, by : Transport!RoundUp(n, by) = Proved!RoundUp(n, by)
  /\ \A n, bound : Transport!Capped(n, bound) = Proved!Capped(n, bound)
  /\ Transport!Silence = Proved!Silence
  /\ Transport!BurstBlocks = Proved!BurstBlocks
  /\ Transport!PipelineBlocks = Proved!PipelineBlocks
  /\ Transport!MaxCallbackFrames = Proved!MaxCallbackFrames
  /\ Transport!Capacity = Proved!Capacity
<1>1. /\ \A n, by : Transport!RoundUp(n, by) = Proved!RoundUp(n, by)
      /\ \A n, bound : Transport!Capped(n, bound) = Proved!Capped(n, bound)
      /\ Transport!Silence = Proved!Silence
  BY DEF Transport!RoundUp, Proved!RoundUp, Transport!Silence, Proved!Silence,
         Transport!Capped, Proved!Capped
<1>2. \A S : Transport!Min(S) = Proved!Min(S)
  BY DEF Transport!Min, Proved!Min
<1>3. Transport!BurstBlocks = Proved!BurstBlocks
  BY <1>1 DEF Transport!Frames, Proved!Frames, Transport!BurstBlocks, Proved!BurstBlocks
<1>4. Transport!PipelineBlocks = Proved!PipelineBlocks
  BY <1>3 DEF Transport!PipelineBlocks, Proved!PipelineBlocks
<1>5. Transport!MaxCallbackFrames = Proved!MaxCallbackFrames
  BY <1>3 DEF Transport!MaxCallbackFrames, Proved!MaxCallbackFrames
<1>6. Transport!Capacity = Proved!Capacity
  BY <1>2, <1>4 DEF Transport!Capacity, Proved!Capacity
<1> QED
  BY <1>1, <1>3, <1>4, <1>5, <1>6

LEMMA StepsAreProved ==
  /\ Transport!Assumptions <=> Proved!Assumptions
  /\ Transport!Init => Proved!Init
  /\ Transport!Next => Proved!Next
<1>1. Transport!callback = Proved!callback /\ (Transport!Idle <=> Proved!Idle)
  BY DEF Transport!callback, Proved!callback, Transport!Idle, Proved!Idle
<1>2. Transport!FirstDue = Proved!FirstDue
  BY DEF Transport!FirstDue, Proved!FirstDue, Transport!SelectInSeq, Proved!SelectInSeq,
         Transport!Min, Proved!Min
<1>3. Transport!Assumptions <=> Proved!Assumptions
  BY SizesAreProved DEF Transport!Assumptions, Proved!Assumptions
<1>4. Transport!Init => Proved!Init
  BY SizesAreProved DEF Transport!Init, Proved!Init
<1>5. /\ Transport!Prepare => Proved!Prepare
      /\ Transport!CallbackEnter => Proved!CallbackEnter
      /\ Transport!Pop => Proved!Pop
      /\ Transport!PopStore => Proved!PopStore
  BY <1>2, SizesAreProved DEF Transport!Prepare, Proved!Prepare, Transport!CallbackEnter, Proved!CallbackEnter,
         Transport!Pop, Proved!Pop, Transport!PopStore, Proved!PopStore
<1>6. \A o : Transport!FrameDone(o) <=> Proved!FrameDone(o)
  BY DEF Transport!FrameDone, Proved!FrameDone
<1>7. Transport!NextTick <=> Proved!NextTick
  BY <1>6, SizesAreProved DEF Transport!NextTick, Proved!NextTick
<1>8. Transport!Frame => Proved!Frame
  BY <1>1, <1>6, SizesAreProved DEF Transport!Frame, Proved!Frame
<1>9. (Transport!Push => Proved!Push) /\ (Transport!PushStore => Proved!PushStore)
  BY <1>7, SizesAreProved DEF Transport!Push, Proved!Push, Transport!PushStore, Proved!PushStore
<1>10. /\ Transport!Wait => Proved!Wait
       /\ Transport!WaitStore => Proved!WaitStore
       /\ Transport!Submit => Proved!Submit
       /\ Transport!SubmitStore => Proved!SubmitStore
  BY SizesAreProved DEF Transport!Wait, Proved!Wait, Transport!WaitStore, Proved!WaitStore,
         Transport!Submit, Proved!Submit, Transport!SubmitStore, Proved!SubmitStore,
         Transport!callback, Proved!callback
<1> QED
  BY <1>3, <1>4, <1>5, <1>8, <1>9, <1>10 DEF Transport!Next, Proved!Next

LEMMA RunsAreProved == Proved!Assumptions /\ (SideSpec => Proved!Spec)
<1>1. Proved!Assumptions
  BY TransportAssumption, StepsAreProved
<1>2. SideInit => Proved!Init
  BY StepsAreProved DEF SideInit
<1>3. [SideNext]_<<side, transportVars, vars>> => [Proved!Next]_Proved!vars
  BY StepsAreProved DEF SideNext, transportVars, Proved!vars, Proved!callback
<1> QED
  BY <1>1, <1>2, <1>3, PTL DEF SideSpec, Proved!Spec

\* For any sizes of blocks, buffers and queues, a frame plays silence or the output for
\* what was captured PipelineBlocks earlier (callback, ap_audio_submit).
THEOREM DelayIsFixed == SideSpec => []FixedDelay
<1>1. Proved!FixedDelay <=> FixedDelay
  BY SizesAreProved DEF Proved!FixedDelay, FixedDelay, Transport!FixedDelay
<1> QED
  BY <1>1, RunsAreProved, Proved!DelayIsFixed, PTL

\* Late blocks never stand in the way of one that is due (the pop loop).
THEOREM InTime == SideSpec => InTimeIsPlayed
<1>1. Proved!InTimeIsPlayed <=> InTimeIsPlayed
  <2> DEFINE Played == \A i \in 1..Len(playback) :
        cb = "pop" /\ cb' = "popped" /\ playback[i].due = clock => playing' = playback[i].tick
  <2>1. [Played]_Proved!vars <=> [Played]_Transport!vars
    BY DEF Proved!vars, Transport!vars, Proved!callback, Transport!callback
  <2> QED
    BY <2>1, PTL DEF Proved!InTimeIsPlayed, InTimeIsPlayed, Transport!InTimeIsPlayed
<1> QED
  BY <1>1, RunsAreProved, Proved!InTime, PTL

\* For any sizes, a worker that catches up once in every burst never causes a silent
\* block, and after a stall the last one comes PipelineBlocks + 1 blocks later (callback,
\* ap_audio_submit, configure_transport).
THEOREM BurstsAreCovered == SideSpec => []BurstNeedsNoWorker
<1>1. Proved!BurstNeedsNoWorker <=> BurstNeedsNoWorker
  BY SizesAreProved
  DEF Proved!BurstNeedsNoWorker, BurstNeedsNoWorker, Transport!BurstNeedsNoWorker
<1> QED
  BY <1>1, RunsAreProved, Proved!BurstsAreCovered, PTL

\* For any sizes, neither queue drops a block once a stall is two blocks ago (the full
\* branches of callback and ap_audio_submit).
THEOREM DropsFollowStalls == SideSpec => DropNeedsStall
<1>1. Proved!DropNeedsStall <=> DropNeedsStall
  <2> DEFINE Drop == (cb = "push" /\ clock' = clock + 1) \/ (busy = "process" /\ busy' = "wait")
  <2>1. [Drop => calm <= 2]_Proved!vars <=> [Drop => calm <= 2]_Transport!vars
    BY DEF Proved!vars, Transport!vars, Proved!callback, Transport!callback
  <2> QED
    BY <2>1, PTL DEF Proved!DropNeedsStall, DropNeedsStall, Transport!DropNeedsStall
<1> QED
  BY <1>1, RunsAreProved, Proved!DropsFollowStalls, PTL

===============================================================================
