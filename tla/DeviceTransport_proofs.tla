----------------------- MODULE DeviceTransport_proofs -----------------------
(***************************************************************************)
(* Proofs about the data path of the hardware driver, for any sizes of     *)
(* blocks, device buffers, rates and queues: the delay is fixed, what is   *)
(* in the playback queue when it is due is played, and once a worker that  *)
(* was more than a burst behind has caught up, no block is dropped and the *)
(* silence ends.                                                           *)
(***************************************************************************)
EXTENDS DeviceTransport, SequenceTheorems, WellFoundedInduction, TLAPS

\* The least element of a set of naturals, from their well-foundedness.
LEMMA Least ==
  ASSUME NEW I, I \subseteq Nat, I # {}
  PROVE  Min(I) \in I /\ \A j \in I : Min(I) <= j
<1> DEFINE Less == {ss \in Nat \X Nat : ss[1] < ss[2]}
<1>1. IsWellFoundedOn(Less, Nat)
  BY NatLessThanWellFounded DEF OpToRel
<1>2. PICK x \in I : \A y \in I : <<y, x>> \notin Less
  <2> HIDE DEF Less
  <2> QED
    BY <1>1, WFMin
<1>3. \A y \in I : x <= y
  <2>1. \A y \in I : ~(y < x)
    BY <1>2
  <2> QED
    BY <2>1
<1> QED
  BY <1>3 DEF Min

\* What the pop loop finds.
LEMMA FirstDueIs ==
  ASSUME DOMAIN playback = 1..Len(playback), Len(playback) \in Nat
  PROVE  /\ FirstDue = 0 => \A i \in 1..Len(playback) : ~(playback[i].due >= clock)
         /\ FirstDue # 0 => /\ FirstDue \in 1..Len(playback) /\ playback[FirstDue].due >= clock
                            /\ \A i \in 1..Len(playback) : playback[i].due >= clock => FirstDue <= i
<1> DEFINE I == {i \in 1..Len(playback) : playback[i].due >= clock}
<1>1. FirstDue = IF I # {} THEN Min(I) ELSE 0
  BY DEF FirstDue, SelectInSeq
<1>2. I # {} => Min(I) \in I /\ \A j \in I : Min(I) <= j
  <2>1. I \subseteq Nat
    OBVIOUS
  <2> HIDE DEF I
  <2> QED
    BY <2>1, Least
<1> QED
  BY <1>1, <1>2
---------------------------------------------------------------------------
Output == [tick : Int, due : Int]

Types ==
  /\ clock \in Nat /\ offset \in Nat /\ work \in Int
  /\ capture \in Seq(Int) /\ playback \in Seq(Output)
  /\ taken \in 0..Len(playback) /\ (cb # "popped" => taken = 0)

\* Blocks go through the queues and the worker in the order of their capture.
Ordered ==
  /\ \A i \in 1..Len(capture) :
       capture[i] < clock /\ \A j \in 1..Len(capture) : i < j => capture[i] < capture[j]
  /\ worker = "copied" => capture # <<>> /\ work = capture[1]
  /\ worker \in {"process", "submit"} =>
       work < clock /\ \A i \in 1..Len(capture) : work < capture[i]

\* Each output is due a fixed delay after its capture, and newer output later.
Due ==
  \A i \in 1..Len(playback) :
    /\ playback[i].due = playback[i].tick + PipelineBlocks
    /\ playback[i].tick < clock
    /\ \A j \in 1..Len(playback) : i < j => playback[i].tick < playback[j].tick
    /\ \A j \in 1..Len(capture) : playback[i].tick < capture[j]
    /\ worker \in {"process", "submit"} => playback[i].tick < work

\* A block once chosen is played to its end, across callbacks.
Played ==
  cb \in {"popped", "frame", "push", "pushed"} \/ (cb = "out" /\ offset # 0)
    => playing \in {Silence, clock - PipelineBlocks}

IInv == Types /\ Ordered /\ Due /\ Played

LEMMA DelayType ==
  ASSUME Assumptions
  PROVE  PipelineBlocks \in Int
<1>1. \A n \in Int, by \in Nat \ {0} : RoundUp(n, by) \in Int
  BY DEF RoundUp
<1>2. Frames \in Int
  BY <1>1 DEF Frames, Assumptions
<1> QED
  BY <1>1, <1>2 DEF PipelineBlocks, BurstBlocks, Assumptions

LEMMA Elements ==
  ASSUME Assumptions, Types
  PROVE  /\ Len(capture) \in Nat /\ \A i \in 1..Len(capture) : capture[i] \in Int
         /\ Len(playback) \in Nat
         /\ \A i \in 1..Len(playback) :
              playback[i] \in Output /\ playback[i].tick \in Int /\ playback[i].due \in Int
<1>1. \A i \in 1..Len(playback) : playback[i] \in Output
  BY ElementOfSeq DEF Types
<1>2. \A o \in Output : o.tick \in Int /\ o.due \in Int
  BY DEF Output
<1> QED
  BY <1>1, <1>2, LenProperties DEF Types

LEMMA InitInv ==
  ASSUME Assumptions
  PROVE  Init => IInv
  BY DEF Init, IInv, Types, Ordered, Due, Played

\* The steps that move no block.
LEMMA QuietInv ==
  ASSUME Assumptions, IInv, Prepare \/ CallbackEnter \/ Frame \/ Push \/ Submit \/ UNCHANGED vars
  PROVE  IInv'
<1>1. CASE Prepare
  <2>1. /\ capture' = <<>> /\ playback' = <<>> /\ clock' = 0 /\ offset' = 0
        /\ cb' = "out" /\ worker' = "wait" /\ taken' = 0 /\ UNCHANGED work
    BY <1>1 DEF Prepare, IInv, Types
  <2> QED
    BY <2>1 DEF IInv, Types, Ordered, Due, Played
<1>2. CASE CallbackEnter
  BY <1>2 DEF CallbackEnter, IInv, Types, Ordered, Due, Played
<1>3. CASE Frame
  BY <1>3 DEF Frame, FrameDone, IInv, Types, Ordered, Due, Played
<1>4. CASE Push
  <2>1. /\ UNCHANGED <<taken, playing, capture, playback, worker, work>> /\ taken = 0
        /\ clock' \in {clock, clock + 1} /\ cb' # "popped"
        /\ \/ cb' = "pushed" /\ UNCHANGED <<offset, clock>>
           \/ cb' \in {"out", "pop"} /\ offset' = 0
    BY <1>4 DEF Push, NextTick, FrameDone, IInv, Types
  <2>2. Types' /\ Played'
    BY <1>4, <2>1 DEF Push, IInv, Types, Played
  <2>3. Ordered' /\ Due'
    BY <2>1, Elements DEF IInv, Types, Ordered, Due
  <2> QED
    BY <2>2, <2>3 DEF IInv
<1>5. CASE Submit
  BY <1>5 DEF Submit, callback, IInv, Types, Ordered, Due, Played
<1>6. CASE UNCHANGED vars
  BY <1>6 DEF vars, callback, IInv, Types, Ordered, Due, Played
<1> QED
  BY <1>1, <1>2, <1>3, <1>4, <1>5, <1>6

LEMMA PopInv ==
  ASSUME Assumptions
  PROVE  IInv /\ Pop => IInv'
<1> SUFFICES ASSUME IInv, Pop PROVE IInv'
  OBVIOUS
<1> DEFINE i == FirstDue
           found == i # 0 /\ playback[i].due = clock
<1>1. i # 0 => i \in 1..Len(playback)
  BY FirstDueIs DEF IInv, Types
<1>2. taken' = IF i = 0 THEN Len(playback) ELSE IF found THEN i ELSE i - 1
  BY DEF Pop
<1>3. playing' = IF found THEN playback[i].tick ELSE Silence
  BY DEF Pop
<1>4. cb' = "popped" /\ UNCHANGED <<left, offset, clock, capture, playback, worker, work>>
  BY DEF Pop
<1> HIDE DEF i
<1>5. taken' \in 0..Len(playback)
  BY <1>1, <1>2 DEF IInv, Types
<1>6. playing' \in {Silence, clock - PipelineBlocks}
  <2>1. CASE found
    <3>1. /\ i \in 1..Len(playback) /\ playback[i].due = clock
          /\ playing' = playback[i].tick
      BY <1>1, <1>3, <2>1
    <3>2. playback[i].due = playback[i].tick + PipelineBlocks
      BY <3>1 DEF IInv, Due
    <3>3. playback[i].tick \in Int
      BY <3>1, Elements DEF IInv
    <3> HIDE DEF found
    <3> QED
      BY <3>1, <3>2, <3>3, DelayType
  <2>2. CASE ~found
    BY <1>3, <2>2
  <2> QED
    BY <2>1, <2>2
<1> QED
  BY <1>4, <1>5, <1>6 DEF IInv, Types, Ordered, Due, Played

LEMMA PopStoreInv ==
  ASSUME Assumptions
  PROVE  IInv /\ PopStore => IInv'
<1> SUFFICES ASSUME IInv, PopStore PROVE IInv'
  OBVIOUS
<1>1. /\ playback' = SubSeq(playback, taken + 1, Len(playback))
      /\ taken' = 0 /\ cb = "popped"
      /\ UNCHANGED <<left, offset, clock, playing, capture, worker, work>>
  BY DEF PopStore
<1>2. /\ playback' \in Seq(Output)
      /\ Len(playback') = Len(playback) - taken
      /\ \A i \in 1..Len(playback') : playback'[i] = playback[i + taken]
  <2>1. taken \in Nat /\ Len(playback) \in Nat /\ taken <= Len(playback)
    BY DEF IInv, Types
  <2>2. \A i \in 1..Len(playback) : playback[i] \in Output
    BY Elements DEF IInv
  <2>3. Len(playback') = Len(playback) - taken
    BY <1>1, <2>1
  <2>4. \A i \in 1..Len(playback') : playback'[i] = playback[i + taken]
    BY <1>1, <2>1
  <2>5. playback' \in Seq(Output)
    BY <1>1, <2>1, <2>2, SubSeqProperties DEF IInv, Types
  <2> QED
    BY <2>3, <2>4, <2>5
<1>3. \A i \in 1..Len(playback') : i + taken \in 1..Len(playback)
  BY <1>2 DEF IInv, Types
<1>4. Due'
  <2> SUFFICES ASSUME NEW i \in 1..Len(playback')
               PROVE  /\ playback'[i].due = playback'[i].tick + PipelineBlocks
                      /\ playback'[i].tick < clock
                      /\ \A j \in 1..Len(playback') : i < j => playback'[i].tick < playback'[j].tick
                      /\ \A j \in 1..Len(capture) : playback'[i].tick < capture[j]
                      /\ worker \in {"process", "submit"} => playback'[i].tick < work
    BY <1>1 DEF Due
  <2>1. i + taken \in 1..Len(playback) /\ playback'[i] = playback[i + taken]
    BY <1>2, <1>3
  <2>2. ASSUME NEW j \in 1..Len(playback'), i < j
        PROVE  playback'[i].tick < playback'[j].tick
    <3>1. j + taken \in 1..Len(playback) /\ playback'[j] = playback[j + taken]
      BY <1>2, <1>3
    <3>2. i + taken < j + taken
      BY <2>2 DEF IInv, Types
    <3> QED
      BY <2>1, <3>1, <3>2 DEF IInv, Due
  <2> QED
    BY <2>1, <2>2 DEF IInv, Due
<1> QED
  BY <1>1, <1>2, <1>4 DEF IInv, Types, Ordered, Played

LEMMA PushStoreInv ==
  ASSUME Assumptions
  PROVE  IInv /\ PushStore => IInv'
<1> SUFFICES ASSUME IInv, PushStore PROVE IInv'
  OBVIOUS
<1>1. /\ capture' = Append(capture, clock) /\ clock' = clock + 1 /\ offset' = 0
      /\ cb' \in {"out", "pop"} /\ cb = "pushed"
      /\ UNCHANGED <<taken, playing, playback, worker, work>>
  BY DEF PushStore, NextTick, FrameDone
<1>2. /\ capture' \in Seq(Int) /\ Len(capture') = Len(capture) + 1
      /\ \A i \in 1..Len(capture') :
           capture'[i] = IF i <= Len(capture) THEN capture[i] ELSE clock
  BY <1>1 DEF IInv, Types
<1>3. Ordered'
  BY <1>1, <1>2 DEF IInv, Types, Ordered
<1>4. Due'
  BY <1>1, <1>2, Elements DEF IInv, Types, Due
<1> QED
  BY <1>1, <1>2, <1>3, <1>4 DEF IInv, Types, Played

LEMMA WaitInv ==
  ASSUME Assumptions
  PROVE  IInv /\ Wait => IInv'
  BY DEF Wait, callback, IInv, Types, Ordered, Due, Played

LEMMA WaitStoreInv ==
  ASSUME Assumptions
  PROVE  IInv /\ WaitStore => IInv'
<1> SUFFICES ASSUME IInv, WaitStore PROVE IInv'
  OBVIOUS
<1>1. /\ capture' = Tail(capture) /\ capture # <<>> /\ work = capture[1]
      /\ worker' = "process" /\ UNCHANGED <<callback, playback, work>>
  BY DEF WaitStore, IInv, Ordered
<1>2. /\ capture' \in Seq(Int) /\ Len(capture') = Len(capture) - 1
      /\ \A i \in 1..Len(capture') : capture'[i] = capture[i + 1] /\ i + 1 \in 1..Len(capture)
  BY <1>1 DEF IInv, Types
<1>3. 1 \in 1..Len(capture)
  BY <1>1 DEF IInv, Types
<1>4. Ordered'
  BY <1>1, <1>2, <1>3 DEF callback, IInv, Types, Ordered
<1>5. Due'
  BY <1>1, <1>2, <1>3 DEF callback, IInv, Types, Due
<1> QED
  BY <1>1, <1>2, <1>4, <1>5 DEF callback, IInv, Types, Played

LEMMA SubmitStoreInv ==
  ASSUME Assumptions
  PROVE  IInv /\ SubmitStore => IInv'
<1> SUFFICES ASSUME IInv, SubmitStore PROVE IInv'
  OBVIOUS
<1> DEFINE b == [tick |-> work, due |-> work + PipelineBlocks]
<1>1. /\ playback' = Append(playback, b) /\ worker = "submit" /\ worker' = "wait"
      /\ UNCHANGED <<callback, capture, work>>
  BY DEF SubmitStore
<1>2. b \in Output /\ b.tick = work /\ b.due = work + PipelineBlocks
  BY DelayType DEF IInv, Types, Output
<1> HIDE DEF b
<1>3. /\ playback' \in Seq(Output) /\ Len(playback') = Len(playback) + 1
      /\ \A i \in 1..Len(playback') :
           playback'[i] = IF i <= Len(playback) THEN playback[i] ELSE b
  BY <1>1, <1>2 DEF IInv, Types
<1>4. Due'
  BY <1>1, <1>2, <1>3 DEF callback, IInv, Types, Ordered, Due
<1> QED
  BY <1>1, <1>3, <1>4 DEF callback, IInv, Types, Ordered, Played

LEMMA StepInv ==
  ASSUME Assumptions
  PROVE  IInv /\ [Next]_vars => IInv'
  BY QuietInv, PopInv, PopStoreInv, PushStoreInv, WaitInv, WaitStoreInv, SubmitStoreInv
  DEF Next

LEMMA Invariance ==
  ASSUME Assumptions
  PROVE  Spec => []IInv
  BY InitInv, StepInv, PTL DEF Spec

\* For any sizes of blocks, buffers and queues, a frame plays silence or the
\* output for what was captured PipelineBlocks earlier (callback, ap_audio_submit).
THEOREM DelayIsFixed ==
  ASSUME Assumptions
  PROVE  Spec => []FixedDelay
<1>1. IInv => FixedDelay
  BY DEF IInv, Played, FixedDelay
<1> QED
  BY <1>1, Invariance, PTL

\* Late blocks never stand in the way of one that is due (the pop loop).
THEOREM InTime ==
  ASSUME Assumptions
  PROVE  Spec => InTimeIsPlayed
<1> DEFINE InTimeStep ==
      \A i \in 1..Len(playback) :
        cb = "pop" /\ cb' = "popped" /\ playback[i].due = clock
          => playing' = playback[i].tick
<1>1. IInv /\ [Next]_vars => [InTimeStep]_vars
  <2> SUFFICES ASSUME IInv, Next, NEW i \in 1..Len(playback),
                      cb = "pop", cb' = "popped", playback[i].due = clock
               PROVE  playing' = playback[i].tick
    OBVIOUS
  <2>1. Pop
    BY DEF Next, Prepare, CallbackEnter, PopStore, Frame, Push, PushStore,
           Wait, WaitStore, Submit, SubmitStore, callback
  <2>2. FirstDue \in 1..Len(playback) /\ playback[FirstDue].due >= clock /\ FirstDue <= i
    BY FirstDueIs DEF IInv, Types
  <2>3. FirstDue = i
    <3>1. FirstDue < i => playback[FirstDue].tick < playback[i].tick
      BY <2>2 DEF IInv, Due
    <3>2. /\ playback[i].due = playback[i].tick + PipelineBlocks
          /\ playback[FirstDue].due = playback[FirstDue].tick + PipelineBlocks
      BY <2>2 DEF IInv, Due
    <3>3. /\ playback[i].tick \in Int /\ playback[FirstDue].tick \in Int
          /\ clock \in Int /\ FirstDue \in Int
      BY <2>2, Elements DEF IInv, Types
    <3> HIDE DEF FirstDue
    <3> QED
      BY <2>2, <3>1, <3>2, <3>3, DelayType
  <2> QED
    BY <2>1, <2>2, <2>3 DEF Pop
<1> QED
  BY <1>1, Invariance, PTL DEF Spec, InTimeIsPlayed

---------------------------------------------------------------------------
(* How far behind the worker may be.                                       *)

\* The block of this tick is on, and its output has been chosen.
Begun == cb \in {"frame", "push", "pushed"} \/ (cb = "out" /\ offset # 0)

\* The frames served, and those served when the worker last had nothing to do.
Served == clock * Block + offset + (IF cb \in {"push", "pushed"} THEN 1 ELSE 0)
Rested == Served - behind

\* Captured in tick x, and with the worker or on the way to it, or with its output.
Waiting(x) == \/ \E i \in 1..Len(capture) : capture[i] = x
              \/ worker \in {"copied", "process", "submit"} /\ work = x
Queued(x) == \E i \in 1..Len(playback) : playback[i].tick = x

Places ==
  /\ offset \in 0..Block - 1 /\ behind \in 0..MaxCallbackFrames + 1
  /\ calm \in 0..PipelineBlocks + 2
  /\ cb \in {"pop", "popped"} => offset = 0
  /\ cb \in {"push", "pushed"} => offset + 1 = Block /\ behind # 0

\* What waits was captured since.
Near ==
  behind <= MaxCallbackFrames =>
    \A x \in Int : Waiting(x) => Rested < (x + 1) * Block

\* A stall lasts as long as its blocks are counted as such.
Stalled ==
  behind > MaxCallbackFrames =>
    calm = 0 \/ (calm = 1 /\ offset = 0 /\ cb \notin {"push", "pushed"})

\* The second pop after a stall leaves no late output.
NoneLate ==
  /\ calm >= 3 => \A i \in 1..Len(playback) : playback[i].due >= clock
  /\ calm >= 2 /\ Begun => \A i \in 1..Len(playback) : playback[i].due > clock
  /\ calm >= 2 /\ cb = "popped" =>
       \A i \in 1..Len(playback) : i > taken => playback[i].due > clock

\* From then on no captured block is lost before it is due.
Kept ==
  \A x \in 0..clock - 1 :
    /\ x >= clock - PipelineBlocks + (IF Begun \/ cb = "popped" THEN 1 ELSE 0)
    /\ calm >= 2 + clock - x
    => Waiting(x) \/ Queued(x)

Popped ==
  cb = "popped" =>
    /\ \A i \in 1..taken : playback[i].due <= clock
    /\ clock >= PipelineBlocks /\ calm >= PipelineBlocks + 2 => playing # Silence

Caught == Places /\ Near /\ Stalled /\ NoneLate /\ Kept /\ Popped

LEMMA Sizes ==
  ASSUME Assumptions
  PROVE  /\ BurstBlocks \in Nat \ {0} /\ PipelineBlocks = BurstBlocks + 1 /\ PipelineBlocks \in Nat
         /\ MaxCallbackFrames = BurstBlocks * Block /\ MaxCallbackFrames \in Nat
         /\ Capacity \in Int /\ Capacity >= 2 * PipelineBlocks
<1>1. ASSUME NEW j \in Nat, NEW by \in Nat \ {0} PROVE RoundUp(j, by) \in Nat
  <2>1. j + by - 1 \in Nat
    OBVIOUS
  <2>2. \A z \in Nat : z \div by \in Nat
    OBVIOUS
  <2> QED
    BY <2>1, <2>2 DEF RoundUp
<1>2. Frames \in Nat
  <2>1. NativeFrames * Rate \in Nat
    BY DEF Assumptions
  <2> QED
    BY <1>1, <2>1 DEF Frames, Assumptions
<1>3. BurstBlocks \in Nat \ {0}
  <2>1. RoundUp(Frames, Block) \in Nat
    BY <1>1, <1>2 DEF Assumptions
  <2> QED
    BY <2>1 DEF BurstBlocks
<1>4. BurstBlocks * Block \in Nat
  BY <1>3 DEF Assumptions
<1>5. Capacity \in Int /\ Capacity >= 2 * PipelineBlocks
  <2> DEFINE I == {k \in 0..10 : QueueBlocks * 2^k >= 2 * PipelineBlocks}
  <2>1. 10 \in I
    <3>1. 2^10 = 1024
      BY SMT
    <3>2. QueueBlocks * 1024 >= 2 * PipelineBlocks
      BY <1>3 DEF PipelineBlocks, Assumptions
    <3> QED
      BY <3>1, <3>2
  <2>2. Min(I) \in I
    <3>1. I \subseteq 0..10
      BY Zenon
    <3> HIDE DEF I
    <3>2. I \subseteq Nat /\ I # {}
      BY <2>1, <3>1
    <3> QED
      BY <3>2, Least
  <2>3. PICK j \in I : j = Min(I)
    BY <2>2
  <2>4. Capacity = QueueBlocks * 2^j
    BY <2>3 DEF Capacity
  <2>5. 2^j \in Int
    <3>1. \A z \in Int : 2^z \in Int
      BY SMT
    <3> QED
      BY <3>1
  <2>6. QueueBlocks \in Int
    BY DEF Assumptions
  <2>7. QueueBlocks * 2^j >= 2 * PipelineBlocks
    OBVIOUS
  <2>8. QueueBlocks * 2^j \in Int
    <3>1. \A y, z \in Int : y * z \in Int
      OBVIOUS
    <3> QED
      BY <2>5, <2>6, <3>1
  <2> QED
    BY <2>4, <2>7, <2>8
<1> QED
  BY <1>3, <1>4, <1>5 DEF PipelineBlocks, MaxCallbackFrames

\* Strictly increasing numbers between lo and hi.
LEMMA Spread ==
  ASSUME NEW m \in Nat, NEW f, \A i \in 1..m : f[i] \in Int,
         \A i, j \in 1..m : i < j => f[i] < f[j],
         NEW lo \in Int, NEW hi \in Int, \A i \in 1..m : lo <= f[i] /\ f[i] <= hi
  PROVE  m = 0 \/ m <= hi - lo + 1
<1> DEFINE I == {i \in 1..m : ~(f[i] >= lo + i - 1)}
<1>1. ASSUME I # {} PROVE FALSE
  <2>1. Min(I) \in I /\ \A j \in I : Min(I) <= j
    <3>1. I \subseteq Nat
      OBVIOUS
    <3> HIDE DEF I
    <3> QED
      BY <1>1, <3>1, Least
  <2>2. PICK i \in I : \A j \in I : i <= j
    <3> HIDE DEF I
    <3> QED
      BY <2>1
  <2>3. i \in 1..m /\ ~(f[i] >= lo + i - 1) /\ f[i] \in Int /\ f[i] >= lo
    OBVIOUS
  <2>4. i # 1
    BY <2>3
  <2>5. i - 1 \in 1..m /\ i - 1 < i
    BY <2>3, <2>4
  <2>6. f[i - 1] >= lo + (i - 1) - 1
    BY <2>2, <2>5
  <2>7. f[i - 1] < f[i] /\ f[i - 1] \in Int
    BY <2>3, <2>5
  <2> QED
    BY <2>3, <2>5, <2>6, <2>7
<1>2. ASSUME m # 0 PROVE m <= hi - lo + 1
  <2>1. m \in 1..m
    BY <1>2
  <2>2. f[m] >= lo + m - 1 /\ f[m] <= hi /\ f[m] \in Int
    BY <1>1, <2>1
  <2> QED
    BY <2>2
<1> QED
  BY <1>2

LEMMA Products ==
  ASSUME NEW x \in Int, NEW y \in Int, NEW b \in Nat \ {0}
  PROVE  /\ (x + y) * b = x * b + y * b /\ x * b \in Int
         /\ x * b < y * b => x < y
  OBVIOUS

\* What waits is due in a later tick, unless the worker is stalled.
LEMMA NearIsDue ==
  ASSUME Assumptions, IInv, Caught, behind <= MaxCallbackFrames, NEW x \in Int, Waiting(x)
  PROVE  x > clock - PipelineBlocks
<1> DEFINE B == BurstBlocks
           w == clock * Block
           u == B * Block
           v == (x + 1) * Block
<1>1. clock \in Nat /\ offset \in Nat /\ behind \in Nat /\ Block \in Nat \ {0} /\ B \in Nat
  BY Sizes DEF IInv, Types, Caught, Places, Assumptions
<1>2. w \in Int /\ u \in Int /\ v \in Int /\ (x + 1 + B) * Block = v + u
  BY <1>1, Products
<1>3. Rested < v
  BY DEF Caught, Near
<1>4. Rested >= w - behind
  <2> HIDE DEF u, v
  <2>1. w \in Int /\ Served >= w /\ Served \in Int
    <3>1. Served = w + offset + (IF cb \in {"push", "pushed"} THEN 1 ELSE 0)
      BY DEF Served
    <3> HIDE DEF w
    <3> QED
      BY <1>1, <1>2, <3>1
  <2> HIDE DEF w
  <2> QED
    BY <1>1, <2>1 DEF Rested
<1>5. behind <= u
  BY Sizes
<1>6. Rested \in Int
  <2>1. Served = w + offset + (IF cb \in {"push", "pushed"} THEN 1 ELSE 0)
    BY DEF Served
  <2> HIDE DEF w
  <2> QED
    BY <1>1, <1>2, <2>1 DEF Rested
<1>7. w < v + u
  <2> HIDE DEF w, u, v
  <2> QED
    BY <1>1, <1>2, <1>3, <1>4, <1>5, <1>6
<1>8. clock < x + 1 + B
  <2>1. clock * Block < (x + 1 + B) * Block
    <3> HIDE DEF u, v
    <3> QED
      BY <1>2, <1>7
  <2>2. x + 1 + B \in Int
    BY <1>1
  <2> QED
    BY <1>1, <2>1, <2>2, Products
<1> QED
  BY <1>1, <1>8, Sizes

\* Neither queue is full once the last stall is two blocks ago.
LEMMA CaptureFits ==
  ASSUME Assumptions, IInv, Caught, calm >= 2
  PROVE  Len(capture) < Capacity
<1>1. behind <= MaxCallbackFrames
  <2>1. calm \in Int /\ behind \in Int /\ MaxCallbackFrames \in Int
    BY Sizes DEF Caught, Places
  <2> QED
    BY <2>1 DEF Caught, Stalled
<1>2. /\ Len(capture) \in Nat /\ clock \in Nat
      /\ \A i \in 1..Len(capture) : capture[i] \in Int
  BY Elements DEF IInv, Types
<1>3. ASSUME NEW i \in 1..Len(capture)
      PROVE  clock - PipelineBlocks + 1 <= capture[i] /\ capture[i] <= clock - 1
  <2>1. capture[i] \in Int /\ Waiting(capture[i])
    BY <1>2 DEF Waiting
  <2>2. capture[i] > clock - PipelineBlocks
    BY <1>1, <2>1, NearIsDue
  <2>3. capture[i] < clock
    BY DEF IInv, Ordered
  <2> QED
    BY <1>2, <2>1, <2>2, <2>3, Sizes
<1>4. \A i, j \in 1..Len(capture) : i < j => capture[i] < capture[j]
  BY DEF IInv, Ordered
<1>5. Len(capture) = 0 \/ Len(capture) <= clock - 1 - (clock - PipelineBlocks + 1) + 1
  <2>1. clock - PipelineBlocks + 1 \in Int /\ clock - 1 \in Int
    BY <1>2, Sizes
  <2> QED
    BY <1>2, <1>3, <1>4, <2>1, Spread
<1> QED
  BY <1>2, <1>5, Sizes

LEMMA PlaybackFits ==
  ASSUME Assumptions, IInv, Caught, calm >= 3
  PROVE  Len(playback) < Capacity
<1> DEFINE f == [i \in 1..Len(playback) |-> playback[i].tick]
<1>1. /\ Len(playback) \in Nat /\ clock \in Nat
      /\ \A i \in 1..Len(playback) : playback[i].tick \in Int
  BY Elements DEF IInv, Types
<1>2. ASSUME NEW i \in 1..Len(playback)
      PROVE  clock - PipelineBlocks <= f[i] /\ f[i] <= clock - 1
  <2>1. playback[i].due >= clock
    BY DEF Caught, NoneLate
  <2>2. playback[i].due = playback[i].tick + PipelineBlocks /\ playback[i].tick < clock
    BY DEF IInv, Due
  <2>3. playback[i].tick \in Int /\ f[i] = playback[i].tick
    BY <1>1
  <2> HIDE DEF f
  <2> QED
    BY <1>1, <2>1, <2>2, <2>3, Sizes
<1>3. /\ \A i, j \in 1..Len(playback) : i < j => f[i] < f[j]
      /\ \A i \in 1..Len(playback) : f[i] \in Int
  BY <1>1 DEF IInv, Due
<1> HIDE DEF f
<1>4. Len(playback) = 0 \/ Len(playback) <= clock - 1 - (clock - PipelineBlocks) + 1
  <2>1. clock - PipelineBlocks \in Int /\ clock - 1 \in Int
    BY <1>1, Sizes
  <2> QED
    BY <1>1, <1>2, <1>3, <2>1, Spread
<1> QED
  BY <1>1, <1>4, Sizes

---------------------------------------------------------------------------
\* Where waiting blocks stay as they are, so does what is known of them.
LEMMA NearSame ==
  ASSUME Assumptions, Near,
         Rested' = Rested, behind' <= MaxCallbackFrames => behind <= MaxCallbackFrames,
         \A x \in Int : Waiting(x)' => Waiting(x)
  PROVE  Near'
  BY DEF Near

LEMMA CaughtInit ==
  ASSUME Assumptions
  PROVE  Init => Caught
<1> SUFFICES ASSUME Init PROVE Caught
  OBVIOUS
<1>1. /\ cb = "out" /\ offset = 0 /\ clock = 0 /\ capture = <<>> /\ playback = <<>>
      /\ worker = "wait" /\ behind = 0 /\ calm = PipelineBlocks + 2
  BY DEF Init
<1>2. Places
  BY <1>1, Sizes DEF Places, Assumptions
<1>3. Near /\ Stalled /\ NoneLate /\ Kept /\ Popped
  BY <1>1, Sizes DEF Near, Stalled, NoneLate, Kept, Popped, Waiting
<1> QED
  BY <1>2, <1>3 DEF Caught

LEMMA PrepareCaught ==
  ASSUME Assumptions
  PROVE  IInv /\ Caught /\ Prepare => Caught'
<1> SUFFICES ASSUME IInv, Caught, Prepare PROVE Caught'
  OBVIOUS
<1>1. /\ cb' = "out" /\ offset' = 0 /\ clock' = 0 /\ capture' = <<>> /\ playback' = <<>>
      /\ worker' = "wait" /\ behind' = 0 /\ calm' = PipelineBlocks + 2
  BY DEF Prepare
<1>2. Places'
  BY <1>1, Sizes DEF Places, Assumptions
<1>3. Near' /\ Stalled' /\ NoneLate' /\ Kept' /\ Popped'
  BY <1>1, Sizes DEF Near, Stalled, NoneLate, Kept, Popped, Waiting
<1> QED
  BY <1>2, <1>3 DEF Caught

LEMMA EnterCaught ==
  ASSUME Assumptions
  PROVE  IInv /\ Caught /\ CallbackEnter => Caught'
<1> SUFFICES ASSUME IInv, Caught, CallbackEnter PROVE Caught'
  OBVIOUS
<1>1. /\ cb = "out" /\ cb' = IF offset = 0 THEN "pop" ELSE "frame"
      /\ UNCHANGED <<offset, clock, taken, playing, capture, playback, worker, work, behind, calm>>
  BY DEF CallbackEnter
<1>2. Begun' = Begun /\ Served' = Served /\ Rested' = Rested
  <2>1. Begun' <=> Begun
    BY <1>1 DEF Begun
  <2>2. Served' = Served
    BY <1>1 DEF Served
  <2> QED
    BY <1>1, <2>1, <2>2 DEF Rested, Begun
<1>3. \A x : Waiting(x)' <=> Waiting(x)
  BY <1>1 DEF Waiting
<1>4. \A x : Queued(x)' <=> Queued(x)
  BY <1>1 DEF Queued
<1>5. Near'
  BY <1>1, <1>2, <1>3, NearSame DEF Caught
<1>6. Kept'
  BY <1>1, <1>2, <1>3, <1>4 DEF Caught, Kept
<1> QED
  BY <1>1, <1>2, <1>5, <1>6 DEF Caught, Places, Stalled, NoneLate, Popped

LEMMA PopCaught ==
  ASSUME Assumptions
  PROVE  IInv /\ Caught /\ Pop => Caught'
<1> SUFFICES ASSUME IInv, Caught, Pop PROVE Caught'
  OBVIOUS
<1> PICK i : i = FirstDue
  OBVIOUS
<1>1. /\ cb = "pop" /\ cb' = "popped"
      /\ UNCHANGED <<left, offset, clock, capture, playback, worker, work, behind, calm>>
      /\ taken' = IF i = 0 THEN Len(playback)
                  ELSE IF playback[i].due = clock THEN i ELSE i - 1
      /\ i # 0 /\ playback[i].due = clock => playing' = playback[i].tick
  BY DEF Pop
<1>2. /\ i = 0 => \A j \in 1..Len(playback) : ~(playback[j].due >= clock)
      /\ i # 0 => /\ i \in 1..Len(playback) /\ playback[i].due >= clock
                  /\ \A j \in 1..Len(playback) : playback[j].due >= clock => i <= j
  BY FirstDueIs DEF IInv, Types
<1>3. /\ Len(playback) \in Nat /\ clock \in Nat /\ offset = 0
      /\ \A j \in 1..Len(playback) : playback[j].due \in Int /\ playback[j].tick \in Int
  BY <1>1, Elements DEF IInv, Types, Caught, Places
<1>4. \A j \in 1..Len(playback) : playback[j].due = playback[j].tick + PipelineBlocks
  BY DEF IInv, Due
<1>5. \A j, m \in 1..Len(playback) : j < m => playback[j].due < playback[m].due
  <2> TAKE j, m \in 1..Len(playback)
  <2>1. j < m => playback[j].tick < playback[m].tick
    BY DEF IInv, Due
  <2> QED
    BY <1>3, <1>4, <2>1, Sizes
<1>6. \A j \in 1..Len(playback) : j <= taken' => playback[j].due <= clock
  <2> TAKE j \in 1..Len(playback)
  <2>1. CASE i = 0
    BY <1>2, <1>3, <2>1
  <2>2. CASE i # 0
    <3>1. j < i => ~(playback[j].due >= clock)
      BY <1>2, <1>3, <2>2
    <3> QED
      BY <1>1, <1>2, <1>3, <2>2, <3>1
  <2> QED
    BY <2>1, <2>2
<1>7. \A j \in 1..Len(playback) : j > taken' => playback[j].due > clock
  <2> TAKE j \in 1..Len(playback)
  <2>1. CASE i = 0
    BY <1>1, <1>3, <2>1
  <2>2. CASE i # 0
    <3>1. i < j => playback[i].due < playback[j].due
      BY <1>2, <1>5, <2>2
    <3> QED
      BY <1>1, <1>2, <1>3, <2>2, <3>1
  <2> QED
    BY <2>1, <2>2
<1>8. Begun' = FALSE /\ Begun = FALSE /\ Served' = Served /\ Rested' = Rested
  <2>1. Begun' = FALSE /\ Begun = FALSE
    BY <1>1 DEF Begun
  <2>2. Served' = Served
    BY <1>1 DEF Served
  <2> QED
    BY <1>1, <2>1, <2>2 DEF Rested
<1>9. \A x : (Waiting(x)' <=> Waiting(x)) /\ (Queued(x)' <=> Queued(x))
  BY <1>1 DEF Waiting, Queued
<1>10. Near'
  BY <1>1, <1>8, <1>9, NearSame DEF Caught
<1>11. Kept'
  <2>1. PipelineBlocks \in Int
    BY Sizes
  <2> QED
    BY <1>1, <1>3, <1>8, <1>9, <2>1 DEF Caught, Kept
<1>12. NoneLate'
  BY <1>1, <1>7, <1>8 DEF Caught, NoneLate
<1>13. Popped'
  <2>1. ASSUME clock >= PipelineBlocks, calm >= PipelineBlocks + 2 PROVE playing' # Silence
    <3>1. /\ PipelineBlocks \in Nat \ {0} /\ calm \in Int /\ behind \in Int
          /\ MaxCallbackFrames \in Int
      BY Sizes DEF Caught, Places
    <3> PICK x : x = clock - PipelineBlocks
      OBVIOUS
    <3>2. x \in 0..clock - 1 /\ x + PipelineBlocks = clock
      BY <1>3, <2>1, <3>1
    <3>3. Waiting(x) \/ Queued(x)
      <4>1. x >= clock - PipelineBlocks + (IF Begun \/ cb = "popped" THEN 1 ELSE 0)
        BY <1>1, <1>3, <1>8, <3>1, <3>2
      <4>2. calm >= 2 + clock - x
        BY <1>3, <2>1, <3>1, <3>2
      <4> QED
        BY <3>2, <4>1, <4>2 DEF Caught, Kept
    <3>4. ~Waiting(x)
      <4>1. behind <= MaxCallbackFrames
        BY <2>1, <3>1 DEF Caught, Stalled
      <4>2. ~(x > clock - PipelineBlocks)
        BY <1>3, <3>1, <3>2
      <4>3. x \in Int
        BY <3>2
      <4> QED
        BY <4>1, <4>2, <4>3, NearIsDue
    <3>5. PICK j \in 1..Len(playback) : playback[j].tick = x
      BY <3>3, <3>4 DEF Queued
    <3>6. playback[j].due = clock
      BY <1>4, <3>2, <3>5
    <3>7. i # 0 /\ i \in 1..Len(playback) /\ i <= j /\ playback[i].due >= clock
      BY <1>2, <1>3, <3>6
    <3>8. i = j
      <4>1. i < j => playback[i].due < playback[j].due
        BY <1>5, <3>7
      <4> QED
        BY <1>3, <3>6, <3>7, <4>1
    <3>9. playing' = x
      BY <1>1, <3>5, <3>6, <3>7, <3>8
    <3> QED
      BY <3>2, <3>9 DEF Silence
  <2>2. taken' \in 0..Len(playback)
    BY <1>1, <1>2, <1>3
  <2>3. \A j \in 1..taken' : playback[j].due <= clock
    <3> TAKE j \in 1..taken'
    <3>1. j \in 1..Len(playback) /\ j <= taken'
      BY <1>3, <2>2
    <3> QED
      BY <1>6, <3>1
  <2> QED
    BY <1>1, <2>1, <2>3 DEF Popped
<1>14. Places' /\ Stalled'
  BY <1>1, <1>3 DEF Caught, Places, Stalled
<1> QED
  BY <1>10, <1>11, <1>12, <1>13, <1>14 DEF Caught

LEMMA PopStoreCaught ==
  ASSUME Assumptions
  PROVE  IInv /\ Caught /\ PopStore => Caught'
<1> SUFFICES ASSUME IInv, Caught, PopStore PROVE Caught'
  OBVIOUS
<1>1. /\ playback' = SubSeq(playback, taken + 1, Len(playback))
      /\ taken' = 0 /\ cb = "popped" /\ cb' = "frame"
      /\ UNCHANGED <<left, offset, clock, playing, capture, worker, work, behind, calm>>
  BY DEF PopStore
<1>2. /\ taken \in Nat /\ Len(playback) \in Nat /\ taken <= Len(playback) /\ clock \in Nat
      /\ offset = 0 /\ PipelineBlocks \in Int
      /\ \A j \in 1..Len(playback) : playback[j].due \in Int /\ playback[j].tick \in Int
                                     /\ playback[j].due = playback[j].tick + PipelineBlocks
  BY <1>1, Elements, Sizes DEF IInv, Types, Due, Caught, Places
<1>3. /\ Len(playback') = Len(playback) - taken
      /\ \A i \in 1..Len(playback') : playback'[i] = playback[i + taken]
                                      /\ i + taken \in 1..Len(playback) /\ i + taken > taken
  <2>1. Len(playback') = Len(playback) - taken
    BY <1>1, <1>2
  <2>2. \A i \in 1..Len(playback') : playback'[i] = playback[i + taken]
    BY <1>1, <1>2
  <2>3. \A i \in 1..Len(playback') : i + taken \in 1..Len(playback) /\ i + taken > taken
    BY <1>2, <2>1
  <2> QED
    BY <2>1, <2>2, <2>3
<1>4. Begun' = TRUE /\ Served' = Served /\ Rested' = Rested
  <2>1. Begun' = TRUE
    BY <1>1 DEF Begun
  <2>2. Served' = Served
    BY <1>1 DEF Served
  <2> QED
    BY <1>1, <2>1, <2>2 DEF Rested
<1>5. \A x : Waiting(x)' <=> Waiting(x)
  BY <1>1 DEF Waiting
<1>6. Near'
  BY <1>1, <1>4, <1>5, NearSame DEF Caught
<1>7. calm >= 2 => \A i \in 1..Len(playback') : playback'[i].due > clock
  BY <1>1, <1>3 DEF Caught, NoneLate
<1>8. NoneLate'
  <2>1. calm \in Int
    BY Sizes DEF Caught, Places
  <2>2. ASSUME calm >= 3, NEW i \in 1..Len(playback') PROVE playback'[i].due >= clock
    <3>1. playback'[i].due > clock
      BY <1>7, <2>1, <2>2
    <3>2. playback'[i].due \in Int
      BY <1>2, <1>3
    <3> QED
      BY <1>2, <3>1, <3>2
  <2> QED
    BY <1>1, <1>7, <2>2 DEF NoneLate
<1>9. Kept'
  <2> SUFFICES ASSUME NEW x \in 0..clock - 1, x >= clock - PipelineBlocks + 1,
                      calm >= 2 + clock - x
               PROVE  Waiting(x) \/ Queued(x)'
    BY <1>1, <1>4, <1>5 DEF Kept
  <2>1. Waiting(x) \/ Queued(x)
    BY <1>1 DEF Caught, Kept
  <2>2. ASSUME Queued(x) PROVE Queued(x)'
    <3>1. PICK j \in 1..Len(playback) : playback[j].tick = x
      BY <2>2 DEF Queued
    <3>2. playback[j].due > clock
      BY <1>2, <3>1
    <3>3. ~(j \in 1..taken)
      <4>1. j \in 1..taken => playback[j].due <= clock
        BY <1>1 DEF Caught, Popped
      <4> QED
        BY <1>2, <3>2, <4>1
    <3>4. j - taken \in 1..Len(playback') /\ j - taken + taken = j
      BY <1>2, <1>3, <3>3
    <3>5. playback'[j - taken] = playback[j]
      BY <1>3, <3>4
    <3> QED
      BY <3>1, <3>4, <3>5 DEF Queued
  <2> QED
    BY <2>1, <2>2
<1>10. Places' /\ Stalled' /\ Popped'
  BY <1>1 DEF Caught, Places, Stalled, Popped
<1> QED
  BY <1>6, <1>8, <1>9, <1>10 DEF Caught

LEMMA FrameCaught ==
  ASSUME Assumptions
  PROVE  IInv /\ Caught /\ Frame => Caught'
<1> SUFFICES ASSUME IInv, Caught, Frame PROVE Caught'
  OBVIOUS
<1>1. /\ cb = "frame"
      /\ behind' = IF Idle THEN 1 ELSE Capped(behind + 1, MaxCallbackFrames + 1)
      /\ calm' = IF behind' > MaxCallbackFrames THEN 0 ELSE calm
      /\ UNCHANGED <<clock, taken, playing, capture, playback, worker, work>>
  BY DEF Frame
<1>2. /\ clock \in Nat /\ offset \in 0..Block - 1 /\ behind \in 0..MaxCallbackFrames + 1
      /\ calm \in 0..PipelineBlocks + 2 /\ Block \in Nat \ {0}
      /\ MaxCallbackFrames \in Nat /\ PipelineBlocks \in Nat
  BY Sizes DEF IInv, Types, Caught, Places, Assumptions
<1>3. \/ /\ offset + 1 = Block /\ cb' = "push" /\ offset' = offset
      \/ /\ offset + 1 # Block /\ offset' = offset + 1 /\ offset' # 0 /\ cb' \in {"out", "frame"}
  BY <1>2 DEF Frame, FrameDone
<1>4. /\ behind' \in 1..MaxCallbackFrames + 1
      /\ ~Idle /\ behind' <= MaxCallbackFrames => behind' = behind + 1
      /\ calm' \in 0..PipelineBlocks + 2
  <2>1. Capped(behind + 1, MaxCallbackFrames + 1) \in 1..MaxCallbackFrames + 1
    BY <1>2 DEF Capped
  <2>2. /\ Capped(behind + 1, MaxCallbackFrames + 1) <= MaxCallbackFrames
             => Capped(behind + 1, MaxCallbackFrames + 1) = behind + 1
    BY <1>2 DEF Capped
  <2>3. 1 \in 1..MaxCallbackFrames + 1
    BY <1>2
  <2> QED
    BY <1>1, <1>2, <2>1, <2>2, <2>3
<1>5. Begun /\ Begun'
  BY <1>1, <1>3 DEF Begun
<1>6. Served' = Served + 1 /\ Served \in Int
  <2> DEFINE w == clock * Block
  <2>1. w \in Int /\ w' = w
    BY <1>1, <1>2
  <2>2. Served = w + offset
    BY <1>1, <1>2, <2>1 DEF Served
  <2>3. Served' = w' + offset' + (IF cb' \in {"push", "pushed"} THEN 1 ELSE 0)
    BY DEF Served
  <2> HIDE DEF w
  <2> QED
    BY <1>2, <1>3, <2>1, <2>2, <2>3
<1>7. \A x : (Waiting(x)' <=> Waiting(x)) /\ (Queued(x)' <=> Queued(x))
  BY <1>1 DEF Waiting, Queued
<1>8. Near'
  <2>1. CASE Idle
    <3>1. \A x : ~Waiting(x)
      BY <2>1 DEF Waiting, Idle
    <3> QED
      BY <1>7, <3>1 DEF Near
  <2>2. CASE ~Idle
    <3>1. CASE behind' <= MaxCallbackFrames
      <4>1. Rested' = Rested /\ behind <= MaxCallbackFrames
        BY <1>2, <1>4, <1>6, <2>2, <3>1 DEF Rested
      <4> QED
        BY <1>7, <4>1, NearSame DEF Caught
    <3>2. CASE ~(behind' <= MaxCallbackFrames)
      BY <3>2 DEF Near
    <3> QED
      BY <3>1, <3>2
  <2> QED
    BY <2>1, <2>2
<1>9. Stalled'
  BY <1>1 DEF Stalled
<1>10. calm' = calm \/ calm' = 0
  BY <1>1
<1>11. NoneLate'
  BY <1>1, <1>3, <1>5, <1>10 DEF Caught, NoneLate
<1>12. Kept'
  <2>1. CASE calm' = calm
    BY <1>1, <1>5, <1>7, <2>1 DEF Caught, Kept
  <2>2. CASE calm' = 0
    <3>1. \A x \in 0..clock' - 1 : ~(calm' >= 2 + clock' - x)
      BY <1>1, <1>2, <2>2
    <3> QED
      BY <3>1 DEF Kept
  <2> QED
    BY <1>10, <2>1, <2>2
<1>13. Places'
  <2>1. offset' \in 0..Block - 1
    BY <1>2, <1>3
  <2>2. cb' \notin {"pop", "popped"} /\ (cb' \in {"push", "pushed"} => offset' + 1 = Block)
    BY <1>3
  <2>3. behind' # 0 /\ behind' \in 0..MaxCallbackFrames + 1
    BY <1>2, <1>4
  <2> QED
    BY <1>4, <2>1, <2>2, <2>3 DEF Places
<1>14. Popped'
  BY <1>3 DEF Popped
<1> QED
  BY <1>8, <1>9, <1>11, <1>12, <1>13, <1>14 DEF Caught

\* The next tick, when its block has been queued or lost.
LEMMA TickCaught ==
  ASSUME Assumptions, IInv, Caught, cb \in {"push", "pushed"}, NextTick,
         UNCHANGED <<taken, playing, playback, worker, work, behind>>,
         \/ capture' = capture /\ calm <= 1
         \/ capture' = Append(capture, clock)
  PROVE  Caught'
<1>1. /\ cb' \in {"out", "pop"} /\ offset' = 0 /\ clock' = clock + 1
      /\ calm' = Capped(calm + 1, PipelineBlocks + 2)
  BY DEF NextTick, FrameDone
<1>2. /\ clock \in Nat /\ offset + 1 = Block /\ behind \in 0..MaxCallbackFrames + 1 /\ behind # 0
      /\ calm \in 0..PipelineBlocks + 2 /\ Block \in Nat \ {0} /\ offset \in Nat
      /\ MaxCallbackFrames \in Nat /\ PipelineBlocks \in Nat
  BY Sizes DEF IInv, Types, Caught, Places, Assumptions
<1>3. calm' \in 0..PipelineBlocks + 2 /\ calm' <= calm + 1 /\ (calm' > calm \/ calm' = PipelineBlocks + 2)
  BY <1>1, <1>2 DEF Capped
<1>4. Served' = Served /\ Served = (clock + 1) * Block /\ Served \in Int /\ Rested' = Rested
  <2> DEFINE w == clock * Block
             v == (clock + 1) * Block
  <2>1. v = w + Block /\ w \in Int
    BY <1>2, Products
  <2>2. Served = w + offset + 1
    BY DEF Served
  <2>3. Served' = v + 0 + 0
    BY <1>1 DEF Served
  <2>4. Served = v /\ Served' = v /\ v \in Int
    <3> HIDE DEF w, v
    <3> QED
      BY <1>2, <2>1, <2>2, <2>3
  <2> QED
    BY <2>4 DEF Rested
<1>5. Begun /\ ~Begun' /\ cb' # "popped"
  BY <1>1 DEF Begun
<1>6. /\ Len(capture) \in Nat
      /\ capture' = Append(capture, clock) =>
           /\ Len(capture') = Len(capture) + 1 /\ capture'[Len(capture) + 1] = clock
           /\ \A i \in 1..Len(capture) : capture'[i] = capture[i]
  BY <1>2, AppendProperties, LenProperties DEF IInv, Types
<1>7. \A x : Waiting(x) => Waiting(x)'
  <2> SUFFICES ASSUME NEW x, NEW i \in 1..Len(capture), capture[i] = x,
                      capture' = Append(capture, clock)
               PROVE  \E j \in 1..Len(capture') : capture'[j] = x
    BY DEF Waiting
  <2>1. i \in 1..Len(capture') /\ capture'[i] = x
    BY <1>6
  <2> QED
    BY <2>1
<1>8. \A x : Waiting(x)' => Waiting(x) \/ x = clock
  <2> SUFFICES ASSUME NEW x, NEW i \in 1..Len(capture'), capture'[i] = x,
                      capture' = Append(capture, clock)
               PROVE  x = clock \/ \E j \in 1..Len(capture) : capture[j] = x
    BY DEF Waiting
  <2>1. i = Len(capture) + 1 \/ i \in 1..Len(capture)
    BY <1>6
  <2> QED
    BY <1>6, <2>1
<1>9. \A x : Queued(x)' <=> Queued(x)
  BY DEF Queued
<1>10. Near'
  <2> SUFFICES ASSUME behind <= MaxCallbackFrames, NEW x \in Int, Waiting(x)'
               PROVE  Rested < (x + 1) * Block
    BY <1>4 DEF Near
  <2>1. CASE Waiting(x)
    BY <2>1 DEF Caught, Near
  <2>2. CASE x = clock
    <3>1. Rested < Served
      BY <1>2, <1>4 DEF Rested
    <3> QED
      BY <1>4, <2>2, <3>1
  <2> QED
    BY <1>8, <2>1, <2>2
<1>11. Stalled'
  <2> SUFFICES ASSUME behind > MaxCallbackFrames PROVE calm' \in {0, 1}
    BY <1>1 DEF Stalled
  <2>1. calm = 0
    BY DEF Caught, Stalled
  <2> QED
    BY <1>2, <1>3, <2>1
<1>12. NoneLate'
  <2> SUFFICES ASSUME calm' >= 3, NEW i \in 1..Len(playback) PROVE playback[i].due >= clock + 1
    BY <1>1, <1>5 DEF NoneLate
  <2>1. calm >= 2
    BY <1>2, <1>3
  <2>2. playback[i].due > clock /\ playback[i].due \in Int
    BY <1>5, <2>1, Elements DEF IInv, Caught, NoneLate
  <2> QED
    BY <1>2, <2>2
<1>13. Kept'
  <2> SUFFICES ASSUME NEW x \in 0..clock, x >= clock + 1 - PipelineBlocks,
                      calm' >= 2 + (clock + 1) - x
               PROVE  Waiting(x)' \/ Queued(x)'
    BY <1>1, <1>2, <1>5 DEF Kept
  <2>1. calm >= 2 + clock - x
    BY <1>2, <1>3
  <2>2. CASE x = clock
    <3>1. capture' = Append(capture, clock)
      BY <1>2, <2>1, <2>2
    <3>2. Len(capture) + 1 \in 1..Len(capture')
      BY <1>6, <3>1
    <3> QED
      BY <1>6, <2>2, <3>1, <3>2 DEF Waiting
  <2>3. CASE x # clock
    <3>1. x \in 0..clock - 1 /\ x >= clock - PipelineBlocks + 1
      BY <1>2, <2>3
    <3>2. Waiting(x) \/ Queued(x)
      BY <1>5, <2>1, <3>1 DEF Caught, Kept
    <3> QED
      BY <1>7, <1>9, <3>2
  <2> QED
    BY <2>2, <2>3
<1>14. Places' /\ Popped'
  BY <1>1, <1>2, <1>3, <1>5 DEF Places, Popped
<1> QED
  BY <1>10, <1>11, <1>12, <1>13, <1>14 DEF Caught

LEMMA PushCaught ==
  ASSUME Assumptions
  PROVE  IInv /\ Caught /\ (Push \/ PushStore) => Caught'
<1> SUFFICES ASSUME IInv, Caught, Push \/ PushStore PROVE Caught'
  OBVIOUS
<1>1. CASE Push /\ cb' = "pushed" /\ UNCHANGED <<left, offset, clock, calm>>
  <2>1. /\ cb = "push" /\ cb' = "pushed"
        /\ UNCHANGED <<offset, clock, calm, taken, playing, capture, playback, worker, work, behind>>
    BY <1>1 DEF Push
  <2>2. Begun' /\ Begun /\ Served' = Served /\ Rested' = Rested
    <3>1. Served' = Served
      BY <2>1 DEF Served
    <3> QED
      BY <2>1, <3>1 DEF Begun, Rested
  <2>3. \A x : (Waiting(x)' <=> Waiting(x)) /\ (Queued(x)' <=> Queued(x))
    BY <2>1 DEF Waiting, Queued
  <2>4. Near'
    BY <2>1, <2>2, <2>3, NearSame DEF Caught
  <2>5. Kept' /\ NoneLate'
    BY <2>1, <2>2, <2>3 DEF Caught, Kept, NoneLate
  <2> QED
    BY <2>1, <2>4, <2>5 DEF Caught, Places, Stalled, Popped
<1>2. CASE Push /\ ~(Len(capture) < Capacity) /\ NextTick
  <2>1. /\ cb = "push" /\ calm <= 1
        /\ UNCHANGED <<taken, playing, capture, playback, worker, work, behind>>
    <3>1. ~(calm >= 2)
      BY <1>2, CaptureFits
    <3>2. calm \in Int
      BY Sizes DEF Caught, Places
    <3> QED
      BY <1>2, <3>1, <3>2 DEF Push
  <2> QED
    BY <1>2, <2>1, TickCaught
<1>3. CASE PushStore
  BY <1>3, TickCaught DEF PushStore
<1> QED
  BY <1>1, <1>2, <1>3 DEF Push

\* Steps of the worker that leave the playback queue alone.
LEMMA WorkerCaught ==
  ASSUME Assumptions, IInv, Caught, UNCHANGED <<callback, playback, behind, calm>>,
         \A x \in Int : Waiting(x)' => Waiting(x),
         \A x \in Int : calm >= 3 /\ Waiting(x) => Waiting(x)'
  PROVE  Caught'
<1>1. UNCHANGED <<cb, offset, clock, taken, playing, playback, behind, calm>>
  BY DEF callback
<1>2. (Begun' <=> Begun) /\ Served' = Served /\ Rested' = Rested
  <2>1. (Begun' <=> Begun) /\ Served' = Served
    BY <1>1 DEF Begun, Served
  <2> QED
    BY <1>1, <2>1 DEF Rested
<1>3. Near'
  BY <1>1, <1>2, NearSame DEF Caught
<1>4. Kept'
  <2> SUFFICES ASSUME NEW x \in 0..clock - 1,
                      x >= clock - PipelineBlocks + (IF Begun \/ cb = "popped" THEN 1 ELSE 0),
                      calm >= 2 + clock - x
               PROVE  Waiting(x)' \/ Queued(x)'
    BY <1>1, <1>2 DEF Kept
  <2>1. Waiting(x) \/ Queued(x)
    BY DEF Caught, Kept
  <2>2. calm >= 3
    BY Sizes DEF IInv, Types, Caught, Places
  <2>3. Queued(x)' <=> Queued(x)
    BY <1>1 DEF Queued
  <2> QED
    BY <2>1, <2>2, <2>3
<1>5. NoneLate'
  BY <1>1, <1>2 DEF Caught, NoneLate
<1> QED
  BY <1>1, <1>3, <1>4, <1>5 DEF Caught, Places, Stalled, Popped

LEMMA WaitCaught ==
  ASSUME Assumptions
  PROVE  IInv /\ Caught /\ Wait => Caught'
<1> SUFFICES ASSUME IInv, Caught, Wait PROVE Caught'
  OBVIOUS
<1>1. /\ worker = "wait" /\ worker' = "copied" /\ work' = capture[1] /\ 1 \in 1..Len(capture)
      /\ UNCHANGED <<callback, capture, playback, behind, calm>>
  BY DEF Wait, IInv, Types
<1>2. \A x : Waiting(x)' <=> Waiting(x)
  BY <1>1 DEF Waiting
<1> QED
  BY <1>1, <1>2, WorkerCaught

LEMMA WaitStoreCaught ==
  ASSUME Assumptions
  PROVE  IInv /\ Caught /\ WaitStore => Caught'
<1> SUFFICES ASSUME IInv, Caught, WaitStore PROVE Caught'
  OBVIOUS
<1>1. /\ worker = "copied" /\ worker' = "process" /\ work = capture[1] /\ capture # <<>>
      /\ capture' = Tail(capture) /\ UNCHANGED <<callback, playback, work, behind, calm>>
  BY DEF WaitStore, IInv, Ordered
<1>2. /\ Len(capture) \in Nat /\ Len(capture') = Len(capture) - 1
      /\ \A i \in 1..Len(capture') : capture'[i] = capture[i + 1] /\ i + 1 \in 1..Len(capture)
  BY <1>1 DEF IInv, Types
<1>3. ASSUME NEW x, Waiting(x)' PROVE Waiting(x)
  BY <1>1, <1>2, <1>3 DEF Waiting
<1>4. ASSUME NEW x, Waiting(x) PROVE Waiting(x)'
  <2>1. CASE work = x
    BY <1>1, <2>1 DEF Waiting
  <2>2. CASE work # x
    <3>1. PICK i \in 1..Len(capture) : capture[i] = x
      BY <1>4, <2>2 DEF Waiting
    <3>2. i # 1
      BY <1>1, <2>2, <3>1
    <3>3. i - 1 \in 1..Len(capture') /\ i - 1 + 1 = i
      BY <1>2, <3>2
    <3>4. capture'[i - 1] = x
      BY <1>2, <3>1, <3>3
    <3> QED
      BY <3>3, <3>4 DEF Waiting
  <2> QED
    BY <2>1, <2>2
<1> QED
  BY <1>1, <1>3, <1>4, WorkerCaught

\* Fresh output is lost only while late output may be in its way.
LEMMA SubmitCaught ==
  ASSUME Assumptions
  PROVE  IInv /\ Caught /\ Submit => Caught'
<1> SUFFICES ASSUME IInv, Caught, Submit PROVE Caught'
  OBVIOUS
<1>1. /\ worker = "process" /\ worker' = IF Len(playback) = Capacity THEN "wait" ELSE "submit"
      /\ UNCHANGED <<callback, capture, playback, work, behind, calm>>
  BY DEF Submit
<1>2. \A x : Waiting(x)' => Waiting(x)
  BY <1>1 DEF Waiting
<1>3. ASSUME calm >= 3, NEW x, Waiting(x) PROVE Waiting(x)'
  <2>1. Len(playback) # Capacity
    <3>1. Len(playback) \in Int
      BY Elements DEF IInv
    <3> QED
      BY <1>3, <3>1, PlaybackFits, Sizes
  <2> QED
    BY <1>1, <1>3, <2>1 DEF Waiting
<1> QED
  BY <1>1, <1>2, <1>3, WorkerCaught

LEMMA SubmitStoreCaught ==
  ASSUME Assumptions
  PROVE  IInv /\ Caught /\ SubmitStore => Caught'
<1> SUFFICES ASSUME IInv, Caught, SubmitStore PROVE Caught'
  OBVIOUS
<1> PICK b : b = [tick |-> work, due |-> work + PipelineBlocks]
  OBVIOUS
<1>1. /\ worker = "submit" /\ worker' = "wait" /\ playback' = Append(playback, b)
      /\ UNCHANGED <<cb, offset, clock, taken, playing, capture, work, behind, calm>>
  BY DEF SubmitStore, callback
<1>2. /\ work \in Int /\ clock \in Nat /\ calm \in Int /\ behind \in Int
      /\ MaxCallbackFrames \in Int /\ PipelineBlocks \in Nat /\ taken \in 0..Len(playback)
  BY Sizes DEF IInv, Types, Caught, Places
<1>3. /\ Len(playback) \in Nat /\ Len(playback') = Len(playback) + 1
      /\ playback'[Len(playback) + 1] = b /\ b.tick = work /\ b.due = work + PipelineBlocks
      /\ \A i \in 1..Len(playback) : playback'[i] = playback[i]
  <2>1. b \in Output
    BY <1>2 DEF Output
  <2> QED
    BY <1>1, <2>1, AppendProperties, LenProperties DEF IInv, Types
<1>4. calm >= 2 => b.due > clock
  <2> SUFFICES ASSUME calm >= 2 PROVE b.due > clock
    OBVIOUS
  <2>1. behind <= MaxCallbackFrames
    BY <1>2 DEF Caught, Stalled
  <2>2. Waiting(work)
    BY <1>1 DEF Waiting
  <2>3. work > clock - PipelineBlocks
    BY <1>2, <2>1, <2>2, NearIsDue
  <2> QED
    BY <1>2, <1>3, <2>3
<1>5. \A i \in 1..Len(playback') : i \in 1..Len(playback) \/ (i = Len(playback) + 1 /\ playback'[i] = b)
  BY <1>3
<1>6. (Begun' <=> Begun) /\ Served' = Served /\ Rested' = Rested
  <2>1. (Begun' <=> Begun) /\ Served' = Served
    BY <1>1 DEF Begun, Served
  <2> QED
    BY <1>1, <2>1 DEF Rested
<1>7. Near'
  <2>1. \A x : Waiting(x)' => Waiting(x)
    BY <1>1 DEF Waiting
  <2> QED
    BY <1>1, <1>6, <2>1, NearSame DEF Caught
<1>8. \A x : Waiting(x) \/ Queued(x) => Waiting(x)' \/ Queued(x)'
  <2> TAKE x
  <2>1. ASSUME Queued(x) PROVE Queued(x)'
    <3>1. PICK i \in 1..Len(playback) : playback[i].tick = x
      BY <2>1 DEF Queued
    <3>2. i \in 1..Len(playback') /\ playback'[i].tick = x
      BY <1>3, <3>1
    <3> QED
      BY <3>2 DEF Queued
  <2>2. ASSUME work = x PROVE Queued(x)'
    <3>1. Len(playback) + 1 \in 1..Len(playback')
      BY <1>3
    <3> QED
      BY <1>3, <2>2, <3>1 DEF Queued
  <2>3. ASSUME Waiting(x), work # x PROVE Waiting(x)'
    BY <1>1, <2>3 DEF Waiting
  <2> QED
    BY <2>1, <2>2, <2>3
<1>9. Kept'
  BY <1>1, <1>6, <1>8 DEF Caught, Kept
<1>10. NoneLate'
  <2>1. ASSUME calm >= 3, NEW i \in 1..Len(playback') PROVE playback'[i].due >= clock
    <3>1. CASE i \in 1..Len(playback)
      BY <1>3, <2>1, <3>1 DEF Caught, NoneLate
    <3>2. CASE playback'[i] = b
      <4>1. b.due > clock /\ b.due \in Int
        BY <1>2, <1>3, <1>4, <2>1
      <4> QED
        BY <1>2, <3>2, <4>1
    <3> QED
      BY <1>5, <3>1, <3>2
  <2>2. ASSUME calm >= 2, Begun, NEW i \in 1..Len(playback') PROVE playback'[i].due > clock
    BY <1>3, <1>4, <1>5, <2>2 DEF Caught, NoneLate
  <2>3. ASSUME calm >= 2, cb = "popped", NEW i \in 1..Len(playback'), i > taken
        PROVE  playback'[i].due > clock
    BY <1>3, <1>4, <1>5, <2>3 DEF Caught, NoneLate
  <2> QED
    BY <1>1, <1>6, <2>1, <2>2, <2>3 DEF NoneLate
<1>11. Popped'
  <2>1. ASSUME cb = "popped", NEW i \in 1..taken PROVE playback'[i].due <= clock
    <3>1. i \in 1..Len(playback)
      BY <1>2, <1>3
    <3> QED
      BY <1>3, <2>1, <3>1 DEF Caught, Popped
  <2> QED
    BY <1>1, <2>1 DEF Caught, Popped
<1> QED
  BY <1>1, <1>7, <1>9, <1>10, <1>11 DEF Caught, Places, Stalled

LEMMA CaughtInvariance ==
  ASSUME Assumptions
  PROVE  Spec => []Caught
<1>1. IInv /\ Caught /\ [Next]_vars => Caught'
  <2> SUFFICES ASSUME IInv, Caught, [Next]_vars PROVE Caught'
    OBVIOUS
  <2>1. CASE UNCHANGED vars
    <3>1. \A x : Waiting(x)' <=> Waiting(x)
      BY <2>1 DEF vars, Waiting
    <3> QED
      BY <2>1, <3>1, WorkerCaught DEF vars
  <2> QED
    BY <2>1, PrepareCaught, EnterCaught, PopCaught, PopStoreCaught, FrameCaught, PushCaught,
       WaitCaught, WaitStoreCaught, SubmitCaught, SubmitStoreCaught DEF Next
<1> QED
  BY <1>1, CaughtInit, Invariance, PTL DEF Spec

\* For any sizes, a worker that catches up once in every burst never causes a
\* silent block, and after a stall the last one comes PipelineBlocks + 1 blocks
\* later (callback, ap_audio_submit, configure_transport).
THEOREM BurstsAreCovered ==
  ASSUME Assumptions
  PROVE  Spec => []BurstNeedsNoWorker
<1>1. Caught => BurstNeedsNoWorker
  <2> SUFFICES ASSUME Caught, cb = "popped", clock >= PipelineBlocks, playing = Silence
               PROVE  calm <= PipelineBlocks + 1
    BY DEF BurstNeedsNoWorker
  <2>1. ~(calm >= PipelineBlocks + 2)
    BY DEF Caught, Popped
  <2> QED
    BY <2>1, Sizes DEF Caught, Places
<1> QED
  BY <1>1, CaughtInvariance, PTL

\* For any sizes, neither queue drops a block once a stall is two blocks ago
\* (the full branches of callback and ap_audio_submit).
THEOREM DropsFollowStalls ==
  ASSUME Assumptions
  PROVE  Spec => DropNeedsStall
<1> DEFINE Drop == (cb = "push" /\ clock' = clock + 1) \/ (worker = "process" /\ worker' = "wait")
<1>1. IInv /\ Caught /\ [Next]_vars => [Drop => calm <= 2]_vars
  <2> SUFFICES ASSUME IInv, Caught, Next, Drop PROVE calm <= 2
    OBVIOUS
  <2>1. /\ calm \in Int /\ Len(playback) \in Int /\ clock \in Int
    BY Elements, Sizes DEF IInv, Types, Caught, Places
  <2>2. CASE cb = "push" /\ clock' = clock + 1
    <3>1. Push /\ ~(Len(capture) < Capacity)
      BY <2>1, <2>2 DEF Next, Prepare, CallbackEnter, Pop, PopStore, Frame, Push, PushStore,
                   Wait, WaitStore, Submit, SubmitStore, callback
    <3>2. ~(calm >= 2)
      BY <3>1, CaptureFits
    <3> QED
      BY <2>1, <3>2
  <2>3. CASE worker = "process" /\ worker' = "wait"
    <3>1. Len(playback) = Capacity
      BY <2>3 DEF Next, Prepare, CallbackEnter, Pop, PopStore, Frame, Push, PushStore,
                  Wait, WaitStore, Submit, SubmitStore, callback
    <3>2. ~(calm >= 3)
      BY <2>1, <3>1, PlaybackFits
    <3> QED
      BY <2>1, <3>2
  <2> QED
    BY <2>2, <2>3
<1> QED
  BY <1>1, CaughtInvariance, Invariance, PTL DEF Spec, DropNeedsStall

=============================================================================
