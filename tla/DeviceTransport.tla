-------------------------- MODULE DeviceTransport --------------------------
(***************************************************************************)
(* The data path of the hardware driver, csrc/live_device.c: the device    *)
(* callback cuts the hardware's bursts into blocks, queues each captured   *)
(* block for the worker, and plays the worker's output for that block a    *)
(* fixed number of blocks later (callback, configure_transport,            *)
(* ap_audio_prepare, ap_audio_wait, ap_audio_submit, and the loop of       *)
(* hardware_main).                                                         *)
(*                                                                         *)
(* Audio is a tick: the number of the block it was captured in.  A queue   *)
(* is the sequence of its published blocks; loading an index and           *)
(* publishing the next are separate steps, so the other thread may act in  *)
(* between.  Waking, loss, closing and the callback guard are in           *)
(* DeviceWake.  underruns and overruns are the steps that would count them.*)
(***************************************************************************)
EXTENDS Integers, Sequences, SequencesExt

CONSTANTS
  Block,                     \* frames per block
  NativeFrames,              \* device period times number of periods
  Rate, DeviceRate,          \* frame rates of the session and of the device
  QueueBlocks,               \* the configured queue length, a power of two
  MaxTicks                   \* bound on the clock

---------------------------------------------------------------------------
(* configure_transport: sizes from the negotiated hardware buffer.         *)

RoundUp(n, by) == (n + by - 1) \div by
Frames == RoundUp(NativeFrames * Rate, DeviceRate)
BurstBlocks == RoundUp(Frames, Block) + 1

\* Wrong version: no block of delay for the partly filled capture block.
BurstOnly == BurstBlocks

PipelineBlocks == BurstBlocks + 1
MaxCallbackFrames == BurstBlocks * Block

\* What is assumed of the constants.  ap_live_open: "queue_blocks" is a power of
\* two from 2 to 1024.  Longer bursts are refused.
Assumptions ==
  /\ Block \in Nat \ {0} /\ NativeFrames \in Nat \ {0}
  /\ Rate \in Nat \ {0} /\ DeviceRate \in Nat \ {0}
  /\ QueueBlocks \in {2, 4, 8, 16, 32, 64, 128, 256, 512, 1024}
  /\ BurstBlocks < 512

\* Wrong version: the queue is as long as the session's.
ConfiguredCapacity == QueueBlocks

\* The queue's length is doubled until it is long enough.
Capacity == QueueBlocks * 2^Min({k \in 0..10 : QueueBlocks * 2^k >= 2 * PipelineBlocks})

VARIABLES
  cb,         \* where the callback is; "out" between callbacks
  left,       \* frames the callback still has to serve
  offset,     \* d->offset
  clock,      \* d->clock
  taken,      \* blocks the callback will release from the playback queue
  playing,    \* tick of the block in d->playback, or Silence
  capture,    \* d->capture_ring: ticks
  playback,   \* d->playback_ring: the output for a tick and when it is due
  worker,     \* where the worker is; "wait" at the top of ap_audio_wait
  work,       \* the tick it holds
  behind,     \* history: frames served since the worker last had nothing to do
  calm        \* history: blocks since it was last more than a burst behind

callback == <<cb, left, offset, clock, taken, playing>>
vars == <<callback, capture, playback, worker, work, behind, calm>>

Silence == -1
Capped(n, bound) == IF n > bound THEN bound ELSE n

Init ==
  /\ cb = "out" /\ left = 0 /\ offset = 0 /\ clock = 0 /\ taken = 0 /\ playing = Silence
  /\ capture = <<>> /\ playback = <<>>
  /\ worker = "wait" /\ work = 0
  /\ behind = 0 /\ calm = PipelineBlocks + 2

\* Wrong version: a partly filled block survives a restart.
PrepareKeepsOffset ==
  /\ cb = "out" /\ worker = "wait"
  /\ clock' = 0 /\ capture' = <<>> /\ playback' = <<>>
  /\ behind' = 0 /\ calm' = PipelineBlocks + 2
  /\ UNCHANGED <<cb, left, offset, taken, playing, worker, work>>

\* ap_audio_prepare: the device is stopped and the worker joined.
Prepare ==
  /\ cb = "out" /\ worker = "wait"
  /\ offset' = 0 /\ clock' = 0 /\ capture' = <<>> /\ playback' = <<>>
  /\ behind' = 0 /\ calm' = PipelineBlocks + 2
  /\ UNCHANGED <<cb, left, taken, playing, worker, work>>

---------------------------------------------------------------------------
(* The callback, one frame after the other.                                *)

CallbackEnter ==
  /\ cb = "out" /\ clock < MaxTicks
  /\ left' \in 1..MaxCallbackFrames
  /\ cb' = IF offset = 0 THEN "pop" ELSE "frame"
  /\ UNCHANGED <<offset, clock, taken, playing, capture, playback, worker, work, behind, calm>>

\* Index of the first block the pop loop does not discard as late, or 0.
FirstDue == SelectInSeq(playback, LAMBDA b : b.due >= clock)

\* Wrong version: the loop stops at a late block.
PopStopsAtLate ==
  /\ cb = "pop"
  /\ LET found == playback # <<>> /\ playback[1].due = clock
     IN /\ taken' = IF found THEN 1 ELSE 0
        /\ playing' = IF found THEN playback[1].tick ELSE Silence
  /\ cb' = "popped"
  /\ UNCHANGED <<left, offset, clock, capture, playback, worker, work, behind, calm>>

\* Late blocks are discarded; the block due now is played, else silence.
Pop ==
  /\ cb = "pop"
  /\ LET i == FirstDue
         found == i # 0 /\ playback[i].due = clock
     IN /\ taken' = IF i = 0 THEN Len(playback) ELSE IF found THEN i ELSE i - 1
        /\ playing' = IF found THEN playback[i].tick ELSE Silence
  /\ cb' = "popped"
  /\ UNCHANGED <<left, offset, clock, capture, playback, worker, work, behind, calm>>

PopStore ==
  /\ cb = "popped"
  /\ playback' = SubSeq(playback, taken + 1, Len(playback))
  /\ taken' = 0 /\ cb' = "frame"
  /\ UNCHANGED <<left, offset, clock, playing, capture, worker, work, behind, calm>>

\* The frame is served and the callback goes on at offset o.
FrameDone(o) ==
  /\ left' = left - 1 /\ offset' = o
  /\ cb' = IF left = 1 THEN "out" ELSE IF o = 0 THEN "pop" ELSE "frame"

Idle == worker = "wait" /\ capture = <<>>

Frame ==
  /\ cb = "frame"
  /\ behind' = IF Idle THEN 1 ELSE Capped(behind + 1, MaxCallbackFrames + 1)
  /\ calm' = IF behind' > MaxCallbackFrames THEN 0 ELSE calm
  /\ IF offset + 1 = Block
     THEN cb' = "push" /\ UNCHANGED <<left, offset>>
     ELSE FrameDone(offset + 1)
  /\ UNCHANGED <<clock, taken, playing, capture, playback, worker, work>>

NextTick ==
  /\ clock' = clock + 1 /\ FrameDone(0)
  /\ calm' = Capped(calm + 1, PipelineBlocks + 2)

\* A full queue drops the block just captured.
Push ==
  /\ cb = "push"
  /\ IF Len(capture) < Capacity
     THEN cb' = "pushed" /\ UNCHANGED <<left, offset, clock, calm>>
     ELSE NextTick
  /\ UNCHANGED <<taken, playing, capture, playback, worker, work, behind>>

PushStore ==
  /\ cb = "pushed"
  /\ capture' = Append(capture, clock)
  /\ NextTick
  /\ UNCHANGED <<taken, playing, playback, worker, work, behind>>

---------------------------------------------------------------------------
(* The worker: ap_audio_wait, process_block, ap_audio_submit.              *)

Wait ==
  /\ worker = "wait" /\ capture # <<>>
  /\ work' = Head(capture) /\ worker' = "copied"
  /\ UNCHANGED <<callback, capture, playback, behind, calm>>

WaitStore ==
  /\ worker = "copied"
  /\ capture' = Tail(capture) /\ worker' = "process"
  /\ UNCHANGED <<callback, playback, work, behind, calm>>

\* A full queue drops the new output, late blocks in it notwithstanding.
Submit ==
  /\ worker = "process"
  /\ worker' = IF Len(playback) = Capacity THEN "wait" ELSE "submit"
  /\ UNCHANGED <<callback, capture, playback, work, behind, calm>>

SubmitStore ==
  /\ worker = "submit"
  /\ playback' = Append(playback, [tick |-> work, due |-> work + PipelineBlocks])
  /\ worker' = "wait"
  /\ UNCHANGED <<callback, capture, work, behind, calm>>

Next ==
  \/ Prepare \/ CallbackEnter \/ Pop \/ PopStore \/ Frame \/ Push \/ PushStore
  \/ Wait \/ WaitStore \/ Submit \/ SubmitStore

Spec == Init /\ [][Next]_vars

---------------------------------------------------------------------------
\* What a frame plays is silence or the output for the block captured exactly
\* PipelineBlocks earlier in this run of the device: neither a stall of the
\* worker nor a restart ever shifts the delay (live.md: "stale output
\* is discarded, keeping host pipeline latency fixed instead of accumulating
\* delay after a stall").
FixedDelay ==
  cb \in {"frame", "push", "pushed"} => playing \in {Silence, clock - PipelineBlocks}

\* Output that is in the queue when its tick begins is played, whatever late
\* blocks lie before it.
InTimeIsPlayed ==
  [][\A i \in 1..Len(playback) :
       cb = "pop" /\ cb' = "popped" /\ playback[i].due = clock
         => playing' = playback[i].tick]_vars

\* A silent block is due to a stall: a worker that catches up at least once in
\* every max_callback_frames never causes one, and after a stall the last one
\* comes PipelineBlocks + 1 blocks later.  The extra block is fresh output that
\* was dropped because late output still filled the queue (ap_audio_submit).
\* "The fixed output delay accommodates a whole hardware burst without relying
\* on the worker being scheduled between adjacent callbacks."
BurstNeedsNoWorker ==
  cb = "popped" /\ clock >= PipelineBlocks /\ playing = Silence
    => calm <= PipelineBlocks + 1

\* Neither queue drops a block unless the worker was more than a whole device
\* buffer behind within the last two blocks: the first pop after that makes room.
DropNeedsStall ==
  [][(cb = "push" /\ clock' = clock + 1) \/ (worker = "process" /\ worker' = "wait")
       => calm <= 2]_vars

=============================================================================
