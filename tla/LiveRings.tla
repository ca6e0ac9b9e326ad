----------------------------- MODULE LiveRings -----------------------------
(***************************************************************************)
(* The two single-producer single-consumer rings of a live session,        *)
(* csrc/clap_live.c: input carries blocks from ap_live_try_write to        *)
(* process_block, output from process_block to ap_live_try_read.           *)
(*                                                                         *)
(* The indices are unsigned integers of a fixed width that wrap, a slot is *)
(* an index modulo the queue length, and copying a block is separate from  *)
(* publishing its index.  While a block is being copied into it a slot     *)
(* holds a torn block.  BlockFifo says what each ring promises.            *)
(*                                                                         *)
(* The audio thread is one thread, and a stop waits for it: LiveEngine     *)
(* shows that the threads of a session keep to both.                       *)
(***************************************************************************)
EXTENDS Naturals, Sequences

CONSTANTS
  Payloads,   \* the input_sequence values an integrator uses
  QueueBlocks,  \* length of both queues, a power of two
  Width,        \* bits of an index
  MaxTick       \* bound on s->tick

Wrap == 2^Width

\* A power of two below 2^Width divides it; that is all that matters here.
ASSUME QueueAssumption ==
  /\ QueueBlocks \in Nat \ {0} /\ Wrap \in Nat /\ MaxTick \in Nat
  /\ \E n \in 2..Wrap : Wrap = n * QueueBlocks

VARIABLES
  input, output,   \* s->input, s->output: indices and slots
  state,           \* "prepared", "running", or "failed" after a process error
  tick, overruns,  \* s->tick, s->overruns
  audio,           \* where process_block is
  block,           \* the input block process_block works on
  control,         \* where the control thread's call is
  sent,            \* the block try_write was given
  copied, read,    \* the block try_read copied; the one it returned last
  consumed,        \* history: the block process_block released last
  delivered,       \* history: output blocks returned
  discarded        \* history: output blocks a stop discarded

vars == <<input, output, state, tick, overruns, audio, block, control, sent,
          copied, read, consumed, delivered, discarded>>

None == "none"    \* UINT64_MAX, the sequence of a tick without input
Torn == "torn"
Output(t, q) == [tick |-> t, sequence |-> q]
NoBlock == Output(0, None)
TornBlock == Output(0, Torn)
OutputBlocks == [tick : 0..MaxTick, sequence : Payloads \cup {None}]

---------------------------------------------------------------------------
(* A ring: its length, the slot of an index, and what it holds.            *)

Empty(blank) == [read |-> 0, write |-> 0, slots |-> [i \in 0..QueueBlocks - 1 |-> blank]]

Filled(r) == (r.write + Wrap - r.read) % Wrap
Slot(i) == i % QueueBlocks
Contents(r) == [i \in 1..Filled(r) |-> r.slots[Slot(r.read + i - 1)]]

\* Wrong version: the block is published before it is copied.
BeginCopyPublished(r, torn) ==
  [r EXCEPT !.slots[Slot(r.write)] = torn, !.write = (@ + 1) % Wrap]

BeginCopy(r, torn) == [r EXCEPT !.slots[Slot(r.write)] = torn]
Publish(r, b) == [r EXCEPT !.slots[Slot(r.write)] = b, !.write = (@ + 1) % Wrap]
Oldest(r) == r.slots[Slot(r.read)]
ReleaseOldest(r) == [r EXCEPT !.read = (@ + 1) % Wrap]
Clear(r) == [r EXCEPT !.read = 0, !.write = 0]

Init ==
  /\ \E b \in Payloads : input = Empty(b) /\ sent = b /\ consumed = b
  /\ output = Empty(NoBlock)
  /\ state = "prepared" /\ tick = 0 /\ overruns = 0
  /\ audio = "idle" /\ block = None
  /\ control = "idle" /\ copied = NoBlock /\ read = NoBlock
  /\ delivered = 0 /\ discarded = 0

---------------------------------------------------------------------------
(* Control: ap_live_start, ap_live_stop, ap_live_try_write, try_read.      *)

\* The assignments of start and stop.
Running ==
  /\ state' = "running"
  /\ UNCHANGED <<input, output, tick, overruns, audio, block, control, sent, copied,
                 read, consumed, delivered, discarded>>

Reset ==
  /\ input' = Clear(input) /\ output' = Clear(output)
  /\ discarded' = discarded + Filled(output)
  /\ state' = "prepared"
  /\ UNCHANGED <<tick, overruns, audio, block, control, sent, copied, read, consumed,
                 delivered>>

Start == control = "idle" /\ state = "prepared" /\ Running

\* Wrong version: the indices are reset while a block is being processed.
StopWithoutJoin == control = "idle" /\ Reset

\* The audio thread is out of process_block; an inactive session only has its
\* indices reset.
Stop == control = "idle" /\ audio = "idle" /\ Reset

\* AGAIN when the queue is full, STATE after a failure: no change.
Write ==
  /\ control = "idle" /\ state # "failed" /\ Filled(input) # QueueBlocks
  /\ \E q \in Payloads : sent' = q
  /\ input' = BeginCopy(input, Torn) /\ control' = "write"
  /\ UNCHANGED <<output, state, tick, overruns, audio, block, copied, read, consumed,
                 delivered, discarded>>

WriteStore ==
  /\ control = "write"
  /\ input' = Publish(input, sent) /\ control' = "idle"
  /\ UNCHANGED <<output, state, tick, overruns, audio, block, sent, copied, read,
                 consumed, delivered, discarded>>

Read ==
  /\ control = "idle" /\ Filled(output) # 0
  /\ copied' = Oldest(output) /\ control' = "read"
  /\ UNCHANGED <<input, output, state, tick, overruns, audio, block, sent, read,
                 consumed, delivered, discarded>>

ReadStore ==
  /\ control = "read"
  /\ output' = ReleaseOldest(output)
  /\ read' = copied /\ delivered' = delivered + 1 /\ control' = "idle"
  /\ UNCHANGED <<input, state, tick, overruns, audio, block, sent, copied, consumed,
                 discarded>>

---------------------------------------------------------------------------
(* process_block.                                                          *)

Process ==
  /\ audio = "idle" /\ state = "running" /\ tick < MaxTick
  /\ IF Filled(input) = 0
     THEN block' = None /\ audio' = "plugin"
     ELSE block' = Oldest(input) /\ audio' = "release"
  /\ UNCHANGED <<input, output, state, tick, overruns, control, sent, copied, read,
                 consumed, delivered, discarded>>

ProcessRelease ==
  /\ audio = "release"
  /\ input' = ReleaseOldest(input) /\ consumed' = block /\ audio' = "plugin"
  /\ UNCHANGED <<output, state, tick, overruns, block, control, sent, copied, read,
                 delivered, discarded>>

\* The plugin's process call; after an error the session takes no more.
ProcessPlugin ==
  /\ audio = "plugin"
  /\ state' \in {state, "failed"} /\ audio' = "output"
  /\ UNCHANGED <<input, output, tick, overruns, block, control, sent, copied, read,
                 consumed, delivered, discarded>>

\* Wrong version: a full queue overwrites its oldest block.
ProcessOutputAlways ==
  /\ audio = "output"
  /\ output' = BeginCopy(output, TornBlock) /\ audio' = "publish"
  /\ UNCHANGED <<input, state, tick, overruns, block, control, sent, copied, read,
                 consumed, delivered, discarded>>

\* A full queue loses the block, counted as an overrun.
ProcessOutput ==
  /\ audio = "output"
  /\ IF Filled(output) = QueueBlocks
     THEN overruns' = overruns + 1 /\ tick' = tick + 1 /\ audio' = "idle" /\ UNCHANGED output
     ELSE output' = BeginCopy(output, TornBlock) /\ audio' = "publish" /\ UNCHANGED <<overruns, tick>>
  /\ UNCHANGED <<input, state, block, control, sent, copied, read, consumed, delivered, discarded>>

ProcessPublish ==
  /\ audio = "publish"
  /\ output' = Publish(output, Output(tick, block))
  /\ tick' = tick + 1 /\ audio' = "idle"
  /\ UNCHANGED <<input, state, overruns, block, control, sent, copied, read, consumed,
                 delivered, discarded>>

Next ==
  \/ Start \/ Stop \/ Write \/ WriteStore \/ Read \/ ReadStore
  \/ Process \/ ProcessRelease \/ ProcessPlugin \/ ProcessOutput \/ ProcessPublish

Spec == Init /\ [][Next]_vars

---------------------------------------------------------------------------
\* Input blocks reach process_block whole, each once and in order, across the
\* wrap-around of the indices and the resets of a stop (try_write against
\* process_block).
In == INSTANCE BlockFifo WITH
  Blocks <- Payloads, Capacity <- QueueBlocks, queue <- Contents(input), last <- consumed
InputIsFifo == In!Spec

\* The same of output blocks (process_block against try_read).
Out == INSTANCE BlockFifo WITH
  Blocks <- OutputBlocks, Capacity <- QueueBlocks, queue <- Contents(output), last <- read
OutputIsFifo == Out!Spec

\* Every tick process_block went through is accounted for: its block was returned,
\* waits, was lost and counted as an overrun, or was discarded by a stop.  Blocks
\* are in the order of ticks, all that wait newer than all that were returned; the
\* ticks missing between neighbours are overruns, those missing between the block
\* returned last and the first that waits are overruns or were discarded.
TicksAccountedFor ==
  LET q == Contents(output)
  IN /\ tick = delivered + Len(q) + overruns + discarded
     /\ \A i \in 1..Len(q) - 1 : q[i].tick < q[i + 1].tick
     /\ q # <<>> => q[Len(q)].tick - q[1].tick + 1 - Len(q) <= overruns
     /\ q # <<>> /\ delivered > 0 =>
          /\ read.tick < q[1].tick
          /\ q[1].tick - read.tick - 1 <= overruns + discarded

=============================================================================
