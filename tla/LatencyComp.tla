---------------------------- MODULE LatencyComp ----------------------------
(***************************************************************************)
(* The opt-in latency compensation of the default CLAP instance:           *)
(* _LatencyComp, _drain!, _comp_out and clap_flush! of src/clap_io.jl.     *)
(*                                                                         *)
(* The plugin is a pure delay of its latency, so an output sample is the   *)
(* position of the input sample it carries: negative in the pre-roll.  The *)
(* caller is one thread; a flush ends its stream, so it neither feeds nor  *)
(* reads a block after one.  A failed process call produces no output, and *)
(* its input is not part of the plugin's stream.                           *)
(***************************************************************************)
EXTENDS Integers, Sequences

CONSTANTS
  Channels,   \* of the open plugin
  Block,      \* frames of a block
  Latencies,  \* what a plugin may report, in samples
  MaxBlocks   \* bound: input blocks processed

\* What is assumed of the constants; the runs assume it.
Assumptions == Block \in Nat \ {0} /\ Latencies \subseteq Nat /\ MaxBlocks \in Nat

VARIABLES
  host,    \* the default instance: out_token, out_n and the reported latency
  comp,    \* struct _LatencyComp
  left,    \* blocks of silence clap_flush! still has to feed; -1 outside it
  served,  \* samples handed out so far, per channel
  slips    \* what the caller or the plugin has done to the stream

vars == <<host, comp, left, served, slips>>

Ceil(n) == (n + Block - 1) \div Block
LeastOf(m, n) == IF m < n THEN m ELSE n
Each(v) == [c \in Channels |-> v]

\* clap_open! with compensate_latency = true.
NewHost(latency) == [token |-> 0, count |-> 0, latency |-> latency]
NewComp(latency) ==
  [latency |-> latency, skip |-> latency, pending |-> Each(<<>>), emitted |-> Each(0),
   fed |-> 0, last |-> 0, block |-> Each(FALSE), tail |-> Each(FALSE), zerosFed |-> FALSE]
NoSlips == [erased |-> FALSE, behind |-> FALSE, unread |-> FALSE, failed |-> FALSE]

Init ==
  /\ \E latency \in Latencies : host = NewHost(latency) /\ comp = NewComp(latency)
  /\ left = -1 /\ served = Each(<<>>) /\ slips = NoSlips

Unread == host.token # comp.last

---------------------------------------------------------------------------
(* clap_fill! and clp_process.  slips notes a failure that discards a      *)
(* block nobody has read, and a block that one channel was never read of.  *)

Process ==
  /\ ~comp.zerosFed /\ host.token < MaxBlocks
  /\ host' = [host EXCEPT !.token = @ + 1, !.count = Block]
  /\ slips' = [slips EXCEPT !.behind =
                 @ \/ (~Unread /\ host.token > 0 /\ \E c \in Channels : ~comp.block[c])]
  /\ UNCHANGED <<comp, left, served>>

ProcessError ==
  /\ ~comp.zerosFed
  /\ host' = [host EXCEPT !.count = 0]
  /\ slips' = [slips EXCEPT !.erased = @ \/ Unread]
  /\ UNCHANGED <<comp, left, served>>

\* The plugin reports another latency.
LatencyChanges ==
  /\ \E latency \in Latencies : host' = [host EXCEPT !.latency = latency]
  /\ UNCHANGED <<comp, left, served, slips>>

---------------------------------------------------------------------------
(* _drain!: fold the newest output block of host h into pending.           *)

\* Wrong version: a skipped block is not noticed.
CanDrainAny(h) == h.latency = comp.latency

CanDrain(h) == h.token = comp.last + 1 /\ h.latency = comp.latency

\* The samples under the current output token; none after a failed call.
Raw(h) == [i \in 1..h.count |-> (h.token - 1) * Block + i - 1 - comp.latency]

\* Wrong version: the silence of a flush counts as input.
DrainCountsSilence(h, real) ==
  LET drop == LeastOf(comp.skip, Block) IN
  [comp EXCEPT !.skip = @ - drop,
               !.pending = [c \in Channels |-> @[c] \o SubSeq(Raw(h), drop + 1, h.count)],
               !.fed = @ + Block, !.last = h.token, !.block = Each(FALSE)]

Drain(h, real) ==
  LET drop == LeastOf(comp.skip, Block) IN
  [comp EXCEPT !.skip = @ - drop,
               !.pending = [c \in Channels |-> @[c] \o SubSeq(Raw(h), drop + 1, h.count)],
               !.fed = IF real THEN @ + Block ELSE @, !.last = h.token, !.block = Each(FALSE)]

\* Hand out the first n pending samples of channel c of k.
Take(k, c, n) ==
  /\ comp' = [k EXCEPT !.pending[c] = SubSeq(@, n + 1, Len(@)), !.emitted[c] = @ + n]
  /\ served' = [served EXCEPT ![c] = @ \o SubSeq(k.pending[c], 1, n)]

---------------------------------------------------------------------------
(* _comp_out of the current token.  A call that raises, and a second read  *)
(* of the same block, change nothing.                                      *)

\* Wrong version: all that is aligned is handed out.
WholeOrPart(n) == n

\* One whole block, or nothing.
Whole(n) == IF n >= Block THEN Block ELSE 0

Out(c) ==
  /\ left = -1 /\ ~comp.zerosFed /\ host.token > 0 /\ (Unread => CanDrain(host))
  /\ LET k == IF Unread THEN Drain(host, TRUE) ELSE comp IN
     /\ ~k.block[c]
     /\ Take([k EXCEPT !.block[c] = TRUE], c, Whole(Len(k.pending[c])))
  /\ UNCHANGED <<host, left, slips>>

---------------------------------------------------------------------------
(* clap_flush!: its silence once, then each channel's tail.                *)

FlushBegin ==
  /\ left = -1 /\ ~comp.zerosFed
  /\ comp' = [comp EXCEPT !.zerosFed = TRUE]
  /\ left' = Ceil(comp.latency)
  /\ slips' = [slips EXCEPT !.unread = Unread]
  /\ UNCHANGED <<host, served>>

FlushBlock ==
  /\ left > 0
  /\ LET h == [host EXCEPT !.token = @ + 1, !.count = Block] IN
     \/ /\ CanDrain(h)
        /\ host' = h /\ comp' = Drain(h, FALSE) /\ left' = left - 1
        /\ UNCHANGED slips
     \/ /\ host' = [host EXCEPT !.count = 0] \/ (~CanDrain(h) /\ host' = h)
        /\ left' = -1 /\ slips' = [slips EXCEPT !.failed = TRUE]
        /\ UNCHANGED comp
  /\ UNCHANGED served

FlushTail(c) ==
  /\ comp.zerosFed /\ left \in {-1, 0} /\ ~comp.tail[c]
  /\ Take([comp EXCEPT !.tail[c] = TRUE], c,
          LeastOf(comp.fed - comp.emitted[c], Len(comp.pending[c])))
  /\ left' = -1 /\ UNCHANGED <<host, slips>>

---------------------------------------------------------------------------
\* clap_open! again, which forgets the stream.
Reopen ==
  /\ left = -1
  /\ \E latency \in Latencies : host' = NewHost(latency) /\ comp' = NewComp(latency)
  /\ left' = -1 /\ served' = Each(<<>>) /\ slips' = NoSlips

Next ==
  \/ Process \/ ProcessError \/ LatencyChanges
  \/ FlushBegin \/ FlushBlock \/ Reopen
  \/ \E c \in Channels : Out(c) \/ FlushTail(c)

Spec == Init /\ [][Next]_vars

---------------------------------------------------------------------------
\* The aligned stream is the input, from its first sample and without a gap,
\* on every channel: no pre-roll, no skipped block (_drain! refuses one), and
\* nothing twice.  An error that empties a block nobody has read is excluded,
\* and it has to be: clap_out then takes the old token and drains no samples.
Aligned ==
  ~slips.erased => \A c \in Channels : \A i \in 1..Len(served[c]) : served[c][i] = i - 1

\* "ceil(N/B) blocks no matter what": a channel read of every block has been
\* given, after block k, exactly the first k - ceil(N/B) blocks of the input.
LagIsCeiling ==
  ~slips.erased /\ ~slips.behind /\ ~comp.zerosFed =>
    \A c \in Channels : comp.block[c] =>
      Len(served[c]) = IF comp.last > Ceil(comp.latency)
                       THEN (comp.last - Ceil(comp.latency)) * Block ELSE 0

\* clap_flush! completes the stream: clap_out and the tail together total
\* exactly what was fed, whichever channel is flushed first and however many
\* of its reads were skipped.  Excluded, since the code does not detect them on
\* a repeated call: a flush that raised, and a last block never read.
TailCompletes ==
  \A c \in Channels :
    comp.tail[c] /\ ~slips.erased /\ ~slips.failed /\ ~slips.unread =>
      Len(served[c]) = comp.fed /\ \A i \in 1..comp.fed : served[c][i] = i - 1

=============================================================================
