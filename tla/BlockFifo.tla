----------------------------- MODULE BlockFifo -----------------------------
(***************************************************************************)
(* What a queue between the control and the audio thread promises: blocks  *)
(* come out whole, each once and in order, never more than Capacity wait,  *)
(* and only stopping the session discards any.                             *)
(***************************************************************************)
EXTENDS Naturals, Sequences

CONSTANTS Blocks, Capacity

VARIABLES
  queue,   \* blocks put and not taken
  last     \* the block taken last

Init == queue = <<>> /\ last \in Blocks

Put == /\ Len(queue) < Capacity
       /\ \E b \in Blocks : queue' = Append(queue, b)
       /\ UNCHANGED last

Take == queue # <<>> /\ last' = Head(queue) /\ queue' = Tail(queue)

Discard == queue' = <<>> /\ UNCHANGED last

Next == Put \/ Take \/ Discard

Spec == Init /\ [][Next]_<<queue, last>>

=============================================================================
