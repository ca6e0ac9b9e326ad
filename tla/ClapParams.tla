----------------------------- MODULE ClapParams -----------------------------
(***************************************************************************)
(* How one instance of the offline CLAP host drives a plugin's parameters, *)
(* csrc/clap_host.c: clap_set_param chains a change to the current input   *)
(* block, clap_process carries a few (id, value) slots of its own and      *)
(* hands the queued events to the plugin, and filling a new input block    *)
(* (clap_in_fill, clap_in_tone, clap_in_copy_for) voids a pending chain.   *)
(* The chain and the slots each remember what they sent, so that a held    *)
(* parameter costs one event.                                              *)
(*                                                                         *)
(* Calls are serialized by the caller.  A call that is refused (a stale    *)
(* token, an unknown id, a NaN value, a full queue) changes nothing.       *)
(* Tokens and audio are left out; the plugin is the parameter values that  *)
(* it was sent.                                                            *)
(***************************************************************************)
EXTENDS Naturals, Sequences, FiniteSets

CONSTANTS
  Params,   \* ids of the parameters the open plugin declares
  Values,   \* values a driver sends
  Slots     \* (id, value) pairs of one clap_process call

\* What is assumed of the constants; the runs assume it.
Assumptions ==
  /\ Slots \in Nat
  /\ IsFiniteSet(Params) /\ "none" \notin Params \cup Values

Unset == "none"      \* NaN: nothing sent yet
NoId == "none"       \* a negative id: the slot is unused

\* Wrong version: no room for the slots.
EvMaxParamsOnly == Cardinality(Params)

EvMax == Cardinality(Params) + Slots

VARIABLES
  block,     \* an input block is current: in_token is not 0
  ev,        \* the queued events
  sent,      \* sent_val of each parameter
  slot,      \* slot_id and slot_val
  plugin,    \* the values the plugin holds; Unset is its default
  \* history
  claimed,   \* what this block's accepted clap_set_param calls asked for
  once,      \* no parameter was set twice in this block
  broken,    \* parameters whose last chain event was abandoned or overridden
  processed, \* the last call was clap_process
  handed,    \* how many events that call handed to the plugin; 0 after others
  refused    \* a call of this block found the queue full

host == <<block, ev, sent, slot, plugin>>
vars == <<host, claimed, once, broken, processed, handed, refused>>

Event(p, v) == [id |-> p, value |-> v]
Ids(events) == {events[i].id : i \in DOMAIN events}
NoClaims == [p \in Params |-> Unset]

\* clap_host_open_ctx.
Init ==
  /\ block = FALSE /\ ev = <<>>
  /\ sent = NoClaims
  /\ slot = [i \in 1..Slots |-> Event(NoId, Unset)]
  /\ plugin = NoClaims
  /\ claimed = NoClaims /\ once = TRUE /\ broken = {} /\ processed = FALSE
  /\ handed = 0 /\ refused = FALSE

\* Close, and open again.
Reopen ==
  /\ block' = FALSE /\ ev' = <<>>
  /\ sent' = NoClaims
  /\ slot' = [i \in 1..Slots |-> Event(NoId, Unset)]
  /\ plugin' = NoClaims
  /\ claimed' = NoClaims /\ once' = TRUE /\ broken' = {} /\ processed' = FALSE
  /\ handed' = 0 /\ refused' = FALSE

\* Wrong version: a pending chain survives into the next block.
FillKeepsChain ==
  /\ block' = TRUE
  /\ claimed' = NoClaims /\ once' = TRUE /\ processed' = FALSE
  /\ handed' = 0 /\ refused' = FALSE
  /\ UNCHANGED <<ev, sent, slot, plugin, broken>>

\* clap_in_fill, clap_in_tone, clap_in_copy_for: the queue is emptied, what it
\* held stays marked as sent.
Fill ==
  /\ block' = TRUE /\ ev' = <<>>
  /\ claimed' = NoClaims /\ once' = TRUE /\ processed' = FALSE
  /\ handed' = 0 /\ refused' = FALSE
  /\ broken' = broken \cup Ids(ev)
  /\ UNCHANGED <<sent, slot, plugin>>

\* clap_set_param: only a change is queued, and remembered as sent.
SetParam(p, v) ==
  /\ block
  /\ IF sent[p] = v
     THEN claimed' = [claimed EXCEPT ![p] = v] /\ UNCHANGED <<ev, sent, broken, refused>>
     ELSE IF Len(ev) < EvMax
     THEN /\ ev' = Append(ev, Event(p, v))
          /\ sent' = [sent EXCEPT ![p] = v]
          /\ claimed' = [claimed EXCEPT ![p] = v]
          /\ broken' = broken \ {p} /\ UNCHANGED refused
     ELSE refused' = TRUE /\ UNCHANGED <<ev, sent, claimed, broken>>
  /\ once' = (once /\ claimed[p] = Unset) /\ processed' = FALSE /\ handed' = 0
  /\ UNCHANGED <<block, slot, plugin>>

---------------------------------------------------------------------------
(* clap_process.                                                           *)

\* The value of an unused slot is not looked at.
SlotArgs ==
  [1..Slots -> [id : Params, value : Values \cup {Unset}] \cup {Event(NoId, Unset)}]

\* An unused slot forgets what it sent.
NewSlot(arg) == IF arg.id = NoId THEN Event(NoId, Unset) ELSE arg

\* Wrong version: an event is queued whether or not there is room.
QueueUnchecked(q, i, arg) ==
  IF arg.id = NoId \/ slot[i] = arg \/ arg.value = Unset THEN q ELSE Append(q, arg)

\* A changed slot queues an event if the value is a number and there is room;
\* it is remembered as sent either way.
Queue(q, i, arg) ==
  IF arg.id = NoId \/ slot[i] = arg \/ arg.value = Unset \/ Len(q) = EvMax
  THEN q ELSE Append(q, arg)

SlotDropped(q, i, arg) ==
  arg.id # NoId /\ slot[i] # arg /\ arg.value # Unset /\ Len(q) = EvMax

\* Wrong version: the slots' events replace the chain's.
QueuedSlotsOnly(args) ==
  LET q[i \in 0..Slots] == IF i = 0 THEN <<>> ELSE Queue(q[i - 1], i, args[i]) IN q

\* The queue after the first i slots.
Queued(args) ==
  LET q[i \in 0..Slots] == IF i = 0 THEN ev ELSE Queue(q[i - 1], i, args[i]) IN q

\* The plugin applies the events in order.
Applied(events) ==
  [p \in Params |->
     IF p \in Ids(events)
     THEN events[CHOOSE i \in DOMAIN events :
                   events[i].id = p /\ \A j \in DOMAIN events : events[j].id = p => j <= i].value
     ELSE plugin[p]]

\* The events are consumed, whatever status the plugin returns.
Process(args) ==
  /\ block
  /\ LET queued == Queued(args)
         bySlot == {args[i].id : i \in 1..Slots} \cap Params
     IN /\ plugin' = Applied(queued[Slots]) /\ handed' = Len(queued[Slots])
        /\ claimed' = [p \in Params |-> IF p \in bySlot THEN Unset ELSE claimed[p]]
        /\ broken' = broken \cup bySlot
        /\ refused' = (refused \/ \E i \in 1..Slots : SlotDropped(queued[i - 1], i, args[i]))
  /\ slot' = [i \in 1..Slots |-> NewSlot(args[i])]
  /\ ev' = <<>> /\ processed' = TRUE
  /\ UNCHANGED <<block, sent, once>>

Next ==
  \/ Reopen \/ Fill
  \/ \E p \in Params, v \in Values : SetParam(p, v)
  \/ \E args \in SlotArgs : Process(args)

Spec == Init /\ [][Next]_vars

---------------------------------------------------------------------------
\* Types, and the event array is never overrun, be it by the chain or by the
\* slots of a clap_process call.
TypeOK ==
  /\ block \in BOOLEAN /\ once \in BOOLEAN /\ processed \in BOOLEAN /\ refused \in BOOLEAN
  /\ ev \in Seq([id : Params, value : Values]) /\ Len(ev) <= EvMax
  /\ handed \in 0..EvMax
  /\ sent \in [Params -> Values \cup {Unset}]
  /\ slot \in [1..Slots -> [id : Params \cup {NoId}, value : Values \cup {Unset}]]
  /\ plugin \in [Params -> Values \cup {Unset}]
  /\ claimed \in [Params -> Values \cup {Unset}]
  /\ broken \subseteq Params

\* clap_host.h: "Filling a new input block abandons whatever chain was pending,
\* so a refused chain cannot leak into the next block."  What is queued was
\* asked for on the current block.
NothingLeaks ==
  \A p \in Ids(ev) : /\ claimed[p] # Unset
                     /\ \E i \in DOMAIN ev : ev[i] = Event(p, claimed[p])

\* The comment over EV_MAX: "a block that drives every parameter of the widest
\* plugin this host will cache still cannot overflow the queue".
OncePerBlockFits == once => ~refused

\* A parameter the chain asked for on this block reaches the plugin, unless an
\* earlier block abandoned its change or the slots drive it too.
DeliveredUnlessBroken ==
  processed => \A p \in Params \ broken : claimed[p] # Unset => plugin[p] = claimed[p]

\* clap_host.h on clap_set_param: "a value equal to the last one sent for that
\* id queues no event".  An accepted change was sent: after clap_process the
\* plugin has the value the driver asked for on this block.
AcceptedIsDelivered ==
  processed => \A p \in Params : claimed[p] # Unset => plugin[p] = claimed[p]

=============================================================================
