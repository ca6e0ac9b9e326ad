---------------------------- MODULE MCLiveEngine ----------------------------
(***************************************************************************)
(* The queues of a live session for TLC: under the steps of LiveRings with *)
(* all its bounds, and, with tighter ones, under those of a whole session  *)
(* (LiveEngine).                                                           *)
(***************************************************************************)
EXTENDS LiveEngine

CONSTANT SessionTicks   \* bound on s->tick under a whole session

VARIABLE under   \* "rings" or "session"

\* A session that is no part of the behaviour.
NoSession ==
  /\ s = [Session!Fresh("timer") EXCEPT !.activated = TRUE]
  /\ plugin = "none" /\ ctl = [at |-> "idle", by |-> "none", code |-> "OK"]
  /\ worker = "none" /\ dev = [t \in DeviceThreads |-> "idle"] /\ aux = "idle"
  /\ inside = "none"

MCInit ==
  \/ under = "rings" /\ Init /\ NoSession
  \/ under = "session" /\ EngineInit /\ sent = CHOOSE b \in Payloads : TRUE

\* Under a session all blocks are alike.
MCNext ==
  \/ under = "rings" /\ Next /\ UNCHANGED <<sessionVars, inside, under>>
  \/ under = "session" /\ EngineNext /\ tick' <= SessionTicks /\ UNCHANGED <<sent, under>>

MCSpec == MCInit /\ [][MCNext]_<<engineVars, under>>

=============================================================================
