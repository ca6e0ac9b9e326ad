---------------------------- MODULE MCLiveDevice ----------------------------
(***************************************************************************)
(* The two sides of the hardware driver for TLC: how it wakes and stops    *)
(* its worker (DeviceWake) and its data path (DeviceTransport).  They      *)
(* share no state, so a behaviour shows one of them, with the other at     *)
(* rest; DeviceWake's fairness asks nothing of a driver at rest.           *)
(***************************************************************************)
EXTENDS DeviceWake, Integers

CONSTANTS Block, NativeFrames, Rate, DeviceRate, Configured, MaxTicks

VARIABLES
  side,   \* "wake" or "transport"
  cb, left, offset, clock, taken, playing, capture, playback, busy, work, behind, calm

Transport == INSTANCE DeviceTransport WITH worker <- busy, QueueBlocks <- Configured

ASSUME TransportAssumption == Transport!Assumptions

transportVars ==
  <<cb, left, offset, clock, taken, playing, capture, playback, busy, work, behind, calm>>

SideInit == side \in {"wake", "transport"} /\ Init /\ Transport!Init

SideNext ==
  \/ side = "wake" /\ Next /\ UNCHANGED <<side, transportVars>>
  \/ side = "transport" /\ Transport!Next /\ UNCHANGED <<side, vars>>

SideSpec == SideInit /\ [][SideNext]_<<side, transportVars, vars>>

FairSideSpec == SideSpec /\ Fairness

---------------------------------------------------------------------------
\* Output is played a fixed delay after its capture, or not at all.
FixedDelay == Transport!FixedDelay

\* A silent block is due to a stall of the worker.
BurstNeedsNoWorker == Transport!BurstNeedsNoWorker

\* Output that is there in time is played.
InTimeIsPlayed == Transport!InTimeIsPlayed

\* A full queue is due to a stall of the worker.
DropNeedsStall == Transport!DropNeedsStall

=============================================================================
