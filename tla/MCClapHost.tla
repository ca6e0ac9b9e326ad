----------------------------- MODULE MCClapHost -----------------------------
(***************************************************************************)
(* The sides of the offline CLAP host for TLC: its instances, tokens and   *)
(* modules (ClapHost), the parameters of one instance (ClapParams) and the *)
(* latency compensation of the default one (LatencyComp).  They share no   *)
(* state, so a behaviour shows one of them.                                *)
(***************************************************************************)
EXTENDS ClapHost, TLC

CONSTANTS
  Params, Values, Slots,
  Channels, Block, Latencies, MaxBlocks

VARIABLES
  side,   \* "instances", "params" or "latency"
  block, ev, sent, slot, plugin, claimed, once, broken, processed, handed, refused,
  host, comp, left, served, slips

Parameters == INSTANCE ClapParams
Comp == INSTANCE LatencyComp

ASSUME ParameterAssumption == Parameters!Assumptions
ASSUME LatencyAssumption == Comp!Assumptions

paramVars == <<block, ev, sent, slot, plugin, claimed, once, broken, processed, handed, refused>>
compVars == <<host, comp, left, served, slips>>

\* The plugin's latency is 0 where it is not looked at.
SideInit ==
  /\ side \in {"instances", "params", "latency"} /\ Init /\ Parameters!Init /\ Comp!Init
  /\ side # "latency" => comp.latency = 0

SideNext ==
  \/ side = "instances" /\ Next /\ UNCHANGED <<side, paramVars, compVars>>
  \/ side = "params" /\ Parameters!Next /\ UNCHANGED <<side, vars, compVars>>
  \/ side = "latency" /\ Comp!Next /\ UNCHANGED <<side, vars, paramVars>>

SideSpec == SideInit /\ [][SideNext]_<<side, paramVars, compVars, vars>>

Symmetry ==
  Permutations(Bundles) \cup Permutations(Configs) \cup Permutations(Params) \cup Permutations(Values)

---------------------------------------------------------------------------
\* Both sides keep to their types; the event queue of a block is never overrun,
\* by the chain or by the slots of a clap_process call.
Types == TypeOK /\ Parameters!TypeOK

\* "A refused chain cannot leak into the next block."
NothingLeaks == Parameters!NothingLeaks

\* A block that drives every parameter once cannot overflow the queue.
OncePerBlockFits == Parameters!OncePerBlockFits

\* An accepted change reaches the plugin with the block, unless an earlier one
\* was abandoned.
DeliveredUnlessBroken == Parameters!DeliveredUnlessBroken

\* The compensated stream is the input from its first sample, without a gap.
Aligned == Comp!Aligned

\* It lags by the latency rounded up to whole blocks.
LagIsCeiling == Comp!LagIsCeiling

\* clap_flush! completes it.
TailCompletes == Comp!TailCompletes

=============================================================================
