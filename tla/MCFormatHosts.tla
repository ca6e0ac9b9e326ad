--------------------------- MODULE MCFormatHosts ----------------------------
(***************************************************************************)
(* The offline hosts of the other two formats for TLC: the blocks of the   *)
(* LV2 host (Lv2Host), the ports it connects as it opens (Lv2Ports), and   *)
(* the VST3 host (Vst3Host).  They share no state, so a behaviour shows    *)
(* one of them.                                                            *)
(***************************************************************************)
EXTENDS Vst3Host

CONSTANTS
  Block, MinSize, AtomBuf, Controls, Lv2Values, Default, MaxBlocks,
  MaxPorts, MaxAtomPorts, Channels, ArenaMax, Sizes

VARIABLES
  host,   \* "lv2", "lv2 ports" or "vst3"
  h, events, ctrl, log,
  ports, ch, k, n, arena, stage, buffer

blockVars == <<h, events, ctrl, log>>
portVars == <<ports, ch, k, n, arena, stage, buffer>>

Lv2 == INSTANCE Lv2Host WITH Values <- Lv2Values
Lv2Open == INSTANCE Lv2Ports

ASSUME BlockAssumption == Lv2!Assumptions
ASSUME PortAssumption == Lv2Open!Assumptions

NoPorts == ports = <<>> /\ ch = 1 /\ k = 0 /\ n = 0 /\ arena = <<>> /\ stage = "none" /\ buffer = <<>>

HostInit ==
  /\ Lv2!Init /\ Init
  /\ \/ host \in {"lv2", "vst3"} /\ NoPorts
     \/ host = "lv2 ports" /\ Lv2Open!Init

HostNext ==
  \/ host = "lv2" /\ Lv2!Next /\ UNCHANGED <<host, portVars, vars>>
  \/ host = "lv2 ports" /\ Lv2Open!Next /\ UNCHANGED <<host, blockVars, vars>>
  \/ host = "vst3" /\ Next /\ UNCHANGED <<host, blockVars, portVars>>

HostSpec == HostInit /\ [][HostNext]_<<host, blockVars, portVars, vars>>

---------------------------------------------------------------------------
\* LV2: a block runs at most once, with the events accepted for it and no
\* others, and not at all if one was refused; and it reads for each control port
\* what was asked last.
RunsAsAsked == Lv2!RunsWithItsEvents /\ Lv2!ControlsHold

\* LV2: the atom buffer is never overrun and its header tells its size.
AtomBufferHolds == Lv2!AtomBufferHolds

\* LV2: an open plugin has every required port connected, and no channel dropped.
PortsServed == Lv2Open!PortsServed

=============================================================================
