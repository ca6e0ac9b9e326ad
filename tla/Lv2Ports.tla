------------------------------ MODULE Lv2Ports ------------------------------
(***************************************************************************)
(* What lv2_host_open of csrc/lv2_host.c connects each port of a plugin    *)
(* to.  A port's class, whether it is optional, and the size an atom port  *)
(* declares are what lilv says of it.                                      *)
(*                                                                         *)
(* The specification chooses a plugin and a channel count and opens it:    *)
(* the ports are classified in turn, as in the first loop, and connected   *)
(* in turn, as in the second.                                              *)
(***************************************************************************)
EXTENDS Naturals, Sequences, FiniteSets, FiniteSetsExt

CONSTANTS
  MaxPorts,      \* bound on the ports of the plugins tried
  MaxAtomPorts,  \* LV2_HOST_MAX_ATOM_PORTS
  Channels,      \* channel counts asked for
  AtomBuf,       \* LV2_HOST_ATOM_BUF
  ArenaMax,      \* LV2_HOST_ATOM_ARENA_MAX
  Sizes          \* rsz:minimumSize of atom ports

\* "other": CV, event, or an atom port whose only buffer type is not a Sequence.
Classes == {"audio_in", "audio_out", "side_in", "side_out", "ctrl_in", "ctrl_out",
            "atom_in", "atom_out", "other"}
Atoms == {"atom_in", "atom_out"}

Ports == {q \in [class : Classes, optional : BOOLEAN, size : Sizes] :
            /\ q.class \in Atoms \/ q.size = Min(Sizes)
            /\ q.class = "other" \/ ~q.optional}

\* What is assumed of the constants; the runs assume it.  lv2_host_open refuses
\* fewer channels than one.
Assumptions == /\ Sizes \subseteq Nat /\ Sizes # {} /\ AtomBuf \in Nat /\ ArenaMax \in Nat
               /\ Channels \subseteq Nat \ {0}

VARIABLES
  ports,   \* the plugin's ports
  ch,      \* the host's channels
  k,       \* ports looked at so far
  n,       \* n_audio_in, n_audio_out while classifying; ai, ao while connecting
  arena,   \* atom_off and atom_cap of each slot
  stage,   \* "classify", "connect", "open" or "failed"
  buffer   \* what each port is connected to

vars == <<ports, ch, k, n, arena, stage, buffer>>

Is(class) == ports[k + 1].class = class

Init ==
  /\ ports \in UNION {[1..m -> Ports] : m \in 0..MaxPorts} /\ ch \in Channels
  /\ k = 0 /\ n = [ins |-> 0, outs |-> 0] /\ arena = <<>>
  /\ stage = "classify" /\ buffer = <<>>

ArenaBytes == IF arena = <<>> THEN 0 ELSE arena[Len(arena)].off + arena[Len(arena)].cap
AtomCap(size) == (((IF size > AtomBuf THEN size ELSE AtomBuf) + 7) \div 8) * 8

Fail == stage' = "failed" /\ UNCHANGED <<n, arena>>

\* Audio and control ports, and ports that need not be connected.
ClassifyPlain ==
  /\ ~Is("atom_in") /\ ~Is("atom_out") /\ (Is("other") => ports[k + 1].optional)
  /\ n' = [ins |-> n.ins + (IF Is("audio_in") THEN 1 ELSE 0),
           outs |-> n.outs + (IF Is("audio_out") THEN 1 ELSE 0)]
  /\ UNCHANGED <<arena, stage>>

ClassifyRequired == Is("other") /\ ~ports[k + 1].optional /\ Fail

\* Wrong version: every slot starts at the beginning of the arena.
ClassifyAtomAtZero ==
  LET cap == AtomCap(ports[k + 1].size)
  IN /\ Is("atom_in") \/ Is("atom_out")
     /\ IF Len(arena) >= MaxAtomPorts \/ ArenaBytes + cap > ArenaMax THEN Fail
        ELSE arena' = Append(arena, [off |-> 0, cap |-> cap, port |-> k + 1])
             /\ UNCHANGED <<n, stage>>

\* The next slot of the arena.
ClassifyAtom ==
  LET cap == AtomCap(ports[k + 1].size)
  IN /\ Is("atom_in") \/ Is("atom_out")
     /\ IF Len(arena) >= MaxAtomPorts \/ ArenaBytes + cap > ArenaMax THEN Fail
        ELSE arena' = Append(arena, [off |-> ArenaBytes, cap |-> cap, port |-> k + 1])
             /\ UNCHANGED <<n, stage>>

Classify ==
  /\ stage = "classify" /\ k < Len(ports)
  /\ k' = k + 1
  /\ ClassifyPlain \/ ClassifyRequired \/ ClassifyAtom
  /\ UNCHANGED <<ports, ch, buffer>>

\* More channels than main inputs would drop a channel.
Checked ==
  /\ stage = "classify" /\ k = Len(ports)
  /\ stage' = IF n.ins > 0 /\ n.ins < ch THEN "failed" ELSE "connect"
  /\ n' = [ins |-> 0, outs |-> 0] /\ k' = 0 /\ UNCHANGED <<ports, ch, arena, buffer>>

Slot(port) == CHOOSE s \in DOMAIN arena : arena[s].port = port

\* Where port k + 1 reads or writes.
Target ==
  CASE Is("audio_in")  -> [to |-> "in", at |-> IF n.ins < ch THEN n.ins ELSE ch - 1]
    [] Is("audio_out") -> IF n.outs < ch THEN [to |-> "out", at |-> n.outs]
                          ELSE [to |-> "sink", at |-> 0]
    [] Is("side_in")   -> [to |-> "side_in", at |-> 0]
    [] Is("side_out")  -> [to |-> "sink", at |-> 0]
    [] Is("ctrl_in") \/ Is("ctrl_out") -> [to |-> "ctrl", at |-> k]
    [] Is("atom_in") \/ Is("atom_out") -> [to |-> "arena", at |-> Slot(k + 1)]
    [] Is("other")     -> [to |-> "null", at |-> 0]

Connect ==
  /\ stage = "connect" /\ k < Len(ports)
  /\ buffer' = Append(buffer, Target)
  /\ n' = [ins |-> n.ins + (IF Is("audio_in") THEN 1 ELSE 0),
           outs |-> n.outs + (IF Is("audio_out") THEN 1 ELSE 0)]
  /\ k' = k + 1 /\ UNCHANGED <<ports, ch, arena, stage>>

Connected ==
  /\ stage = "connect" /\ k = Len(ports)
  /\ stage' = "open" /\ UNCHANGED <<ports, ch, k, n, arena, buffer>>

Next == Classify \/ Checked \/ Connect \/ Connected

Spec == Init /\ [][Next]_vars

---------------------------------------------------------------------------
PortsTo(class) == {i \in DOMAIN ports : ports[i].class = class}

\* The channels lv2_process fills: those main outputs write, and, if there are
\* any, the rest by repeating the last.
Written == LET direct == {buffer[i].at : i \in {j \in DOMAIN buffer : buffer[j].to = "out"}}
           IN IF PortsTo("audio_out") = {} THEN {} ELSE direct \cup n.outs..ch - 1

\* lv2_host.h: "The rule, for inputs and outputs alike, is never to drop a
\* channel."  In an open plugin every required port has a buffer, every channel
\* feeds a main input unless there is none, and is written by an output unless
\* there is none; only the sink is written by two ports; and the buffers of
\* atom ports neither overlap nor leave the arena.
PortsServed ==
  stage = "open" =>
    /\ Len(buffer) = Len(ports)
    /\ \A i \in DOMAIN ports : buffer[i].to = "null" => ports[i].optional
    /\ PortsTo("audio_in") # {} => {buffer[i].at : i \in PortsTo("audio_in")} = 0..ch - 1
    /\ PortsTo("audio_out") # {} => Written = 0..ch - 1
    /\ \A i, j \in DOMAIN ports : i # j /\ buffer[i] = buffer[j]
         => buffer[i].to \in {"in", "side_in", "sink", "null"}
    /\ \A s, t \in DOMAIN arena : s < t => arena[s].off + arena[s].cap <= arena[t].off
    /\ \A s \in DOMAIN arena : /\ arena[s].cap >= ports[arena[s].port].size
                               /\ arena[s].off % 8 = 0 /\ arena[s].off + arena[s].cap <= ArenaMax

=============================================================================
