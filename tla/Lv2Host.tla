------------------------------ MODULE Lv2Host ------------------------------
(***************************************************************************)
(* Blocks, MIDI events and control ports of the offline LV2 host,          *)
(* csrc/lv2_host.c.                                                        *)
(*                                                                         *)
(* Unlike the CLAP host, a fill arms the block for exactly one run.  MIDI  *)
(* events are appended to the atom:Sequence of an input port between the   *)
(* fill and the run; one that is refused poisons the block.  Control ports *)
(* are floats that the plugin reads at the run.                            *)
(*                                                                         *)
(* One atom input port stands for all; ports are in Lv2Ports.  The audio   *)
(* of a block is left out.  A call with a stale token changes nothing.     *)
(***************************************************************************)
EXTENDS Integers, Sequences, FiniteSets

CONSTANTS
  Block,      \* frames of a block
  MinSize,    \* rsz:minimumSize that the atom port declares, in bytes
  AtomBuf,    \* LV2_HOST_ATOM_BUF
  Controls,   \* control input ports
  Values,     \* values a driver sends to them
  Default,    \* their declared default
  MaxBlocks   \* bound on the blocks filled since the plugin was opened

\* What is assumed of the constants; the runs assume it.
Assumptions ==
  /\ MinSize \in Nat /\ AtomBuf \in Nat /\ AtomBuf >= 16
  /\ Block \in Nat \ {0} /\ MaxBlocks \in Nat

VARIABLES
  h,       \* state_t: open, in_token, in_armed, midi_bad, the sequence's
           \* atom.size, atom_last, out_token
  events,  \* the events in the atom buffer
  ctrl,    \* S.ctrl of the control inputs
  log      \* history: what was asked of each block, and each block's runs

vars == <<h, events, ctrl, log>>

---------------------------------------------------------------------------
(* The atom buffer.                                                        *)

Pad(n) == ((n + 7) \div 8) * 8
AtomHeader == 8     \* sizeof(LV2_Atom)
SeqBody == 8        \* sizeof(LV2_Atom_Sequence_Body)
EventHeader == 16   \* sizeof(LV2_Atom_Event)

\* Wrong version: the buffer is as large as declared.
AtomCapDeclared == IF MinSize > AtomBuf THEN MinSize ELSE AtomBuf

AtomCap == Pad(IF MinSize > AtomBuf THEN MinSize ELSE AtomBuf)

\* midi_msg_len: bytes of a complete message; -1 is variable, 0 is undefined.
MsgLen(st) ==
  CASE st < 192 \/ st \in 224..239 \/ st = 242 -> 3
    [] st \in 192..223 \cup {241, 243}         -> 2
    [] st >= 248 \/ st = 246                   -> 1
    [] st \in {240, 247}                       -> -1
    [] OTHER                                   -> 0

\* A message is its status byte and how many bytes the caller gave.
Messages == {[status |-> 144, bytes |-> 3], [status |-> 200, bytes |-> 2],
             [status |-> 248, bytes |-> 1], [status |-> 144, bytes |-> 2]}

---------------------------------------------------------------------------
Closed == [open |-> FALSE, inTok |-> 0, armed |-> FALSE, bad |-> FALSE,
           size |-> SeqBody, last |-> -1, outTok |-> 0]

Unasked == "unasked"
NoRuns == [b \in 1..MaxBlocks |->
             [accepted |-> <<>>, refused |-> FALSE, runs |-> 0, seen |-> <<>>,
              asked |-> [p \in Controls |-> Unasked], read |-> [p \in Controls |-> Default]]]

Cleared ==
  /\ events' = <<>>
  /\ ctrl' = [p \in Controls |-> Default]
  /\ log' = NoRuns

Init ==
  /\ h = Closed /\ events = <<>> /\ ctrl = [p \in Controls |-> Default] /\ log = NoRuns

\* lv2_host_close, lv2_host_scan and a failed lv2_host_open.
Close == h' = Closed /\ Cleared

\* Opening closes first; every failure on the way closes again.
Open == h' = [Closed EXCEPT !.open = TRUE] /\ Cleared

\* lv2_in_fill, lv2_in_tone.
Fill ==
  /\ h.open /\ h.inTok < MaxBlocks
  /\ h' = [h EXCEPT !.inTok = @ + 1, !.armed = TRUE, !.bad = FALSE,
                    !.size = SeqBody, !.last = -1]
  /\ events' = <<>>
  /\ UNCHANGED <<ctrl, log>>

\* A complete message at a frame of the block, in order, with room for it.  The
\* room is for the event as it is; the sequence then grows by its padded size.
Fits(frame, msg) ==
  /\ frame \in 0..Block - 1 /\ frame >= h.last
  /\ MsgLen(msg.status) = msg.bytes
  /\ AtomCap - AtomHeader - h.size >= EventHeader + msg.bytes

MidiAccepted(frame, msg) ==
  /\ h.armed /\ Fits(frame, msg)
  /\ events' = Append(events, [frame |-> frame, bytes |-> msg.bytes])
  /\ h' = [h EXCEPT !.size = @ + Pad(EventHeader + msg.bytes), !.last = frame]
  /\ log' = [log EXCEPT ![h.inTok].accepted = Append(@, [frame |-> frame, bytes |-> msg.bytes])]
  /\ UNCHANGED ctrl

\* midi_refused: once the token is right, every refusal poisons the block.
MidiRefused(frame, msg) ==
  /\ h.armed /\ ~Fits(frame, msg)
  /\ h' = [h EXCEPT !.bad = TRUE]
  /\ log' = [log EXCEPT ![h.inTok].refused = TRUE]
  /\ UNCHANGED <<events, ctrl>>

\* Wrong version: the block stays armed.
ProcessKeepsArmed(asked) ==
  LET read == [p \in Controls |-> IF asked[p] = Unasked THEN ctrl[p] ELSE asked[p]]
  IN /\ h.armed /\ ~h.bad
     /\ ctrl' = read
     /\ h' = [h EXCEPT !.outTok = @ + 1]
     /\ log' = [log EXCEPT ![h.inTok].runs = @ + 1, ![h.inTok].seen = events,
                           ![h.inTok].asked = asked, ![h.inTok].read = read]
     /\ UNCHANGED events

\* lv2_process.  A poisoned block is refused and stays armed; otherwise the
\* plugin runs, which cannot fail.  asked is what the slots come to: the last
\* slot of a port wins, an unused slot and a NaN leave the port as it was.
Process(asked) ==
  LET read == [p \in Controls |-> IF asked[p] = Unasked THEN ctrl[p] ELSE asked[p]]
  IN /\ h.armed /\ ~h.bad
     /\ ctrl' = read
     /\ h' = [h EXCEPT !.armed = FALSE, !.outTok = @ + 1]
     /\ log' = [log EXCEPT ![h.inTok].runs = @ + 1, ![h.inTok].seen = events,
                           ![h.inTok].asked = asked, ![h.inTok].read = read]
     /\ UNCHANGED events

Next ==
  \/ Open \/ Close \/ Fill
  \/ \E frame \in 0..Block, msg \in Messages : MidiAccepted(frame, msg) \/ MidiRefused(frame, msg)
  \/ \E asked \in [Controls -> Values \cup {Unasked}] : Process(asked)

Spec == Init /\ [][Next]_vars

---------------------------------------------------------------------------
\* lv2_host.h: a fill arms the block "for exactly one lv2_process", so that
\* "queued events can never replay", and "a refused event also poisons the
\* block: the next lv2_process refuses rather than run without it".  Each block
\* runs at most once, with all the events accepted for it, in frame order, and
\* no others; one that had an event refused does not run at all.
RunsWithItsEvents ==
  \A b \in 1..MaxBlocks :
    LET r == log[b]
    IN /\ r.runs <= 1
       /\ r.runs = 1 =>
            /\ ~r.refused /\ r.seen = r.accepted
            /\ \A i, j \in DOMAIN r.seen : i < j => r.seen[i].frame <= r.seen[j].frame

\* "A NaN value leaves the port as it was": a run reads for each control port
\* the value asked with it, or else the one of the run before.
ControlsHold ==
  \A b \in 1..MaxBlocks, p \in Controls : log[b].runs > 0 =>
    LET earlier == {a \in 1..b : log[a].runs > 0 /\ log[a].asked[p] # Unasked}
    IN log[b].read[p] = IF earlier = {} THEN Default
                        ELSE log[CHOOSE a \in earlier : \A e \in earlier : e <= a].asked[p]

\* The atom buffer holds its events: the room left never runs below zero, where
\* the code's unsigned subtraction would find room for ever, and the size
\* written in the header is that of the events (lv2_in_midi, lv2_host_open).
AtomBufferHolds ==
  LET bytes[i \in 0..Len(events)] ==
        IF i = 0 THEN SeqBody ELSE bytes[i - 1] + Pad(EventHeader + events[i].bytes)
  IN h.open => h.size = bytes[Len(events)] /\ AtomHeader + h.size <= AtomCap

=============================================================================
