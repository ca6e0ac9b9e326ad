----------------------------- MODULE LiveEvents -----------------------------
(***************************************************************************)
(* The events of a live block on their way to the plugin: checked by       *)
(* ap_live_try_write (csrc/clap_live.c), turned into CLAP events by        *)
(* process_block, and by an adapter into control ports and an atom         *)
(* sequence (csrc/lv2_live.c) or into parameter queues and note events     *)
(* (csrc/vst3_live.cpp).  An adapter that fails stops the session, so what *)
(* an adapter cannot carry has to be refused by try_write, which knows the *)
(* plugin by two marks that the adapters set.                              *)
(*                                                                         *)
(* One block at a time: the queues are LiveRings'.  A value is whether the *)
(* parameter's range holds it, a MIDI message its status and size.         *)
(***************************************************************************)
EXTENDS Naturals, Sequences, FiniteSets

CONSTANTS
  Params,      \* ids that the plugin declares
  ReadOnly,    \* those that the plugin alone may change
  Frames,      \* block_size
  MaxEvents,   \* AP_LIVE_MAX_EVENTS
  AtomBytes    \* ATOM_BYTES less the atom's header

\* What is assumed of the constants; the runs assume it.
Assumptions ==
  /\ Frames \in Nat \ {0} /\ MaxEvents \in Nat
  /\ ReadOnly \subseteq Params
  /\ AtomBytes \in Nat /\ AtomBytes >= 24 * MaxEvents + 3   \* 65528 for 64 events

VARIABLES
  format,    \* "clap", "lv2" or "vst3"
  midi,      \* midi_input
  accepted,  \* the events of the block that was accepted last
  pos,       \* the next event that the adapter converts
  queues,    \* VST3: in_changes, a sequence of queues; LV2: control
  events,    \* VST3: in_events; LV2: the sequence in midi_in
  status     \* "idle", "convert", "ran" or "error"

vars == <<format, midi, accepted, pos, queues, events, status>>

Statuses == {"note_on", "note_on_0", "note_off", "controller", "clock", "sysex", "undefined"}
Event ==
  [type : {"param"}, frame : 0..Frames, id : Params \cup {"unknown"}, value : {"in", "out"}]
  \cup [type : {"midi"}, frame : 0..Frames, id : Statuses, value : {"in", "out"}]

Init ==
  /\ format \in {"clap", "lv2", "vst3"} /\ midi \in BOOLEAN
  /\ accepted = <<>> /\ pos = 1 /\ queues = <<>> /\ events = <<>> /\ status = "idle"

---------------------------------------------------------------------------
(* ap_live_try_write.                                                      *)

BlockParameters == format = "lv2"
NotesOnly == format = "vst3"

ParamOk(e) ==
  /\ BlockParameters => e.frame = 0
  /\ e.id \in Params \ ReadOnly /\ e.value = "in"

\* The value of a MIDI message is "out" if one of its data bytes is.
MidiOk(e) ==
  /\ midi /\ e.id \notin {"undefined", "sysex"}
  /\ e.value = "out" => e.id = "clock"
  /\ NotesOnly => e.id \in {"note_on", "note_on_0", "note_off"}

Accepted(e) == e.frame < Frames /\ IF e.type = "param" THEN ParamOk(e) ELSE MidiOk(e)

Ordered(es) == \A i \in 2..Len(es) : es[i - 1].frame <= es[i].frame

\* process_block hands the block over; the adapter starts from empty queues.
TryWrite ==
  /\ status \in {"idle", "ran"}
  /\ \E n \in 0..MaxEvents : \E es \in [1..n -> {e \in Event : Accepted(e)}] :
       Ordered(es) /\ accepted' = es
  /\ pos' = 1 /\ queues' = <<>> /\ events' = <<>> /\ status' = "convert"
  /\ UNCHANGED <<format, midi>>

---------------------------------------------------------------------------
(* process of the adapters.  A CLAP plugin reads the events themselves.    *)

Now == accepted[pos]
Done == pos > Len(accepted)
Fail == status' = "error" /\ UNCHANGED <<pos, queues, events>>
Advance == pos' = pos + 1 /\ UNCHANGED status

Converting(f) == status = "convert" /\ ~Done /\ format = f /\ UNCHANGED <<format, midi, accepted>>

ClapEvent ==
  /\ Converting("clap")
  /\ events' = Append(events, Now) /\ Advance /\ UNCHANGED queues

\* lv2_atom_sequence_append_event asks for room for the event, a header of 16
\* bytes and its message, and then takes 24, since it pads to 8.
EventBytes(e) == 16 + IF e.id = "clock" THEN 1 ELSE 3

Lv2Param ==
  /\ Converting("lv2") /\ Now.type = "param"
  /\ IF Now.frame # 0 THEN Fail
     ELSE queues' = Append(queues, Now) /\ Advance /\ UNCHANGED events

Lv2Midi ==
  /\ Converting("lv2") /\ Now.type = "midi"
  /\ IF 8 + 24 * Len(events) + EventBytes(Now) > AtomBytes THEN Fail
     ELSE events' = Append(events, Now) /\ Advance /\ UNCHANGED queues

\* Wrong version: a queue for each event.
Vst3ParamOwnQueue ==
  /\ Converting("vst3") /\ Now.type = "param"
  /\ IF Len(queues) = MaxEvents THEN Fail
     ELSE queues' = Append(queues, <<Now>>) /\ Advance /\ UNCHANGED events

\* addParameterData: a parameter's queue, which may be new; addPoint.
Vst3Param ==
  /\ Converting("vst3") /\ Now.type = "param"
  /\ LET own == {i \in DOMAIN queues : queues[i][1].id = Now.id}
     IN \/ \E i \in own : IF Len(queues[i]) = MaxEvents THEN Fail
                          ELSE queues' = [queues EXCEPT ![i] = Append(@, Now)] /\ Advance
                               /\ UNCHANGED events
        \/ own = {} /\ IF Len(queues) = MaxEvents THEN Fail
                       ELSE queues' = Append(queues, <<Now>>) /\ Advance /\ UNCHANGED events

\* Note-on of velocity 0 is a note-off.
Vst3Midi ==
  /\ Converting("vst3") /\ Now.type = "midi"
  /\ IF Now.id \notin {"note_on", "note_on_0", "note_off"} \/ Len(events) = MaxEvents THEN Fail
     ELSE /\ events' = Append(events, [Now EXCEPT !.id = IF @ = "note_on" THEN @ ELSE "note_off"])
          /\ Advance /\ UNCHANGED queues

Run ==
  /\ status = "convert" /\ Done
  /\ status' = "ran" /\ UNCHANGED <<format, midi, accepted, pos, queues, events>>

Next ==
  \/ TryWrite
  \/ ClapEvent \/ Lv2Param \/ Lv2Midi \/ Vst3Param \/ Vst3Midi \/ Run

Spec == Init /\ [][Next]_vars

---------------------------------------------------------------------------
Heard(e) ==
  IF format = "vst3" /\ e.type = "midi" /\ e.id = "note_on_0" THEN [e EXCEPT !.id = "note_off"]
  ELSE e

\* q is the events at the places of I, in their order, each as it is heard.
Carries(q, I) ==
  /\ Len(q) = Cardinality(I)
  /\ \A i \in I : q[Cardinality({j \in I : j <= i})] = Heard(accepted[i])

Of(type) == {i \in DOMAIN accepted : accepted[i].type = type}
Changes(p) == {i \in Of("param") : accepted[i].id = p}

\* A list that try_write accepts never fails in an adapter, and the plugin
\* gets each of its events once, the MIDI messages in their order and every
\* parameter's changes in theirs: through one queue per parameter in a VST3
\* plugin, whatever the events are mixed with.
AcceptedArrives ==
  /\ status # "error"
  /\ status = "ran" =>
       CASE format = "clap" -> events = accepted
         [] format = "lv2" -> Carries(queues, Of("param")) /\ Carries(events, Of("midi"))
         [] format = "vst3" ->
              /\ Carries(events, Of("midi"))
              /\ \A i \in Of("param") : \E m \in DOMAIN queues : queues[m][1].id = accepted[i].id
              /\ \A m \in DOMAIN queues :
                   /\ Carries(queues[m], Changes(queues[m][1].id))
                   /\ \A l \in DOMAIN queues : queues[l][1].id = queues[m][1].id => l = m

=============================================================================
