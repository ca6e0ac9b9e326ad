----------------------------- MODULE MCPlugins ------------------------------
(***************************************************************************)
(* The adapters around plugins for TLC: the URID map (UridMap) and the     *)
(* events (LiveEvents) of the live adapters, the exported plugins          *)
(* (PluginTemplate) and the Airwindows module (Airwindows).  They share no *)
(* state, so a behaviour shows one of them.                                *)
(***************************************************************************)
EXTENDS UridMap, Integers

CONSTANTS
  LiveParams, ReadOnly, MaxEvents, AtomBytes,
  Params, Stepped, Block, MaxChanges, Played,
  NParams, Default, Rates, Users,
  Frames, Asked,
  Top,
  Low, High, Preset, \* of the templates' parameters
  Sent,              \* what their host sends
  Toggles            \* those with two whole values, in a run

VARIABLES
  part,   \* "map", "events", "template" or "airwindows"
  kind, midi, accepted, pos, queues, events, status,
  format, values, view, mem, block, frame, cursor, since, out, heard,
  refs, table, builds, desc, held, fx, rate, active, cap

eventVars == <<kind, midi, accepted, pos, queues, events, status>>
templateVars == <<format, values, view, mem, block, frame, cursor, since, out, heard>>
effectVars == <<refs, table, builds, desc, held, fx, rate, active, cap>>

Live == INSTANCE LiveEvents WITH format <- kind, Params <- LiveParams
Template == INSTANCE PluginTemplate WITH Default <- Preset, Asked <- Sent
Effect == INSTANCE Airwindows WITH values <- held

ASSUME EventAssumption == Live!Assumptions
ASSUME TemplateAssumption == Template!Assumptions
ASSUME EffectAssumption == Effect!Assumptions

\* Ranges and values for the runs, in halves: from -1 to 0 and to 2, and from -1/2 to 3/2.
WholeLow == [p \in Params |-> -2]
WholeHigh == [p \in Params |-> IF p \in Toggles THEN 0 ELSE 4]
WholePreset == [p \in Params |-> IF p \in Toggles THEN -2 ELSE 2]
WholeSent == {-1, 3}
FractionLow == [p \in Params |-> -1]
FractionHigh == [p \in Params |-> 3]
FractionPreset == [p \in Params |-> 2]
FractionSent == {0, 3}

PartInit ==
  /\ part \in {"map", "events", "template", "airwindows"}
  /\ Init /\ Live!Init /\ Template!Init /\ Effect!Init
  /\ part # "events" => kind = "clap" /\ ~midi
  /\ part # "template" => format = "clap"

PartNext ==
  \/ part = "map" /\ Next /\ UNCHANGED <<part, eventVars, templateVars, effectVars>>
  \/ part = "events" /\ Live!Next /\ UNCHANGED <<part, vars, templateVars, effectVars>>
  \/ part = "template" /\ Template!Next /\ UNCHANGED <<part, vars, eventVars, effectVars>>
  \/ part = "airwindows" /\ Effect!Next /\ UNCHANGED <<part, vars, eventVars, templateVars>>

PartSpec == PartInit /\ [][PartNext]_<<part, vars, eventVars, templateVars, effectVars>>

---------------------------------------------------------------------------
\* Live adapters: an event list that try_write accepts never fails in an
\* adapter, and reaches the plugin.
AcceptedArrives == Live!AcceptedArrives

\* Exported plugins: however the stream is cut into blocks, each frame is
\* computed with the last value sent for it or before it.
SampleAccurate == Template!SampleAccurate

\* Exported VST3 plugins: controller and processor agree between calls on parameters
\* that are declared with whole numbers or not rounded.
ViewsAgree == Template!ViewsAgree

\* Exported VST3 plugins: after a block, the controller has been told the value that
\* each of its parameters took, as the template says of all.
ToldWhatTookEffect == Template!ToldWhatTookEffect

\* Airwindows: the effect in use holds what the host was told.
EffectMirrorsValues == Effect!EffectMirrorsValues

\* Airwindows: the descriptor of an instance is in the table that is there.
DescriptorLives == Effect!DescriptorLives

=============================================================================
