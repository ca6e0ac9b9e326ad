------------------------- MODULE FormatHosts_proofs --------------------------
(***************************************************************************)
(* Proofs about the offline hosts of the other two formats, for any        *)
(* values of their constants.  VST3: a plugin is left in order, its        *)
(* latency is current, and a parameter that one slot drives has the value  *)
(* asked for.  LV2: a block runs at most once and as it was asked to, the  *)
(* atom buffer holds its events, and the ports of an open plugin are       *)
(* served.                                                                 *)
(***************************************************************************)
EXTENDS MCFormatHosts, FiniteSetTheorems, SequenceTheorems, WellFoundedInduction, TLAPS

---------------------------------------------------------------------------
(* The VST3 host.                                                          *)

\* The fields of the two records.
Shape ==
  /\ plugin = [stage |-> plugin.stage, latency |-> plugin.latency, value |-> plugin.value]
  /\ s = [open |-> s.open, processing |-> s.processing, latency |-> s.latency]

\* Where the plugin and the host's flags are before each call of an open.
Staged ==
  \/ at = "idle" /\ ~s.open /\ ~s.processing /\ plugin.stage = "none"
  \/ at = "idle" /\ s.open /\ s.processing /\ plugin.stage = "processing"
  \/ at = "setup" /\ ~s.open /\ ~s.processing /\ plugin.stage = "created"
  \/ at = "active" /\ ~s.open /\ ~s.processing /\ plugin.stage = "setup"
  \/ at \in {"prepare", "process"} /\ s.open /\ ~s.processing /\ plugin.stage = "active"

\* From the moment it is read, the latency is current.
Current == at \in {"idle", "process"} /\ s.open => s.latency = plugin.latency

IInv == Shape /\ s.open \in BOOLEAN /\ s.processing \in BOOLEAN /\ Staged /\ Current

---------------------------------------------------------------------------
LEMMA InitInv == Init => IInv
  BY DEF Init, IInv, Shape, Staged, Current, Shut, Gone

\* However far an open got, closing finds the plugin in a state it can leave.
LEMMA CloseInv ==
  ASSUME IInv, CloseAll, at # "process"
  PROVE  IInv'
<1>1. Released(plugin.stage) = "none"
  BY DEF IInv, Staged, Released, Deactivated, Stopped
<1>2. s' = Shut /\ at' = "idle" /\ plugin' = [Gone EXCEPT !.stage = "none"]
  BY <1>1 DEF CloseAll
<1> QED
  BY <1>2 DEF IInv, Shape, Staged, Current, Shut, Gone

LEMMA OpenInv ==
  ASSUME IInv, OpenStart \/ OpenSetup \/ OpenActive \/ OpenPrepare \/ OpenProcessing
  PROVE  IInv'
<1>1. CASE OpenStart
  <2>1. Released(plugin.stage) = "none"
    BY <1>1 DEF OpenStart, IInv, Staged, Released, Deactivated, Stopped
  <2>2. s' = Shut /\ at' = "setup" /\ plugin' = [Gone EXCEPT !.stage = "created"]
    BY <1>1, <2>1 DEF OpenStart
  <2> QED
    BY <2>2 DEF IInv, Shape, Staged, Current, Shut, Gone
<1>2. CASE OpenSetup
  BY <1>2 DEF OpenSetup, IInv, Shape, Staged, Current
<1>3. CASE OpenActive
  BY <1>3 DEF OpenActive, IInv, Shape, Staged, Current
<1>4. CASE OpenPrepare
  BY <1>4 DEF OpenPrepare, IInv, Shape, Staged, Current
<1>5. CASE OpenProcessing
  BY <1>5 DEF OpenProcessing, IInv, Shape, Staged, Current
<1> QED
  BY <1>1, <1>2, <1>3, <1>4, <1>5

\* An announcement is taken over by an open host, whatever call it comes from.
LEMMA RestartInv == IInv /\ Restart => IInv'
<1> SUFFICES ASSUME IInv, Restart PROVE IInv'
  OBVIOUS
<1>1. PICK l \in Latencies :
        /\ plugin' = [plugin EXCEPT !.latency = l]
        /\ s' = IF s.open THEN [s EXCEPT !.latency = l] ELSE s
  BY DEF Restart
<1>2. at' = at
  BY DEF Restart
<1> QED
  BY <1>1, <1>2 DEF IInv, Shape, Staged, Current

LEMMA ProcessInv ==
  ASSUME IInv, NEW args \in [1..Slots -> Args], Process(args)
  PROVE  IInv'
  BY DEF Process, IInv, Shape, Staged, Current

THEOREM Invariance == Spec => []IInv
<1>1. IInv /\ [Next]_vars => IInv'
  <2> SUFFICES ASSUME IInv, [Next]_vars PROVE IInv'
    OBVIOUS
  <2>1. CASE Close
    BY <2>1, CloseInv DEF Close
  <2>2. CASE OpenFails
    BY <2>2, CloseInv DEF OpenFails
  <2>3. CASE OpenStart \/ OpenSetup \/ OpenActive \/ OpenPrepare \/ OpenProcessing
    BY <2>3, OpenInv
  <2>4. CASE Restart
    BY <2>4, RestartInv
  <2>5. CASE \E args \in [1..Slots -> Args] : Process(args)
    BY <2>5, ProcessInv
  <2>6. CASE UNCHANGED vars
    BY <2>6 DEF vars, IInv, Shape, Staged, Current
  <2> QED
    BY <2>1, <2>2, <2>3, <2>4, <2>5, <2>6 DEF Next
<1> QED
  BY <1>1, InitInv, PTL DEF Spec

\* However an open fails, no plugin is released while active or processing.
THEOREM LeavesInOrder == Spec => []LeftInOrder
<1>1. IInv => LeftInOrder
  BY DEF IInv, Staged, LeftInOrder
<1> QED
  BY <1>1, Invariance, PTL

\* No announcement of a latency is missed (on_restart, vst3_host_open).
THEOREM KnowsLatency == Spec => []LatencyIsCurrent
<1>1. IInv => LatencyIsCurrent
  BY DEF IInv, Current, LatencyIsCurrent
<1> QED
  BY <1>1, Invariance, PTL

---------------------------------------------------------------------------
\* The slots' types, and that every slot's parameter has the slot among its drivers.
Driven ==
  /\ slot \in [1..Slots -> Args] /\ drivers \in [Params -> SUBSET (1..Slots)]
  /\ at = "idle" /\ s.open => \A i \in 1..Slots, p \in Params : slot[i].id = p => i \in drivers[p]

\* What a slot remembers as sent is what the processor has, if it is the only one.
Remembered ==
  at = "idle" /\ s.open /\ ~failed =>
    \A i \in 1..Slots, p \in Params :
      drivers[p] = {i} /\ slot[i].id = p => plugin.value[p] = slot[i].value

Answered ==
  ~failed => /\ view = plugin.value
             /\ \A i \in 1..Slots, p \in Params :
                  drivers[p] = {i} /\ asked[p] # "nan" => plugin.value[p] = asked[p]

ParamInv == Driven /\ Remembered /\ Answered

\* A parameter that no slot but i names is sent and asked for through i or not at all.
LEMMA SentAlone ==
  ASSUME NEW args \in [1..Slots -> Args], NEW p \in Params, NEW i \in 1..Slots, NEW old,
         \A j \in 1..Slots : args[j].id = p => j = i
  PROVE  Sent(args, old)[p] =
           IF args[i].id = p /\ Sends(i, args[i]) THEN args[i].value ELSE old[p]
<1> DEFINE by == {j \in 1..Slots : args[j].id = p /\ Sends(j, args[j])}
<1>1. CASE args[i].id = p /\ Sends(i, args[i])
  <2>1. by = {i}
    BY <1>1
  <2>2. (CHOOSE j \in by : \A m \in by : m <= j) = i
    BY <2>1
  <2> QED
    BY <1>1, <2>1, <2>2 DEF Sent
<1>2. CASE ~(args[i].id = p /\ Sends(i, args[i]))
  <2>1. by = {}
    BY <1>2
  <2> QED
    BY <1>2, <2>1 DEF Sent
<1> QED
  BY <1>1, <1>2

LEMMA AskedAlone ==
  ASSUME NEW args \in [1..Slots -> Args], NEW p \in Params, NEW i \in 1..Slots, Ask(args),
         \A j \in 1..Slots : args[j].id = p => j = i
  PROVE  asked'[p] = IF args[i].id = p /\ args[i].value # "nan" THEN args[i].value ELSE "nan"
<1> DEFINE by == {j \in 1..Slots : args[j].id = p /\ args[j].value # "nan"}
<1>1. asked'[p] = IF by = {} THEN "nan" ELSE args[CHOOSE j \in by : \A m \in by : m <= j].value
  BY DEF Ask
<1>2. CASE args[i].id = p /\ args[i].value # "nan"
  <2>1. by = {i}
    BY <1>2
  <2>2. (CHOOSE j \in by : \A m \in by : m <= j) = i
    BY <2>1
  <2> QED
    BY <1>1, <1>2, <2>1, <2>2
<1>3. CASE ~(args[i].id = p /\ args[i].value # "nan")
  <2>1. by = {}
    BY <1>3
  <2> QED
    BY <1>1, <1>3, <2>1
<1> QED
  BY <1>2, <1>3

LEMMA ProcessParams ==
  ASSUME IInv, ParamInv, NEW args \in [1..Slots -> Args], Process(args)
  PROVE  ParamInv'
<1>1. /\ drivers' = [p \in Params |-> drivers[p] \cup {i \in 1..Slots : args[i].id = p}]
      /\ slot' = [i \in 1..Slots |-> NewSlot(i, args[i])]
      /\ UNCHANGED <<at, s>> /\ at = "idle" /\ s.open
  BY DEF Process, Ask
<1>2. Driven'
  <2>1. slot' \in [1..Slots -> Args]
    BY <1>1 DEF NewSlot, NoSlot, Args, ParamInv, Driven
  <2>2. drivers' \in [Params -> SUBSET (1..Slots)]
    BY <1>1 DEF ParamInv, Driven
  <2>3. ASSUME NEW i \in 1..Slots, NEW p \in Params, slot'[i].id = p
        PROVE  i \in drivers'[p]
    <3>1. slot'[i] = NoSlot \/ slot'[i] = args[i] \/ slot'[i] = slot[i]
      BY <1>1 DEF NewSlot
    <3>2. slot'[i] # NoSlot
      BY <2>3, NameAssumption DEF NoSlot
    <3> QED
      BY <1>1, <2>3, <3>1, <3>2 DEF ParamInv, Driven
  <2> QED
    BY <2>1, <2>2, <2>3 DEF Driven
<1>3. ASSUME ~failed'
      PROVE  ~failed /\ plugin'.value = Sent(args, plugin.value) /\ view' = Sent(args, view)
  <2>1. ~failed /\ plugin' = [plugin EXCEPT !.value = Sent(args, plugin.value)]
    BY <1>3 DEF Process
  <2> QED
    BY <2>1 DEF Process, IInv, Shape
<1>4. ASSUME ~failed', NEW i \in 1..Slots, NEW p \in Params, drivers'[p] = {i}
      PROVE  /\ slot'[i].id = p => plugin'.value[p] = slot'[i].value
             /\ asked'[p] # "nan" => plugin'.value[p] = asked'[p]
  <2>1. \A j \in 1..Slots : args[j].id = p => j = i
    BY <1>1, <1>4
  <2>2. plugin'.value[p] = IF args[i].id = p /\ Sends(i, args[i]) THEN args[i].value
                           ELSE plugin.value[p]
    <3>1. plugin'.value = Sent(args, plugin.value)
      BY <1>3, <1>4
    <3>2. Sent(args, plugin.value)[p] =
            IF args[i].id = p /\ Sends(i, args[i]) THEN args[i].value ELSE plugin.value[p]
      BY <2>1, SentAlone
    <3> QED
      BY <3>1, <3>2
  <2>3. asked'[p] = IF args[i].id = p /\ args[i].value # "nan" THEN args[i].value ELSE "nan"
    BY <2>1, AskedAlone DEF Process
  <2>4. slot'[i] = NewSlot(i, args[i])
    BY <1>1
  <2>5. slot[i].id = p => plugin.value[p] = slot[i].value
    <3>1. SUFFICES ASSUME slot[i].id = p PROVE plugin.value[p] = slot[i].value
      OBVIOUS
    <3>2. i \in drivers[p]
      BY <1>1, <3>1 DEF ParamInv, Driven
    <3>3. drivers[p] = {i}
      BY <1>1, <1>4, <3>2
    <3> QED
      BY <1>1, <1>3, <1>4, <3>1, <3>3 DEF ParamInv, Remembered
  <2>6. CASE args[i].id = p /\ Sends(i, args[i])
    BY <2>2, <2>3, <2>4, <2>6, NameAssumption DEF NewSlot, Sends
  <2>7. CASE args[i].id = p /\ ~Sends(i, args[i])
    <3>1. slot'[i] = slot[i]
      BY <2>4, <2>7, NameAssumption DEF NewSlot
    <3>2. args[i].value # "nan" => slot[i] = args[i]
      BY <2>7 DEF Sends
    <3> QED
      BY <2>2, <2>3, <2>5, <2>7, <3>1, <3>2
  <2>8. CASE args[i].id # p
    <3>1. slot'[i].id = p => slot'[i] = slot[i]
      BY <2>4, <2>8, NameAssumption DEF NewSlot, NoSlot
    <3> QED
      BY <2>2, <2>3, <2>5, <2>8, <3>1
  <2> QED
    BY <2>6, <2>7, <2>8
<1>5. Remembered'
  BY <1>4 DEF Remembered
<1>6. Answered'
  BY <1>3, <1>4 DEF Answered, ParamInv
<1> QED
  BY <1>2, <1>5, <1>6 DEF ParamInv

\* Nothing but a process call sends a parameter; an open starts from nothing.
LEMMA OtherParams ==
  ASSUME IInv, ParamInv,
         \/ Close \/ OpenStart \/ OpenFails \/ OpenSetup \/ OpenActive \/ OpenPrepare
         \/ OpenProcessing \/ Restart \/ UNCHANGED vars
  PROVE  ParamInv'
<1>1. CASE CloseAll \/ OpenStart
  <2>1. /\ asked' = Unasked /\ drivers' = [p \in Params |-> {}] /\ view' = Gone.value
        /\ UNCHANGED slot /\ s' = Shut /\ plugin'.value = Gone.value
    BY <1>1 DEF CloseAll, OpenStart, Forget, Gone
  <2>2. slot' \in [1..Slots -> Args] /\ drivers' \in [Params -> SUBSET (1..Slots)]
    BY <2>1 DEF ParamInv, Driven
  <2>3. ~s'.open
    BY <2>1 DEF Shut
  <2>4. Answered'
    BY <2>1 DEF Answered, Unasked
  <2> QED
    BY <2>2, <2>3, <2>4 DEF ParamInv, Driven, Remembered
<1>2. CASE OpenSetup \/ OpenActive \/ OpenPrepare
  <2>1. /\ UNCHANGED <<slot, view, asked, drivers, failed>> /\ at' # "idle"
        /\ plugin'.value = plugin.value
    BY <1>2 DEF OpenSetup, OpenActive, OpenPrepare, IInv, Shape
  <2> QED
    BY <2>1 DEF ParamInv, Driven, Remembered, Answered
<1>3. CASE OpenProcessing
  <2>1. /\ UNCHANGED <<view, asked, drivers, failed>> /\ slot' = [i \in 1..Slots |-> NoSlot]
        /\ plugin'.value = plugin.value
    BY <1>3 DEF OpenProcessing, IInv, Shape
  <2>2. NoSlot \in Args /\ NoSlot.id \notin Params
    BY NameAssumption DEF NoSlot, Args
  <2> QED
    BY <2>1, <2>2 DEF ParamInv, Driven, Remembered, Answered
<1>4. CASE Restart
  <2>1. /\ UNCHANGED <<at, slot, view, asked, drivers, failed>>
        /\ plugin'.value = plugin.value /\ s'.open = s.open
    BY <1>4 DEF Restart, IInv, Shape
  <2> QED
    BY <2>1 DEF ParamInv, Driven, Remembered, Answered
<1>5. CASE UNCHANGED vars
  BY <1>5 DEF vars, ParamInv, Driven, Remembered, Answered
<1> QED
  BY <1>1, <1>2, <1>3, <1>4, <1>5 DEF Close, OpenFails

\* The two halves of the plugin agree, and what one slot drives has the value
\* asked for, unless a process call has failed (vst3_process).
THEOREM HoldsWhatIsAsked == Spec => []AskedIsHeld
<1>1. Init => ParamInv
  <2> SUFFICES ASSUME Init PROVE ParamInv
    OBVIOUS
  <2>1. NoSlot \in Args
    BY DEF NoSlot, Args
  <2>2. ~s.open
    BY DEF Init, Shut
  <2> QED
    BY <2>1, <2>2 DEF Init, ParamInv, Driven, Remembered, Answered, Unasked, Gone
<1>2. IInv /\ ParamInv /\ [Next]_vars => ParamInv'
  <2> SUFFICES ASSUME IInv, ParamInv, [Next]_vars PROVE ParamInv'
    OBVIOUS
  <2>1. CASE \E args \in [1..Slots -> Args] : Process(args)
    BY <2>1, ProcessParams
  <2> QED
    BY <2>1, OtherParams DEF Next
<1>3. ParamInv => AskedIsHeld
  <2> SUFFICES ASSUME ParamInv, ~failed, NEW p \in Params, asked[p] # "nan",
                      Cardinality(drivers[p]) = 1
               PROVE  plugin.value[p] = asked[p]
    BY DEF AskedIsHeld, ParamInv, Answered
  <2>1. IsFiniteSet(drivers[p])
    BY SlotAssumption, FS_Interval, FS_Subset DEF ParamInv, Driven
  <2>2. PICK i : drivers[p] = {i}
    BY <2>1, FS_Singleton
  <2> QED
    BY <2>2 DEF ParamInv, Driven, Answered
<1> QED
  BY <1>1, <1>2, <1>3, Invariance, PTL DEF Spec

---------------------------------------------------------------------------
(* Sets of numbers.                                                        *)

LEMMA LeastOf ==
  ASSUME NEW I, I \subseteq Nat, I # {}
  PROVE  \E x \in I : \A y \in I : x <= y
<1> DEFINE Less == {ss \in Nat \X Nat : ss[1] < ss[2]}
<1>1. IsWellFoundedOn(Less, Nat)
  BY NatLessThanWellFounded DEF OpToRel
<1>2. PICK x \in I : \A y \in I : <<y, x>> \notin Less
  <2> HIDE DEF Less
  <2> QED
    BY <1>1, WFMin
<1>3. \A y \in I : ~(y < x)
  BY <1>2
<1> QED
  BY <1>3

LEMMA LastOf ==
  ASSUME NEW m \in Nat, NEW I \in SUBSET (1..m), I # {}
  PROVE  \E x \in I : \A y \in I : y <= x
<1> DEFINE J == {i \in 0..m : m - i \in I}
<1>1. J \subseteq Nat /\ J # {}
  <2>1. PICK i \in I : TRUE
    OBVIOUS
  <2>2. i \in 1..m /\ m - i \in 0..m /\ m - (m - i) = i
    OBVIOUS
  <2>3. m - i \in J
    BY <2>2
  <2>4. J \subseteq 0..m
    OBVIOUS
  <2> HIDE DEF J
  <2> QED
    BY <2>3, <2>4
<1>2. PICK x \in J : \A y \in J : x <= y
  <2> HIDE DEF J
  <2> QED
    BY <1>1, LeastOf
<1>3. ASSUME NEW y \in I PROVE y <= m - x
  <2>1. m - y \in 0..m /\ m - (m - y) = y
    OBVIOUS
  <2>2. m - y \in J
    BY <2>1
  <2>3. x <= m - y
    BY <1>2, <2>2
  <2> QED
    BY <2>3
<1> QED
  BY <1>2, <1>3

---------------------------------------------------------------------------
(* Blocks of the LV2 host.                                                 *)

Sorted(q) == \A i, j \in DOMAIN q : i < j => q[i].frame <= q[j].frame

\* The runs up to block b that asked something of p, and what was asked last.
Asking(b, p) == {a \in 1..b : log[a].runs > 0 /\ log[a].asked[p] # Lv2!Unasked}
HeldOf(I, p) ==
  IF I = {} THEN Default ELSE log[CHOOSE a \in I : \A e \in I : e <= a].asked[p]
Held(b, p) == HeldOf(Asking(b, p), p)

LogShape(r) ==
  r = [accepted |-> r.accepted, refused |-> r.refused, runs |-> r.runs,
       seen |-> r.seen, asked |-> r.asked, read |-> r.read]

Shapes ==
  /\ h = [open |-> h.open, inTok |-> h.inTok, armed |-> h.armed, bad |-> h.bad,
          size |-> h.size, last |-> h.last, outTok |-> h.outTok]
  /\ log = [b \in 1..MaxBlocks |-> log[b]] /\ \A b \in 1..MaxBlocks : LogShape(log[b])
  /\ h.inTok \in 0..MaxBlocks /\ h.last \in Int

\* A block runs at most once, with what it was given.
Ran(b) ==
  /\ log[b].runs \in {0, 1}
  /\ log[b].runs = 1 => /\ ~log[b].refused /\ log[b].seen = log[b].accepted
                        /\ Sorted(log[b].seen)
                        /\ \A p \in Controls : log[b].read[p] = Held(b, p)

\* Blocks to come have nothing yet; an armed one has the events of the buffer.
Pending ==
  /\ \A b \in h.inTok + 1..MaxBlocks :
       log[b].runs = 0 /\ log[b].accepted = <<>> /\ log[b].refused = FALSE
  /\ h.armed => /\ h.inTok # 0 /\ log[h.inTok].runs = 0
                /\ log[h.inTok].accepted = events
                /\ log[h.inTok].refused => h.bad

InOrder ==
  /\ events \in Seq([frame : Int, bytes : Nat]) /\ Sorted(events)
  /\ \A i \in DOMAIN events : events[i].frame <= h.last

BlockInv ==
  /\ Shapes /\ Pending /\ InOrder
  /\ \A b \in 1..MaxBlocks : Ran(b)
  /\ \A p \in Controls : ctrl[p] = Held(h.inTok, p)

LEMMA Bounds == MaxBlocks \in Nat /\ MinSize \in Nat /\ AtomBuf \in Nat /\ AtomBuf >= 16
  BY BlockAssumption DEF Lv2!Assumptions

\* The log of block t becomes r.
LEMMA LogWritten ==
  ASSUME log = [b \in 1..MaxBlocks |-> log[b]], NEW t \in 1..MaxBlocks, NEW r,
         log' = [log EXCEPT ![t] = r]
  PROVE  /\ log' = [b \in 1..MaxBlocks |-> log'[b]] /\ log'[t] = r
         /\ \A b \in 1..MaxBlocks \ {t} : log'[b] = log[b]
  OBVIOUS

\* What is held depends on the runs up to b.
LEMMA HeldSame ==
  ASSUME NEW b \in Nat, NEW p,
         \A a \in 1..b : log'[a].runs = log[a].runs /\ log'[a].asked = log[a].asked
  PROVE  Held(b, p)' = Held(b, p)
<1>1. Asking(b, p)' = Asking(b, p)
  BY DEF Asking
<1>2. CASE Asking(b, p) = {}
  BY <1>1, <1>2 DEF Held, HeldOf
<1>3. CASE Asking(b, p) # {}
  <2> DEFINE c == CHOOSE a \in Asking(b, p) : \A e \in Asking(b, p) : e <= a
  <2>1. Held(b, p)' = log'[c].asked[p] /\ Held(b, p) = log[c].asked[p]
    BY <1>1, <1>3 DEF Held, HeldOf
  <2>2. \E a \in Asking(b, p) : \A e \in Asking(b, p) : e <= a
    <3>1. Asking(b, p) \in SUBSET (1..b)
      BY DEF Asking
    <3> QED
      BY <1>3, <3>1, LastOf
  <2>3. c \in Asking(b, p)
    BY <2>2
  <2>4. c \in 1..b
    BY <2>3 DEF Asking
  <2> QED
    BY <2>1, <2>4
<1> QED
  BY <1>2, <1>3

LEMMA ClearedInv ==
  ASSUME Lv2!Open \/ Lv2!Close
  PROVE  BlockInv'
<1>1. /\ events' = <<>> /\ ctrl' = [p \in Controls |-> Default] /\ log' = Lv2!NoRuns
      /\ h' = [open |-> h'.open, inTok |-> 0, armed |-> FALSE, bad |-> FALSE,
               size |-> Lv2!SeqBody, last |-> -1, outTok |-> 0]
  BY DEF Lv2!Open, Lv2!Close, Lv2!Cleared, Lv2!Closed
<1>2. h'.inTok = 0 /\ ~h'.armed /\ h'.last = -1
  BY <1>1
<1>3. /\ log' = [b \in 1..MaxBlocks |-> log'[b]]
      /\ \A b \in 1..MaxBlocks : /\ LogShape(log'[b]) /\ log'[b].runs = 0
                                 /\ log'[b].accepted = <<>> /\ log'[b].refused = FALSE
  BY <1>1 DEF Lv2!NoRuns, LogShape
<1>4. Shapes'
  BY <1>1, <1>2, <1>3, Bounds DEF Shapes, LogShape
<1>5. Pending' /\ (\A b \in 1..MaxBlocks : Ran(b))'
  BY <1>2, <1>3, Bounds DEF Pending, Ran
<1>6. InOrder'
  BY <1>1 DEF InOrder, Sorted
<1>7. ASSUME NEW p \in Controls PROVE ctrl'[p] = (Held(h.inTok, p))'
  <2>1. (Asking(h.inTok, p))' = {}
    BY <1>2 DEF Asking
  <2> QED
    BY <1>1, <2>1 DEF Held, HeldOf
<1> QED
  BY <1>4, <1>5, <1>6, <1>7 DEF BlockInv

LEMMA FillInv ==
  ASSUME BlockInv, Lv2!Fill
  PROVE  BlockInv'
<1>0. PICK t : t = h.inTok
  OBVIOUS
<1>1. /\ events' = <<>> /\ UNCHANGED <<ctrl, log>> /\ t < MaxBlocks
      /\ h' = [open |-> h.open, inTok |-> t + 1, armed |-> TRUE, bad |-> FALSE,
               size |-> Lv2!SeqBody, last |-> -1, outTok |-> h.outTok]
  <2>1. /\ events' = <<>> /\ UNCHANGED <<ctrl, log>> /\ t < MaxBlocks
        /\ h' = [h EXCEPT !.inTok = @ + 1, !.armed = TRUE, !.bad = FALSE,
                          !.size = Lv2!SeqBody, !.last = -1]
    BY <1>0 DEF Lv2!Fill
  <2> QED
    BY <1>0, <2>1 DEF BlockInv, Shapes
<1>2. h'.inTok = t + 1 /\ h'.last = -1 /\ h'.armed
  BY <1>1
<1>3. t \in 0..MaxBlocks /\ t + 1 \in 1..MaxBlocks /\ t \in Nat
  BY <1>0, <1>1, Bounds DEF BlockInv, Shapes
<1>4. Shapes'
  BY <1>1, <1>3 DEF BlockInv, Shapes, LogShape
<1>5. /\ log[t + 1].runs = 0 /\ log[t + 1].accepted = <<>> /\ log[t + 1].refused = FALSE
  BY <1>0, <1>3, Bounds DEF BlockInv, Pending
<1>6. Pending'
  BY <1>0, <1>1, <1>2, <1>3, <1>5, Bounds DEF BlockInv, Pending
<1>7. InOrder'
  BY <1>1 DEF InOrder, Sorted
<1>8. ASSUME NEW b \in Nat, NEW p PROVE Held(b, p)' = Held(b, p)
  BY <1>1, HeldSame
<1>9. (\A b \in 1..MaxBlocks : Ran(b))'
  BY <1>1, <1>8, Bounds DEF BlockInv, Ran, Sorted
<1>10. ASSUME NEW p \in Controls PROVE ctrl'[p] = (Held(h.inTok, p))'
  <2>1. Asking(t + 1, p) = Asking(t, p)
    BY <1>3, <1>5 DEF Asking
  <2>2. Held(t + 1, p) = Held(t, p)
    BY <2>1 DEF Held
  <2>3. (Held(h.inTok, p))' = Held(t + 1, p)'
    <3>1. (Asking(h.inTok, p))' = Asking(t + 1, p)'
      BY <1>2 DEF Asking
    <3> QED
      BY <3>1 DEF Held, HeldOf
  <2> QED
    BY <1>0, <1>1, <1>3, <1>8, <2>2, <2>3 DEF BlockInv
<1> QED
  BY <1>4, <1>6, <1>7, <1>9, <1>10 DEF BlockInv

\* A block t that has not run gets events or a refusal.
LEMMA EventInv ==
  ASSUME BlockInv, NEW t \in 1..MaxBlocks, t = h.inTok, h.armed, NEW r, LogShape(r),
         log' = [log EXCEPT ![t] = r], UNCHANGED ctrl,
         r.runs = log[t].runs, r.asked = log[t].asked, r.accepted = events', r.refused => h'.bad,
         h' = [open |-> h.open, inTok |-> t, armed |-> TRUE, bad |-> h'.bad,
               size |-> h'.size, last |-> h'.last, outTok |-> h.outTok],
         h'.last \in Int, InOrder'
  PROVE  BlockInv'
<1>1. h'.inTok = t /\ h'.armed
  OBVIOUS
<1>2. /\ log' = [b \in 1..MaxBlocks |-> log'[b]] /\ log'[t] = r
      /\ \A b \in 1..MaxBlocks \ {t} : log'[b] = log[b]
  BY LogWritten DEF BlockInv, Shapes
<1>3. log[t].runs = 0
  BY DEF BlockInv, Pending
<1>4. Shapes'
  BY <1>1, <1>2, Bounds DEF BlockInv, Shapes, LogShape
<1>5. Pending'
  <2>1. \A b \in t + 1..MaxBlocks : b \in 1..MaxBlocks \ {t}
    BY Bounds
  <2>2. t # 0
    OBVIOUS
  <2> QED
    BY <1>1, <1>2, <1>3, <2>1, <2>2 DEF BlockInv, Pending
<1>6. ASSUME NEW b \in 0..MaxBlocks, NEW p PROVE Held(b, p)' = Held(b, p)
  <2>1. b \in Nat /\ \A a \in 1..b : a \in 1..MaxBlocks
    BY Bounds
  <2>2. \A a \in 1..b : log'[a].runs = log[a].runs /\ log'[a].asked = log[a].asked
    BY <1>2, <2>1
  <2> QED
    BY <2>1, <2>2, HeldSame
<1>7. ASSUME NEW b \in 1..MaxBlocks PROVE Ran(b)'
  <2>1. CASE b = t
    BY <1>2, <1>3, <2>1 DEF Ran
  <2>2. CASE b # t
    <3>1. b \in 0..MaxBlocks
      BY Bounds
    <3>2. \A p \in Controls : Held(b, p)' = Held(b, p)
      BY <1>6, <3>1
    <3>3. log'[b] = log[b] /\ Ran(b)
      BY <1>2, <2>2 DEF BlockInv
    <3> QED
      BY <3>2, <3>3 DEF Ran, Sorted
  <2> QED
    BY <2>1, <2>2
<1>8. ASSUME NEW p \in Controls PROVE ctrl'[p] = (Held(h.inTok, p))'
  <2>1. (Held(h.inTok, p))' = Held(t, p)'
    <3>1. (Asking(h.inTok, p))' = Asking(t, p)'
      BY <1>1 DEF Asking
    <3> QED
      BY <3>1 DEF Held, HeldOf
  <2>2. t \in 0..MaxBlocks
    BY Bounds
  <2>3. Held(t, p)' = Held(t, p)
    BY <1>6, <2>2
  <2> QED
    BY <2>1, <2>3 DEF BlockInv
<1> QED
  BY <1>4, <1>5, <1>7, <1>8 DEF BlockInv

LEMMA AcceptedInv ==
  ASSUME BlockInv, NEW frame \in Int, NEW msg \in Lv2!Messages, Lv2!MidiAccepted(frame, msg)
  PROVE  BlockInv'
<1> DEFINE e == [frame |-> frame, bytes |-> msg.bytes]
<1>t. PICK t : t = h.inTok
  OBVIOUS
<1>q. PICK q : q = log[t]
  OBVIOUS
<1>r. PICK r : r = [q EXCEPT !.accepted = Append(@, e)]
  OBVIOUS
<1>1. /\ h.armed /\ frame >= h.last /\ events' = Append(events, e)
      /\ log' = [log EXCEPT ![t] = r] /\ UNCHANGED ctrl
  BY <1>t, <1>q, <1>r DEF Lv2!MidiAccepted, Lv2!Fits
<1>2. /\ t \in 1..MaxBlocks /\ q.accepted = events /\ (q.refused => h.bad)
      /\ LogShape(q)
  BY <1>1, <1>t, <1>q, Bounds DEF BlockInv, Shapes, Pending
<1>3. r = [accepted |-> events', refused |-> q.refused, runs |-> q.runs,
           seen |-> q.seen, asked |-> q.asked, read |-> q.read]
  BY <1>r, <1>1, <1>2 DEF LogShape
<1>4. /\ LogShape(r) /\ r.runs = log[t].runs /\ r.asked = log[t].asked
      /\ r.accepted = events' /\ r.refused = q.refused
  BY <1>3, <1>q DEF LogShape
<1>5. h' = [open |-> h.open, inTok |-> t, armed |-> h.armed, bad |-> h.bad,
            size |-> h'.size, last |-> frame, outTok |-> h.outTok]
  <2>1. PICK z : h' = [h EXCEPT !.size = z, !.last = frame]
    BY DEF Lv2!MidiAccepted
  <2> QED
    BY <1>t, <2>1 DEF BlockInv, Shapes
<1>6. h'.bad = h.bad /\ h'.last = frame
  BY <1>5
<1>7. InOrder'
  <2>1. e \in [frame : Int, bytes : Nat]
    BY DEF Lv2!Messages
  <2>2. /\ events \in Seq([frame : Int, bytes : Nat]) /\ Sorted(events) /\ h.last \in Int
        /\ \A i \in DOMAIN events : events[i].frame <= h.last
    BY DEF BlockInv, InOrder, Shapes
  <2>3. e.frame = frame
    OBVIOUS
  <2> HIDE DEF e
  <2>4. /\ Len(events) \in Nat /\ DOMAIN events = 1..Len(events)
        /\ events' \in Seq([frame : Int, bytes : Nat])
        /\ DOMAIN events' = 1..Len(events) + 1
        /\ \A i \in 1..Len(events) : events'[i] = events[i]
        /\ events'[Len(events) + 1] = e
    BY <1>1, <2>1, <2>2, AppendProperties
  <2>5. \A i \in 1..Len(events) : events[i].frame \in Int
    <3> SUFFICES ASSUME NEW i \in 1..Len(events) PROVE events[i].frame \in Int
      OBVIOUS
    <3>1. events[i] \in [frame : Int, bytes : Nat]
      BY <2>2, ElementOfSeq
    <3> QED
      BY <3>1
  <2>6. ASSUME NEW i \in DOMAIN events' PROVE events'[i].frame <= frame
    <3>1. CASE i = Len(events) + 1
      BY <2>3, <2>4, <3>1
    <3>2. CASE i # Len(events) + 1
      <4>1. i \in 1..Len(events)
        BY <2>4, <3>2
      <4>2. events[i].frame <= h.last /\ events[i].frame \in Int
        BY <2>2, <2>4, <2>5, <4>1
      <4> QED
        BY <1>1, <2>2, <2>4, <4>1, <4>2
    <3> QED
      BY <3>1, <3>2
  <2>7. ASSUME NEW i \in DOMAIN events', NEW j \in DOMAIN events', i < j
        PROVE  events'[i].frame <= events'[j].frame
    <3>1. CASE j = Len(events) + 1
      BY <2>3, <2>4, <2>6, <3>1
    <3>2. CASE j # Len(events) + 1
      <4>1. i \in 1..Len(events) /\ j \in 1..Len(events)
        BY <2>4, <2>7, <3>2
      <4> QED
        BY <2>2, <2>4, <2>7, <4>1 DEF Sorted
    <3> QED
      BY <3>1, <3>2
  <2> QED
    BY <1>6, <2>4, <2>6, <2>7 DEF InOrder, Sorted
<1> HIDE DEF e
<1>8. h' = [open |-> h.open, inTok |-> t, armed |-> TRUE, bad |-> h'.bad,
            size |-> h'.size, last |-> h'.last, outTok |-> h.outTok]
  BY <1>1, <1>5, <1>6
<1> QED
  BY <1>1, <1>2, <1>4, <1>6, <1>7, <1>8, <1>t, EventInv

LEMMA RefusedInv ==
  ASSUME BlockInv, NEW frame, NEW msg, Lv2!MidiRefused(frame, msg)
  PROVE  BlockInv'
<1>t. PICK t : t = h.inTok
  OBVIOUS
<1>q. PICK q : q = log[t]
  OBVIOUS
<1>r. PICK r : r = [q EXCEPT !.refused = TRUE]
  OBVIOUS
<1>1. /\ h.armed /\ UNCHANGED <<events, ctrl>>
      /\ log' = [log EXCEPT ![t] = r] /\ h' = [h EXCEPT !.bad = TRUE]
  BY <1>t, <1>q, <1>r DEF Lv2!MidiRefused
<1>2. t \in 1..MaxBlocks /\ q.accepted = events /\ LogShape(q)
  BY <1>1, <1>t, <1>q, Bounds DEF BlockInv, Shapes, Pending
<1>3. r = [accepted |-> events, refused |-> TRUE, runs |-> q.runs,
           seen |-> q.seen, asked |-> q.asked, read |-> q.read]
  BY <1>r, <1>2 DEF LogShape
<1>4. /\ LogShape(r) /\ r.runs = log[t].runs /\ r.asked = log[t].asked
      /\ r.accepted = events'
  BY <1>3, <1>1, <1>q DEF LogShape
<1>5. h' = [open |-> h.open, inTok |-> t, armed |-> h.armed, bad |-> TRUE,
            size |-> h.size, last |-> h.last, outTok |-> h.outTok]
  BY <1>1, <1>t DEF BlockInv, Shapes
<1>6. h'.bad /\ h'.last = h.last /\ h.last \in Int /\ h'.size = h.size
  BY <1>5 DEF BlockInv, Shapes
<1>7. InOrder'
  BY <1>1, <1>6 DEF BlockInv, InOrder, Sorted
<1>8. h' = [open |-> h.open, inTok |-> t, armed |-> TRUE, bad |-> h'.bad,
            size |-> h'.size, last |-> h'.last, outTok |-> h.outTok]
  BY <1>1, <1>5, <1>6
<1> QED
  BY <1>1, <1>2, <1>4, <1>6, <1>7, <1>8, <1>t, EventInv

\* What is held after block t asked.
LEMMA Asked ==
  ASSUME NEW t \in 1..MaxBlocks, log[t].runs = 0, log'[t].runs = 1,
         \A b \in 1..MaxBlocks \ {t} : log'[b] = log[b], NEW p
  PROVE  Held(t, p)' = IF log'[t].asked[p] = Lv2!Unasked THEN Held(t, p) ELSE log'[t].asked[p]
<1>1. t \in Nat /\ t \in 1..t /\ \A a \in 1..t : a \in 1..MaxBlocks
  BY Bounds
<1>2. CASE log'[t].asked[p] = Lv2!Unasked
  <2>1. Asking(t, p)' = Asking(t, p) /\ t \notin Asking(t, p) /\ Asking(t, p) \in SUBSET (1..t)
    BY <1>1, <1>2 DEF Asking
  <2>2. CASE Asking(t, p) = {}
    BY <1>2, <2>1, <2>2 DEF Held, HeldOf
  <2>3. CASE Asking(t, p) # {}
    <3> DEFINE c == CHOOSE a \in Asking(t, p) : \A e \in Asking(t, p) : e <= a
    <3>1. Held(t, p)' = log'[c].asked[p] /\ Held(t, p) = log[c].asked[p]
      BY <2>1, <2>3 DEF Held, HeldOf
    <3>2. \E a \in Asking(t, p) : \A e \in Asking(t, p) : e <= a
      BY <1>1, <2>1, <2>3, LastOf
    <3>3. c \in Asking(t, p)
      BY <3>2
    <3>4. c \in 1..MaxBlocks \ {t}
      BY <1>1, <2>1, <3>3
    <3> QED
      BY <1>2, <3>1, <3>4
  <2> QED
    BY <2>2, <2>3
<1>3. CASE log'[t].asked[p] # Lv2!Unasked
  <2>1. t \in Asking(t, p)' /\ \A a \in Asking(t, p)' : a \in Int /\ a <= t
    BY <1>1, <1>3 DEF Asking
  <2> DEFINE c == CHOOSE a \in Asking(t, p)' : \A e \in Asking(t, p)' : e <= a
  <2>2. Held(t, p)' = log'[c].asked[p]
    BY <2>1 DEF Held, HeldOf
  <2>3. c \in Asking(t, p)' /\ \A e \in Asking(t, p)' : e <= c
    BY <2>1
  <2> HIDE DEF c
  <2>4. c \in Int /\ c <= t /\ t <= c
    BY <2>1, <2>3
  <2>5. c = t
    BY <1>1, <2>4
  <2> QED
    BY <1>3, <2>2, <2>5
<1> QED
  BY <1>2, <1>3

LEMMA RunInv ==
  ASSUME BlockInv, NEW request, Lv2!Process(request)
  PROVE  BlockInv'
<1> DEFINE read == [p \in Controls |-> IF request[p] = Lv2!Unasked THEN ctrl[p] ELSE request[p]]
<1>t. PICK t : t = h.inTok
  OBVIOUS
<1>q. PICK q : q = log[t]
  OBVIOUS
<1>d. PICK d : d = read
  OBVIOUS
<1>r. PICK r : r = [q EXCEPT !.runs = @ + 1, !.seen = events, !.asked = request, !.read = d]
  OBVIOUS
<1>1. /\ h.armed /\ ~h.bad /\ ctrl' = d /\ UNCHANGED events
      /\ log' = [log EXCEPT ![t] = r]
      /\ h' = [h EXCEPT !.armed = FALSE, !.outTok = @ + 1]
  BY <1>t, <1>q, <1>d, <1>r DEF Lv2!Process
<1>2. /\ t \in 1..MaxBlocks /\ q.accepted = events /\ ~q.refused /\ q.runs = 0
      /\ LogShape(q)
  BY <1>1, <1>t, <1>q, Bounds DEF BlockInv, Shapes, Pending
<1>3. r = [accepted |-> q.accepted, refused |-> q.refused, runs |-> 1,
           seen |-> events, asked |-> request, read |-> d]
  <2>1. q.runs + 1 = 1
    BY <1>2
  <2> QED
    BY <1>r, <1>2, <2>1 DEF LogShape
<1>4. /\ LogShape(r) /\ r.runs = 1 /\ r.asked = request /\ ~r.refused /\ r.seen = events
      /\ r.accepted = events /\ r.read = d
  BY <1>2, <1>3 DEF LogShape
<1>5. /\ log' = [b \in 1..MaxBlocks |-> log'[b]] /\ log'[t] = r
      /\ \A b \in 1..MaxBlocks \ {t} : log'[b] = log[b]
  BY <1>1, <1>2, LogWritten DEF BlockInv, Shapes
<1>6. h' = [open |-> h.open, inTok |-> t, armed |-> FALSE, bad |-> h.bad,
            size |-> h.size, last |-> h.last, outTok |-> h.outTok + 1]
  BY <1>1, <1>t DEF BlockInv, Shapes
<1>7. h'.inTok = t /\ ~h'.armed /\ h'.last = h.last
  BY <1>6
<1>8. Shapes'
  <2>1. \A b \in 1..MaxBlocks : LogShape(log'[b])
    BY <1>4, <1>5 DEF BlockInv, Shapes
  <2>2. (\A b \in 1..MaxBlocks : LogShape(log[b]))'
    BY <2>1 DEF LogShape
  <2>3. h' = [open |-> h'.open, inTok |-> h'.inTok, armed |-> h'.armed, bad |-> h'.bad,
              size |-> h'.size, last |-> h'.last, outTok |-> h'.outTok]
    BY <1>6
  <2>4. h'.inTok \in 0..MaxBlocks /\ h'.last \in Int
    BY <1>2, <1>7, Bounds DEF BlockInv, Shapes
  <2> QED
    BY <1>5, <2>2, <2>3, <2>4 DEF Shapes
<1>9. Pending'
  <2>1. \A b \in t + 1..MaxBlocks : b \in 1..MaxBlocks \ {t}
    BY <1>2, Bounds
  <2> QED
    BY <1>t, <1>5, <1>7, <2>1 DEF BlockInv, Pending
<1>10. InOrder'
  BY <1>1, <1>7 DEF BlockInv, InOrder, Sorted
<1>11. ASSUME NEW p \in Controls PROVE Held(t, p)' = d[p]
  <2>1. Held(t, p)' = IF request[p] = Lv2!Unasked THEN Held(t, p) ELSE request[p]
    BY <1>2, <1>4, <1>5, <1>q, Asked
  <2>2. ctrl[p] = Held(t, p)
    BY <1>t DEF BlockInv
  <2> QED
    BY <1>d, <2>1, <2>2
<1>12. ASSUME NEW b \in 1..MaxBlocks PROVE Ran(b)'
  <2>1. CASE b = t
    <3>1. Sorted(events)
      BY DEF BlockInv, InOrder
    <3> QED
      BY <1>4, <1>5, <1>11, <2>1, <3>1 DEF Ran, Sorted
  <2>2. CASE b # t
    <3>1. log'[b] = log[b] /\ Ran(b)
      BY <1>5, <2>2 DEF BlockInv
    <3>2. CASE b < t
      <4>1. b \in Nat /\ \A a \in 1..b : a \in 1..MaxBlocks \ {t}
        BY <1>2, <3>2, Bounds
      <4>2. \A p \in Controls : Held(b, p)' = Held(b, p)
        BY <1>5, <4>1, HeldSame
      <4> QED
        BY <3>1, <4>2 DEF Ran, Sorted
    <3>3. CASE ~(b < t)
      <4>1. b \in t + 1..MaxBlocks
        BY <1>2, <2>2, <3>3
      <4>2. log[b].runs = 0
        BY <1>t, <4>1 DEF BlockInv, Pending
      <4> QED
        BY <3>1, <4>2 DEF Ran
    <3> QED
      BY <3>2, <3>3
  <2> QED
    BY <2>1, <2>2
<1>13. ASSUME NEW p \in Controls PROVE ctrl'[p] = (Held(h.inTok, p))'
  <2>1. (Held(h.inTok, p))' = Held(t, p)'
    <3>1. (Asking(h.inTok, p))' = Asking(t, p)'
      BY <1>7 DEF Asking
    <3> QED
      BY <3>1 DEF Held, HeldOf
  <2> QED
    BY <1>1, <1>11, <2>1
<1> QED
  BY <1>8, <1>9, <1>10, <1>12, <1>13 DEF BlockInv

LEMMA BlockSteps ==
  ASSUME [HostNext]_<<host, blockVars, portVars, vars>>
  PROVE  Lv2!Next \/ UNCHANGED blockVars
  BY DEF HostNext

LEMMA BlockInvariance == HostSpec => []BlockInv
<1>1. HostInit => BlockInv
  <2> SUFFICES ASSUME Lv2!Init PROVE BlockInv
    BY DEF HostInit
  <2>1. /\ events = <<>> /\ ctrl = [p \in Controls |-> Default] /\ log = Lv2!NoRuns
        /\ h = [open |-> FALSE, inTok |-> 0, armed |-> FALSE, bad |-> FALSE,
                size |-> Lv2!SeqBody, last |-> -1, outTok |-> 0]
    BY DEF Lv2!Init, Lv2!Closed
  <2>2. h.inTok = 0 /\ ~h.armed /\ h.last = -1
    BY <2>1
  <2>3. /\ log = [b \in 1..MaxBlocks |-> log[b]]
        /\ \A b \in 1..MaxBlocks : /\ LogShape(log[b]) /\ log[b].runs = 0
                                   /\ log[b].accepted = <<>> /\ log[b].refused = FALSE
    BY <2>1 DEF Lv2!NoRuns, LogShape
  <2>4. Shapes
    BY <2>1, <2>2, <2>3, Bounds DEF Shapes
  <2>5. Pending /\ \A b \in 1..MaxBlocks : Ran(b)
    BY <2>2, <2>3, Bounds DEF Pending, Ran
  <2>6. InOrder
    BY <2>1 DEF InOrder, Sorted
  <2>7. ASSUME NEW p \in Controls PROVE ctrl[p] = Held(h.inTok, p)
    BY <2>1, <2>2 DEF Held, HeldOf, Asking
  <2> QED
    BY <2>4, <2>5, <2>6, <2>7 DEF BlockInv
<1>2. BlockInv /\ [HostNext]_<<host, blockVars, portVars, vars>> => BlockInv'
  <2> SUFFICES ASSUME BlockInv, Lv2!Next \/ UNCHANGED blockVars PROVE BlockInv'
    BY BlockSteps
  <2>1. CASE Lv2!Open \/ Lv2!Close
    BY <2>1, ClearedInv
  <2>2. CASE Lv2!Fill
    BY <2>2, FillInv
  <2>3. CASE \E frame \in 0..Block, msg \in Lv2!Messages :
               Lv2!MidiAccepted(frame, msg) \/ Lv2!MidiRefused(frame, msg)
    <3>1. 0..Block \subseteq Int
      OBVIOUS
    <3> QED
      BY <2>3, <3>1, AcceptedInv, RefusedInv
  <2>4. CASE \E request \in [Controls -> Lv2Values \cup {Lv2!Unasked}] : Lv2!Process(request)
    BY <2>4, RunInv
  <2>5. CASE UNCHANGED blockVars
    <3>1. UNCHANGED <<h, events, ctrl, log>>
      BY <2>5 DEF blockVars
    <3>2. Shapes' /\ Pending' /\ InOrder'
      BY <3>1 DEF BlockInv, Shapes, LogShape, Pending, InOrder, Sorted
    <3>3. ASSUME NEW b, NEW p PROVE Held(b, p)' = Held(b, p)
      BY <3>1 DEF Held, HeldOf, Asking
    <3>4. (\A b \in 1..MaxBlocks : Ran(b))'
      BY <3>1, <3>3 DEF BlockInv, Ran, Sorted
    <3>5. \A p \in Controls : ctrl'[p] = (Held(h.inTok, p))'
      BY <3>1 DEF BlockInv, Held, HeldOf, Asking
    <3> QED
      BY <3>2, <3>4, <3>5 DEF BlockInv
  <2> QED
    BY <2>1, <2>2, <2>3, <2>4, <2>5 DEF Lv2!Next
<1> QED
  BY <1>1, <1>2, PTL DEF HostSpec

\* However fills, events, refusals and runs follow each other, a block runs at
\* most once and only with what was accepted for it, and reads of each control
\* port what was asked last (lv2_in_fill, lv2_in_midi, lv2_process).
THEOREM BlocksRunAsAsked == HostSpec => []RunsAsAsked
<1>1. BlockInv => RunsAsAsked
  <2> SUFFICES ASSUME BlockInv PROVE Lv2!RunsWithItsEvents /\ Lv2!ControlsHold
    BY DEF RunsAsAsked
  <2>1. Lv2!RunsWithItsEvents
    BY DEF BlockInv, Ran, Sorted, Lv2!RunsWithItsEvents
  <2>2. Lv2!ControlsHold
    <3>1. \A b \in 1..MaxBlocks : log[b].runs > 0 => log[b].runs = 1
      BY DEF BlockInv, Ran
    <3>2. \A b \in 1..MaxBlocks, p \in Controls : log[b].runs > 0 => log[b].read[p] = Held(b, p)
      BY <3>1 DEF BlockInv, Ran
    <3> QED
      BY <3>2 DEF Lv2!ControlsHold, Held, HeldOf, Asking
  <2> QED
    BY <2>1, <2>2
<1> QED
  BY <1>1, BlockInvariance, PTL

---------------------------------------------------------------------------
(* The atom buffer of the LV2 host.                                        *)

\* f gives the bytes of the first events of es.
SumAt(f, es, i) ==
  IF i = 0 THEN Lv2!SeqBody ELSE f[i - 1] + Lv2!Pad(Lv2!EventHeader + es[i].bytes)
Sums(f, es) == f = [i \in 0..Len(es) |-> SumAt(f, es, i)]

AtomInv ==
  /\ \E f : Sums(f, events) /\ h.size = f[Len(events)]
  /\ h.size \in Nat /\ h.size % 8 = 0 /\ Lv2!AtomHeader + h.size <= Lv2!AtomCap

LEMMA SumsUnique ==
  ASSUME NEW es, Len(es) \in Nat, NEW f, NEW g, Sums(f, es), Sums(g, es)
  PROVE  f = g
<1> DEFINE Bad == {i \in 0..Len(es) : f[i] # g[i]}
<1>1. /\ \A i \in 0..Len(es) : f[i] = SumAt(f, es, i) /\ g[i] = SumAt(g, es, i)
      /\ f = [i \in 0..Len(es) |-> f[i]] /\ g = [i \in 0..Len(es) |-> g[i]]
  BY DEF Sums
<1>2. CASE Bad = {}
  BY <1>1, <1>2
<1>3. CASE Bad # {}
  <2>1. Bad \subseteq Nat
    OBVIOUS
  <2>2. PICK m \in Bad : \A y \in Bad : m <= y
    <3> HIDE DEF Bad
    <3> QED
      BY <1>3, <2>1, LeastOf
  <2>3. m # 0
    BY <1>1, <2>2 DEF SumAt
  <2>4. m - 1 \in 0..Len(es) /\ ~(m <= m - 1)
    BY <2>3
  <2>5. f[m - 1] = g[m - 1]
    BY <2>2, <2>4
  <2> QED
    BY <1>1, <2>2, <2>3, <2>5 DEF SumAt
<1> QED
  BY <1>2, <1>3

\* An event more.
LEMMA SumsAppend ==
  ASSUME NEW S, NEW es \in Seq(S), NEW e \in S, NEW f, Sums(f, es)
  PROVE  \E g : Sums(g, Append(es, e)) /\ g[Len(es) + 1] =
                  f[Len(es)] + Lv2!Pad(Lv2!EventHeader + e.bytes)
<1>n. PICK m : m = Len(es)
  OBVIOUS
<1>x. PICK x : x = f[m] + Lv2!Pad(Lv2!EventHeader + e.bytes)
  OBVIOUS
<1>g. PICK g : g = [i \in 0..m + 1 |-> IF i = m + 1 THEN x ELSE f[i]]
  OBVIOUS
<1>1. /\ m \in Nat /\ Len(Append(es, e)) = m + 1 /\ Append(es, e)[m + 1] = e
      /\ \A i \in 1..m : Append(es, e)[i] = es[i]
  BY <1>n, AppendProperties
<1>2. \A i \in 0..m : f[i] = SumAt(f, es, i)
  BY <1>n DEF Sums
<1>3. ASSUME NEW i \in 0..m + 1 PROVE g[i] = SumAt(g, Append(es, e), i)
  <2>1. CASE i = m + 1
    <3>1. i # 0 /\ i - 1 = m /\ m \in 0..m + 1 /\ m # m + 1
      BY <1>1, <2>1
    <3>2. g[m] = f[m] /\ g[i] = x
      BY <1>g, <2>1, <3>1
    <3> QED
      BY <1>1, <1>x, <2>1, <3>1, <3>2 DEF SumAt
  <2>2. CASE i = 0
    <3>1. 0 \in 0..m /\ 0 # m + 1
      BY <1>1
    <3> QED
      BY <1>2, <1>g, <2>2, <3>1 DEF SumAt
  <2>3. CASE i # 0 /\ i # m + 1
    <3>1. i \in 1..m /\ i \in 0..m /\ i - 1 \in 0..m + 1 /\ i - 1 # m + 1
      BY <1>1, <2>3
    <3>2. g[i] = f[i] /\ g[i - 1] = f[i - 1]
      BY <1>g, <2>3, <3>1
    <3>3. Append(es, e)[i] = es[i]
      BY <1>1, <3>1
    <3> QED
      BY <1>2, <2>3, <3>1, <3>2, <3>3 DEF SumAt
  <2> QED
    BY <2>1, <2>2, <2>3
<1>4. g = [i \in 0..m + 1 |-> g[i]] /\ g[m + 1] = x
  BY <1>1, <1>g
<1>5. Sums(g, Append(es, e))
  BY <1>1, <1>3, <1>4 DEF Sums
<1> QED
  BY <1>4, <1>5, <1>n, <1>x

\* The room for an event as it is is room for it padded, for sizes are whole
\* numbers of 8 bytes.
LEMMA RoomIsPadded ==
  ASSUME NEW size \in Nat, size % 8 = 0, NEW w \in Nat, Lv2!AtomCap - 8 - size >= w
  PROVE  /\ Lv2!AtomCap \in Nat /\ Lv2!Pad(w) \in Nat /\ Lv2!Pad(w) % 8 = 0
         /\ size + Lv2!Pad(w) \in Nat /\ (size + Lv2!Pad(w)) % 8 = 0
         /\ 8 + (size + Lv2!Pad(w)) <= Lv2!AtomCap
<1>1. PICK z \in Nat : Lv2!AtomCap = ((z + 7) \div 8) * 8
  BY Bounds DEF Lv2!AtomCap, Lv2!Pad
<1>2. Lv2!Pad(w) = ((w + 7) \div 8) * 8
  BY DEF Lv2!Pad
<1>3. Lv2!AtomCap \in Nat /\ Lv2!AtomCap % 8 = 0
  BY <1>1
<1> QED
  BY <1>2, <1>3

LEMMA EmptyAtom ==
  /\ \E f : Sums(f, <<>>) /\ Lv2!SeqBody = f[0]
  /\ Lv2!SeqBody \in Nat /\ Lv2!SeqBody % 8 = 0 /\ Lv2!AtomHeader + Lv2!SeqBody <= Lv2!AtomCap
<1>1. Sums([i \in 0..0 |-> Lv2!SeqBody], <<>>)
  BY DEF Sums, SumAt
<1>2. PICK z \in Nat : z >= 16 /\ Lv2!AtomCap = ((z + 7) \div 8) * 8
  BY Bounds DEF Lv2!AtomCap, Lv2!Pad
<1>3. Lv2!AtomCap >= 16
  BY <1>2
<1> QED
  BY <1>1, <1>3 DEF Lv2!SeqBody, Lv2!AtomHeader

LEMMA AtomStep ==
  ASSUME BlockInv, AtomInv, Lv2!Next \/ UNCHANGED blockVars
  PROVE  AtomInv'
<1>1. CASE Lv2!Open \/ Lv2!Close \/ Lv2!Fill
  <2>1. events' = <<>>
    BY <1>1 DEF Lv2!Open, Lv2!Close, Lv2!Fill, Lv2!Cleared
  <2>2. h'.size = Lv2!SeqBody
    <3>1. CASE Lv2!Open
      BY <3>1 DEF Lv2!Open, Lv2!Closed
    <3>2. CASE Lv2!Close
      BY <3>2 DEF Lv2!Close, Lv2!Closed
    <3>3. CASE Lv2!Fill
      BY <3>3 DEF Lv2!Fill, BlockInv, Shapes
    <3> QED
      BY <1>1, <3>1, <3>2, <3>3
  <2>3. Len(<<>>) = 0
    OBVIOUS
  <2> QED
    BY <2>1, <2>2, <2>3, EmptyAtom DEF AtomInv, Sums, SumAt, Lv2!AtomCap
<1>2. ASSUME NEW frame \in 0..Block, NEW msg \in Lv2!Messages, Lv2!MidiAccepted(frame, msg)
      PROVE  AtomInv'
  <2> DEFINE S == [frame : Int, bytes : Nat]
  <2>e. PICK e : e = [frame |-> frame, bytes |-> msg.bytes]
    OBVIOUS
  <2>w. PICK w : w = Lv2!EventHeader + msg.bytes
    OBVIOUS
  <2>z. PICK z : z = h.size + Lv2!Pad(w)
    OBVIOUS
  <2>1. /\ events' = Append(events, e) /\ h' = [h EXCEPT !.size = z, !.last = frame]
        /\ Lv2!AtomCap - Lv2!AtomHeader - h.size >= w
    BY <1>2, <2>e, <2>w, <2>z DEF Lv2!MidiAccepted, Lv2!Fits
  <2>2. msg.bytes \in Nat /\ w \in Nat /\ e \in S /\ e.bytes = msg.bytes
    BY <2>e, <2>w DEF Lv2!Messages, Lv2!EventHeader
  <2>3. h'.size = z
    BY <2>1 DEF BlockInv, Shapes
  <2>4. h.size \in Nat /\ h.size % 8 = 0 /\ Lv2!AtomCap - 8 - h.size >= w
    BY <2>1 DEF AtomInv, Lv2!AtomHeader
  <2>5. z \in Nat /\ z % 8 = 0 /\ 8 + z <= Lv2!AtomCap
    BY <2>2, <2>4, <2>z, RoomIsPadded
  <2>6. PICK f : Sums(f, events) /\ h.size = f[Len(events)]
    BY DEF AtomInv
  <2>7. events \in Seq(S)
    BY DEF BlockInv, InOrder
  <2> HIDE DEF S
  <2>8. PICK g : Sums(g, events') /\ g[Len(events) + 1] = z
    BY <2>1, <2>2, <2>6, <2>7, <2>w, <2>z, SumsAppend
  <2>9. Len(events') = Len(events) + 1
    BY <2>1, <2>2, <2>7, AppendProperties
  <2>10. (\E x : Sums(x, events) /\ h.size = x[Len(events)])'
    BY <2>3, <2>8, <2>9 DEF Sums, SumAt
  <2>11. Lv2!AtomCap' = Lv2!AtomCap
    BY DEF Lv2!AtomCap
  <2> QED
    BY <2>3, <2>5, <2>10, <2>11 DEF AtomInv, Lv2!AtomHeader
<1>3. ASSUME UNCHANGED events, h'.size = h.size PROVE AtomInv'
  BY <1>3 DEF AtomInv, Sums, SumAt, Lv2!AtomCap
<1>4. CASE \E frame, msg : Lv2!MidiRefused(frame, msg)
  BY <1>3, <1>4 DEF Lv2!MidiRefused, BlockInv, Shapes
<1>5. CASE \E request : Lv2!Process(request)
  BY <1>3, <1>5 DEF Lv2!Process, BlockInv, Shapes
<1>6. CASE UNCHANGED blockVars
  BY <1>3, <1>6 DEF blockVars
<1> QED
  BY <1>1, <1>2, <1>4, <1>5, <1>6 DEF Lv2!Next

\* For any size of the buffer and any events, the room left never runs below
\* zero and the header tells what the events take (lv2_in_midi, lv2_host_open).
THEOREM AtomBufferFits == HostSpec => []AtomBufferHolds
<1>1. HostInit => AtomInv
  <2> SUFFICES ASSUME Lv2!Init PROVE AtomInv
    BY DEF HostInit
  <2>1. events = <<>> /\ h.size = Lv2!SeqBody /\ Len(<<>>) = 0
    BY DEF Lv2!Init, Lv2!Closed
  <2> QED
    BY <2>1, EmptyAtom DEF AtomInv
<1>2. BlockInv /\ AtomInv /\ [HostNext]_<<host, blockVars, portVars, vars>> => AtomInv'
  BY BlockSteps, AtomStep
<1>3. BlockInv /\ AtomInv => AtomBufferHolds
  <2> SUFFICES ASSUME BlockInv, AtomInv PROVE Lv2!AtomBufferHolds
    BY DEF AtomBufferHolds
  <2> DEFINE bytes == CHOOSE x : x = [i \in 0..Len(events) |->
                        IF i = 0 THEN Lv2!SeqBody
                        ELSE x[i - 1] + Lv2!Pad(Lv2!EventHeader + events[i].bytes)]
  <2>1. PICK f : Sums(f, events) /\ h.size = f[Len(events)]
    BY DEF AtomInv
  <2>2. Sums(bytes, events)
    <3>1. \E x : x = [i \in 0..Len(events) |->
                        IF i = 0 THEN Lv2!SeqBody
                        ELSE x[i - 1] + Lv2!Pad(Lv2!EventHeader + events[i].bytes)]
      BY <2>1 DEF Sums, SumAt
    <3>2. bytes = [i \in 0..Len(events) |->
                        IF i = 0 THEN Lv2!SeqBody
                        ELSE bytes[i - 1] + Lv2!Pad(Lv2!EventHeader + events[i].bytes)]
      BY <3>1
    <3> HIDE DEF bytes
    <3> QED
      BY <3>2 DEF Sums, SumAt
  <2>3. Len(events) \in Nat
    BY DEF BlockInv, InOrder
  <2>4. bytes = f
    <3> HIDE DEF bytes
    <3> QED
      BY <2>1, <2>2, <2>3, SumsUnique
  <2>5. h.size = bytes[Len(events)] /\ Lv2!AtomHeader + h.size <= Lv2!AtomCap
    <3> HIDE DEF bytes
    <3> QED
      BY <2>1, <2>4 DEF AtomInv
  <2> QED
    BY <2>5 DEF Lv2!AtomBufferHolds
<1> QED
  BY <1>1, <1>2, <1>3, BlockInvariance, PTL DEF HostSpec

---------------------------------------------------------------------------
(* The ports of an LV2 plugin: q are the ports, m the channels, a the      *)
(* slots of the arena.                                                     *)

\* The ports of a class among the first b.
Tally(q, class, b) == Cardinality({i \in 1..b : q[i].class = class})

\* Slots lie one after the other, on multiples of 8, and every atom port among
\* the first b has one that is large enough; ports of no use are optional.
Laid(q, a, b) ==
  /\ a \in Seq([off : Nat, cap : Nat, port : 1..b])
  /\ \A x, y \in DOMAIN a : x < y => a[x].off + a[x].cap <= a[y].off
  /\ \A x \in DOMAIN a : /\ a[x].cap >= q[a[x].port].size /\ a[x].off + a[x].cap <= ArenaMax
                         /\ a[x].off % 8 = 0 /\ a[x].cap % 8 = 0
  /\ \A i \in 1..b : /\ q[i].class \in Lv2Open!Atoms => \E x \in DOMAIN a : a[x].port = i
                     /\ q[i].class = "other" => q[i].optional

SlotOf(a, i) == CHOOSE x \in DOMAIN a : a[x].port = i

\* What port i is connected to: inputs and outputs by how many came before.
Wired(q, m, a, i) ==
  CASE q[i].class = "audio_in" ->
         [to |-> "in", at |-> IF Tally(q, "audio_in", i - 1) < m THEN Tally(q, "audio_in", i - 1)
                              ELSE m - 1]
    [] q[i].class = "audio_out" ->
         IF Tally(q, "audio_out", i - 1) < m
         THEN [to |-> "out", at |-> Tally(q, "audio_out", i - 1)] ELSE [to |-> "sink", at |-> 0]
    [] q[i].class = "side_in"  -> [to |-> "side_in", at |-> 0]
    [] q[i].class = "side_out" -> [to |-> "sink", at |-> 0]
    [] q[i].class = "ctrl_in" \/ q[i].class = "ctrl_out" -> [to |-> "ctrl", at |-> i - 1]
    [] q[i].class = "atom_in" \/ q[i].class = "atom_out" ->
         [to |-> "arena", at |-> SlotOf(a, i)]
    [] q[i].class = "other"    -> [to |-> "null", at |-> 0]

Buffers(q, m, a) == {Wired(q, m, a, i) : i \in 1..Len(q)}

\* No channel is without an input, unless all are.
Enough(q, m) == Tally(q, "audio_in", Len(q)) = 0 \/ Tally(q, "audio_in", Len(q)) >= m

PortInv ==
  /\ ports \in Seq(Lv2Open!Ports) /\ ch \in Nat \ {0}
  /\ stage \in {"classify", "connect", "open"} =>
       /\ k \in 0..Len(ports)
       /\ n = [ins |-> Tally(ports, "audio_in", k), outs |-> Tally(ports, "audio_out", k)]
  /\ stage = "classify" => Laid(ports, arena, k) /\ buffer = <<>>
  /\ stage \in {"connect", "open"} =>
       /\ Laid(ports, arena, Len(ports)) /\ Enough(ports, ch)
       /\ buffer \in Seq(Buffers(ports, ch, arena)) /\ Len(buffer) = k
       /\ \A i \in 1..k : buffer[i] = Wired(ports, ch, arena, i)
  /\ stage = "open" => k = Len(ports)

LEMMA PortBounds ==
  Sizes \subseteq Nat /\ AtomBuf \in Nat /\ ArenaMax \in Nat /\ Channels \subseteq Nat \ {0}
  BY PortAssumption DEF Lv2Open!Assumptions

LEMMA TallyStep ==
  ASSUME NEW q, NEW class, NEW b \in Nat
  PROVE  /\ Tally(q, class, b) \in Nat /\ Tally(q, class, 0) = 0
         /\ Tally(q, class, b + 1) = Tally(q, class, b) + (IF q[b + 1].class = class THEN 1 ELSE 0)
<1> DEFINE T(j) == {i \in 1..j : q[i].class = class}
<1>1. T(0) = {}
  OBVIOUS
<1>2. IsFiniteSet(T(b)) /\ Cardinality(T(b)) \in Nat
  <2>1. IsFiniteSet(1..b)
    BY FS_Interval
  <2>2. T(b) \subseteq 1..b
    OBVIOUS
  <2> HIDE DEF T
  <2> QED
    BY <2>1, <2>2, FS_Subset, FS_CardinalityType
<1>3. T(b + 1) = IF q[b + 1].class = class THEN T(b) \cup {b + 1} ELSE T(b)
  <2>1. 1..b + 1 = 1..b \cup {b + 1}
    OBVIOUS
  <2> QED
    BY <2>1
<1>4. b + 1 \notin T(b)
  OBVIOUS
<1>5. /\ Tally(q, class, 0) = Cardinality(T(0)) /\ Tally(q, class, b) = Cardinality(T(b))
      /\ Tally(q, class, b + 1) = Cardinality(T(b + 1))
  BY DEF Tally
<1> HIDE DEF T
<1>6. CASE q[b + 1].class = class
  <2>1. Cardinality(T(b + 1)) = Cardinality(T(b)) + 1
    BY <1>2, <1>3, <1>4, <1>6, FS_AddElement
  <2> QED
    BY <2>1, <1>1, <1>2, <1>5, <1>6, FS_EmptySet
<1>7. CASE q[b + 1].class # class
  <2>1. Cardinality(T(b + 1)) = Cardinality(T(b))
    BY <1>3, <1>7
  <2> QED
    BY <2>1, <1>1, <1>2, <1>5, <1>7, FS_EmptySet
<1> QED
  BY <1>6, <1>7

LEMMA TallyPast ==
  ASSUME NEW q, NEW class, NEW i \in Nat \ {0}
  PROVE  /\ Tally(q, class, i - 1) \in Nat
         /\ Tally(q, class, i) = Tally(q, class, i - 1) + (IF q[i].class = class THEN 1 ELSE 0)
<1>1. PICK b \in Nat : i = b + 1 /\ i - 1 = b
  OBVIOUS
<1> QED
  BY <1>1, TallyStep

LEMMA TallyGrows ==
  ASSUME NEW q, NEW class, NEW b \in Nat, NEW m \in Nat, b <= m
  PROVE  Tally(q, class, b) <= Tally(q, class, m)
<1> DEFINE T(j) == {i \in 1..j : q[i].class = class}
<1>1. T(b) \subseteq T(m) /\ T(m) \subseteq 1..m
  OBVIOUS
<1>2. Tally(q, class, b) = Cardinality(T(b)) /\ Tally(q, class, m) = Cardinality(T(m))
  BY DEF Tally
<1> HIDE DEF T
<1>3. IsFiniteSet(T(m))
  BY <1>1, FS_Interval, FS_Subset
<1> QED
  BY <1>1, <1>2, <1>3, FS_Subset

\* Whatever is less than their number, one port of a class has that many before it.
LEMMA TallyMeets ==
  ASSUME NEW q, NEW class, NEW m \in Nat, NEW x \in Nat, x < Tally(q, class, m)
  PROVE  \E i \in 1..m : q[i].class = class /\ Tally(q, class, i - 1) = x
<1> DEFINE I == {i \in 1..m : x < Tally(q, class, i)}
<1>1. m \in I
  BY TallyStep
<1>2. PICK i \in I : \A j \in I : i <= j
  <2>1. I \subseteq Nat /\ I # {}
    BY <1>1
  <2> HIDE DEF I
  <2> QED
    BY <2>1, LeastOf
<1>3. i \in 1..m /\ i - 1 \in Nat /\ i - 1 + 1 = i /\ x < Tally(q, class, i)
  OBVIOUS
<1>4. ~(x < Tally(q, class, i - 1))
  <2>1. CASE i = 1
    BY <2>1, TallyStep
  <2>2. CASE i # 1
    BY <1>2, <1>3, <2>2
  <2> QED
    BY <2>1, <2>2
<1> HIDE DEF I
<1>5. /\ Tally(q, class, i - 1) \in Nat
      /\ Tally(q, class, i) = Tally(q, class, i - 1) + (IF q[i].class = class THEN 1 ELSE 0)
  BY <1>3, TallyPast
<1> QED
  BY <1>3, <1>4, <1>5

\* A slot is large enough and a multiple of 8.
LEMMA CapHolds ==
  ASSUME NEW size \in Nat
  PROVE  /\ Lv2Open!AtomCap(size) \in Nat /\ Lv2Open!AtomCap(size) >= size
         /\ Lv2Open!AtomCap(size) % 8 = 0
<1>1. PICK z \in Nat : z >= size /\ Lv2Open!AtomCap(size) = ((z + 7) \div 8) * 8
  BY PortBounds DEF Lv2Open!AtomCap
<1>2. PICK r \in Nat : r = (z + 7) \div 8
  BY <1>1
<1>3. 8 * r <= z + 7 /\ z + 7 < 8 * r + 8
  BY <1>2
<1> QED
  BY <1>1, <1>2, <1>3

\* A class that is none of the others is "other".
LEMMA PortKinds ==
  ASSUME NEW q \in Seq(Lv2Open!Ports), NEW i \in 1..Len(q)
  PROVE  /\ q[i].class \in {"audio_in", "audio_out", "side_in", "side_out", "ctrl_in",
                            "ctrl_out", "atom_in", "atom_out", "other"}
         /\ q[i].size \in Nat
<1>1. q[i] \in Lv2Open!Ports
  BY LenProperties, ElementOfSeq
<1> QED
  BY <1>1, PortBounds DEF Lv2Open!Ports, Lv2Open!Classes

LEMMA LaidNone ==
  ASSUME NEW q
  PROVE  Laid(q, <<>>, 0)
<1>1. <<>> \in Seq([off : Nat, cap : Nat, port : 1..0]) /\ DOMAIN <<>> = {}
  OBVIOUS
<1>2. 1..0 = {}
  OBVIOUS
<1> QED
  BY <1>1, <1>2 DEF Laid

\* A port that takes no slot.
LEMMA LaidPlain ==
  ASSUME NEW q, NEW a, NEW b \in Nat, Laid(q, a, b), q[b + 1].class \notin Lv2Open!Atoms,
         q[b + 1].class = "other" => q[b + 1].optional
  PROVE  Laid(q, a, b + 1)
<1>1. a \in Seq([off : Nat, cap : Nat, port : 1..b + 1])
  <2>1. a \in Seq([off : Nat, cap : Nat, port : 1..b])
    BY DEF Laid
  <2> DEFINE R == [off : Nat, cap : Nat, port : 1..b]
             Q == [off : Nat, cap : Nat, port : 1..b + 1]
  <2>2. a \in Seq(R) /\ R \subseteq Q
    BY <2>1
  <2>3. a \in Seq(Q)
    <3> HIDE DEF R, Q
    <3> QED
      BY <2>2
  <2> QED
    BY <2>3
<1>2. \A i \in 1..b + 1 : i \in 1..b \/ i = b + 1
  OBVIOUS
<1> QED
  BY <1>1, <1>2 DEF Laid

\* The next slot: it starts where the last one ends.
LEMMA LaidNext ==
  ASSUME NEW q, NEW a, NEW b \in Nat, Laid(q, a, b), NEW z \in Nat, NEW c \in Nat,
         z = IF a = <<>> THEN 0 ELSE a[Len(a)].off + a[Len(a)].cap,
         z + c <= ArenaMax, c % 8 = 0, c >= q[b + 1].size, q[b + 1].class # "other"
  PROVE  Laid(q, Append(a, [off |-> z, cap |-> c, port |-> b + 1]), b + 1)
<1> DEFINE R == [off : Nat, cap : Nat, port : 1..b]
           Q == [off : Nat, cap : Nat, port : 1..b + 1]
<1>e. PICK e : e = [off |-> z, cap |-> c, port |-> b + 1]
  OBVIOUS
<1>g. PICK g : g = Append(a, e)
  OBVIOUS
<1>1. e \in Q /\ e.off = z /\ e.cap = c /\ e.port = b + 1
  BY <1>e
<1>2. a \in Seq(R) /\ a \in Seq(Q)
  <2>1. a \in Seq(R) /\ R \subseteq Q
    BY DEF Laid
  <2> HIDE DEF R, Q
  <2> QED
    BY <2>1
<1>3. /\ Len(a) \in Nat /\ DOMAIN a = 1..Len(a)
      /\ \A x \in 1..Len(a) : a[x].off \in Nat /\ a[x].cap \in Nat /\ a[x].port \in 1..b
  <2>1. \A x \in 1..Len(a) : a[x] \in R
    BY <1>2, ElementOfSeq
  <2> QED
    BY <1>2, <2>1, LenProperties
<1>4. /\ g \in Seq(Q) /\ Len(g) = Len(a) + 1 /\ DOMAIN g = 1..Len(a) + 1
      /\ g[Len(a) + 1] = e /\ \A x \in 1..Len(a) : g[x] = a[x]
  <2> HIDE DEF R, Q
  <2> QED
    BY <1>1, <1>2, <1>3, <1>g, AppendProperties, LenProperties
<1>5. z % 8 = 0 /\ \A x \in 1..Len(a) : a[x].off + a[x].cap <= z
  <2>1. CASE Len(a) = 0
    <3>1. a = <<>>
      BY <1>2, <2>1, EmptySeq
    <3> QED
      BY <2>1, <3>1
  <2>2. CASE Len(a) # 0
    <3>1. a # <<>> /\ Len(a) \in 1..Len(a)
      BY <1>3, <2>2
    <3>2. z = a[Len(a)].off + a[Len(a)].cap
      BY <3>1
    <3>3. a[Len(a)].off % 8 = 0 /\ a[Len(a)].cap % 8 = 0
      BY <1>3, <3>1 DEF Laid
    <3>4. z % 8 = 0
      <4> PICK x \in Nat : x = a[Len(a)].off
        BY <1>3, <3>1
      <4> PICK y \in Nat : y = a[Len(a)].cap
        BY <1>3, <3>1
      <4>1. z = x + y /\ x % 8 = 0 /\ y % 8 = 0
        BY <3>2, <3>3
      <4> QED
        BY ONLY <4>1, x \in Nat, y \in Nat
    <3>5. ASSUME NEW x \in 1..Len(a) PROVE a[x].off + a[x].cap <= z
      <4>1. CASE x = Len(a)
        BY <3>2, <4>1, <1>3
      <4>2. CASE x # Len(a)
        <5>1. x < Len(a)
          <6>1. Len(a) \in Nat
            BY <1>3
          <6> QED
            BY <6>1, <4>2
        <5>2. a[x].off + a[x].cap <= a[Len(a)].off
          BY <1>3, <3>1, <5>1 DEF Laid
        <5>3. /\ a[x].off \in Nat /\ a[x].cap \in Nat
              /\ a[Len(a)].off \in Nat /\ a[Len(a)].cap \in Nat
          BY <1>3, <3>1
        <5>4. \A i, j, l, m \in Nat : i + j <= l => i + j <= l + m
          OBVIOUS
        <5> QED
          BY <3>2, <5>2, <5>3, <5>4
      <4> QED
        BY <4>1, <4>2
    <3> QED
      BY <3>4, <3>5
  <2> QED
    BY <2>1, <2>2
<1>6. ASSUME NEW x \in DOMAIN g, NEW y \in DOMAIN g, x < y
      PROVE  g[x].off + g[x].cap <= g[y].off
  <2>1. x \in 1..Len(a)
    BY <1>3, <1>4, <1>6
  <2>2. CASE y = Len(a) + 1
    BY <1>1, <1>4, <1>5, <2>1, <2>2
  <2>3. CASE y \in 1..Len(a)
    BY <1>3, <1>4, <1>6, <2>1, <2>3 DEF Laid
  <2> QED
    BY <1>3, <1>4, <2>2, <2>3
<1>7. ASSUME NEW x \in DOMAIN g
      PROVE  /\ g[x].cap >= q[g[x].port].size /\ g[x].off + g[x].cap <= ArenaMax
             /\ g[x].off % 8 = 0 /\ g[x].cap % 8 = 0
  <2>1. CASE x = Len(a) + 1
    BY <1>1, <1>4, <1>5, <2>1
  <2>2. CASE x \in 1..Len(a)
    BY <1>3, <1>4, <2>2 DEF Laid
  <2> QED
    BY <1>3, <1>4, <2>1, <2>2
<1>8. ASSUME NEW i \in 1..b + 1
      PROVE  /\ q[i].class \in Lv2Open!Atoms => \E x \in DOMAIN g : g[x].port = i
             /\ q[i].class = "other" => q[i].optional
  <2>1. CASE i = b + 1
    <3>1. Len(a) + 1 \in DOMAIN g
      BY <1>3, <1>4
    <3>2. g[Len(a) + 1].port = i
      BY <1>1, <1>4, <2>1
    <3>3. q[i].class # "other"
      BY <2>1
    <3> QED
      BY <3>1, <3>2, <3>3
  <2>2. CASE i \in 1..b
    <3>1. /\ q[i].class \in Lv2Open!Atoms => \E x \in 1..Len(a) : a[x].port = i
          /\ q[i].class = "other" => q[i].optional
      BY <1>3, <2>2 DEF Laid
    <3>2. ASSUME NEW x \in 1..Len(a) PROVE x \in DOMAIN g /\ g[x].port = a[x].port
      <4>1. Len(a) \in Nat
        BY <1>3
      <4>2. x \in 1..Len(a) + 1
        BY <4>1
      <4> QED
        BY <1>4, <4>2
    <3> QED
      BY <3>1, <3>2
  <2> QED
    BY <2>1, <2>2
<1>9. Laid(q, g, b + 1)
  BY <1>4, <1>6, <1>7, <1>8 DEF Laid
<1> QED
  BY <1>9, <1>e, <1>g

LEMMA ClassifyInv ==
  ASSUME PortInv, Lv2Open!Classify
  PROVE  PortInv'
<1>1. /\ ports \in Seq(Lv2Open!Ports) /\ ch \in Nat \ {0} /\ k \in Nat /\ k < Len(ports)
      /\ n = [ins |-> Tally(ports, "audio_in", k), outs |-> Tally(ports, "audio_out", k)]
      /\ Laid(ports, arena, k) /\ buffer = <<>> /\ stage = "classify"
      /\ ports' = ports /\ ch' = ch /\ k' = k + 1 /\ buffer' = buffer
  BY LenProperties DEF PortInv, Lv2Open!Classify
<1>2. /\ Len(ports) \in Nat /\ k + 1 \in 0..Len(ports) /\ k + 1 \in 1..Len(ports)
  BY <1>1, LenProperties
<1>3. /\ Tally(ports, "audio_in", k + 1) = n.ins
                              + (IF ports[k + 1].class = "audio_in" THEN 1 ELSE 0)
      /\ Tally(ports, "audio_out", k + 1) = n.outs
                              + (IF ports[k + 1].class = "audio_out" THEN 1 ELSE 0)
      /\ n.ins \in Nat /\ n.outs \in Nat /\ n = [ins |-> n.ins, outs |-> n.outs]
  <2>1. n.ins = Tally(ports, "audio_in", k) /\ n.outs = Tally(ports, "audio_out", k)
    BY <1>1
  <2>2. ASSUME NEW class
        PROVE  /\ Tally(ports, class, k) \in Nat
               /\ Tally(ports, class, k + 1)
                    = Tally(ports, class, k) + (IF ports[k + 1].class = class THEN 1 ELSE 0)
    <3>1. k \in Nat
      BY <1>1
    <3> QED
      BY <3>1, TallyStep
  <2> QED
    BY <1>1, <2>1, <2>2
<1>4. ASSUME stage' = "failed" PROVE PortInv'
  BY <1>1, <1>4 DEF PortInv
<1>5. ASSUME stage' = stage, Laid(ports, arena', k + 1),
             n' = [ins |-> Tally(ports, "audio_in", k + 1), outs |-> Tally(ports, "audio_out", k + 1)]
      PROVE  PortInv'
  BY <1>1, <1>2, <1>5 DEF PortInv
<1>6. CASE Lv2Open!ClassifyPlain
  <2>1. Laid(ports, arena, k + 1)
    BY <1>1, <1>6, LaidPlain DEF Lv2Open!ClassifyPlain, Lv2Open!Is, Lv2Open!Atoms
  <2> QED
    BY <1>3, <1>5, <1>6, <2>1 DEF Lv2Open!ClassifyPlain, Lv2Open!Is
<1>7. CASE Lv2Open!ClassifyRequired
  BY <1>4, <1>7 DEF Lv2Open!ClassifyRequired, Lv2Open!Fail
<1>8. CASE Lv2Open!ClassifyAtom
  <2>c. PICK c : c = Lv2Open!AtomCap(ports[k + 1].size)
    OBVIOUS
  <2>z. PICK z : z = Lv2Open!ArenaBytes
    OBVIOUS
  <2>1. CASE stage' = "failed"
    BY <1>4, <2>1
  <2>2. CASE stage' # "failed"
    <3>1. /\ ~(z + c > ArenaMax)
          /\ arena' = Append(arena, [off |-> z, cap |-> c, port |-> k + 1])
          /\ n' = n /\ stage' = stage
          /\ ports[k + 1].class \in {"atom_in", "atom_out"}
      BY <1>8, <2>2, <2>c, <2>z DEF Lv2Open!ClassifyAtom, Lv2Open!Fail, Lv2Open!Is
    <3>2. c \in Nat /\ c >= ports[k + 1].size /\ c % 8 = 0
      BY <1>1, <1>2, <2>c, PortKinds, CapHolds
    <3>3. z \in Nat /\ z = IF arena = <<>> THEN 0 ELSE arena[Len(arena)].off + arena[Len(arena)].cap
      <4>1. arena \in Seq([off : Nat, cap : Nat, port : 1..k])
        BY <1>1 DEF Laid
      <4>2. arena = <<>> \/ arena[Len(arena)] \in [off : Nat, cap : Nat, port : 1..k]
        <5> DEFINE R == [off : Nat, cap : Nat, port : 1..k]
        <5>1. arena \in Seq(R)
          BY <4>1
        <5> HIDE DEF R
        <5>2. arena = <<>> \/ Len(arena) \in 1..Len(arena)
          BY <5>1, EmptySeq, LenProperties
        <5>3. arena = <<>> \/ arena[Len(arena)] \in R
          BY <5>1, <5>2, ElementOfSeq
        <5> QED
          BY <5>3 DEF R
      <4> QED
        BY <2>z, <4>2 DEF Lv2Open!ArenaBytes
    <3>4. z + c <= ArenaMax
      BY <3>1, <3>2, <3>3, PortBounds
    <3>5. Laid(ports, arena', k + 1)
      BY <1>1, <3>1, <3>2, <3>3, <3>4, LaidNext
    <3>6. n' = [ins |-> Tally(ports, "audio_in", k + 1),
                outs |-> Tally(ports, "audio_out", k + 1)]
      BY <1>3, <3>1
    <3> QED
      BY <1>5, <3>1, <3>5, <3>6
  <2> QED
    BY <2>1, <2>2
<1> QED
  BY <1>6, <1>7, <1>8 DEF Lv2Open!Classify

LEMMA CheckedInv ==
  ASSUME PortInv, Lv2Open!Checked
  PROVE  PortInv'
<1>1. /\ ports \in Seq(Lv2Open!Ports) /\ ch \in Nat \ {0} /\ k = Len(ports)
      /\ n = [ins |-> Tally(ports, "audio_in", k), outs |-> Tally(ports, "audio_out", k)]
      /\ Laid(ports, arena, k) /\ buffer = <<>> /\ stage = "classify"
      /\ ports' = ports /\ ch' = ch /\ k' = 0 /\ buffer' = buffer /\ arena' = arena
      /\ n' = [ins |-> 0, outs |-> 0]
      /\ stage' = IF n.ins > 0 /\ n.ins < ch THEN "failed" ELSE "connect"
  BY DEF PortInv, Lv2Open!Checked
<1>2. CASE n.ins > 0 /\ n.ins < ch
  BY <1>1, <1>2 DEF PortInv
<1>3. CASE ~(n.ins > 0 /\ n.ins < ch)
  <2>1. k \in Nat
    BY <1>1, LenProperties
  <2>2. n.ins = Tally(ports, "audio_in", k) /\ n.ins \in Nat
    BY <1>1, <2>1, TallyStep
  <2>3. Enough(ports, ch)
    BY <1>1, <1>3, <2>2 DEF Enough
  <2>4. /\ <<>> \in Seq(Buffers(ports, ch, arena)) /\ Len(<<>>) = 0 /\ 1..0 = {}
    OBVIOUS
  <2>5. Tally(ports, "audio_in", 0) = 0 /\ Tally(ports, "audio_out", 0) = 0
    BY TallyStep
  <2>6. 0 \in 0..Len(ports)
    BY <1>1, <2>1
  <2> QED
    BY <1>1, <1>3, <2>3, <2>4, <2>5, <2>6 DEF PortInv
<1> QED
  BY <1>2, <1>3

LEMMA ConnectInv ==
  ASSUME PortInv, Lv2Open!Connect
  PROVE  PortInv'
<1> PICK target : target = Lv2Open!Target
  OBVIOUS
<1>1. /\ ports \in Seq(Lv2Open!Ports) /\ ch \in Nat \ {0} /\ k \in Nat /\ k < Len(ports)
      /\ n = [ins |-> Tally(ports, "audio_in", k), outs |-> Tally(ports, "audio_out", k)]
      /\ Laid(ports, arena, Len(ports)) /\ Enough(ports, ch) /\ stage = "connect"
      /\ ports' = ports /\ ch' = ch /\ k' = k + 1 /\ arena' = arena /\ stage' = stage
      /\ buffer' = Append(buffer, target)
      /\ n' = [ins |-> n.ins + (IF ports[k + 1].class = "audio_in" THEN 1 ELSE 0),
               outs |-> n.outs + (IF ports[k + 1].class = "audio_out" THEN 1 ELSE 0)]
  BY LenProperties DEF PortInv, Lv2Open!Connect, Lv2Open!Is
<1>2. /\ buffer \in Seq(Buffers(ports, ch, arena)) /\ Len(buffer) = k
      /\ \A i \in 1..k : buffer[i] = Wired(ports, ch, arena, i)
  BY <1>1 DEF PortInv
<1>3. /\ Len(ports) \in Nat /\ k + 1 \in 0..Len(ports) /\ k + 1 \in 1..Len(ports)
      /\ k + 1 - 1 = k
  BY <1>1, LenProperties
<1>4. n' = [ins |-> Tally(ports, "audio_in", k + 1), outs |-> Tally(ports, "audio_out", k + 1)]
  <2>1. n.ins = Tally(ports, "audio_in", k) /\ n.outs = Tally(ports, "audio_out", k)
    BY <1>1
  <2>2. ASSUME NEW class
        PROVE  Tally(ports, class, k + 1)
                 = Tally(ports, class, k) + (IF ports[k + 1].class = class THEN 1 ELSE 0)
    <3>1. k \in Nat
      BY <1>1
    <3> QED
      BY <3>1, TallyStep
  <2> QED
    BY <1>1, <2>1, <2>2
<1>5. target = Wired(ports, ch, arena, k + 1)
  <2>1. n.ins = Tally(ports, "audio_in", k) /\ n.outs = Tally(ports, "audio_out", k)
    BY <1>1
  <2>2. Lv2Open!Slot(k + 1) = SlotOf(arena, k + 1)
    BY DEF Lv2Open!Slot, SlotOf
  <2>3. ports[k + 1].class \in {"audio_in", "audio_out", "side_in", "side_out", "ctrl_in",
                                "ctrl_out", "atom_in", "atom_out", "other"}
    BY <1>1, <1>3, PortKinds
  <2> PICK x : x = Lv2Open!Slot(k + 1)
    OBVIOUS
  <2> PICK i : i = k + 1
    OBVIOUS
  <2>4. i - 1 = k /\ x = SlotOf(arena, i)
    <3>1. k \in Nat
      BY <1>1
    <3>2. i - 1 = k
      BY <3>1
    <3> QED
      BY <2>2, <3>2
  <2>5. CASE ports[i].class = "audio_in"
    BY <2>1, <2>4, <2>5 DEF Lv2Open!Target, Lv2Open!Is, Wired
  <2>6. CASE ports[i].class = "audio_out"
    BY <2>1, <2>4, <2>6 DEF Lv2Open!Target, Lv2Open!Is, Wired
  <2>7. CASE ports[i].class \in {"atom_in", "atom_out"}
    BY <2>4, <2>7 DEF Lv2Open!Target, Lv2Open!Is, Wired
  <2>8. CASE ports[i].class \in {"side_in", "side_out", "ctrl_in", "ctrl_out", "other"}
    BY <2>4, <2>8 DEF Lv2Open!Target, Lv2Open!Is, Wired
  <2> QED
    BY <2>3, <2>5, <2>6, <2>7, <2>8
<1>6. /\ buffer' \in Seq(Buffers(ports, ch, arena)) /\ Len(buffer') = k + 1
      /\ \A i \in 1..k + 1 : buffer'[i] = Wired(ports, ch, arena, i)
  <2>1. target \in Buffers(ports, ch, arena)
    BY <1>3, <1>5 DEF Buffers
  <2>2. /\ buffer' \in Seq(Buffers(ports, ch, arena)) /\ Len(buffer') = k + 1
        /\ buffer'[k + 1] = target /\ \A i \in 1..k : buffer'[i] = buffer[i]
    BY <1>1, <1>2, <2>1, AppendProperties
  <2>3. \A i \in 1..k + 1 : i \in 1..k \/ i = k + 1
    BY <1>1
  <2> QED
    BY <1>2, <1>5, <2>2, <2>3
<1> QED
  BY <1>1, <1>3, <1>4, <1>6 DEF PortInv

LEMMA PortInvariance == HostSpec => []PortInv
<1>1. ASSUME HostInit PROVE PortInv
  <2>1. CASE NoPorts
    <3>1. <<>> \in Seq(Lv2Open!Ports)
      OBVIOUS
    <3> QED
      BY <2>1, <3>1 DEF NoPorts, PortInv
  <2>2. CASE Lv2Open!Init
    <3>1. ports \in Seq(Lv2Open!Ports)
      <4>1. PICK m \in 0..MaxPorts : ports \in [1..m -> Lv2Open!Ports]
        BY <2>2 DEF Lv2Open!Init
      <4>2. m \in Nat
        OBVIOUS
      <4> QED
        BY <4>1, <4>2, IsASeq
    <3>2. Len(ports) \in Nat /\ 0 \in 0..Len(ports)
      BY <3>1, LenProperties
    <3>3. Tally(ports, "audio_in", 0) = 0 /\ Tally(ports, "audio_out", 0) = 0
      BY TallyStep
    <3> QED
      BY <2>2, <3>1, <3>2, <3>3, LaidNone, PortBounds DEF Lv2Open!Init, PortInv
  <2> QED
    BY <1>1, <2>1, <2>2 DEF HostInit
<1>2. ASSUME PortInv, [HostNext]_<<host, blockVars, portVars, vars>> PROVE PortInv'
  <2>1. CASE Lv2Open!Connected
    BY <1>2, <2>1 DEF Lv2Open!Connected, PortInv
  <2>2. CASE UNCHANGED portVars
    BY <1>2, <2>2 DEF portVars, PortInv
  <2> QED
    BY <1>2, <2>1, <2>2, ClassifyInv, CheckedInv, ConnectInv DEF HostNext, Lv2Open!Next
<1> QED
  BY <1>1, <1>2, PTL DEF HostSpec

\* Distinct ports have distinct buffers, but for what several may share.
LEMMA WiredApart ==
  ASSUME NEW q \in Seq(Lv2Open!Ports), NEW m \in Nat \ {0}, NEW a, Laid(q, a, Len(q)),
         NEW i \in 1..Len(q), NEW j \in 1..Len(q), i < j,
         Wired(q, m, a, i) = Wired(q, m, a, j)
  PROVE  Wired(q, m, a, i).to \in {"in", "side_in", "sink", "null"}
<1> DEFINE Kinds == {"audio_in", "audio_out", "side_in", "side_out", "ctrl_in", "ctrl_out",
                     "atom_in", "atom_out", "other"}
<1>1. q[i].class \in Kinds /\ q[j].class \in Kinds
  BY PortKinds
<1>2. Len(q) \in Nat
  BY LenProperties
<1>3. CASE q[i].class = "audio_out" /\ q[j].class = "audio_out"
  <2> PICK x : x = Tally(q, "audio_out", i - 1)
    OBVIOUS
  <2> PICK y : y = Tally(q, "audio_out", j - 1)
    OBVIOUS
  <2>1. i - 1 \in Nat /\ j - 1 \in Nat /\ i \in Nat /\ i <= j - 1 /\ i - 1 + 1 = i
    BY <1>2
  <2>2. x \in Nat /\ Tally(q, "audio_out", i) = x + 1
    <3>1. i \in Nat \ {0}
      BY <2>1
    <3> QED
      BY <1>3, <3>1, TallyPast
  <2>3. y \in Nat /\ Tally(q, "audio_out", i) <= y
    BY <2>1, TallyStep, TallyGrows
  <2>4. x # y
    BY <2>2, <2>3
  <2>5. /\ Wired(q, m, a, i) = IF x < m THEN [to |-> "out", at |-> x] ELSE [to |-> "sink", at |-> 0]
        /\ Wired(q, m, a, j) = IF y < m THEN [to |-> "out", at |-> y] ELSE [to |-> "sink", at |-> 0]
    BY <1>3 DEF Wired
  <2> PICK u : u = Wired(q, m, a, i)
    OBVIOUS
  <2>6. ASSUME u.to # "sink" PROVE u.at = x /\ u.at = y
    <3>1. u = IF x < m THEN [to |-> "out", at |-> x] ELSE [to |-> "sink", at |-> 0]
      BY <2>5
    <3>2. u = IF y < m THEN [to |-> "out", at |-> y] ELSE [to |-> "sink", at |-> 0]
      BY <2>5
    <3>3. u = [to |-> "out", at |-> x] /\ u = [to |-> "out", at |-> y]
      BY <2>6, <3>1, <3>2
    <3> QED
      BY <3>3
  <2>7. u.to = "sink"
    BY <2>4, <2>6
  <2> QED
    BY <2>7
<1>4. CASE q[i].class \in {"ctrl_in", "ctrl_out"} /\ q[j].class \in {"ctrl_in", "ctrl_out"}
  <2>1. Wired(q, m, a, i) = [to |-> "ctrl", at |-> i - 1]
    BY <1>4 DEF Wired
  <2>2. Wired(q, m, a, j) = [to |-> "ctrl", at |-> j - 1]
    BY <1>4 DEF Wired
  <2>3. i - 1 = j - 1
    <3>1. [to |-> "ctrl", at |-> i - 1].at = [to |-> "ctrl", at |-> j - 1].at
      BY <2>1, <2>2
    <3> QED
      BY <3>1
  <2> QED
    BY <1>2, <2>3
<1>5. CASE q[i].class \in Lv2Open!Atoms /\ q[j].class \in Lv2Open!Atoms
  <2>1. Wired(q, m, a, i) = [to |-> "arena", at |-> SlotOf(a, i)]
    BY <1>5 DEF Wired, Lv2Open!Atoms
  <2>2. Wired(q, m, a, j) = [to |-> "arena", at |-> SlotOf(a, j)]
    BY <1>5 DEF Wired, Lv2Open!Atoms
  <2>3. SlotOf(a, i) = SlotOf(a, j)
    <3>1. [to |-> "arena", at |-> SlotOf(a, i)].at = [to |-> "arena", at |-> SlotOf(a, j)].at
      BY <2>1, <2>2
    <3> QED
      BY <3>1
  <2>4. a[SlotOf(a, i)].port = i
    <3>1. \E x \in DOMAIN a : a[x].port = i
      BY <1>5 DEF Laid
    <3> QED
      BY <3>1 DEF SlotOf
  <2>5. a[SlotOf(a, j)].port = j
    <3>1. \E x \in DOMAIN a : a[x].port = j
      BY <1>5 DEF Laid
    <3> QED
      BY <3>1 DEF SlotOf
  <2> QED
    BY <1>2, <2>3, <2>4, <2>5
<1>6. CASE q[i].class \in {"audio_in", "side_in", "side_out", "other"}
  BY <1>6 DEF Wired
<1>7. CASE /\ q[i].class = "audio_out" /\ q[j].class # "audio_out"
  <2>1. /\ Wired(q, m, a, i).to \in {"out", "sink"}
        /\ Wired(q, m, a, j).to # "out"
    BY <1>1, <1>7 DEF Wired
  <2> QED
    BY <2>1
<1>8. CASE /\ q[i].class \in {"ctrl_in", "ctrl_out"} /\ q[j].class \notin {"ctrl_in", "ctrl_out"}
  <2>1. Wired(q, m, a, i).to = "ctrl" /\ Wired(q, m, a, j).to # "ctrl"
    BY <1>1, <1>8 DEF Wired
  <2> QED
    BY <2>1
<1>9. CASE /\ q[i].class \in Lv2Open!Atoms /\ q[j].class \notin Lv2Open!Atoms
  <2>1. Wired(q, m, a, i).to = "arena" /\ Wired(q, m, a, j).to # "arena"
    BY <1>1, <1>9 DEF Wired, Lv2Open!Atoms
  <2> QED
    BY <2>1
<1> QED
  BY <1>1, <1>3, <1>4, <1>5, <1>6, <1>7, <1>8, <1>9 DEF Lv2Open!Atoms

LEMMA InputsFed ==
  ASSUME NEW q \in Seq(Lv2Open!Ports), NEW m \in Nat \ {0}, NEW a, Enough(q, m),
         NEW I, I = {i \in 1..Len(q) : q[i].class = "audio_in"}, I # {}
  PROVE  {Wired(q, m, a, i).at : i \in I} = 0..m - 1
<1>1. Len(q) \in Nat
  BY LenProperties
<1>2. PICK x \in I : TRUE
  OBVIOUS
<1>3. Tally(q, "audio_in", Len(q)) >= m
  <2>1. x - 1 \in Nat /\ x \in Nat /\ x <= Len(q) /\ x - 1 + 1 = x /\ q[x].class = "audio_in"
    BY <1>1, <1>2
  <2>2. Tally(q, "audio_in", x) >= 1
    <3>1. x \in Nat \ {0}
      BY <2>1
    <3>2. Tally(q, "audio_in", x - 1) \in Nat
      BY <3>1, TallyPast
    <3>3. Tally(q, "audio_in", x) = Tally(q, "audio_in", x - 1) + 1
      BY <2>1, <3>1, TallyPast
    <3> QED
      BY <3>2, <3>3
  <2>3. Tally(q, "audio_in", x) <= Tally(q, "audio_in", Len(q))
    BY <1>1, <2>1, TallyGrows
  <2>4. Tally(q, "audio_in", x) \in Nat /\ Tally(q, "audio_in", Len(q)) \in Nat
    BY <1>1, <2>1, TallyStep
  <2> QED
    BY <2>2, <2>3, <2>4 DEF Enough
<1>4. ASSUME NEW i \in I PROVE Wired(q, m, a, i).at \in 0..m - 1
  <2>1. i - 1 \in Nat /\ q[i].class = "audio_in"
    BY <1>1
  <2>2. Tally(q, "audio_in", i - 1) \in Nat
    BY <2>1, TallyStep
  <2>3. Wired(q, m, a, i).at
          = IF Tally(q, "audio_in", i - 1) < m THEN Tally(q, "audio_in", i - 1) ELSE m - 1
    BY <2>1 DEF Wired
  <2> QED
    BY <2>2, <2>3
<1>5. ASSUME NEW c \in 0..m - 1 PROVE \E i \in I : Wired(q, m, a, i).at = c
  <2>1. c \in Nat /\ c < m /\ c < Tally(q, "audio_in", Len(q))
    <3>1. Tally(q, "audio_in", Len(q)) \in Nat
      BY <1>1, TallyStep
    <3> QED
      BY <1>3, <3>1
  <2>2. PICK i \in 1..Len(q) : q[i].class = "audio_in" /\ Tally(q, "audio_in", i - 1) = c
    BY <1>1, <2>1, TallyMeets
  <2> QED
    BY <2>1, <2>2 DEF Wired
<1> QED
  BY <1>4, <1>5

\* Outputs without a channel of their own go to the sink.
LEMMA OutputsRead ==
  ASSUME NEW q \in Seq(Lv2Open!Ports), NEW m \in Nat \ {0}, NEW a, NEW I,
         I = {i \in 1..Len(q) : Wired(q, m, a, i).to = "out"}
  PROVE  {Wired(q, m, a, i).at : i \in I} \cup Tally(q, "audio_out", Len(q))..m - 1 = 0..m - 1
<1>1. Len(q) \in Nat
  BY LenProperties
<1>2. Tally(q, "audio_out", Len(q)) \in Nat
  BY <1>1, TallyStep
<1>3. ASSUME NEW i \in I PROVE Wired(q, m, a, i).at \in 0..m - 1
  <2>1. i \in 1..Len(q) /\ i - 1 \in Nat /\ Wired(q, m, a, i).to = "out"
    BY <1>1
  <2>2. q[i].class = "audio_out"
    BY <2>1, PortKinds DEF Wired
  <2>3. Wired(q, m, a, i).at = Tally(q, "audio_out", i - 1) /\ Tally(q, "audio_out", i - 1) < m
    BY <2>1, <2>2 DEF Wired
  <2>4. Tally(q, "audio_out", i - 1) \in Nat
    BY <2>1, TallyStep
  <2> QED
    BY <2>3, <2>4
<1>4. ASSUME NEW c \in 0..m - 1, c < Tally(q, "audio_out", Len(q))
      PROVE  \E i \in I : Wired(q, m, a, i).at = c
  <2>1. PICK i \in 1..Len(q) : q[i].class = "audio_out" /\ Tally(q, "audio_out", i - 1) = c
    BY <1>1, <1>4, TallyMeets
  <2>2. Wired(q, m, a, i) = [to |-> "out", at |-> c]
    BY <2>1 DEF Wired
  <2> QED
    BY <2>2
<1>5. ASSUME NEW c \in Tally(q, "audio_out", Len(q))..m - 1 PROVE c \in 0..m - 1
  BY <1>2
<1>6. ASSUME NEW c \in 0..m - 1, ~(c < Tally(q, "audio_out", Len(q)))
      PROVE  c \in Tally(q, "audio_out", Len(q))..m - 1
  BY <1>2, <1>6
<1> QED
  BY <1>3, <1>4, <1>5, <1>6

\* For any plugin and any channels, whatever is opened has its required ports
\* connected, no channel dropped, and buffers that are not shared unless they may be
\* (lv2_host_open).
THEOREM PortsAreServed == HostSpec => []PortsServed
<1>1. ASSUME PortInv PROVE PortsServed
  <2> SUFFICES ASSUME stage = "open" PROVE PortsServed
    BY DEF PortsServed, Lv2Open!PortsServed
  <2> DEFINE q == ports
             W(i) == Wired(q, ch, arena, i)
  <2>1. /\ q \in Seq(Lv2Open!Ports) /\ ch \in Nat \ {0} /\ Laid(q, arena, Len(q)) /\ Enough(q, ch)
        /\ n.outs = Tally(q, "audio_out", Len(q)) /\ Len(buffer) = Len(q)
        /\ buffer \in Seq(Buffers(q, ch, arena))
        /\ \A i \in 1..Len(q) : buffer[i] = W(i)
    BY <1>1 DEF PortInv
  <2>2. Len(q) \in Nat /\ DOMAIN q = 1..Len(q) /\ DOMAIN buffer = 1..Len(q)
    BY <2>1, LenProperties
  <2>3. ASSUME NEW i \in DOMAIN ports, buffer[i].to = "null" PROVE ports[i].optional
    <3>1. i \in 1..Len(q) /\ W(i).to = "null"
      BY <2>1, <2>2, <2>3
    <3>2. q[i].class = "other"
      BY <2>1, <3>1, PortKinds DEF Wired
    <3> QED
      BY <2>1, <3>1, <3>2 DEF Laid
  <2>4. ASSUME Lv2Open!PortsTo("audio_in") # {}
        PROVE  {buffer[i].at : i \in Lv2Open!PortsTo("audio_in")} = 0..ch - 1
    <3> PICK I : I = {i \in 1..Len(q) : q[i].class = "audio_in"}
      OBVIOUS
    <3>1. Lv2Open!PortsTo("audio_in") = I
      BY <2>2 DEF Lv2Open!PortsTo
    <3>2. {W(i).at : i \in I} = 0..ch - 1
      <4>1. q \in Seq(Lv2Open!Ports) /\ ch \in Nat \ {0} /\ Enough(q, ch) /\ I # {}
        BY <2>1, <2>4, <3>1
      <4> HIDE DEF q
      <4> QED
        BY <4>1, InputsFed
    <3>3. \A i \in I : buffer[i] = W(i)
      BY <2>1
    <3>4. {buffer[i].at : i \in I} = {W(i).at : i \in I}
      <4> HIDE DEF W
      <4> QED
        BY <3>3
    <3> QED
      BY <3>1, <3>2, <3>4
  <2>5. ASSUME Lv2Open!PortsTo("audio_out") # {} PROVE Lv2Open!Written = 0..ch - 1
    <3> PICK I : I = {i \in 1..Len(q) : W(i).to = "out"}
      OBVIOUS
    <3>1. {W(i).at : i \in I} \cup Tally(q, "audio_out", Len(q))..ch - 1 = 0..ch - 1
      <4>1. q \in Seq(Lv2Open!Ports) /\ ch \in Nat \ {0}
        BY <2>1
      <4> HIDE DEF q
      <4> QED
        BY <4>1, OutputsRead
    <3>2. {j \in DOMAIN buffer : buffer[j].to = "out"} = I
      <4> HIDE DEF W
      <4> QED
        BY <2>1, <2>2
    <3>3. {buffer[i].at : i \in I} = {W(i).at : i \in I}
      <4>1. \A i \in I : buffer[i] = W(i)
        BY <2>1
      <4> HIDE DEF W
      <4> QED
        BY <4>1
    <3>4. Lv2Open!Written = {buffer[i].at : i \in {j \in DOMAIN buffer : buffer[j].to = "out"}}
                              \cup n.outs..ch - 1
      BY <2>5 DEF Lv2Open!Written
    <3>5. Lv2Open!Written = {buffer[i].at : i \in I} \cup n.outs..ch - 1
      BY <3>2, <3>4
    <3> QED
      BY <2>1, <3>1, <3>3, <3>5
  <2>6. ASSUME NEW i \in DOMAIN ports, NEW j \in DOMAIN ports, i # j, buffer[i] = buffer[j]
        PROVE  buffer[i].to \in {"in", "side_in", "sink", "null"}
    <3>1. i \in 1..Len(q) /\ j \in 1..Len(q) /\ buffer[i] = W(i) /\ buffer[j] = W(j)
      BY <2>1, <2>2
    <3>2. W(i) = W(j)
      BY <2>6, <3>1
    <3>3. W(i).to \in {"in", "side_in", "sink", "null"}
      <4>1. i < j \/ j < i
        BY <2>6, <3>1
      <4> HIDE DEF q
      <4>2. CASE i < j
        BY <2>1, <3>1, <3>2, <4>2, WiredApart
      <4>3. CASE j < i
        <5>1. W(j).to \in {"in", "side_in", "sink", "null"}
          BY <2>1, <3>1, <3>2, <4>3, WiredApart
        <5> QED
          BY <3>2, <5>1
      <4> QED
        BY <4>1, <4>2, <4>3
    <3> QED
      BY <3>1, <3>3
  <2> HIDE DEF W
  <2> QED
    BY <2>1, <2>3, <2>4, <2>5, <2>6 DEF PortsServed, Lv2Open!PortsServed, Laid
<1> QED
  BY <1>1, PortInvariance, PTL

=============================================================================
