--------------------------- MODULE ClapHost_proofs --------------------------
(***************************************************************************)
(* Proofs about the offline CLAP host, for any bundles, configurations,    *)
(* parameters, values, slots and bounds.  Its instances: modules are       *)
(* initialised exactly while used; input tokens of managed instances name  *)
(* their blocks, output tokens their instance and the frames read by them. *)
(* The parameters of one instance: the event queue is never overrun, a     *)
(* block that drives each parameter once fits, no change leaks into a      *)
(* later block, and what was accepted reaches the plugin.  The latency     *)
(* compensation, from LatencyComp_proofs.                                  *)
(***************************************************************************)
EXTENDS MCClapHost, FiniteSetTheorems, SequenceTheorems, WellFoundedInduction, TLAPS

Users(b) == {h \in Handles : inst[h].entry = b}

\* An instance has these fields; one with a plugin has a module.
Fields(r) ==
  r = [entry |-> r.entry, plugin |-> r.plugin, config |-> r.config, in |-> r.in,
       inTok |-> r.inTok, out |-> r.out, outTok |-> r.outTok, outN |-> r.outN]

Shaped(r) ==
  /\ Fields(r)
  /\ r.entry \in Bundles \cup {"none"} /\ (r.plugin => r.entry # "none")

\* Handles are never used twice.
Shapes ==
  /\ inst = [h \in Handles |-> inst[h]] /\ \A h \in Handles : Shaped(inst[h])
  /\ nextHandle \in Nat /\ Handles \subseteq 0..nextHandle /\ Default \in Handles
  /\ refs \in [Bundles -> Nat] /\ inited \subseteq Bundles

\* A module is counted and initialised for its users.
Counted ==
  \A b \in Bundles : refs[b] = Cardinality(Users(b)) /\ (b \in inited <=> refs[b] > 0)

ModuleInv == Shapes /\ Counted

---------------------------------------------------------------------------
LEMMA UsersFinite ==
  ASSUME Shapes, NEW S, S \subseteq Handles
  PROVE  IsFiniteSet(S)
<1>1. IsFiniteSet(0..nextHandle)
  <2>1. nextHandle \in Int
    BY DEF Shapes
  <2> QED
    BY <2>1, FS_Interval
<1> QED
  BY <1>1, FS_Subset DEF Shapes

\* What unload leaves: the counts of the users other than h.
LEMMA UnloadedCounts ==
  ASSUME ModuleInv, NEW h \in Handles, NEW m, m = Unloaded(inst[h].entry)
  PROVE  /\ m.refs \in [Bundles -> Nat] /\ m.inited \subseteq Bundles
         /\ \A b \in Bundles : /\ m.refs[b] = Cardinality(Users(b) \ {h})
                               /\ b \in m.inited <=> m.refs[b] > 0
<1> DEFINE e == inst[h].entry
<1>1. \A b \in Bundles : IsFiniteSet(Users(b))
  BY UsersFinite DEF Users, ModuleInv
<1>2. CASE e = "none"
  <2>1. m.refs = refs /\ m.inited = inited
    BY <1>2 DEF Unloaded
  <2>2. \A b \in Bundles : Users(b) \ {h} = Users(b)
    BY <1>2, BundleAssumption DEF Users
  <2> QED
    BY <2>1, <2>2 DEF ModuleInv, Shapes, Counted
<1>3. CASE e # "none"
  <2>1. e \in Bundles
    BY <1>3 DEF ModuleInv, Shapes, Shaped
  <2>2. /\ m.refs = [refs EXCEPT ![e] = @ - 1]
        /\ m.inited = IF refs[e] = 1 THEN inited \ {e} ELSE inited
    BY <1>3 DEF Unloaded
  <2>3. h \in Users(e) /\ \A b \in Bundles : b # e => Users(b) \ {h} = Users(b)
    BY DEF Users
  <2>4. Cardinality(Users(e) \ {h}) = Cardinality(Users(e)) - 1 /\ Cardinality(Users(e) \ {h}) \in Nat
    BY <1>1, <2>1, <2>3, FS_RemoveElement, FS_Subset, FS_CardinalityType
  <2>5. refs[e] \in Nat /\ refs[e] = Cardinality(Users(e)) /\ (e \in inited <=> refs[e] > 0)
    BY <2>1 DEF ModuleInv, Shapes, Counted
  <2>6. \A b \in Bundles : refs[b] \in Nat /\ refs[b] = Cardinality(Users(b)) /\ (b \in inited <=> refs[b] > 0)
    BY DEF ModuleInv, Shapes, Counted
  <2>7. /\ m.refs \in [Bundles -> Nat] /\ m.inited \subseteq Bundles
        /\ m.refs[e] = refs[e] - 1 /\ (e \in m.inited <=> refs[e] # 1)
    <3>1. refs \in [Bundles -> Nat] /\ inited \subseteq Bundles /\ refs[e] - 1 \in Nat
      BY <2>4, <2>5 DEF ModuleInv, Shapes
    <3>2. refs[e] >= 1
      BY <2>4, <2>5
    <3> HIDE DEF e
    <3> QED
      BY <2>1, <2>2, <2>5, <3>1, <3>2
  <2>8. ASSUME NEW b \in Bundles, b # e
        PROVE  m.refs[b] = refs[b] /\ (b \in m.inited <=> b \in inited)
    <3>1. refs \in [Bundles -> Nat]
      BY DEF ModuleInv, Shapes
    <3> HIDE DEF e
    <3> QED
      BY <2>1, <2>2, <2>8, <3>1
  <2>9. ASSUME NEW b \in Bundles
        PROVE  m.refs[b] = Cardinality(Users(b) \ {h}) /\ (b \in m.inited <=> m.refs[b] > 0)
    <3>1. CASE b = e
      <4>1. m.refs[e] = Cardinality(Users(e) \ {h}) /\ m.refs[e] \in Nat
        BY <2>4, <2>5, <2>7
      <4>2. e \in m.inited <=> m.refs[e] > 0
        BY <2>5, <2>7, <4>1
      <4> QED
        BY <3>1, <4>1, <4>2
    <3>2. CASE b # e
      <4>1. m.refs[b] = refs[b] /\ (b \in m.inited <=> b \in inited)
        BY <2>8, <3>2
      <4>2. Users(b) \ {h} = Users(b)
        BY <2>3, <3>2
      <4> QED
        BY <2>6, <4>1, <4>2
    <3> QED
      BY <3>1, <3>2
  <2> QED
    BY <2>7, <2>9
<1> QED
  BY <1>2, <1>3

\* What acquire_entry adds for bundle b.
LEMMA AcquiredCounts ==
  ASSUME NEW m, m.refs \in [Bundles -> Nat], m.inited \subseteq Bundles, NEW b \in Bundles
  PROVE  LET n == Acquired(m, b)
         IN /\ n.refs \in [Bundles -> Nat] /\ n.inited \subseteq Bundles
            /\ n.refs[b] = m.refs[b] + 1 /\ b \in n.inited
            /\ \A c \in Bundles \ {b} :
                 n.refs[c] = m.refs[c] /\ (c \in n.inited <=> c \in m.inited)
<1> DEFINE n == Acquired(m, b)
<1>1. n.refs = [m.refs EXCEPT ![b] = @ + 1] /\ n.inited = m.inited \cup {b}
  BY DEF Acquired
<1>2. m.refs[b] + 1 \in Nat
  OBVIOUS
<1> HIDE DEF n
<1>3. /\ n.refs \in [Bundles -> Nat] /\ n.inited \subseteq Bundles
      /\ n.refs[b] = m.refs[b] + 1 /\ b \in n.inited
      /\ \A c \in Bundles \ {b} :
           n.refs[c] = m.refs[c] /\ (c \in n.inited <=> c \in m.inited)
  BY <1>1, <1>2
<1> QED
  BY <1>3 DEF n

---------------------------------------------------------------------------
LEMMA ShapedRecords ==
  /\ Shaped(Closed) /\ Closed.entry = "none"
  /\ \A b \in Bundles : Shaped(Scanned(b)) /\ Scanned(b).entry = b
  /\ \A b \in Bundles, c \in Configs : Shaped(Opened(b, c)) /\ Opened(b, c).entry = b
<1>1. Shaped(Closed) /\ Closed.entry = "none" /\ ~Closed.plugin
  BY DEF Shaped, Fields, Closed
<1>2. ASSUME NEW b \in Bundles PROVE Shaped(Scanned(b)) /\ Scanned(b).entry = b
  <2>1. Fields(Scanned(b)) /\ Scanned(b).entry = b /\ Scanned(b).plugin = Closed.plugin
    BY <1>1 DEF Shaped, Fields, Scanned
  <2> QED
    BY <1>1, <2>1 DEF Shaped
<1>3. ASSUME NEW b \in Bundles, NEW c \in Configs
      PROVE  Shaped(Opened(b, c)) /\ Opened(b, c).entry = b
  <2>1. Fields(Opened(b, c)) /\ Opened(b, c).entry = b
    <3>1. PICK q : q = Closed
      OBVIOUS
    <3>2. PICK r : r = [q EXCEPT !.entry = b, !.plugin = TRUE, !.config = c]
      OBVIOUS
    <3>3. Fields(r) /\ r.entry = b
      BY <1>1, <3>1, <3>2 DEF Shaped, Fields
    <3> QED
      BY <3>1, <3>2, <3>3 DEF Opened
  <2>2. b # "none"
    BY BundleAssumption
  <2> QED
    BY <2>1, <2>2 DEF Shaped
<1> QED
  BY <1>1, <1>2, <1>3

\* Instance h, there before or not, is given what r says; its module is let go
\* and that of r acquired.
LEMMA Replaced ==
  ASSUME ModuleInv, NEW h \in Handles, NEW r, Shaped(r), inst' = [inst EXCEPT ![h] = r],
         UNCHANGED nextHandle,
         Modules(IF r.entry = "none" THEN Unloaded(inst[h].entry)
                 ELSE Acquired(Unloaded(inst[h].entry), r.entry))
  PROVE  ModuleInv'
<1> DEFINE m == Unloaded(inst[h].entry)
<1>1. /\ m.refs \in [Bundles -> Nat] /\ m.inited \subseteq Bundles
      /\ \A b \in Bundles : /\ m.refs[b] = Cardinality(Users(b) \ {h})
                            /\ b \in m.inited <=> m.refs[b] > 0
  BY UnloadedCounts
<1>2. Handles' = Handles /\ inst'[h] = r /\ \A k \in Handles \ {h} : inst'[k] = inst[k]
  BY DEF Handles, ModuleInv, Shapes
<1>3. \A b \in Bundles : Users(b)' = IF b = r.entry THEN (Users(b) \ {h}) \cup {h} ELSE Users(b) \ {h}
  BY <1>2 DEF Users
<1>4. \A b \in Bundles : IsFiniteSet(Users(b) \ {h})
  <2>1. \A b : Users(b) \ {h} \subseteq Handles
    BY DEF Users
  <2> QED
    BY <2>1, UsersFinite DEF ModuleInv
<1>5. r.entry \in Bundles \cup {"none"}
  BY DEF Shaped
<1>6. /\ refs' \in [Bundles -> Nat] /\ inited' \subseteq Bundles
      /\ \A b \in Bundles : refs'[b] = Cardinality(Users(b)') /\ (b \in inited' <=> refs'[b] > 0)
  <2> HIDE DEF m
  <2>1. CASE r.entry = "none"
    <3>1. refs' = m.refs /\ inited' = m.inited
      BY <2>1 DEF Modules, m
    <3>2. \A b \in Bundles : b # r.entry
      BY <2>1, BundleAssumption
    <3> QED
      BY <1>1, <1>3, <3>1, <3>2
  <2>2. CASE r.entry # "none"
    <3> DEFINE n == Acquired(m, r.entry)
    <3>1. refs' = n.refs /\ inited' = n.inited
      BY <2>2 DEF Modules, m
    <3>2. r.entry \in Bundles
      BY <1>5, <2>2
    <3>3. /\ n.refs \in [Bundles -> Nat] /\ n.inited \subseteq Bundles
          /\ n.refs[r.entry] = m.refs[r.entry] + 1 /\ r.entry \in n.inited
          /\ \A c \in Bundles \ {r.entry} :
               n.refs[c] = m.refs[c] /\ (c \in n.inited <=> c \in m.inited)
      BY <1>1, <3>2, AcquiredCounts
    <3>4. Cardinality(Users(r.entry)') = Cardinality(Users(r.entry) \ {h}) + 1
      BY <1>3, <1>4, <3>2, FS_AddElement
    <3> HIDE DEF n
    <3> QED
      BY <1>1, <1>3, <3>1, <3>2, <3>3, <3>4
  <2> QED
    BY <2>1, <2>2
<1>7. Shapes'
  <2>1. inst' = [k \in Handles' |-> inst'[k]]
    BY <1>2 DEF Handles
  <2>2. \A k \in Handles' : Shaped(inst'[k])
    BY <1>2 DEF ModuleInv, Shapes
  <2>3. (\A k \in Handles : Shaped(inst[k]))'
    BY <2>2 DEF Shaped, Fields
  <2> QED
    BY <1>2, <1>6, <2>1, <2>3 DEF ModuleInv, Shapes
<1> QED
  BY <1>6, <1>7 DEF ModuleInv, Counted

LEMMA DefaultInv ==
  ASSUME ModuleInv, Scan \/ Open \/ Close
  PROVE  ModuleInv'
<1>1. PICK r : /\ Shaped(r) /\ inst' = [inst EXCEPT ![Default] = r] /\ UNCHANGED nextHandle
               /\ Modules(IF r.entry = "none" THEN Unloaded(inst[Default].entry)
                          ELSE Acquired(Unloaded(inst[Default].entry), r.entry))
  <2>1. \A b \in Bundles : b # "none"
    BY BundleAssumption
  <2>2. CASE Scan
    BY <2>1, <2>2, ShapedRecords DEF Scan
  <2>3. CASE Open
    BY <2>1, <2>3, ShapedRecords DEF Open
  <2>4. CASE Close
    BY <2>4, ShapedRecords DEF Close
  <2> QED
    BY <2>2, <2>3, <2>4
<1>2. Default \in Handles
  BY DEF ModuleInv, Shapes
<1> QED
  BY <1>1, <1>2, Replaced

LEMMA OpenInstanceInv == ModuleInv /\ OpenInstance => ModuleInv'
<1> SUFFICES ASSUME ModuleInv, OpenInstance PROVE ModuleInv'
  OBVIOUS
<1> DEFINE h == nextHandle'
           m == [refs |-> refs, inited |-> inited]
<1>1. h = nextHandle + 1 /\ h \in Nat /\ h \notin Handles
  BY DEF OpenInstance, ModuleInv, Shapes
<1>2. PICK b \in Bundles, c \in Configs :
        /\ inst' = [k \in Handles \cup {h} |-> IF k = h THEN Opened(b, c) ELSE inst[k]]
        /\ Modules(Acquired(m, b))
  BY DEF OpenInstance
<1> HIDE DEF h
<1>3. /\ Handles' = Handles \cup {h} /\ inst'[h] = Opened(b, c)
      /\ \A k \in Handles : inst'[k] = inst[k]
  BY <1>1, <1>2 DEF Handles
<1>4. Opened(b, c).entry = b /\ Shaped(Opened(b, c))
  BY ShapedRecords
<1>5. \A d \in Bundles : Users(d)' = IF d = b THEN Users(d) \cup {h} ELSE Users(d)
  BY <1>1, <1>3, <1>4 DEF Users
<1>6. /\ m.refs \in [Bundles -> Nat] /\ m.inited \subseteq Bundles
      /\ \A d \in Bundles : m.refs[d] = Cardinality(Users(d)) /\ (d \in m.inited <=> m.refs[d] > 0)
  BY DEF ModuleInv, Shapes, Counted
<1>7. Cardinality(Users(b) \cup {h}) = Cardinality(Users(b)) + 1
  <2>1. Users(b) \subseteq Handles
    BY DEF Users
  <2> QED
    BY <1>1, <2>1, UsersFinite, FS_AddElement DEF ModuleInv
<1> DEFINE n == Acquired(m, b)
<1>8. refs' = n.refs /\ inited' = n.inited
  BY <1>2 DEF Modules
<1> HIDE DEF m
<1>9. /\ n.refs \in [Bundles -> Nat] /\ n.inited \subseteq Bundles
      /\ n.refs[b] = m.refs[b] + 1 /\ b \in n.inited
      /\ \A c1 \in Bundles \ {b} :
           n.refs[c1] = m.refs[c1] /\ (c1 \in n.inited <=> c1 \in m.inited)
  BY <1>6, AcquiredCounts
<1> HIDE DEF n
<1>10. Counted'
  <2>1. Users(b)' = Users(b) \cup {h} /\ \A d \in Bundles \ {b} : Users(d)' = Users(d)
    BY <1>5
  <2>2. refs'[b] = Cardinality(Users(b)') /\ b \in inited' /\ refs'[b] > 0
    <3>1. m.refs[b] \in Nat /\ m.refs[b] = Cardinality(Users(b))
      BY <1>6
    <3> QED
      BY <1>7, <1>8, <1>9, <2>1, <3>1
  <2>3. \A d \in Bundles \ {b} : refs'[d] = Cardinality(Users(d)') /\ (d \in inited' <=> refs'[d] > 0)
    BY <1>6, <1>8, <1>9, <2>1
  <2> QED
    BY <2>2, <2>3 DEF Counted
<1>11. Shapes'
  <2>1. inst' = [k \in Handles' |-> inst'[k]]
    BY <1>2, <1>3
  <2>2. \A k \in Handles' : Shaped(inst'[k])
    BY <1>3, <1>4 DEF ModuleInv, Shapes
  <2>3. (\A k \in Handles : Shaped(inst[k]))'
    BY <2>2 DEF Shaped, Fields
  <2>4. nextHandle' \in Nat /\ Handles' \subseteq 0..nextHandle' /\ Default \in Handles'
    BY <1>1, <1>3 DEF h, ModuleInv, Shapes
  <2> QED
    BY <1>8, <1>9, <2>1, <2>3, <2>4 DEF Shapes
<1> QED
  BY <1>10, <1>11 DEF ModuleInv

LEMMA CloseInstanceInv ==
  ASSUME ModuleInv, NEW h \in Handles, CloseInstance(h)
  PROVE  ModuleInv'
<1> DEFINE m == Unloaded(inst[h].entry)
<1>1. /\ h # Default /\ inst' = [k \in Handles \ {h} |-> inst[k]]
      /\ refs' = m.refs /\ inited' = m.inited /\ UNCHANGED nextHandle
  BY DEF CloseInstance, Modules
<1>2. m = Unloaded(inst[h].entry)
  OBVIOUS
<1> HIDE DEF m
<1>3. /\ m.refs \in [Bundles -> Nat] /\ m.inited \subseteq Bundles
      /\ \A b \in Bundles : /\ m.refs[b] = Cardinality(Users(b) \ {h})
                            /\ b \in m.inited <=> m.refs[b] > 0
  BY <1>2, UnloadedCounts
<1>4. Handles' = Handles \ {h} /\ \A k \in Handles' : inst'[k] = inst[k]
  BY <1>1 DEF Handles
<1>5. \A b \in Bundles : Users(b)' = Users(b) \ {h}
  BY <1>4 DEF Users
<1>6. Shapes'
  <2>1. inst' = [k \in Handles' |-> inst'[k]]
    BY <1>1, <1>4
  <2>2. \A k \in Handles' : Shaped(inst'[k])
    BY <1>4 DEF ModuleInv, Shapes
  <2>3. (\A k \in Handles : Shaped(inst[k]))'
    BY <2>2 DEF Shaped, Fields
  <2> QED
    BY <1>1, <1>3, <1>4, <2>1, <2>3 DEF ModuleInv, Shapes
<1> QED
  BY <1>1, <1>3, <1>5, <1>6 DEF ModuleInv, Counted

\* Writing a block changes nothing about who uses what.
LEMMA WrittenInv ==
  ASSUME ModuleInv, NEW h \in Handles, NEW r, Shaped(r), r.entry = inst[h].entry,
         inst' = [inst EXCEPT ![h] = r], UNCHANGED <<refs, inited, nextHandle>>
  PROVE  /\ ModuleInv' /\ Handles' = Handles /\ inst'[h] = r
         /\ \A k \in Handles \ {h} : inst'[k] = inst[k]
<1>1. Handles' = Handles /\ inst'[h] = r /\ \A k \in Handles \ {h} : inst'[k] = inst[k]
  BY DEF Handles, ModuleInv, Shapes
<1>2. \A b \in Bundles : Users(b)' = Users(b)
  BY <1>1 DEF Users
<1>3. (\A k \in Handles : Shaped(inst[k]))'
  <2>1. \A k \in Handles' : Shaped(inst'[k])
    BY <1>1 DEF ModuleInv, Shapes
  <2> QED
    BY <2>1 DEF Shaped, Fields
<1>4. inst' = [k \in Handles' |-> inst'[k]]
  BY <1>1 DEF Handles
<1> QED
  BY <1>1, <1>2, <1>3, <1>4 DEF ModuleInv, Shapes, Counted

---------------------------------------------------------------------------
\* No token of a managed instance is ahead of the counter they share.
Bounded ==
  /\ nextToken \in 0..MaxTokens
  /\ \A i \in issued : i.handle # Default => i.token \in 0..nextToken \/ i.token = NaN
  /\ \A h \in Handles : h # Default =>
       /\ inst[h].inTok \in 0..nextToken \/ inst[h].inTok = NaN
       /\ inst[h].outTok \in 0..nextToken \/ inst[h].outTok = NaN

IInv == ModuleInv /\ Bounded /\ TokensNameBlocks

LEMMA InitInv == Init => IInv
<1> SUFFICES ASSUME Init PROVE IInv
  OBVIOUS
<1>1. inst = [h \in {Default} |-> Closed] /\ Handles = {Default} /\ inst[Default] = Closed
  BY DEF Init, Handles
<1>2. ModuleInv
  <2>1. \A b \in Bundles : Users(b) = {}
    BY <1>1, ShapedRecords, BundleAssumption DEF Users
  <2>2. Shapes
    BY <1>1, ShapedRecords DEF Init, Shapes, Default
  <2> QED
    BY <2>1, <2>2, FS_EmptySet DEF ModuleInv, Counted, Init
<1> QED
  BY <1>1, <1>2, BoundAssumption
  DEF Init, IInv, Bounded, TokensNameBlocks, InputTokenNamesBlock, OutputTokenIsOwn

\* A new block has a token that no managed instance had, or one nobody accepts.
LEMMA NewBlockInv ==
  ASSUME IInv, NEW h \in Handles, NEW r, Shaped(r), r.entry = inst[h].entry,
         inst' = [inst EXCEPT ![h] = r], UNCHANGED <<refs, inited, nextHandle>>,
         NEW previous, NEW t, t = NextToken(h, previous), NEW kind, Count(h), Issue(h, kind, t),
         \/ /\ kind = "in" /\ r.in = audio' /\ r.inTok = t
            /\ r.out = inst[h].out /\ r.outTok = inst[h].outTok /\ r.outN = inst[h].outN
         \/ /\ kind = "out" /\ r.out = audio' /\ r.outTok = t
            /\ r.in = inst[h].in /\ r.inTok = inst[h].inTok
  PROVE  IInv'
<1> DEFINE new == [token |-> t, handle |-> h, kind |-> kind, audio |-> audio']
<1>1. /\ ModuleInv' /\ Handles' = Handles /\ inst'[h] = r
      /\ \A k \in Handles \ {h} : inst'[k] = inst[k]
  BY WrittenInv DEF IInv
<1>2. issued' = issued \cup {new}
  BY DEF Issue
<1>3. new.token = t /\ new.handle = h /\ new.kind = kind /\ new.audio = audio'
  OBVIOUS
<1>4. /\ nextToken \in 0..MaxTokens /\ nextToken' \in 0..MaxTokens /\ nextToken <= nextToken'
      /\ h # Default => t = NaN \/ (t = nextToken' /\ nextToken' = nextToken + 1)
  BY BoundAssumption DEF NextToken, Count, IInv, Bounded
<1> HIDE DEF new
<1>5. Bounded'
  BY <1>1, <1>2, <1>3, <1>4 DEF IInv, Bounded, NaN
<1>6. InputTokenNamesBlock'
  <2> SUFFICES ASSUME NEW k \in Handles', NEW i \in issued', k # Default, i.handle # Default,
                      Accepts(inst'[k].inTok), i.token = inst'[k].inTok
               PROVE  i.handle = k /\ i.kind = "in" /\ i.audio = inst'[k].in
    BY DEF InputTokenNamesBlock, Accepts, NaN
  <2>1. /\ \A j \in issued : j.handle # Default => j.token \in 0..nextToken \/ j.token = NaN
        /\ \A g \in Handles : g # Default => inst[g].inTok \in 0..nextToken \/ inst[g].inTok = NaN
    BY DEF IInv, Bounded
  <2>2. CASE k = h /\ kind = "in"
    BY <1>1, <1>2, <1>3, <1>4, <2>1, <2>2, BoundAssumption DEF Accepts, NaN
  <2>3. CASE ~(k = h /\ kind = "in")
    <3>1. inst'[k].inTok = inst[k].inTok /\ inst'[k].in = inst[k].in
      BY <1>1, <2>3
    <3>2. i \in issued
      <4>1. inst'[k].inTok \in 0..nextToken
        BY <1>1, <2>1, <3>1 DEF Accepts
      <4>2. i = new => i.token = nextToken + 1
        BY <1>3, <1>4, <4>1, BoundAssumption DEF NaN
      <4>3. nextToken + 1 \notin 0..nextToken
        BY <1>4
      <4> QED
        BY <1>2, <4>1, <4>2, <4>3
    <3> QED
      BY <1>1, <3>1, <3>2 DEF IInv, TokensNameBlocks, InputTokenNamesBlock
  <2> QED
    BY <2>2, <2>3
<1>7. OutputTokenIsOwn'
  <2> SUFFICES ASSUME NEW k \in Handles', NEW i \in issued', k # Default, i.handle # Default,
                      Accepts(inst'[k].outTok), i.token = inst'[k].outTok
               PROVE  /\ i.handle = k /\ i.kind = "out"
                      /\ inst'[k].outN => i.audio = inst'[k].out
    BY DEF OutputTokenIsOwn, Accepts, NaN
  <2>1. /\ \A j \in issued : j.handle # Default => j.token \in 0..nextToken \/ j.token = NaN
        /\ \A g \in Handles : g # Default => inst[g].outTok \in 0..nextToken \/ inst[g].outTok = NaN
    BY DEF IInv, Bounded
  <2>2. CASE k = h /\ kind = "out"
    BY <1>1, <1>2, <1>3, <1>4, <2>1, <2>2, BoundAssumption DEF Accepts, NaN
  <2>3. CASE ~(k = h /\ kind = "out")
    <3>1. /\ inst'[k].outTok = inst[k].outTok /\ inst'[k].out = inst[k].out
          /\ inst'[k].outN = inst[k].outN
      BY <1>1, <2>3
    <3>2. i \in issued
      <4>1. inst'[k].outTok \in 0..nextToken
        BY <1>1, <2>1, <3>1 DEF Accepts
      <4>2. i = new => i.token = nextToken + 1
        BY <1>3, <1>4, <4>1, BoundAssumption DEF NaN
      <4>3. nextToken + 1 \notin 0..nextToken
        BY <1>4
      <4> QED
        BY <1>2, <4>1, <4>2, <4>3
    <3> QED
      BY <1>1, <3>1, <3>2 DEF IInv, TokensNameBlocks, OutputTokenIsOwn
  <2> QED
    BY <2>2, <2>3
<1> QED
  BY <1>1, <1>5, <1>6, <1>7 DEF IInv, TokensNameBlocks

LEMMA NewInputInv ==
  ASSUME IInv, NEW h \in Handles, NewInput(h, audio')
  PROVE  IInv'
<1> DEFINE t == NextToken(h, inst[h].inTok)
<1>q. PICK q : q = inst[h]
  OBVIOUS
<1>r. PICK r : r = [q EXCEPT !.in = audio', !.inTok = t]
  OBVIOUS
<1>1. inst' = [inst EXCEPT ![h] = r] /\ UNCHANGED <<refs, inited, nextHandle>>
  BY <1>q, <1>r DEF NewInput
<1>2. Count(h) /\ Issue(h, "in", t)
  BY DEF NewInput
<1>3. Shaped(inst[h])
  BY DEF IInv, ModuleInv, Shapes
<1>4. t = NextToken(h, inst[h].inTok)
  OBVIOUS
<1> HIDE DEF t
<1>5. /\ Shaped(r) /\ r.entry = inst[h].entry /\ r.in = audio' /\ r.inTok = t
      /\ r.out = inst[h].out /\ r.outTok = inst[h].outTok /\ r.outN = inst[h].outN
  <2>1. Fields(inst[h])
    BY <1>3 DEF Shaped
  <2>2. /\ Fields(r) /\ r.entry = inst[h].entry /\ r.plugin = inst[h].plugin
        /\ r.in = audio' /\ r.inTok = t
        /\ r.out = inst[h].out /\ r.outTok = inst[h].outTok /\ r.outN = inst[h].outN
    BY <1>q, <1>r, <2>1 DEF Fields
  <2> QED
    BY <1>3, <2>2 DEF Shaped
<1> QED
  BY <1>1, <1>2, <1>4, <1>5, NewBlockInv

LEMMA ProcessInv ==
  ASSUME IInv, NEW h \in Handles, Process(h)
  PROVE  IInv'
<1> DEFINE t == NextToken(h, inst[h].outTok)
<1>q. PICK q : q = inst[h]
  OBVIOUS
<1>r. PICK r : r = [q EXCEPT !.out = audio', !.outTok = t, !.outN = TRUE]
  OBVIOUS
<1>1. inst' = [inst EXCEPT ![h] = r] /\ UNCHANGED <<refs, inited, nextHandle>>
  BY <1>q, <1>r DEF Process
<1>2. Count(h) /\ Issue(h, "out", t)
  BY DEF Process
<1>3. Shaped(inst[h])
  BY DEF IInv, ModuleInv, Shapes
<1>4. t = NextToken(h, inst[h].outTok)
  OBVIOUS
<1> HIDE DEF t
<1>5. /\ Shaped(r) /\ r.entry = inst[h].entry /\ r.out = audio' /\ r.outTok = t
      /\ r.in = inst[h].in /\ r.inTok = inst[h].inTok
  <2>1. Fields(inst[h])
    BY <1>3 DEF Shaped
  <2>2. /\ Fields(r) /\ r.entry = inst[h].entry /\ r.plugin = inst[h].plugin
        /\ r.in = inst[h].in /\ r.inTok = inst[h].inTok
        /\ r.out = audio' /\ r.outTok = t
    BY <1>q, <1>r, <2>1 DEF Fields
  <2> QED
    BY <1>3, <2>2 DEF Shaped
<1> QED
  BY <1>1, <1>2, <1>4, <1>5, NewBlockInv

LEMMA ProcessErrorInv ==
  ASSUME IInv, NEW h \in Handles, ProcessError(h)
  PROVE  IInv'
<1>q. PICK q : q = inst[h]
  OBVIOUS
<1>r. PICK r : r = [q EXCEPT !.out = audio', !.outN = FALSE]
  OBVIOUS
<1>1. inst' = [inst EXCEPT ![h] = r] /\ UNCHANGED <<refs, inited, nextHandle, nextToken, issued>>
  BY <1>q, <1>r DEF ProcessError
<1>2. Shaped(inst[h])
  BY DEF IInv, ModuleInv, Shapes
<1>3. /\ Shaped(r) /\ r.entry = inst[h].entry /\ ~r.outN
      /\ r.in = inst[h].in /\ r.inTok = inst[h].inTok /\ r.outTok = inst[h].outTok
  <2>1. Fields(inst[h])
    BY <1>2 DEF Shaped
  <2>2. /\ Fields(r) /\ r.entry = inst[h].entry /\ r.plugin = inst[h].plugin /\ ~r.outN
        /\ r.in = inst[h].in /\ r.inTok = inst[h].inTok /\ r.outTok = inst[h].outTok
    BY <1>q, <1>r, <2>1 DEF Fields
  <2> QED
    BY <1>2, <2>2 DEF Shaped
<1>4. /\ ModuleInv' /\ Handles' = Handles /\ inst'[h] = r
      /\ \A k \in Handles \ {h} : inst'[k] = inst[k]
  BY <1>1, <1>3, WrittenInv DEF IInv
<1> QED
  BY <1>1, <1>3, <1>4
  DEF IInv, Bounded, TokensNameBlocks, InputTokenNamesBlock, OutputTokenIsOwn, Accepts, NaN

\* Opens and closes issue no token, and a new instance has none.
LEMMA NoBlockInv ==
  ASSUME IInv, Scan \/ Open \/ Close \/ OpenInstance \/ \E h \in Handles : CloseInstance(h)
  PROVE  IInv'
<1>1. ModuleInv'
  BY DefaultInv, OpenInstanceInv, CloseInstanceInv DEF IInv
<1>2. nextToken' = nextToken /\ issued' \subseteq issued
  BY DEF Scan, Open, Close, OpenInstance, CloseInstance
<1>3. ASSUME NEW h \in Handles', h # Default
      PROVE  (h \in Handles /\ inst'[h] = inst[h]) \/ (inst'[h].inTok = NoToken /\ inst'[h].outTok = NoToken)
  <2>1. CASE Scan \/ Open \/ Close
    <3>1. PICK r : inst' = [inst EXCEPT ![Default] = r]
      BY <2>1 DEF Scan, Open, Close
    <3> QED
      BY <1>3, <3>1 DEF Handles
  <2>2. CASE OpenInstance
    <3>1. PICK b \in Bundles, c \in Configs :
            inst' = [k \in Handles \cup {nextHandle'} |->
                       IF k = nextHandle' THEN Opened(b, c) ELSE inst[k]]
      BY <2>2 DEF OpenInstance
    <3>2. Opened(b, c).inTok = NoToken /\ Opened(b, c).outTok = NoToken
      BY DEF Opened, Closed
    <3> HIDE DEF Handles
    <3>3. h \in Handles \cup {nextHandle'}
      BY <3>1 DEF Handles
    <3> QED
      BY <3>1, <3>2, <3>3
  <2>3. CASE \E k \in Handles : CloseInstance(k)
    BY <1>3, <2>3 DEF CloseInstance, Handles
  <2> QED
    BY <2>1, <2>2, <2>3
<1>4. Bounded'
  BY <1>2, <1>3, BoundAssumption DEF IInv, Bounded, NoToken, NaN
<1>5. TokensNameBlocks'
  BY <1>2, <1>3
  DEF IInv, TokensNameBlocks, InputTokenNamesBlock, OutputTokenIsOwn, Accepts, NoToken, NaN
<1> QED
  BY <1>1, <1>4, <1>5 DEF IInv

LEMMA Invariance == Spec => []IInv
<1>1. IInv /\ [Next]_vars => IInv'
  <2> SUFFICES ASSUME IInv, [Next]_vars PROVE IInv'
    OBVIOUS
  <2>1. CASE Scan \/ Open \/ Close \/ OpenInstance \/ \E h \in Handles : CloseInstance(h)
    BY <2>1, NoBlockInv
  <2>2. CASE \E h \in Handles : Fill(h)
    BY <2>2, NewInputInv DEF Fill
  <2>3. CASE \E dst, src \in Handles : Copy(dst, src)
    BY <2>3, NewInputInv DEF Copy
  <2>4. CASE \E h \in Handles : Process(h) \/ ProcessError(h)
    BY <2>4, ProcessInv, ProcessErrorInv
  <2>5. CASE UNCHANGED vars
    BY <2>5 DEF vars, Handles, IInv, ModuleInv, Shapes, Counted, Users, Shaped, Fields, Bounded,
                TokensNameBlocks, InputTokenNamesBlock, OutputTokenIsOwn, Accepts, NaN
  <2> QED
    BY <2>1, <2>2, <2>3, <2>4, <2>5 DEF Next
<1> QED
  BY <1>1, InitInv, PTL DEF Spec

\* A module is initialised exactly while used, however many instances come and
\* go and fail (acquire_entry, unload).
THEOREM SharedWhileUsed == Spec => []ModulesShared
<1>1. IInv => ModulesShared
  <2> SUFFICES ASSUME IInv PROVE ModulesShared
    OBVIOUS
  <2>1. \A b \in Bundles : b \in inited <=> Users(b) # {}
    <3>1. \A b \in Bundles : IsFiniteSet(Users(b))
      BY UsersFinite DEF Users, IInv, ModuleInv
    <3>2. \A b \in Bundles : Cardinality(Users(b)) \in Nat /\ (Cardinality(Users(b)) = 0 <=> Users(b) = {})
      BY <3>1, FS_CardinalityType, FS_EmptySet
    <3> QED
      BY <3>2 DEF IInv, ModuleInv, Counted
  <2>2. \A h \in Handles : /\ inst[h].entry \in Bundles \cup {"none"}
                           /\ inst[h].plugin => inst[h].entry # "none"
    BY DEF IInv, ModuleInv, Shapes, Shaped
  <2>3. inited = {inst[h].entry : h \in Handles} \ {"none"}
    <3>1. \A b \in inited : b \in Bundles /\ \E h \in Handles : inst[h].entry = b
      BY <2>1 DEF Users, IInv, ModuleInv, Shapes
    <3>2. \A b \in Bundles : (\E h \in Handles : inst[h].entry = b) => b \in inited
      BY <2>1 DEF Users
    <3>3. inited \subseteq {inst[h].entry : h \in Handles} \ {"none"}
      BY <3>1, BundleAssumption
    <3>4. {inst[h].entry : h \in Handles} \ {"none"} \subseteq inited
      <4> SUFFICES ASSUME NEW h \in Handles, inst[h].entry # "none" PROVE inst[h].entry \in inited
        OBVIOUS
      <4>1. inst[h].entry \in Bundles
        BY <2>2
      <4> QED
        BY <3>2, <4>1
    <3> QED
      BY <3>3, <3>4
  <2> QED
    BY <2>2, <2>3 DEF ModulesShared, IInv, ModuleInv, Counted, Users
<1> QED
  BY <1>1, Invariance, PTL

\* Between managed instances: an input token is accepted for its own block only; no
\* reader of an output accepts a foreign token, and a frame is read under the token of
\* its own block only, up to the exhaustion of tokens and beyond (next_token,
\* clap_process, clap_out_sample).  Nothing is said of what clap_out_valid, the RMS and
\* the peak and clap_in_copy_for read under an instance's own token after a failure.
THEOREM TokensAreNames == Spec => []TokensNameBlocks
<1>1. IInv => TokensNameBlocks
  BY DEF IInv
<1> QED
  BY <1>1, Invariance, PTL

---------------------------------------------------------------------------
(* The parameters of an instance.                                          *)

Sent == [id : Params, value : Values]

\* The parameters that a call's slots drive, and the claims of the block.
BySlot(args) == {args[i].id : i \in 1..Slots} \cap Params
Claims == {p \in Params : claimed[p] # Parameters!Unset}

\* Place i of q holds the last event for p.
LastAt(q, p, i) ==
  /\ i \in DOMAIN q /\ q[i].id = p
  /\ \A j \in DOMAIN q : q[j].id = p => j <= i

QueueTypes == ev \in Seq(Sent) /\ Len(ev) <= Parameters!EvMax

\* A queue q that grew from the chain's events by those of the first n slots.
Grown(args, q, n) ==
  /\ q \in Seq(Sent) /\ Len(q) <= Parameters!EvMax
  /\ Len(ev) <= Len(q) /\ Len(q) <= Len(ev) + n
  /\ \A j \in 1..Len(ev) : q[j] = ev[j]
  /\ \A j \in Len(ev) + 1..Len(q) : q[j].id \in BySlot(args)

\* The length of the event array.
LEMMA EvMaxIs ==
  /\ IsFiniteSet(Params) /\ Cardinality(Params) \in Nat /\ Slots \in Nat
  /\ Parameters!EvMax = Cardinality(Params) + Slots /\ Parameters!EvMax \in Nat
<1>1. IsFiniteSet(Params) /\ Slots \in Nat
  BY ParameterAssumption DEF Parameters!Assumptions, Parameters!IsFiniteSet, IsFiniteSet
<1>2. Cardinality(Params) \in Nat
  BY <1>1, FS_CardinalityType
<1>3. Parameters!EvMax = Parameters!Cardinality(Params) + Slots
  BY DEF Parameters!EvMax
<1>4. Parameters!Cardinality(Params) = Cardinality(Params)
  BY DEF Parameters!Cardinality, Cardinality
<1> QED
  BY <1>1, <1>2, <1>3, <1>4

\* A set of numbers has a least one.
LEMMA LeastOf ==
  ASSUME NEW I, I \subseteq Nat, I # {}
  PROVE  \E x \in I : \A y \in I : x <= y
<1> DEFINE Less == {ss \in Nat \X Nat : ss[1] < ss[2]}
<1>1. IsWellFoundedOn(Less, Nat)
  BY NatLessThanWellFounded DEF OpToRel
<1>2. PICK x \in I : \A y \in I : <<y, x>> \notin Less
  <2> HIDE DEF Less
  <2> QED
    BY <1>1, WFMin
<1>3. \A y \in I : ~(y < x)
  BY <1>2
<1> QED
  BY <1>3

\* q is the queue after each of the first n slots.
At(args, q, i) == IF i = 0 THEN ev ELSE Parameters!Queue(q[i - 1], i, args[i])
Queues(args, q, n) == q = [i \in 0..n |-> At(args, q, i)]

LEMMA QueuesExist ==
  ASSUME NEW args, NEW n \in Nat
  PROVE  \E q : Queues(args, q, n)
<1> DEFINE Bad == {m \in Nat : ~ \E q : Queues(args, q, m)}
<1> SUFFICES ASSUME Bad # {} PROVE FALSE
  OBVIOUS
<1>1. PICK m \in Bad : \A k \in Bad : m <= k
  <2> HIDE DEF Bad
  <2>1. Bad \subseteq Nat
    BY DEF Bad
  <2> QED
    BY <2>1, LeastOf
<1>2. CASE m = 0
  <2>1. Queues(args, [i \in 0..0 |-> ev], 0)
    BY DEF Queues, At
  <2> QED
    BY <1>2, <2>1
<1>3. CASE m # 0
  <2>1. m \in Nat /\ m - 1 \in Nat /\ ~(m <= m - 1)
    BY <1>3
  <2>2. PICK q : Queues(args, q, m - 1)
    BY <1>1, <2>1
  <2> DEFINE x == Parameters!Queue(q[m - 1], m, args[m])
             r == [i \in 0..m |-> IF i = m THEN x ELSE q[i]]
  <2>3. ASSUME NEW i \in 0..m PROVE r[i] = At(args, r, i)
    <3>1. CASE i = m
      <4>1. r[i - 1] = q[m - 1] /\ r[i] = x
        BY <2>1, <3>1
      <4> QED
        BY <1>3, <3>1, <4>1 DEF At
    <3>2. CASE i # m
      <4>1. i \in 0..m - 1 /\ r[i] = q[i]
        BY <2>1, <3>2
      <4>2. q[i] = At(args, q, i)
        BY <2>2, <4>1 DEF Queues
      <4>3. i # 0 => r[i - 1] = q[i - 1]
        BY <2>1, <4>1
      <4> QED
        BY <4>1, <4>2, <4>3 DEF At
    <3> QED
      BY <3>1, <3>2
  <2>4. r = [i \in 0..m |-> r[i]]
    OBVIOUS
  <2> HIDE DEF r
  <2>5. Queues(args, r, m)
    BY <2>3, <2>4 DEF Queues
  <2> QED
    BY <2>5
<1> QED
  BY <1>2, <1>3

\* The queue of a call is what its recursion says.
LEMMA QueuedIs ==
  ASSUME NEW args
  PROVE  /\ Parameters!Queued(args)[0] = ev
         /\ \A i \in 1..Slots : Parameters!Queued(args)[i] =
              Parameters!Queue(Parameters!Queued(args)[i - 1], i, args[i])
<1> DEFINE q == Parameters!Queued(args)
<1>1. q = CHOOSE r : r = [i \in 0..Slots |-> IF i = 0 THEN ev
                                             ELSE Parameters!Queue(r[i - 1], i, args[i])]
  BY DEF Parameters!Queued
<1>2. \E r : r = [i \in 0..Slots |-> IF i = 0 THEN ev
                                     ELSE Parameters!Queue(r[i - 1], i, args[i])]
  BY QueuesExist, EvMaxIs DEF Queues, At
<1>3. q = [i \in 0..Slots |-> IF i = 0 THEN ev ELSE Parameters!Queue(q[i - 1], i, args[i])]
  <2> HIDE DEF q
  <2> QED
    BY <1>1, <1>2
<1> HIDE DEF q
<1>4. q[0] = ev /\ \A i \in 1..Slots : q[i] = Parameters!Queue(q[i - 1], i, args[i])
  BY <1>3, EvMaxIs
<1> QED
  BY <1>4 DEF q

LEMMA QueueGrows ==
  ASSUME QueueTypes, NEW args \in Parameters!SlotArgs, NEW i \in 1..Slots,
         NEW q, Grown(args, q, i - 1)
  PROVE  Grown(args, Parameters!Queue(q, i, args[i]), i)
<1>1. CASE Parameters!Queue(q, i, args[i]) = q
  <2>1. i \in Nat /\ Len(ev) \in Nat /\ Len(q) \in Nat
    BY EvMaxIs DEF QueueTypes, Grown
  <2> QED
    BY <1>1, <2>1 DEF Grown
<1>2. CASE Parameters!Queue(q, i, args[i]) # q
  <2> DEFINE e == args[i]
  <2>1. Parameters!Queue(q, i, e) = Append(q, e) /\ e.id # Parameters!NoId
        /\ e.value # Parameters!Unset /\ Len(q) # Parameters!EvMax
    BY <1>2 DEF Parameters!Queue
  <2>2. e \in Sent /\ e.id \in BySlot(args)
    <3>1. e \in [id : Params, value : Values \cup {Parameters!Unset}]
      BY <2>1 DEF Parameters!SlotArgs, Parameters!Event
    <3> QED
      BY <2>1, <3>1 DEF Sent, BySlot
  <2> HIDE DEF e
  <2>3. /\ q \in Seq(Sent) /\ Len(q) \in Nat /\ Len(ev) \in Nat /\ i \in Nat
        /\ Len(q) <= Parameters!EvMax /\ Len(ev) <= Len(q) /\ Len(q) <= Len(ev) + (i - 1)
        /\ \A j \in 1..Len(ev) : q[j] = ev[j]
        /\ \A j \in Len(ev) + 1..Len(q) : q[j].id \in BySlot(args)
    BY EvMaxIs DEF QueueTypes, Grown
  <2>4. /\ Append(q, e) \in Seq(Sent) /\ Len(Append(q, e)) = Len(q) + 1
        /\ \A j \in 1..Len(q) : Append(q, e)[j] = q[j]
        /\ Append(q, e)[Len(q) + 1] = e
    BY <2>2, <2>3, AppendProperties
  <2>5. /\ Len(q) + 1 <= Parameters!EvMax /\ Len(ev) <= Len(q) + 1
        /\ Len(q) + 1 <= Len(ev) + i
    BY <2>1, <2>3, EvMaxIs
  <2>6. \A j \in 1..Len(ev) : Append(q, e)[j] = ev[j]
    <3>1. \A j \in 1..Len(ev) : j \in 1..Len(q)
      BY <2>3
    <3> QED
      BY <2>3, <2>4, <3>1
  <2>7. \A j \in Len(ev) + 1..Len(q) + 1 : Append(q, e)[j].id \in BySlot(args)
    <3> SUFFICES ASSUME NEW j \in Len(ev) + 1..Len(q) + 1
                 PROVE  Append(q, e)[j].id \in BySlot(args)
      OBVIOUS
    <3>1. CASE j = Len(q) + 1
      BY <2>2, <2>4, <3>1
    <3>2. CASE j # Len(q) + 1
      <4>1. j \in 1..Len(q) /\ j \in Len(ev) + 1..Len(q)
        BY <2>3, <3>2
      <4> QED
        BY <2>3, <2>4, <4>1
    <3> QED
      BY <3>1, <3>2
  <2> QED
    BY <2>1, <2>4, <2>5, <2>6, <2>7 DEF Grown, e
<1> QED
  BY <1>1, <1>2

LEMMA QueuedGrows ==
  ASSUME QueueTypes, NEW args \in Parameters!SlotArgs, NEW n \in 0..Slots
  PROVE  Grown(args, Parameters!Queued(args)[n], n)
<1> DEFINE q == Parameters!Queued(args)
           Bad == {m \in 0..Slots : ~Grown(args, q[m], m)}
<1> SUFFICES ASSUME Bad # {} PROVE FALSE
  OBVIOUS
<1>0. Bad \subseteq 0..Slots
  OBVIOUS
<1>1. PICK m \in Bad : \A k \in Bad : m <= k
  <2> HIDE DEF Bad
  <2>1. Bad \subseteq Nat
    BY <1>0
  <2> QED
    BY <2>1, LeastOf
<1>2. /\ q[0] = ev
      /\ \A i \in 1..Slots : q[i] = Parameters!Queue(q[i - 1], i, args[i])
  BY QueuedIs
<1> HIDE DEF q
<1>3. CASE m = 0
  <2>1. Grown(args, ev, 0)
    BY DEF Grown, QueueTypes
  <2> QED
    BY <1>2, <1>3, <2>1
<1>4. CASE m # 0
  <2>1. m \in 1..Slots /\ m - 1 \in 0..Slots /\ ~(m <= m - 1)
    BY <1>4, EvMaxIs
  <2>2. Grown(args, q[m - 1], m - 1)
    BY <1>1, <2>1
  <2>3. Grown(args, q[m], m)
    BY <1>2, <2>1, <2>2, QueueGrows
  <2> QED
    BY <2>3
<1> QED
  BY <1>3, <1>4

\* An event for p has a last one.
LEMMA HasLast ==
  ASSUME NEW q \in Seq(Sent), NEW p \in Parameters!Ids(q)
  PROVE  \E i : LastAt(q, p, i)
<1> DEFINE n == Len(q)
           I == {k \in 0..n : n - k \in DOMAIN q /\ q[n - k].id = p}
<1>1. n \in Nat /\ DOMAIN q = 1..n
  OBVIOUS
<1>2. I \subseteq Nat /\ I # {}
  <2>1. PICK i \in 1..n : q[i].id = p
    BY <1>1 DEF Parameters!Ids
  <2>2. n - i \in 0..n /\ n - (n - i) = i
    BY <1>1
  <2>3. n - i \in I
    BY <1>1, <2>1, <2>2
  <2>4. I \subseteq 0..n
    OBVIOUS
  <2> HIDE DEF I, n
  <2> QED
    BY <1>1, <2>3, <2>4
<1>3. PICK k \in I : \A m \in I : k <= m
  <2> HIDE DEF I
  <2> QED
    BY <1>2, LeastOf
<1>4. ASSUME NEW j \in DOMAIN q, q[j].id = p PROVE j <= n - k
  <2>1. j \in 1..n /\ n - j \in 0..n /\ n - (n - j) = j /\ k \in 0..n
    BY <1>1
  <2>2. n - j \in I
    BY <1>4, <2>1
  <2>3. k <= n - j
    BY <1>3, <2>2
  <2> QED
    BY <1>1, <2>1, <2>3
<1>5. LastAt(q, p, n - k)
  BY <1>3, <1>4 DEF LastAt
<1> QED
  BY <1>5

\* What the plugin holds of p after it applied a queue.
LEMMA AppliedIs ==
  ASSUME NEW q \in Seq(Sent), NEW p \in Params
  PROVE  /\ p \notin Parameters!Ids(q) => Parameters!Applied(q)[p] = plugin[p]
         /\ \A i : LastAt(q, p, i) => Parameters!Applied(q)[p] = q[i].value
<1>1. p \notin Parameters!Ids(q) => Parameters!Applied(q)[p] = plugin[p]
  BY DEF Parameters!Applied
<1>2. ASSUME NEW i, LastAt(q, p, i) PROVE Parameters!Applied(q)[p] = q[i].value
  <2> DEFINE c == CHOOSE k \in DOMAIN q :
                    q[k].id = p /\ \A j \in DOMAIN q : q[j].id = p => j <= k
  <2>1. i \in DOMAIN q /\ q[i].id = p /\ \A j \in DOMAIN q : q[j].id = p => j <= i
    BY <1>2 DEF LastAt
  <2>2. c \in DOMAIN q /\ q[c].id = p /\ \A j \in DOMAIN q : q[j].id = p => j <= c
    BY <2>1
  <2>3. p \in Parameters!Ids(q)
    BY <2>1 DEF Parameters!Ids
  <2>4. Parameters!Applied(q)[p] = q[c].value
    BY <2>3 DEF Parameters!Applied
  <2> HIDE DEF c
  <2>5. i <= c /\ c <= i /\ i \in Int /\ c \in Int
    BY <2>1, <2>2
  <2>6. i = c
    BY <2>5
  <2> QED
    BY <2>4, <2>6
<1> QED
  BY <1>1, <1>2

LEMMA AppliedType ==
  ASSUME NEW q \in Seq(Sent), plugin \in [Params -> Values \cup {Parameters!Unset}]
  PROVE  Parameters!Applied(q) \in [Params -> Values \cup {Parameters!Unset}]
<1>1. Parameters!Applied(q) = [p \in Params |-> Parameters!Applied(q)[p]]
  BY DEF Parameters!Applied
<1>2. ASSUME NEW p \in Params PROVE Parameters!Applied(q)[p] \in Values \cup {Parameters!Unset}
  <2>1. CASE p \in Parameters!Ids(q)
    <3>1. PICK i : LastAt(q, p, i)
      BY <2>1, HasLast
    <3>2. i \in DOMAIN q /\ Parameters!Applied(q)[p] = q[i].value
      BY <3>1, AppliedIs DEF LastAt
    <3>3. q[i] \in Sent
      BY <3>2
    <3> QED
      BY <3>2, <3>3 DEF Sent
  <2>2. CASE p \notin Parameters!Ids(q)
    BY <2>2, AppliedIs
  <2> QED
    BY <2>1, <2>2
<1> QED
  BY <1>1, <1>2

\* What is queued last for a parameter is what the host remembers as sent, and
\* where nothing is queued and no change was abandoned the plugin has it.
Follows ==
  \A p \in Params :
    /\ p \in Parameters!Ids(ev) =>
         /\ claimed[p] # Parameters!Unset
         /\ \E i : LastAt(ev, p, i) /\ ev[i].value = sent[p]
    /\ p \notin Parameters!Ids(ev) \cup broken => plugin[p] = sent[p]
    /\ claimed[p] # Parameters!Unset => claimed[p] = sent[p]

\* While no parameter was set twice there is an event per claim at most.
Room == once => ~refused /\ Len(ev) <= Cardinality(Claims)

ParamInv ==
  /\ Parameters!TypeOK /\ Follows /\ Room
  /\ processed => ev = <<>>

LEMMA ParamTypes ==
  ASSUME Parameters!TypeOK
  PROVE  /\ QueueTypes /\ Len(ev) \in Nat
         /\ Claims \subseteq Params /\ IsFiniteSet(Claims)
         /\ Cardinality(Claims) \in Nat /\ Cardinality(Claims) <= Cardinality(Params)
<1>1. QueueTypes /\ Len(ev) \in Nat
  BY DEF Parameters!TypeOK, QueueTypes, Sent
<1>2. Claims \subseteq Params /\ IsFiniteSet(Params)
  BY EvMaxIs DEF Claims
<1>3. IsFiniteSet(Claims) /\ Cardinality(Claims) <= Cardinality(Params)
  BY <1>2, FS_Subset
<1> QED
  BY <1>1, <1>2, <1>3, FS_CardinalityType

\* Between blocks nothing is queued or claimed.
LEMMA EmptyInv ==
  ASSUME block' \in BOOLEAN, once' = TRUE, processed' = FALSE, refused' = FALSE, handed' = 0,
         ev' = <<>>, claimed' = Parameters!NoClaims,
         sent' \in [Params -> Values \cup {Parameters!Unset}],
         slot' \in [1..Slots -> [id : Params \cup {Parameters!NoId},
                                 value : Values \cup {Parameters!Unset}]],
         plugin' \in [Params -> Values \cup {Parameters!Unset}], broken' \subseteq Params,
         \A p \in Params : p \notin broken' => plugin'[p] = sent'[p]
  PROVE  ParamInv'
<1>1. Parameters!Ids(<<>>) = {}
  BY DEF Parameters!Ids
<1>2. Len(<<>>) = 0 /\ \A S : <<>> \in Seq(S)
  OBVIOUS
<1>3. \A p \in Params : claimed'[p] = Parameters!Unset
  BY DEF Parameters!NoClaims
<1>4. claimed' \in [Params -> Values \cup {Parameters!Unset}]
  BY DEF Parameters!NoClaims
<1>5. Claims' = {}
  BY <1>3 DEF Claims
<1>6. Room'
  BY <1>2, <1>5, FS_EmptySet DEF Room
<1>7. Follows'
  <2>1. Parameters!Ids(ev)' = {}
    BY <1>1 DEF Parameters!Ids
  <2> QED
    BY <1>3, <2>1 DEF Follows
<1>8. Parameters!TypeOK'
  <2>1. Len(ev') <= Parameters!EvMax /\ handed' \in 0..Parameters!EvMax
    BY <1>2, EvMaxIs
  <2> QED
    BY <1>2, <1>4, <2>1 DEF Parameters!TypeOK, Parameters!EvMax
<1> QED
  BY <1>6, <1>7, <1>8 DEF ParamInv

LEMMA IdsAre ==
  ASSUME NEW q \in Seq(Sent)
  PROVE  Parameters!Ids(q) \subseteq Params
<1>1. \A i \in DOMAIN q : q[i] \in Sent
  OBVIOUS
<1>2. \A e \in Sent : e.id \in Params
  BY DEF Sent
<1> QED
  BY <1>1, <1>2 DEF Parameters!Ids

LEMMA TypesNext ==
  ASSUME block' \in BOOLEAN, once' \in BOOLEAN, processed' \in BOOLEAN, refused' \in BOOLEAN,
         ev' \in Seq(Sent), Len(ev') <= Parameters!EvMax, handed' \in 0..Parameters!EvMax,
         sent' \in [Params -> Values \cup {Parameters!Unset}],
         slot' \in [1..Slots -> [id : Params \cup {Parameters!NoId},
                                 value : Values \cup {Parameters!Unset}]],
         plugin' \in [Params -> Values \cup {Parameters!Unset}],
         claimed' \in [Params -> Values \cup {Parameters!Unset}], broken' \subseteq Params
  PROVE  Parameters!TypeOK'
  BY DEF Parameters!TypeOK, Parameters!EvMax, Sent

LEMMA ReopenInv ==
  ASSUME Parameters!Reopen
  PROVE  ParamInv'
<1>1. /\ Parameters!NoClaims \in [Params -> Values \cup {Parameters!Unset}]
      /\ [i \in 1..Slots |-> Parameters!Event(Parameters!NoId, Parameters!Unset)]
           \in [1..Slots -> [id : Params \cup {Parameters!NoId},
                             value : Values \cup {Parameters!Unset}]]
  BY DEF Parameters!NoClaims, Parameters!Event
<1> QED
  BY <1>1, EmptyInv DEF Parameters!Reopen

LEMMA FillInv ==
  ASSUME ParamInv, Parameters!Fill
  PROVE  ParamInv'
<1>1. Parameters!Ids(ev) \subseteq Params
  BY ParamTypes, IdsAre DEF ParamInv, QueueTypes
<1> QED
  BY <1>1, EmptyInv DEF ParamInv, Parameters!TypeOK, Follows, Parameters!Fill

LEMMA AddClaim ==
  ASSUME Parameters!TypeOK, NEW p \in Params, NEW v \in Values,
         claimed' = [claimed EXCEPT ![p] = v]
  PROVE  /\ claimed' \in [Params -> Values \cup {Parameters!Unset}]
         /\ claimed'[p] = v /\ v # Parameters!Unset
         /\ \A r \in Params \ {p} : claimed'[r] = claimed[r]
         /\ claimed[p] = Parameters!Unset => Cardinality(Claims') = Cardinality(Claims) + 1
<1>1. v # Parameters!Unset
  BY ParameterAssumption DEF Parameters!Assumptions, Parameters!Unset
<1>2. /\ claimed' \in [Params -> Values \cup {Parameters!Unset}] /\ claimed'[p] = v
      /\ \A r \in Params \ {p} : claimed'[r] = claimed[r]
  BY DEF Parameters!TypeOK
<1>3. Claims' = Claims \cup {p}
  BY <1>1, <1>2 DEF Claims
<1>4. claimed[p] = Parameters!Unset => p \notin Claims
  BY DEF Claims
<1>5. p \notin Claims => Cardinality(Claims \cup {p}) = Cardinality(Claims) + 1
  BY ParamTypes, FS_AddElement
<1> QED
  BY <1>1, <1>2, <1>3, <1>4, <1>5

\* The value that was sent last is not sent again.
LEMMA HeldInv ==
  ASSUME ParamInv, NEW p \in Params, NEW v \in Values, Parameters!SetParam(p, v), sent[p] = v
  PROVE  ParamInv'
<1>1. /\ claimed' = [claimed EXCEPT ![p] = v]
      /\ UNCHANGED <<block, ev, sent, slot, plugin, broken, refused>>
      /\ once' = (once /\ claimed[p] = Parameters!Unset) /\ processed' = FALSE /\ handed' = 0
  BY DEF Parameters!SetParam
<1>2. Parameters!TypeOK
  BY DEF ParamInv
<1>3. /\ claimed' \in [Params -> Values \cup {Parameters!Unset}]
      /\ claimed'[p] = v /\ v # Parameters!Unset
      /\ \A r \in Params \ {p} : claimed'[r] = claimed[r]
      /\ claimed[p] = Parameters!Unset => Cardinality(Claims') = Cardinality(Claims) + 1
  BY <1>1, <1>2, AddClaim
<1>4. Parameters!TypeOK'
  <2>1. /\ block' \in BOOLEAN /\ once' \in BOOLEAN /\ processed' \in BOOLEAN /\ refused' \in BOOLEAN
        /\ slot' \in [1..Slots -> [id : Params \cup {Parameters!NoId},
                                   value : Values \cup {Parameters!Unset}]]
        /\ sent' \in [Params -> Values \cup {Parameters!Unset}]
        /\ plugin' \in [Params -> Values \cup {Parameters!Unset}] /\ broken' \subseteq Params
    BY <1>1, <1>2 DEF Parameters!TypeOK
  <2>2. ev' \in Seq(Sent) /\ Len(ev') <= Parameters!EvMax /\ handed' \in 0..Parameters!EvMax
    BY <1>1, <1>2, ParamTypes, EvMaxIs DEF QueueTypes
  <2> QED
    BY <1>3, <2>1, <2>2, TypesNext
<1>5. Follows'
  BY <1>1, <1>3 DEF ParamInv, Follows, Parameters!Ids, LastAt
<1>6. Room'
  <2> SUFFICES ASSUME once' PROVE ~refused' /\ Len(ev') <= Cardinality(Claims')
    BY DEF Room
  <2>1. once /\ claimed[p] = Parameters!Unset
    BY <1>1
  <2>2. ~refused /\ Len(ev) <= Cardinality(Claims)
    BY <2>1 DEF ParamInv, Room
  <2>3. Len(ev) \in Nat /\ Cardinality(Claims) \in Nat
    BY <1>2, ParamTypes
  <2> QED
    BY <1>1, <1>3, <2>1, <2>2, <2>3
<1> QED
  BY <1>1, <1>4, <1>5, <1>6 DEF ParamInv

\* A change joins the chain.
LEMMA QueueInv ==
  ASSUME ParamInv, NEW p \in Params, NEW v \in Values, Parameters!SetParam(p, v),
         sent[p] # v, Len(ev) < Parameters!EvMax
  PROVE  ParamInv'
<1> DEFINE e == Parameters!Event(p, v)
<1>1. /\ ev' = Append(ev, e) /\ sent' = [sent EXCEPT ![p] = v]
      /\ claimed' = [claimed EXCEPT ![p] = v] /\ broken' = broken \ {p}
      /\ UNCHANGED <<block, slot, plugin, refused>>
      /\ once' = (once /\ claimed[p] = Parameters!Unset) /\ processed' = FALSE /\ handed' = 0
  BY DEF Parameters!SetParam
<1>2. Parameters!TypeOK
  BY DEF ParamInv
<1>3. /\ claimed' \in [Params -> Values \cup {Parameters!Unset}]
      /\ claimed'[p] = v /\ v # Parameters!Unset
      /\ \A r \in Params \ {p} : claimed'[r] = claimed[r]
      /\ claimed[p] = Parameters!Unset => Cardinality(Claims') = Cardinality(Claims) + 1
  BY <1>1, <1>2, AddClaim
<1>4. e \in Sent /\ e.id = p /\ e.value = v
  BY DEF Parameters!Event, Sent
<1> HIDE DEF e
<1>5. ev \in Seq(Sent) /\ Len(ev) \in Nat /\ DOMAIN ev = 1..Len(ev)
  BY <1>2, ParamTypes DEF QueueTypes
<1>6. /\ ev' \in Seq(Sent) /\ Len(ev') = Len(ev) + 1 /\ DOMAIN ev' = 1..Len(ev) + 1
      /\ \A j \in 1..Len(ev) : ev'[j] = ev[j]
      /\ ev'[Len(ev) + 1] = e
  BY <1>1, <1>4, <1>5, AppendProperties
<1>7. Parameters!TypeOK'
  <2>1. Len(ev') <= Parameters!EvMax /\ handed' \in 0..Parameters!EvMax
    BY <1>1, <1>5, <1>6, EvMaxIs
  <2>2. sent' \in [Params -> Values \cup {Parameters!Unset}]
    BY <1>1, <1>2 DEF Parameters!TypeOK
  <2>3. /\ block' \in BOOLEAN /\ once' \in BOOLEAN /\ processed' \in BOOLEAN /\ refused' \in BOOLEAN
        /\ slot' \in [1..Slots -> [id : Params \cup {Parameters!NoId},
                                   value : Values \cup {Parameters!Unset}]]
        /\ plugin' \in [Params -> Values \cup {Parameters!Unset}] /\ broken' \subseteq Params
    BY <1>1, <1>2 DEF Parameters!TypeOK
  <2> QED
    BY <1>3, <1>6, <2>1, <2>2, <2>3, TypesNext
<1>8. Follows'
  <2> SUFFICES ASSUME NEW r \in Params
               PROVE  /\ r \in Parameters!Ids(ev') =>
                           /\ claimed'[r] # Parameters!Unset
                           /\ \E i : LastAt(ev', r, i) /\ ev'[i].value = sent'[r]
                      /\ r \notin Parameters!Ids(ev') \cup broken' => plugin'[r] = sent'[r]
                      /\ claimed'[r] # Parameters!Unset => claimed'[r] = sent'[r]
    BY DEF Follows, Parameters!Ids, LastAt
  <2>1. CASE r = p
    <3>1. sent'[p] = v
      BY <1>1, <1>2 DEF Parameters!TypeOK
    <3>2. LastAt(ev', p, Len(ev) + 1)
      <4>1. Len(ev) + 1 \in DOMAIN ev' /\ \A j \in DOMAIN ev' : j <= Len(ev) + 1
        BY <1>5, <1>6
      <4> QED
        BY <1>4, <1>6, <4>1 DEF LastAt
    <3>3. p \in Parameters!Ids(ev')
      BY <3>2 DEF LastAt, Parameters!Ids
    <3> QED
      BY <1>3, <1>4, <1>6, <2>1, <3>1, <3>2, <3>3
  <2>2. CASE r # p
    <3>1. sent'[r] = sent[r] /\ claimed'[r] = claimed[r]
      BY <1>1, <1>2, <1>3, <2>2 DEF Parameters!TypeOK
    <3>2. ASSUME NEW j \in DOMAIN ev', ev'[j].id = r PROVE j \in DOMAIN ev /\ ev'[j] = ev[j]
      BY <1>4, <1>5, <1>6, <2>2, <3>2
    <3>3. ASSUME NEW j \in DOMAIN ev PROVE j \in DOMAIN ev' /\ ev'[j] = ev[j]
      BY <1>5, <1>6
    <3>4. r \in Parameters!Ids(ev') <=> r \in Parameters!Ids(ev)
      BY <3>2, <3>3 DEF Parameters!Ids
    <3>5. \A i : LastAt(ev, r, i) => LastAt(ev', r, i) /\ ev'[i] = ev[i]
      BY <3>2, <3>3 DEF LastAt
    <3>6. /\ r \in Parameters!Ids(ev) =>
               /\ claimed[r] # Parameters!Unset
               /\ \E i : LastAt(ev, r, i) /\ ev[i].value = sent[r]
          /\ r \notin Parameters!Ids(ev) \cup broken => plugin[r] = sent[r]
          /\ claimed[r] # Parameters!Unset => claimed[r] = sent[r]
      BY DEF ParamInv, Follows
    <3>7. r \in broken' <=> r \in broken
      BY <1>1, <2>2
    <3>8. plugin' = plugin
      BY <1>1
    <3>9. r \in Parameters!Ids(ev') => \E i : LastAt(ev', r, i) /\ ev'[i].value = sent'[r]
      BY <3>1, <3>4, <3>5, <3>6
    <3> QED
      BY <3>1, <3>4, <3>6, <3>7, <3>8, <3>9
  <2> QED
    BY <2>1, <2>2
<1>9. Room'
  <2> SUFFICES ASSUME once' PROVE ~refused' /\ Len(ev') <= Cardinality(Claims')
    BY DEF Room
  <2>1. once /\ claimed[p] = Parameters!Unset
    BY <1>1
  <2>2. ~refused /\ Len(ev) <= Cardinality(Claims)
    BY <2>1 DEF ParamInv, Room
  <2>3. Len(ev) \in Nat /\ Cardinality(Claims) \in Nat
    BY <1>2, ParamTypes
  <2> QED
    BY <1>1, <1>3, <1>6, <2>1, <2>2, <2>3
<1> QED
  BY <1>1, <1>7, <1>8, <1>9 DEF ParamInv

\* The queue is full only where some parameter was set twice.
LEMMA RefuseInv ==
  ASSUME ParamInv, NEW p \in Params, NEW v \in Values, Parameters!SetParam(p, v),
         sent[p] # v, ~(Len(ev) < Parameters!EvMax)
  PROVE  ParamInv'
<1>1. /\ refused' = TRUE /\ UNCHANGED <<ev, sent, claimed, broken, block, slot, plugin>>
      /\ once' = (once /\ claimed[p] = Parameters!Unset) /\ processed' = FALSE /\ handed' = 0
  BY DEF Parameters!SetParam
<1>2. Parameters!TypeOK
  BY DEF ParamInv
<1>3. ~once'
  <2> SUFFICES ASSUME once, claimed[p] = Parameters!Unset PROVE FALSE
    BY <1>1
  <2>1. Len(ev) <= Cardinality(Claims)
    BY DEF ParamInv, Room
  <2>2. /\ Claims \subseteq Params /\ IsFiniteSet(Claims) /\ p \notin Claims
        /\ Cardinality(Claims) \in Nat /\ Len(ev) \in Nat
    BY <1>2, ParamTypes DEF Claims
  <2>3. Cardinality(Claims \cup {p}) = Cardinality(Claims) + 1
    BY <2>2, FS_AddElement
  <2>4. Cardinality(Claims \cup {p}) <= Cardinality(Params)
    BY <2>2, EvMaxIs, FS_Subset
  <2> QED
    BY <2>1, <2>2, <2>3, <2>4, EvMaxIs
<1>4. Parameters!TypeOK'
  <2>1. /\ block' \in BOOLEAN /\ once' \in BOOLEAN /\ processed' \in BOOLEAN /\ refused' \in BOOLEAN
        /\ slot' \in [1..Slots -> [id : Params \cup {Parameters!NoId},
                                   value : Values \cup {Parameters!Unset}]]
        /\ sent' \in [Params -> Values \cup {Parameters!Unset}]
        /\ plugin' \in [Params -> Values \cup {Parameters!Unset}] /\ broken' \subseteq Params
    BY <1>1, <1>2 DEF Parameters!TypeOK
  <2>2. ev' \in Seq(Sent) /\ Len(ev') <= Parameters!EvMax /\ handed' \in 0..Parameters!EvMax
    BY <1>1, <1>2, ParamTypes, EvMaxIs DEF QueueTypes
  <2>3. claimed' \in [Params -> Values \cup {Parameters!Unset}]
    BY <1>1, <1>2 DEF Parameters!TypeOK
  <2> QED
    BY <2>1, <2>2, <2>3, TypesNext
<1>5. Follows'
  BY <1>1 DEF ParamInv, Follows, Parameters!Ids, LastAt
<1> QED
  BY <1>1, <1>3, <1>4, <1>5 DEF ParamInv, Room

\* What the plugin got, of a parameter that no slot drives.
LEMMA ChainArrives ==
  ASSUME ParamInv, NEW args \in Parameters!SlotArgs, NEW q, Grown(args, q, Slots),
         NEW p \in Params, p \notin BySlot(args), p \notin broken
  PROVE  Parameters!Applied(q)[p] = sent[p]
<1>1. /\ ev \in Seq(Sent) /\ Len(ev) \in Nat /\ DOMAIN ev = 1..Len(ev)
      /\ q \in Seq(Sent) /\ Len(q) \in Nat /\ DOMAIN q = 1..Len(q)
  BY ParamTypes DEF ParamInv, QueueTypes, Grown
<1>2. /\ Len(ev) <= Len(q) /\ \A j \in 1..Len(ev) : q[j] = ev[j]
      /\ \A j \in Len(ev) + 1..Len(q) : q[j].id \in BySlot(args)
  BY DEF Grown
<1>3. ASSUME NEW j \in DOMAIN q, q[j].id = p PROVE j \in DOMAIN ev /\ q[j] = ev[j]
  BY <1>1, <1>2, <1>3
<1>4. ASSUME NEW j \in DOMAIN ev PROVE j \in DOMAIN q /\ q[j] = ev[j]
  BY <1>1, <1>2
<1>5. p \in Parameters!Ids(q) <=> p \in Parameters!Ids(ev)
  BY <1>3, <1>4 DEF Parameters!Ids
<1>6. \A i : LastAt(ev, p, i) => LastAt(q, p, i) /\ q[i] = ev[i]
  BY <1>3, <1>4 DEF LastAt
<1>7. CASE p \in Parameters!Ids(ev)
  <2>1. PICK i : LastAt(ev, p, i) /\ ev[i].value = sent[p]
    BY <1>7 DEF ParamInv, Follows
  <2> QED
    BY <1>1, <1>6, <2>1, AppliedIs
<1>8. CASE p \notin Parameters!Ids(ev)
  <2>1. plugin[p] = sent[p]
    BY <1>8 DEF ParamInv, Follows
  <2> QED
    BY <1>1, <1>5, <1>8, <2>1, AppliedIs
<1> QED
  BY <1>7, <1>8

LEMMA ParamProcessInv ==
  ASSUME ParamInv, NEW args \in Parameters!SlotArgs, Parameters!Process(args)
  PROVE  ParamInv'
<1> DEFINE Q == Parameters!Queued(args)
<1>1. /\ plugin' = Parameters!Applied(Q[Slots]) /\ handed' = Len(Q[Slots])
      /\ claimed' = [p \in Params |-> IF p \in BySlot(args) THEN Parameters!Unset ELSE claimed[p]]
      /\ broken' = broken \cup BySlot(args)
      /\ refused' = (refused \/ \E i \in 1..Slots : Parameters!SlotDropped(Q[i - 1], i, args[i]))
      /\ slot' = [i \in 1..Slots |-> Parameters!NewSlot(args[i])]
      /\ ev' = <<>> /\ processed' = TRUE /\ UNCHANGED <<block, sent, once>>
  BY DEF Parameters!Process, BySlot
<1>2. Parameters!TypeOK /\ QueueTypes
  BY ParamTypes DEF ParamInv
<1>3. \A n \in 0..Slots : Grown(args, Q[n], n)
  BY <1>2, QueuedGrows
<1> HIDE DEF Q
<1>4. Grown(args, Q[Slots], Slots)
  BY <1>3, EvMaxIs
<1>5. claimed' \in [Params -> Values \cup {Parameters!Unset}]
  <2>1. \A p \in Params : claimed[p] \in Values \cup {Parameters!Unset}
    BY <1>2 DEF Parameters!TypeOK
  <2> QED
    BY <1>1, <2>1
<1>6. Parameters!TypeOK'
  <2>1. plugin' \in [Params -> Values \cup {Parameters!Unset}]
    BY <1>1, <1>2, <1>4, AppliedType DEF Grown, Parameters!TypeOK
  <2>2. slot' \in [1..Slots -> [id : Params \cup {Parameters!NoId},
                                value : Values \cup {Parameters!Unset}]]
    <3>1. \A i \in 1..Slots : Parameters!NewSlot(args[i])
            \in [id : Params \cup {Parameters!NoId}, value : Values \cup {Parameters!Unset}]
      BY DEF Parameters!SlotArgs, Parameters!NewSlot, Parameters!Event
    <3> QED
      BY <1>1, <3>1
  <2>3. handed' \in 0..Parameters!EvMax
    BY <1>1, <1>4, EvMaxIs DEF Grown
  <2>4. ev' \in Seq(Sent) /\ Len(ev') <= Parameters!EvMax
    BY <1>1, EvMaxIs
  <2>5. refused' \in BOOLEAN
    BY <1>1
  <2>6. broken' \subseteq Params
    BY <1>1, <1>2 DEF Parameters!TypeOK, BySlot
  <2>7. block' \in BOOLEAN /\ once' \in BOOLEAN /\ processed' \in BOOLEAN
    BY <1>1, <1>2 DEF Parameters!TypeOK
  <2>8. sent' \in [Params -> Values \cup {Parameters!Unset}]
    BY <1>1, <1>2 DEF Parameters!TypeOK
  <2> QED
    BY <1>5, <2>1, <2>2, <2>3, <2>4, <2>5, <2>6, <2>7, <2>8, TypesNext
<1>7. Follows'
  <2>1. Parameters!Ids(ev') = {}
    BY <1>1 DEF Parameters!Ids
  <2>2. ASSUME NEW p \in Params, p \notin broken' PROVE plugin'[p] = sent'[p]
    BY <1>1, <1>4, <2>2, ChainArrives
  <2>3. ASSUME NEW p \in Params, claimed'[p] # Parameters!Unset PROVE claimed'[p] = sent'[p]
    BY <1>1, <2>3 DEF ParamInv, Follows
  <2> QED
    BY <2>1, <2>2, <2>3 DEF Follows, Parameters!Ids
<1>8. Room'
  <2> SUFFICES ASSUME once' PROVE ~refused' /\ Len(ev') <= Cardinality(Claims')
    BY DEF Room
  <2>1. ~refused /\ Len(ev) <= Cardinality(Claims)
    BY <1>1 DEF ParamInv, Room
  <2>2. Len(ev) \in Nat /\ Len(ev) <= Cardinality(Params)
    BY <1>2, <2>1, ParamTypes, EvMaxIs
  <2>3. ASSUME NEW i \in 1..Slots PROVE ~Parameters!SlotDropped(Q[i - 1], i, args[i])
    <3>1. i - 1 \in 0..Slots
      BY EvMaxIs
    <3>2. Q[i - 1] \in Seq(Sent) /\ Len(Q[i - 1]) <= Len(ev) + (i - 1)
      BY <1>3, <3>1 DEF Grown
    <3>3. Len(Q[i - 1]) \in Nat
      BY <3>2
    <3>4. Len(Q[i - 1]) # Parameters!EvMax
      BY <2>2, <3>2, <3>3, EvMaxIs
    <3> QED
      BY <3>4 DEF Parameters!SlotDropped
  <2>4. ~refused'
    BY <1>1, <2>1, <2>3
  <2>5. Claims' \subseteq Params
    BY DEF Claims
  <2>6. Cardinality(Claims') \in Nat
    BY <2>5, EvMaxIs, FS_Subset, FS_CardinalityType
  <2> QED
    BY <1>1, <2>4, <2>6
<1> QED
  BY <1>1, <1>6, <1>7, <1>8 DEF ParamInv

LEMMA ParamInvariance == SideSpec => []ParamInv
<1>1. SideInit => ParamInv
  <2> SUFFICES ASSUME Parameters!Init PROVE ParamInv
    BY DEF SideInit
  <2>1. Parameters!Ids(ev) = {} /\ Len(ev) = 0 /\ ev \in Seq(Sent)
    BY DEF Parameters!Init, Parameters!Ids
  <2>2. Parameters!TypeOK
    <3>1. /\ Parameters!NoClaims \in [Params -> Values \cup {Parameters!Unset}]
          /\ [i \in 1..Slots |-> Parameters!Event(Parameters!NoId, Parameters!Unset)]
               \in [1..Slots -> [id : Params \cup {Parameters!NoId},
                                 value : Values \cup {Parameters!Unset}]]
      BY DEF Parameters!NoClaims, Parameters!Event
    <3>2. Len(ev) <= Parameters!EvMax /\ 0 \in 0..Parameters!EvMax
      BY <2>1, EvMaxIs
    <3> QED
      BY <2>1, <3>1, <3>2 DEF Parameters!Init, Parameters!TypeOK, Sent
  <2>3. Room
    BY <2>1, <2>2, ParamTypes DEF Parameters!Init, Room
  <2>4. Follows
    BY <2>1 DEF Parameters!Init, Parameters!NoClaims, Follows
  <2> QED
    BY <2>2, <2>3, <2>4 DEF ParamInv, Parameters!Init
<1>2. ParamInv /\ [SideNext]_<<side, paramVars, compVars, vars>> => ParamInv'
  <2> SUFFICES ASSUME ParamInv, [SideNext]_<<side, paramVars, compVars, vars>> PROVE ParamInv'
    OBVIOUS
  <2>1. Parameters!Next \/ UNCHANGED paramVars
    BY DEF SideNext
  <2>2. CASE Parameters!Reopen
    BY <2>2, ReopenInv
  <2>3. CASE Parameters!Fill
    BY <2>3, FillInv
  <2>4. CASE \E p \in Params, v \in Values : Parameters!SetParam(p, v)
    BY <2>4, HeldInv, QueueInv, RefuseInv
  <2>5. CASE \E args \in Parameters!SlotArgs : Parameters!Process(args)
    BY <2>5, ParamProcessInv
  <2>6. CASE UNCHANGED paramVars
    BY <2>6 DEF paramVars, ParamInv, Parameters!TypeOK, Parameters!EvMax, Follows, Room, Claims,
                Parameters!Ids, LastAt
  <2> QED
    BY <2>1, <2>2, <2>3, <2>4, <2>5, <2>6 DEF Parameters!Next
<1> QED
  BY <1>1, <1>2, PTL DEF SideSpec

\* What is queued was asked for on the current block, whatever was pending when
\* its input was filled (clap_in_fill, clap_set_param).
THEOREM ChainsAreFresh == SideSpec => []NothingLeaks
<1>1. ParamInv => NothingLeaks
  <2> SUFFICES ASSUME ParamInv, NEW p \in Parameters!Ids(ev)
               PROVE  /\ claimed[p] # Parameters!Unset
                      /\ \E i \in DOMAIN ev : ev[i] = Parameters!Event(p, claimed[p])
    BY DEF NothingLeaks, Parameters!NothingLeaks
  <2>1. ev \in Seq(Sent)
    BY DEF ParamInv, Parameters!TypeOK, Sent
  <2>2. p \in Params
    BY <2>1, IdsAre
  <2>3. PICK i : LastAt(ev, p, i) /\ ev[i].value = sent[p]
    BY <2>2 DEF ParamInv, Follows
  <2>4. claimed[p] # Parameters!Unset /\ claimed[p] = sent[p]
    BY <2>2 DEF ParamInv, Follows
  <2>5. i \in DOMAIN ev /\ ev[i].id = p /\ ev[i] \in Sent
    BY <2>1, <2>3 DEF LastAt
  <2>6. ev[i] = Parameters!Event(p, claimed[p])
    BY <2>3, <2>4, <2>5 DEF Sent, Parameters!Event
  <2> QED
    BY <2>4, <2>5, <2>6
<1> QED
  BY <1>1, ParamInvariance, PTL

\* However many parameters and slots there are, a block that drives each parameter
\* once is never refused (EV_MAX, clap_set_param, clap_process).
THEOREM OnceFits == SideSpec => []OncePerBlockFits
<1>1. ParamInv => OncePerBlockFits
  BY DEF ParamInv, Room, OncePerBlockFits, Parameters!OncePerBlockFits
<1> QED
  BY <1>1, ParamInvariance, PTL

\* An accepted change reaches the plugin with its block, unless an earlier change
\* of the parameter was abandoned or a slot drives it (clap_set_param, clap_process).
THEOREM Delivered == SideSpec => []DeliveredUnlessBroken
<1>1. ParamInv => DeliveredUnlessBroken
  <2> SUFFICES ASSUME ParamInv, processed, NEW p \in Params \ broken,
                      claimed[p] # Parameters!Unset
               PROVE  plugin[p] = claimed[p]
    BY DEF DeliveredUnlessBroken, Parameters!DeliveredUnlessBroken
  <2>1. Parameters!Ids(ev) = {}
    BY DEF ParamInv, Parameters!Ids
  <2> QED
    BY <2>1 DEF ParamInv, Follows
<1> QED
  BY <1>1, ParamInvariance, PTL

---------------------------------------------------------------------------
(* The ranges of instances and tokens.                                     *)

\* An instance after a calls that wrote audio.
InRange(r, a) ==
  /\ r.plugin \in BOOLEAN /\ r.config \in Configs \cup {"none"} /\ r.outN \in BOOLEAN
  /\ r.in \in 0..a /\ r.out \in 0..a
  /\ r.inTok \in 0..MaxTokens + 1 + a /\ r.outTok \in 0..MaxTokens + 1 + a

Issuable(a) ==
  [token : 0..MaxTokens + 1 + a, handle : 0..MaxHandles, kind : {"in", "out"}, audio : 0..a]

Ranges ==
  /\ audio \in 0..MaxAudio /\ nextHandle \in 0..MaxHandles /\ nextToken \in 0..MaxTokens
  /\ \A h \in Handles : InRange(inst[h], audio)
  /\ issued \subseteq Issuable(audio)

LEMMA RangesGrow ==
  ASSUME NEW a \in Nat, NEW b \in Nat, a <= b
  PROVE  /\ \A r : InRange(r, a) => InRange(r, b)
         /\ Issuable(a) \subseteq Issuable(b)
<1>1. 0..a \subseteq 0..b /\ 0..MaxTokens + 1 + a \subseteq 0..MaxTokens + 1 + b
  BY BoundAssumption
<1> QED
  BY <1>1 DEF InRange, Issuable

\* A call that writes instance r at h and issues what is in new.
LEMMA WrittenRanges ==
  ASSUME Shapes, Ranges, NEW h \in Handles, NEW r, InRange(r, audio'),
         inst' = [inst EXCEPT ![h] = r], audio' \in audio..MaxAudio, UNCHANGED nextHandle,
         nextToken' \in 0..MaxTokens, NEW new, new \subseteq Issuable(audio'),
         issued' \subseteq issued \cup new
  PROVE  Ranges'
<1>1. audio \in Nat /\ audio' \in Nat /\ audio <= audio' /\ audio' \in 0..MaxAudio
  BY BoundAssumption DEF Ranges
<1>2. Handles' = Handles /\ inst'[h] = r /\ \A k \in Handles \ {h} : inst'[k] = inst[k]
  BY DEF Handles, Shapes
<1>3. \A k \in Handles' : InRange(inst'[k], audio')
  BY <1>1, <1>2, RangesGrow DEF Ranges
<1>4. issued' \subseteq Issuable(audio')
  BY <1>1, RangesGrow DEF Ranges
<1> QED
  BY <1>1, <1>3, <1>4 DEF Ranges, InRange, Issuable

LEMMA NewToken ==
  ASSUME Shapes, Ranges, NEW h \in Handles, audio < MaxAudio, audio' = audio + 1, Count(h),
         NEW previous \in 0..MaxTokens + 1 + audio
  PROVE  /\ audio' \in Nat /\ audio' \in audio..MaxAudio /\ h \in 0..MaxHandles
         /\ NextToken(h, previous) \in 0..MaxTokens + 1 + audio' /\ nextToken' \in 0..MaxTokens
<1>1. audio \in Nat /\ MaxTokens \in Nat /\ MaxAudio \in Nat /\ nextToken \in 0..MaxTokens
  BY BoundAssumption DEF Ranges
<1>2. h \in 0..MaxHandles
  BY BoundAssumption DEF Shapes, Ranges
<1>3. NextToken(h, previous) \in {previous + 1, NaN, nextToken + 1}
  BY DEF NextToken
<1>4. /\ previous + 1 \in 0..MaxTokens + 1 + (audio + 1) /\ MaxTokens + 1 \in 0..MaxTokens + 1 + (audio + 1)
      /\ nextToken + 1 \in 0..MaxTokens + 1 + (audio + 1)
  BY <1>1
<1>5. nextToken' \in 0..MaxTokens
  BY <1>1 DEF Count
<1> QED
  BY <1>1, <1>2, <1>3, <1>4, <1>5 DEF NaN

LEMMA NewInputRanges ==
  ASSUME Shapes, Ranges, NEW h \in Handles, audio < MaxAudio, audio' = audio + 1,
         NewInput(h, audio')
  PROVE  Ranges'
<1> DEFINE t == NextToken(h, inst[h].inTok)
           new == [token |-> t, handle |-> h, kind |-> "in", audio |-> audio']
<1>q. PICK q : q = inst[h]
  OBVIOUS
<1>r. PICK r : r = [q EXCEPT !.in = audio', !.inTok = t]
  OBVIOUS
<1>1. inst' = [inst EXCEPT ![h] = r] /\ UNCHANGED nextHandle /\ Count(h)
      /\ issued' = issued \cup {new}
  BY <1>q, <1>r DEF NewInput, Issue
<1>2. InRange(q, audio) /\ Fields(q)
  BY <1>q DEF Ranges, Shapes, Shaped
<1>3. /\ audio' \in Nat /\ audio' \in audio..MaxAudio /\ h \in 0..MaxHandles
      /\ t \in 0..MaxTokens + 1 + audio' /\ nextToken' \in 0..MaxTokens
  BY <1>1, <1>2, <1>q, NewToken DEF InRange
<1> HIDE DEF t
<1>4. new \in Issuable(audio')
  BY <1>3 DEF Issuable
<1> HIDE DEF new
<1>5. InRange(r, audio')
  <2>1. /\ r.plugin = q.plugin /\ r.config = q.config /\ r.outN = q.outN
        /\ r.in = audio' /\ r.inTok = t /\ r.out = q.out /\ r.outTok = q.outTok
    BY <1>r, <1>2 DEF Fields
  <2>2. audio \in Nat /\ audio <= audio' /\ audio' \in 0..audio'
    BY <1>3 DEF Ranges
  <2>3. InRange(q, audio')
    BY <1>2, <1>3, <2>2, RangesGrow
  <2> QED
    BY <1>3, <2>1, <2>2, <2>3 DEF InRange
<1> QED
  BY <1>1, <1>3, <1>4, <1>5, WrittenRanges

LEMMA ProcessRanges ==
  ASSUME Shapes, Ranges, NEW h \in Handles, Process(h)
  PROVE  Ranges'
<1> DEFINE t == NextToken(h, inst[h].outTok)
           new == [token |-> t, handle |-> h, kind |-> "out", audio |-> audio']
<1>q. PICK q : q = inst[h]
  OBVIOUS
<1>r. PICK r : r = [q EXCEPT !.out = audio', !.outTok = t, !.outN = TRUE]
  OBVIOUS
<1>1. inst' = [inst EXCEPT ![h] = r] /\ UNCHANGED nextHandle /\ Count(h)
      /\ issued' = issued \cup {new} /\ audio < MaxAudio /\ audio' = audio + 1
  BY <1>q, <1>r DEF Process, Issue
<1>2. InRange(q, audio) /\ Fields(q)
  BY <1>q DEF Ranges, Shapes, Shaped
<1>3. /\ audio' \in Nat /\ audio' \in audio..MaxAudio /\ h \in 0..MaxHandles
      /\ t \in 0..MaxTokens + 1 + audio' /\ nextToken' \in 0..MaxTokens
  BY <1>1, <1>2, <1>q, NewToken DEF InRange
<1> HIDE DEF t
<1>4. new \in Issuable(audio')
  BY <1>3 DEF Issuable
<1> HIDE DEF new
<1>5. InRange(r, audio')
  <2>1. /\ r.plugin = q.plugin /\ r.config = q.config /\ r.outN = TRUE
        /\ r.in = q.in /\ r.inTok = q.inTok /\ r.out = audio' /\ r.outTok = t
    BY <1>r, <1>2 DEF Fields
  <2>2. audio \in Nat /\ audio <= audio' /\ audio' \in 0..audio'
    BY <1>3 DEF Ranges
  <2>3. InRange(q, audio')
    BY <1>2, <1>3, <2>2, RangesGrow
  <2> QED
    BY <1>3, <2>1, <2>2, <2>3 DEF InRange
<1> QED
  BY <1>1, <1>3, <1>4, <1>5, WrittenRanges

LEMMA ProcessErrorRanges ==
  ASSUME Shapes, Ranges, NEW h \in Handles, ProcessError(h)
  PROVE  Ranges'
<1>q. PICK q : q = inst[h]
  OBVIOUS
<1>r. PICK r : r = [q EXCEPT !.out = audio', !.outN = FALSE]
  OBVIOUS
<1>1. inst' = [inst EXCEPT ![h] = r] /\ UNCHANGED <<nextHandle, nextToken>>
      /\ issued' = issued /\ audio < MaxAudio /\ audio' = audio + 1
  BY <1>q, <1>r DEF ProcessError
<1>2. InRange(q, audio) /\ Fields(q)
  BY <1>q DEF Ranges, Shapes, Shaped
<1>3. audio \in Nat /\ audio' \in Nat /\ audio' \in audio..MaxAudio /\ audio <= audio'
      /\ audio' \in 0..audio' /\ nextToken' \in 0..MaxTokens
  BY <1>1, BoundAssumption DEF Ranges
<1>5. InRange(r, audio')
  <2>1. /\ r.plugin = q.plugin /\ r.config = q.config /\ r.outN = FALSE
        /\ r.in = q.in /\ r.inTok = q.inTok /\ r.out = audio' /\ r.outTok = q.outTok
    BY <1>r, <1>2 DEF Fields
  <2>3. InRange(q, audio')
    BY <1>2, <1>3, RangesGrow
  <2> QED
    BY <1>3, <2>1, <2>3 DEF InRange
<1>6. {} \subseteq Issuable(audio') /\ issued' \subseteq issued \cup {}
  BY <1>1
<1> QED
  BY <1>1, <1>3, <1>5, <1>6, WrittenRanges

LEMMA NewInstances ==
  ASSUME NEW a \in Nat
  PROVE  /\ InRange(Closed, a)
         /\ \A b \in Bundles : InRange(Scanned(b), a)
         /\ \A b \in Bundles, c \in Configs : InRange(Opened(b, c), a)
<1>1. 0 \in 0..a /\ 0 \in 0..MaxTokens + 1 + a
  BY BoundAssumption
<1> QED
  BY <1>1 DEF InRange, Closed, Scanned, Opened, NoToken

\* Opens and closes write no audio.
LEMMA NoBlockRanges ==
  ASSUME Shapes, Ranges,
         Scan \/ Open \/ Close \/ OpenInstance \/ \E h \in Handles : CloseInstance(h)
  PROVE  Ranges'
<1>1. audio' = audio /\ audio \in Nat /\ nextToken' = nextToken /\ issued' \subseteq issued
  <2>1. audio \in Nat
    BY BoundAssumption DEF Ranges
  <2>2. audio' = audio /\ nextToken' = nextToken
    BY DEF Scan, Open, Close, OpenInstance, CloseInstance
  <2>3. issued' \subseteq issued
    BY DEF Scan, Open, Close, OpenInstance, CloseInstance
  <2> QED
    BY <2>1, <2>2, <2>3
<1>2. nextHandle' \in 0..MaxHandles
  <2>1. nextHandle' = nextHandle \/ (nextHandle' = nextHandle + 1 /\ nextHandle < MaxHandles)
    BY DEF Scan, Open, Close, OpenInstance, CloseInstance
  <2>2. nextHandle \in 0..MaxHandles
    BY DEF Ranges
  <2> QED
    BY <2>1, <2>2, BoundAssumption
<1>3. ASSUME NEW h \in Handles' PROVE InRange(inst'[h], audio)
  <2>1. CASE Scan \/ Open \/ Close
    <3>1. PICK r : inst' = [inst EXCEPT ![Default] = r] /\ InRange(r, audio)
      BY <1>1, <2>1, NewInstances DEF Scan, Open, Close
    <3>2. h \in Handles /\ (inst'[h] = r \/ inst'[h] = inst[h])
      BY <3>1 DEF Handles
    <3> QED
      BY <3>1, <3>2 DEF Ranges
  <2>2. CASE OpenInstance
    <3>1. PICK b \in Bundles, c \in Configs :
            inst' = [k \in Handles \cup {nextHandle'} |->
                       IF k = nextHandle' THEN Opened(b, c) ELSE inst[k]]
      BY <2>2 DEF OpenInstance
    <3>2. InRange(Opened(b, c), audio)
      BY <1>1, NewInstances
    <3>3. h \in Handles \cup {nextHandle'}
      BY <3>1 DEF Handles
    <3>4. inst'[h] = Opened(b, c) \/ (h \in Handles /\ inst'[h] = inst[h])
      BY <3>1, <3>3
    <3> QED
      BY <3>2, <3>4 DEF Ranges
  <2>3. CASE \E k \in Handles : CloseInstance(k)
    <3>1. h \in Handles /\ inst'[h] = inst[h]
      BY <2>3 DEF CloseInstance, Handles
    <3> QED
      BY <3>1 DEF Ranges
  <2> QED
    BY <2>1, <2>2, <2>3
<1>4. \A h \in Handles' : InRange(inst'[h], audio')
  BY <1>1, <1>3
<1> QED
  BY <1>1, <1>2, <1>4 DEF Ranges, InRange, Issuable

LEMMA RangesInvariance == Spec => []Ranges
<1>1. Init => Ranges
  <2> SUFFICES ASSUME Init PROVE Ranges
    OBVIOUS
  <2>1. audio = 0 /\ nextHandle = 0 /\ nextToken = 0 /\ issued = {}
    BY DEF Init
  <2>2. \A h \in Handles : inst[h] = Closed
    BY DEF Init, Handles
  <2>3. InRange(Closed, 0)
    BY NewInstances
  <2> QED
    BY <2>1, <2>2, <2>3, BoundAssumption DEF Ranges
<1>2. IInv /\ Ranges /\ [Next]_vars => Ranges'
  <2> SUFFICES ASSUME Shapes, Ranges, [Next]_vars PROVE Ranges'
    BY DEF IInv, ModuleInv
  <2>1. CASE Scan \/ Open \/ Close \/ OpenInstance \/ \E h \in Handles : CloseInstance(h)
    BY <2>1, NoBlockRanges
  <2>2. CASE \E h \in Handles : Fill(h)
    BY <2>2, NewInputRanges DEF Fill
  <2>3. CASE \E dst, src \in Handles : Copy(dst, src)
    BY <2>3, NewInputRanges DEF Copy
  <2>4. CASE \E h \in Handles : Process(h) \/ ProcessError(h)
    BY <2>4, ProcessRanges, ProcessErrorRanges
  <2>5. CASE UNCHANGED vars
    BY <2>5 DEF vars, Ranges, Handles, InRange, Issuable
  <2> QED
    BY <2>1, <2>2, <2>3, <2>4, <2>5 DEF Next
<1> QED
  BY <1>1, <1>2, Invariance, PTL DEF Spec

\* Both sides keep to their types, and neither the chain nor the slots of a call
\* write past the event array, for any number of them (EV_MAX, queue_event).
THEOREM EventsFit == SideSpec => []Types
<1>1. SideSpec => Spec
  <2>1. SideInit => Init
    BY DEF SideInit
  <2>2. [SideNext]_<<side, paramVars, compVars, vars>> => [Next]_vars
    BY DEF SideNext
  <2> QED
    BY <2>1, <2>2, PTL DEF SideSpec, Spec
<1>2. IInv /\ Ranges /\ ParamInv => Types
  <2> SUFFICES ASSUME IInv, Ranges PROVE TypeOK
    BY DEF ParamInv, Types
  <2>1. /\ Shapes /\ audio \in 0..MaxAudio /\ nextHandle \in 0..MaxHandles
        /\ nextToken \in 0..MaxTokens
    BY DEF IInv, ModuleInv, Ranges
  <2>2. 0..audio \subseteq 0..MaxAudio /\ 0..MaxTokens + 1 + audio \subseteq Tokens
    BY <2>1, BoundAssumption DEF Tokens
  <2>3. Handles \subseteq 0..MaxHandles
    BY <2>1, BoundAssumption DEF Shapes
  <2>4. issued \subseteq [token : Tokens, handle : 0..MaxHandles, kind : {"in", "out"},
                          audio : 0..MaxAudio]
    BY <2>2 DEF Ranges, Issuable
  <2>5. ASSUME NEW h \in Handles
        PROVE  inst[h] \in [entry : Bundles \cup {"none"}, plugin : BOOLEAN,
                            config : Configs \cup {"none"}, in : 0..MaxAudio, inTok : Tokens,
                            out : 0..MaxAudio, outTok : Tokens, outN : BOOLEAN]
    <3>1. Fields(inst[h]) /\ inst[h].entry \in Bundles \cup {"none"} /\ InRange(inst[h], audio)
      BY <2>1 DEF Shapes, Shaped, Ranges
    <3> QED
      BY <2>2, <3>1 DEF Fields, InRange
  <2> QED
    BY <2>1, <2>3, <2>4, <2>5 DEF TypeOK, Shapes
<1> QED
  BY <1>1, <1>2, Invariance, RangesInvariance, ParamInvariance, PTL

---------------------------------------------------------------------------
(* The latency compensation: what LatencyComp_proofs proves, of this       *)
(* module's steps.                                                         *)

Proved == INSTANCE LatencyComp_proofs

LEMMA StepsAreProved ==
  /\ Comp!Assumptions <=> Proved!Assumptions
  /\ Comp!Init => Proved!Init
  /\ Comp!Next => Proved!Next
<1>1. Comp!Assumptions <=> Proved!Assumptions
  BY DEF Comp!Assumptions, Proved!Assumptions
<1>2. /\ \A n : Comp!Ceil(n) = Proved!Ceil(n) /\ Comp!NewHost(n) = Proved!NewHost(n)
      /\ \A m, n : Comp!LeastOf(m, n) = Proved!LeastOf(m, n)
      /\ \A v : Comp!Each(v) = Proved!Each(v)
      /\ Comp!NoSlips = Proved!NoSlips /\ (Comp!Unread <=> Proved!Unread)
  BY DEF Comp!Ceil, Proved!Ceil, Comp!NewHost, Proved!NewHost,
         Comp!LeastOf, Proved!LeastOf, Comp!Each, Proved!Each,
         Comp!NoSlips, Proved!NoSlips, Comp!Unread, Proved!Unread
<1>3. \A n : Comp!NewComp(n) = Proved!NewComp(n)
  BY <1>2 DEF Comp!NewComp, Proved!NewComp
<1>4. /\ \A h : (Comp!CanDrain(h) <=> Proved!CanDrain(h)) /\ Comp!Raw(h) = Proved!Raw(h)
      /\ \A n : Comp!Whole(n) = Proved!Whole(n)
      /\ \A k, c, n : Comp!Take(k, c, n) <=> Proved!Take(k, c, n)
  BY DEF Comp!CanDrain, Proved!CanDrain, Comp!Raw, Proved!Raw,
         Comp!Whole, Proved!Whole, Comp!Take, Proved!Take
<1>5. \A h, real : Comp!Drain(h, real) = Proved!Drain(h, real)
  BY <1>2, <1>4 DEF Comp!Drain, Proved!Drain
<1>6. Comp!Init => Proved!Init
  BY <1>2, <1>3 DEF Comp!Init, Proved!Init
<1>7. /\ Comp!Process => Proved!Process
      /\ Comp!ProcessError => Proved!ProcessError
      /\ Comp!LatencyChanges => Proved!LatencyChanges
  BY <1>2 DEF Comp!Process, Proved!Process,
              Comp!ProcessError, Proved!ProcessError,
              Comp!LatencyChanges, Proved!LatencyChanges
<1>8. Comp!FlushBegin => Proved!FlushBegin
  BY <1>2 DEF Comp!FlushBegin, Proved!FlushBegin
<1>9. Comp!FlushBlock => Proved!FlushBlock
  BY <1>4, <1>5 DEF Comp!FlushBlock, Proved!FlushBlock
<1>10. Comp!Reopen => Proved!Reopen
  BY <1>2, <1>3 DEF Comp!Reopen, Proved!Reopen
<1>11. \A c \in Channels : Comp!Out(c) => Proved!Out(c)
  BY <1>2, <1>4, <1>5 DEF Comp!Out, Proved!Out
<1>12. \A c \in Channels : Comp!FlushTail(c) => Proved!FlushTail(c)
  BY <1>2, <1>4 DEF Comp!FlushTail, Proved!FlushTail
<1> QED
  BY <1>1, <1>6, <1>7, <1>8, <1>9, <1>10, <1>11, <1>12 DEF Comp!Next, Proved!Next

LEMMA RunsAreProved == Proved!Assumptions /\ (SideSpec => Proved!Spec)
<1>1. Proved!Assumptions
  BY LatencyAssumption, StepsAreProved
<1>2. SideInit => Proved!Init
  BY StepsAreProved DEF SideInit
<1>3. [SideNext]_<<side, paramVars, compVars, vars>> => [Proved!Next]_Proved!vars
  BY StepsAreProved DEF SideNext, compVars, Proved!vars
<1> QED
  BY <1>1, <1>2, <1>3, PTL DEF SideSpec, Proved!Spec

\* For any block length, latency, channels and any number of blocks, what clap_out hands
\* out with compensation is the input from its first sample, without a gap, as long as
\* no error has emptied an unread block (_drain!, _comp_out).
THEOREM StreamIsAligned == SideSpec => []Aligned
<1>1. Proved!Aligned <=> Aligned
  BY DEF Proved!Aligned, Aligned, Comp!Aligned
<1> QED
  BY <1>1, RunsAreProved, Proved!AlignedStream, PTL

\* For any latency and block length, the lag is the latency in whole blocks, rounded up
\* (_comp_out).
THEOREM StreamLags == SideSpec => []LagIsCeiling
<1>1. Proved!LagIsCeiling <=> LagIsCeiling
  BY StepsAreProved DEF Proved!LagIsCeiling, LagIsCeiling, Comp!LagIsCeiling, Proved!Ceil, Comp!Ceil
<1> QED
  BY <1>1, RunsAreProved, Proved!LagBound, PTL

\* For any latency and block length, a flush completes the stream (clap_flush!).
THEOREM FlushIsComplete == SideSpec => []TailCompletes
<1>1. Proved!TailCompletes <=> TailCompletes
  BY DEF Proved!TailCompletes, TailCompletes, Comp!TailCompletes
<1> QED
  BY <1>1, RunsAreProved, Proved!FlushCompletes, PTL

=============================================================================
