--------------------------- MODULE Plugins_proofs ---------------------------
(***************************************************************************)
(* Proofs about the adapters around plugins, for any values of their       *)
(* constants.  The URID map of the live LV2 adapter implements the table   *)
(* of UriTable, for any threads, any URIs and any capacity.  In the        *)
(* Airwindows module an effect holds what its host was told, and           *)
(* descriptors point into the table that is there.  The exported plugins   *)
(* compute each frame with the values that are promised for it, and VST3's *)
(* controller and processor agree between calls.  What the live session    *)
(* accepts for a block reaches the plugin of every format, in order.       *)
(***************************************************************************)
EXTENDS MCPlugins, FiniteSetTheorems, SequenceTheorems, WellFoundedInduction, TLAPS

---------------------------------------------------------------------------
(* The URID map.                                                           *)

Places == {"idle", "scan", "lock", "rescan", "store", "publish", "found", "refuse"}
Guarded == {"rescan", "store", "publish", "found", "refuse"}
Calls == [uri : Uris \cup {"none"}, known : BOOLEAN, answer : 0..Capacity + 1]

TypeInv ==
  /\ count \in 0..Capacity
  /\ uris \in [1..Capacity -> Uris \cup {"none"}]
  /\ guard \in BOOLEAN
  /\ pc \in [Threads -> Places]
  /\ call \in [Threads -> Calls]

\* The flag is taken while a thread is in the guarded part, and by one.
Exclusive ==
  \A t \in Threads : pc[t] \in Guarded =>
    guard /\ \A u \in Threads : pc[u] \in Guarded => u = t

\* The rows that are published hold the URI of thread t.
Row(t) == \E i \in 1..count : uris[i] = call[t].uri

\* A thread has an answer pending while it is in map_uri.
Waiting == \A t \in Threads : pc[t] = "idle" <=> call[t].answer # Pending

\* What a thread has found out about the table stays true until it uses it.
Located ==
  \A t \in Threads :
    /\ pc[t] # "idle" => call[t].uri \in Uris
    /\ call[t].known => Row(t)
    /\ pc[t] = "lock" => ~call[t].known
    /\ pc[t] = "found" => Row(t)
    /\ pc[t] \in {"store", "publish", "refuse"} => ~Row(t)
    /\ pc[t] \in {"store", "publish"} => count < Capacity
    /\ pc[t] = "publish" => uris[count + 1] = call[t].uri

IInv == TypeInv /\ Exclusive /\ Waiting /\ Located

---------------------------------------------------------------------------
\* Whether a lookup finds its URI, as the invariant says it.
LEMMA FoundIsRow ==
  ASSUME TypeInv, NEW t \in Threads
  PROVE  Found(call[t].uri) # {} <=> Row(t)
  BY DEF Found, Row

LEMMA InitInv == Init => IInv
<1> SUFFICES ASSUME Init PROVE IInv
  OBVIOUS
<1>1. TypeInv
  <2>1. call \in [Threads -> Calls]
    <3>1. [uri |-> "none", known |-> FALSE, answer |-> 0] \in Calls
      BY CapacityAssumption DEF Calls
    <3> QED
      BY <3>1 DEF Init
  <2>2. pc \in [Threads -> Places]
    BY DEF Init, Places
  <2>3. count \in 0..Capacity
    BY CapacityAssumption DEF Init
  <2>5. guard \in BOOLEAN
    BY DEF Init
  <2>4. uris \in [1..Capacity -> Uris \cup {"none"}]
    BY DEF Init
  <2> QED
    BY <2>1, <2>2, <2>3, <2>4, <2>5 DEF TypeInv
<1>2. Exclusive
  BY DEF Init, Exclusive, Guarded
<1>3. Waiting
  <2>1. 0 # Pending
    BY CapacityAssumption DEF Pending
  <2>2. \A t \in Threads : pc[t] = "idle" /\ call[t].answer = 0
    BY DEF Init
  <2> QED
    BY <2>1, <2>2 DEF Waiting
<1>4. Located
  BY CapacityAssumption DEF Init, Located
<1> QED
  BY <1>1, <1>2, <1>3, <1>4 DEF IInv

---------------------------------------------------------------------------
\* The types, action by action.
LEMMA TypeStep == IInv /\ [Next]_vars => TypeInv'
<1> SUFFICES ASSUME IInv, [Next]_vars PROVE TypeInv'
  OBVIOUS
<1> USE DEF TypeInv, IInv
<1>1. ASSUME NEW t \in Threads, NEW u \in Uris, Call(t, u) PROVE TypeInv'
  <2>1. [uri |-> u, known |-> Found(u) # {}, answer |-> Pending] \in Calls
    BY CapacityAssumption DEF Calls, Pending
  <2> QED
    BY <1>1, <2>1 DEF Call, Goto, Places
<1>2. ASSUME NEW t \in Threads, NEW id \in 0..Capacity, Result(t, id)
      PROVE  call' \in [Threads -> Calls]
  <2>1. [call[t] EXCEPT !.answer = id] \in Calls
    <3>1. call[t] \in Calls /\ id \in 0..Capacity + 1
      BY CapacityAssumption
    <3> QED
      BY <3>1 DEF Calls
  <2>2. call' = [call EXCEPT ![t] = [call[t] EXCEPT !.answer = id]]
    BY <1>2 DEF Result
  <2> QED
    BY <2>1, <2>2
<1>4. \A u : Found(u) \subseteq 0..Capacity
  BY CapacityAssumption DEF Found
<1>5. ASSUME NEW t \in Threads, Scan(t) PROVE TypeInv'
  <2>1. CASE \E i \in Found(call[t].uri) : Result(t, i) /\ Goto(t, "idle")
    BY <1>5, <2>1, <1>2, <1>4 DEF Scan, Goto, Places
  <2>2. CASE Found(call[t].uri) = {} /\ Goto(t, "lock") /\ UNCHANGED call
    BY <1>5, <2>2 DEF Scan, Goto, Places
  <2> QED
    BY <1>5, <2>1, <2>2 DEF Scan
<1>6. ASSUME NEW t \in Threads, Lock(t) PROVE TypeInv'
  <2>1. CASE guard /\ Result(t, 0) /\ Goto(t, "idle") /\ UNCHANGED guard
    BY <1>6, <2>1, <1>2, CapacityAssumption DEF Lock, Goto, Places
  <2>2. CASE ~guard /\ guard' = TRUE /\ Goto(t, "rescan") /\ UNCHANGED call
    BY <1>6, <2>2 DEF Lock, Goto, Places
  <2> QED
    BY <1>6, <2>1, <2>2 DEF Lock
<1>7. ASSUME NEW t \in Threads, Rescan(t) PROVE TypeInv'
  BY <1>7 DEF Rescan, Goto, Places
<1>8. ASSUME NEW t \in Threads, Store(t) PROVE TypeInv'
  BY <1>8 DEF Store, Goto, Places, Calls
<1>9. ASSUME NEW t \in Threads, Publish(t) PROVE TypeInv'
  <2>1. count < Capacity
    BY <1>9 DEF Publish, Located
  <2> QED
    BY <1>9, <2>1, CapacityAssumption DEF Publish, Goto, Places
<1>10. ASSUME NEW t \in Threads, Unlock(t) PROVE TypeInv'
  <2>1. call' \in [Threads -> Calls]
    BY <1>10, <1>2, <1>4, CapacityAssumption DEF Unlock
  <2> QED
    BY <1>10, <2>1 DEF Unlock, Goto, Places
<1>11. ASSUME UNCHANGED vars PROVE TypeInv'
  BY <1>11 DEF vars
<1> QED
  BY <1>1, <1>5, <1>6, <1>7, <1>8, <1>9, <1>10, <1>11 DEF Next

---------------------------------------------------------------------------
\* One thread at a time is in the guarded part.
LEMMA ExclusiveStep == IInv /\ [Next]_vars => Exclusive'
<1> SUFFICES ASSUME IInv, [Next]_vars PROVE Exclusive'
  OBVIOUS
<1> USE DEF IInv, TypeInv, Exclusive, Guarded, Goto
<1>1. ASSUME NEW t \in Threads, NEW u \in Uris, Call(t, u) PROVE Exclusive'
  BY <1>1 DEF Call
<1>2. ASSUME NEW t \in Threads, Scan(t) PROVE Exclusive'
  BY <1>2 DEF Scan
<1>3. ASSUME NEW t \in Threads, Lock(t) PROVE Exclusive'
  BY <1>3 DEF Lock
<1>4. ASSUME NEW t \in Threads, Rescan(t) PROVE Exclusive'
  BY <1>4 DEF Rescan
<1>5. ASSUME NEW t \in Threads, Store(t) PROVE Exclusive'
  BY <1>5 DEF Store
<1>6. ASSUME NEW t \in Threads, Publish(t) PROVE Exclusive'
  BY <1>6 DEF Publish
<1>7. ASSUME NEW t \in Threads, Unlock(t) PROVE Exclusive'
  BY <1>7 DEF Unlock
<1>8. ASSUME UNCHANGED vars PROVE Exclusive'
  BY <1>8 DEF vars
<1> QED
  BY <1>1, <1>2, <1>3, <1>4, <1>5, <1>6, <1>7, <1>8 DEF Next

\* An answer is given on the way out of map_uri only.
LEMMA WaitingStep == IInv /\ [Next]_vars => Waiting'
<1> SUFFICES ASSUME IInv, [Next]_vars PROVE Waiting'
  OBVIOUS
<1> USE DEF IInv, TypeInv, Waiting, Goto
<1>0. \A u : \A i \in Found(u) : i # Pending
  BY CapacityAssumption DEF Found, Pending
<1>1. 0 # Pending
  BY CapacityAssumption DEF Pending
<1>2. ASSUME NEW t \in Threads, NEW id, id # Pending, Result(t, id), Goto(t, "idle") PROVE Waiting'
  BY <1>2 DEF Result, Calls
<1>3. ASSUME NEW t \in Threads, NEW u \in Uris, Call(t, u) PROVE Waiting'
  BY <1>3 DEF Call
<1>4. ASSUME NEW t \in Threads, Scan(t) PROVE Waiting'
  BY <1>4, <1>0, <1>2 DEF Scan
<1>5. ASSUME NEW t \in Threads, Lock(t) PROVE Waiting'
  BY <1>5, <1>1, <1>2 DEF Lock
<1>6. ASSUME NEW t \in Threads, Rescan(t) PROVE Waiting'
  BY <1>6 DEF Rescan
<1>7. ASSUME NEW t \in Threads, Store(t) PROVE Waiting'
  BY <1>7 DEF Store
<1>8. ASSUME NEW t \in Threads, Publish(t) PROVE Waiting'
  BY <1>8 DEF Publish
<1>9. ASSUME NEW t \in Threads, Unlock(t) PROVE Waiting'
  BY <1>9, <1>0, <1>1, <1>2 DEF Unlock
<1>10. ASSUME UNCHANGED vars PROVE Waiting'
  BY <1>10 DEF vars
<1> QED
  BY <1>3, <1>4, <1>5, <1>6, <1>7, <1>8, <1>9, <1>10 DEF Next

\* Rows that are published stay as they are.
LEMMA RowsStay ==
  ASSUME IInv, [Next]_vars
  PROVE  count <= count' /\ \A i \in 1..count : uris'[i] = uris[i]
<1> USE DEF IInv, TypeInv
<1>1. ASSUME NEW t \in Threads, Store(t)
      PROVE  count <= count' /\ \A i \in 1..count : uris'[i] = uris[i]
  BY <1>1, CapacityAssumption DEF Store
<1>2. ASSUME NEW t \in Threads, Publish(t)
      PROVE  count <= count' /\ \A i \in 1..count : uris'[i] = uris[i]
  BY <1>2, CapacityAssumption DEF Publish
<1>3. ASSUME UNCHANGED <<uris, count>>
      PROVE  count <= count' /\ \A i \in 1..count : uris'[i] = uris[i]
  BY <1>3, CapacityAssumption
<1> QED
  BY <1>1, <1>2, <1>3 DEF Next, vars, Call, Scan, Lock, Rescan, Unlock

\* So a URI that has a row keeps it, while the call lasts.
LEMMA RowStays ==
  ASSUME IInv, [Next]_vars, NEW t \in Threads, Row(t), call'[t].uri = call[t].uri
  PROVE  Row(t)'
<1>1. PICK i \in 1..count : uris[i] = call[t].uri
  BY DEF Row
<1>2. count \in Nat /\ count' \in Nat /\ count <= count'
  BY TypeStep, RowsStay, CapacityAssumption DEF IInv, TypeInv
<1>3. i \in 1..count' /\ uris'[i] = call'[t].uri
  BY <1>1, <1>2, RowsStay
<1> QED
  BY <1>3 DEF Row

\* What the threads have found out stays true.
LEMMA LocatedStep == IInv /\ [Next]_vars => Located'
<1> SUFFICES ASSUME IInv, [Next]_vars PROVE Located'
  OBVIOUS
<1> USE DEF IInv, TypeInv, Goto
<1> DEFINE Located1(t) ==
      /\ pc[t] # "idle" => call[t].uri \in Uris
      /\ call[t].known => Row(t)
      /\ pc[t] = "lock" => ~call[t].known
      /\ pc[t] = "found" => Row(t)
      /\ pc[t] \in {"store", "publish", "refuse"} => ~Row(t)
      /\ pc[t] \in {"store", "publish"} => count < Capacity
      /\ pc[t] = "publish" => uris[count + 1] = call[t].uri
<1>0. \A t \in Threads : Located1(t)
  BY DEF Located
\* A step of another thread that leaves the table alone.
<1>1. ASSUME NEW t \in Threads, pc'[t] = pc[t], call'[t] = call[t], UNCHANGED <<uris, count>>
      PROVE  Located1(t)'
  <2>1. Row(t)' <=> Row(t)
    BY <1>1 DEF Row
  <2> QED
    BY <1>1, <2>1, <1>0
\* A step of another thread that has the flag.
<1>2. ASSUME NEW t \in Threads, pc'[t] = pc[t], call'[t] = call[t], pc[t] \notin Guarded
      PROVE  Located1(t)'
  <2>1. Row(t) => Row(t)'
    BY <1>2, RowStays
  <2> QED
    BY <1>2, <2>1, <1>0 DEF Guarded
<1>3. ASSUME NEW a \in Threads, NEW u \in Uris, Call(a, u) PROVE Located'
  <2>1. Located1(a)'
    BY <1>3 DEF Call, Found, Row, Calls
  <2>2. ASSUME NEW t \in Threads, t # a PROVE Located1(t)'
    BY <1>3, <2>2, <1>1 DEF Call
  <2> QED
    BY <2>1, <2>2 DEF Located
<1>4. ASSUME NEW a \in Threads, Scan(a) PROVE Located'
  <2>1. Located1(a)'
    BY <1>4, <1>0 DEF Scan, Result, Found, Row, Calls
  <2>2. ASSUME NEW t \in Threads, t # a PROVE Located1(t)'
    BY <1>4, <2>2, <1>1 DEF Scan, Result
  <2> QED
    BY <2>1, <2>2 DEF Located
<1>5. ASSUME NEW a \in Threads, Lock(a) PROVE Located'
  <2>1. Located1(a)'
    BY <1>5, <1>0 DEF Lock, Result, Row, Calls
  <2>2. ASSUME NEW t \in Threads, t # a PROVE Located1(t)'
    BY <1>5, <2>2, <1>1 DEF Lock, Result
  <2> QED
    BY <2>1, <2>2 DEF Located
<1>6. ASSUME NEW a \in Threads, Rescan(a) PROVE Located'
  <2>1. Located1(a)'
    BY <1>6, <1>0 DEF Rescan, Found, Row
  <2>2. ASSUME NEW t \in Threads, t # a PROVE Located1(t)'
    BY <1>6, <2>2, <1>1 DEF Rescan
  <2> QED
    BY <2>1, <2>2 DEF Located
<1>7. ASSUME NEW a \in Threads, Store(a) PROVE Located'
  <2>1. Located1(a)'
    <3>1. ~Row(a) /\ count < Capacity /\ call[a].uri \in Uris /\ (call[a].known => Row(a))
      BY <1>7, <1>0 DEF Store
    <3>2. uris'[count + 1] = call[a].uri /\ count' = count /\ call' = call /\ pc'[a] = "publish"
      BY <1>7, <3>1, CapacityAssumption DEF Store
    <3>3. Row(a)' <=> Row(a)
      BY <1>7, CapacityAssumption DEF Store, Row
    <3> QED
      BY <3>1, <3>2, <3>3
  <2>2. ASSUME NEW t \in Threads, t # a PROVE Located1(t)'
    BY <1>7, <2>2, <1>2 DEF Store, Exclusive, Guarded
  <2> QED
    BY <2>1, <2>2 DEF Located
<1>8. ASSUME NEW a \in Threads, Publish(a) PROVE Located'
  <2>1. Located1(a)'
    <3>1. count < Capacity /\ call[a].uri \in Uris /\ uris[count + 1] = call[a].uri
      BY <1>8, <1>0 DEF Publish
    <3>2. Row(a)'
      BY <1>8, <3>1, CapacityAssumption DEF Publish, Row
    <3> QED
      BY <1>8, <3>1, <3>2 DEF Publish
  <2>2. ASSUME NEW t \in Threads, t # a PROVE Located1(t)'
    BY <1>8, <2>2, <1>2 DEF Publish, Exclusive, Guarded
  <2> QED
    BY <2>1, <2>2 DEF Located
<1>9. ASSUME NEW a \in Threads, Unlock(a) PROVE Located'
  <2>1. Located1(a)'
    BY <1>9, <1>0 DEF Unlock, Result, Row, Calls
  <2>2. ASSUME NEW t \in Threads, t # a PROVE Located1(t)'
    BY <1>9, <2>2, <1>1 DEF Unlock, Result
  <2> QED
    BY <2>1, <2>2 DEF Located
<1>10. ASSUME UNCHANGED vars PROVE Located'
  BY <1>10, <1>1 DEF vars, Located
<1> QED
  BY <1>3, <1>4, <1>5, <1>6, <1>7, <1>8, <1>9, <1>10 DEF Next

\* The invariant of the map.
THEOREM Invariance == Spec => []IInv
<1>1. IInv /\ [Next]_vars => IInv'
  BY TypeStep, ExclusiveStep, WaitingStep, LocatedStep DEF IInv
<1> QED
  BY <1>1, InitInv, PTL DEF Spec

---------------------------------------------------------------------------
\* The published rows are a sequence, and a URI is one of them as it has a row.
LEMMA PublishedSeq ==
  ASSUME TypeInv
  PROVE  /\ Published \in Seq(Uris \cup {"none"})
         /\ Len(Published) = count
         /\ DOMAIN Published = 1..count
         /\ \A i \in 1..count : Published[i] = uris[i]
<1>1. count \in Nat /\ \A i \in 1..count : uris[i] \in Uris \cup {"none"}
  BY CapacityAssumption DEF TypeInv
<1> QED
  BY <1>1 DEF Published

LEMMA RowsAreFound ==
  ASSUME TypeInv, NEW u
  PROVE  u \in Abstract!Rows <=> Found(u) # {}
  BY PublishedSeq DEF Abstract!Rows, Found

\* The empty map is the empty table.
LEMMA InitRefines == Init => Abstract!Init
<1> SUFFICES ASSUME Init PROVE Abstract!Init
  OBVIOUS
<1>1. Published = <<>>
  BY DEF Init, Published
<1> QED
  BY <1>1 DEF Init, Abstract!Init, Abstract!Idle

\* Each step of a thread is the table's step for it, or leaves the table and
\* the lookups as they are.
LEMMA StepRefines ==
  IInv /\ IInv' /\ [Next]_vars => [Abstract!Next]_<<Published, call>>
<1> SUFFICES ASSUME IInv, IInv', [Next]_vars
             PROVE  Abstract!Next \/ UNCHANGED <<Published, call>>
  OBVIOUS
<1> USE DEF IInv
<1>1. ASSUME NEW t \in Threads, NEW u \in Uris, Call(t, u) PROVE Abstract!Begin(t, u)
  <2>1. call[t].answer # Abstract!Pending /\ Pending = Abstract!Pending
    BY <1>1 DEF Call, Waiting, Pending, Abstract!Pending
  <2>2. Published' = Published
    BY <1>1 DEF Call, Published
  <2>3. u \in Abstract!Rows <=> Found(u) # {}
    BY RowsAreFound
  <2>4. (u \in Abstract!Rows) = (Found(u) # {})
    BY <2>3 DEF Abstract!Rows
  <2> QED
    BY <1>1, <2>1, <2>2, <2>4 DEF Call, Abstract!Begin
<1>2. ASSUME NEW t \in Threads, pc[t] # "idle", UNCHANGED <<uris, count>>,
             \/ \E i \in Found(call[t].uri) : Result(t, i)
             \/ ~call[t].known /\ Result(t, 0)
      PROVE  Abstract!Answer(t)
  <2>1. call[t].answer = Abstract!Pending
    BY <1>2 DEF Waiting, Pending, Abstract!Pending
  <2>2. Published' = Published
    BY <1>2 DEF Published
  <2>3. ASSUME NEW i \in Found(call[t].uri)
        PROVE  i \in DOMAIN Published /\ Published[i] = call[t].uri
    BY <2>3, PublishedSeq DEF Found
  <2> QED
    BY <1>2, <2>1, <2>2, <2>3 DEF Result, Abstract!Answer
<1>3. ASSUME NEW t \in Threads, Scan(t) PROVE Abstract!Next \/ UNCHANGED <<Published, call>>
  <2>1. CASE \E i \in Found(call[t].uri) : Result(t, i) /\ Goto(t, "idle")
    BY <1>3, <2>1, <1>2 DEF Scan, Abstract!Next
  <2>2. CASE UNCHANGED call
    BY <1>3, <2>2 DEF Scan, Published
  <2> QED
    BY <1>3, <2>1, <2>2 DEF Scan
<1>4. ASSUME NEW t \in Threads, Lock(t) PROVE Abstract!Next \/ UNCHANGED <<Published, call>>
  <2>1. CASE Result(t, 0)
    <3>1. ~call[t].known
      BY <1>4 DEF Lock, Located
    <3> QED
      BY <1>4, <2>1, <3>1, <1>2 DEF Lock, Abstract!Next
  <2>2. CASE UNCHANGED call
    BY <1>4, <2>2 DEF Lock, Published
  <2> QED
    BY <1>4, <2>1, <2>2 DEF Lock
<1>5. ASSUME NEW t \in Threads, Rescan(t) PROVE UNCHANGED <<Published, call>>
  BY <1>5 DEF Rescan, Published
\* The row being written is not published.
<1>6. ASSUME NEW t \in Threads, Store(t) PROVE UNCHANGED <<Published, call>>
  <2>1. count' = count /\ \A i \in 1..count : uris'[i] = uris[i]
    BY <1>6, RowsStay DEF Store
  <2> QED
    BY <1>6, <2>1 DEF Store, Published
<1>7. ASSUME NEW t \in Threads, Publish(t) PROVE Abstract!Register(t)
  <2>1. /\ call[t].answer = Abstract!Pending
        /\ count < Capacity /\ uris[count + 1] = call[t].uri /\ ~Row(t)
    BY <1>7 DEF Publish, Waiting, Located, Pending, Abstract!Pending
  <2>2. call[t].uri \notin Abstract!Rows
    BY <2>1, RowsAreFound, FoundIsRow
  <2>3. count \in Nat /\ count' = count + 1 /\ uris' = uris /\ call' = call
    BY <1>7, CapacityAssumption DEF Publish, TypeInv
  <2>4. Published' = Append(Published, call[t].uri)
    <3>1. Append(Published, call[t].uri)
            = [i \in 1..count + 1 |-> IF i = count + 1 THEN call[t].uri ELSE Published[i]]
      BY PublishedSeq, <2>3
    <3>2. Published' = [i \in 1..count + 1 |-> uris[i]]
      BY <2>3 DEF Published
    <3>3. \A i \in 1..count + 1 :
            uris[i] = IF i = count + 1 THEN call[t].uri ELSE Published[i]
      BY <2>1, <2>3, PublishedSeq
    <3> QED
      BY <3>1, <3>2, <3>3
  <2> QED
    BY <2>1, <2>2, <2>3, <2>4, PublishedSeq DEF Abstract!Register
<1>8. ASSUME NEW t \in Threads, Unlock(t) PROVE Abstract!Next
  <2>1. pc[t] = "refuse" => ~call[t].known
    BY DEF Located
  <2>2. Abstract!Answer(t)
    BY <1>8, <2>1, <1>2 DEF Unlock
  <2> QED
    BY <2>2 DEF Abstract!Next
<1>9. ASSUME UNCHANGED vars PROVE UNCHANGED <<Published, call>>
  BY <1>9 DEF vars, Published
<1> QED
  BY <1>1, <1>3, <1>4, <1>5, <1>6, <1>7, <1>8, <1>9 DEF Next, Abstract!Next

\* Whatever threads call map_uri, for any URIs and any length of the table,
\* the map is the table of UriTable: ids are unique, never change, and are
\* answered once their URI can be read back.
THEOREM Implements == Spec => ImplementsTable
<1>1. Init => Abstract!Init
  BY InitRefines
<1>2. IInv /\ IInv' /\ [Next]_vars => [Abstract!Next]_<<Published, call>>
  BY StepRefines
<1> QED
  BY <1>1, <1>2, Invariance, PTL DEF Spec, ImplementsTable, Abstract!Spec

---------------------------------------------------------------------------
(* The Airwindows module.                                                  *)

\* The table is there exactly while somebody has loaded it, and an instance
\* keeps it there.
TableInv ==
  /\ refs \in Nat /\ builds \in Nat /\ table \in Nat
  /\ DescriptorLives

MirrorInv == fx = [params |-> fx.params, rate |-> fx.rate] /\ EffectMirrorsValues

\* One part of the program takes a step at a time.
LEMMA EffectSteps ==
  ASSUME [PartNext]_<<part, vars, eventVars, templateVars, effectVars>>
  PROVE  Effect!Next \/ UNCHANGED effectVars
  BY DEF PartNext

LEMMA TableStep ==
  ASSUME TableInv, Effect!Next \/ UNCHANGED effectVars
  PROVE  TableInv'
<1> USE DEF DescriptorLives
<1>1. CASE Effect!EntryInit
  BY <1>1 DEF Effect!EntryInit, Effect!BuildEntries, TableInv, Effect!DescriptorLives
<1>2. CASE Effect!EntryDeinit
  BY <1>2 DEF Effect!EntryDeinit, TableInv, Effect!DescriptorLives
<1>3. CASE Effect!Create
  BY <1>3 DEF Effect!Create, Effect!entry, TableInv, Effect!DescriptorLives
<1>4. CASE Effect!Destroy
  BY <1>4 DEF Effect!Destroy, Effect!entry, TableInv, Effect!DescriptorLives
<1>5. CASE UNCHANGED <<refs, builds, table, desc>>
  BY <1>5 DEF TableInv, Effect!DescriptorLives
<1> QED
  BY <1>1, <1>2, <1>3, <1>4, <1>5
  DEF Effect!Next, Effect!Reset, Effect!Flush, Effect!Process, Effect!OtherActivates,
      Effect!Activate, Effect!StateLoad, Effect!entry, effectVars

\* Values and effect take the same changes.
LEMMA TakeInv ==
  ASSUME MirrorInv, NEW es, Effect!Take(es), UNCHANGED <<desc, active>>
  PROVE  MirrorInv'
<1>1. /\ held' = Effect!Applied(held, es)
      /\ fx' = [params |-> Effect!Applied(fx.params, es), rate |-> fx.rate]
  BY DEF Effect!Take, MirrorInv
<1> QED
  BY <1>1 DEF MirrorInv, EffectMirrorsValues, Effect!EffectMirrorsValues

LEMMA MirrorStep ==
  ASSUME MirrorInv, Effect!Next \/ UNCHANGED effectVars
  PROVE  MirrorInv'
<1> USE DEF EffectMirrorsValues
<1>1. CASE Effect!Create
  BY <1>1 DEF Effect!Create, Effect!Built, MirrorInv, Effect!EffectMirrorsValues
<1>2. CASE Effect!Destroy
  BY <1>2 DEF Effect!Destroy, Effect!Built, MirrorInv, Effect!EffectMirrorsValues
<1>3. CASE \E r \in Rates, n \in 1..Frames : Effect!Activate(r, n)
  BY <1>3 DEF Effect!Activate, Effect!entry, MirrorInv, Effect!EffectMirrorsValues
<1>4. CASE Effect!Reset
  BY <1>4 DEF Effect!Reset, Effect!entry, MirrorInv, Effect!EffectMirrorsValues
<1>5. CASE \E es : Effect!Take(es) /\ UNCHANGED <<desc, active>>
  BY <1>5, TakeInv
<1>6. CASE UNCHANGED <<held, fx, desc, active>>
  BY <1>6 DEF MirrorInv, Effect!EffectMirrorsValues
<1> QED
  BY <1>1, <1>2, <1>3, <1>4, <1>5, <1>6
  DEF Effect!Next, Effect!Flush, Effect!Process, Effect!OtherActivates, Effect!StateLoad,
      Effect!EntryInit, Effect!EntryDeinit, effectVars

\* No loader that comes or goes frees or rebuilds the table under a descriptor
\* (entry_init, entry_deinit).
THEOREM DescriptorsLive == PartSpec => []DescriptorLives
<1>1. PartInit => TableInv
  BY DEF PartInit, Effect!Init, TableInv, DescriptorLives, Effect!DescriptorLives
<1>2. TableInv /\ [PartNext]_<<part, vars, eventVars, templateVars, effectVars>> => TableInv'
  BY EffectSteps, TableStep
<1>3. TableInv => DescriptorLives
  BY DEF TableInv
<1> QED
  BY <1>1, <1>2, <1>3, PTL DEF PartSpec

\* Through changes, loads, activations, resets and effects that cannot be built
\* (set_param, plug_activate, plug_reset, state_load).
THEOREM EffectMirrors == PartSpec => []EffectMirrorsValues
<1>1. PartInit => MirrorInv
  BY DEF PartInit, Effect!Init, Effect!Built, MirrorInv, EffectMirrorsValues,
         Effect!EffectMirrorsValues
<1>2. MirrorInv /\ [PartNext]_<<part, vars, eventVars, templateVars, effectVars>> => MirrorInv'
  BY EffectSteps, MirrorStep
<1>3. MirrorInv => EffectMirrorsValues
  BY DEF MirrorInv
<1> QED
  BY <1>1, <1>2, <1>3, PTL DEF PartSpec

---------------------------------------------------------------------------
(* The exported plugins.                                                   *)

\* The first and the last of a set of places.
LEMMA Least ==
  ASSUME NEW I, I \subseteq Nat, I # {}
  PROVE  Template!Min(I) \in I /\ \A j \in I : Template!Min(I) <= j
<1> DEFINE Less == {ss \in Nat \X Nat : ss[1] < ss[2]}
<1>1. IsWellFoundedOn(Less, Nat)
  BY NatLessThanWellFounded DEF OpToRel
<1>2. PICK x \in I : \A y \in I : <<y, x>> \notin Less
  <2> HIDE DEF Less
  <2> QED
    BY <1>1, WFMin
<1>3. \A y \in I : x <= y
  <2>1. \A y \in I : ~(y < x)
    BY <1>2
  <2> QED
    BY <2>1
<1> QED
  BY <1>3 DEF Template!Min

LEMMA Greatest ==
  ASSUME NEW n \in Nat, NEW I \in SUBSET (0..n), I # {}
  PROVE  Template!Max(I) \in I /\ \A j \in I : j <= Template!Max(I)
<1> DEFINE J == {k \in 0..n : n - k \in I}
           m == Template!Min(J)
<1>1. J \subseteq Nat /\ J # {}
  <2>1. PICK i \in I : TRUE
    OBVIOUS
  <2>2. n - i \in 0..n /\ n - (n - i) = i
    OBVIOUS
  <2> QED
    BY <2>2
<1>2. m \in J /\ \A j \in J : m <= j
  <2> HIDE DEF J
  <2> QED
    BY <1>1, Least
<1>3. n - m \in I /\ m \in 0..n
  BY <1>2
<1>4. ASSUME NEW j \in I PROVE j <= n - m
  <2>1. n - j \in J
    <3>1. n - j \in 0..n /\ n - (n - j) = j
      OBVIOUS
    <3> QED
      BY <3>1
  <2>2. m <= n - j /\ m \in 0..n
    BY <1>2, <2>1
  <2> QED
    BY <2>2
<1> HIDE DEF m, J
<1>5. \E x \in I : \A j \in I : x >= j
  <2>1. \A j \in I : n - m >= j
    <3> SUFFICES ASSUME NEW j \in I PROVE n - m >= j
      OBVIOUS
    <3>1. j <= n - m /\ j \in Int /\ n - m \in Int
      BY <1>3, <1>4
    <3> QED
      BY <3>1
  <2> QED
    BY <1>3, <2>1
<1>6. Template!Max(I) \in I /\ \A j \in I : Template!Max(I) >= j
  BY <1>5 DEF Template!Max
<1> QED
  BY <1>6

\* A value that parameter p holds when it is declared with whole numbers.
Fits(p, v) == v \in Low[p]..High[p] /\ (p \in Stepped => v % 2 = 0)

LEMMA Declared ==
  ASSUME NEW p \in Params
  PROVE  Low[p] \in Int /\ High[p] \in Int /\ Low[p] < High[p] /\ Preset[p] \in Low[p]..High[p]
  BY TemplateAssumption DEF Template!Assumptions

LEMMA DivOfMultiple ==
  ASSUME NEW d \in Nat \ {0}, NEW q \in Nat, NEW r \in 0..d - 1
  PROVE  (q * d + r) \div d = q
<1> DEFINE qd == q * d
           x == qd + r
           z == x \div d
           m == x % d
           zd == z * d
<1>1. qd \in Nat /\ x \in Nat
  OBVIOUS
<1>2. m \in 0..d - 1 /\ z \in Int
  <2> HIDE DEF qd
  <2> QED
    BY <1>1
<1>3. zd \in Int /\ x = zd + m
  <2>1. x = d * (x \div d) + (x % d)
    <3> HIDE DEF qd
    <3> QED
      BY <1>1
  <2>2. d * z = zd /\ zd \in Int
    <3> HIDE DEF x
    <3> QED
      BY <1>2 
  <2> QED
    BY <2>1, <2>2
<1>4. (q > z => qd >= zd + d) /\ (q < z => zd >= qd + d)
  <2> HIDE DEF z
  <2>1. q > z => q - z >= 1 /\ (q - z) * d >= d /\ (q - z) * d = qd - zd
    BY <1>2
  <2>2. q < z => z - q >= 1 /\ (z - q) * d >= d /\ (z - q) * d = zd - qd
    BY <1>2
  <2> QED
    BY <1>1, <1>3, <2>1, <2>2
<1>5. x = qd + r
  OBVIOUS
<1> HIDE DEF qd, x, m, zd
<1>6. ~(q > z) /\ ~(q < z)
  <2> HIDE DEF z
  <2> QED
    BY <1>1, <1>2, <1>3, <1>4, <1>5
<1>7. z = q
  <2> HIDE DEF z
  <2> QED
    BY <1>2, <1>6
<1> QED
  BY <1>7 DEF x, qd

\* Rounding keeps a value within whole ends.
LEMMA TookFits ==
  ASSUME NEW p \in Params, Template!Whole(p), NEW v \in Int
  PROVE  Fits(p, Template!Took(p, v))
<1> DEFINE l == Low[p]
           h == High[p]
           c == Template!Clip(v, l, h)
<1>1. l \in Int /\ h \in Int /\ l < h
  BY Declared
<1>2. c \in l..h
  BY <1>1 DEF Template!Clip
<1>3. CASE p \notin Stepped
  BY <1>2, <1>3 DEF Fits, Template!Took
<1>4. CASE p \in Stepped
  <2>1. l % 2 = 0 /\ h % 2 = 0
    BY <1>4 DEF Template!Whole
  <2> HIDE DEF l, h, c
  <2>2. Template!Rounded(c) \in l..h /\ Template!Rounded(c) % 2 = 0
    <3>1. CASE c >= 0
      BY <1>1, <1>2, <2>1, <3>1 DEF Template!Rounded
    <3>2. CASE ~(c >= 0)
      BY <1>1, <1>2, <2>1, <3>2 DEF Template!Rounded
    <3> QED
      BY <3>1, <3>2
  <2>3. Template!Took(p, v) = Template!Rounded(c)
    BY <1>4 DEF Template!Took, c, l, h
  <2> QED
    BY <2>2, <2>3 DEF Fits, l, h
<1> QED
  BY <1>3, <1>4

\* What RangeParameter reads back is what it was told.
LEMMA ReadBack ==
  ASSUME NEW p \in Params, Template!Whole(p), NEW v, Fits(p, v)
  PROVE  Template!ToPlain(p, Template!ToNorm(p, v)) = v
<1> DEFINE l == Low[p]
           h == High[p]
           N == Template!Steps(p)
           s == Template!Scale(p)
           n == Template!ToNorm(p, v)
<1>1. l \in Int /\ h \in Int /\ l < h
  BY Declared
<1>2. v \in l..h
  BY DEF Fits
<1>3. CASE ~(N > 1)
  <2>1. s = h - l
    BY <1>3 DEF Template!Scale
  <2>2. n = Template!Clip(v - l, 0, s)
    BY DEF Template!ToNorm
  <2>3. Template!ToPlain(p, n) = l + n
    BY <1>3 DEF Template!ToPlain
  <2> HIDE DEF l, h, s, n
  <2>4. n = v - l
    BY <1>1, <1>2, <2>1, <2>2 DEF Template!Clip
  <2>5. l + n = v
    BY <1>1, <1>2, <2>4
  <2> QED
    BY <2>3, <2>5 DEF n
<1>4. CASE N > 1
  <2>1. p \in Stepped
    BY <1>4 DEF Template!Steps
  <2>2. l % 2 = 0 /\ h % 2 = 0 /\ v % 2 = 0
    BY <2>1 DEF Template!Whole, Fits
  <2>3. N = (h - l) \div 2
    <3>1. N = IF (h - l) % 2 = 1 /\ ((h - l) \div 2) % 2 = 1 THEN ((h - l) \div 2) + 1 ELSE (h - l) \div 2
      BY <2>1 DEF Template!Steps
    <3> HIDE DEF l, h, N
    <3>2. (h - l) % 2 = 0
      BY <1>1, <2>2
    <3> QED
      BY <3>1, <3>2
  <2>4. s = 2 * N
    BY <1>4 DEF Template!Scale
  <2>5. n = Template!Clip(v - l, 0, s)
    BY DEF Template!ToNorm
  <2>6. Template!ToPlain(p, n) = l + 2 * Template!Clip((n * (N + 1)) \div s, 0, N)
    BY <1>4 DEF Template!ToPlain
  <2> HIDE DEF l, h, s, n, N
  <2>7. N \in Nat \ {0, 1} /\ h - l = 2 * N
    BY <1>1, <1>4, <2>2, <2>3
  <2>8. PICK k \in 0..N : v - l = 2 * k
    <3>1. (v - l) \div 2 \in 0..N /\ v - l = 2 * ((v - l) \div 2)
      BY <1>1, <1>2, <2>2, <2>7
    <3> QED
      BY <3>1
  <2>9. n = 2 * k
    BY <2>4, <2>5, <2>7, <2>8 DEF Template!Clip
  <2> DEFINE x == n * (N + 1)
  <2>10. x = k * s + 2 * k
    <3>1. (2 * k) * (N + 1) = k * (2 * N) + 2 * k
      BY <2>7, <2>8
    <3> QED
      BY <2>4, <2>9, <3>1
  <2>11. Template!Clip(x \div s, 0, N) = k
    <3>1. CASE k < N
      <4>1. s \in Nat \ {0} /\ k \in Nat /\ 2 * k \in 0..s - 1
        BY <2>4, <2>7, <3>1
      <4>2. x \div s = k
        BY <2>10, <4>1, DivOfMultiple
      <4> HIDE DEF x
      <4> QED
        BY <2>7, <2>8, <4>2 DEF Template!Clip
    <3>2. CASE k = N
      <4>1. s \in Nat \ {0} /\ k + 1 \in Nat /\ 0 \in 0..s - 1
        BY <2>4, <2>7, <3>2
      <4>2. x = (k + 1) * s + 0
        <5>1. k * s + 2 * k = k * s + s /\ (k + 1) * s + 0 = k * s + s
          BY <2>4, <2>7, <3>2
        <5> QED
          BY <2>10, <5>1
      <4>3. x \div s = k + 1
        BY <4>1, <4>2, DivOfMultiple
      <4> HIDE DEF x
      <4> QED
        BY <2>7, <2>8, <3>2, <4>3 DEF Template!Clip
    <3> QED
      BY <2>7, <2>8, <3>1, <3>2
  <2>12. l + 2 * k = v
    BY <1>1, <1>2, <2>8
  <2> QED
    BY <2>6, <2>11, <2>12 DEF n
<1> QED
  BY <1>3, <1>4

\* The wire carries a number of halves.
LEMMA ArrivingIsInt ==
  ASSUME NEW p \in Params, Template!Whole(p), NEW v \in Int
  PROVE  Template!Arriving(p, v) \in Int
<1> DEFINE l == Low[p]
           h == High[p]
           N == Template!Steps(p)
           s == Template!Scale(p)
           n == Template!ToNorm(p, v)
<1>1. l \in Int /\ h \in Int /\ l < h
  BY Declared
<1>2. N \in Int
  BY <1>1 DEF Template!Steps
<1>3. s \in Int /\ (N > 1 => s > 0)
  <2>1. s = IF N > 1 THEN 2 * N ELSE h - l
    BY DEF Template!Scale
  <2> HIDE DEF N, s, l, h
  <2> QED
    BY <1>1, <1>2, <2>1
<1>4. n \in Int
  <2>1. n = Template!Clip(v - l, 0, s)
    BY DEF Template!ToNorm
  <2> HIDE DEF n, s, l
  <2> QED
    BY <1>1, <1>3, <2>1 DEF Template!Clip
<1>5. Template!ToPlain(p, n) \in Int
  <2>1. Template!ToPlain(p, n) =
          l + IF N > 1 THEN 2 * Template!Clip((n * (N + 1)) \div s, 0, N) ELSE n
    BY DEF Template!ToPlain
  <2> DEFINE x == n * (N + 1)
             c == Template!Clip(x \div s, 0, N)
  <2> HIDE DEF n, N, s, l
  <2>2. x \in Int
    BY <1>2, <1>4
  <2>3. N > 1 => x \div s \in Int
    <3> HIDE DEF x
    <3> QED
      BY <1>3, <2>2
  <2>4. N > 1 => c \in Int
    <3> HIDE DEF x
    <3> QED
      BY <1>2, <2>3 DEF Template!Clip
  <2> HIDE DEF c
  <2>5. (l + IF N > 1 THEN 2 * c ELSE n) \in Int
    BY <1>1, <1>4, <2>4
  <2> QED
    BY <2>1, <2>5 DEF c
<1> QED
  BY <1>5 DEF Template!Arriving

\* The last of some changes leaves a parameter with a value it may hold.
LEMMA LatestFits ==
  ASSUME NEW p \in Params, Template!Whole(p), NEW old, Fits(p, old),
         NEW n \in Nat, NEW es, NEW I \in SUBSET (1..n), \A i \in I : es[i].value \in Int
  PROVE  Fits(p, Template!Latest(es, I, p, old))
<1> DEFINE own == {i \in I : es[i].id = p}
<1>1. CASE own = {}
  BY <1>1 DEF Template!Latest
<1>2. CASE own # {}
  <2> DEFINE last == Template!Max(own)
             v == es[last].value
  <2>1. own \in SUBSET (0..n)
    <3>1. 1..n \subseteq 0..n /\ I \subseteq 1..n
      OBVIOUS
    <3> QED
      BY <3>1
  <2>2. last \in own
    <3> HIDE DEF own
    <3> QED
      BY <1>2, <2>1, Greatest
  <2>3. v \in Int
    BY <2>2
  <2>4. Template!Latest(es, I, p, old) = Template!Took(p, Template!Arriving(p, v))
    BY <1>2 DEF Template!Latest
  <2> HIDE DEF v
  <2> QED
    BY <2>3, <2>4, ArrivingIsInt, TookFits
<1> QED
  BY <1>1, <1>2

\* The queue that brings the changes of parameter p.
Key(p) == IF format = "vst3" THEN p ELSE "all"

\* The changes for p that are at place l or later and due at frame f.
Coming(p, l, f) ==
  {i \in DOMAIN block.events : block.events[i].id = p /\ l <= i /\ block.events[i].time <= f}

\* What p has to be at frame f, from what it is and the changes to come.
Rest(p, f) == Template!Latest(block.events, Coming(p, cursor[Key(p)], f), p, values[p])

BlockShape ==
  /\ block.n \in Nat /\ Len(block.events) \in Nat
  /\ DOMAIN block.events = 1..Len(block.events)
  /\ \A i \in DOMAIN block.events : block.events[i].time \in Int /\ block.events[i].value \in Int
  /\ \A i, j \in DOMAIN block.events : i < j => block.events[i].time <= block.events[j].time
  /\ \A k \in Template!Keys : cursor[k] \in 1..Len(block.events) + 1

\* The frames computed are those promised, and the others follow from the
\* parameters as they are and the changes that have not been applied.
Heard ==
  /\ frame \in 0..block.n /\ since = mem + block.n - frame
  /\ heard = [i \in 1..block.n |-> heard[i]] /\ out = [i \in 1..frame |-> heard[i]]
  /\ \A i \in frame + 1..block.n :
       heard[i] = [params |-> [p \in Params |-> Rest(p, i - 1)], seen |-> mem + i - 1 - frame]

\* The controller shows the value of p.
Shown(p) == format = "vst3" /\ Template!Whole(p) => Template!ToPlain(p, view[p]) = values[p]

\* In a block, it shows those of the parameters without a queue.
Viewed == \A p \in Params : Template!Queue(p) = {} => Shown(p)

TemplateInv ==
  /\ values = [p \in Params |-> values[p]] /\ view = [p \in Params |-> view[p]]
  /\ \A p \in Params : Template!Whole(p) => Fits(p, values[p])
  /\ mem \in Nat /\ block.n \in Nat
  /\ frame = Template!Idle =>
       (\A p \in Params : Shown(p)) /\ out = <<>> /\ heard = <<>> /\ mem = since
  /\ frame # Template!Idle => BlockShape /\ Heard /\ Viewed

LEMMA Names == "all" \notin Params
  BY TemplateAssumption DEF Template!Assumptions

\* The cursor stops before the first change that is later than f.
LEMMA UptoIs ==
  ASSUME BlockShape, NEW k \in Template!Keys, NEW f \in Int
  PROVE  /\ Template!Upto(k, f) \in cursor[k]..Len(block.events) + 1
         /\ \A i \in Template!Queue(k) :
              cursor[k] <= i => (i < Template!Upto(k, f) <=> block.events[i].time <= f)
<1> DEFINE n == Len(block.events)
           c == cursor[k]
           late == {i \in Template!Queue(k) : c <= i /\ block.events[i].time > f}
           u == Template!Min(late \cup {n + 1})
<1>1. /\ n \in Nat /\ DOMAIN block.events = 1..n /\ c \in 1..n + 1
      /\ \A i \in 1..n : block.events[i].time \in Int
      /\ \A i, j \in 1..n : i < j => block.events[i].time <= block.events[j].time
  BY DEF BlockShape
<1>2. Template!Queue(k) \subseteq 1..n
  BY <1>1 DEF Template!Queue
<1>3. late \subseteq c..n
  BY <1>1, <1>2
<1>4. u \in late \cup {n + 1} /\ \A j \in late \cup {n + 1} : u <= j
  <2>1. late \cup {n + 1} \subseteq Nat
    BY <1>1, <1>3
  <2> HIDE DEF late
  <2> QED
    BY <2>1, Least
<1>5. Template!Upto(k, f) = u
  BY DEF Template!Upto
<1>6. u \in c..n + 1
  <2> HIDE DEF n, c, late, u
  <2> QED
    BY <1>1, <1>3, <1>4
<1>7. ASSUME NEW i \in Template!Queue(k), c <= i PROVE i < u <=> block.events[i].time <= f
  <2>1. i \in 1..n /\ block.events[i].time \in Int
    BY <1>1, <1>2
  <2>2. ASSUME i < u PROVE block.events[i].time <= f
    <3>1. i \notin late
      BY <1>4, <1>6, <2>1, <2>2
    <3> QED
      BY <1>7, <2>1, <3>1
  <2>3. ASSUME ~(i < u) PROVE ~(block.events[i].time <= f)
    <3>1. u \in late /\ u \in 1..n /\ u <= i
      BY <1>1, <1>2, <1>4, <1>6, <2>1, <2>3
    <3>2. block.events[u].time > f /\ block.events[u].time \in Int
      BY <1>1, <3>1
    <3>3. block.events[u].time <= block.events[i].time
      <4> HIDE DEF n, u
      <4>1. CASE u = i
        BY <3>2, <4>1
      <4>2. CASE u # i
        <5>1. u < i
          BY <2>1, <3>1, <4>2
        <5> QED
          BY <1>1, <2>1, <3>1, <5>1
      <4> QED
        BY <4>1, <4>2
    <3> QED
      BY <2>1, <3>2, <3>3
  <2> QED
    BY <2>2, <2>3
<1> QED
  BY <1>5, <1>6, <1>7

\* A queue that is applied up to f gives what is coming up to f.
LEMMA AfterIs ==
  ASSUME BlockShape, NEW f \in Int, NEW p \in Params
  PROVE  /\ Key(p) \in Template!Keys
         /\ Template!Due(f) = [k \in Template!Keys |-> Template!Upto(k, f)]
         /\ Template!After(Template!Due(f))[p] = Rest(p, f)
<1>1. Key(p) \in Template!Keys
  BY DEF Key, Template!Keys
<1> DEFINE k == Key(p)
           u == Template!Upto(k, f)
           I == {i \in Template!Queue(k) : cursor[k] <= i /\ i < u}
           J == Coming(p, cursor[k], f)
<1>2. Template!Due(f)[k] = u
  BY <1>1 DEF Template!Due
<1>3. Template!After(Template!Due(f))[p] = Template!Latest(block.events, I, p, values[p])
  BY <1>2 DEF Template!After, Key
<1>4. {i \in I : block.events[i].id = p} = {i \in J : block.events[i].id = p}
  <2>1. \A i \in DOMAIN block.events : block.events[i].id = p => i \in Template!Queue(k)
    BY DEF Key, Template!Queue
  <2>2. Template!Queue(k) \subseteq DOMAIN block.events
    BY DEF Template!Queue
  <2>3. \A i \in Template!Queue(k) : cursor[k] <= i => (i < u <=> block.events[i].time <= f)
    BY <1>1, UptoIs
  <2> QED
    BY <2>1, <2>2, <2>3 DEF Coming
<1>5. Template!Latest(block.events, I, p, values[p]) = Template!Latest(block.events, J, p, values[p])
  BY <1>4 DEF Template!Latest
<1> QED
  BY <1>1, <1>3, <1>5 DEF Rest, Template!Due

\* What is coming after a queue has been applied up to f completes what was
\* coming before, whatever the frame g it is due at.
LEMMA RestComposes ==
  ASSUME BlockShape, NEW f \in Int, NEW g \in Int, f <= g, NEW p \in Params
  PROVE  Rest(p, g) =
           Template!Latest(block.events, Coming(p, Template!Upto(Key(p), f), g), p, Rest(p, f))
<1> DEFINE k == Key(p)
           u == Template!Upto(k, f)
           A == Coming(p, cursor[k], f)
           B == Coming(p, u, g)
           C == Coming(p, cursor[k], g)
           n == Len(block.events)
<1>1. /\ n \in Nat /\ DOMAIN block.events = 1..n /\ k \in Template!Keys
      /\ \A i \in 1..n : block.events[i].time \in Int
  BY AfterIs DEF BlockShape
<1>2. /\ u \in cursor[k]..n + 1 /\ cursor[k] \in 1..n + 1
      /\ \A i \in Template!Queue(k) : cursor[k] <= i => (i < u <=> block.events[i].time <= f)
  BY <1>1, UptoIs DEF BlockShape
<1>3. \A i \in 1..n : block.events[i].id = p => i \in Template!Queue(k)
  BY <1>1 DEF Key, Template!Queue
<1> HIDE DEF n, k, u
<1>4. \A i \in 1..n : i \in A <=> block.events[i].id = p /\ cursor[k] <= i /\ i < u
  BY <1>1, <1>2, <1>3 DEF Coming
<1>5. \A i \in 1..n : i \in B <=> block.events[i].id = p /\ u <= i /\ block.events[i].time <= g
  BY <1>1 DEF Coming
<1>6. \A i \in 1..n : i \in C <=> block.events[i].id = p /\ cursor[k] <= i /\ block.events[i].time <= g
  BY <1>1 DEF Coming
<1>7. A \subseteq 1..n /\ B \subseteq 1..n /\ C \subseteq 1..n
  BY <1>1 DEF Coming
<1>8. /\ {i \in A : block.events[i].id = p} = A /\ {i \in B : block.events[i].id = p} = B
      /\ {i \in C : block.events[i].id = p} = C
  BY DEF Coming
<1> HIDE DEF A, B, C
<1>9. C = A \cup B
  <2>1. ASSUME NEW i \in A PROVE i \in C
    <3>1. i \in 1..n /\ block.events[i].id = p /\ cursor[k] <= i /\ i < u
      BY <1>4, <1>7
    <3>2. block.events[i].time <= f /\ block.events[i].time \in Int
      BY <1>1, <1>2, <1>3, <3>1
    <3>3. block.events[i].time <= g
      BY <3>2
    <3> QED
      BY <1>6, <3>1, <3>3
  <2>2. ASSUME NEW i \in B PROVE i \in C
    <3>1. i \in 1..n /\ block.events[i].id = p /\ u <= i /\ block.events[i].time <= g
      BY <1>5, <1>7
    <3>2. cursor[k] <= i
      BY <1>2, <3>1
    <3> QED
      BY <1>6, <3>1, <3>2
  <2>3. ASSUME NEW i \in C, i \notin A PROVE i \in B
    <3>1. i \in 1..n /\ block.events[i].id = p /\ cursor[k] <= i /\ block.events[i].time <= g
      BY <1>6, <1>7
    <3>2. ~(i < u)
      BY <1>4, <2>3, <3>1
    <3>3. u <= i
      BY <1>2, <3>1, <3>2
    <3> QED
      BY <1>5, <3>1, <3>3
  <2> QED
    BY <2>1, <2>2, <2>3
<1>10. \A i \in A, j \in B : i < j
  <2> SUFFICES ASSUME NEW i \in A, NEW j \in B PROVE i < j
    OBVIOUS
  <2>1. i \in 1..n /\ i < u /\ j \in 1..n /\ u <= j
    BY <1>4, <1>5, <1>7
  <2>2. u \in Int
    BY <1>1, <1>2
  <2> QED
    BY <2>1, <2>2
<1>11. B # {} => Template!Max(C) = Template!Max(B)
  <2> SUFFICES ASSUME B # {} PROVE Template!Max(C) = Template!Max(B)
    OBVIOUS
  <2> DEFINE b == Template!Max(B)
             c == Template!Max(C)
  <2>1. B \in SUBSET (0..n) /\ C \in SUBSET (0..n) /\ C # {}
    BY <1>1, <1>7, <1>9
  <2>2. b \in B /\ \A j \in B : j <= b
    BY <1>1, <2>1, Greatest
  <2>3. c \in C /\ \A j \in C : j <= c
    BY <1>1, <2>1, Greatest
  <2> HIDE DEF b, c
  <2>4. b <= c /\ b \in Int /\ c \in Int
    BY <1>7, <1>9, <2>2, <2>3
  <2>5. c \in B
    <3> SUFFICES ASSUME c \in A PROVE FALSE
      BY <1>9, <2>3
    <3>1. c < b
      BY <1>10, <2>2
    <3> QED
      BY <2>4, <3>1
  <2>6. c <= b
    BY <2>2, <2>5
  <2>7. b = c
    BY <2>4, <2>6
  <2> QED
    BY <2>7 DEF b, c
<1>12. Rest(p, g) = IF C = {} THEN values[p]
                    ELSE Template!Took(p, Template!Arriving(p, block.events[Template!Max(C)].value))
  BY <1>8 DEF Rest, Template!Latest, C, k
<1>13. Rest(p, f) = IF A = {} THEN values[p]
                    ELSE Template!Took(p, Template!Arriving(p, block.events[Template!Max(A)].value))
  BY <1>8 DEF Rest, Template!Latest, A, k
<1>14. Template!Latest(block.events, B, p, Rest(p, f)) =
         IF B = {} THEN Rest(p, f)
         ELSE Template!Took(p, Template!Arriving(p, block.events[Template!Max(B)].value))
  BY <1>8 DEF Template!Latest
<1>15. B = {} => C = A
  BY <1>9
<1>16. B # {} => C # {}
  BY <1>9
<1>17. Rest(p, g) = Template!Latest(block.events, B, p, Rest(p, f))
  BY <1>11, <1>12, <1>13, <1>14, <1>15, <1>16
<1> QED
  BY <1>17 DEF B, u, k

\* What comes leaves a parameter with a value it may hold.
LEMMA RestFits ==
  ASSUME BlockShape, NEW p \in Params, Template!Whole(p), Fits(p, values[p]), NEW f \in Int
  PROVE  Fits(p, Rest(p, f))
<1> DEFINE I == Coming(p, cursor[Key(p)], f)
<1>1. I \in SUBSET (1..Len(block.events)) /\ \A i \in I : block.events[i].value \in Int
  BY DEF BlockShape, Coming
<1>2. Len(block.events) \in Nat
  BY DEF BlockShape
<1>3. Fits(p, Template!Latest(block.events, I, p, values[p]))
  <2> HIDE DEF I
  <2> QED
    BY <1>1, <1>2, LatestFits
<1> QED
  BY <1>3 DEF Rest

LEMMA TemplateSteps ==
  ASSUME [PartNext]_<<part, vars, eventVars, templateVars, effectVars>>
  PROVE  Template!Next \/ UNCHANGED templateVars
  BY DEF PartNext

LEMMA BeginStep ==
  ASSUME TemplateInv, NEW n \in 0..Block, NEW es \in Template!Changes, Template!Begin(n, es)
  PROVE  TemplateInv'
<1>1. /\ frame = Template!Idle /\ frame' = 0 /\ block' = [n |-> n, events |-> es]
      /\ cursor' = [k \in Template!Keys |-> 1]
      /\ heard' = [i \in 1..n |-> [params |-> Template!Expected(es, i - 1), seen |-> since + i - 1]]
      /\ since' = since + n /\ UNCHANGED <<format, values, view, mem, out>>
      /\ Template!Sendable(es, n)
  BY DEF Template!Begin
<1>2. /\ values = [p \in Params |-> values[p]] /\ view = [p \in Params |-> view[p]]
      /\ \A p \in Params : Shown(p) /\ (Template!Whole(p) => Fits(p, values[p]))
      /\ out = <<>> /\ mem = since /\ mem \in Nat
  BY <1>1 DEF TemplateInv
<1>3. PICK m \in 0..MaxChanges : es \in [1..m -> Template!Change]
  BY DEF Template!Changes
<1>4. m \in Nat /\ n \in Nat
  BY <1>3, TemplateAssumption DEF Template!Assumptions
<1>5. /\ Len(es) = m /\ DOMAIN es = 1..m
      /\ \A i \in 1..m : es[i].time \in Int /\ es[i].value \in Int
  <2>1. es \in Seq(Template!Change)
    BY <1>3, <1>4
  <2>2. Len(es) = m /\ DOMAIN es = 1..m
    BY <1>3, <1>4, <2>1
  <2>3. \A e \in Template!Change : e.time \in Int /\ e.value \in Int
    <3>1. Sent \subseteq Int /\ Block \in Nat
      BY TemplateAssumption DEF Template!Assumptions
    <3>2. \A e \in Template!Change : e.time \in 0..Block /\ e.value \in Sent
      BY DEF Template!Change
    <3>3. 0..Block \subseteq Int
      BY <3>1
    <3> QED
      BY <3>1, <3>2, <3>3
  <2> QED
    BY <1>3, <2>2, <2>3
<1>6. block'.n = n /\ block'.events = es
  BY <1>1
<1>7. BlockShape'
  <2>1. \A i, j \in DOMAIN es : i < j => es[i].time <= es[j].time
    BY <1>1 DEF Template!Sendable
  <2>2. \A k \in Template!Keys' : cursor'[k] \in 1..Len(es) + 1
    BY <1>1, <1>4, <1>5 DEF Template!Keys
  <2> QED
    BY <1>4, <1>5, <1>6, <2>1, <2>2 DEF BlockShape
<1>8. ASSUME NEW f \in Int, NEW p \in Params
      PROVE  Template!Expected(es, f)[p] = (Rest(p, f))'
  <2> DEFINE I == {i \in DOMAIN es : es[i].time <= f}
             J == {i \in DOMAIN es : es[i].id = p /\ 1 <= i /\ es[i].time <= f}
  <2>1. Template!Expected(es, f)[p] = Template!Latest(es, I, p, values[p])
    BY DEF Template!Expected
  <2>2. cursor'[Key(p)'] = 1
    BY <1>1 DEF Key, Template!Keys
  <2>3. (Rest(p, f))' = Template!Latest(es, J, p, values[p])
    <3>1. (Coming(p, cursor[Key(p)], f))' = J
      BY <1>6, <2>2 DEF Coming
    <3>2. (Rest(p, f))' = Template!Latest(block'.events, (Coming(p, cursor[Key(p)], f))', p, values'[p])
      BY <1>1 DEF Rest, Template!Latest, Template!Arriving
    <3> QED
      BY <1>1, <1>6, <3>1, <3>2
  <2>4. {i \in I : es[i].id = p} = {i \in J : es[i].id = p}
    BY <1>4, <1>5
  <2> QED
    BY <2>1, <2>3, <2>4 DEF Template!Latest
<1>9. Heard'
  <2>1. frame' \in 0..n /\ since' = mem' + n - frame'
    BY <1>1, <1>2, <1>4
  <2>2. out' = [i \in 1..frame' |-> heard'[i]]
    BY <1>1, <1>2
  <2>3. ASSUME NEW i \in frame' + 1..n
        PROVE  heard'[i] = [params |-> [p \in Params |-> (Rest(p, i - 1))'],
                            seen |-> mem' + i - 1 - frame']
    <3>1. i \in 1..n /\ i - 1 \in Int /\ mem' + i - 1 - frame' = since + i - 1
      BY <1>1, <1>2, <1>4, <2>3
    <3>2. Template!Expected(es, i - 1) = [p \in Params |-> (Rest(p, i - 1))']
      BY <1>8, <3>1 DEF Template!Expected
    <3> QED
      BY <1>1, <3>1, <3>2
  <2>4. heard' = [i \in 1..n |-> heard'[i]]
    BY <1>1
  <2> QED
    BY <1>6, <2>1, <2>2, <2>3, <2>4 DEF Heard
<1>10. \A p \in Params : Shown(p)' /\ (Template!Whole(p) => Fits(p, values'[p]))
  BY <1>1, <1>2 DEF Shown
<1>11. frame' # Template!Idle
  BY <1>1 DEF Template!Idle
<1> QED
  BY <1>1, <1>2, <1>4, <1>6, <1>7, <1>9, <1>10, <1>11 DEF TemplateInv, Viewed, Template!Idle

LEMMA StepStep ==
  ASSUME TemplateInv, Template!Step
  PROVE  TemplateInv'
<1> DEFINE to == Template!Due(frame)
<1>1. /\ frame \in 0..block.n - 1 /\ values' = Template!After(to) /\ cursor' = to
      /\ out' = Append(out, [params |-> Template!After(to), seen |-> mem])
      /\ mem' = mem + 1 /\ frame' = frame + 1
      /\ UNCHANGED <<format, view, block, since, heard>>
  BY DEF Template!Step, Template!Compute
<1>2. frame # Template!Idle /\ frame' # Template!Idle
  BY <1>1 DEF Template!Idle
<1>3. BlockShape /\ Heard /\ Viewed /\ mem \in Nat /\ block.n \in Nat /\ frame \in Nat
  BY <1>1, <1>2 DEF TemplateInv, BlockShape
<1>4. \A p \in Params : values'[p] = Rest(p, frame) /\ cursor'[Key(p)] = Template!Upto(Key(p), frame)
  BY <1>1, <1>3, AfterIs
<1>5. values' = [p \in Params |-> values'[p]]
  BY <1>1 DEF Template!After
<1>6. BlockShape'
  <2>1. \A k \in Template!Keys : cursor'[k] \in 1..Len(block.events) + 1
    <3> SUFFICES ASSUME NEW k \in Template!Keys PROVE cursor'[k] \in 1..Len(block.events) + 1
      OBVIOUS
    <3>1. cursor'[k] = Template!Upto(k, frame)
      BY <1>1 DEF Template!Due
    <3>2. /\ Template!Upto(k, frame) \in cursor[k]..Len(block.events) + 1
          /\ cursor[k] \in 1..Len(block.events) + 1
      BY <1>3, UptoIs DEF BlockShape
    <3> QED
      BY <3>1, <3>2
  <2> QED
    BY <1>1, <1>3, <2>1 DEF BlockShape, Template!Keys
<1>7. ASSUME NEW g \in Int, frame <= g, NEW p \in Params
      PROVE  (Rest(p, g))' = Rest(p, g)
  <2>1. Rest(p, g) =
          Template!Latest(block.events, Coming(p, Template!Upto(Key(p), frame), g), p, Rest(p, frame))
    BY <1>3, <1>7, RestComposes
  <2>2. cursor'[Key(p)'] = Template!Upto(Key(p), frame) /\ values'[p] = Rest(p, frame)
    BY <1>1, <1>4 DEF Key
  <2>3. (Coming(p, cursor[Key(p)], g))' = Coming(p, Template!Upto(Key(p), frame), g)
    BY <1>1, <2>2 DEF Coming
  <2>4. (Rest(p, g))' = Template!Latest(block.events, (Coming(p, cursor[Key(p)], g))', p, values'[p])
    BY <1>1 DEF Rest, Template!Latest, Template!Arriving
  <2> QED
    BY <2>1, <2>2, <2>3, <2>4
<1>8. heard[frame + 1] = [params |-> Template!After(to), seen |-> mem]
  <2>1. frame + 1 \in frame + 1..block.n /\ (frame + 1) - 1 = frame
    BY <1>1, <1>3
  <2>2. mem + (frame + 1) - 1 - frame = mem
    BY <1>3
  <2>3. heard[frame + 1] = [params |-> [p \in Params |-> Rest(p, frame)], seen |-> mem]
    BY <1>3, <2>1, <2>2 DEF Heard
  <2>4. Template!After(to) = [p \in Params |-> Rest(p, frame)]
    BY <1>1, <1>4, <1>5
  <2> QED
    BY <2>3, <2>4
<1>9. Heard'
  <2>1. frame' \in 0..block.n /\ since' = mem' + block.n - frame'
    <3>1. /\ since = mem + block.n - frame /\ since' = since
          /\ mem' = mem + 1 /\ frame' = frame + 1 /\ frame \in 0..block.n - 1
      BY <1>1, <1>3 DEF Heard
    <3> QED
      BY <1>3, <3>1
  <2>2. out' = [i \in 1..frame + 1 |-> heard[i]]
    <3> DEFINE x == heard[frame + 1]
               S == {heard[i] : i \in 1..frame + 1}
    <3>1. out = [i \in 1..frame |-> heard[i]] /\ out' = Append(out, x)
      BY <1>1, <1>3, <1>8 DEF Heard
    <3>2. out \in Seq(S) /\ Len(out) = frame /\ x \in S
      BY <1>3, <3>1
    <3> HIDE DEF x
    <3>3. /\ Append(out, x) \in Seq(S) /\ Len(Append(out, x)) = frame + 1
          /\ \A i \in 1..frame : Append(out, x)[i] = out[i]
          /\ Append(out, x)[frame + 1] = x
      BY <3>2, AppendProperties
    <3>4. Append(out, x) = [i \in 1..frame + 1 |-> Append(out, x)[i]]
      <4>1. Append(out, x) \in [1..frame + 1 -> S]
        BY <3>3, LenProperties
      <4> HIDE DEF S
      <4> QED
        BY <4>1
    <3>5. ASSUME NEW i \in 1..frame + 1 PROVE Append(out, x)[i] = heard[i]
      <4>1. CASE i = frame + 1
        BY <3>3, <4>1 DEF x
      <4>2. CASE i # frame + 1
        <5>1. i \in 1..frame
          BY <1>3, <4>2
        <5> QED
          BY <3>1, <3>3, <5>1
      <4> QED
        BY <4>1, <4>2
    <3> QED
      BY <3>1, <3>4, <3>5
  <2>3. ASSUME NEW i \in frame' + 1..block.n
        PROVE  heard[i] = [params |-> [p \in Params |-> (Rest(p, i - 1))'],
                           seen |-> mem' + i - 1 - frame']
    <3>1. i \in frame + 1..block.n /\ i - 1 \in Int /\ frame <= i - 1
      BY <1>1, <1>3, <2>3
    <3>2. mem' + i - 1 - frame' = mem + i - 1 - frame
      BY <1>1, <1>3, <3>1
    <3>3. heard[i] = [params |-> [p \in Params |-> Rest(p, i - 1)], seen |-> mem + i - 1 - frame]
      BY <1>3, <3>1 DEF Heard
    <3>4. \A p \in Params : (Rest(p, i - 1))' = Rest(p, i - 1)
      BY <1>7, <3>1
    <3> QED
      BY <3>2, <3>3, <3>4
  <2>4. heard' = [i \in 1..block.n |-> heard'[i]]
    BY <1>1, <1>3 DEF Heard
  <2> QED
    BY <1>1, <2>1, <2>2, <2>3, <2>4 DEF Heard
<1>10. Viewed'
  <2> SUFFICES ASSUME format = "vst3", NEW p \in Params, Template!Queue(p) = {}
               PROVE  Shown(p)'
    BY <1>1 DEF Viewed, Shown, Template!Queue
  <2>1. Shown(p)
    BY <1>3 DEF Viewed
  <2>2. values'[p] = values[p]
    BY <1>1 DEF Template!After, Template!Latest
  <2> QED
    BY <1>1, <2>1, <2>2 DEF Shown
<1>11. ASSUME NEW p \in Params, Template!Whole(p) PROVE Fits(p, values'[p])
  <2>1. Fits(p, values[p])
    BY <1>11 DEF TemplateInv
  <2>2. frame \in Int
    BY <1>3
  <2> QED
    BY <1>3, <1>4, <1>11, <2>1, <2>2, RestFits
<1> QED
  BY <1>1, <1>2, <1>3, <1>5, <1>6, <1>9, <1>10, <1>11 DEF TemplateInv

LEMMA FinishStep ==
  ASSUME TemplateInv, Template!Finish
  PROVE  TemplateInv'
<1> DEFINE to == Template!Due(Block)
<1>1. /\ frame = block.n /\ values' = Template!After(to)
      /\ view' = [p \in Params |->
                    IF format # "vst3" \/ Template!Queue(p) = {} THEN view[p]
                    ELSE Template!ToNorm(p, Template!After(to)[p])]
      /\ frame' = Template!Idle /\ block' = Template!NoBlock /\ out' = <<>> /\ heard' = <<>>
      /\ UNCHANGED <<format, mem, since>>
  BY DEF Template!Finish
<1>2. values' = [p \in Params |-> values'[p]] /\ view' = [p \in Params |-> view'[p]]
  BY <1>1 DEF Template!After
<1>3. CASE frame # Template!Idle
  <2>1. BlockShape /\ Heard /\ Viewed /\ mem \in Nat /\ block.n \in Nat
    BY <1>3 DEF TemplateInv, BlockShape
  <2>2. mem = since
    BY <1>1, <2>1 DEF Heard
  <2>3. ASSUME NEW p \in Params, Template!Whole(p) PROVE Fits(p, values'[p])
    <3>1. Fits(p, values[p]) /\ Block \in Int
      BY <2>3, TemplateAssumption DEF TemplateInv, Template!Assumptions
    <3>2. values'[p] = Rest(p, Block)
      BY <1>1, <2>1, <3>1, AfterIs
    <3> QED
      BY <2>1, <2>3, <3>1, <3>2, RestFits
  <2>4. ASSUME NEW p \in Params PROVE Shown(p)'
    <3> SUFFICES ASSUME format = "vst3", Template!Whole(p)
                 PROVE  Template!ToPlain(p, view'[p]) = values'[p]
      BY <1>1 DEF Shown
    <3>1. CASE Template!Queue(p) = {}
      <4>1. view'[p] = view[p] /\ Template!ToPlain(p, view[p]) = values[p]
        BY <1>1, <2>1, <3>1 DEF Viewed, Shown
      <4>2. values'[p] = values[p]
        BY <1>1, <3>1 DEF Template!After, Template!Latest
      <4> QED
        BY <4>1, <4>2
    <3>2. CASE Template!Queue(p) # {}
      <4>1. view'[p] = Template!ToNorm(p, values'[p])
        BY <1>1, <3>2
      <4> QED
        BY <2>3, <4>1, ReadBack
    <3> QED
      BY <3>1, <3>2
  <2> QED
    BY <1>1, <1>2, <2>1, <2>2, <2>3, <2>4 DEF TemplateInv, Template!NoBlock
<1>4. CASE frame = Template!Idle
  BY <1>1, <1>4 DEF TemplateInv, Template!Idle
<1> QED
  BY <1>3, <1>4

LEMMA LoadStep ==
  ASSUME TemplateInv, NEW es \in Template!Changes, Template!Load(es)
  PROVE  TemplateInv'
<1>1. /\ frame = Template!Idle
      /\ values' = [p \in Params |-> Template!Latest(es, DOMAIN es, p, values[p])]
      /\ view' = [p \in Params |->
                    IF format # "vst3" \/ \A i \in DOMAIN es : es[i].id # p THEN view[p]
                    ELSE Template!ToNorm(p, values'[p])]
      /\ UNCHANGED <<format, mem, block, frame, cursor, since, out, heard>>
  BY DEF Template!Load
<1>2. values' = [p \in Params |-> values'[p]] /\ view' = [p \in Params |-> view'[p]]
  BY <1>1
<1>3. PICK m \in 0..MaxChanges : es \in [1..m -> Template!Change]
  BY DEF Template!Changes
<1>4. /\ m \in Nat /\ DOMAIN es = 1..m
      /\ \A i \in 1..m : es[i].value \in Int
  <2>1. m \in Nat /\ Sent \subseteq Int
    BY <1>3, TemplateAssumption DEF Template!Assumptions
  <2>2. \A e \in Template!Change : e.value \in Int
    BY <2>1 DEF Template!Change
  <2> QED
    BY <1>3, <2>1, <2>2
<1>5. ASSUME NEW p \in Params, Template!Whole(p) PROVE Fits(p, values'[p])
  <2>1. Fits(p, values[p]) /\ values'[p] = Template!Latest(es, DOMAIN es, p, values[p])
    BY <1>1, <1>5 DEF TemplateInv
  <2> QED
    BY <1>4, <1>5, <2>1, LatestFits
<1>6. ASSUME NEW p \in Params PROVE Shown(p)'
  <2> SUFFICES ASSUME format = "vst3", Template!Whole(p)
               PROVE  Template!ToPlain(p, view'[p]) = values'[p]
    BY <1>1 DEF Shown
  <2>1. CASE \A i \in DOMAIN es : es[i].id # p
    <3>1. view'[p] = view[p] /\ Template!ToPlain(p, view[p]) = values[p]
      BY <1>1, <2>1 DEF TemplateInv, Shown
    <3>2. values'[p] = values[p]
      BY <1>1, <2>1 DEF Template!Latest
    <3> QED
      BY <3>1, <3>2
  <2>2. CASE ~\A i \in DOMAIN es : es[i].id # p
    <3>1. view'[p] = Template!ToNorm(p, values'[p])
      BY <1>1, <2>2
    <3> QED
      BY <1>5, <3>1, ReadBack
  <2> QED
    BY <2>1, <2>2
<1> QED
  BY <1>1, <1>2, <1>5, <1>6 DEF TemplateInv

LEMMA TemplateStep ==
  ASSUME TemplateInv, Template!Next \/ UNCHANGED templateVars
  PROVE  TemplateInv'
<1>1. CASE Template!Activate
  BY <1>1 DEF Template!Activate, TemplateInv, Shown
<1>2. CASE Template!Step
  BY <1>2, StepStep
<1>3. CASE Template!Finish
  BY <1>3, FinishStep
<1>4. CASE \E n \in 0..Block, es \in Template!Changes : Template!Begin(n, es)
  BY <1>4, BeginStep
<1>5. CASE \E es \in Template!Changes : Template!Load(es)
  BY <1>5, LoadStep
<1>6. CASE UNCHANGED templateVars
  <2>1. UNCHANGED <<format, values, view, mem, block, frame, cursor, since, out, heard>>
    BY <1>6 DEF templateVars
  <2>2. /\ BlockShape' <=> BlockShape
        /\ Viewed' <=> Viewed
        /\ \A p \in Params : Shown(p)' <=> Shown(p)
    BY <2>1 DEF BlockShape, Viewed, Shown, Template!Keys, Template!Queue
  <2>3. ASSUME NEW p \in Params, NEW f \in Int PROVE (Rest(p, f))' = Rest(p, f)
    BY <2>1 DEF Rest, Coming, Key, Template!Latest, Template!Arriving
  <2>4. Heard /\ block.n \in Nat => Heard'
    <3> SUFFICES ASSUME Heard, block.n \in Nat PROVE Heard'
      OBVIOUS
    <3>1. \A i \in frame + 1..block.n : i - 1 \in Int
      BY DEF Heard
    <3>2. \A i \in frame + 1..block.n :
            [p \in Params |-> (Rest(p, i - 1))'] = [p \in Params |-> Rest(p, i - 1)]
      BY <2>3, <3>1
    <3> QED
      BY <2>1, <3>2 DEF Heard
  <2> QED
    BY <2>1, <2>2, <2>4 DEF TemplateInv
<1> QED
  BY <1>1, <1>2, <1>3, <1>4, <1>5, <1>6 DEF Template!Next

LEMMA TemplateStart == Template!Init => TemplateInv
<1> SUFFICES ASSUME Template!Init PROVE TemplateInv
  OBVIOUS
<1>1. /\ values = [p \in Params |-> Template!Took(p, Preset[p])]
      /\ view = [p \in Params |-> Preset[p] - Low[p]]
      /\ mem = 0 /\ block = Template!NoBlock /\ frame = Template!Idle
      /\ since = 0 /\ out = <<>> /\ heard = <<>>
  BY DEF Template!Init
<1>2. ASSUME NEW p \in Params, Template!Whole(p)
      PROVE  Fits(p, values[p]) /\ Template!ToPlain(p, view[p]) = values[p]
  <2> DEFINE l == Low[p]
             h == High[p]
             d == Preset[p]
  <2>1. l \in Int /\ h \in Int /\ l < h /\ d \in l..h /\ d \in Int
    BY Declared
  <2>2. Fits(p, d)
    BY <1>2, <2>1 DEF Fits, Template!Whole
  <2>3. Template!Took(p, d) = d
    <3>1. Template!Clip(d, l, h) = d
      BY <2>1 DEF Template!Clip
    <3>2. d % 2 = 0 => Template!Rounded(d) = d
      <4> HIDE DEF d, l, h
      <4> QED
        BY <2>1 DEF Template!Rounded
    <3> QED
      BY <2>2, <3>1, <3>2 DEF Template!Took, Fits
  <2>4. Template!ToNorm(p, d) = d - l
    <3>1. Template!Scale(p) = h - l
      <4>1. CASE Template!Steps(p) > 1
        <5>1. p \in Stepped
          BY <4>1 DEF Template!Steps
        <5>2. l % 2 = 0 /\ h % 2 = 0
          BY <1>2, <5>1 DEF Template!Whole
        <5>3. (h - l) % 2 = 0 /\ h - l = 2 * ((h - l) \div 2)
          <6> HIDE DEF l, h
          <6> QED
            BY <2>1, <5>2
        <5> QED
          BY <4>1, <5>1, <5>3 DEF Template!Scale, Template!Steps
      <4>2. CASE ~(Template!Steps(p) > 1)
        BY <4>2 DEF Template!Scale
      <4> QED
        BY <4>1, <4>2
    <3> HIDE DEF l, h, d
    <3>2. Template!ToNorm(p, d) = Template!Clip(d - l, 0, Template!Scale(p))
      BY DEF Template!ToNorm, l
    <3> QED
      BY <2>1, <3>1, <3>2 DEF Template!Clip
  <2>5. Template!ToPlain(p, d - l) = d
    BY <1>2, <2>2, <2>4, ReadBack
  <2> QED
    BY <1>1, <2>2, <2>3, <2>5
<1>3. block.n \in Nat
  BY <1>1 DEF Template!NoBlock
<1> QED
  BY <1>1, <1>2, <1>3 DEF TemplateInv, Shown, Template!Idle

LEMMA TemplateInvariance == PartSpec => []TemplateInv
<1>1. PartInit => TemplateInv
  BY TemplateStart DEF PartInit
<1>2. TemplateInv /\ [PartNext]_<<part, vars, eventVars, templateVars, effectVars>> => TemplateInv'
  BY TemplateSteps, TemplateStep
<1> QED
  BY <1>1, <1>2, PTL DEF PartSpec

\* For any changes, any cut into blocks and any of the three formats, each frame
\* that is computed is the one promised: the last value sent for it or before it,
\* in range, and a step function that saw every frame before it (plug_process,
\* process, run).
THEOREM FramesArePromised == PartSpec => []SampleAccurate
<1>1. TemplateInv => SampleAccurate
  <2> SUFFICES ASSUME TemplateInv PROVE out = SubSeq(heard, 1, Len(out))
    BY DEF SampleAccurate, Template!SampleAccurate
  <2>1. CASE frame = Template!Idle
    <3>1. out = <<>> /\ heard = <<>>
      BY <2>1 DEF TemplateInv
    <3> QED
      BY <3>1
  <2>2. CASE frame # Template!Idle
    <3> DEFINE n == block.n
               S == {heard[i] : i \in 1..n}
    <3>1. /\ n \in Nat /\ frame \in 0..n
          /\ heard = [i \in 1..n |-> heard[i]] /\ out = [i \in 1..frame |-> heard[i]]
      BY <2>2 DEF TemplateInv, Heard
    <3>2. heard \in [1..n -> S] /\ out \in [1..frame -> S]
      <4>1. \A i \in 1..n : heard[i] \in S
        OBVIOUS
      <4>2. \A i \in 1..frame : i \in 1..n
        BY <3>1
      <4> HIDE DEF S, n
      <4> QED
        BY <3>1, <4>1, <4>2
    <3> HIDE DEF n, S
    <3>3. heard \in Seq(S) /\ Len(heard) = n /\ Len(out) = frame
      BY <3>1, <3>2
    <3>4. SubSeq(heard, 1, frame) = [i \in 1..frame |-> heard[i]]
      BY <3>1, <3>3
    <3> QED
      BY <3>1, <3>3, <3>4
  <2> QED
    BY <2>1, <2>2
<1> QED
  BY <1>1, TemplateInvariance, PTL

\* For any ranges and defaults, any changes, cuts into blocks and loaded states, the
\* controller of an exported VST3 plugin shows between calls the value of each parameter
\* that is not rounded or declared with whole numbers (sync_controller, setState).
THEOREM ControllerAgrees == PartSpec => []ViewsAgree
<1>1. TemplateInv => ViewsAgree
  BY DEF TemplateInv, Shown, ViewsAgree, Template!ViewsAgree
<1> QED
  BY <1>1, TemplateInvariance, PTL

---------------------------------------------------------------------------
(* The events of a live block.                                             *)

\* The number of the places of I up to i, and the events of a up to i.
Rank(I, i) == Cardinality({j \in I : j <= i})
Typed(type, b) == {i \in 1..b : accepted[i].type = type}
OfParam(p, b) == {i \in Typed("param", b) : accepted[i].id = p}

\* q is the events at the places of I, in their order.
Carried(q, I) ==
  /\ q \in Seq(Live!Event) /\ Len(q) = Cardinality(I)
  /\ \A i \in I : q[Rank(I, i)] = Live!Heard(accepted[i])

\* What an adapter has made of the events before pos: one queue per parameter in VST3.
Converted ==
  CASE kind = "clap" -> /\ events \in Seq(Live!Event) /\ Len(events) = pos - 1
                        /\ \A i \in 1..pos - 1 : events[i] = accepted[i]
    [] kind = "lv2"  -> /\ Carried(queues, Typed("param", pos - 1))
                        /\ Carried(events, Typed("midi", pos - 1)) /\ Len(events) <= pos - 1
    [] kind = "vst3" ->
         /\ Carried(events, Typed("midi", pos - 1)) /\ Len(events) <= pos - 1
         /\ queues \in Seq(Seq(Live!Event)) /\ Len(queues) <= pos - 1
         /\ \A i \in Typed("param", pos - 1) : \E m \in DOMAIN queues : queues[m][1].id = accepted[i].id
         /\ \A m \in DOMAIN queues :
              /\ queues[m] # <<>> /\ Len(queues[m]) <= pos - 1
              /\ Carried(queues[m], OfParam(queues[m][1].id, pos - 1))
              /\ \A l \in DOMAIN queues : queues[l][1].id = queues[m][1].id => l = m

EventInv ==
  /\ kind \in {"clap", "lv2", "vst3"} /\ status \in {"idle", "convert", "ran"}
  /\ status # "idle" =>
       /\ accepted \in Seq(Live!Event) /\ Len(accepted) <= MaxEvents
       /\ \A i \in 1..Len(accepted) : Live!Accepted(accepted[i])
       /\ pos \in 1..Len(accepted) + 1 /\ Converted
  /\ status = "ran" => pos = Len(accepted) + 1

LEMMA EventBounds == MaxEvents \in Nat /\ AtomBytes \in Nat /\ AtomBytes >= 24 * MaxEvents + 3
  BY EventAssumption DEF Live!Assumptions

LEMMA Cardinals == \A S : Live!Cardinality(S) = Cardinality(S)
  BY DEF Live!Cardinality, Cardinality

LEMMA TypedFinite ==
  ASSUME NEW type, NEW b \in Nat
  PROVE  /\ IsFiniteSet(Typed(type, b)) /\ Typed(type, b) \subseteq 1..b
         /\ \A p : IsFiniteSet(OfParam(p, b)) /\ OfParam(p, b) \subseteq 1..b
<1>1. IsFiniteSet(1..b)
  BY FS_Interval
<1>2. Typed(type, b) \subseteq 1..b /\ \A p : OfParam(p, b) \subseteq 1..b
  BY DEF Typed, OfParam
<1> QED
  BY <1>1, <1>2, FS_Subset

\* One more event, at a place after all of I.
LEMMA CarriedNext ==
  ASSUME NEW b \in Nat, NEW I \in SUBSET (1..b), IsFiniteSet(I), NEW q, Carried(q, I),
         NEW r, NEW e \in Live!Event, e = Live!Heard(accepted[b + 1]), r = Append(q, e)
  PROVE  Carried(r, I \cup {b + 1})
<1>1. /\ q \in Seq(Live!Event) /\ Len(q) \in Nat /\ r \in Seq(Live!Event)
      /\ Len(r) = Len(q) + 1 /\ r[Len(q) + 1] = e /\ \A i \in 1..Len(q) : r[i] = q[i]
  BY AppendProperties, LenProperties DEF Carried
<1>2. b + 1 \notin I
  OBVIOUS
<1>3. Cardinality(I) \in Nat /\ Cardinality(I \cup {b + 1}) = Cardinality(I) + 1
  BY <1>2, FS_AddElement, FS_CardinalityType
<1>4. Rank(I \cup {b + 1}, b + 1) = Len(q) + 1
  <2>1. {j \in I \cup {b + 1} : j <= b + 1} = I \cup {b + 1}
    <3>1. \A j \in I \cup {b + 1} : j <= b + 1
      OBVIOUS
    <3> QED
      BY <3>1
  <2> QED
    BY <1>3, <2>1 DEF Rank, Carried
<1>5. ASSUME NEW i \in I
      PROVE  Rank(I \cup {b + 1}, i) = Rank(I, i) /\ Rank(I, i) \in 1..Len(q)
  <2>1. {j \in I \cup {b + 1} : j <= i} = {j \in I : j <= i}
    OBVIOUS
  <2>2. {j \in I : j <= i} \subseteq I /\ i \in {j \in I : j <= i}
    OBVIOUS
  <2> PICK J : J = {j \in I : j <= i}
    OBVIOUS
  <2>3. IsFiniteSet(J) /\ Cardinality(J) <= Cardinality(I) /\ Cardinality(J) \in Nat
    BY <2>2, FS_Subset, FS_CardinalityType
  <2>4. Cardinality(J) # 0
    BY <2>2, <2>3, FS_EmptySet
  <2>5. Rank(I, i) = Cardinality(J) /\ Rank(I \cup {b + 1}, i) = Cardinality(J)
    BY <2>1 DEF Rank
  <2> QED
    BY <1>1, <2>3, <2>4, <2>5 DEF Carried
<1> QED
  BY <1>1, <1>3, <1>4, <1>5 DEF Carried

LEMMA CarriedNone ==
  ASSUME NEW I, I = {}
  PROVE  Carried(<<>>, I)
<1>1. <<>> \in Seq(Live!Event) /\ Len(<<>>) = 0 /\ Cardinality(I) = 0
  BY FS_EmptySet
<1> QED
  BY <1>1 DEF Carried

\* The places up to b + 1.
LEMMA TypedNext ==
  ASSUME NEW b \in Nat
  PROVE  /\ \A type : Typed(type, b + 1) = IF accepted[b + 1].type = type
                                           THEN Typed(type, b) \cup {b + 1} ELSE Typed(type, b)
         /\ \A p : OfParam(p, b + 1) = IF accepted[b + 1].type = "param" /\ accepted[b + 1].id = p
                                       THEN OfParam(p, b) \cup {b + 1} ELSE OfParam(p, b)
<1>1. 1..b + 1 = 1..b \cup {b + 1}
  OBVIOUS
<1>2. ASSUME NEW type
      PROVE  Typed(type, b + 1) = IF accepted[b + 1].type = type
                                  THEN Typed(type, b) \cup {b + 1} ELSE Typed(type, b)
  BY <1>1 DEF Typed
<1>3. ASSUME NEW p
      PROVE  OfParam(p, b + 1) = IF accepted[b + 1].type = "param" /\ accepted[b + 1].id = p
                                 THEN OfParam(p, b) \cup {b + 1} ELSE OfParam(p, b)
  <2>1. CASE accepted[b + 1].type = "param"
    <3> PICK I : I = Typed("param", b)
      OBVIOUS
    <3>1. Typed("param", b + 1) = I \cup {b + 1}
      BY <1>2, <2>1
    <3>2. OfParam(p, b + 1) = {i \in I \cup {b + 1} : accepted[i].id = p}
      BY <3>1 DEF OfParam
    <3>3. OfParam(p, b) = {i \in I : accepted[i].id = p}
      BY DEF OfParam
    <3>4. CASE accepted[b + 1].id = p
      <4>1. OfParam(p, b + 1) = OfParam(p, b) \cup {b + 1}
        BY <3>2, <3>3, <3>4
      <4> QED
        BY <2>1, <3>4, <4>1
    <3>5. CASE accepted[b + 1].id # p
      <4>1. OfParam(p, b + 1) = OfParam(p, b)
        BY <3>2, <3>3, <3>5
      <4> QED
        BY <2>1, <3>5, <4>1
    <3> QED
      BY <3>4, <3>5
  <2>2. CASE accepted[b + 1].type # "param"
    <3>1. Typed("param", b + 1) = Typed("param", b)
      BY <1>2, <2>2
    <3> QED
      BY <2>2, <3>1 DEF OfParam
  <2> QED
    BY <2>1, <2>2
<1> QED
  BY <1>2, <1>3

LEMMA TypedNone == (\A type : Typed(type, 0) = {}) /\ \A p : OfParam(p, 0) = {}
  BY DEF Typed, OfParam

\* The event at pos, and what try_write has found of it.
LEMMA NowIs ==
  ASSUME EventInv, status = "convert", ~Live!Done
  PROVE  /\ pos \in Nat \ {0} /\ pos \in 1..Len(accepted) /\ Len(accepted) \in Nat
         /\ Len(accepted) <= MaxEvents /\ accepted \in Seq(Live!Event)
         /\ accepted[pos] \in Live!Event /\ Live!Accepted(accepted[pos])
<1>1. /\ accepted \in Seq(Live!Event) /\ pos \in 1..Len(accepted) + 1 /\ Len(accepted) \in Nat
      /\ \A i \in 1..Len(accepted) : Live!Accepted(accepted[i])
      /\ Len(accepted) <= MaxEvents
  BY LenProperties DEF EventInv
<1>2. pos \in Nat \ {0} /\ pos \in 1..Len(accepted)
  BY <1>1 DEF Live!Done
<1> QED
  BY <1>1, <1>2, ElementOfSeq

\* A step that converts the event at pos.
LEMMA AdvanceInv ==
  ASSUME EventInv, status = "convert", ~Live!Done, UNCHANGED <<kind, midi, accepted>>,
         pos' = pos + 1, status' = status, Converted'
  PROVE  EventInv'
<1>1. pos' \in 1..Len(accepted) + 1
  BY NowIs
<1>2. \A e : Live!Accepted(e)' <=> Live!Accepted(e)
  BY DEF Live!Accepted, Live!ParamOk, Live!MidiOk, Live!BlockParameters, Live!NotesOnly
<1>3. \A i \in 1..Len(accepted) : Live!Accepted(accepted[i])'
  BY <1>2 DEF EventInv
<1> QED
  BY <1>1, <1>3 DEF EventInv

\* As long as the block's events do, what is carried stays so.
LEMMA SamePlaces ==
  ASSUME UNCHANGED <<kind, accepted>>
  PROVE  /\ \A q, I : Carried(q, I)' <=> Carried(q, I)
         /\ \A type, b : Typed(type, b)' = Typed(type, b)
         /\ \A p, b : OfParam(p, b)' = OfParam(p, b)
  BY DEF Carried, Live!Heard, Typed, OfParam

\* q takes the event at b + 1.
LEMMA TypedTaken ==
  ASSUME NEW b \in Nat, NEW e \in Live!Event, e = Live!Heard(accepted[b + 1]), NEW q
  PROVE  /\ \A type : Carried(q, Typed(type, b)) /\ accepted[b + 1].type = type
                       => Carried(Append(q, e), Typed(type, b + 1))
         /\ \A type : Carried(q, Typed(type, b)) /\ accepted[b + 1].type # type
                       => Carried(q, Typed(type, b + 1))
<1>1. ASSUME NEW type, Carried(q, Typed(type, b)), accepted[b + 1].type = type
      PROVE  Carried(Append(q, e), Typed(type, b + 1))
  <2> PICK I : I = Typed(type, b)
    OBVIOUS
  <2>1. I \in SUBSET (1..b) /\ IsFiniteSet(I)
    BY TypedFinite
  <2>2. Typed(type, b + 1) = I \cup {b + 1}
    BY <1>1, TypedNext
  <2>3. Carried(Append(q, e), I \cup {b + 1})
    BY <1>1, <2>1, CarriedNext
  <2> QED
    BY <2>2, <2>3
<1>2. ASSUME NEW type, Carried(q, Typed(type, b)), accepted[b + 1].type # type
      PROVE  Carried(q, Typed(type, b + 1))
  BY <1>2, TypedNext
<1> QED
  BY <1>1, <1>2

LEMMA ClapInv == EventInv /\ Live!ClapEvent => EventInv'
<1> SUFFICES ASSUME EventInv, Live!ClapEvent PROVE EventInv'
  OBVIOUS
<1>1. /\ kind = "clap" /\ status = "convert" /\ ~Live!Done /\ UNCHANGED <<kind, midi, accepted>>
      /\ events' = Append(events, accepted[pos]) /\ pos' = pos + 1 /\ status' = status
  BY DEF Live!ClapEvent, Live!Converting, Live!Advance, Live!Now
<1>2. /\ events \in Seq(Live!Event) /\ Len(events) = pos - 1
      /\ \A i \in 1..pos - 1 : events[i] = accepted[i]
  BY <1>1 DEF EventInv, Converted
<1>3. pos \in Nat \ {0} /\ accepted[pos] \in Live!Event
  BY <1>1, NowIs
<1>4. /\ events' \in Seq(Live!Event) /\ Len(events') = pos
      /\ events'[pos] = accepted[pos] /\ \A i \in 1..pos - 1 : events'[i] = events[i]
  BY <1>1, <1>2, <1>3, AppendProperties
<1>5. \A i \in 1..pos : i \in 1..pos - 1 \/ i = pos
  BY <1>3
<1>6. pos' - 1 = pos
  BY <1>1, <1>3
<1>7. Converted'
  BY <1>1, <1>2, <1>4, <1>5, <1>6 DEF Converted
<1> QED
  BY <1>1, <1>7, AdvanceInv

LEMMA Lv2Inv == EventInv /\ (Live!Lv2Param \/ Live!Lv2Midi) => EventInv'
<1> SUFFICES ASSUME EventInv, Live!Lv2Param \/ Live!Lv2Midi PROVE EventInv'
  OBVIOUS
<1>1. /\ kind = "lv2" /\ status = "convert" /\ ~Live!Done /\ UNCHANGED <<kind, midi, accepted>>
  BY DEF Live!Lv2Param, Live!Lv2Midi, Live!Converting
<1>2. /\ Carried(queues, Typed("param", pos - 1)) /\ Carried(events, Typed("midi", pos - 1))
      /\ Len(events) <= pos - 1 /\ Len(events) \in Nat
  BY <1>1, LenProperties DEF EventInv, Converted, Carried
<1> PICK e : e = accepted[pos]
  OBVIOUS
<1> PICK b : b = pos - 1
  OBVIOUS
<1>3. /\ pos \in Nat \ {0} /\ e \in Live!Event /\ Live!Accepted(e) /\ pos <= MaxEvents
      /\ MaxEvents \in Nat
  BY <1>1, NowIs, EventBounds
<1>4. b \in Nat /\ pos = b + 1 /\ pos + 1 - 1 = b + 1
  BY <1>3
<1>5. Live!Heard(e) = e
  BY <1>1 DEF Live!Heard
<1>6. ASSUME pos' = pos + 1, status' = status,
             Carried(queues', Typed("param", b + 1)), Carried(events', Typed("midi", b + 1)),
             Len(events') <= b + 1
      PROVE  EventInv'
  <2>1. pos' - 1 = b + 1
    BY <1>4, <1>6
  <2>2. Converted'
    BY <1>1, <1>6, <2>1, SamePlaces DEF Converted
  <2> QED
    BY <1>1, <1>6, <2>2, AdvanceInv
<1>7. CASE Live!Lv2Param
  <2>1. e.type = "param" /\ e.frame = 0
    BY <1>1, <1>3, <1>7 DEF Live!Lv2Param, Live!Now, Live!Accepted, Live!ParamOk, Live!BlockParameters
  <2>2. queues' = Append(queues, e) /\ pos' = pos + 1 /\ status' = status /\ events' = events
    BY <1>7, <2>1 DEF Live!Lv2Param, Live!Now, Live!Advance
  <2>3. accepted[b + 1] = e /\ accepted[b + 1].type # "midi"
    BY <1>4, <2>1
  <2>4. Carried(queues', Typed("param", b + 1))
    BY <1>2, <1>3, <1>4, <1>5, <2>1, <2>2, <2>3, TypedTaken
  <2>5. Carried(events', Typed("midi", b + 1)) /\ Len(events') <= b + 1
    BY <1>2, <1>3, <1>4, <1>5, <2>2, <2>3, TypedTaken
  <2> QED
    BY <1>6, <2>2, <2>4, <2>5
<1>8. CASE Live!Lv2Midi
  <2>1. e.type = "midi"
    BY <1>8 DEF Live!Lv2Midi, Live!Now
  <2>2. ~(8 + 24 * Len(events) + Live!EventBytes(e) > AtomBytes)
    <3>1. Live!EventBytes(e) \in {17, 19}
      BY DEF Live!EventBytes
    <3>2. Len(events) <= MaxEvents - 1
      BY <1>2, <1>3
    <3> QED
      BY <1>2, <1>3, <3>1, <3>2, EventBounds
  <2>3. events' = Append(events, e) /\ pos' = pos + 1 /\ status' = status /\ queues' = queues
    BY <1>8, <2>2 DEF Live!Lv2Midi, Live!Now, Live!Advance
  <2>4. accepted[b + 1] = e /\ accepted[b + 1].type # "param"
    BY <1>4, <2>1
  <2>5. Carried(events', Typed("midi", b + 1)) /\ Carried(queues', Typed("param", b + 1))
    BY <1>2, <1>3, <1>4, <1>5, <2>1, <2>3, <2>4, TypedTaken
  <2>6. Len(events') <= b + 1
    <3>1. Len(events') = Len(events) + 1
      BY <1>2, <1>3, <2>3, AppendProperties DEF Carried
    <3> QED
      BY <1>2, <1>4, <3>1
  <2> QED
    BY <1>6, <2>3, <2>5, <2>6
<1> QED
  BY <1>7, <1>8

LEMMA ParamTaken ==
  ASSUME NEW b \in Nat, NEW e \in Live!Event, e = Live!Heard(accepted[b + 1]), NEW q, NEW p,
         Carried(q, OfParam(p, b))
  PROVE  /\ accepted[b + 1].type = "param" /\ accepted[b + 1].id = p
              => Carried(Append(q, e), OfParam(p, b + 1))
         /\ ~(accepted[b + 1].type = "param" /\ accepted[b + 1].id = p)
              => Carried(q, OfParam(p, b + 1))
<1> PICK I : I = OfParam(p, b)
  OBVIOUS
<1>1. I \in SUBSET (1..b) /\ IsFiniteSet(I)
  BY TypedFinite
<1>2. Carried(Append(q, e), I \cup {b + 1})
  BY <1>1, CarriedNext
<1> QED
  BY <1>2, TypedNext

LEMMA Vst3MidiInv == EventInv /\ Live!Vst3Midi => EventInv'
<1> SUFFICES ASSUME EventInv, Live!Vst3Midi PROVE EventInv'
  OBVIOUS
<1> PICK e : e = accepted[pos]
  OBVIOUS
<1> PICK b : b = pos - 1
  OBVIOUS
<1>1. /\ kind = "vst3" /\ status = "convert" /\ ~Live!Done /\ UNCHANGED <<kind, midi, accepted>>
      /\ e.type = "midi"
  BY DEF Live!Vst3Midi, Live!Converting, Live!Now
<1>2. /\ pos \in Nat \ {0} /\ e \in Live!Event /\ Live!Accepted(e) /\ pos <= MaxEvents
      /\ MaxEvents \in Nat
  BY <1>1, NowIs, EventBounds
<1>3. b \in Nat /\ pos = b + 1 /\ pos + 1 - 1 = b + 1 /\ accepted[b + 1] = e
  BY <1>2
<1>4. /\ Carried(events, Typed("midi", b)) /\ Len(events) <= b /\ Len(events) \in Nat
      /\ queues \in Seq(Seq(Live!Event)) /\ Len(queues) <= b /\ Len(queues) \in Nat
      /\ \A i \in Typed("param", b) : \E m \in DOMAIN queues : queues[m][1].id = accepted[i].id
      /\ \A m \in DOMAIN queues :
           /\ queues[m] # <<>> /\ Len(queues[m]) <= b
           /\ Carried(queues[m], OfParam(queues[m][1].id, b))
           /\ \A l \in DOMAIN queues : queues[l][1].id = queues[m][1].id => l = m
  BY <1>1, LenProperties DEF EventInv, Converted, Carried
<1>5. e.id \in {"note_on", "note_on_0", "note_off"}
  BY <1>1, <1>2 DEF Live!Accepted, Live!MidiOk, Live!NotesOnly
<1> PICK d : d = Live!Heard(e)
  OBVIOUS
<1>6. d = [e EXCEPT !.id = IF @ = "note_on" THEN @ ELSE "note_off"] /\ d \in Live!Event
  <2>1. e = [type |-> "midi", frame |-> e.frame, id |-> e.id, value |-> e.value]
        /\ e.frame \in 0..Frames /\ e.value \in {"in", "out"}
    BY <1>1, <1>2 DEF Live!Event
  <2>2. d = IF e.id = "note_on_0" THEN [e EXCEPT !.id = "note_off"] ELSE e
    BY <1>1 DEF Live!Heard
  <2>3. d = [e EXCEPT !.id = IF @ = "note_on" THEN @ ELSE "note_off"]
    BY <1>5, <2>1, <2>2
  <2>4. d \in Live!Event
    BY <1>5, <2>1, <2>2 DEF Live!Event, Live!Statuses
  <2> QED
    BY <2>3, <2>4
<1>7. Len(events) # MaxEvents
  BY <1>2, <1>3, <1>4
<1>8. events' = Append(events, d) /\ pos' = pos + 1 /\ status' = status /\ queues' = queues
  BY <1>5, <1>6, <1>7 DEF Live!Vst3Midi, Live!Now, Live!Advance
<1>9. Carried(events', Typed("midi", b + 1)) /\ Len(events') <= b + 1
  <2>1. Len(events') = Len(events) + 1
    BY <1>4, <1>6, <1>8, AppendProperties DEF Carried
  <2>2. Carried(Append(events, d), Typed("midi", b + 1))
    BY <1>1, <1>3, <1>4, <1>6, TypedTaken
  <2> QED
    BY <1>3, <1>4, <1>8, <2>1, <2>2
<1>10. Typed("param", b + 1) = Typed("param", b)
  BY <1>1, <1>3, TypedNext
<1>11. ASSUME NEW m \in DOMAIN queues
       PROVE  Carried(queues[m], OfParam(queues[m][1].id, b + 1)) /\ Len(queues[m]) <= b + 1
  <2>1. Carried(queues[m], OfParam(queues[m][1].id, b)) /\ Len(queues[m]) <= b
    BY <1>4
  <2>2. Len(queues[m]) \in Nat
    BY <2>1, LenProperties DEF Carried
  <2>3. Carried(queues[m], OfParam(queues[m][1].id, b + 1))
    BY <1>1, <1>3, <1>6, <2>1, ParamTaken
  <2> QED
    BY <1>3, <2>1, <2>2, <2>3
<1>12. Converted'
  <2>1. pos' - 1 = b + 1
    BY <1>3, <1>8
  <2>2. Len(queues) <= b + 1
    BY <1>3, <1>4
  <2> QED
    BY <1>1, <1>4, <1>8, <1>9, <1>10, <1>11, <2>1, <2>2, SamePlaces DEF Converted
<1> QED
  BY <1>1, <1>8, <1>12, AdvanceInv

LEMMA Vst3ParamInv == EventInv /\ Live!Vst3Param => EventInv'
<1> SUFFICES ASSUME EventInv, Live!Vst3Param PROVE EventInv'
  OBVIOUS
<1> PICK e : e = accepted[pos]
  OBVIOUS
<1> PICK b : b = pos - 1
  OBVIOUS
<1>1. /\ kind = "vst3" /\ status = "convert" /\ ~Live!Done /\ UNCHANGED <<kind, midi, accepted>>
      /\ e.type = "param"
  BY DEF Live!Vst3Param, Live!Converting, Live!Now
<1>2. /\ pos \in Nat \ {0} /\ e \in Live!Event /\ pos <= MaxEvents /\ MaxEvents \in Nat
  BY <1>1, NowIs, EventBounds
<1>3. b \in Nat /\ pos = b + 1 /\ pos + 1 - 1 = b + 1 /\ accepted[b + 1] = e /\ b < MaxEvents
  BY <1>2
<1>4. /\ Carried(events, Typed("midi", b)) /\ Len(events) <= b /\ Len(events) \in Nat
      /\ queues \in Seq(Seq(Live!Event)) /\ Len(queues) <= b /\ Len(queues) \in Nat
      /\ DOMAIN queues = 1..Len(queues)
      /\ \A i \in Typed("param", b) : \E m \in DOMAIN queues : queues[m][1].id = accepted[i].id
      /\ \A m \in DOMAIN queues :
           /\ queues[m] # <<>> /\ Len(queues[m]) <= b
           /\ Carried(queues[m], OfParam(queues[m][1].id, b))
           /\ \A l \in DOMAIN queues : queues[l][1].id = queues[m][1].id => l = m
  BY <1>1, LenProperties DEF EventInv, Converted, Carried
<1>5. Live!Heard(e) = e
  BY <1>1 DEF Live!Heard
<1>6. ASSUME NEW m \in DOMAIN queues
      PROVE  /\ queues[m] \in Seq(Live!Event) /\ Len(queues[m]) \in Nat
             /\ Len(queues[m]) \in 1..b
             /\ e.id = queues[m][1].id =>
                  Carried(Append(queues[m], e), OfParam(queues[m][1].id, b + 1))
             /\ e.id # queues[m][1].id => Carried(queues[m], OfParam(queues[m][1].id, b + 1))
  <2>1. /\ Carried(queues[m], OfParam(queues[m][1].id, b)) /\ queues[m] # <<>>
        /\ Len(queues[m]) <= b /\ queues[m] \in Seq(Live!Event)
    BY <1>4 DEF Carried
  <2>2. Len(queues[m]) \in 1..b
    BY <2>1, <1>3, EmptySeq, LenProperties
  <2> QED
    BY <1>1, <1>2, <1>3, <1>5, <2>1, <2>2, ParamTaken
<1>7. Carried(events, Typed("midi", b + 1))
  BY <1>1, <1>2, <1>3, <1>4, <1>5, TypedTaken
<1>8. \A i \in Typed("param", b + 1) : i \in Typed("param", b) \/ accepted[i] = e
  <2>1. Typed("param", b + 1) = Typed("param", b) \cup {b + 1}
    BY <1>1, <1>3, TypedNext
  <2> QED
    BY <1>3, <2>1
<1>9. ASSUME events' = events, pos' = pos + 1, status' = status,
             queues' \in Seq(Seq(Live!Event)), Len(queues') <= b + 1,
             \A i \in Typed("param", b + 1) :
               \E m \in DOMAIN queues' : queues'[m][1].id = accepted[i].id,
             \A m \in DOMAIN queues' :
               /\ queues'[m] # <<>> /\ Len(queues'[m]) <= b + 1
               /\ Carried(queues'[m], OfParam(queues'[m][1].id, b + 1))
               /\ \A l \in DOMAIN queues' : queues'[l][1].id = queues'[m][1].id => l = m
      PROVE  EventInv'
  <2>1. pos' - 1 = b + 1 /\ Len(events) <= b + 1
    BY <1>3, <1>4, <1>9
  <2>2. Converted'
    BY <1>1, <1>7, <1>9, <2>1, SamePlaces DEF Converted
  <2> QED
    BY <1>1, <1>9, <2>2, AdvanceInv
<1>10. ASSUME NEW i \in DOMAIN queues, queues[i][1].id = e.id,
              IF Len(queues[i]) = MaxEvents THEN Live!Fail
              ELSE queues' = [queues EXCEPT ![i] = Append(@, e)] /\ Live!Advance
                   /\ UNCHANGED events
       PROVE  EventInv'
  <2> PICK q : q = Append(queues[i], e)
    OBVIOUS
  <2>1. /\ queues' = [queues EXCEPT ![i] = q] /\ pos' = pos + 1 /\ status' = status
        /\ events' = events
    <3>1. Len(queues[i]) # MaxEvents
      BY <1>3, <1>6
    <3> QED
      BY <1>10, <3>1 DEF Live!Advance
  <2>2. /\ q \in Seq(Live!Event) /\ q # <<>> /\ Len(q) <= b + 1 /\ q[1] = queues[i][1]
    <3>1. /\ q \in Seq(Live!Event) /\ Len(q) = Len(queues[i]) + 1
          /\ \A j \in 1..Len(queues[i]) : q[j] = queues[i][j]
      BY <1>2, <1>6, AppendProperties
    <3>2. Len(queues[i]) \in 1..b /\ 1 \in 1..Len(queues[i])
      BY <1>3, <1>6
    <3>3. q # <<>>
      BY <3>1, <3>2
    <3> QED
      BY <1>3, <3>1, <3>2, <3>3
  <2>3. /\ DOMAIN queues' = DOMAIN queues /\ queues'[i] = q
        /\ \A m \in DOMAIN queues : m # i => queues'[m] = queues[m]
    BY <2>1
  <2>4. queues' \in Seq(Seq(Live!Event)) /\ Len(queues') = Len(queues)
    <3> DEFINE E == Seq(Live!Event)
    <3>1. queues \in Seq(E) /\ q \in E
      BY <1>4, <2>2
    <3> HIDE DEF E
    <3>2. queues' \in Seq(E) /\ Len(queues') = Len(queues)
      BY <2>1, <3>1, ExceptSeq
    <3> QED
      BY <3>2 DEF E
  <2>5. ASSUME NEW m \in DOMAIN queues
        PROVE  /\ queues'[m] # <<>> /\ Len(queues'[m]) <= b + 1
               /\ Carried(queues'[m], OfParam(queues'[m][1].id, b + 1))
               /\ queues'[m][1] = queues[m][1]
    <3>1. CASE m = i
      BY <1>6, <1>10, <2>2, <2>3, <3>1
    <3>2. CASE m # i
      <4>1. queues'[m] = queues[m] /\ queues[m] # <<>>
        BY <1>4, <2>3, <3>2
      <4>2. e.id # queues[m][1].id
        BY <1>4, <1>10, <3>2
      <4>3. Len(queues[m]) \in 1..b
        BY <1>6
      <4>4. Len(queues[m]) <= b + 1
        BY <1>3, <4>3
      <4> QED
        BY <1>6, <4>1, <4>2, <4>4
    <3> QED
      BY <3>1, <3>2
  <2>6. \A j \in Typed("param", b + 1) :
          \E m \in DOMAIN queues' : queues'[m][1].id = accepted[j].id
    <3> TAKE j \in Typed("param", b + 1)
    <3>1. CASE accepted[j] = e
      BY <1>10, <2>3, <2>5, <3>1
    <3>2. CASE j \in Typed("param", b)
      <4>1. PICK m \in DOMAIN queues : queues[m][1].id = accepted[j].id
        BY <1>4, <3>2
      <4>2. m \in DOMAIN queues' /\ queues'[m][1] = queues[m][1]
        BY <2>3, <2>5
      <4> QED
        BY <4>1, <4>2
    <3> QED
      BY <1>8, <3>1, <3>2
  <2>7. \A m, l \in DOMAIN queues' : queues'[l][1].id = queues'[m][1].id => l = m
    BY <1>4, <2>3, <2>5
  <2>8. Len(queues') <= b + 1
    BY <1>3, <1>4, <2>4
  <2>9. \A m \in DOMAIN queues' :
          /\ queues'[m] # <<>> /\ Len(queues'[m]) <= b + 1
          /\ Carried(queues'[m], OfParam(queues'[m][1].id, b + 1))
          /\ \A l \in DOMAIN queues' : queues'[l][1].id = queues'[m][1].id => l = m
    BY <2>3, <2>5, <2>7
  <2>10. queues' \in Seq(Seq(Live!Event))
    BY <2>4
  <2> QED
    BY <1>9, <2>1, <2>6, <2>8, <2>9, <2>10
<1>11. ASSUME \A i \in DOMAIN queues : queues[i][1].id # e.id,
              IF Len(queues) = MaxEvents THEN Live!Fail
              ELSE queues' = Append(queues, <<e>>) /\ Live!Advance /\ UNCHANGED events
       PROVE  EventInv'
  <2> PICK q : q = <<e>>
    OBVIOUS
  <2>1. /\ queues' = Append(queues, q) /\ pos' = pos + 1 /\ status' = status
        /\ events' = events
    <3>1. Len(queues) # MaxEvents
      BY <1>3, <1>4
    <3> QED
      BY <1>11, <3>1 DEF Live!Advance
  <2>2. q \in Seq(Live!Event) /\ q # <<>> /\ Len(q) = 1 /\ q[1] = e
    BY <1>2
  <2> PICK c : c = Len(queues) + 1
    OBVIOUS
  <2>3. /\ queues' \in Seq(Seq(Live!Event)) /\ Len(queues') = c
        /\ queues'[c] = q /\ DOMAIN queues' = DOMAIN queues \cup {c} /\ c \notin DOMAIN queues
        /\ \A m \in DOMAIN queues : queues'[m] = queues[m]
    <3> DEFINE E == Seq(Live!Event)
    <3>1. queues \in Seq(E) /\ q \in E
      BY <1>4, <2>2
    <3> HIDE DEF E
    <3>2. /\ queues' \in Seq(E) /\ Len(queues') = c
          /\ queues'[c] = q /\ \A m \in 1..Len(queues) : queues'[m] = queues[m]
      BY <2>1, <3>1, AppendProperties
    <3>3. DOMAIN queues' = 1..c /\ 1..c = 1..Len(queues) \cup {c}
      BY <1>4, <3>2, LenProperties
    <3>4. c \notin 1..Len(queues)
      BY <1>4
    <3> QED
      BY <1>4, <3>2, <3>3, <3>4 DEF E
  <2>4. Carried(q, OfParam(e.id, b + 1))
    <3>1. OfParam(e.id, b) = {}
      <4> SUFFICES ASSUME NEW j \in OfParam(e.id, b) PROVE FALSE
        OBVIOUS
      <4>1. j \in Typed("param", b) /\ accepted[j].id = e.id
        BY DEF OfParam
      <4> QED
        BY <1>4, <1>11, <4>1
    <3>2. Carried(<<>>, OfParam(e.id, b))
      BY <3>1, CarriedNone
    <3>3. Append(<<>>, e) = q
      OBVIOUS
    <3>4. Carried(Append(<<>>, e), OfParam(e.id, b + 1))
      BY <1>1, <1>2, <1>3, <1>5, <3>2, ParamTaken
    <3> QED
      BY <3>3, <3>4
  <2>5. ASSUME NEW m \in DOMAIN queues'
        PROVE  /\ queues'[m] # <<>> /\ Len(queues'[m]) <= b + 1
               /\ Carried(queues'[m], OfParam(queues'[m][1].id, b + 1))
    <3>1. CASE m = c
      <4>1. 1 <= b + 1
        BY <1>3
      <4> QED
        BY <2>2, <2>3, <2>4, <3>1, <4>1
    <3>2. CASE m \in DOMAIN queues
      <4>1. queues'[m] = queues[m] /\ queues[m] # <<>>
        BY <1>4, <2>3, <3>2
      <4>2. e.id # queues[m][1].id
        BY <1>11, <3>2
      <4>3. Len(queues[m]) \in 1..b
        BY <1>6, <3>2
      <4>4. Len(queues[m]) <= b + 1
        BY <1>3, <4>3
      <4> QED
        BY <1>6, <3>2, <4>1, <4>2, <4>4
    <3> QED
      BY <2>3, <3>1, <3>2
  <2>6. \A j \in Typed("param", b + 1) :
          \E m \in DOMAIN queues' : queues'[m][1].id = accepted[j].id
    <3> TAKE j \in Typed("param", b + 1)
    <3>1. CASE accepted[j] = e
      BY <2>2, <2>3, <3>1
    <3>2. CASE j \in Typed("param", b)
      <4>1. PICK m \in DOMAIN queues : queues[m][1].id = accepted[j].id
        BY <1>4, <3>2
      <4>2. m \in DOMAIN queues' /\ queues'[m] = queues[m]
        BY <2>3
      <4> QED
        BY <4>1, <4>2
    <3> QED
      BY <1>8, <3>1, <3>2
  <2>7. ASSUME NEW m \in DOMAIN queues', NEW l \in DOMAIN queues',
               queues'[l][1].id = queues'[m][1].id
        PROVE  l = m
    <3>1. CASE m = c /\ l = c
      BY <3>1
    <3>2. CASE m \in DOMAIN queues /\ l \in DOMAIN queues
      <4>1. queues'[m] = queues[m] /\ queues'[l] = queues[l]
        BY <2>3, <3>2
      <4> QED
        BY <1>4, <2>7, <3>2, <4>1
    <3>3. CASE m = c /\ l \in DOMAIN queues
      <4>1. queues'[l] = queues[l] /\ queues'[m][1] = e
        BY <2>2, <2>3, <3>3
      <4> QED
        BY <1>11, <2>7, <3>3, <4>1
    <3>4. CASE l = c /\ m \in DOMAIN queues
      <4>1. queues'[m] = queues[m] /\ queues'[l][1] = e
        BY <2>2, <2>3, <3>4
      <4> QED
        BY <1>11, <2>7, <3>4, <4>1
    <3> QED
      BY <2>3, <3>1, <3>2, <3>3, <3>4
  <2>8. Len(queues') <= b + 1
    BY <1>3, <1>4, <2>3
  <2>9. \A m \in DOMAIN queues' :
          /\ queues'[m] # <<>> /\ Len(queues'[m]) <= b + 1
          /\ Carried(queues'[m], OfParam(queues'[m][1].id, b + 1))
          /\ \A l \in DOMAIN queues' : queues'[l][1].id = queues'[m][1].id => l = m
    BY <2>5, <2>7
  <2>10. queues' \in Seq(Seq(Live!Event))
    BY <2>3
  <2> QED
    BY <1>9, <2>1, <2>6, <2>8, <2>9, <2>10
<1> QED
  BY <1>1, <1>10, <1>11 DEF Live!Vst3Param, Live!Now

LEMMA WriteInv == EventInv /\ Live!TryWrite => EventInv'
<1> SUFFICES ASSUME EventInv, Live!TryWrite PROVE EventInv'
  OBVIOUS
<1>1. PICK m \in 0..MaxEvents : \E es \in [1..m -> {e \in Live!Event : Live!Accepted(e)}] :
                                  accepted' = es
  BY DEF Live!TryWrite
<1>2. /\ kind' = kind /\ midi' = midi /\ pos' = 1 /\ queues' = <<>> /\ events' = <<>>
      /\ status' = "convert" /\ kind \in {"clap", "lv2", "vst3"}
  BY DEF Live!TryWrite, EventInv
<1>3. /\ accepted' \in Seq(Live!Event) /\ Len(accepted') = m /\ m \in Nat /\ m <= MaxEvents
      /\ \A i \in 1..m : Live!Accepted(accepted'[i])
  <2>1. m \in Nat /\ m <= MaxEvents
    BY EventBounds
  <2>2. /\ accepted' \in [1..m -> Live!Event]
        /\ \A i \in 1..m : Live!Accepted(accepted'[i])
    BY <1>1
  <2>3. accepted' \in Seq(Live!Event) /\ Len(accepted') = m
    BY <2>1, <2>2, IsASeq, LenProperties
  <2> QED
    BY <2>1, <2>2, <2>3
<1>4. \A e : Live!Accepted(e)' <=> Live!Accepted(e)
  BY <1>2 DEF Live!Accepted, Live!ParamOk, Live!MidiOk, Live!BlockParameters, Live!NotesOnly
<1>5. (\A i \in 1..Len(accepted) : Live!Accepted(accepted[i]))'
  BY <1>3, <1>4
<1>6. Converted'
  <2>1. (\A type : Typed(type, pos - 1) = {})'
    <3>1. pos' - 1 = 0
      BY <1>2
    <3>2. 1..0 = {}
      OBVIOUS
    <3> QED
      BY <3>1, <3>2 DEF Typed
  <2>2. /\ <<>> \in Seq(Live!Event) /\ Len(<<>>) = 0 /\ DOMAIN <<>> = {}
        /\ <<>> \in Seq(Seq(Live!Event)) /\ Cardinality({}) = 0
    BY FS_EmptySet
  <2>3. pos' - 1 = 0 /\ 1..pos' - 1 = {}
    BY <1>2
  <2>4. \A type : Carried(events, Typed(type, pos - 1))' /\ Carried(queues, Typed(type, pos - 1))'
    BY <1>2, <2>1, <2>2 DEF Carried
  <2>5. CASE kind = "clap"
    BY <1>2, <2>2, <2>3, <2>5 DEF Converted
  <2>6. CASE kind = "lv2"
    BY <1>2, <2>2, <2>3, <2>4, <2>6 DEF Converted
  <2>7. CASE kind = "vst3"
    BY <1>2, <2>1, <2>2, <2>3, <2>4, <2>7 DEF Converted
  <2> QED
    BY <1>2, <2>5, <2>6, <2>7
<1>7. pos' \in 1..Len(accepted') + 1
  BY <1>2, <1>3
<1> QED
  BY <1>2, <1>3, <1>5, <1>6, <1>7 DEF EventInv

LEMMA EventInvariance == PartSpec => []EventInv
<1>1. ASSUME PartInit PROVE EventInv
  BY <1>1 DEF PartInit, Live!Init, EventInv
<1>2. ASSUME EventInv, [PartNext]_<<part, vars, eventVars, templateVars, effectVars>>
      PROVE  EventInv'
  <2>1. CASE UNCHANGED eventVars
    <3>1. \A e : Live!Accepted(e)' <=> Live!Accepted(e)
      BY <2>1 DEF eventVars, Live!Accepted, Live!ParamOk, Live!MidiOk, Live!BlockParameters, Live!NotesOnly
    <3>2. Converted' <=> Converted
      BY <2>1, SamePlaces DEF eventVars, Converted
    <3> QED
      BY <1>2, <2>1, <3>1, <3>2 DEF eventVars, EventInv
  <2>2. CASE Live!Run
    <3>1. /\ UNCHANGED <<kind, midi, accepted, pos, queues, events>> /\ status = "convert"
          /\ status' = "ran" /\ ~(pos <= Len(accepted))
      BY <1>2, <2>2, LenProperties DEF Live!Run, Live!Done, EventInv
    <3>2. pos = Len(accepted) + 1
      BY <1>2, <3>1, LenProperties DEF EventInv
    <3>3. \A e : Live!Accepted(e)' <=> Live!Accepted(e)
      BY <3>1 DEF Live!Accepted, Live!ParamOk, Live!MidiOk, Live!BlockParameters, Live!NotesOnly
    <3>4. Converted' <=> Converted
      BY <3>1, SamePlaces DEF Converted
    <3> QED
      BY <1>2, <3>1, <3>2, <3>3, <3>4 DEF EventInv
  <2> QED
    BY <1>2, <2>1, <2>2, WriteInv, ClapInv, Lv2Inv, Vst3ParamInv, Vst3MidiInv
    DEF PartNext, Live!Next
<1> QED
  BY <1>1, <1>2, PTL DEF PartSpec

\* For any parameters, block size and number of events, and any atom buffer that
\* holds as many messages: what ap_live_try_write accepts never fails in an adapter
\* and reaches the plugin in order.
THEOREM AcceptedIsHeard == PartSpec => []AcceptedArrives
<1>1. ASSUME EventInv PROVE AcceptedArrives
  <2> SUFFICES ASSUME status = "ran" PROVE Live!AcceptedArrives
    BY <1>1 DEF AcceptedArrives, Live!AcceptedArrives, EventInv
  <2> PICK b : b = Len(accepted)
    OBVIOUS
  <2>1. /\ Len(accepted) = b /\ b \in Nat /\ pos - 1 = b /\ DOMAIN accepted = 1..b
        /\ accepted \in Seq(Live!Event) /\ Converted /\ kind \in {"clap", "lv2", "vst3"}
    BY <1>1, LenProperties DEF EventInv
  <2>2. ASSUME NEW q, NEW I, Carried(q, I) PROVE Live!Carries(q, I)
    BY <2>2, Cardinals DEF Carried, Live!Carries, Rank
  <2>3. /\ \A type : Live!Of(type) = Typed(type, b)
        /\ \A p : Live!Changes(p) = OfParam(p, b)
    BY <2>1 DEF Live!Of, Live!Changes, Typed, OfParam
  <2>4. CASE kind = "clap"
    <3>1. /\ events \in Seq(Live!Event) /\ Len(events) = b
          /\ \A i \in 1..b : events[i] = accepted[i]
      BY <2>1, <2>4 DEF Converted
    <3>2. events = accepted
      <4> DEFINE E == Live!Event
      <4>1. events \in Seq(E) /\ accepted \in Seq(E)
        BY <2>1, <3>1
      <4> HIDE DEF E
      <4> QED
        BY <2>1, <3>1, <4>1, SeqEqual
    <3> QED
      BY <1>1, <2>4, <3>2 DEF Live!AcceptedArrives
  <2>5. CASE kind = "lv2"
    <3>1. Carried(queues, Typed("param", b)) /\ Carried(events, Typed("midi", b))
      BY <2>1, <2>5 DEF Converted
    <3> QED
      BY <2>2, <2>3, <2>5, <3>1 DEF Live!AcceptedArrives
  <2>6. CASE kind = "vst3"
    <3>1. /\ Carried(events, Typed("midi", b))
          /\ \A i \in Typed("param", b) : \E m \in DOMAIN queues : queues[m][1].id = accepted[i].id
          /\ \A m \in DOMAIN queues :
               /\ Carried(queues[m], OfParam(queues[m][1].id, b))
               /\ \A l \in DOMAIN queues : queues[l][1].id = queues[m][1].id => l = m
      BY <2>1, <2>6 DEF Converted
    <3>2. /\ Live!Carries(events, Live!Of("midi"))
          /\ \A i \in Live!Of("param") : \E m \in DOMAIN queues : queues[m][1].id = accepted[i].id
          /\ \A m \in DOMAIN queues :
               /\ Live!Carries(queues[m], Live!Changes(queues[m][1].id))
               /\ \A l \in DOMAIN queues : queues[l][1].id = queues[m][1].id => l = m
      BY <2>2, <2>3, <3>1
    <3> QED
      BY <2>6, <3>2 DEF Live!AcceptedArrives
  <2> QED
    BY <2>1, <2>4, <2>5, <2>6
<1> QED
  BY <1>1, EventInvariance, PTL

=============================================================================
