------------------------- MODULE LiveRings_proofs --------------------------
(***************************************************************************)
(* The rings of a live session are FIFO queues, for any length, any width  *)
(* of their indices and any blocks, and lose no more ticks than they       *)
(* count.                                                                  *)
(***************************************************************************)
EXTENDS LiveEngine, Integers, SequenceTheorems, TLAPS

---------------------------------------------------------------------------
(* Remainders, which the provers know little about.                        *)

LEMMA DivMod ==
  ASSUME NEW Q \in Nat \ {0}, NEW x \in Nat
  PROVE  x % Q \in 0..Q - 1 /\ x \div Q \in Int /\ x = (x \div Q) * Q + (x % Q)
<1>1. x % Q \in 0..Q - 1 /\ x \div Q \in Int
  OBVIOUS
<1>2. x = Q * (x \div Q) + (x % Q)
  OBVIOUS
<1>3. x = (x \div Q) * Q + (x % Q)
  BY <1>1, <1>2
<1> QED
  BY <1>1, <1>3

LEMMA MultiplesApart ==
  ASSUME NEW Q \in Nat \ {0}, NEW a \in Int, NEW b \in Int, a < b
  PROVE  b * Q - a * Q >= Q
<1>1. (b - a) * Q >= Q
  OBVIOUS
<1> QED
  BY <1>1

LEMMA RemainderUnique ==
  ASSUME NEW Q \in Nat \ {0}, NEW a \in Int, NEW r \in 0..Q - 1, NEW x \in Nat, x = a * Q + r
  PROVE  x % Q = r
<1> DEFINE b == x \div Q
           c == x % Q
           A == a * Q
           B == b * Q
<1>a. c \in 0..Q - 1 /\ b \in Int /\ x = b * Q + c
  BY DivMod
<1> HIDE DEF b, c
<1>1. A + r = B + c /\ A \in Int /\ B \in Int /\ c \in 0..Q - 1 /\ b \in Int
  BY <1>a
<1>2. CASE a = b
  BY <1>1, <1>2
<1>3. CASE a < b
  <2>1. B - A >= Q
    BY <1>1, <1>3, MultiplesApart
  <2> QED
    BY <1>1, <2>1
<1>4. CASE b < a
  <2>1. A - B >= Q
    BY <1>1, <1>4, MultiplesApart
  <2> QED
    BY <1>1, <2>1
<1>5. r = c
  BY <1>1, <1>2, <1>3, <1>4
<1> QED
  BY <1>5 DEF c

LEMMA SmallRemainder ==
  ASSUME NEW Q \in Nat \ {0}, NEW x \in 0..2 * Q - 1
  PROVE  x % Q = IF x < Q THEN x ELSE x - Q
  OBVIOUS

LEMMA RemainderOfSum ==
  ASSUME NEW Q \in Nat \ {0}, NEW n \in Nat, NEW x \in Nat
  PROVE  (x + n * Q) % Q = x % Q
<1> DEFINE r == x % Q
           y == x + n * Q
           q == (x \div Q) + n
<1>1. r \in 0..Q - 1 /\ x \div Q \in Int /\ x = (x \div Q) * Q + r
  BY DivMod
<1>2. y = q * Q + r
  BY <1>1
<1>3. y \in Nat /\ q \in Int
  BY <1>1
<1> HIDE DEF r, y, q
<1>4. y % Q = r
  BY <1>1, <1>2, <1>3, RemainderUnique
<1> QED
  BY <1>4 DEF r, y

LEMMA RemaindersDiffer ==
  ASSUME NEW Q \in Nat \ {0}, NEW x \in Nat, NEW j \in 1..Q - 1
  PROVE  (x + j) % Q # x % Q
<1> DEFINE r == x % Q
           q == x \div Q
           y == x + j
<1>1. r \in 0..Q - 1 /\ q \in Int /\ x = q * Q + r /\ y \in Nat
  BY DivMod
<1>2. CASE r + j < Q
  <2> DEFINE c == r + j
  <2>1. y = q * Q + c /\ c \in 0..Q - 1
    BY <1>1, <1>2
  <2> HIDE DEF r, y, q, c
  <2>2. y % Q = c
    BY <1>1, <2>1, RemainderUnique
  <2> QED
    BY <1>1, <2>2 DEF r, y, c
<1>3. CASE r + j >= Q
  <2> DEFINE c == r + j - Q
             p == q + 1
  <2>1. y = p * Q + c /\ c \in 0..Q - 1 /\ p \in Int
    BY <1>1, <1>3
  <2> HIDE DEF r, y, q, c, p
  <2>2. y % Q = c
    BY <1>1, <2>1, RemainderUnique
  <2> QED
    BY <1>1, <2>2 DEF r, y, c
<1> QED
  BY <1>1, <1>2, <1>3

---------------------------------------------------------------------------
(* Slots and indices.                                                      *)

LEMMA Sizes ==
  QueueBlocks \in Nat \ {0} /\ Wrap \in Nat /\ QueueBlocks < Wrap
<1>1. PICK n \in 2..Wrap : Wrap = n * QueueBlocks
  BY QueueAssumption
<1>2. QueueBlocks \in Nat \ {0} /\ Wrap \in Nat
  BY QueueAssumption
<1> HIDE DEF Wrap
<1>3. n * QueueBlocks >= 2 * QueueBlocks
  BY <1>2
<1> QED
  BY <1>1, <1>2, <1>3

\* An index that wraps stays in its slot.
LEMMA SlotWraps ==
  ASSUME NEW x \in Nat
  PROVE  Slot(x + Wrap) = Slot(x)
<1>1. PICK n \in 2..Wrap : Wrap = n * QueueBlocks
  BY QueueAssumption
<1>2. n \in Nat
  BY QueueAssumption
<1> QED
  BY <1>1, <1>2, QueueAssumption, RemainderOfSum DEF Slot

LEMMA SlotsDiffer ==
  ASSUME NEW x \in Nat, NEW i \in 0..QueueBlocks - 1, NEW j \in 0..QueueBlocks - 1, i # j
  PROVE  Slot(x + i) # Slot(x + j)
<1>1. ASSUME NEW a \in 0..QueueBlocks - 1, NEW b \in 0..QueueBlocks - 1, a < b
      PROVE  Slot(x + a) # Slot(x + b)
  <2> DEFINE y == x + a
             d == b - a
  <2>1. y \in Nat /\ d \in 1..QueueBlocks - 1 /\ x + b = y + d
    BY <1>1, Sizes
  <2> HIDE DEF y, d
  <2>2. (y + d) % QueueBlocks # y % QueueBlocks
    BY <2>1, Sizes, RemaindersDiffer
  <2> QED
    BY <2>1, <2>2 DEF Slot, y
<1>2. i < j \/ j < i
  BY Sizes
<1> QED
  BY <1>1, <1>2

Ring(r) ==
  /\ r = [read |-> r.read, write |-> r.write, slots |-> r.slots]
  /\ r.read \in 0..Wrap - 1 /\ r.write \in 0..Wrap - 1
  /\ r.slots = [i \in 0..QueueBlocks - 1 |-> r.slots[i]]
  /\ Filled(r) <= QueueBlocks

LEMMA RingFields ==
  ASSUME NEW r, Ring(r)
  PROVE  \E i, j, f : r = [read |-> i, write |-> j, slots |-> [x \in 0..QueueBlocks - 1 |-> f[x]]]
  BY DEF Ring

LEMMA FilledIs ==
  ASSUME NEW r, r.read \in 0..Wrap - 1, r.write \in 0..Wrap - 1
  PROVE  /\ Filled(r) \in 0..Wrap - 1
         /\ Filled(r) = IF r.write >= r.read THEN r.write - r.read
                        ELSE r.write - r.read + Wrap
<1> DEFINE d == r.write + Wrap - r.read
<1>1. /\ d \in 0..2 * Wrap - 1 /\ Wrap \in Nat \ {0} /\ r.write \in Int /\ r.read \in Int
      /\ d < Wrap <=> r.write < r.read
  BY Sizes
<1> HIDE DEF Wrap, d
<1>2. Filled(r) = IF d < Wrap THEN d ELSE d - Wrap
  BY <1>1, SmallRemainder DEF Filled, d
<1> QED
  BY <1>1, <1>2 DEF d

LEMMA NextIndex ==
  ASSUME NEW x \in 0..Wrap - 1
  PROVE  (x + 1) % Wrap = IF x = Wrap - 1 THEN 0 ELSE x + 1
<1> HIDE DEF Wrap
<1> QED
  BY Sizes

LEMMA SlotType ==
  ASSUME NEW x \in Nat
  PROVE  Slot(x) \in 0..QueueBlocks - 1
  BY Sizes DEF Slot

\* Where the writer writes is just behind what is in the ring.
LEMMA WriteSlot ==
  ASSUME NEW r, Ring(r)
  PROVE  Slot(r.write) = Slot(r.read + Filled(r))
<1>1. CASE r.write >= r.read
  BY <1>1, FilledIs, Sizes DEF Ring
<1>2. CASE r.write < r.read
  <2>1. r.read + Filled(r) = r.write + Wrap /\ r.write \in Nat
    BY <1>2, FilledIs, Sizes DEF Ring
  <2> QED
    BY <2>1, SlotWraps
<1> QED
  BY <1>1, <1>2, Sizes DEF Ring

\* While there is room it holds none of the blocks that wait.
LEMMA WriteSlotIsFree ==
  ASSUME NEW r, Ring(r), Filled(r) # QueueBlocks, NEW i \in 1..Filled(r)
  PROVE  Slot(r.read + i - 1) # Slot(r.write)
<1>1. Filled(r) \in 0..QueueBlocks - 1 /\ i - 1 \in 0..QueueBlocks - 1 /\ i - 1 # Filled(r)
  BY FilledIs, Sizes DEF Ring
<1>2. r.read \in Nat /\ r.read + i - 1 = r.read + (i - 1)
  BY FilledIs, Sizes DEF Ring
<1> HIDE DEF Filled
<1> QED
  BY <1>1, <1>2, WriteSlot, SlotsDiffer

---------------------------------------------------------------------------
(* What each operation makes of the contents.                              *)

LEMMA ContentsAre ==
  ASSUME NEW r, Ring(r)
  PROVE  /\ Filled(r) \in Nat
         /\ Contents(r) = [i \in 1..Filled(r) |-> r.slots[Slot(r.read + i - 1)]]
         /\ DOMAIN Contents(r) = 1..Filled(r)
         /\ Filled(r) > 0 => Contents(r)[1] = Oldest(r)
<1>1. Filled(r) \in Nat /\ r.read \in Nat
  BY FilledIs, Sizes DEF Ring
<1>2. r.read + 1 - 1 = r.read
  BY <1>1
<1> QED
  BY <1>1, <1>2 DEF Contents, Oldest

LEMMA ContentsSeq ==
  ASSUME NEW r, Ring(r), NEW S, \A i \in 1..Filled(r) : Contents(r)[i] \in S
  PROVE  /\ Contents(r) \in Seq(S) /\ Len(Contents(r)) = Filled(r)
<1>1. Contents(r) \in [1..Filled(r) -> S] /\ Filled(r) \in Nat
  BY ContentsAre
<1>2. Contents(r) \in Seq(S)
  BY <1>1, SeqDef
<1> QED
  BY <1>1, <1>2, LenProperties

LEMMA EmptyContents ==
  ASSUME NEW r, r.read \in 0..Wrap - 1, r.write = r.read
  PROVE  Filled(r) = 0 /\ Contents(r) = <<>>
<1>1. Filled(r) = 0
  BY FilledIs, Sizes
<1> QED
  BY <1>1 DEF Contents

\* A block that is being copied is not there yet.
LEMMA CopyContents ==
  ASSUME NEW r, Ring(r), Filled(r) # QueueBlocks, NEW t
  PROVE  /\ Ring(BeginCopy(r, t)) /\ Filled(BeginCopy(r, t)) = Filled(r)
         /\ Contents(BeginCopy(r, t)) = Contents(r)
<1> DEFINE q == BeginCopy(r, t)
<1>1. /\ q = [read |-> r.read, write |-> r.write, slots |-> q.slots]
      /\ q.slots = [i \in 0..QueueBlocks - 1 |-> q.slots[i]]
      /\ \A i \in 0..QueueBlocks - 1 : i # Slot(r.write) => q.slots[i] = r.slots[i]
  <2>1. q = [r EXCEPT !.slots = [r.slots EXCEPT ![Slot(r.write)] = t]]
    BY DEF BeginCopy
  <2>2. q.slots = [r.slots EXCEPT ![Slot(r.write)] = t]
    BY <2>1 DEF Ring
  <2>3. q = [read |-> r.read, write |-> r.write, slots |-> q.slots]
    BY <2>1 DEF Ring
  <2>4. DOMAIN r.slots = 0..QueueBlocks - 1
    BY DEF Ring
  <2> HIDE DEF q
  <2> QED
    BY <2>2, <2>3, <2>4
<1>2. Filled(q) = Filled(r)
  BY <1>1 DEF Filled
<1>3. \A i \in 1..Filled(r) : q.slots[Slot(r.read + i - 1)] = r.slots[Slot(r.read + i - 1)]
  <2> TAKE i \in 1..Filled(r)
  <2>1. Slot(r.read + i - 1) # Slot(r.write)
    BY WriteSlotIsFree
  <2>2. r.read + i - 1 \in Nat
    BY FilledIs, Sizes DEF Ring
  <2> HIDE DEF q
  <2> QED
    BY <1>1, <2>1, <2>2, SlotType
<1> HIDE DEF q
<1>4. Contents(q) = Contents(r)
  BY <1>1, <1>2, <1>3 DEF Contents
<1>5. Ring(q)
  BY <1>1, <1>2 DEF Ring
<1> QED
  BY <1>2, <1>4, <1>5 DEF q

\* The distance from index x up to index w, and to the index after w.
LEMMA OneFurther ==
  ASSUME NEW m \in Nat, NEW x \in 0..m - 1, NEW w \in 0..m - 1, NEW n, n + 1 \in 1..m - 1,
         n = IF w >= x THEN w - x ELSE w - x + m,
         NEW v, v = IF w = m - 1 THEN 0 ELSE w + 1
  PROVE  (IF v >= x THEN v - x ELSE v - x + m) = n + 1
<1>1. CASE w = m - 1
  <2>1. v = 0 /\ w >= x /\ n = m - 1 - x
    BY <1>1
  <2> QED
    BY <2>1
<1>2. CASE w # m - 1
  <2>1. v = w + 1
    BY <1>2
  <2>2. CASE w >= x
    BY <2>1, <2>2
  <2>3. CASE w < x
    <3>1. n = w - x + m /\ w + 1 # x
      BY <2>3
    <3> QED
      BY <2>1, <2>3, <3>1
  <2> QED
    BY <2>2, <2>3
<1> QED
  BY <1>1, <1>2

\* The distance to w from index x, and from the index after x.
LEMMA OneNearer ==
  ASSUME NEW m \in Nat, NEW x \in 0..m - 1, NEW w \in 0..m - 1, NEW n, n # 0,
         n = IF w >= x THEN w - x ELSE w - x + m,
         NEW v, v = IF x = m - 1 THEN 0 ELSE x + 1
  PROVE  (IF w >= v THEN w - v ELSE w - v + m) = n - 1
<1>1. CASE x = m - 1
  <2>1. v = 0 /\ w < x /\ n = w - x + m
    BY <1>1
  <2> QED
    BY <1>1, <2>1
<1>2. CASE x # m - 1
  <2>1. v = x + 1
    BY <1>2
  <2>2. CASE w >= x
    <3>1. n = w - x /\ w >= x + 1
      BY <2>2
    <3> QED
      BY <2>1, <3>1
  <2>3. CASE w < x
    BY <2>1, <2>3
  <2> QED
    BY <2>2, <2>3
<1> QED
  BY <1>1, <1>2

\* A published block is the newest.
LEMMA PublishContents ==
  ASSUME NEW r, Ring(r), Filled(r) # QueueBlocks, NEW b, NEW S, b \in S,
         Contents(r) \in Seq(S)
  PROVE  /\ Ring(Publish(r, b)) /\ Filled(Publish(r, b)) = Filled(r) + 1
         /\ Contents(Publish(r, b)) = Append(Contents(r), b)
<1> DEFINE q == Publish(r, b)
           n == Filled(r)
<1>1. /\ q = [read |-> r.read, write |-> q.write, slots |-> q.slots]
      /\ q.write = (r.write + 1) % Wrap
      /\ q.slots = [i \in 0..QueueBlocks - 1 |-> q.slots[i]]
      /\ \A i \in 0..QueueBlocks - 1 : q.slots[i] = IF i = Slot(r.write) THEN b ELSE r.slots[i]
  <2>1. q = [[r EXCEPT !.slots = [r.slots EXCEPT ![Slot(r.write)] = b]]
               EXCEPT !.write = (r.write + 1) % Wrap]
    BY DEF Publish
  <2>2. q.slots = [r.slots EXCEPT ![Slot(r.write)] = b] /\ q.write = (r.write + 1) % Wrap
    BY <2>1 DEF Ring
  <2>3. q = [read |-> r.read, write |-> q.write, slots |-> q.slots]
    BY <2>1 DEF Ring
  <2>4. DOMAIN r.slots = 0..QueueBlocks - 1
    BY DEF Ring
  <2> HIDE DEF q
  <2> QED
    BY <2>2, <2>3, <2>4
<1> HIDE DEF q
<1>2. /\ q.read = r.read /\ r.read \in 0..Wrap - 1 /\ r.write \in 0..Wrap - 1
      /\ q.write = IF r.write = Wrap - 1 THEN 0 ELSE r.write + 1
      /\ n \in 0..QueueBlocks - 1
  <2>1. q.read = r.read /\ r.read \in 0..Wrap - 1 /\ r.write \in 0..Wrap - 1
    BY <1>1 DEF Ring
  <2>2. n \in 0..QueueBlocks - 1
    BY <2>1, FilledIs, Sizes DEF Ring
  <2> QED
    BY <1>1, <2>1, <2>2, NextIndex
<1>3. q.write \in 0..Wrap - 1
  <2> HIDE DEF Wrap, n
  <2> QED
    BY <1>2, Sizes
<1>4. Filled(q) = n + 1
  <2>1. n = IF r.write >= r.read THEN r.write - r.read ELSE r.write - r.read + Wrap
    BY <1>2, FilledIs
  <2>2. Filled(q) = IF q.write >= q.read THEN q.write - q.read ELSE q.write - q.read + Wrap
    BY <1>2, <1>3, FilledIs
  <2>3. /\ n + 1 \in 1..Wrap - 1 /\ r.read \in 0..Wrap - 1 /\ r.write \in 0..Wrap - 1
        /\ q.read = r.read /\ Wrap \in Nat
    BY <1>2, Sizes
  <2>4. q.write = IF r.write = Wrap - 1 THEN 0 ELSE r.write + 1
    BY <1>2
  <2> HIDE DEF Wrap, n
  <2> QED
    BY <2>1, <2>2, <2>3, <2>4, OneFurther
<1>5. \A i \in 1..n : q.slots[Slot(r.read + i - 1)] = Contents(r)[i]
  <2> TAKE i \in 1..n
  <2>1. Slot(r.read + i - 1) # Slot(r.write)
    BY WriteSlotIsFree
  <2>2. r.read + i - 1 \in Nat
    BY <1>2, Sizes
  <2> QED
    BY <1>1, <2>1, <2>2, SlotType, ContentsAre
<1>6. q.slots[Slot(r.read + (n + 1) - 1)] = b
  <2>1. r.read + (n + 1) - 1 = r.read + n /\ r.write \in Nat
    BY <1>2, Sizes
  <2> HIDE DEF n
  <2> QED
    BY <1>1, <2>1, WriteSlot, SlotType DEF n
<1>7. Len(Contents(r)) = n
  BY ContentsAre, LenProperties, <1>2
<1> DEFINE a == Append(Contents(r), b)
<1>8. /\ Len(a) = n + 1 /\ DOMAIN a = 1..n + 1
      /\ \A i \in 1..n : a[i] = Contents(r)[i]
      /\ a[n + 1] = b
  BY <1>7, AppendProperties, LenProperties
<1>9. a = [i \in 1..n + 1 |-> a[i]]
  BY <1>8, AppendProperties, LenProperties
<1>10. Contents(q) = [i \in 1..n + 1 |-> q.slots[Slot(r.read + i - 1)]]
  BY <1>2, <1>4 DEF Contents
<1>11. \A i \in 1..n + 1 : q.slots[Slot(r.read + i - 1)] = a[i]
  <2> HIDE DEF n, a
  <2>1. \A i \in 1..n + 1 : i \in 1..n \/ i = n + 1
    BY <1>2, Sizes
  <2> QED
    BY <1>5, <1>6, <1>8, <2>1
<1>12. Contents(q) = a
  <2> HIDE DEF n, a
  <2> QED
    BY <1>9, <1>10, <1>11
<1>13. Ring(q)
  <2> HIDE DEF Wrap, n
  <2> QED
    BY <1>1, <1>2, <1>3, <1>4, Sizes DEF Ring
<1> QED
  BY <1>4, <1>12, <1>13 DEF q

\* The oldest block goes first.
LEMMA ReleaseContents ==
  ASSUME NEW r, Ring(r), Filled(r) # 0, NEW S, Contents(r) \in Seq(S)
  PROVE  /\ Ring(ReleaseOldest(r)) /\ Filled(ReleaseOldest(r)) = Filled(r) - 1
         /\ Contents(r) # <<>> /\ Head(Contents(r)) = Oldest(r)
         /\ Contents(ReleaseOldest(r)) = Tail(Contents(r))
<1> DEFINE q == ReleaseOldest(r)
           n == Filled(r)
<1>1. /\ q = [read |-> q.read, write |-> r.write, slots |-> r.slots]
      /\ q.read = (r.read + 1) % Wrap
  BY RingFields DEF ReleaseOldest
<1> HIDE DEF q
<1>2. /\ q.write = r.write /\ r.read \in 0..Wrap - 1 /\ r.write \in 0..Wrap - 1
      /\ q.read = IF r.read = Wrap - 1 THEN 0 ELSE r.read + 1
      /\ n \in 1..QueueBlocks
  <2>1. q.write = r.write /\ r.read \in 0..Wrap - 1 /\ r.write \in 0..Wrap - 1
    BY <1>1 DEF Ring
  <2>2. n \in 1..QueueBlocks
    BY <2>1, FilledIs, Sizes DEF Ring
  <2> QED
    BY <1>1, <2>1, <2>2, NextIndex
<1>3. q.read \in 0..Wrap - 1
  <2> HIDE DEF Wrap, n
  <2> QED
    BY <1>2, Sizes
<1>4. Filled(q) = n - 1
  <2>1. n = IF r.write >= r.read THEN r.write - r.read ELSE r.write - r.read + Wrap
    BY <1>2, FilledIs
  <2>2. Filled(q) = IF q.write >= q.read THEN q.write - q.read ELSE q.write - q.read + Wrap
    BY <1>2, <1>3, FilledIs
  <2>3. /\ Wrap \in Nat /\ r.read \in 0..Wrap - 1 /\ r.write \in 0..Wrap - 1
        /\ q.write = r.write /\ n # 0
        /\ q.read = IF r.read = Wrap - 1 THEN 0 ELSE r.read + 1
    BY <1>2, Sizes
  <2> HIDE DEF Wrap, n
  <2> QED
    BY <2>1, <2>2, <2>3, OneNearer
<1>5. \A i \in 1..n - 1 : Slot(q.read + i - 1) = Slot(r.read + (i + 1) - 1)
  <2> TAKE i \in 1..n - 1
  <2>1. CASE r.read # Wrap - 1
    <3>1. q.read + i - 1 = r.read + (i + 1) - 1
      BY <1>2, <2>1, Sizes
    <3> QED
      BY <3>1
  <2>2. CASE r.read = Wrap - 1
    <3>1. q.read + i - 1 \in Nat /\ r.read + (i + 1) - 1 = (q.read + i - 1) + Wrap
      BY <1>2, <2>2, Sizes
    <3> QED
      BY <3>1, SlotWraps
  <2> QED
    BY <2>1, <2>2
<1>6. /\ Contents(r) # <<>> /\ Len(Contents(r)) = n
      /\ Head(Contents(r)) = Oldest(r)
  <2>1. Len(Contents(r)) = n
    BY ContentsAre, LenProperties, <1>2
  <2> QED
    BY <2>1, <1>2, Sizes, ContentsAre, EmptySeq
<1> DEFINE a == Tail(Contents(r))
<1>7. /\ a \in Seq(S) /\ Len(a) = n - 1 /\ DOMAIN a = 1..n - 1
      /\ \A i \in 1..n - 1 : a[i] = Contents(r)[i + 1]
  BY <1>6, HeadTailProperties, LenProperties
<1>8. a = [i \in 1..n - 1 |-> a[i]]
  BY <1>7, LenProperties
<1>9. Contents(q) = [i \in 1..n - 1 |-> r.slots[Slot(q.read + i - 1)]]
  BY <1>1, <1>4 DEF Contents
<1>10. \A i \in 1..n - 1 : r.slots[Slot(q.read + i - 1)] = a[i]
  <2> TAKE i \in 1..n - 1
  <2>1. i + 1 \in 1..n
    BY <1>2, Sizes
  <2> QED
    BY <1>5, <1>7, <2>1, ContentsAre
<1>11. Contents(q) = a
  <2> HIDE DEF n, a
  <2> QED
    BY <1>8, <1>9, <1>10
<1>12. Ring(q)
  <2> HIDE DEF Wrap, n
  <2> QED
    BY <1>1, <1>2, <1>3, <1>4, Sizes DEF Ring, n
<1> QED
  BY <1>4, <1>6, <1>11, <1>12 DEF q

---------------------------------------------------------------------------
(* The invariant of both rings.                                            *)

\* The blocks that wait are whole.
InputHolds ==
  /\ Ring(input) /\ Contents(input) \in Seq(Payloads)
  /\ sent \in Payloads /\ consumed \in Payloads /\ block \in Payloads \cup {None}
  /\ control = "write" => Filled(input) # QueueBlocks
  /\ audio = "release" => Filled(input) # 0 /\ block = Oldest(input)

OutputHolds ==
  /\ Ring(output) /\ Contents(output) \in Seq(OutputBlocks) /\ read \in OutputBlocks
  /\ tick \in 0..MaxTick /\ (audio # "idle" => tick < MaxTick)
  /\ audio = "publish" => Filled(output) # QueueBlocks
  /\ control = "read" => Filled(output) # 0 /\ copied = Oldest(output)

\* Every tick since a block's own published one or was an overrun, and every tick
\* since the block returned last waits or was lost.
Gaps ==
  /\ overruns \in Nat /\ delivered \in Nat /\ discarded \in Nat
  /\ tick = delivered + Len(Contents(output)) + overruns + discarded
  /\ \A i \in 1..Len(Contents(output)) :
       /\ Contents(output)[i].tick < tick
       /\ tick - Contents(output)[i].tick <= overruns + 1 + Len(Contents(output)) - i
       /\ tick - Contents(output)[i].tick >= 1 + Len(Contents(output)) - i
       /\ delivered > 0 => read.tick < Contents(output)[i].tick
       /\ \A j \in 1..Len(Contents(output)) :
            i < j => Contents(output)[i].tick < Contents(output)[j].tick
  /\ delivered > 0 =>
       /\ read.tick < tick
       /\ tick - read.tick <= overruns + discarded + 1 + Len(Contents(output))

IInv == InputHolds /\ OutputHolds /\ Gaps

LEMMA EmptyRing ==
  ASSUME NEW b
  PROVE  Ring(Empty(b)) /\ Filled(Empty(b)) = 0 /\ Contents(Empty(b)) = <<>>
<1> DEFINE r == Empty(b)
<1>1. r = [read |-> 0, write |-> 0, slots |-> [i \in 0..QueueBlocks - 1 |-> b]]
  BY DEF Empty
<1>2. r.read \in 0..Wrap - 1 /\ r.write = r.read
  BY <1>1, Sizes
<1> HIDE DEF r
<1>3. Filled(r) = 0 /\ Contents(r) = <<>>
  BY <1>2, EmptyContents
<1>4. Ring(r)
  BY <1>1, <1>2, <1>3, Sizes DEF Ring
<1> QED
  BY <1>3, <1>4 DEF r

LEMMA ClearedRing ==
  ASSUME NEW r, Ring(r)
  PROVE  Ring(Clear(r)) /\ Filled(Clear(r)) = 0 /\ Contents(Clear(r)) = <<>>
<1> DEFINE q == Clear(r)
<1>1. q = [read |-> 0, write |-> 0, slots |-> q.slots] /\ q.slots = r.slots
  <2>1. PICK i, j, f : r = [read |-> i, write |-> j, slots |-> [x \in 0..QueueBlocks - 1 |-> f[x]]]
    BY RingFields
  <2>2. q = [[r EXCEPT !.read = 0] EXCEPT !.write = 0]
    BY DEF Clear
  <2>3. q = [read |-> 0, write |-> 0, slots |-> r.slots]
    BY <2>1, <2>2
  <2> HIDE DEF q
  <2> QED
    BY <2>3
<1> HIDE DEF q
<1>2. q.read \in 0..Wrap - 1 /\ q.write = q.read
  BY <1>1, Sizes
<1>3. Filled(q) = 0 /\ Contents(q) = <<>>
  BY <1>2, EmptyContents
<1>4. Ring(q)
  BY <1>1, <1>2, <1>3, Sizes DEF Ring
<1> QED
  BY <1>3, <1>4 DEF q

LEMMA InitInv == Init => IInv
<1> SUFFICES ASSUME Init PROVE IInv
  OBVIOUS
<1>1. PICK b \in Payloads : input = Empty(b) /\ sent = b /\ consumed = b
  BY DEF Init
<1>2. InputHolds
  BY <1>1, EmptyRing, EmptySeq DEF Init, InputHolds
<1>3. OutputHolds
  <2>1. NoBlock \in OutputBlocks /\ 0 \in 0..MaxTick
    BY QueueAssumption DEF NoBlock, Output, OutputBlocks
  <2> QED
    BY <2>1, EmptyRing, EmptySeq DEF Init, OutputHolds
<1>4. Gaps
  BY EmptyRing, EmptySeq DEF Init, Gaps
<1> QED
  BY <1>2, <1>3, <1>4 DEF IInv

\* What a step may do to the input ring: what BlockFifo says.
LEMMA InputStep ==
  ASSUME InputHolds, [Next]_vars
  PROVE  InputHolds' /\ [In!Next]_<<Contents(input), consumed>>
<1> USE DEF InputHolds
<1>1. CASE Start \/ Read \/ ReadStore \/ ProcessPlugin \/ ProcessOutput \/ ProcessPublish \/ UNCHANGED vars
  <2>1. /\ UNCHANGED <<input, sent, consumed, block>>
        /\ control' = "write" => control = "write"
        /\ audio' = "release" => audio = "release"
    BY <1>1 DEF Start, Running, Read, ReadStore, ProcessPlugin, ProcessOutput, ProcessPublish, vars
  <2> QED
    BY <2>1
<1>2. CASE Stop
  <2>1. input' = Clear(input) /\ UNCHANGED <<sent, consumed, block, audio, control>>
    BY <1>2 DEF Stop, Reset
  <2>2. Ring(input') /\ Contents(input') = <<>>
    BY <2>1, ClearedRing
  <2>3. InputHolds'
    BY <1>2, <2>1, <2>2, EmptySeq DEF Stop, Reset
  <2>4. In!Discard
    BY <2>1, <2>2 DEF In!Discard
  <2> QED
    BY <2>3, <2>4 DEF In!Next
<1>3. CASE Write
  <2>1. /\ input' = BeginCopy(input, Torn) /\ Filled(input) # QueueBlocks /\ sent' \in Payloads
        /\ UNCHANGED <<consumed, block, audio>>
    BY <1>3 DEF Write
  <2>2. Ring(input') /\ Filled(input') = Filled(input) /\ Contents(input') = Contents(input)
    BY <2>1, CopyContents
  <2>3. Filled(input) # 0 => Oldest(input') = Oldest(input)
    BY <2>2, ContentsAre
  <2> QED
    BY <2>1, <2>2, <2>3
<1>4. CASE WriteStore
  <2>1. /\ input' = Publish(input, sent) /\ Filled(input) # QueueBlocks
        /\ control' = "idle" /\ UNCHANGED <<consumed, block, audio, sent>>
    BY <1>4 DEF WriteStore
  <2>2. /\ Ring(input') /\ Filled(input') = Filled(input) + 1
        /\ Contents(input') = Append(Contents(input), sent)
    BY <2>1, PublishContents
  <2>3. Len(Contents(input)) = Filled(input) /\ Filled(input) \in Nat /\ Filled(input) < QueueBlocks
    BY <2>1, ContentsAre, LenProperties, Sizes DEF Ring
  <2>4. Contents(input') \in Seq(Payloads)
    BY <2>2, AppendProperties
  <2>5. Filled(input) # 0 => Oldest(input') = Oldest(input)
    BY <2>2, <2>3, ContentsAre, AppendProperties
  <2>6. In!Put
    BY <2>1, <2>2, <2>3 DEF In!Put
  <2>7. InputHolds'
    BY <2>1, <2>2, <2>3, <2>4, <2>5
  <2> QED
    BY <2>6, <2>7 DEF In!Next
<1>5. CASE Process
  <2>1. CASE Filled(input) = 0
    BY <1>5, <2>1 DEF Process
  <2>2. CASE Filled(input) # 0
    <3>1. Oldest(input) \in Payloads
      BY <2>2, ReleaseContents, HeadTailProperties
    <3> QED
      BY <1>5, <2>2, <3>1 DEF Process
  <2> QED
    BY <2>1, <2>2
<1>6. CASE ProcessRelease
  <2>1. /\ input' = ReleaseOldest(input) /\ Filled(input) # 0 /\ consumed' = Oldest(input)
        /\ audio' = "plugin" /\ UNCHANGED <<block, sent, control>>
    BY <1>6 DEF ProcessRelease
  <2>2. /\ Ring(input') /\ Filled(input') = Filled(input) - 1
        /\ Contents(input) # <<>> /\ Head(Contents(input)) = Oldest(input)
        /\ Contents(input') = Tail(Contents(input))
    BY <2>1, ReleaseContents
  <2>3. Contents(input') \in Seq(Payloads) /\ consumed' \in Payloads
    BY <2>1, <2>2, HeadTailProperties
  <2>4. Filled(input') # QueueBlocks
    <3>1. Filled(input) \in Nat /\ Filled(input) <= QueueBlocks
      BY ContentsAre DEF Ring
    <3> QED
      BY <2>2, <3>1, Sizes
  <2>5. In!Take
    BY <2>1, <2>2 DEF In!Take
  <2>6. InputHolds'
    BY <2>1, <2>2, <2>3, <2>4
  <2> QED
    BY <2>5, <2>6 DEF In!Next
<1> QED
  BY <1>1, <1>2, <1>3, <1>4, <1>5, <1>6 DEF Next

\* The same of the output ring.
LEMMA OutputStep ==
  ASSUME OutputHolds, block \in Payloads \cup {None}, [Next]_vars
  PROVE  OutputHolds' /\ [Out!Next]_<<Contents(output), read>>
<1> USE DEF OutputHolds
<1>1. CASE Start \/ Write \/ WriteStore \/ ProcessRelease \/ ProcessPlugin \/ UNCHANGED vars
  <2>1. /\ UNCHANGED <<output, read, copied, tick>>
        /\ audio' # "idle" => audio # "idle"
        /\ audio' = "publish" => audio = "publish"
        /\ control' = "read" => control = "read"
    BY <1>1 DEF Start, Running, Write, WriteStore, ProcessRelease, ProcessPlugin, vars
  <2> QED
    BY <2>1
<1>2. CASE Process
  <2>1. UNCHANGED <<output, read, copied, tick, control>> /\ tick < MaxTick /\ audio' # "publish"
    BY <1>2 DEF Process
  <2> QED
    BY <2>1
<1>3. CASE Stop
  <2>1. /\ output' = Clear(output) /\ UNCHANGED <<read, copied, tick, audio, control>>
        /\ audio = "idle" /\ control = "idle"
    BY <1>3 DEF Stop, Reset
  <2>2. Ring(output') /\ Contents(output') = <<>>
    BY <2>1, ClearedRing
  <2>3. OutputHolds'
    BY <2>1, <2>2, EmptySeq
  <2>4. Out!Discard
    BY <2>1, <2>2 DEF Out!Discard
  <2> QED
    BY <2>3, <2>4 DEF Out!Next
<1>4. CASE Read
  <2>1. UNCHANGED <<output, read, tick, audio>> /\ Filled(output) # 0 /\ copied' = Oldest(output)
    BY <1>4 DEF Read
  <2> QED
    BY <2>1
<1>5. CASE ReadStore
  <2>1. /\ output' = ReleaseOldest(output) /\ Filled(output) # 0 /\ read' = Oldest(output)
        /\ control' = "idle" /\ UNCHANGED <<tick, audio>>
    BY <1>5 DEF ReadStore
  <2>2. /\ Ring(output') /\ Filled(output') = Filled(output) - 1
        /\ Contents(output) # <<>> /\ Head(Contents(output)) = Oldest(output)
        /\ Contents(output') = Tail(Contents(output))
    BY <2>1, ReleaseContents
  <2>3. Contents(output') \in Seq(OutputBlocks) /\ read' \in OutputBlocks
    BY <2>1, <2>2, HeadTailProperties
  <2>4. Filled(output') # QueueBlocks
    <3>1. Filled(output) \in Nat /\ Filled(output) <= QueueBlocks
      BY ContentsAre DEF Ring
    <3> QED
      BY <2>2, <3>1, Sizes
  <2>5. Out!Take
    BY <2>1, <2>2 DEF Out!Take
  <2>6. OutputHolds'
    BY <2>1, <2>2, <2>3, <2>4
  <2> QED
    BY <2>5, <2>6 DEF Out!Next
<1>6. CASE ProcessOutput
  <2>1. CASE Filled(output) = QueueBlocks
    <3>1. UNCHANGED <<output, read, copied, control>> /\ tick' = tick + 1 /\ audio' = "idle"
          /\ tick < MaxTick
      BY <1>6, <2>1 DEF ProcessOutput
    <3> QED
      BY <3>1, QueueAssumption
  <2>2. CASE Filled(output) # QueueBlocks
    <3>1. /\ output' = BeginCopy(output, TornBlock) /\ tick < MaxTick
          /\ UNCHANGED <<read, copied, control, tick>>
      BY <1>6, <2>2 DEF ProcessOutput
    <3>2. Ring(output') /\ Filled(output') = Filled(output) /\ Contents(output') = Contents(output)
      BY <2>2, <3>1, CopyContents
    <3>3. Filled(output) # 0 => Oldest(output') = Oldest(output)
      BY <3>2, ContentsAre
    <3> QED
      BY <2>2, <3>1, <3>2, <3>3
  <2> QED
    BY <2>1, <2>2
<1>7. CASE ProcessPublish
  <2> DEFINE b == Output(tick, block)
  <2>1. /\ output' = Publish(output, b) /\ Filled(output) # QueueBlocks /\ tick < MaxTick
        /\ audio' = "idle" /\ tick' = tick + 1 /\ UNCHANGED <<read, copied, control>>
    BY <1>7 DEF ProcessPublish
  <2>2. b \in OutputBlocks
    BY DEF Output, OutputBlocks
  <2> HIDE DEF b
  <2>3. /\ Ring(output') /\ Filled(output') = Filled(output) + 1
        /\ Contents(output') = Append(Contents(output), b)
    BY <2>1, <2>2, PublishContents
  <2>4. Len(Contents(output)) = Filled(output) /\ Filled(output) \in Nat /\ Filled(output) < QueueBlocks
    BY <2>1, ContentsAre, LenProperties, Sizes DEF Ring
  <2>5. Contents(output') \in Seq(OutputBlocks)
    BY <2>2, <2>3, AppendProperties
  <2>6. Filled(output) # 0 => Oldest(output') = Oldest(output)
    BY <2>2, <2>3, <2>4, ContentsAre, AppendProperties
  <2>7. Out!Put
    BY <2>1, <2>2, <2>3, <2>4 DEF Out!Put
  <2>8. OutputHolds'
    BY <2>1, <2>3, <2>4, <2>5, <2>6, QueueAssumption
  <2> QED
    BY <2>7, <2>8 DEF Out!Next
<1> QED
  BY <1>1, <1>2, <1>3, <1>4, <1>5, <1>6, <1>7 DEF Next

LEMMA GapsStep ==
  ASSUME OutputHolds, OutputHolds', Gaps, block \in Payloads \cup {None}, [Next]_vars
  PROVE  Gaps'
<1>1. /\ tick \in Nat /\ Len(Contents(output)) \in Nat
      /\ \A i \in 1..Len(Contents(output)) : Contents(output)[i].tick \in Nat
      /\ read.tick \in Nat
  <2>1. \A b \in OutputBlocks : b.tick \in Nat
    BY QueueAssumption DEF OutputBlocks
  <2> QED
    BY <2>1, LenProperties, ElementOfSeq, QueueAssumption DEF OutputHolds
<1>2. CASE UNCHANGED <<Contents(output), tick, overruns, read, delivered, discarded>>
  BY <1>2 DEF Gaps
<1>3. CASE Start \/ Write \/ WriteStore \/ Read \/ Process \/ ProcessRelease \/ ProcessPlugin \/ UNCHANGED vars
  BY <1>2, <1>3 DEF Start, Running, Write, WriteStore, Read, Process, ProcessRelease, ProcessPlugin, vars
<1>4. CASE Stop
  <2>1. /\ output' = Clear(output) /\ UNCHANGED <<tick, overruns, read, delivered>>
        /\ discarded' = discarded + Filled(output)
    BY <1>4 DEF Stop, Reset
  <2>2. Contents(output') = <<>> /\ Len(Contents(output')) = 0
    BY <2>1, ClearedRing, EmptySeq DEF OutputHolds
  <2>3. Filled(output) = Len(Contents(output))
    BY <1>1, ContentsAre, LenProperties DEF OutputHolds
  <2> HIDE DEF Contents
  <2> QED
    BY <1>1, <2>1, <2>2, <2>3 DEF Gaps
<1>5. CASE ReadStore
  <2>1. /\ output' = ReleaseOldest(output) /\ Filled(output) # 0 /\ read' = Oldest(output)
        /\ delivered' = delivered + 1 /\ UNCHANGED <<tick, overruns, discarded>>
    BY <1>5 DEF ReadStore, OutputHolds
  <2>2. /\ Contents(output) # <<>> /\ Contents(output)[1] = Oldest(output)
        /\ Contents(output') = Tail(Contents(output))
    BY <2>1, ReleaseContents, ContentsAre DEF OutputHolds
  <2>3. /\ Len(Contents(output')) = Len(Contents(output)) - 1
        /\ \A i \in 1..Len(Contents(output')) : Contents(output')[i] = Contents(output)[i + 1]
        /\ 1 \in 1..Len(Contents(output))
    BY <2>2, HeadTailProperties, EmptySeq DEF OutputHolds
  <2>4. \A i \in 1..Len(Contents(output')) : i + 1 \in 1..Len(Contents(output))
    BY <1>1, <2>3
  <2> HIDE DEF Contents
  <2> QED
    BY <1>1, <2>1, <2>2, <2>3, <2>4 DEF Gaps
<1>6. CASE ProcessOutput
  <2>1. CASE Filled(output) = QueueBlocks
    <3>1. /\ UNCHANGED <<output, read, delivered, discarded>> /\ tick' = tick + 1
          /\ overruns' = overruns + 1
      BY <1>6, <2>1 DEF ProcessOutput
    <3>2. Contents(output') = Contents(output)
      BY <3>1
    <3> HIDE DEF Contents
    <3>3. /\ overruns' \in Nat /\ delivered' \in Nat /\ discarded' \in Nat
          /\ tick' = delivered' + Len(Contents(output)) + overruns' + discarded'
          /\ delivered' > 0 =>
               /\ read'.tick < tick'
               /\ tick' - read'.tick <= overruns' + discarded' + 1 + Len(Contents(output))
      BY <1>1, <3>1 DEF Gaps
    <3>4. ASSUME NEW i \in 1..Len(Contents(output))
          PROVE  /\ Contents(output)[i].tick < tick'
                 /\ tick' - Contents(output)[i].tick <= overruns' + 1 + Len(Contents(output)) - i
                 /\ tick' - Contents(output)[i].tick >= 1 + Len(Contents(output)) - i
                 /\ delivered' > 0 => read'.tick < Contents(output)[i].tick
                 /\ \A j \in 1..Len(Contents(output)) :
                      i < j => Contents(output)[i].tick < Contents(output)[j].tick
      BY <1>1, <3>1 DEF Gaps
    <3> QED
      BY <3>2, <3>3, <3>4 DEF Gaps
  <2>2. CASE Filled(output) # QueueBlocks
    <3>1. output' = BeginCopy(output, TornBlock) /\ UNCHANGED <<read, delivered, discarded, tick, overruns>>
      BY <1>6, <2>2 DEF ProcessOutput
    <3>2. Contents(output') = Contents(output)
      BY <2>2, <3>1, CopyContents DEF OutputHolds
    <3> QED
      BY <1>2, <3>1, <3>2
  <2> QED
    BY <2>1, <2>2
<1>7. CASE ProcessPublish
  <2> DEFINE b == Output(tick, block)
             n == Len(Contents(output))
  <2>1. /\ output' = Publish(output, b) /\ Filled(output) # QueueBlocks
        /\ tick' = tick + 1 /\ UNCHANGED <<read, delivered, discarded, overruns>>
    BY <1>7 DEF ProcessPublish, OutputHolds
  <2>2. Contents(output') = Append(Contents(output), b)
    <3>1. b \in OutputBlocks
      BY DEF Output, OutputBlocks, OutputHolds
    <3> HIDE DEF b
    <3> QED
      BY <2>1, <3>1, PublishContents DEF OutputHolds
  <2>3. b \in OutputBlocks /\ b.tick = tick
    BY DEF Output, OutputBlocks, OutputHolds
  <2> HIDE DEF b
  <2>4. /\ Len(Contents(output')) = n + 1
        /\ \A i \in 1..n : Contents(output')[i] = Contents(output)[i]
        /\ Contents(output')[n + 1] = b
    BY <2>2, AppendProperties DEF OutputHolds
  <2> DEFINE c == Contents(output)
             d == Contents(output')
  <2>5. \A i \in 1..n + 1 : d[i].tick = IF i \in 1..n THEN c[i].tick ELSE tick
    BY <1>1, <2>3, <2>4
  <2>6. /\ n \in Nat /\ tick \in Nat /\ overruns \in Nat /\ delivered \in Nat
        /\ discarded \in Nat /\ tick = delivered + n + overruns + discarded
        /\ read.tick \in Nat
        /\ (delivered > 0 => /\ read.tick < tick
                             /\ tick - read.tick <= overruns + discarded + 1 + n)
    BY <1>1 DEF Gaps
  <2>6a. /\ \A i \in 1..n : c[i].tick \in Nat /\ c[i].tick < tick
                          /\ tick - c[i].tick <= overruns + 1 + n - i
                          /\ tick - c[i].tick >= 1 + n - i
                          /\ (delivered > 0 => read.tick < c[i].tick)
         /\ \A i, j \in 1..n : i < j => c[i].tick < c[j].tick
    BY <1>1 DEF Gaps
  <2> HIDE DEF c, d, n
  <2>7. ASSUME NEW i \in 1..n + 1
        PROVE  /\ d[i].tick \in Nat /\ i \in Nat
               /\ d[i].tick < tick + 1
               /\ tick + 1 - d[i].tick <= overruns + 1 + (n + 1) - i
               /\ tick + 1 - d[i].tick >= 1 + (n + 1) - i
               /\ (delivered > 0 => read.tick < d[i].tick)
    <3>1. CASE i \in 1..n
      <4>1. d[i].tick = c[i].tick
        BY <2>5, <3>1
      <4>2. /\ c[i].tick \in Nat /\ c[i].tick < tick
            /\ tick - c[i].tick <= overruns + 1 + n - i
            /\ tick - c[i].tick >= 1 + n - i
            /\ (delivered > 0 => read.tick < c[i].tick)
        BY <2>6a, <3>1
      <4> QED
        BY <2>6, <3>1, <4>1, <4>2
    <3>2. CASE i \notin 1..n
      <4>1. i = n + 1 /\ d[i].tick = tick
        BY <2>5, <2>6, <3>2
      <4> QED
        BY <2>6, <4>1
    <3> QED
      BY <3>1, <3>2
  <2>8. ASSUME NEW i \in 1..n + 1, NEW j \in 1..n + 1, i < j
        PROVE  d[i].tick < d[j].tick
    <3>1. i \in 1..n /\ (j \in 1..n \/ j \notin 1..n)
      BY <2>6, <2>8
    <3> QED
      BY <2>5, <2>6a, <2>8, <3>1
  <2>9. /\ Len(Contents(output)') = n + 1 /\ Contents(output)' = d
        /\ tick' = tick + 1 /\ UNCHANGED <<overruns, read, delivered, discarded>>
    BY <2>1, <2>4 DEF d
  <2>10. /\ overruns' \in Nat /\ delivered' \in Nat /\ discarded' \in Nat
         /\ tick' = delivered' + Len(Contents(output)') + overruns' + discarded'
         /\ delivered' > 0 =>
              /\ read'.tick < tick'
              /\ tick' - read'.tick <= overruns' + discarded' + 1 + Len(Contents(output)')
    BY <2>6, <2>9
  <2>11. ASSUME NEW i \in 1..Len(Contents(output)')
         PROVE  /\ Contents(output)'[i].tick < tick'
                /\ tick' - Contents(output)'[i].tick <= overruns' + 1 + Len(Contents(output)') - i
                /\ tick' - Contents(output)'[i].tick >= 1 + Len(Contents(output)') - i
                /\ delivered' > 0 => read'.tick < Contents(output)'[i].tick
                /\ \A j \in 1..Len(Contents(output)') :
                     i < j => Contents(output)'[i].tick < Contents(output)'[j].tick
    <3>1. i \in 1..n + 1
      BY <2>9, <2>11
    <3>2. /\ d[i].tick \in Nat /\ i \in Nat
          /\ d[i].tick < tick + 1
          /\ tick + 1 - d[i].tick <= overruns + 1 + (n + 1) - i
          /\ tick + 1 - d[i].tick >= 1 + (n + 1) - i
          /\ (delivered > 0 => read.tick < d[i].tick)
      BY <2>7, <3>1
    <3>3. \A j \in 1..n + 1 : i < j => d[i].tick < d[j].tick
      BY <2>8, <3>1
    <3> QED
      BY <2>6, <2>9, <3>1, <3>2, <3>3
  <2> QED
    BY <2>10, <2>11 DEF Gaps
<1> QED
  BY <1>3, <1>4, <1>5, <1>6, <1>7 DEF Next

LEMMA Invariance == Spec => []IInv
<1>1. IInv /\ [Next]_vars => IInv'
  BY InputStep, OutputStep, GapsStep DEF IInv, InputHolds
<1> QED
  BY <1>1, InitInv, PTL DEF Spec

---------------------------------------------------------------------------
\* For any length of the queue, any width of its indices and any blocks, what
\* process_block takes is what try_write put, whole, each once and in order.
THEOREM InputImplements == Spec => InputIsFifo
<1>1. IInv /\ Init => In!Init
  BY EmptyRing DEF Init, In!Init
<1>2. IInv /\ [Next]_vars => [In!Next]_<<Contents(input), consumed>>
  BY InputStep DEF IInv
<1> QED
  BY <1>1, <1>2, InitInv, Invariance, PTL DEF Spec, InputIsFifo, In!Spec

\* The same of process_block and try_read.
THEOREM OutputImplements == Spec => OutputIsFifo
<1>1. IInv /\ Init => Out!Init
  BY EmptyRing DEF Init, Out!Init, IInv, OutputHolds
<1>2. IInv /\ [Next]_vars => [Out!Next]_<<Contents(output), read>>
  BY OutputStep DEF IInv, InputHolds
<1> QED
  BY <1>1, <1>2, InitInv, Invariance, PTL DEF Spec, OutputIsFifo, Out!Spec

\* However control and audio thread interleave, and whatever stops come between,
\* each tick's block was returned, waits, was counted as an overrun or was discarded
\* by a stop; what waits is newer than what was returned, and the ticks missing
\* before and between the waiting blocks were lost in one of those two ways
\* (process_block and ap_live_stop against try_read).
THEOREM TicksAreCounted == Spec => []TicksAccountedFor
<1>1. IInv => TicksAccountedFor
  <2> SUFFICES ASSUME IInv PROVE TicksAccountedFor
    OBVIOUS
  <2> DEFINE q == Contents(output)
             n == Len(q)
  <2>1. \A b \in OutputBlocks : b.tick \in Nat
    BY QueueAssumption DEF OutputBlocks
  <2>2. n \in Nat /\ q \in Seq(OutputBlocks) /\ overruns \in Nat /\ tick \in Nat
        /\ discarded \in Nat
    BY LenProperties, QueueAssumption DEF IInv, OutputHolds, Gaps
  <2>3. \A i \in 1..n : q[i].tick \in Nat
    BY <2>1, <2>2, ElementOfSeq
  <2>4. read.tick \in Nat
    BY <2>1 DEF IInv, OutputHolds
  <2>5. /\ \A i \in 1..n : /\ q[i].tick < tick
                           /\ tick - q[i].tick <= overruns + 1 + n - i
                           /\ tick - q[i].tick >= 1 + n - i
                           /\ delivered > 0 => read.tick < q[i].tick
                           /\ \A j \in 1..n : i < j => q[i].tick < q[j].tick
    BY DEF IInv, Gaps
  <2>6. q # <<>> => 1 \in 1..n /\ n \in 1..n
    BY <2>2, EmptySeq
  <2> HIDE DEF q, n
  <2>7. ASSUME NEW i \in 1..n - 1 PROVE q[i].tick < q[i + 1].tick
    <3>1. i \in 1..n /\ i + 1 \in 1..n /\ i < i + 1
      BY <2>2
    <3>2. \A j \in 1..n : i < j => q[i].tick < q[j].tick
      BY <2>5, <3>1
    <3> QED
      BY <3>1, <3>2
  <2>8. q # <<>> => q[n].tick - q[1].tick + 1 - n <= overruns
    <3> SUFFICES ASSUME q # <<>> PROVE q[n].tick - q[1].tick + 1 - n <= overruns
      OBVIOUS
    <3>1. 1 \in 1..n /\ n \in 1..n
      BY <2>6
    <3>2. q[n].tick < tick /\ tick - q[1].tick <= overruns + 1 + n - 1
      BY <2>5, <3>1
    <3>3. /\ q[n].tick \in Nat /\ q[1].tick \in Nat /\ tick \in Nat
          /\ overruns \in Nat /\ n \in Nat
      BY <2>2, <2>3, <3>1
    <3>4. \A w, t, u, v, m \in Nat : w < t /\ t - u <= v + 1 + m - 1 => w - u + 1 - m <= v
      OBVIOUS
    <3> QED
      BY <3>2, <3>3, <3>4
  <2>9. ASSUME q # <<>>, delivered > 0
        PROVE  read.tick < q[1].tick /\ q[1].tick - read.tick - 1 <= overruns + discarded
    <3>1. 1 \in 1..n
      BY <2>6, <2>9
    <3>2. read.tick < q[1].tick /\ tick - q[1].tick >= 1 + n - 1
      BY <2>5, <2>9, <3>1
    <3>3. tick - read.tick <= overruns + discarded + 1 + n
      BY <2>9 DEF IInv, Gaps, q, n
    <3> QED
      BY <2>2, <2>3, <2>4, <3>1, <3>2, <3>3
  <2>10. tick = delivered + n + overruns + discarded
    BY DEF IInv, Gaps, q, n
  <2> QED
    BY <2>7, <2>8, <2>9, <2>10 DEF q, n, TicksAccountedFor
<1> QED
  BY <1>1, Invariance, PTL

---------------------------------------------------------------------------
(* The queues under the threads of a session (LiveEngine).  A block is      *)
(* processed inside the session, and start and stop of the queues are       *)
(* where the session has them.                                              *)

Life == INSTANCE LiveSession_proofs

InBlock == {"release", "plugin"}

\* The queues are running from the end of start to the reset.
Active ==
  \/ s.activated /\ ctl.at \notin {"start_run", "start_spawn"}
  \/ ctl.at = "stop_reset"

\* The thread that is inside process_block is where its caller calls it, or just
\* after once the plugin has returned.
Inside ==
  /\ audio \in {"idle", "release", "plugin", "output", "publish"}
  /\ inside \in Threads \cup {"none"} /\ (inside = "none" <=> audio = "idle")
  /\ inside = Timer => worker \in IF audio \in InBlock THEN {"processing"} ELSE {"loop", "ending"}
  /\ \A t \in DeviceThreads : inside = t =>
       s.owner = t /\ dev[t] = IF audio \in InBlock THEN "processing" ELSE "leaving"

Linked ==
  /\ control # "idle" => ctl.at = "idle"
  /\ state \in {"prepared", "running", "failed"}
  /\ state = "prepared" <=> ~Active
  /\ state = "failed" => s.stop
  /\ \A t \in Threads : At(t) = "processing" /\ inside # t => state = "running"
  /\ ctl.at \in {"start_clear", "start_activate", "start_run"} => s.state # "RUNNING"
  /\ ctl.at = "start_run" =>
       s.owner = "none" /\ \A t \in DeviceThreads : dev[t] \notin {"begin_stop", "starting"}

EngineInv == Life!IInv /\ Inside /\ Linked

---------------------------------------------------------------------------
(* The actions of a session are those that LiveSession_proofs is about.    *)

LEMMA StartSteps ==
  /\ Session!StartCheck <=> Life!StartCheck
  /\ Session!StartClear <=> Life!StartClear
  /\ Session!StartActivate <=> Life!StartActivate
  /\ Session!StartRun <=> Life!StartRun
  /\ Session!StartSpawn <=> Life!StartSpawn
  /\ Session!StartWait <=> Life!StartWait
  /\ Session!StartError <=> Life!StartError
  BY DEF Session!StartCheck, Session!StartClear, Session!StartActivate, Session!StartRun,
     Session!StartSpawn, Session!StartWait, Session!StartError, Session!Goto,
     Session!Return, Session!audio, Life!StartCheck, Life!StartClear, Life!StartActivate,
     Life!StartRun, Life!StartSpawn, Life!StartWait, Life!StartError, Life!Goto,
     Life!Return, Life!audio

LEMMA StopSteps ==
  /\ Session!StopCall <=> Life!StopCall
  /\ Session!StopSet <=> Life!StopSet
  /\ Session!StopGuard <=> Life!StopGuard
  /\ Session!StopBusy <=> Life!StopBusy
  /\ Session!StopJoin <=> Life!StopJoin
  /\ Session!StopDeactivate <=> Life!StopDeactivate
  /\ Session!StopReset <=> Life!StopReset
  /\ Session!StopPrepared <=> Life!StopPrepared
  /\ Session!StopClear <=> Life!StopClear
  BY DEF Session!StopCall, Session!StopSet, Session!StopGuard, Session!StopBusy,
     Session!StopJoin, Session!StopDeactivate, Session!StopReset, Session!StopPrepared,
     Session!StopClear, Session!StopEnter, Session!StopDone, Session!Goto, Session!Return,
     Session!Quiesced, Session!BeginAt, Session!audio, Life!StopCall, Life!StopSet,
     Life!StopGuard, Life!StopBusy, Life!StopJoin, Life!StopDeactivate, Life!StopReset,
     Life!StopPrepared, Life!StopClear, Life!StopEnter, Life!StopDone, Life!Goto,
     Life!Return, Life!Quiesced, Life!BeginAt, Life!audio

LEMMA PollSteps ==
  /\ Session!Poll <=> Life!Poll
  /\ Session!PollCallback <=> Life!PollCallback
  /\ Session!PluginStep <=> Life!PluginStep
  BY DEF Session!Poll, Session!PollCallback, Session!PluginStep, Session!StopEnter,
     Session!StopDone, Session!Return, Session!RequestRestart, Session!RequestRestartStop,
     Session!RequestCallback, Session!audio, Life!Poll, Life!PollCallback, Life!PluginStep,
     Life!StopEnter, Life!StopDone, Life!Return, Life!RequestRestart,
     Life!RequestRestartStop, Life!RequestCallback, Life!audio

LEMMA WorkerSteps ==
  /\ Session!WorkerBegin <=> Life!WorkerBegin
  /\ Session!WorkerReady <=> Life!WorkerReady
  /\ Session!WorkerLoop <=> Life!WorkerLoop
  /\ Session!WorkerProcess <=> Life!WorkerProcess
  /\ Session!WorkerEnd <=> Life!WorkerEnd
  /\ Session!WorkerFinish <=> Life!WorkerFinish
  BY DEF Session!WorkerBegin, Session!WorkerReady, Session!WorkerLoop,
     Session!WorkerProcess, Session!WorkerEnd, Session!WorkerFinish, Session!BeginFails,
     Session!BlockFails, Session!Finished, Life!WorkerBegin, Life!WorkerReady,
     Life!WorkerLoop, Life!WorkerProcess, Life!WorkerEnd, Life!WorkerFinish,
     Life!BeginFails, Life!BlockFails, Life!Finished

LEMMA DeviceSteps ==
  ASSUME NEW t
  PROVE  /\ Session!DeviceCall(t) <=> Life!DeviceCall(t)
         /\ Session!BeginState(t) <=> Life!BeginState(t)
         /\ Session!BeginStop(t) <=> Life!BeginStop(t)
         /\ Session!BeginStart(t) <=> Life!BeginStart(t)
         /\ Session!ProcessCheck(t) <=> Life!ProcessCheck(t)
         /\ Session!ProcessBlock(t) <=> Life!ProcessBlock(t)
         /\ Session!EndCheck(t) <=> Life!EndCheck(t)
         /\ Session!EndStop(t) <=> Life!EndStop(t)
         /\ Session!EndFinish(t) <=> Life!EndFinish(t)
         /\ Session!Release(t) <=> Life!Release(t)
  BY DEF Session!DeviceCall, Session!BeginState, Session!BeginStop, Session!BeginStart,
     Session!ProcessCheck, Session!ProcessBlock, Session!EndCheck, Session!EndStop,
     Session!EndFinish, Session!Release, Session!BeginEnter, Session!ProcessEnter,
     Session!EndEnter, Session!Enter, Session!Check, Session!Leave, Session!DevGoto,
     Session!BeginFails, Session!BlockFails, Session!Finished, Session!StopAt,
     Session!device, Life!DeviceCall, Life!BeginState, Life!BeginStop, Life!BeginStart,
     Life!ProcessCheck, Life!ProcessBlock, Life!EndCheck, Life!EndStop, Life!EndFinish,
     Life!Release, Life!BeginEnter, Life!ProcessEnter, Life!EndEnter, Life!Enter,
     Life!Check, Life!Leave, Life!DevGoto, Life!BeginFails, Life!BlockFails, Life!Finished,
     Life!StopAt, Life!device

\* Whatever the queues do, the session does as LiveSession says.
LEMMA SessionSteps == [EngineNext]_engineVars => [Life!Next]_(Life!vars)
<1> SUFFICES ASSUME [EngineNext]_engineVars PROVE [Life!Next]_(Life!vars)
  OBVIOUS
<1> USE DEF Life!Next, Life!StartStep, Life!StopStep, Life!WorkerStep, Life!DeviceStep
<1>1. CASE StartRunning \/ ControlElse
  BY <1>1, StartSteps, StopSteps, PollSteps DEF StartRunning, ControlElse
<1>2. CASE StopInactive \/ StopReset
  BY <1>2, StopSteps, PollSteps DEF StopInactive, StopReset
<1>3. CASE PluginReturns
  BY <1>3, WorkerSteps, DeviceSteps DEF PluginReturns
<1>4. CASE WorkerElse
  BY <1>4, WorkerSteps DEF WorkerElse
<1>5. CASE \E t \in DeviceThreads : DeviceElse(t)
  BY <1>5, DeviceSteps DEF DeviceElse
<1>6. CASE PluginElse
  BY <1>6, PollSteps DEF PluginElse
<1>7. CASE UNCHANGED sessionVars
  BY <1>7 DEF sessionVars, Life!vars
<1> QED
  BY <1>1, <1>2, <1>3, <1>4, <1>5, <1>6, <1>7
  DEF EngineNext, TryWrite, TryRead, Store, Enters, Continues, engineVars

Records ==
  /\ s = [open |-> s.open, driver |-> s.driver, activated |-> s.activated,
          state |-> s.state, error |-> s.error, stop |-> s.stop, ready |-> s.ready,
          restart |-> s.restart, callback |-> s.callback, guard |-> s.guard,
          owner |-> s.owner]
  /\ ctl = [at |-> ctl.at, by |-> ctl.by, code |-> ctl.code]
  /\ dev = [t \in DeviceThreads |-> dev[t]]

\* What the invariant of the session says of the threads in process_block.
LEMMA SessionFacts ==
  ASSUME Life!IInv
  PROVE  /\ Records
         /\ worker # "none" =>
              /\ s.activated /\ ctl.at \notin {"start_run", "start_spawn"}
              /\ \A t \in DeviceThreads : dev[t] = "idle"
         /\ \A t \in DeviceThreads :
              /\ dev[t] # "idle" => s.guard = t
              /\ dev[t] \in {"processing", "ending", "ended"} => s.owner = t
              /\ dev[t] \in {"begin_stop", "starting"} => s.activated /\ s.owner = "none"
         /\ s.owner # "none" => s.activated /\ ctl.at # "start_spawn"
         /\ ctl.at \in {"start_run", "start_spawn", "start_wait", "start_error", "stop_set",
                        "stop_guard", "stop_busy", "stop_join", "stop_deactivate"} =>
              s.activated
         /\ ctl.at \in {"start_clear", "start_activate", "stop_reset", "stop_prepared",
                        "stop_clear"} => ~s.activated
         /\ ctl.at = "start_spawn" => s.driver # "device"
<1>1. s.driver \in {"timer", "device"}
  BY SessionAssumption DEF Life!IInv, Life!GuardInv, Life!Types
<1> QED
  BY <1>1, SessionAssumption
  DEF Records, Life!IInv, Life!GuardInv, Life!Types, Life!Held, Life!Placed, Life!Timed, Life!Owned

LEMMA InsideStep ==
  ASSUME EngineInv, [EngineNext]_engineVars
  PROVE  Inside'
<1> USE SessionAssumption DEF Records, Timer, Threads, InBlock, Inside
<1>1. Inside
  BY DEF EngineInv
<1>2. Records
  BY SessionFacts DEF EngineInv
<1>3. CASE UNCHANGED <<audio, inside, worker, dev>> /\ s'.owner = s.owner
  BY <1>1, <1>3
<1>4. CASE ControlElse
  <2>1. s'.owner = s.owner /\ UNCHANGED <<audio, inside, dev>>
    BY <1>2, <1>4
    DEF ControlElse, vars, Session!StartCheck, Session!StartClear, Session!StartActivate,
      Session!StartWait, Session!StartError, Session!StopSet, Session!StopGuard,
      Session!StopBusy, Session!StopJoin, Session!StopDeactivate, Session!StopPrepared,
      Session!StopClear, Session!PollCallback, Session!audio
  <2>2. inside = Timer => worker' = worker
    BY <1>1, <1>4
    DEF ControlElse, Session!StartCheck, Session!StartClear, Session!StartActivate,
      Session!StartWait, Session!StartError, Session!StopSet, Session!StopGuard,
      Session!StopBusy, Session!StopJoin, Session!StopDeactivate, Session!StopPrepared,
      Session!StopClear, Session!PollCallback, Session!audio
  <2> QED
    BY <1>1, <2>1, <2>2
<1>5. CASE StartRunning
  <2>1. s'.owner = s.owner /\ UNCHANGED <<audio, inside, dev>>
    BY <1>2, <1>5
    DEF StartRunning, Running, vars, Session!StartRun, Session!StartSpawn, Session!audio
  <2>2. inside = Timer => worker' = worker
    BY <1>1, <1>5, SessionFacts
    DEF EngineInv, StartRunning, Session!StartRun, Session!StartSpawn, Session!audio
  <2> QED
    BY <1>1, <2>1, <2>2
<1>6. CASE StopInactive \/ StopReset
  BY <1>3, <1>6
  DEF StopInactive, StopReset, Reset, vars, Session!StopCall, Session!Poll,
    Session!StopReset, Session!audio
<1>7. CASE TryWrite \/ TryRead \/ Store
  BY <1>3, <1>7
  DEF TryWrite, TryRead, Store, sessionVars, Write, WriteStore, Read, ReadStore
<1>8. ASSUME NEW t \in Threads, Enters(t) PROVE Inside'
  <2>1. inside' = t /\ audio' \in InBlock /\ At(t) = "processing" /\ UNCHANGED <<s, worker, dev>>
    BY <1>8 DEF Enters, Process, sessionVars
  <2>2. CASE t = Timer
    BY <2>1, <2>2 DEF At
  <2>3. CASE t \in DeviceThreads
    BY <2>1, <2>3, SessionFacts DEF At, EngineInv
  <2> QED
    BY <2>2, <2>3
<1>9. CASE PluginReturns
  <2>1. audio' = "output" /\ UNCHANGED inside
    BY <1>9 DEF PluginReturns, ProcessPlugin
  <2>2. CASE inside = Timer /\ Session!WorkerProcess
    BY <1>1, <2>1, <2>2 DEF Session!WorkerProcess
  <2>3. CASE inside \in DeviceThreads /\ Session!ProcessBlock(inside)
    BY <1>1, <1>2, <2>1, <2>3
    DEF Session!ProcessBlock, Session!BlockFails, Session!DevGoto, Session!device
  <2> QED
    BY <1>9, <2>2, <2>3 DEF PluginReturns
<1>10. CASE Continues
  BY <1>1, <1>10
  DEF Continues, ProcessRelease, ProcessOutput, ProcessPublish, sessionVars
<1>11. CASE WorkerElse
  <2>1. inside # Timer /\ UNCHANGED <<audio, inside, dev>> /\ s'.owner = s.owner
    BY <1>2, <1>11
    DEF WorkerElse, vars, Session!WorkerBegin, Session!WorkerReady, Session!WorkerLoop,
      Session!WorkerEnd, Session!WorkerFinish, Session!BeginFails, Session!Finished
  <2> QED
    BY <1>1, <2>1
<1>12. ASSUME NEW t \in DeviceThreads, DeviceElse(t) PROVE Inside'
  <2>1. inside # t /\ UNCHANGED <<audio, inside, worker>>
        /\ \A u \in DeviceThreads : u # t => dev'[u] = dev[u]
    BY <1>2, <1>12
    DEF DeviceElse, vars, Session!DeviceCall, Session!BeginEnter, Session!ProcessEnter,
      Session!EndEnter, Session!Enter, Session!BeginState, Session!BeginStop,
      Session!BeginStart, Session!ProcessCheck, Session!EndCheck, Session!EndStop,
      Session!EndFinish, Session!Release, Session!Check, Session!Leave, Session!DevGoto,
      Session!device
  <2>2. s'.owner = s.owner \/ dev[t] \in {"starting", "ended"}
    BY <1>2, <1>12
    DEF DeviceElse, Session!DeviceCall, Session!BeginEnter, Session!ProcessEnter,
      Session!EndEnter, Session!Enter, Session!BeginState, Session!BeginStop,
      Session!BeginStart, Session!ProcessCheck, Session!EndCheck, Session!EndStop,
      Session!EndFinish, Session!Release, Session!Check, Session!Leave
  <2>3. ASSUME NEW u \in DeviceThreads, inside = u PROVE dev[t] \notin {"starting", "ended"}
    BY <1>1, <2>1, <2>3, SessionFacts DEF EngineInv
  <2> QED
    BY <1>1, <2>1, <2>2, <2>3
<1>13. CASE PluginElse
  BY <1>2, <1>3, <1>13
  DEF PluginElse, vars, Session!PluginStep, Session!RequestRestart,
    Session!RequestRestartStop, Session!RequestCallback, Session!audio
<1>14. CASE UNCHANGED engineVars
  BY <1>3, <1>14 DEF engineVars, vars, sessionVars
<1> QED
  BY <1>4, <1>5, <1>6, <1>7, <1>8, <1>9, <1>10, <1>11, <1>12, <1>13, <1>14 DEF EngineNext

LEMMA LinkedStep ==
  ASSUME EngineInv, [EngineNext]_engineVars
  PROVE  Linked'
<1> USE SessionAssumption DEF Records, Timer, Threads, InBlock, Linked, Active, At
<1>1. Linked /\ Inside
  BY DEF EngineInv
<1>2. Records
  BY SessionFacts DEF EngineInv
<1>3. CASE ControlElse
  <2>1. control = "idle" /\ UNCHANGED <<control, state, inside, dev>>
    BY <1>3
    DEF ControlElse, vars, Session!StartCheck, Session!StartClear, Session!StartActivate,
      Session!StartWait, Session!StartError, Session!StopSet, Session!StopGuard,
      Session!StopBusy, Session!StopJoin, Session!StopDeactivate, Session!StopPrepared,
      Session!StopClear, Session!PollCallback, Session!audio
  <2>2. worker' = worker \/ worker' = "none"
    BY <1>3
    DEF ControlElse, Session!StartCheck, Session!StartClear, Session!StartActivate,
      Session!StartWait, Session!StartError, Session!StopSet, Session!StopGuard,
      Session!StopBusy, Session!StopJoin, Session!StopDeactivate, Session!StopPrepared,
      Session!StopClear, Session!PollCallback, Session!audio
  <2>3. Active' <=> Active
    <3>1. CASE Session!StartCheck \/ Session!StartWait \/ Session!StartError
      <4>1. s' = s /\ ctl.at \notin {"start_run", "start_spawn", "stop_reset"}
            /\ ctl'.at \notin {"start_run", "start_spawn", "stop_reset"}
        BY <1>2, <3>1
        DEF Session!StartCheck, Session!StartWait, Session!StartError, Session!Goto, Session!Return
      <4> QED
        BY <4>1
    <3>6. CASE Session!StartClear
      BY <1>2, <3>6, SessionFacts DEF EngineInv, Session!StartClear, Session!Goto
    <3>2. CASE Session!StartActivate
      BY <1>2, <3>2, SessionFacts
      DEF EngineInv, Session!StartActivate, Session!Goto, Session!Return
    <3>3. CASE Session!StopSet \/ Session!StopGuard \/ Session!StopBusy \/ Session!StopJoin
      BY <1>2, <3>3
      DEF Session!StopSet, Session!StopGuard, Session!StopBusy, Session!StopJoin,
        Session!Goto, Session!Return
    <3>4. CASE Session!StopDeactivate
      BY <1>2, <3>4, SessionFacts DEF EngineInv, Session!StopDeactivate, Session!Goto
    <3>5. CASE Session!StopPrepared \/ Session!StopClear \/ Session!PollCallback
      BY <1>2, <3>5
      DEF Session!StopPrepared, Session!StopClear, Session!PollCallback, Session!Goto,
        Session!Return, Session!StopDone
    <3> QED
      BY <1>3, <3>1, <3>2, <3>3, <3>4, <3>5, <3>6 DEF ControlElse
  <2>4. s'.stop = s.stop \/ s'.stop \/ ~Active
    BY <1>2, <1>3, SessionFacts
    DEF EngineInv, ControlElse, Session!StartCheck, Session!StartClear,
      Session!StartActivate, Session!StartWait, Session!StartError, Session!StopSet,
      Session!StopGuard, Session!StopBusy, Session!StopJoin, Session!StopDeactivate,
      Session!StopPrepared, Session!StopClear, Session!PollCallback
  <2>5. ctl'.at \in {"start_clear", "start_activate", "start_run"} => s'.state # "RUNNING"
    <3>1. ctl'.at \in {"start_clear", "start_activate", "start_run"} =>
            Session!StartCheck \/ Session!StartClear \/ Session!StartActivate
      BY <1>2, <1>3
      DEF ControlElse, Session!StartWait, Session!StartError, Session!StopSet,
        Session!StopGuard, Session!StopBusy, Session!StopJoin, Session!StopDeactivate,
        Session!StopPrepared, Session!StopClear, Session!PollCallback, Session!Goto,
        Session!Return, Session!StopDone
    <3>2. CASE Session!StartCheck
      BY <1>2, <3>2 DEF Session!StartCheck, Session!Return
    <3>3. CASE Session!StartClear \/ Session!StartActivate
      BY <1>1, <1>2, <3>3 DEF Session!StartClear, Session!StartActivate
    <3> QED
      BY <3>1, <3>2, <3>3
  <2>6. ctl'.at = "start_run" =>
          s'.owner = "none" /\ \A t \in DeviceThreads : dev'[t] \notin {"begin_stop", "starting"}
    <3>1. ctl'.at = "start_run" => Session!StartActivate
      BY <1>2, <1>3
      DEF ControlElse, Session!StartCheck, Session!StartClear, Session!StartWait,
        Session!StartError, Session!StopSet, Session!StopGuard, Session!StopBusy,
        Session!StopJoin, Session!StopDeactivate, Session!StopPrepared, Session!StopClear,
        Session!PollCallback, Session!Goto, Session!Return, Session!StopDone
    <3>2. CASE Session!StartActivate
      BY <1>2, <2>1, <3>2, SessionFacts
      DEF EngineInv, Session!StartActivate, Session!Goto, Session!Return
    <3> QED
      BY <3>1, <3>2
  <2> QED
    BY <1>1, <2>1, <2>2, <2>3, <2>4, <2>5, <2>6
<1>4. CASE StartRunning
  <2>1. ~Active /\ UNCHANGED <<control, inside, dev>> /\ s'.stop = s.stop /\ s'.owner = s.owner
    BY <1>2, <1>4, SessionFacts
    DEF EngineInv, StartRunning, Running, vars, Session!StartRun, Session!StartSpawn, Session!audio
  <2>2. ctl'.at \in {"idle", "start_spawn", "start_wait"}
    BY <1>2, <1>4
    DEF StartRunning, Session!StartRun, Session!StartSpawn, Session!Goto, Session!Return
  <2>3. worker' \in {worker, "begin"}
    BY <1>4 DEF StartRunning, Session!StartRun, Session!StartSpawn, Session!audio
  <2>4. control = "idle" /\ (Active' => state' = "running") /\ (~Active' => state' = state)
    <3>1. CASE Session!StartRun
      <4>1. CASE s.driver = "device"
        BY <1>2, <1>4, <3>1, <4>1, SessionFacts
        DEF EngineInv, StartRunning, Running, Session!StartRun, Session!StartSpawn, Session!Return
      <4>2. CASE s.driver # "device"
        BY <1>2, <1>4, <3>1, <4>2
        DEF StartRunning, vars, Session!StartRun, Session!StartSpawn, Session!Goto
      <4> QED
        BY <4>1, <4>2
    <3>2. CASE Session!StartSpawn
      <4>1. CASE worker' = "begin"
        <5>1. worker = "none" /\ s.activated /\ ctl.at = "start_spawn"
          BY <3>2, SessionFacts DEF EngineInv, Session!StartSpawn
        <5>2. s' = s /\ ctl'.at = "start_wait"
          BY <1>2, <3>2, <4>1, <5>1 DEF Session!StartSpawn, Session!Goto
        <5>3. control = "idle" /\ state' = "running"
          BY <1>4, <4>1, <5>1 DEF StartRunning, Running, Session!StartRun
        <5> QED
          BY <5>1, <5>2, <5>3
      <4>2. CASE worker' # "begin"
        <5>1. ~s'.activated /\ ctl'.at = "idle"
          <6>1. s' = [s EXCEPT !.activated = FALSE, !.state = "PREPARED"]
                /\ ctl' = [at |-> "idle", by |-> "none", code |-> "STATE"]
            BY <3>2, <4>2 DEF Session!StartSpawn, Session!Return
          <6>2. ~s'.activated
            BY <1>2, <6>1
          <6>3. ctl'.at = "idle"
            BY <6>1
          <6> QED
            BY <6>2, <6>3
        <5>2. control = "idle" /\ state' = state
          <6>1. ctl.at = "start_spawn" /\ ~Session!StartRun
            BY <3>2 DEF Session!StartSpawn, Session!StartRun
          <6> QED
            BY <1>4, <4>2, <6>1 DEF StartRunning, vars
        <5> QED
          BY <5>1, <5>2
      <4> QED
        BY <4>1, <4>2
    <3> QED
      BY <1>4, <3>1, <3>2 DEF StartRunning
  <2> QED
    BY <1>1, <2>1, <2>2, <2>3, <2>4
<1>5. CASE StopInactive \/ StopReset
  BY <1>1, <1>2, <1>5, SessionFacts
  DEF EngineInv, StopInactive, StopReset, Reset, vars, Session!StopCall, Session!Poll,
    Session!StopReset, Session!StopEnter, Session!StopDone, Session!Goto, Session!Return,
    Session!audio
<1>6. CASE TryWrite \/ TryRead \/ Store
  BY <1>1, <1>6 DEF TryWrite, TryRead, Store, sessionVars, Write, WriteStore, Read, ReadStore
<1>7. ASSUME NEW t \in Threads, Enters(t) PROVE Linked'
  BY <1>1, <1>7 DEF Enters, Process, sessionVars
<1>8. CASE PluginReturns
  <2>1. inside' = inside /\ control' = control /\ ctl' = ctl
    BY <1>8 DEF PluginReturns, ProcessPlugin, Session!WorkerProcess, Session!ProcessBlock, Session!device
  <2>2. inside # "none" /\ Active /\ state # "prepared"
    BY <1>1, <1>8, SessionFacts DEF EngineInv, PluginReturns, ProcessPlugin, Inside
  <2>3. s' = s \/ Session!BlockFails
    BY <1>8 DEF PluginReturns, Session!WorkerProcess, Session!ProcessBlock
  <2>4. /\ s'.activated = s.activated /\ s'.owner = s.owner /\ s'.state = s.state
        /\ s' = s \/ s'.stop
    BY <1>2, <2>3 DEF Session!BlockFails
  <2>5. state' = IF s' = s THEN state ELSE "failed"
    BY <1>8 DEF PluginReturns
  <2>6. \A t \in Threads : At(t)' = "processing" /\ t # inside => At(t) = "processing"
    BY <1>2, <1>8
    DEF PluginReturns, Session!WorkerProcess, Session!ProcessBlock, Session!DevGoto, Session!device
  <2>7. \A t \in DeviceThreads : dev'[t] = dev[t] \/ dev'[t] = "leaving"
    BY <1>2, <1>8
    DEF PluginReturns, Session!WorkerProcess, Session!ProcessBlock, Session!DevGoto, Session!device
  <2>8. \A t \in Threads : t # inside => At(t)' # "processing"
    BY <1>1, <2>2, <2>6, SessionFacts DEF EngineInv, Inside
  <2> QED
    BY <1>1, <2>1, <2>2, <2>4, <2>5, <2>7, <2>8
<1>9. CASE Continues
  BY <1>1, <1>9
  DEF Inside, Continues, ProcessRelease, ProcessOutput, ProcessPublish, sessionVars
<1>10. CASE WorkerElse
  BY <1>1, <1>2, <1>10, SessionFacts
  DEF EngineInv, WorkerElse, vars, Session!WorkerBegin, Session!WorkerReady,
    Session!WorkerLoop, Session!WorkerEnd, Session!WorkerFinish, Session!BeginFails,
    Session!Finished
<1>11. ASSUME NEW t \in DeviceThreads, DeviceElse(t) PROVE Linked'
  <2>1. UNCHANGED <<control, state, inside, ctl, worker>>
    BY <1>11 DEF DeviceElse, vars, Session!DeviceCall, Session!BeginEnter,
      Session!ProcessEnter, Session!EndEnter, Session!Enter, Session!BeginState,
      Session!BeginStop, Session!BeginStart, Session!ProcessCheck, Session!EndCheck,
      Session!EndStop, Session!EndFinish, Session!Release, Session!Check, Session!Leave,
      Session!DevGoto, Session!device
  <2>2. /\ s'.activated = s.activated /\ s'.stop = s.stop /\ s'.state \in {s.state, "FINISHED"}
        /\ s'.owner = s.owner \/ dev[t] \in {"starting", "ended"}
    BY <1>2, <1>11
    DEF DeviceElse, Session!DeviceCall, Session!BeginEnter, Session!ProcessEnter,
      Session!EndEnter, Session!Enter, Session!BeginState, Session!BeginStop,
      Session!BeginStart, Session!ProcessCheck, Session!EndCheck, Session!EndStop,
      Session!EndFinish, Session!Release, Session!Check, Session!Leave,
      Session!BeginFails, Session!Finished
  <2>3. /\ \A u \in DeviceThreads : u # t => dev'[u] = dev[u]
        /\ dev'[t] = "processing" => dev[t] = "process" /\ s.owner = t /\ ~s.stop
        /\ dev'[t] \in {"begin_stop", "starting"} =>
             dev[t] = "begin_stop" \/ (dev[t] = "begin" /\ s.state = "RUNNING")
    BY <1>2, <1>11
    DEF DeviceElse, Session!DeviceCall, Session!BeginEnter, Session!ProcessEnter,
      Session!EndEnter, Session!Enter, Session!BeginState, Session!BeginStop,
      Session!BeginStart, Session!ProcessCheck, Session!EndCheck, Session!EndStop,
      Session!EndFinish, Session!Release, Session!Check, Session!Leave,
      Session!DevGoto
  <2>4. At(t)' = "processing" => state = "running"
    BY <1>1, <1>2, <2>1, <2>3, SessionFacts DEF EngineInv
  <2>5. ctl.at = "start_run" =>
          s'.owner = "none" /\ \A u \in DeviceThreads : dev'[u] \notin {"begin_stop", "starting"}
    <3> SUFFICES ASSUME ctl.at = "start_run"
                 PROVE  /\ s'.owner = "none"
                        /\ \A u \in DeviceThreads : dev'[u] \notin {"begin_stop", "starting"}
      OBVIOUS
    <3>1. /\ s.owner = "none" /\ s.state # "RUNNING"
          /\ \A u \in DeviceThreads : dev[u] \notin {"begin_stop", "starting"}
      BY <1>1
    <3>2. dev[t] # "ended"
      BY <3>1, SessionFacts DEF EngineInv
    <3> QED
      BY <2>2, <2>3, <3>1, <3>2
  <2>6. \A u \in Threads : At(u)' = "processing" /\ inside # u => state = "running"
    BY <1>1, <2>1, <2>3, <2>4
  <2> QED
    BY <1>1, <2>1, <2>2, <2>5, <2>6
<1>12. CASE PluginElse
  BY <1>1, <1>2, <1>12
  DEF PluginElse, vars, Session!PluginStep, Session!RequestRestart,
    Session!RequestRestartStop, Session!RequestCallback, Session!audio
<1>13. CASE UNCHANGED engineVars
  BY <1>1, <1>13 DEF engineVars, vars, sessionVars
<1> QED
  BY <1>3, <1>4, <1>5, <1>6, <1>7, <1>8, <1>9, <1>10, <1>11, <1>12, <1>13 DEF EngineNext

LEMMA SessionStep ==
  ASSUME ~ConcurrentBegin, EngineInv, [EngineNext]_engineVars
  PROVE  Life!IInv'
<1>1. Session!DriverAssumption /\ Session!ThreadAssumption /\ Session!BeginAssumption
  BY SessionAssumption
  DEF Session!DriverAssumption, Session!ThreadAssumption, Session!BeginAssumption
<1>2. Life!IInv /\ [Life!Next]_(Life!vars)
  BY SessionSteps DEF EngineInv
<1> QED
  BY <1>1, <1>2, Life!StepInv
  DEF Session!DriverAssumption, Session!ThreadAssumption, Session!BeginAssumption

LEMMA EngineInitInv == EngineInit => EngineInv
<1> SUFFICES ASSUME EngineInit PROVE EngineInv
  OBVIOUS
<1>1. PICK d \in Drivers : s = Session!Fresh(d)
  BY DEF EngineInit
<1>2. Life!IInv
  BY <1>1, SessionAssumption
  DEF EngineInit, Session!Fresh, Life!IInv, Life!GuardInv, Life!Types, Life!Held,
    Life!Placed, Life!Timed, Life!Owned, Life!Places, Life!StopAt, Life!BeginAt
<1>3. Inside
  BY SessionAssumption DEF EngineInit, Init, Inside, Threads, Timer
<1>4. Linked
  BY <1>1, SessionAssumption
  DEF EngineInit, Init, Session!Fresh, Linked, Active, At, Threads, Timer
<1> QED
  BY <1>2, <1>3, <1>4 DEF EngineInv

LEMMA EngineInvariance ==
  ASSUME ~ConcurrentBegin
  PROVE  EngineSpec => []EngineInv
<1>1. EngineInv /\ [EngineNext]_engineVars => EngineInv'
  <2> SUFFICES ASSUME EngineInv, [EngineNext]_engineVars PROVE EngineInv'
    OBVIOUS
  <2>1. Life!IInv'
    BY SessionStep
  <2>2. Inside' /\ Linked'
    BY InsideStep, LinkedStep
  <2> QED
    BY <2>1, <2>2 DEF EngineInv
<1> QED
  BY <1>1, EngineInitInv, PTL DEF EngineSpec

\* What the invariant says where the queues depend on it.
LEMMA Undisturbed == EngineInv => BlocksUndisturbed
<1> SUFFICES ASSUME EngineInv PROVE BlocksUndisturbed
  OBVIOUS
<1> USE SessionAssumption DEF Threads, Timer, At
<1>1. Inside /\ Linked
  BY DEF EngineInv
<1>2. ASSUME NEW t \in Threads, At(t) = "processing", inside # t
      PROVE  inside = "none"
  <2>1. CASE inside = Timer
    BY <1>1, <1>2, <2>1, SessionFacts DEF EngineInv, Inside, InBlock
  <2>2. CASE inside \in DeviceThreads
    BY <1>1, <1>2, <2>2, SessionFacts DEF EngineInv, Inside, InBlock
  <2> QED
    BY <1>1, <2>1, <2>2 DEF Inside
<1>3. ASSUME ~s.activated PROVE inside = "none"
  <2>1. inside # Timer
    BY <1>1, <1>3, SessionFacts DEF EngineInv, Inside, InBlock
  <2>2. inside \notin DeviceThreads
    BY <1>1, <1>3, SessionFacts DEF EngineInv, Inside
  <2> QED
    BY <1>1, <2>1, <2>2 DEF Inside
<1> QED
  BY <1>1, <1>2, <1>3 DEF BlocksUndisturbed, Inside, Linked

\* While device_begin keeps away from stop, a block of process_block is processed by
\* one thread of a running session, and ap_live_stop resets the queues with no
\* thread inside.
THEOREM NoBlockDisturbed ==
  ASSUME ~ConcurrentBegin
  PROVE  EngineSpec => []BlocksUndisturbed
  BY EngineInvariance, Undisturbed, PTL

\* Under the same condition a session uses the queues as LiveRings assumes: the
\* guards that start, stop and process_block have there hold wherever the session
\* takes the step.
THEOREM SessionImplementsRings ==
  ASSUME ~ConcurrentBegin
  PROVE  EngineSpec => Spec
<1>1. EngineInit => Init
  BY DEF EngineInit
<1>2. EngineInv /\ [EngineNext]_engineVars => [Next]_vars
  <2> SUFFICES ASSUME EngineInv, EngineNext PROVE [Next]_vars
    BY DEF engineVars
  <2> USE DEF Next
  <2>1. Linked /\ BlocksUndisturbed
    BY Undisturbed DEF EngineInv
  <2>2. CASE StartRunning
    <3>1. state = "prepared"
      BY <2>1, <2>2, SessionFacts
      DEF EngineInv, Linked, Active, StartRunning, Session!StartRun, Session!StartSpawn
    <3> QED
      BY <2>2, <3>1 DEF StartRunning, Start
  <2>3. CASE StopInactive
    BY <2>1, <2>3 DEF StopInactive, Stop, BlocksUndisturbed
  <2>4. CASE StopReset
    <3>1. ~s.activated
      BY <2>4, SessionFacts DEF EngineInv, StopReset, Session!StopReset
    <3> QED
      BY <2>1, <2>4, <3>1 DEF StopReset, Stop, BlocksUndisturbed
  <2>5. CASE ControlElse \/ WorkerElse \/ PluginElse \/ \E t \in DeviceThreads : DeviceElse(t)
    BY <2>5 DEF ControlElse, WorkerElse, PluginElse, DeviceElse
  <2> QED
    BY <2>2, <2>3, <2>4, <2>5
    DEF EngineNext, TryWrite, TryRead, Store, Enters, PluginReturns, Continues
<1> QED
  BY <1>1, <1>2, EngineInvariance, PTL DEF EngineSpec, Spec

\* So the blocks an integrator writes and reads go through a session's queues as
\* through FIFO queues, whatever starts, stops, polls and failures come between
\* (ap_live_try_write and ap_live_try_read against ap_live_stop).
THEOREM SessionQueuesAreFifo ==
  ASSUME ~ConcurrentBegin
  PROVE  EngineSpec => InputIsFifo /\ OutputIsFifo /\ []TicksAccountedFor
  BY SessionImplementsRings, InputImplements, OutputImplements, TicksAreCounted, PTL

=============================================================================
