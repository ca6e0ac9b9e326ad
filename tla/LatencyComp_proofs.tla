------------------------ MODULE LatencyComp_proofs -------------------------
(***************************************************************************)
(* The compensated stream is the input, lags by the ceiling of the latency *)
(* in blocks and is completed by a flush: for any block length, any        *)
(* latency, any channels and any number of blocks.                         *)
(***************************************************************************)
EXTENDS LatencyComp, SequenceTheorems, TLAPS

---------------------------------------------------------------------------
(* The inductive invariant.                                                *)

Pos(n) == IF n > 0 THEN n ELSE 0

\* The samples that the blocks drained into k, real and silent, make available.
Made(k) == Pos(k.last * Block - k.latency)

CompShape(k) ==
  /\ k = [latency |-> k.latency, skip |-> k.skip, pending |-> k.pending,
          emitted |-> k.emitted, fed |-> k.fed, last |-> k.last, block |-> k.block,
          tail |-> k.tail, zerosFed |-> k.zerosFed]
  /\ k.pending = [c \in Channels |-> k.pending[c]]
  /\ k.emitted = [c \in Channels |-> k.emitted[c]]
  /\ k.block = [c \in Channels |-> k.block[c]]
  /\ k.tail = [c \in Channels |-> k.tail[c]]

CompTypes(k) ==
  /\ CompShape(k)
  /\ k.latency \in Nat /\ k.skip \in Nat /\ k.fed \in Nat /\ k.last \in Nat
  /\ k.zerosFed \in BOOLEAN
  /\ \A c \in Channels : k.block[c] \in BOOLEAN /\ k.tail[c] \in BOOLEAN
  /\ \A c \in Channels : k.emitted[c] = Len(served[c])

HostTypes ==
  /\ host = [token |-> host.token, count |-> host.count, latency |-> host.latency]
  /\ slips = [erased |-> slips.erased, behind |-> slips.behind, unread |-> slips.unread,
              failed |-> slips.failed]
  /\ host.token \in Nat /\ host.count \in {0, Block}
  /\ left \in Nat \cup {-1}

\* The pre-roll that is left to skip.
Skips(k) == k.skip = Pos(k.latency - k.last * Block)

\* What has been served and what is pending are the input from its start.
StreamOf(k, c) ==
  /\ k.pending[c] \in Seq(Int) /\ served[c] \in Seq(Int)
  /\ Len(served[c]) + Len(k.pending[c]) <= Made(k)
  /\ ~slips.erased =>
       /\ Len(served[c]) + Len(k.pending[c]) = Made(k)
       /\ \A i \in 1..Len(served[c]) : served[c][i] = i - 1
       /\ \A i \in 1..Len(k.pending[c]) : k.pending[c][i] = Len(served[c]) + i - 1

Stream(k) ==
  /\ served = [c \in Channels |-> served[c]]
  /\ \A c \in Channels : StreamOf(k, c)

\* A block that is still to be read is there, unless an error erased it.
BlockThere ==
  /\ comp.last <= host.token
  /\ ~slips.erased /\ ~comp.zerosFed /\ Unread => host.count = Block

\* The silence of a flush, on top of what was fed, covers the latency.
Flushed ==
  /\ ~comp.zerosFed => /\ left = -1 /\ ~slips.failed /\ comp.fed = comp.last * Block
                       /\ \A c \in Channels : ~comp.tail[c]
  /\ comp.zerosFed /\ ~slips.failed /\ ~slips.unread =>
       comp.last * Block = comp.fed + (Ceil(comp.latency) - Pos(left)) * Block
  /\ \A c \in Channels : Len(served[c]) <= comp.fed
  /\ TailCompletes

\* What a channel that is read of each of k blocks has been given.
Given(k) == Pos(k - Ceil(comp.latency)) * Block

Lags ==
  ~slips.erased /\ ~slips.behind /\ ~comp.zerosFed =>
    \A c \in Channels :
      /\ Len(served[c]) = Given(IF comp.block[c] THEN comp.last ELSE comp.last - 1)
      /\ Unread => comp.last = 0 \/ comp.block[c]

IInv ==
  /\ CompTypes(comp) /\ HostTypes /\ Skips(comp) /\ Stream(comp)
  /\ BlockThere /\ Flushed /\ Lags

---------------------------------------------------------------------------
(* Products and the ceiling.                                               *)

LEMMA CeilBounds ==
  ASSUME Assumptions, NEW n \in Nat
  PROVE  /\ Ceil(n) \in Nat /\ Ceil(n) * Block \in Nat
         /\ n <= Ceil(n) * Block /\ Ceil(n) * Block <= n + Block - 1
<1> DEFINE x == n + Block - 1
           q == x \div Block
           r == x % Block
<1>1. x \in Nat /\ Block \in Nat \ {0}
  BY DEF Assumptions
<1> HIDE DEF x
<1>2. r \in 0..Block - 1 /\ q \in Nat
  BY <1>1
<1>3. x = Block * q + r
  BY <1>1
<1>4. Block * q = q * Block
  BY <1>1, <1>2
<1>5. q * Block \in Nat
  BY <1>1, <1>2
<1> HIDE DEF q, r
<1> DEFINE Q == q * Block
<1>6. x = Q + r /\ Q \in Nat
  BY <1>3, <1>4, <1>5
<1> HIDE DEF Q
<1>7. Q >= n /\ Q <= n + Block - 1
  BY <1>1, <1>2, <1>6 DEF x
<1>8. Ceil(n) = q
  BY DEF Ceil, q, x
<1> QED
  BY <1>2, <1>6, <1>7, <1>8 DEF Q

LEMMA OneMore ==
  ASSUME Assumptions, NEW k \in Int, NEW n \in Int
  PROVE  /\ k * Block \in Int /\ (k + 1) * Block = k * Block + Block
         /\ (k - n) * Block = k * Block - n * Block
         /\ (k - (n - 1)) * Block = k * Block - n * Block + Block
         /\ k \in Nat => k * Block \in Nat
         /\ k > n => k * Block >= n * Block + Block
         /\ k <= n => k * Block <= n * Block
<1>1. Block \in Nat \ {0}
  BY DEF Assumptions
<1>2. /\ k * Block \in Int /\ (k + 1) * Block = k * Block + Block
      /\ (k - n) * Block = k * Block - n * Block
      /\ (k - (n - 1)) * Block = k * Block - n * Block + Block
  BY <1>1
<1>3. k \in Nat => k * Block \in Nat
  BY <1>1
<1>4. k > n => (k - n) * Block >= Block
  BY <1>1
<1>5. k <= n => (n - k) * Block >= 0
  BY <1>1
<1>6. (n - k) * Block = n * Block - k * Block /\ n * Block \in Int
  BY <1>1
<1> QED
  BY <1>1, <1>2, <1>3, <1>4, <1>5, <1>6

\* What a channel is due, as a product or as nothing.
LEMMA Due ==
  ASSUME Assumptions, NEW k \in Int, comp.latency \in Nat
  PROVE  Given(k) = IF k > Ceil(comp.latency) THEN k * Block - Ceil(comp.latency) * Block ELSE 0
<1> DEFINE C == Ceil(comp.latency)
<1>1. C \in Nat /\ Block \in Nat
  BY CeilBounds DEF Assumptions
<1> HIDE DEF C
<1>2. Pos(k - C) * Block = IF k > C THEN k * Block - C * Block ELSE 0
  <2>1. CASE k > C
    BY <1>1, <2>1, OneMore DEF Pos
  <2>2. CASE ~(k > C)
    BY <1>1, <2>2 DEF Pos
  <2> QED
    BY <2>1, <2>2
<1> QED
  BY <1>2 DEF Given, C

---------------------------------------------------------------------------
(* What _drain! makes of the buffers.                                      *)

LEMMA DrainIs ==
  ASSUME Assumptions, CompShape(comp), NEW h, NEW real
  PROVE  LET drop == LeastOf(comp.skip, Block)
         IN  Drain(h, real) =
               [latency |-> comp.latency, skip |-> comp.skip - drop,
                pending |-> [c \in Channels |-> comp.pending[c] \o SubSeq(Raw(h), drop + 1, h.count)],
                emitted |-> comp.emitted, fed |-> IF real THEN comp.fed + Block ELSE comp.fed,
                last |-> h.token, block |-> Each(FALSE), tail |-> comp.tail,
                zerosFed |-> comp.zerosFed]
<1> DEFINE drop == LeastOf(comp.skip, Block)
           p == [c \in Channels |-> comp.pending[c] \o SubSeq(Raw(h), drop + 1, h.count)]
           f == IF real THEN comp.fed + Block ELSE comp.fed
<1>1. Drain(h, real) = [comp EXCEPT !.skip = comp.skip - drop, !.pending = p, !.fed = f,
                          !.last = h.token, !.block = Each(FALSE)]
  BY DEF Drain
<1> HIDE DEF drop, p, f
<1>2. Drain(h, real) =
        [latency |-> comp.latency, skip |-> comp.skip - drop, pending |-> p,
         emitted |-> comp.emitted, fed |-> f, last |-> h.token, block |-> Each(FALSE),
         tail |-> comp.tail, zerosFed |-> comp.zerosFed]
  BY <1>1 DEF CompShape
<1> QED
  BY <1>2 DEF drop, p, f

\* The samples of one block that are past the pre-roll.
LEMMA FreshSamples ==
  ASSUME Assumptions, CompTypes(comp), NEW h, h.token = comp.last + 1, h.count \in {0, Block},
         NEW d \in 0..Block, NEW s, s = SubSeq(Raw(h), d + 1, h.count)
  PROVE  /\ s \in Seq(Int)
         /\ Len(s) = IF h.count = Block THEN Block - d ELSE 0
         /\ \A i \in 1..Len(s) : s[i] = comp.last * Block - comp.latency + d + i - 1
<1> DEFINE P == comp.last * Block
           L == comp.latency
           r == Raw(h)
<1>1. P \in Int /\ L \in Int /\ Block \in Nat /\ (h.token - 1) * Block = P
  BY OneMore DEF CompTypes, Assumptions
<1>2. r = [i \in 1..h.count |-> P + i - 1 - L]
  BY <1>1 DEF Raw
<1> HIDE DEF P, L, r
<1>3. \A i \in d + 1..h.count : r[i] = P + i - 1 - L /\ r[i] \in Int
  BY <1>1, <1>2
<1>4. d + 1 \in Int /\ h.count \in Int
  BY <1>1
<1> DEFINE n == h.count
           m == d + 1
<1> HIDE DEF n, m
<1>5. m \in Int /\ n \in Int /\ \A i \in m..n : r[i] \in Int
  BY <1>3, <1>4 DEF m, n
<1>6. /\ SubSeq(r, m, n) \in Seq(Int)
      /\ Len(SubSeq(r, m, n)) = IF m <= n THEN n - m + 1 ELSE 0
      /\ \A i \in 1..n - m + 1 : SubSeq(r, m, n)[i] = r[m + i - 1]
  BY <1>5, SubSeqProperties
<1>7. s = SubSeq(r, m, n)
  BY DEF r, m, n
<1>8. Len(s) = IF h.count = Block THEN Block - d ELSE 0
  BY <1>1, <1>6, <1>7 DEF m, n
<1>9. ASSUME NEW i \in 1..Len(s) PROVE s[i] = P - L + d + i - 1
  <2>1. i \in 1..n - m + 1 /\ m + i - 1 \in m..n /\ m + i - 1 = d + i
    BY <1>1, <1>5, <1>8 DEF m, n
  <2>2. s[i] = r[m + i - 1] /\ r[m + i - 1] = P + (d + i) - 1 - L
    BY <1>3, <1>6, <1>7, <2>1 DEF m, n
  <2> QED
    BY <1>1, <2>2
<1> QED
  BY <1>6, <1>7, <1>8, <1>9 DEF P, L

\* Draining one block keeps the buffers in order, and restarts the channels.
LEMMA DrainKeeps ==
  ASSUME Assumptions, CompTypes(comp), Skips(comp), Stream(comp), NEW h, h.token = comp.last + 1,
         h.count \in {0, Block}, ~slips.erased => h.count = Block, NEW real \in BOOLEAN,
         NEW k, k = Drain(h, real)
  PROVE  /\ CompTypes(k) /\ Skips(k) /\ Stream(k)
         /\ k.latency = comp.latency /\ k.last = comp.last + 1 /\ k.zerosFed = comp.zerosFed
         /\ k.fed = IF real THEN comp.fed + Block ELSE comp.fed
         /\ k.tail = comp.tail /\ k.emitted = comp.emitted /\ k.block = Each(FALSE)
<1> DEFINE drop == LeastOf(comp.skip, Block)
           s == SubSeq(Raw(h), drop + 1, h.count)
           P == comp.last * Block
           L == comp.latency
<1>1. /\ P \in Int /\ L \in Nat /\ Block \in Nat \ {0} /\ comp.skip \in Nat
      /\ (comp.last + 1) * Block = P + Block
  <2>1. L \in Nat /\ comp.skip \in Nat /\ comp.last \in Int
    BY DEF CompTypes
  <2>2. P \in Int /\ (comp.last + 1) * Block = P + Block
    BY <2>1, OneMore
  <2> QED
    BY <2>1, <2>2 DEF Assumptions
<1>2. k = [latency |-> L, skip |-> comp.skip - drop,
           pending |-> [c \in Channels |-> comp.pending[c] \o s],
           emitted |-> comp.emitted, fed |-> IF real THEN comp.fed + Block ELSE comp.fed,
           last |-> h.token, block |-> Each(FALSE), tail |-> comp.tail,
           zerosFed |-> comp.zerosFed]
  BY DrainIs DEF CompTypes
<1>3. drop \in 0..Block /\ drop <= comp.skip
  BY <1>1 DEF LeastOf
<1>4. comp.skip = Pos(L - P) /\ drop = IF comp.skip < Block THEN comp.skip ELSE Block
  BY DEF Skips, LeastOf
<1>5. /\ s \in Seq(Int) /\ Len(s) = IF h.count = Block THEN Block - drop ELSE 0
      /\ \A i \in 1..Len(s) : s[i] = P - L + drop + i - 1
  BY <1>3, FreshSamples
<1> HIDE DEF drop, s, P, L
<1>6. /\ k.latency = L /\ k.skip = comp.skip - drop /\ k.emitted = comp.emitted
      /\ k.pending = [c \in Channels |-> comp.pending[c] \o s]
      /\ k.fed = IF real THEN comp.fed + Block ELSE comp.fed
      /\ k.last = comp.last + 1 /\ k.block = Each(FALSE) /\ k.tail = comp.tail
      /\ k.zerosFed = comp.zerosFed
  BY <1>2
<1>7. CompTypes(k)
  <2>1. k = [latency |-> k.latency, skip |-> k.skip, pending |-> k.pending,
             emitted |-> k.emitted, fed |-> k.fed, last |-> k.last, block |-> k.block,
             tail |-> k.tail, zerosFed |-> k.zerosFed]
    BY <1>2
  <2>2. CompShape(k)
    BY <1>6, <2>1 DEF CompTypes, CompShape, Each
  <2>3. k.latency \in Nat /\ k.skip \in Nat /\ k.fed \in Nat /\ k.last \in Nat /\ k.zerosFed \in BOOLEAN
    <3>1. comp.latency \in Nat /\ comp.fed \in Nat /\ comp.last \in Nat /\ comp.zerosFed \in BOOLEAN
      BY DEF CompTypes
    <3>2. comp.skip - drop \in Nat
      BY <1>1, <1>3
    <3>3. k.fed \in Nat
      BY <1>1, <1>6, <3>1
    <3>4. k.latency \in Nat /\ k.zerosFed \in BOOLEAN
      BY <1>1, <1>6, <3>1
    <3>5. k.skip \in Nat /\ k.last \in Nat
      BY <1>6, <3>1, <3>2
    <3> QED
      BY <3>3, <3>4, <3>5
  <2> QED
    BY <1>6, <2>2, <2>3 DEF CompTypes, Each
<1>8. Skips(k)
  <2>1. k.skip = Pos(L - (P + Block))
    BY <1>1, <1>3, <1>4, <1>6 DEF Pos
  <2> QED
    BY <1>1, <1>6, <2>1 DEF Skips
<1>9. Made(comp) = Pos(P - L) /\ Made(k) = Pos(P + Block - L)
  BY <1>1, <1>6 DEF Made, P, L
<1>10. Made(k) = Made(comp) + Block - drop /\ Made(comp) \in Nat
  BY <1>1, <1>3, <1>4, <1>9 DEF Pos
<1>11. drop < Block => P - L + drop = Made(comp)
  BY <1>1, <1>3, <1>4, <1>9 DEF Pos
<1>12. ASSUME NEW c \in Channels PROVE StreamOf(k, c)
  <2> DEFINE p == comp.pending[c]
             v == served[c]
             q == k.pending[c]
  <2>1. q = p \o s
    BY <1>6
  <2>2. /\ p \in Seq(Int) /\ v \in Seq(Int) /\ Len(v) + Len(p) <= Made(comp)
        /\ ~slips.erased =>
             /\ Len(v) + Len(p) = Made(comp)
             /\ \A i \in 1..Len(v) : v[i] = i - 1
             /\ \A i \in 1..Len(p) : p[i] = Len(v) + i - 1
    BY DEF Stream, StreamOf
  <2> HIDE DEF p, v, q
  <2>3. /\ q \in Seq(Int) /\ Len(q) = Len(p) + Len(s)
        /\ \A i \in 1..Len(p) + Len(s) : q[i] = IF i <= Len(p) THEN p[i] ELSE s[i - Len(p)]
    BY <1>5, <2>1, <2>2, ConcatProperties
  <2>4. Len(p) \in Nat /\ Len(v) \in Nat /\ Len(s) \in Nat
    BY <1>5, <2>2, LenProperties
  <2>5. Len(v) + Len(q) <= Made(k)
    BY <1>1, <1>3, <1>5, <1>10, <2>2, <2>3, <2>4
  <2>6. ~slips.erased => Len(v) + Len(q) = Made(k)
    BY <1>1, <1>3, <1>5, <1>10, <2>2, <2>3, <2>4
  <2>7. ASSUME ~slips.erased, NEW i \in 1..Len(q) PROVE q[i] = Len(v) + i - 1
    <3>1. i \in 1..Len(p) + Len(s)
      BY <2>3
    <3>2. CASE i <= Len(p)
      <4>1. i \in 1..Len(p)
        BY <3>1, <3>2, <2>4
      <4> QED
        BY <2>2, <2>3, <2>7, <3>1, <3>2, <4>1
    <3>3. CASE ~(i <= Len(p))
      <4>1. i - Len(p) \in 1..Len(s)
        BY <3>1, <3>3, <2>4
      <4>2. q[i] = s[i - Len(p)] /\ s[i - Len(p)] = P - L + drop + (i - Len(p)) - 1
        BY <1>5, <2>3, <3>1, <3>3, <4>1
      <4>3. Len(s) > 0
        BY <2>4, <4>1
      <4>4. drop < Block
        BY <1>1, <1>3, <1>5, <4>3
      <4>5. P - L + drop = Len(v) + Len(p)
        BY <1>11, <2>2, <2>7, <4>4
      <4>6. q[i] = Len(v) + Len(p) + (i - Len(p)) - 1
        BY <4>2, <4>5
      <4>7. i \in Nat
        BY <2>4, <3>1
      <4> QED
        BY <2>4, <4>6, <4>7
    <3> QED
      BY <3>2, <3>3
  <2> QED
    BY <2>2, <2>3, <2>5, <2>6, <2>7 DEF StreamOf, p, v, q
<1>13. Stream(k)
  BY <1>12 DEF Stream
<1> QED
  BY <1>6, <1>7, <1>8, <1>13 DEF L

---------------------------------------------------------------------------
(* What a read or a tail takes from them.                                  *)

LEMMA TakeIs ==
  ASSUME Assumptions, NEW k, CompShape(k), NEW c \in Channels, NEW n, Take(k, c, n)
  PROVE  comp' =
           [latency |-> k.latency, skip |-> k.skip,
            pending |-> [k.pending EXCEPT ![c] = SubSeq(@, n + 1, Len(@))],
            emitted |-> [k.emitted EXCEPT ![c] = @ + n],
            fed |-> k.fed, last |-> k.last, block |-> k.block, tail |-> k.tail,
            zerosFed |-> k.zerosFed]
  BY DEF Take, CompShape

\* Moving the first n pending samples to what is served keeps them in order.
LEMMA TakeKeeps ==
  ASSUME Assumptions, NEW k, CompTypes(k), Skips(k), Stream(k), NEW c \in Channels,
         NEW n \in 0..Len(k.pending[c]), Take(k, c, n), UNCHANGED slips
  PROVE  /\ (CompTypes(comp) /\ Skips(comp) /\ Stream(comp))'
         /\ comp'.latency = k.latency /\ comp'.last = k.last /\ comp'.zerosFed = k.zerosFed
         /\ comp'.fed = k.fed /\ comp'.block = k.block /\ comp'.tail = k.tail
         /\ Len(served[c]) \in Nat /\ Len(served'[c]) = Len(served[c]) + n
         /\ \A d \in Channels \ {c} : served'[d] = served[d]
<1> DEFINE p == k.pending[c]
           v == served[c]
           q == SubSeq(p, n + 1, Len(p))
           t == SubSeq(p, 1, n)
<1>1. /\ comp'.latency = k.latency /\ comp'.skip = k.skip
      /\ comp'.pending = [k.pending EXCEPT ![c] = q]
      /\ comp'.emitted = [k.emitted EXCEPT ![c] = k.emitted[c] + n]
      /\ comp'.fed = k.fed /\ comp'.last = k.last /\ comp'.block = k.block
      /\ comp'.tail = k.tail /\ comp'.zerosFed = k.zerosFed
  <2> DEFINE r == [k.pending EXCEPT ![c] = q]
             e == [k.emitted EXCEPT ![c] = k.emitted[c] + n]
  <2>1. comp' = [latency |-> k.latency, skip |-> k.skip, pending |-> r, emitted |-> e,
                 fed |-> k.fed, last |-> k.last, block |-> k.block, tail |-> k.tail,
                 zerosFed |-> k.zerosFed]
    BY TakeIs DEF CompTypes
  <2> HIDE DEF r, e
  <2>2. /\ comp'.latency = k.latency /\ comp'.skip = k.skip /\ comp'.pending = r
        /\ comp'.emitted = e /\ comp'.fed = k.fed /\ comp'.last = k.last
        /\ comp'.block = k.block /\ comp'.tail = k.tail /\ comp'.zerosFed = k.zerosFed
    BY <2>1
  <2> QED
    BY <2>2 DEF r, e
<1>2. CompShape(comp')
  <2>1. comp' = [latency |-> comp'.latency, skip |-> comp'.skip, pending |-> comp'.pending,
                 emitted |-> comp'.emitted, fed |-> comp'.fed, last |-> comp'.last,
                 block |-> comp'.block, tail |-> comp'.tail, zerosFed |-> comp'.zerosFed]
    BY TakeIs DEF CompTypes
  <2> QED
    BY <1>1, <2>1 DEF CompTypes, CompShape
<1>3. served' = [served EXCEPT ![c] = v \o t] /\ served = [d \in Channels |-> served[d]]
  BY DEF Take, Stream
<1>4. served'[c] = v \o t /\ \A d \in Channels \ {c} : served'[d] = served[d]
  BY <1>3
<1>5. /\ comp'.pending[c] = q /\ comp'.emitted[c] = k.emitted[c] + n
      /\ \A d \in Channels \ {c} : comp'.pending[d] = k.pending[d] /\ comp'.emitted[d] = k.emitted[d]
  BY <1>1 DEF CompTypes, CompShape
<1>6. Made(comp') = Made(k)
  BY <1>1 DEF Made
<1>7. /\ p \in Seq(Int) /\ v \in Seq(Int) /\ Len(v) + Len(p) <= Made(k)
      /\ ~slips.erased =>
           /\ Len(v) + Len(p) = Made(k)
           /\ \A i \in 1..Len(v) : v[i] = i - 1
           /\ \A i \in 1..Len(p) : p[i] = Len(v) + i - 1
  BY DEF Stream, StreamOf
<1> HIDE DEF p, v
<1>8. Len(p) \in Nat /\ Len(v) \in Nat /\ n \in 0..Len(p) /\ \A i \in 1..Len(p) : p[i] \in Int
  BY <1>7, LenProperties, ElementOfSeq DEF p
<1>9. /\ q \in Seq(Int) /\ Len(q) = Len(p) - n /\ \A i \in 1..Len(p) - n : q[i] = p[n + i]
  <2> DEFINE m == n + 1
             l == Len(p)
  <2>1. m \in Int /\ l \in Int /\ \A i \in m..l : p[i] \in Int
    BY <1>8
  <2> HIDE DEF m, l
  <2>2. /\ SubSeq(p, m, l) \in Seq(Int)
        /\ Len(SubSeq(p, m, l)) = IF m <= l THEN l - m + 1 ELSE 0
        /\ \A i \in 1..l - m + 1 : SubSeq(p, m, l)[i] = p[m + i - 1]
    BY <2>1, SubSeqProperties
  <2>3. l - m + 1 = Len(p) - n /\ \A i \in 1..Len(p) - n : m + i - 1 = n + i
    BY <1>8 DEF m, l
  <2>4. Len(SubSeq(p, m, l)) = Len(p) - n
    BY <1>8, <2>2 DEF m, l
  <2>5. q = SubSeq(p, m, l)
    BY DEF m, l
  <2> QED
    BY <2>2, <2>3, <2>4, <2>5
<1>10. /\ t \in Seq(Int) /\ Len(t) = n /\ \A i \in 1..n : t[i] = p[i]
  <2>1. \A i \in 1..n : p[i] \in Int
    BY <1>8
  <2>2. /\ t \in Seq(Int) /\ Len(t) = IF 1 <= n THEN n - 1 + 1 ELSE 0
        /\ \A i \in 1..n - 1 + 1 : t[i] = p[1 + i - 1]
    BY <1>8, <2>1, SubSeqProperties
  <2>3. n - 1 + 1 = n /\ \A i \in 1..n : 1 + i - 1 = i
    BY <1>8
  <2>4. Len(t) = n
    BY <1>8, <2>2
  <2> QED
    BY <2>2, <2>3, <2>4
<1> HIDE DEF q, t
<1>11. /\ v \o t \in Seq(Int) /\ Len(v \o t) = Len(v) + n
       /\ \A i \in 1..Len(v) + n : (v \o t)[i] = IF i <= Len(v) THEN v[i] ELSE t[i - Len(v)]
  BY <1>7, <1>10, ConcatProperties
<1>12. (CompTypes(comp))'
  <2>1. comp'.emitted[c] = Len(served'[c])
    BY <1>4, <1>5, <1>11 DEF CompTypes, v
  <2>2. \A d \in Channels : comp'.emitted[d] = Len(served'[d])
    BY <1>4, <1>5, <2>1 DEF CompTypes
  <2> QED
    BY <1>1, <1>2, <2>2 DEF CompTypes, CompShape
<1>13. (Skips(comp))'
  BY <1>1 DEF Skips
<1>14. (StreamOf(comp, c))'
  <2> DEFINE w == v \o t
  <2>0. served'[c] = w /\ comp'.pending[c] = q
    BY <1>4, <1>5
  <2>1. w \in Seq(Int) /\ Len(w) = Len(v) + n
    BY <1>11
  <2>2. Len(w) + Len(q) = Len(v) + Len(p)
    BY <1>8, <1>9, <2>1
  <2>3. ASSUME ~slips.erased, NEW i \in 1..Len(w) PROVE w[i] = i - 1
    <3>1. CASE i <= Len(v)
      BY <1>7, <1>8, <1>11, <2>1, <2>3, <3>1
    <3>2. CASE ~(i <= Len(v))
      <4>1. i - Len(v) \in 1..n /\ i - Len(v) \in 1..Len(p) /\ i \in 1..Len(v) + n
        BY <1>8, <2>1, <3>2
      <4>2. w[i] = t[i - Len(v)] /\ t[i - Len(v)] = p[i - Len(v)]
        BY <1>10, <1>11, <3>2, <4>1
      <4>3. p[i - Len(v)] = Len(v) + (i - Len(v)) - 1
        BY <1>7, <2>3, <4>1
      <4> QED
        BY <1>8, <4>1, <4>2, <4>3
    <3> QED
      BY <3>1, <3>2
  <2>4. ASSUME ~slips.erased, NEW i \in 1..Len(q) PROVE q[i] = Len(w) + i - 1
    <3>1. n + i \in 1..Len(p) /\ i \in 1..Len(p) - n
      BY <1>8, <1>9
    <3>2. q[i] = p[n + i] /\ p[n + i] = Len(v) + (n + i) - 1
      BY <1>7, <1>9, <2>4, <3>1
    <3> QED
      BY <1>8, <2>1, <3>1, <3>2
  <2> HIDE DEF w
  <2>5. /\ w \in Seq(Int) /\ q \in Seq(Int) /\ Len(w) + Len(q) <= Made(k)
        /\ ~slips.erased =>
             /\ Len(w) + Len(q) = Made(k)
             /\ \A i \in 1..Len(w) : w[i] = i - 1
             /\ \A i \in 1..Len(q) : q[i] = Len(w) + i - 1
    BY <1>7, <1>9, <2>1, <2>2, <2>3, <2>4
  <2> QED
    BY <1>6, <2>0, <2>5 DEF StreamOf
<1>15. ASSUME NEW d \in Channels \ {c} PROVE (StreamOf(comp, d))'
  <2>1. StreamOf(k, d)
    BY DEF Stream
  <2>2. served'[d] = served[d] /\ comp'.pending[d] = k.pending[d]
    BY <1>4, <1>5
  <2> QED
    BY <1>6, <2>1, <2>2 DEF StreamOf
<1>16. (Stream(comp))'
  <2>1. served' = [d \in Channels |-> served'[d]]
    BY <1>3
  <2> QED
    BY <1>14, <1>15, <2>1 DEF Stream
<1> QED
  BY <1>1, <1>4, <1>8, <1>11, <1>12, <1>13, <1>16 DEF v

---------------------------------------------------------------------------
(* The invariant at the start, which a reopening repeats.                  *)

LEMMA Started ==
  ASSUME Assumptions
  PROVE  Init => IInv
<1> SUFFICES ASSUME NEW latency \in Latencies, host = NewHost(latency), comp = NewComp(latency),
                    left = -1, served = Each(<<>>), slips = NoSlips
             PROVE  IInv
  BY DEF Init
<1>1. latency \in Nat /\ Block \in Nat \ {0}
  BY DEF Assumptions
<1>2. /\ comp.latency = latency /\ comp.skip = latency /\ comp.pending = Each(<<>>)
      /\ comp.emitted = Each(0) /\ comp.fed = 0 /\ comp.last = 0 /\ comp.block = Each(FALSE)
      /\ comp.tail = Each(FALSE) /\ comp.zerosFed = FALSE
  BY DEF NewComp
<1>3. host.token = 0 /\ host.count = 0 /\ host.latency = latency
  BY DEF NewHost
<1>4. /\ slips.erased = FALSE /\ slips.behind = FALSE /\ slips.unread = FALSE
      /\ slips.failed = FALSE
  BY DEF NoSlips
<1>5. /\ << >> \in Seq(Int) /\ Len(<< >>) = 0
      /\ \A c \in Channels : served[c] = << >> /\ comp.pending[c] = << >>
  BY <1>2, EmptySeq DEF Each
<1>6. CompTypes(comp)
  BY <1>1, <1>2, <1>5 DEF CompTypes, CompShape, NewComp, Each
<1>7. HostTypes
  BY <1>1, <1>3, <1>4 DEF HostTypes, NewHost, NoSlips
<1>8. 0 * Block = 0
  BY <1>1
<1>9. Skips(comp)
  BY <1>1, <1>2, <1>8 DEF Skips, Pos
<1>10. Made(comp) = 0
  BY <1>1, <1>2, <1>8 DEF Made, Pos
<1>11. Stream(comp)
  <2>1. ASSUME NEW c \in Channels PROVE StreamOf(comp, c)
    <3> DEFINE e == << >>
    <3>1. e \in Seq(Int) /\ Len(e) = 0 /\ served[c] = e /\ comp.pending[c] = e
      BY <1>5
    <3> HIDE DEF e
    <3>2. 1..Len(e) = {} /\ Len(e) + Len(e) = 0
      BY <3>1
    <3>3. Len(served[c]) + Len(comp.pending[c]) = Made(comp)
      BY <1>10, <3>1, <3>2
    <3>4. Len(served[c]) + Len(comp.pending[c]) <= Made(comp)
      <4> DEFINE z == Len(served[c]) + Len(comp.pending[c])
      <4>1. z = 0
        BY <1>10, <3>3
      <4> HIDE DEF z
      <4>2. z <= Made(comp)
        BY <1>10, <4>1
      <4> QED
        BY <4>2 DEF z
    <3>5. 1..Len(served[c]) = {} /\ 1..Len(comp.pending[c]) = {}
      BY <3>1, <3>2
    <3> QED
      BY <3>1, <3>3, <3>4, <3>5 DEF StreamOf
  <2> QED
    BY <2>1 DEF Stream, Each
<1>12. BlockThere
  BY <1>2, <1>3 DEF BlockThere, Unread
<1>13. Flushed
  BY <1>2, <1>4, <1>5, <1>8 DEF Flushed, TailCompletes, Each
<1>14. Given(-1) = 0
  BY <1>1, <1>2, CeilBounds, Due
<1>15. Lags
  <2>1. comp.last - 1 = -1
    BY <1>2
  <2>2. \A c \in Channels : comp.block[c] = FALSE
    BY <1>2 DEF Each
  <2> QED
    BY <1>2, <1>5, <1>14, <2>1, <2>2 DEF Lags
<1> QED
  BY <1>6, <1>7, <1>9, <1>11, <1>12, <1>13, <1>15 DEF IInv

LEMMA StartedAgain ==
  ASSUME Assumptions
  PROVE  (Init => IInv)'
  BY Started, PTL

---------------------------------------------------------------------------
(* Every step keeps it.                                                    *)

\* Steps that leave the buffers and what was served alone.
LEMMA BuffersUntouched ==
  ASSUME Assumptions, IInv, UNCHANGED <<comp, served>>, slips'.erased = slips.erased \/ slips'.erased
  PROVE  (CompTypes(comp) /\ Skips(comp) /\ Stream(comp))'
<1>1. CompTypes(comp) /\ Skips(comp) /\ Stream(comp)
  BY DEF IInv
<1>2. (CompTypes(comp))' /\ (Skips(comp))'
  BY <1>1 DEF CompTypes, CompShape, Skips
<1>3. (Stream(comp))'
  BY <1>1 DEF Stream, StreamOf, Made
<1> QED
  BY <1>2, <1>3

LEMMA ProcessStep ==
  ASSUME Assumptions, IInv, Process
  PROVE  IInv'
<1>1. /\ host'.token = host.token + 1 /\ host'.count = Block
      /\ slips'.erased = slips.erased /\ slips'.failed = slips.failed
      /\ slips'.unread = slips.unread
      /\ slips'.behind = (slips.behind \/ (~Unread /\ host.token > 0 /\ \E c \in Channels : ~comp.block[c]))
  BY DEF Process, IInv, HostTypes
<1>2. (CompTypes(comp) /\ Skips(comp) /\ Stream(comp))'
  BY <1>1, BuffersUntouched DEF Process
<1>3. HostTypes'
  <2>1. HostTypes
    BY DEF IInv
  <2>2. host' = [host EXCEPT !.token = host.token + 1, !.count = Block] /\ left' = left
    BY DEF Process
  <2>3. host' = [token |-> host'.token, count |-> host'.count, latency |-> host'.latency]
    BY <2>1, <2>2 DEF HostTypes
  <2>4. slips' = [erased |-> slips'.erased, behind |-> slips'.behind, unread |-> slips'.unread,
                  failed |-> slips'.failed]
    BY <2>1 DEF Process, HostTypes
  <2> QED
    BY <1>1, <2>1, <2>2, <2>3, <2>4 DEF HostTypes
<1>4. host.token \in Nat /\ comp.last \in Nat /\ comp.last <= host.token
  BY DEF IInv, HostTypes, CompTypes, BlockThere
<1>5. BlockThere'
  BY <1>1, <1>4 DEF Process, BlockThere
<1>6. Flushed'
  BY <1>1 DEF Process, IInv, Flushed, TailCompletes
<1>7. Lags'
  <2>1. SUFFICES ASSUME ~slips'.erased, ~slips'.behind, ~comp.zerosFed, NEW c \in Channels
                 PROVE  /\ Len(served[c]) = Given(IF comp.block[c] THEN comp.last ELSE comp.last - 1)
                        /\ comp.last = 0 \/ comp.block[c]
    BY DEF Process, Lags, Given
  <2>2. /\ Len(served[c]) = Given(IF comp.block[c] THEN comp.last ELSE comp.last - 1)
        /\ Unread => comp.last = 0 \/ comp.block[c]
    BY <1>1, <2>1 DEF IInv, Lags
  <2>3. ~Unread => comp.last = 0 \/ comp.block[c]
    <3>1. CASE ~Unread /\ host.token > 0
      BY <1>1, <2>1, <3>1
    <3>2. CASE ~Unread /\ ~(host.token > 0)
      BY <1>4, <3>2 DEF Unread
    <3> QED
      BY <3>1, <3>2
  <2> QED
    BY <2>2, <2>3
<1> QED
  BY <1>2, <1>3, <1>5, <1>6, <1>7 DEF IInv

LEMMA ProcessErrorStep ==
  ASSUME Assumptions, IInv, ProcessError
  PROVE  IInv'
<1>1. /\ host'.token = host.token /\ host'.count = 0
      /\ slips'.erased = (slips.erased \/ Unread) /\ slips'.failed = slips.failed
      /\ slips'.unread = slips.unread /\ slips'.behind = slips.behind
  BY DEF ProcessError, IInv, HostTypes
<1>2. (CompTypes(comp) /\ Skips(comp) /\ Stream(comp))'
  <2>1. CompTypes(comp) /\ Skips(comp) /\ Stream(comp)
    BY DEF IInv
  <2>2. (CompTypes(comp))' /\ (Skips(comp))'
    BY <2>1 DEF CompTypes, CompShape, Skips, ProcessError
  <2>3. ASSUME NEW c \in Channels PROVE (StreamOf(comp, c))'
    BY <1>1, <2>1 DEF Stream, StreamOf, Made, ProcessError
  <2> QED
    BY <2>1, <2>2, <2>3 DEF Stream, ProcessError
<1>3. HostTypes'
  BY <1>1 DEF ProcessError, IInv, HostTypes
<1>4. Unread' = Unread
  BY <1>1 DEF Unread, ProcessError
<1>5. BlockThere'
  BY <1>1, <1>4 DEF ProcessError, IInv, BlockThere
<1>6. Flushed'
  BY <1>1 DEF ProcessError, IInv, Flushed, TailCompletes
<1>7. Lags'
  <2>1. SUFFICES ASSUME ~slips'.erased, ~slips'.behind, ~comp.zerosFed, NEW c \in Channels
                 PROVE  /\ Len(served[c]) = Given(IF comp.block[c] THEN comp.last ELSE comp.last - 1)
                        /\ Unread => comp.last = 0 \/ comp.block[c]
    BY <1>4 DEF ProcessError, Lags, Given
  <2> QED
    BY <1>1, <2>1 DEF IInv, Lags
<1> QED
  BY <1>2, <1>3, <1>5, <1>6, <1>7 DEF IInv

LEMMA LatencyStep ==
  ASSUME Assumptions, IInv, LatencyChanges
  PROVE  IInv'
<1>1. host'.token = host.token /\ host'.count = host.count
  BY DEF LatencyChanges, IInv, HostTypes
<1>2. (CompTypes(comp) /\ Skips(comp) /\ Stream(comp))'
  BY BuffersUntouched DEF LatencyChanges
<1>3. HostTypes'
  BY <1>1 DEF LatencyChanges, IInv, HostTypes
<1>4. Unread' = Unread
  BY <1>1 DEF Unread, LatencyChanges
<1>5. BlockThere'
  BY <1>1, <1>4 DEF LatencyChanges, IInv, BlockThere
<1>6. Flushed'
  BY DEF LatencyChanges, IInv, Flushed, TailCompletes
<1>7. Lags'
  BY <1>4 DEF LatencyChanges, IInv, Lags, Given
<1> QED
  BY <1>2, <1>3, <1>5, <1>6, <1>7 DEF IInv

LEMMA FlushBeginStep ==
  ASSUME Assumptions, IInv, FlushBegin
  PROVE  IInv'
<1>1. /\ comp'.latency = comp.latency /\ comp'.skip = comp.skip /\ comp'.pending = comp.pending
      /\ comp'.emitted = comp.emitted /\ comp'.fed = comp.fed /\ comp'.last = comp.last
      /\ comp'.block = comp.block /\ comp'.tail = comp.tail /\ comp'.zerosFed
      /\ slips'.erased = slips.erased /\ slips'.failed = slips.failed
  BY DEF FlushBegin, IInv, CompTypes, CompShape, HostTypes
<1>2. (CompTypes(comp) /\ Skips(comp) /\ Stream(comp))'
  <2>1. CompTypes(comp) /\ Skips(comp) /\ Stream(comp)
    BY DEF IInv
  <2>2. CompShape(comp')
    BY <2>1 DEF FlushBegin, CompTypes, CompShape
  <2>3. (CompTypes(comp))'
    BY <1>1, <2>1, <2>2 DEF FlushBegin, CompTypes, CompShape
  <2> QED
    BY <1>1, <2>1, <2>3 DEF FlushBegin, Skips, Stream, StreamOf, Made
<1>3. comp.latency \in Nat /\ Ceil(comp.latency) \in Nat
  BY CeilBounds DEF IInv, CompTypes
<1>4. HostTypes'
  BY <1>3 DEF FlushBegin, IInv, HostTypes
<1>5. BlockThere'
  BY <1>1 DEF FlushBegin, IInv, BlockThere
<1>6. Flushed'
  <2>1. comp.fed = comp.last * Block /\ \A c \in Channels : ~comp.tail[c]
    BY DEF FlushBegin, IInv, Flushed
  <2>2. (Ceil(comp.latency) - Pos(Ceil(comp.latency))) * Block = 0
    BY <1>3 DEF Pos, Assumptions
  <2>3. comp.fed \in Nat
    BY DEF IInv, CompTypes
  <2>4. comp.last * Block = comp.fed + (Ceil(comp.latency) - Pos(Ceil(comp.latency))) * Block
    BY <2>1, <2>2, <2>3
  <2> QED
    BY <1>1, <2>1, <2>4 DEF FlushBegin, IInv, Flushed, TailCompletes
<1>7. Lags'
  BY <1>1 DEF Lags
<1> QED
  BY <1>2, <1>4, <1>5, <1>6, <1>7 DEF IInv

LEMMA FlushBlockStep ==
  ASSUME Assumptions, IInv, FlushBlock
  PROVE  IInv'
<1> DEFINE h == [host EXCEPT !.token = @ + 1, !.count = Block]
<1>1. HostTypes /\ CompTypes(comp) /\ Skips(comp) /\ Stream(comp)
  BY DEF IInv
<1>2. h.token = host.token + 1 /\ h.count = Block /\ left > 0 /\ served' = served
  BY <1>1 DEF HostTypes, FlushBlock
<1>3. h = [token |-> h.token, count |-> h.count, latency |-> h.latency] /\ h.token \in Nat
  <2>1. host.token \in Nat
    BY <1>1 DEF HostTypes
  <2> DEFINE t == host.token + 1
  <2>2. t \in Nat /\ h = [host EXCEPT !.token = t, !.count = Block]
    BY <2>1
  <2> HIDE DEF h, t
  <2>3. h = [token |-> t, count |-> Block, latency |-> host.latency]
    BY <1>1, <2>2 DEF HostTypes
  <2> QED
    BY <2>2, <2>3
<1>4. comp.zerosFed
  BY <1>1, <1>2 DEF IInv, Flushed, CompTypes
<1>5. CASE CanDrain(h) /\ host' = h /\ comp' = Drain(h, FALSE) /\ left' = left - 1 /\ UNCHANGED slips
  <2> HIDE DEF h
  <2>1. h.token = comp.last + 1
    BY <1>5 DEF CanDrain
  <2>2. /\ CompTypes(comp') /\ Skips(comp') /\ Stream(comp')
        /\ comp'.latency = comp.latency /\ comp'.last = comp.last + 1
        /\ comp'.zerosFed = comp.zerosFed /\ comp'.fed = comp.fed /\ comp'.tail = comp.tail
    BY <1>1, <1>2, <1>5, <2>1, DrainKeeps
  <2>3. (CompTypes(comp) /\ Skips(comp) /\ Stream(comp))'
    BY <1>2, <1>5, <2>2 DEF CompTypes, CompShape, Skips, Stream, StreamOf, Made
  <2>4. left' \in Nat /\ left \in Nat
    BY <1>1, <1>2, <1>5 DEF HostTypes
  <2>5. HostTypes'
    BY <1>1, <1>2, <1>3, <1>5, <2>4 DEF HostTypes
  <2>6. BlockThere'
    <3>1. comp'.zerosFed
      BY <1>4, <2>2
    <3>2. comp'.last <= host'.token
      <4>1. comp'.last = host'.token /\ host'.token = h.token
        BY <1>5, <2>1, <2>2
      <4>2. host'.token \in Nat
        BY <1>3, <4>1
      <4> QED
        BY <4>1, <4>2
    <3> QED
      BY <3>1, <3>2 DEF BlockThere
  <2>7. Flushed'
    <3>1. CASE slips.failed \/ slips.unread
      BY <1>2, <1>4, <1>5, <2>2, <3>1 DEF IInv, Flushed, TailCompletes
    <3>2. CASE ~slips.failed /\ ~slips.unread
      <4> DEFINE C == Ceil(comp.latency)
                 X == (C - left) * Block
      <4>1. C \in Nat /\ comp.fed \in Nat /\ Block \in Nat /\ comp.last \in Nat
        BY <1>1, CeilBounds DEF CompTypes, Assumptions
      <4>2. Pos(left) = left /\ Pos(left') = left - 1
        BY <1>2, <1>5, <2>4 DEF Pos
      <4>3. comp.last * Block = comp.fed + X
        BY <1>4, <3>2, <4>2 DEF IInv, Flushed
      <4> HIDE DEF C, X
      <4>4. X \in Int /\ (C - (left - 1)) * Block = X + Block
        <5>1. X \in Int /\ X = C * Block - left * Block
          BY <2>4, <4>1, OneMore DEF X
        <5>2. (C - (left - 1)) * Block = C * Block - left * Block + Block
          BY <2>4, <4>1, OneMore
        <5>3. C * Block \in Int /\ left * Block \in Int
          BY <2>4, <4>1
        <5> QED
          BY <4>1, <5>1, <5>2, <5>3
      <4>5. (comp.last + 1) * Block = comp.last * Block + Block
        BY <4>1, OneMore
      <4>6. (comp.last + 1) * Block = comp.fed + (C - (left - 1)) * Block
        BY <4>1, <4>3, <4>4, <4>5
      <4>7. comp'.last * Block = comp'.fed + (Ceil(comp'.latency) - Pos(left')) * Block
        BY <2>2, <4>2, <4>6 DEF C
      <4> QED
        BY <1>2, <1>4, <1>5, <2>2, <4>7 DEF IInv, Flushed, TailCompletes
    <3> QED
      BY <3>1, <3>2
  <2>8. Lags'
    BY <1>4, <2>2 DEF Lags
  <2> QED
    BY <2>3, <2>5, <2>6, <2>7, <2>8 DEF IInv
<1>6. CASE /\ host' = [host EXCEPT !.count = 0] \/ (~CanDrain(h) /\ host' = h)
           /\ left' = -1 /\ slips' = [slips EXCEPT !.failed = TRUE] /\ UNCHANGED comp
  <2>1. slips'.failed /\ slips'.erased = slips.erased /\ slips'.unread = slips.unread
    BY <1>1, <1>6 DEF HostTypes
  <2>2. (CompTypes(comp) /\ Skips(comp) /\ Stream(comp))'
    <3>1. (CompTypes(comp))' /\ (Skips(comp))'
      BY <1>1, <1>2, <1>6 DEF CompTypes, CompShape, Skips
    <3> QED
      BY <1>1, <1>2, <1>6, <2>1, <3>1 DEF Stream, StreamOf, Made
  <2>3. slips' = [erased |-> slips'.erased, behind |-> slips'.behind, unread |-> slips'.unread,
                  failed |-> slips'.failed]
    BY <1>1, <1>6 DEF HostTypes
  <2>4. /\ host' = [token |-> host'.token, count |-> host'.count, latency |-> host'.latency]
        /\ host'.token \in Nat /\ host'.count \in {0, Block} /\ host'.token >= host.token
    <3>1. CASE host' = [host EXCEPT !.count = 0]
      BY <1>1, <3>1 DEF HostTypes
    <3>2. CASE host' = h
      <4>1. host.token \in Nat
        BY <1>1 DEF HostTypes
      <4> HIDE DEF h
      <4> QED
        BY <1>2, <1>3, <3>2, <4>1
    <3> QED
      BY <1>6, <3>1, <3>2
  <2>5. HostTypes'
    BY <1>6, <2>3, <2>4 DEF HostTypes
  <2>6. BlockThere'
    BY <1>1, <1>4, <1>6, <2>4 DEF IInv, BlockThere, HostTypes, CompTypes
  <2>7. Flushed'
    BY <1>2, <1>4, <1>6, <2>1 DEF IInv, Flushed, TailCompletes
  <2>8. Lags'
    BY <1>4, <1>6 DEF Lags
  <2> QED
    BY <2>2, <2>5, <2>6, <2>7, <2>8 DEF IInv
<1> QED
  BY <1>5, <1>6 DEF FlushBlock

\* Marking a channel as read, or as flushed, touches no sample.
Read(k, c) == [k EXCEPT !.block[c] = TRUE]
Tailed(k, c) == [k EXCEPT !.tail[c] = TRUE]

LEMMA MarkBlock ==
  ASSUME Assumptions, NEW k, CompTypes(k), Skips(k), Stream(k), NEW c \in Channels
  PROVE  LET m == Read(k, c) IN
         /\ CompTypes(m) /\ Skips(m) /\ Stream(m)
         /\ m.latency = k.latency /\ m.last = k.last /\ m.fed = k.fed /\ m.zerosFed = k.zerosFed
         /\ m.tail = k.tail /\ m.pending = k.pending /\ m.emitted = k.emitted
         /\ m.block = [k.block EXCEPT ![c] = TRUE]
<1> DEFINE m == Read(k, c)
           b == [k.block EXCEPT ![c] = TRUE]
<1>1. m = [k EXCEPT !.block = b]
  BY DEF Read
<1>2. b = [d \in Channels |-> IF d = c THEN TRUE ELSE k.block[d]]
  BY DEF CompTypes, CompShape
<1> HIDE DEF b, m
<1>3. m = [latency |-> k.latency, skip |-> k.skip, pending |-> k.pending,
           emitted |-> k.emitted, fed |-> k.fed, last |-> k.last, block |-> b,
           tail |-> k.tail, zerosFed |-> k.zerosFed]
  BY <1>1 DEF CompTypes, CompShape
<1>4. /\ m.latency = k.latency /\ m.last = k.last /\ m.fed = k.fed /\ m.zerosFed = k.zerosFed
      /\ m.tail = k.tail /\ m.pending = k.pending /\ m.emitted = k.emitted /\ m.block = b
      /\ m.skip = k.skip
  BY <1>3
<1>5. CompShape(m)
  BY <1>2, <1>3, <1>4 DEF CompTypes, CompShape
<1>6. CompTypes(m)
  BY <1>2, <1>4, <1>5 DEF CompTypes
<1>7. Skips(m) /\ Stream(m)
  BY <1>4 DEF Skips, Stream, StreamOf, Made
<1> QED
  BY <1>4, <1>6, <1>7 DEF b, m

LEMMA MarkTail ==
  ASSUME Assumptions, NEW k, CompTypes(k), Skips(k), Stream(k), NEW c \in Channels
  PROVE  LET m == Tailed(k, c) IN
         /\ CompTypes(m) /\ Skips(m) /\ Stream(m)
         /\ m.latency = k.latency /\ m.last = k.last /\ m.fed = k.fed /\ m.zerosFed = k.zerosFed
         /\ m.block = k.block /\ m.pending = k.pending /\ m.emitted = k.emitted
         /\ m.tail = [k.tail EXCEPT ![c] = TRUE]
<1> DEFINE m == Tailed(k, c)
           b == [k.tail EXCEPT ![c] = TRUE]
<1>1. m = [k EXCEPT !.tail = b]
  BY DEF Tailed
<1>2. b = [d \in Channels |-> IF d = c THEN TRUE ELSE k.tail[d]]
  BY DEF CompTypes, CompShape
<1> HIDE DEF b, m
<1>3. m = [latency |-> k.latency, skip |-> k.skip, pending |-> k.pending,
           emitted |-> k.emitted, fed |-> k.fed, last |-> k.last, block |-> k.block,
           tail |-> b, zerosFed |-> k.zerosFed]
  BY <1>1 DEF CompTypes, CompShape
<1>4. /\ m.latency = k.latency /\ m.last = k.last /\ m.fed = k.fed /\ m.zerosFed = k.zerosFed
      /\ m.tail = b /\ m.pending = k.pending /\ m.emitted = k.emitted /\ m.block = k.block
      /\ m.skip = k.skip
  BY <1>3
<1>5. CompShape(m)
  BY <1>2, <1>3, <1>4 DEF CompTypes, CompShape
<1>6. CompTypes(m)
  BY <1>2, <1>4, <1>5 DEF CompTypes
<1>7. Skips(m) /\ Stream(m)
  BY <1>4 DEF Skips, Stream, StreamOf, Made
<1> QED
  BY <1>4, <1>6, <1>7 DEF b, m

\* A read that follows each block hands out the block that has come due.
LEMMA WholeIsDue ==
  ASSUME Assumptions, comp.latency \in Nat, NEW m \in Nat, NEW v \in Nat, NEW p \in Nat
  PROVE  v = Given(m - 1) /\ v + p = Pos(m * Block - comp.latency) => v + Whole(p) = Given(m)
<1> DEFINE C == Ceil(comp.latency)
           L == comp.latency
           K == C * Block
           M == m * Block
<1>1. /\ C \in Nat /\ K \in Nat /\ L \in Nat /\ Block \in Nat \ {0}
      /\ L <= K /\ K <= L + Block - 1
  BY CeilBounds DEF Assumptions
<1>2. /\ M \in Nat /\ (m - 1) * Block = M - Block
      /\ m > C => M >= K + Block
      /\ m <= C => M <= K
  <2>1. (m - 1) * Block \in Int /\ m * Block = (m - 1) * Block + Block
    <3> DEFINE l == m - 1
    <3>1. l \in Int /\ l + 1 = m
      OBVIOUS
    <3> HIDE DEF l
    <3>2. l * Block \in Int /\ (l + 1) * Block = l * Block + Block
      BY <3>1, OneMore
    <3> QED
      BY <3>1, <3>2 DEF l
  <2>2. M \in Nat /\ (m > C => M >= K + Block) /\ (m <= C => M <= K)
    BY <1>1, OneMore
  <2> QED
    BY <1>1, <2>1, <2>2
<1>3. Given(m - 1) = IF m - 1 > C THEN (m - 1) * Block - K ELSE 0
  BY Due
<1>4. Given(m) = IF m > C THEN M - K ELSE 0
  BY Due
<1>5. m = C + 1 => M = K + Block
  BY <1>1, OneMore
<1>6. ASSUME v = Given(m - 1), v + p = Pos(M - L) PROVE v + Whole(p) = Given(m)
  <2> HIDE DEF C, L, K, M
  <2>1. M \in Nat /\ K \in Nat /\ L \in Nat /\ L <= K /\ K <= L + Block - 1
    BY <1>1, <1>2
  <2>2. /\ M >= K + Block /\ v = M - Block - K => v + Whole(p) = M - K
        /\ M <= K /\ v = 0 => v + Whole(p) = 0
    <3>1. ASSUME M >= K + Block, v = M - Block - K PROVE v + Whole(p) = M - K
      <4>1. p = Block + K - L
        BY <1>1, <1>6, <2>1, <3>1 DEF Pos
      <4>2. Whole(p) = Block
        BY <1>1, <2>1, <4>1 DEF Whole
      <4> QED
        BY <1>1, <2>1, <3>1, <4>2
    <3>2. ASSUME M <= K, v = 0 PROVE v + Whole(p) = 0
      <4>1. p <= Block - 1
        BY <1>1, <1>6, <2>1, <3>2 DEF Pos
      <4> QED
        BY <1>1, <3>2, <4>1 DEF Whole
    <3> QED
      BY <3>1, <3>2
  <2>3. m > C => v = M - Block - K
    <3>1. CASE m - 1 > C
      BY <1>2, <1>3, <1>6, <3>1
    <3>2. CASE m = C + 1
      BY <1>1, <1>2, <1>3, <1>5, <1>6, <3>2
    <3> QED
      BY <1>1, <3>1, <3>2
  <2>4. m <= C => v = 0
    BY <1>1, <1>3, <1>6
  <2>5. CASE m > C
    BY <1>2, <1>4, <2>2, <2>3, <2>5
  <2>6. CASE m <= C
    BY <1>1, <1>2, <1>4, <2>2, <2>4, <2>6
  <2> QED
    BY <1>1, <2>5, <2>6
<1> QED
  BY <1>6

LEMMA OutStep ==
  ASSUME Assumptions, IInv, NEW c \in Channels, Out(c)
  PROVE  IInv'
<1> DEFINE k == IF Unread THEN Drain(host, TRUE) ELSE comp
           m == [k EXCEPT !.block[c] = TRUE]
           n == Whole(Len(m.pending[c]))
<1>1. HostTypes /\ CompTypes(comp) /\ Skips(comp) /\ Stream(comp)
  BY DEF IInv
<1>2. /\ left = -1 /\ ~comp.zerosFed /\ (Unread => CanDrain(host)) /\ ~k.block[c]
      /\ UNCHANGED <<host, left, slips>>
  BY DEF Out
<1>3. /\ comp.fed = comp.last * Block /\ ~slips.failed /\ \A d \in Channels : ~comp.tail[d]
  BY <1>2 DEF IInv, Flushed
<1>4. comp.latency \in Nat /\ comp.last \in Nat /\ comp.fed \in Nat /\ Block \in Nat \ {0}
  BY <1>1 DEF CompTypes, Assumptions
<1>5. /\ CompTypes(k) /\ Skips(k) /\ Stream(k) /\ k.latency = comp.latency
      /\ k.last = host.token /\ k.zerosFed = comp.zerosFed /\ k.tail = comp.tail
      /\ k.fed = k.last * Block
      /\ ~slips.erased /\ ~slips.behind =>
           \A d \in Channels : Len(served[d]) = Given(IF k.block[d] THEN k.last ELSE k.last - 1)
  <2>1. CASE Unread
    <3>1. host.token = comp.last + 1 /\ k = Drain(host, TRUE)
      BY <1>2, <2>1 DEF CanDrain
    <3>2. host.count \in {0, Block} /\ (~slips.erased => host.count = Block)
      BY <1>1, <1>2, <2>1 DEF IInv, BlockThere, HostTypes
    <3> HIDE DEF k
    <3>3. /\ CompTypes(k) /\ Skips(k) /\ Stream(k) /\ k.latency = comp.latency
          /\ k.last = comp.last + 1 /\ k.zerosFed = comp.zerosFed /\ k.tail = comp.tail
          /\ k.fed = comp.fed + Block /\ k.block = Each(FALSE)
      BY <1>1, <3>1, <3>2, DrainKeeps
    <3>4. k.fed = k.last * Block
      <4>1. (comp.last + 1) * Block = comp.last * Block + Block
        BY <1>4, OneMore
      <4> QED
        BY <1>3, <3>3, <4>1
    <3>5. ASSUME ~slips.erased, ~slips.behind, NEW d \in Channels
          PROVE  Len(served[d]) = Given(IF k.block[d] THEN k.last ELSE k.last - 1)
      <4>1. /\ Len(served[d]) = Given(IF comp.block[d] THEN comp.last ELSE comp.last - 1)
            /\ comp.last = 0 \/ comp.block[d]
        BY <1>2, <2>1, <3>5 DEF IInv, Lags
      <4>2. Given(0) = 0 /\ Given(-1) = 0
        BY <1>4, CeilBounds, Due
      <4>3. Len(served[d]) = Given(comp.last)
        <5>1. CASE comp.block[d]
          BY <4>1, <5>1
        <5>2. CASE ~comp.block[d]
          <6>1. comp.last = 0 /\ comp.last - 1 = -1
            BY <4>1, <5>2
          <6> QED
            BY <4>1, <4>2, <5>2, <6>1
        <5> QED
          BY <5>1, <5>2
      <4>4. k.block[d] = FALSE /\ k.last - 1 = comp.last
        BY <1>4, <3>3 DEF Each
      <4> QED
        BY <4>3, <4>4
    <3> QED
      BY <3>1, <3>3, <3>4, <3>5
  <2>2. CASE ~Unread
    <3>1. k = comp /\ host.token = comp.last
      BY <2>2 DEF Unread
    <3> HIDE DEF k
    <3>2. ~slips.erased /\ ~slips.behind =>
            \A d \in Channels : Len(served[d]) = Given(IF k.block[d] THEN k.last ELSE k.last - 1)
      BY <1>2, <3>1 DEF IInv, Lags
    <3> QED
      BY <1>1, <1>3, <3>1, <3>2
  <2> QED
    BY <2>1, <2>2
<1>6. Take(m, c, n)
  <2>1. m.pending = k.pending
    <3> HIDE DEF k
    <3> QED
      BY <1>5, MarkBlock
  <2> QED
    BY <2>1 DEF Out
<1> HIDE DEF k
<1>marked. m = Read(k, c)
  BY DEF Read
<1> HIDE DEF m
<1>7. /\ CompTypes(m) /\ Skips(m) /\ Stream(m) /\ m.latency = k.latency /\ m.last = k.last
      /\ m.fed = k.fed /\ m.zerosFed = k.zerosFed /\ m.tail = k.tail
      /\ m.block = [k.block EXCEPT ![c] = TRUE]
  BY <1>5, <1>marked, MarkBlock
<1> DEFINE p == m.pending[c]
<1>8. StreamOf(m, c) /\ Len(p) \in Nat /\ Len(served[c]) \in Nat
  BY <1>7, LenProperties DEF Stream, StreamOf
<1>9. n \in 0..Len(p)
  <2> HIDE DEF p
  <2>1. Whole(Len(p)) \in 0..Len(p)
    BY <1>4, <1>8 DEF Whole
  <2> QED
    BY <2>1 DEF p
<1> HIDE DEF n
<1>10. /\ (CompTypes(comp) /\ Skips(comp) /\ Stream(comp))'
       /\ comp'.latency = m.latency /\ comp'.last = m.last /\ comp'.zerosFed = m.zerosFed
       /\ comp'.fed = m.fed /\ comp'.block = m.block /\ comp'.tail = m.tail
       /\ Len(served[c]) \in Nat /\ Len(served'[c]) = Len(served[c]) + n
       /\ \A d \in Channels \ {c} : served'[d] = served[d]
  BY <1>2, <1>6, <1>7, <1>9, TakeKeeps
<1>11. HostTypes'
  BY <1>1, <1>2 DEF HostTypes
<1>12. comp'.last = host'.token /\ host'.token \in Nat /\ ~Unread'
  BY <1>1, <1>2, <1>5, <1>7, <1>10 DEF HostTypes, Unread
<1>13. BlockThere'
  BY <1>12 DEF BlockThere
<1>14. ~comp'.zerosFed /\ (\A d \in Channels : ~comp'.tail[d]) /\ comp'.fed = comp'.last * Block
  BY <1>2, <1>3, <1>5, <1>7, <1>10
<1>15. Flushed'
  <2>1. ASSUME NEW d \in Channels PROVE Len(served'[d]) <= comp'.fed
    <3> DEFINE v == served'[d]
               q == comp'.pending[d]
               M == comp'.last * Block
    <3>1. v \in Seq(Int) /\ q \in Seq(Int) /\ Len(v) + Len(q) <= Pos(M - comp'.latency)
      BY <1>10 DEF Stream, StreamOf, Made
    <3>2. M \in Nat /\ comp'.latency \in Nat
      <4>1. comp'.last \in Nat /\ comp'.latency \in Nat
        BY <1>10 DEF CompTypes
      <4> QED
        BY <4>1 DEF Assumptions
    <3> HIDE DEF v, q, M
    <3>3. Len(v) \in Nat /\ Len(q) \in Nat
      BY <3>1, LenProperties
    <3>4. Pos(M - comp'.latency) <= M /\ Pos(M - comp'.latency) \in Int
      BY <3>2 DEF Pos
    <3>5. Len(v) <= M
      BY <3>1, <3>2, <3>3, <3>4
    <3> QED
      BY <1>14, <3>5 DEF v, M
  <2> QED
    BY <1>2, <1>3, <1>14, <2>1 DEF Flushed, TailCompletes
<1>16. Lags'
  <2>1. SUFFICES ASSUME ~slips.erased, ~slips.behind, NEW d \in Channels
                 PROVE  Len(served'[d]) = (Given(IF comp.block[d] THEN comp.last ELSE comp.last - 1))'
    BY <1>2, <1>12 DEF Lags
  <2>2. /\ Len(served[d]) = Given(IF k.block[d] THEN k.last ELSE k.last - 1)
        /\ comp'.last = k.last /\ comp'.latency = comp.latency
        /\ comp'.block = [k.block EXCEPT ![c] = TRUE] /\ k.block = [e \in Channels |-> k.block[e]]
    BY <1>5, <1>7, <1>10, <2>1 DEF CompTypes, CompShape
  <2>3. CASE d # c
    <3>1. served'[d] = served[d] /\ comp'.block[d] = k.block[d]
      BY <1>10, <2>2, <2>3
    <3> QED
      BY <2>2, <3>1 DEF Given
  <2>4. CASE d = c
    <3>1. comp'.block[c] = TRUE /\ Len(served[c]) = Given(k.last - 1)
      BY <1>2, <2>2, <2>4
    <3>2. Len(served[c]) + Len(p) = Pos(k.last * Block - comp.latency)
      BY <1>5, <1>7, <1>8, <2>1 DEF StreamOf, Made
    <3>3. k.last \in Nat
      BY <1>5 DEF CompTypes
    <3> DEFINE v == Len(served[c])
               l == Len(p)
    <3> HIDE DEF v, l
    <3>4. v \in Nat /\ l \in Nat /\ v = Given(k.last - 1) /\ v + l = Pos(k.last * Block - comp.latency)
      BY <1>8, <3>1, <3>2 DEF v, l
    <3>5. v + Whole(l) = Given(k.last)
      BY <1>4, <3>3, <3>4, WholeIsDue
    <3>6. Len(served'[c]) = Given(k.last)
      BY <1>10, <3>5 DEF v, l, n, p
    <3> QED
      BY <2>2, <2>4, <3>1, <3>6 DEF Given
  <2> QED
    BY <2>3, <2>4
<1> QED
  BY <1>10, <1>11, <1>13, <1>15, <1>16 DEF IInv

LEMMA FlushTailStep ==
  ASSUME Assumptions, IInv, NEW c \in Channels, FlushTail(c)
  PROVE  IInv'
<1> DEFINE m == [comp EXCEPT !.tail[c] = TRUE]
           p == m.pending[c]
           n == LeastOf(comp.fed - comp.emitted[c], Len(comp.pending[c]))
<1>1. HostTypes /\ CompTypes(comp) /\ Skips(comp) /\ Stream(comp)
  BY DEF IInv
<1>2. /\ comp.zerosFed /\ left \in {-1, 0} /\ left' = -1 /\ UNCHANGED <<host, slips>>
      /\ Take(m, c, n)
  BY DEF FlushTail
<1>3. m = Tailed(comp, c)
  BY DEF Tailed
<1> HIDE DEF m
<1>4. /\ CompTypes(m) /\ Skips(m) /\ Stream(m) /\ m.latency = comp.latency /\ m.last = comp.last
      /\ m.fed = comp.fed /\ m.zerosFed = comp.zerosFed /\ m.block = comp.block
      /\ m.pending = comp.pending /\ m.tail = [comp.tail EXCEPT ![c] = TRUE]
  BY <1>1, <1>3, MarkTail
<1>5. /\ StreamOf(comp, c) /\ Len(comp.pending[c]) \in Nat /\ Len(served[c]) \in Nat
      /\ comp.emitted[c] = Len(served[c]) /\ comp.fed \in Nat /\ Len(served[c]) <= comp.fed
  BY <1>1, LenProperties DEF IInv, CompTypes, Stream, StreamOf, Flushed
<1> DEFINE v == Len(served[c])
           l == Len(comp.pending[c])
<1>6. v \in Nat /\ l \in Nat /\ v <= comp.fed /\ n = LeastOf(comp.fed - v, l)
  BY <1>5
<1> HIDE DEF v, l, n
<1>7. n \in 0..l /\ v + n <= comp.fed /\ (v + l >= comp.fed => v + n = comp.fed)
  BY <1>5, <1>6 DEF LeastOf
<1>8. n \in 0..Len(m.pending[c])
  BY <1>4, <1>7 DEF l
<1>9. /\ (CompTypes(comp) /\ Skips(comp) /\ Stream(comp))'
      /\ comp'.latency = m.latency /\ comp'.last = m.last /\ comp'.zerosFed = m.zerosFed
      /\ comp'.fed = m.fed /\ comp'.block = m.block /\ comp'.tail = m.tail
      /\ Len(served[c]) \in Nat /\ Len(served'[c]) = Len(served[c]) + n
      /\ \A d \in Channels \ {c} : served'[d] = served[d]
  BY <1>2, <1>4, <1>8, TakeKeeps
<1>10. HostTypes'
  BY <1>1, <1>2 DEF HostTypes
<1>11. comp'.zerosFed
  BY <1>2, <1>4, <1>9
<1>12. BlockThere'
  BY <1>2, <1>4, <1>9, <1>11 DEF IInv, BlockThere
<1>13. Lags'
  BY <1>11 DEF Lags
<1>ceil. Ceil(comp.latency) - 0 = Ceil(comp.latency)
  <2> DEFINE C == Ceil(comp.latency)
  <2>1. C \in Nat
    BY <1>1, CeilBounds DEF CompTypes
  <2> HIDE DEF C
  <2>2. C - 0 = C
    BY <2>1
  <2> QED
    BY <2>2 DEF C
<1>14. ~slips.failed /\ ~slips.unread =>
         comp.last * Block = comp.fed + Ceil(comp.latency) * Block
  <2>1. Pos(left) = 0
    BY <1>2 DEF Pos
  <2>2. Ceil(comp.latency) - 0 = Ceil(comp.latency)
    BY <1>ceil
  <2> QED
    BY <1>2, <2>1, <2>2 DEF IInv, Flushed
<1>15. ~slips.erased /\ ~slips.failed /\ ~slips.unread => Len(served'[c]) = comp.fed
  <2>1. SUFFICES ASSUME ~slips.erased, ~slips.failed, ~slips.unread
                 PROVE  v + l >= comp.fed
    BY <1>7, <1>9 DEF v
  <2> DEFINE M == comp.last * Block
             K == Ceil(comp.latency) * Block
  <2>2. v + l = Pos(M - comp.latency)
    BY <1>5, <2>1 DEF StreamOf, Made, v, l
  <2>3. M = comp.fed + K
    BY <1>14, <2>1
  <2>4. K \in Nat /\ comp.latency \in Nat /\ comp.latency <= K
    BY <1>1, CeilBounds DEF CompTypes
  <2> HIDE DEF M, K
  <2> QED
    BY <1>5, <1>6, <2>2, <2>3, <2>4 DEF Pos
<1>16. ASSUME NEW d \in Channels PROVE Len(served'[d]) <= comp.fed
  BY <1>7, <1>9 DEF IInv, Flushed, v
<1>17. (TailCompletes)'
  <2>1. SUFFICES ASSUME NEW d \in Channels, comp'.tail[d], ~slips.erased, ~slips.failed, ~slips.unread
                 PROVE  Len(served'[d]) = comp.fed /\ \A i \in 1..comp.fed : served'[d][i] = i - 1
    BY <1>2, <1>4, <1>9 DEF TailCompletes
  <2>2. CASE d = c
    <3>1. Len(served'[c]) = comp.fed
      BY <1>15, <2>1
    <3>2. \A i \in 1..Len(served'[c]) : served'[c][i] = i - 1
      BY <1>2, <1>9, <2>1 DEF Stream, StreamOf
    <3> QED
      BY <2>2, <3>1, <3>2
  <2>3. CASE d # c
    <3>1. comp.tail[d] /\ served'[d] = served[d]
      BY <1>1, <1>4, <1>9, <2>1, <2>3 DEF CompTypes, CompShape
    <3> QED
      BY <2>1, <3>1 DEF IInv, Flushed, TailCompletes
  <2> QED
    BY <2>2, <2>3
<1>18. Flushed'
  <2>1. Pos(left') = 0
    BY <1>2 DEF Pos
  <2>2. Ceil(comp.latency) - 0 = Ceil(comp.latency)
    BY <1>ceil
  <2>3. ~slips.failed /\ ~slips.unread =>
          comp'.last * Block = comp'.fed + (Ceil(comp'.latency) - Pos(left')) * Block
    BY <1>4, <1>9, <1>14, <2>1, <2>2
  <2>4. \A d \in Channels : Len(served'[d]) <= comp'.fed
    BY <1>4, <1>9, <1>16
  <2> QED
    BY <1>2, <1>11, <1>17, <2>3, <2>4 DEF Flushed
<1> QED
  BY <1>9, <1>10, <1>12, <1>13, <1>18 DEF IInv

---------------------------------------------------------------------------
(* The theorems.                                                           *)

LEMMA Invariance ==
  ASSUME Assumptions
  PROVE  Spec => []IInv
<1>1. Init => IInv
  BY Started DEF Init
<1>2. IInv /\ [Next]_vars => IInv'
  <2> SUFFICES ASSUME IInv, [Next]_vars PROVE IInv'
    OBVIOUS
  <2>1. CASE Process
    BY <2>1, ProcessStep
  <2>2. CASE ProcessError
    BY <2>2, ProcessErrorStep
  <2>3. CASE LatencyChanges
    BY <2>3, LatencyStep
  <2>4. CASE FlushBegin
    BY <2>4, FlushBeginStep
  <2>5. CASE FlushBlock
    BY <2>5, FlushBlockStep
  <2>6. CASE Reopen
    <3>1. PICK latency \in Latencies : host' = NewHost(latency) /\ comp' = NewComp(latency)
      BY <2>6 DEF Reopen
    <3>2. left' = -1 /\ served' = Each(<<>>) /\ slips' = NoSlips
      BY <2>6 DEF Reopen
    <3>3. Init'
      BY <3>1, <3>2 DEF Init
    <3> QED
      BY <3>3, StartedAgain
  <2>7. ASSUME NEW c \in Channels, Out(c) PROVE IInv'
    BY <2>7, OutStep
  <2>8. ASSUME NEW c \in Channels, FlushTail(c) PROVE IInv'
    BY <2>8, FlushTailStep
  <2>9. CASE UNCHANGED vars
    BY <2>9 DEF vars, IInv, CompTypes, CompShape, HostTypes, Skips, Stream, StreamOf, Made,
                BlockThere, Unread, Flushed, TailCompletes, Lags, Given
  <2> QED
    BY <2>1, <2>2, <2>3, <2>4, <2>5, <2>6, <2>7, <2>8, <2>9 DEF Next
<1> QED
  BY <1>1, <1>2, PTL DEF Spec

\* What clap_out hands out is the input from its first sample, without the
\* pre-roll, without a gap and in order, on every channel, for every block
\* length and latency, as long as no error has emptied an unread block.
THEOREM AlignedStream ==
  ASSUME Assumptions
  PROVE  Spec => []Aligned
<1>1. IInv => Aligned
  BY DEF IInv, Stream, StreamOf, Aligned
<1> QED
  BY <1>1, Invariance, PTL

\* A channel that is read of every block has been given, after block k, the
\* first k - ceil(N/B) blocks: the lag is the ceiling, for every N and B.
THEOREM LagBound ==
  ASSUME Assumptions
  PROVE  Spec => []LagIsCeiling
<1>1. IInv => LagIsCeiling
  <2> SUFFICES ASSUME IInv, ~slips.erased, ~slips.behind, ~comp.zerosFed,
                      NEW c \in Channels, comp.block[c]
               PROVE  Len(served[c]) = IF comp.last > Ceil(comp.latency)
                                       THEN (comp.last - Ceil(comp.latency)) * Block ELSE 0
    BY DEF LagIsCeiling
  <2>1. Len(served[c]) = Given(comp.last)
    BY DEF IInv, Lags
  <2>2. comp.latency \in Nat /\ comp.last \in Nat
    BY DEF IInv, CompTypes
  <2>3. Ceil(comp.latency) \in Nat
    BY <2>2, CeilBounds
  <2>4. (comp.last - Ceil(comp.latency)) * Block = comp.last * Block - Ceil(comp.latency) * Block
    <3> DEFINE C == Ceil(comp.latency)
               l == comp.last
    <3>1. C \in Nat /\ l \in Nat
      BY <2>2, <2>3
    <3> HIDE DEF C, l
    <3>2. (l - C) * Block = l * Block - C * Block
      BY <3>1, OneMore
    <3> QED
      BY <3>2 DEF C, l
  <2> QED
    BY <2>1, <2>2, <2>4, Due
<1> QED
  BY <1>1, Invariance, PTL

\* clap_flush! completes each channel's stream to exactly what was fed: its
\* silence covers the latency, however the latency divides into blocks.
THEOREM FlushCompletes ==
  ASSUME Assumptions
  PROVE  Spec => []TailCompletes
<1>1. IInv => TailCompletes
  BY DEF IInv, Flushed
<1> QED
  BY <1>1, Invariance, PTL

=============================================================================
