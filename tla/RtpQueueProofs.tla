--------------------------- MODULE RtpQueueProofs ---------------------------
(***************************************************************************)
(* What the proofs about the packet queues share: arithmetic modulo the    *)
(* width of a number, the greatest and the least of a set of positions,    *)
(* where rtp_putq and queue_packet leave the packets, and what a recursive *)
(* function computes.                                                      *)
(***************************************************************************)
EXTENDS RtpQueue, WellFoundedInduction, SequenceTheorems, TLAPS

LEMMA ModRange ==
  ASSUME NEW w \in Nat \ {0}, NEW a \in Int
  PROVE  a % w \in 0..w - 1 /\ a \div w \in Int /\ a = w * (a \div w) + (a % w)
  OBVIOUS

LEMMA ModSmall ==
  ASSUME NEW w \in Nat \ {0}, NEW a \in 0..w - 1
  PROVE  a % w = a
  OBVIOUS

LEMMA ModUnique ==
  ASSUME NEW w \in Nat \ {0}, NEW k \in Int, NEW r \in 0..w - 1
  PROVE  (w * k + r) % w = r
  OBVIOUS

LEMMA ModAdd ==
  ASSUME NEW w \in Nat \ {0}, NEW a \in Int, NEW k \in Int
  PROVE  (a + w * k) % w = a % w
<1>1. a = w * (a \div w) + (a % w) /\ a % w \in 0..w - 1 /\ a \div w \in Int
  BY ModRange
<1>2. a + w * k = w * ((a \div w) + k) + (a % w) /\ (a \div w) + k \in Int
  BY <1>1
<1>. QED  BY <1>1, <1>2, ModUnique

\* Numbers that were cut to the width are as far apart as before.
LEMMA ModDiff ==
  ASSUME NEW w \in Nat \ {0}, NEW a \in Int, NEW b \in Int
  PROVE  ((a % w) - (b % w)) % w = (a - b) % w
<1>. DEFINE k == (b \div w) - (a \div w)
            d == a - b
<1>1. a = w * (a \div w) + (a % w) /\ a \div w \in Int /\ a % w \in Int
  BY ModRange
<1>2. b = w * (b \div w) + (b % w) /\ b \div w \in Int /\ b % w \in Int
  BY ModRange
<1>3. (a % w) - (b % w) = d + w * k
  BY <1>1, <1>2
<1>4. k \in Int /\ d \in Int
  BY <1>1, <1>2
<1>. HIDE DEF k, d
<1>5. (d + w * k) % w = d % w
  BY <1>4, ModAdd
<1>6. ((a % w) - (b % w)) % w = d % w
  BY <1>3, <1>5
<1>. QED  BY <1>6 DEF d

\* How far x is from b + a, when it is k from b.
LEMMA ModPlace ==
  ASSUME NEW w \in Nat \ {0}, NEW b \in Int, NEW a \in Int, NEW x \in 0..w - 1
  PROVE  /\ (x - b) % w \in 0..w - 1
         /\ (b + ((x - b) % w)) % w = x
         /\ (((b + a) % w) - x) % w = (a - ((x - b) % w)) % w
<1>. DEFINE k == (x - b) % w
            c == (x - b) \div w
<1>1. k \in 0..w - 1 /\ c \in Int /\ x - b = w * c + k
  <2>1. x - b \in Int
    OBVIOUS
  <2>. QED  BY <2>1, ModRange
<1>. HIDE DEF k, c
<1>2. b + k = w * (-c) + x /\ -c \in Int
  BY <1>1
<1>3. (b + k) % w = x
  BY <1>2, ModUnique
<1>4. (((b + a) % w) - ((b + k) % w)) % w = ((b + a) - (b + k)) % w
  <2>1. b + a \in Int /\ b + k \in Int
    BY <1>1
  <2>. QED  BY <2>1, ModDiff
<1>5. (b + a) - (b + k) = a - k
  BY <1>1
<1>. QED  BY <1>1, <1>3, <1>4, <1>5 DEF k

\* A difference of less than half a width tells which is greater.
LEMMA ModHalf ==
  ASSUME NEW w \in Nat \ {0}, w % 2 = 0, NEW d \in Int, 2 * d < w, 2 * (-d) =< w
  PROVE  d % w < w \div 2 <=> d >= 0
<1>1. CASE d >= 0
  <2>1. d \in 0..w - 1
    BY <1>1
  <2>2. d % w = d
    BY <2>1, ModSmall
  <2>. QED  BY <1>1, <2>2
<1>2. CASE d < 0
  <2>1. d + w \in 0..w - 1 /\ d = w * (-1) + (d + w) /\ -1 \in Int
    BY <1>2
  <2>2. d % w = d + w
    BY <2>1, ModUnique
  <2>. QED  BY <1>2, <2>2
<1>. QED  BY <1>1, <1>2
-----------------------------------------------------------------------------
LEMMA MaxOfInterval == ASSUME NEW m \in Nat \ {0} PROVE Max(1..m) = m
<1>1. m \in 1..m /\ \A y \in 1..m : m >= y
  OBVIOUS
<1>2. \A x \in 1..m : (\A y \in 1..m : x >= y) => x = m
  OBVIOUS
<1>. QED  BY <1>1, <1>2 DEF Max

LEMMA MinOfInterval ==
  ASSUME NEW l \in Nat, NEW m \in Nat, l =< m PROVE Min(l..m) = l
<1>1. l \in l..m /\ \A y \in l..m : l =< y
  OBVIOUS
<1>2. \A x \in l..m : (\A y \in l..m : x =< y) => x = l
  OBVIOUS
<1>. QED  BY <1>1, <1>2 DEF Min

LEMMA GreatestOf ==
  ASSUME NEW n \in Nat, NEW S \in SUBSET (0..n), S # {}
  PROVE  Max(S) \in S /\ \A y \in S : Max(S) >= y
<1>. DEFINE Bound(m) == \A y \in S : y =< m
            B == {m \in Nat : Bound(m)}
            Less == {p \in Nat \X Nat : p[1] < p[2]}
<1>1. \A i, j \in Nat : <<i, j>> \in Less <=> i < j
  OBVIOUS
<1>2. IsWellFoundedOn(Less, Nat)
  BY NatLessThanWellFounded DEF OpToRel
<1>3. B \in SUBSET Nat /\ n \in B
  OBVIOUS
<1>. HIDE DEF Less
<1>4. \E m \in B : \A k \in B : ~(<<k, m>> \in Less)
  <2>. HIDE DEF B
  <2>. QED  BY <1>2, <1>3, WFMin, Zenon
<1>5. PICK m \in B : \A k \in B : ~(<<k, m>> \in Less)
  BY <1>4
<1>6. m \in Nat /\ \A y \in S : y =< m
  OBVIOUS
<1>7. m \in S
  <2>1. SUFFICES ASSUME m \notin S  PROVE FALSE
    OBVIOUS
  <2>2. PICK y \in S : TRUE
    OBVIOUS
  <2>3. y \in 0..n /\ y =< m /\ y # m
    BY <1>6, <2>1
  <2>4. m - 1 \in Nat /\ \A z \in S : z =< m - 1
    BY <1>6, <2>1, <2>3
  <2>5. m - 1 \in B /\ <<m - 1, m>> \in Less
    BY <1>1, <1>6, <2>4
  <2>. QED  BY <1>5, <2>5
<1>8. Max(S) \in S /\ \A y \in S : Max(S) >= y
  <2>1. \E x \in S : \A y \in S : x >= y
    <3>1. \A y \in S : m >= y
      BY <1>6
    <3>. QED  BY <1>7, <3>1
  <2>. QED  BY <2>1, Zenon DEF Max
<1>. QED  BY <1>8

LEMMA LeastOf ==
  ASSUME NEW S \in SUBSET Nat, S # {}
  PROVE  Min(S) \in S /\ \A y \in S : Min(S) =< y
<1>. DEFINE Less == {p \in Nat \X Nat : p[1] < p[2]}
<1>1. \A i, j \in Nat : <<i, j>> \in Less <=> i < j
  OBVIOUS
<1>2. IsWellFoundedOn(Less, Nat)
  BY NatLessThanWellFounded DEF OpToRel
<1>. HIDE DEF Less
<1>3. \E m \in S : \A k \in S : ~(<<k, m>> \in Less)
  BY <1>2, WFMin, Zenon
<1>4. PICK m \in S : \A k \in S : ~(<<k, m>> \in Less)
  BY <1>3
<1>5. \A y \in S : m =< y
  <2>1. ASSUME NEW y \in S  PROVE m =< y
    <3>1. y \in Nat /\ m \in Nat /\ ~(y < m)
      BY <1>1, <1>4
    <3>. QED  BY <3>1
  <2>. QED  BY <2>1
<1>6. \E x \in S : \A y \in S : x =< y
  BY <1>5
<1>. QED  BY <1>6, Zenon DEF Min
-----------------------------------------------------------------------------
\* r is q with p put behind its first k elements.
Placed(q, p, k, r) ==
  /\ Len(r) = Len(q) + 1
  /\ \A i \in 1..Len(q) + 1 : r[i] = IF i =< k THEN q[i] ELSE IF i = k + 1 THEN p ELSE q[i - 1]

LEMMA PutBehind ==
  ASSUME NEW S, NEW q \in Seq(S), NEW p \in S, NEW k \in 0..Len(q)
  PROVE  LET r == SubSeq(q, 1, k) \o <<p>> \o SubSeq(q, k + 1, Len(q))
         IN  r \in Seq(S) /\ Placed(q, p, k, r)
<1>. DEFINE u == SubSeq(q, 1, k)
            v == SubSeq(q, k + 1, Len(q))
            w == u \o <<p>>
            r == w \o v
<1>1. u \in Seq(S) /\ Len(u) = k /\ \A j \in 1..k : u[j] = q[j]
  OBVIOUS
<1>2. v \in Seq(S) /\ Len(v) = Len(q) - k /\ \A j \in 1..Len(q) - k : v[j] = q[k + j]
  OBVIOUS
<1>. HIDE DEF u, v
<1>3. w \in Seq(S) /\ Len(w) = k + 1 /\ \A j \in 1..k + 1 : w[j] = IF j =< k THEN q[j] ELSE p
  BY <1>1
<1>. HIDE DEF w
<1>4. r \in Seq(S) /\ Len(r) = Len(q) + 1
  <2>1. r \in Seq(S) /\ Len(r) = Len(w) + Len(v)
    BY <1>2, <1>3, ConcatProperties
  <2>2. (k + 1) + (Len(q) - k) = Len(q) + 1
    OBVIOUS
  <2>. QED  BY <1>2, <1>3, <2>1, <2>2
<1>5. ASSUME NEW j \in 1..Len(q) + 1
      PROVE  r[j] = IF j =< k THEN q[j] ELSE IF j = k + 1 THEN p ELSE q[j - 1]
  <2>1. r[j] = IF j =< k + 1 THEN w[j] ELSE v[j - (k + 1)]
    BY <1>2, <1>3
  <2>2. CASE j =< k + 1
    BY <1>3, <2>1, <2>2
  <2>3. CASE j > k + 1
    <3>1. j - (k + 1) \in 1..Len(q) - k /\ k + (j - (k + 1)) = j - 1
      BY <2>3
    <3>2. v[j - (k + 1)] = q[k + (j - (k + 1))]
      BY <1>2, <3>1
    <3>3. ~(j =< k + 1) /\ ~(j =< k) /\ j # k + 1
      BY <2>3
    <3>. QED  BY <2>1, <3>1, <3>2, <3>3
  <2>4. j =< k + 1 \/ j > k + 1
    OBVIOUS
  <2>. QED  BY <2>4, <2>2, <2>3
<1>. HIDE DEF r
<1>6. r \in Seq(S) /\ Placed(q, p, k, r)
  BY <1>4, <1>5 DEF Placed
<1>. QED  BY <1>6 DEF r, u, v, w
\* The packets of a queue stay what they are.
LEMMA QueueKeeps ==
  ASSUME NEW P, NEW q \in Seq(P), NEW p \in P, NEW m \in Nat
  PROVE  queue_packet(q, m, p) \in Seq(P)
<1>. DEFINE stops == {i \in DOMAIN q : SeqIsGreater(p.seq, q[i].seq)}
            place == Max(stops)
            r == rtp_putq(q, p)
            over == Len(r) - m
<1>1. r = IF stops = {} THEN <<p>> \o q
          ELSE IF q[place].seq = p.seq THEN q
          ELSE SubSeq(q, 1, place) \o <<p>> \o SubSeq(q, place + 1, Len(q))
  BY DEF rtp_putq
<1>2. stops # {} => place \in 0..Len(q)
  <2>1. stops \in SUBSET (0..Len(q)) /\ Len(q) \in Nat
    OBVIOUS
  <2>. HIDE DEF stops
  <2>. QED  BY <2>1, GreatestOf
<1>3. queue_packet(q, m, p) = IF over > 0 THEN SubSeq(r, over + 1, Len(r)) ELSE r
  BY DEF queue_packet
<1>. HIDE DEF stops, place
<1>4. r \in Seq(P)
  <2>1. stops # {} => SubSeq(q, 1, place) \o <<p>> \o SubSeq(q, place + 1, Len(q)) \in Seq(P)
    BY <1>2, PutBehind
  <2>2. <<p>> \o q \in Seq(P)
    OBVIOUS
  <2>. HIDE DEF r
  <2>. QED  BY <1>1, <2>1, <2>2
<1>. HIDE DEF r
<1>5. over > 0 => SubSeq(r, over + 1, Len(r)) \in Seq(P)
  BY <1>4
<1>. QED  BY <1>3, <1>4, <1>5
-----------------------------------------------------------------------------
(***************************************************************************)
(* Packets of a stretch of a stream in which their numbers tell their      *)
(* order: place[p] is where p is in the stream.                            *)
(***************************************************************************)
InStream(W, place) ==
  /\ place \in [W -> Nat]
  /\ \A d, e \in W : /\ SeqIsGreater(d.seq, e.seq) <=> place[d] >= place[e]
                     /\ d.seq = e.seq <=> place[d] = place[e]

Rises(place, q) == \A i, j \in 1..Len(q) : i < j => place[q[i]] < place[q[j]]

\* rtp_putq: a packet whose number is in the queue is freed, another one goes
\* to its place.
LEMMA PutInPlace ==
  ASSUME NEW W, NEW place, InStream(W, place), NEW q \in Seq(W), Rises(place, q),
         NEW p \in W
  PROVE  /\ rtp_putq(q, p) \in Seq(W)
         /\ \/ rtp_putq(q, p) = q /\ \E i \in 1..Len(q) : place[q[i]] = place[p]
            \/ \E k \in 0..Len(q) :
                 /\ Placed(q, p, k, rtp_putq(q, p))
                 /\ \A i \in 1..k : place[q[i]] < place[p]
                 /\ \A i \in k + 1..Len(q) : place[q[i]] > place[p]
<1>. DEFINE stops == {i \in DOMAIN q : SeqIsGreater(p.seq, q[i].seq)}
            last  == Max(stops)
<1>1. place[p] \in Nat /\ \A i \in 1..Len(q) : q[i] \in W /\ place[q[i]] \in Nat
  BY DEF InStream
<1>2. stops = {i \in 1..Len(q) : place[p] >= place[q[i]]}
  BY <1>1 DEF InStream
<1>3. rtp_putq(q, p) = IF stops = {} THEN <<p>> \o q
                       ELSE IF q[last].seq = p.seq THEN q
                       ELSE SubSeq(q, 1, last) \o <<p>> \o SubSeq(q, last + 1, Len(q))
  BY DEF rtp_putq
<1>. HIDE DEF stops, last
<1>4. CASE stops = {}
  <2>1. SubSeq(q, 1, 0) \o <<p>> \o SubSeq(q, 0 + 1, Len(q)) = <<p>> \o q
    <3>1. SubSeq(q, 1, 0) = <<>> /\ SubSeq(q, 0 + 1, Len(q)) = q
      OBVIOUS
    <3>2. <<>> \o <<p>> = <<p>>
      OBVIOUS
    <3>. QED  BY <3>1, <3>2
  <2>2. 0 \in 0..Len(q)
    OBVIOUS
  <2>3. rtp_putq(q, p) \in Seq(W) /\ Placed(q, p, 0, rtp_putq(q, p))
    BY <1>3, <1>4, <2>1, <2>2, PutBehind, Zenon
  <2>4. \A i \in 1..Len(q) : place[q[i]] > place[p]
    BY <1>1, <1>2, <1>4
  <2>. QED  BY <2>3, <2>4
<1>5. CASE stops # {}
  <2>1. last \in stops /\ \A y \in stops : last >= y
    <3>1. stops \in SUBSET (0..Len(q)) /\ Len(q) \in Nat
      BY <1>2
    <3>. QED  BY <1>5, <3>1, GreatestOf DEF last
  <2>2. last \in 1..Len(q) /\ place[p] >= place[q[last]]
    BY <1>2, <2>1
  <2>3. CASE q[last].seq = p.seq
    <3>1. place[q[last]] = place[p]
      BY <1>1, <2>2, <2>3 DEF InStream
    <3>. QED  BY <1>3, <1>5, <2>2, <2>3, <3>1
  <2>4. CASE q[last].seq # p.seq
    <3>1. place[q[last]] # place[p]
      BY <1>1, <2>2, <2>4 DEF InStream
    <3>2. rtp_putq(q, p) \in Seq(W) /\ Placed(q, p, last, rtp_putq(q, p))
      <4>1. last \in 0..Len(q)
        BY <2>2
      <4>. QED  BY <1>3, <1>5, <2>4, <4>1, PutBehind
    <3>3. \A i \in 1..last : place[q[i]] < place[p]
      BY <1>1, <2>2, <3>1 DEF Rises
    <3>4. \A i \in last + 1..Len(q) : place[q[i]] > place[p]
      <4>1. ASSUME NEW i \in last + 1..Len(q)  PROVE place[q[i]] > place[p]
        <5>1. i \in 1..Len(q) /\ i \notin stops
          BY <2>1, <2>2
        <5>. QED  BY <1>1, <1>2, <5>1
      <4>. QED  BY <4>1
    <3>5. last \in 0..Len(q)
      BY <2>2
    <3>. QED  BY <3>2, <3>3, <3>4, <3>5
  <2>. QED  BY <2>3, <2>4
<1>. QED  BY <1>4, <1>5

\* queue_packet keeps the order.
LEMMA QueueRises ==
  ASSUME NEW W, NEW place, InStream(W, place), NEW q \in Seq(W), Rises(place, q),
         NEW p \in W, NEW m \in Nat
  PROVE  queue_packet(q, m, p) \in Seq(W) /\ Rises(place, queue_packet(q, m, p))
<1>. DEFINE r == rtp_putq(q, p)
            over == Len(r) - m
<1>1. r \in Seq(W)
  BY PutInPlace
<1>2. Rises(place, r)
  <2>1. ASSUME NEW k \in 0..Len(q), Placed(q, p, k, r),
               \A i \in 1..k : place[q[i]] < place[p],
               \A i \in k + 1..Len(q) : place[q[i]] > place[p],
               NEW i \in 1..Len(r), NEW j \in 1..Len(r), i < j
        PROVE  place[r[i]] < place[r[j]]
    <3>. HIDE DEF r
    <3>1. Len(r) = Len(q) + 1 /\ Len(q) \in Nat
          /\ \A l \in 1..Len(q) + 1 :
               r[l] = IF l =< k THEN q[l] ELSE IF l = k + 1 THEN p ELSE q[l - 1]
      BY <2>1 DEF Placed
    <3>2. place[p] \in Nat /\ \A l \in 1..Len(q) : place[q[l]] \in Nat
      BY DEF InStream
    <3>3. CASE j =< k
      <4>1. r[i] = q[i] /\ r[j] = q[j] /\ i \in 1..Len(q) /\ j \in 1..Len(q)
        BY <2>1, <3>1, <3>3
      <4>. QED  BY <2>1, <4>1 DEF Rises
    <3>4. CASE j = k + 1
      <4>1. r[i] = q[i] /\ r[j] = p /\ i \in 1..k
        BY <2>1, <3>1, <3>4
      <4>. QED  BY <2>1, <4>1
    <3>5. CASE j > k + 1 /\ i = k + 1
      <4>1. r[i] = p /\ r[j] = q[j - 1] /\ j - 1 \in k + 1..Len(q)
        BY <2>1, <3>1, <3>5
      <4>2. place[q[j - 1]] > place[p] /\ place[q[j - 1]] \in Nat
        BY <2>1, <3>2, <4>1
      <4>. QED  BY <3>2, <4>1, <4>2
    <3>6. CASE j > k + 1 /\ i < k + 1
      <4>1. r[i] = q[i] /\ r[j] = q[j - 1] /\ i \in 1..Len(q) /\ j - 1 \in 1..Len(q) /\ i < j - 1
        BY <2>1, <3>1, <3>6
      <4>. QED  BY <4>1 DEF Rises
    <3>7. CASE j > k + 1 /\ i > k + 1
      <4>1. r[i] = q[i - 1] /\ r[j] = q[j - 1] /\ i - 1 \in 1..Len(q) /\ j - 1 \in 1..Len(q)
            /\ i - 1 < j - 1
        BY <2>1, <3>1, <3>7
      <4>. QED  BY <4>1 DEF Rises
    <3>. QED  BY <2>1, <3>3, <3>4, <3>5, <3>6, <3>7
  <2>2. \/ r = q
        \/ \E k \in 0..Len(q) : /\ Placed(q, p, k, r)
                                /\ \A i \in 1..k : place[q[i]] < place[p]
                                /\ \A i \in k + 1..Len(q) : place[q[i]] > place[p]
    BY PutInPlace
  <2>. HIDE DEF r
  <2>3. r # q => \A i, j \in 1..Len(r) : i < j => place[r[i]] < place[r[j]]
    BY <2>1, <2>2
  <2>. QED  BY <2>3 DEF Rises
<1>3. queue_packet(q, m, p) = IF over > 0 THEN SubSeq(r, over + 1, Len(r)) ELSE r
  BY DEF queue_packet
<1>. HIDE DEF r
<1>4. CASE over > 0
  <2>. DEFINE s == SubSeq(r, over + 1, Len(r))
  <2>1. /\ s \in Seq(W) /\ Len(s) = Len(r) - over
        /\ \A i \in 1..Len(s) : s[i] = r[over + i] /\ over + i \in 1..Len(r)
    <3>1. over \in 0..Len(r)
      BY <1>1, <1>4
    <3>. HIDE DEF over
    <3>. QED  BY <1>1, <3>1
  <2>. HIDE DEF s
  <2>2. ASSUME NEW i \in 1..Len(s), NEW j \in 1..Len(s), i < j  PROVE place[s[i]] < place[s[j]]
    <3>1. over + i < over + j
      BY <1>1, <2>2
    <3>. QED  BY <1>2, <2>1, <3>1 DEF Rises
  <2>. QED  BY <1>3, <1>4, <2>1, <2>2 DEF Rises, s
<1>5. CASE ~(over > 0)
  BY <1>1, <1>2, <1>3, <1>5
<1>. QED  BY <1>4, <1>5
-----------------------------------------------------------------------------
(***************************************************************************)
(* Recursive functions.  A set that holds 0 and, with a number, the next   *)
(* one holds them all; a step that stays in X makes a function into X.     *)
(***************************************************************************)
LEMMA AllNumbers ==
  ASSUME NEW S, 0 \in S, \A n \in Nat : n \in S => n + 1 \in S
  PROVE  Nat \subseteq S
<1>. DEFINE Less == {p \in Nat \X Nat : p[1] < p[2]}
            B == Nat \ S
<1>1. \A i, j \in Nat : <<i, j>> \in Less <=> i < j
  OBVIOUS
<1>2. IsWellFoundedOn(Less, Nat)
  BY NatLessThanWellFounded DEF OpToRel
<1>. HIDE DEF Less
<1>3. SUFFICES ASSUME B # {}  PROVE FALSE
  OBVIOUS
<1>4. \E m \in B : \A k \in B : ~(<<k, m>> \in Less)
  <2>1. B \in SUBSET Nat
    OBVIOUS
  <2>. HIDE DEF B
  <2>. QED  BY <1>2, <1>3, <2>1, WFMin, Zenon
<1>5. PICK m \in B : \A k \in B : ~(<<k, m>> \in Less)
  BY <1>4
<1>6. m \in Nat /\ m # 0 /\ m \notin S
  OBVIOUS
<1>7. m - 1 \in Nat /\ (m - 1) + 1 = m
  BY <1>6
<1>8. m - 1 \in B
  BY <1>6, <1>7
<1>9. <<m - 1, m>> \in Less
  BY <1>1, <1>6, <1>7
<1>. QED  BY <1>5, <1>8, <1>9

Unfolds(f, base, n, G) == f[0] = base /\ \A i \in 1..n : f[i] = G[<<f[i - 1], i>>]

LEMMA FunctionExists ==
  ASSUME NEW X, NEW base \in X, NEW n \in Nat, NEW G \in [X \X (1..n) -> X]
  PROVE  \E f \in [0..n -> X] : Unfolds(f, base, n, G)
<1>. DEFINE Upto(m) == \E f \in [0..m -> X] :
                         f[0] = base /\ \A i \in 1..m : f[i] = G[<<f[i - 1], i>>]
            S == {m \in Nat : m =< n => Upto(m)}
<1>1. 0 \in S
  <2>. DEFINE g == [i \in 0..0 |-> base]
  <2>1. g \in [0..0 -> X] /\ g[0] = base /\ \A i \in 1..0 : FALSE
    OBVIOUS
  <2>. HIDE DEF g
  <2>2. Upto(0)
    BY <2>1
  <2>. QED  BY <2>2
<1>2. ASSUME NEW m \in Nat, m \in S  PROVE m + 1 \in S
  <2>1. SUFFICES ASSUME m + 1 =< n  PROVE Upto(m + 1)
    OBVIOUS
  <2>2. Upto(m)
    BY <1>2, <2>1
  <2>3. PICK f \in [0..m -> X] : f[0] = base /\ \A i \in 1..m : f[i] = G[<<f[i - 1], i>>]
    BY <2>2
  <2>. DEFINE x == G[<<f[m], m + 1>>]
              g == [i \in 0..m + 1 |-> IF i = m + 1 THEN x ELSE f[i]]
  <2>4. x \in X
    <3>1. f[m] \in X /\ m + 1 \in 1..n
      BY <2>1
    <3>. QED  BY <3>1
  <2>. HIDE DEF x
  <2>5. /\ g \in [0..m + 1 -> X] /\ g[m + 1] = x
        /\ \A i \in 0..m : g[i] = f[i]
    BY <2>4
  <2>. HIDE DEF g
  <2>6. g[0] = base
    BY <2>3, <2>5
  <2>7. ASSUME NEW i \in 1..m + 1  PROVE g[i] = G[<<g[i - 1], i>>]
    <3>1. CASE i = m + 1
      <4>1. g[i - 1] = f[m]
        BY <2>5, <3>1
      <4>. QED  BY <2>5, <3>1, <4>1 DEF x
    <3>2. CASE i # m + 1
      <4>1. i \in 1..m /\ i - 1 \in 0..m /\ i \in 0..m
        BY <3>2
      <4>. QED  BY <2>3, <2>5, <4>1
    <3>. QED  BY <3>1, <3>2
  <2>. QED  BY <2>5, <2>6, <2>7
<1>. HIDE DEF S
<1>3. n \in S
  BY <1>1, <1>2, AllNumbers
<1>. QED  BY <1>3 DEF S, Unfolds
=============================================================================
