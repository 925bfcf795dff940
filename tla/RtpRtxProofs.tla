---------------------------- MODULE RtpRtxProofs ----------------------------
(***************************************************************************)
(* The retransmission for any width of the numbers and the timestamps that *)
(* the stream fits in.                                                     *)
(*                                                                         *)
(*   sender    CacheInv gives the send cache itself, not only the numbers  *)
(*             in it: the last Size(sent) packets in the order they were   *)
(*             sent.  The stream may have any length here and its numbers  *)
(*             wrap as often as they like.                                 *)
(*   receiver  RtxInv relates the two queues, what has come out and what   *)
(*             was asked for by the number each entry stands for (No) and  *)
(*             the one whose timestamp it has (TsNo), and the jitter       *)
(*             buffer to the clock: what it hands over in a call is ahead  *)
(*             of all that was handed over before.  The stream takes half  *)
(*             of the numbers at most (WidthsSuffice), because the network *)
(*             may keep a datagram as long as it likes.                    *)
(*                                                                         *)
(* RecvmOutcome says what one call of rtp_session_recvm_with_ts does to    *)
(* all that; the theorems follow from it.                                  *)
(* RtpRtx takes the walk over rtx_recv_queue for its result, FillGaps and  *)
(* Asked; the last theorem shows that the turns of the walk, in RtxWalk,   *)
(* come to that.                                                           *)
(***************************************************************************)
EXTENDS RtpRtx, RtxWalk, RtpQueueProofs

Size(n) == IF n < SendCache THEN n ELSE SendCache

\* The last m packets of the first n.
LastOf(n, m) == [i \in 1..m |-> Media(n - m + i - 1)]

CacheInv == sent \in Nat /\ sendQ = LastOf(sent, Size(sent))
-----------------------------------------------------------------------------
LEMMA LastOfType ==
  ASSUME NEW n \in Nat, NEW m \in 0..n
  PROVE  /\ LastOf(n, m) \in Seq({Media(k) : k \in Nat}) /\ Len(LastOf(n, m)) = m
         /\ \A i \in 1..m : LastOf(n, m)[i] = Media(n - m + i - 1)
<1>1. \A i \in 1..m : n - m + i - 1 \in Nat
  OBVIOUS
<1>. QED  BY <1>1 DEF LastOf

\* How far the newest packet is from those in the cache.
LEMMA Distance ==
  ASSUME NEW n \in Nat, NEW k \in 0..n
  PROVE  /\ n - k < SeqSpace => (Media(n).seq - Media(k).seq) % SeqSpace = n - k
         /\ n - k < TsSpace => (Media(n).ts - Media(k).ts) % TsSpace = n - k
<1>1. SeqSpace \in Nat \ {0} /\ TsSpace \in Nat \ {0} /\ Seq0 \in Int /\ Ts0 \in Int
  BY SpaceAssumption, RtxAssumption DEF SpaceAssumption, RtxAssumption
<1>2. /\ Media(n).seq = (Seq0 + n) % SeqSpace /\ Media(k).seq = (Seq0 + k) % SeqSpace
      /\ Media(n).ts = (Ts0 + n) % TsSpace /\ Media(k).ts = (Ts0 + k) % TsSpace
  BY DEF Media, SeqOfPkt, TsOfPkt
<1>3. Seq0 + n \in Int /\ Seq0 + k \in Int /\ Ts0 + n \in Int /\ Ts0 + k \in Int
  BY <1>1
<1>4. (((Seq0 + n) % SeqSpace) - ((Seq0 + k) % SeqSpace)) % SeqSpace
        = ((Seq0 + n) - (Seq0 + k)) % SeqSpace
  BY <1>1, <1>3, ModDiff
<1>5. (((Ts0 + n) % TsSpace) - ((Ts0 + k) % TsSpace)) % TsSpace
        = ((Ts0 + n) - (Ts0 + k)) % TsSpace
  BY <1>1, <1>3, ModDiff
<1>6. (Seq0 + n) - (Seq0 + k) = n - k /\ (Ts0 + n) - (Ts0 + k) = n - k
  BY <1>1
<1>7. /\ (Media(n).seq - Media(k).seq) % SeqSpace = (n - k) % SeqSpace
      /\ (Media(n).ts - Media(k).ts) % TsSpace = (n - k) % TsSpace
  BY <1>2, <1>4, <1>5, <1>6
<1>8. n - k \in Nat
  OBVIOUS
<1>9. ASSUME n - k < SeqSpace  PROVE (n - k) % SeqSpace = n - k
  BY <1>1, <1>8, <1>9, ModSmall
<1>10. ASSUME n - k < TsSpace  PROVE (n - k) % TsSpace = n - k
  BY <1>1, <1>8, <1>10, ModSmall
<1>. QED  BY <1>7, <1>9, <1>10

LEMMA PutAtEnd ==
  ASSUME NEW S, NEW m \in Nat, NEW r \in Seq(S), Len(r) = m, NEW e \in S
  PROVE  /\ r \o <<e>> \in Seq(S) /\ Len(r \o <<e>>) = m + 1
         /\ (r \o <<e>>)[m + 1] = e /\ \A i \in 1..m : (r \o <<e>>)[i] = r[i]
<1>1. <<e>> \in Seq(S) /\ Len(<<e>>) = 1 /\ <<e>>[1] = e
  OBVIOUS
<1>2. r \o <<e>> \in Seq(S) /\ Len(r \o <<e>>) = m + 1
  BY <1>1
<1>3. \A i \in 1..m : (r \o <<e>>)[i] = r[i]
  BY <1>1
<1>4. (r \o <<e>>)[m + 1] = e
  BY <1>1
<1>. QED  BY <1>2, <1>3, <1>4

\* The newest packet goes to the bottom of the queue (rtp_putq).
LEMMA NewestLast ==
  ASSUME NEW n \in Nat, NEW m \in 0..n, 2 * m < SeqSpace
  PROVE  rtp_putq(LastOf(n, m), Media(n)) = LastOf(n + 1, m + 1)
<1>. DEFINE q == LastOf(n, m)
            p == Media(n)
            stops == {i \in DOMAIN q : SeqIsGreater(p.seq, q[i].seq)}
<1>1. q \in Seq({Media(k) : k \in Nat}) /\ Len(q) = m
      /\ \A i \in 1..m : q[i] = Media(n - m + i - 1)
  BY LastOfType
<1>2. SeqSpace \in Nat \ {0} /\ SeqSpace % 2 = 0
  BY SpaceAssumption DEF SpaceAssumption
<1>3. ASSUME NEW i \in 1..m
      PROVE  (p.seq - q[i].seq) % SeqSpace = m - i + 1
  <2>1. n - m + i - 1 \in 0..n /\ n - (n - m + i - 1) = m - i + 1
    OBVIOUS
  <2>2. n - (n - m + i - 1) < SeqSpace
    BY <1>2, <2>1
  <2>3. (Media(n).seq - Media(n - m + i - 1).seq) % SeqSpace = m - i + 1
    BY <2>1, <2>2, Distance
  <2>. QED  BY <1>1, <2>3
<1>4. stops = 1..m
  <2>1. \A i \in 1..m : SeqIsGreater(p.seq, q[i].seq)
    BY <1>2, <1>3 DEF SeqIsGreater
  <2>2. DOMAIN q = 1..m
    BY <1>1
  <2>. QED  BY <2>1, <2>2
<1>5. LastOf(n + 1, m + 1) \in Seq({Media(k) : k \in Nat})
      /\ Len(LastOf(n + 1, m + 1)) = m + 1
      /\ \A i \in 1..m + 1 : LastOf(n + 1, m + 1)[i] = Media(n - m + i - 1)
  <2>1. n + 1 \in Nat /\ m + 1 \in 0..n + 1
    OBVIOUS
  <2>2. /\ LastOf(n + 1, m + 1) \in Seq({Media(k) : k \in Nat})
        /\ Len(LastOf(n + 1, m + 1)) = m + 1
        /\ \A i \in 1..m + 1 :
             LastOf(n + 1, m + 1)[i] = Media((n + 1) - (m + 1) + i - 1)
    BY <2>1, LastOfType, Zenon
  <2>3. \A i \in 1..m + 1 : (n + 1) - (m + 1) + i - 1 = n - m + i - 1
    OBVIOUS
  <2>. QED  BY <2>2, <2>3
<1>. HIDE DEF q, p, stops
<1>. DEFINE last == Max(stops)
<1>6. rtp_putq(q, p) = IF stops = {} THEN <<p>> \o q
                       ELSE IF q[last].seq = p.seq THEN q
                       ELSE SubSeq(q, 1, last) \o <<p>> \o SubSeq(q, last + 1, Len(q))
  BY DEF rtp_putq, stops
<1>7. p \in {Media(k) : k \in Nat} /\ p = Media(n - m + (m + 1) - 1)
  BY DEF p
<1>8. \A i \in 1..m : Media(n - m + i - 1) = q[i]
  BY <1>1
<1>9. rtp_putq(q, p) \in Seq({Media(k) : k \in Nat}) /\ Len(rtp_putq(q, p)) = m + 1
      /\ \A i \in 1..m + 1 : rtp_putq(q, p)[i] = Media(n - m + i - 1)
  <2>1. CASE m = 0
    <3>1. rtp_putq(q, p) = <<p>> \o q /\ Len(q) = 0
      BY <2>1, <1>1, <1>4, <1>6
    <3>. QED  BY <2>1, <3>1, <1>1, <1>7
  <2>2. CASE m > 0
    <3>1. last = m
      BY <2>2, <1>4, MaxOfInterval
    <3>2. q[m].seq # p.seq
      <4>1. (p.seq - q[m].seq) % SeqSpace = 1
        BY <2>2, <1>3
      <4>2. (p.seq - p.seq) % SeqSpace = 0
        <5>1. p.seq \in Int
          BY <1>2, SpaceAssumption, RtxAssumption, ModRange
             DEF p, Media, SeqOfPkt, SpaceAssumption, RtxAssumption
        <5>. QED  BY <5>1, <1>2, ModSmall
      <4>. QED  BY <4>1, <4>2
    <3>. HIDE DEF last
    <3>3. rtp_putq(q, p) = SubSeq(q, 1, m) \o <<p>> \o SubSeq(q, m + 1, m)
      <4>1. 1 \in stops
        BY <2>2, <1>4
      <4>2. rtp_putq(q, p) = SubSeq(q, 1, last) \o <<p>> \o SubSeq(q, last + 1, Len(q))
        BY <3>1, <3>2, <4>1, <1>6
      <4>3. Len(q) = m
        BY <1>1
      <4>. QED  BY <3>1, <4>2, <4>3
    <3>4. SubSeq(q, 1, m) = q /\ SubSeq(q, m + 1, m) = <<>>
      BY <1>1
    <3>5. rtp_putq(q, p) = (q \o <<p>>) \o <<>>
      BY <3>3, <3>4
    <3>6. /\ q \o <<p>> \in Seq({Media(k) : k \in Nat}) /\ Len(q \o <<p>>) = m + 1
          /\ (q \o <<p>>)[m + 1] = p /\ \A i \in 1..m : (q \o <<p>>)[i] = q[i]
      <4>1. q \in Seq({Media(k) : k \in Nat}) /\ Len(q) = m
        BY <1>1
      <4>2. m \in Nat /\ p \in {Media(k) : k \in Nat}
        BY <1>7
      <4>. QED  BY <4>1, <4>2, PutAtEnd
    <3>7. rtp_putq(q, p) = q \o <<p>>
      BY <3>5, <3>6
    <3>8. \A i \in 1..m + 1 : (q \o <<p>>)[i] = Media(n - m + i - 1)
      <4>1. ASSUME NEW i \in 1..m + 1  PROVE (q \o <<p>>)[i] = Media(n - m + i - 1)
        <5>1. CASE i \in 1..m
          BY <5>1, <3>6, <1>8
        <5>2. CASE i = m + 1
          <6>1. (q \o <<p>>)[i] = p
            BY <5>2, <3>6
          <6>. QED  BY <5>2, <6>1, <1>7
        <5>3. i \in 1..m \/ i = m + 1
          OBVIOUS
        <5>. QED  BY <5>1, <5>2, <5>3
      <4>. QED  BY <4>1
    <3>. QED  BY <3>6, <3>7, <3>8
  <2>. QED  BY <2>1, <2>2
<1>10. rtp_putq(q, p) = LastOf(n + 1, m + 1)
  BY <1>5, <1>9, SeqEqual
<1>. QED  BY <1>10 DEF q, p

\* What is as old as the cache leaves it.
LEMMA OldLeave ==
  ASSUME NEW n \in Nat, SendCache < TsSpace
  PROVE  Pruned(LastOf(n + 1, Size(n) + 1), Media(n).ts) = LastOf(n + 1, Size(n + 1))
<1>. DEFINE m == Size(n)
            q == LastOf(n + 1, m + 1)
            fresh == {i \in DOMAIN q : (Media(n).ts - q[i].ts) % TsSpace < SendCache}
<1>0. SendCache \in Nat \ {0}
  BY RtxAssumption DEF RtxAssumption
<1>1. m \in 0..n /\ m =< SendCache /\ m + 1 \in 0..n + 1 /\ n + 1 \in Nat
  BY <1>0 DEF Size
<1>. HIDE DEF m
<1>2. /\ q \in Seq({Media(k) : k \in Nat}) /\ Len(q) = m + 1
      /\ \A i \in 1..m + 1 : q[i] = Media((n + 1) - (m + 1) + i - 1)
  BY <1>1, LastOfType, Zenon
<1>. HIDE DEF q
<1>3. ASSUME NEW i \in 1..m + 1
      PROVE  q[i] = Media(n - m + i - 1) /\ (Media(n).ts - q[i].ts) % TsSpace = m + 1 - i
  <2>1. /\ (n + 1) - (m + 1) + i - 1 = n - m + i - 1
        /\ n - m + i - 1 \in 0..n /\ n - (n - m + i - 1) = m + 1 - i
        /\ n - (n - m + i - 1) < TsSpace
    BY <1>0, <1>1, SpaceAssumption DEF SpaceAssumption
  <2>2. (Media(n).ts - Media(n - m + i - 1).ts) % TsSpace = m + 1 - i
    BY <2>1, Distance
  <2>. QED  BY <1>2, <2>1, <2>2
<1>4. fresh = {i \in 1..m + 1 : m + 1 - i < SendCache}
  BY <1>2, <1>3
<1>5. Pruned(q, Media(n).ts) = SubSeq(q, Min(fresh), Len(q))
  BY DEF Pruned
<1>. HIDE DEF fresh
<1>6. CASE n < SendCache
  <2>1. m = n /\ Size(n + 1) = m + 1
    BY <1>0, <1>6 DEF m, Size
  <2>2. fresh = 1..m + 1
    BY <1>0, <1>1, <1>4, <1>6, <2>1
  <2>3. Min(fresh) = 1
    BY <1>1, <2>2, MinOfInterval
  <2>4. SubSeq(q, 1, Len(q)) = q
    BY <1>2
  <2>. QED  BY <1>5, <2>1, <2>3, <2>4 DEF q, m
<1>7. CASE n >= SendCache
  <2>1. m = SendCache /\ Size(n + 1) = m
    BY <1>0, <1>7 DEF m, Size
  <2>2. fresh = 2..m + 1
    BY <1>0, <1>1, <1>4, <2>1
  <2>3. Min(fresh) = 2
    BY <1>0, <1>1, <2>1, <2>2, MinOfInterval
  <2>. DEFINE r == SubSeq(q, 2, Len(q))
  <2>4. /\ r \in Seq({Media(k) : k \in Nat}) /\ Len(r) = m
        /\ \A i \in 1..m : r[i] = Media(n - m + (i + 1) - 1)
    <3>1. /\ Len(q) = m + 1 /\ 2 \in 1..Len(q) + 1 /\ Len(q) \in 2 - 1..Len(q)
          /\ \A i \in 2..Len(q) : q[i] \in {Media(k) : k \in Nat}
      BY <1>0, <1>1, <1>2, <2>1
    <3>2. /\ r \in Seq({Media(k) : k \in Nat}) /\ Len(r) = m
          /\ \A i \in 1..m : r[i] = q[i + 1]
      BY <1>0, <1>1, <1>2, <2>1, <3>1
    <3>. QED  BY <1>1, <1>3, <3>2
  <2>. HIDE DEF r
  <2>5. m \in 0..n + 1
    BY <1>1
  <2>6. /\ LastOf(n + 1, m) \in Seq({Media(k) : k \in Nat}) /\ Len(LastOf(n + 1, m)) = m
        /\ \A i \in 1..m : LastOf(n + 1, m)[i] = Media((n + 1) - m + i - 1)
    BY <1>1, <2>5, LastOfType, Zenon
  <2>7. \A i \in 1..m : (n + 1) - m + i - 1 = n - m + (i + 1) - 1
    BY <1>1
  <2>8. r = LastOf(n + 1, m)
    <3>1. \A i \in 1..m : r[i] = LastOf(n + 1, m)[i]
      BY <2>4, <2>6, <2>7
    <3>2. Len(r) = m /\ Len(LastOf(n + 1, m)) = m
      BY <2>4, <2>6
    <3>. QED  BY <3>1, <3>2, <2>4, <2>6, SeqEqual
  <2>. QED  BY <1>5, <2>1, <2>3, <2>8 DEF q, m, r
<1>. QED  BY <1>0, <1>6, <1>7
-----------------------------------------------------------------------------
\* Whatever the network does, at any time the send cache holds exactly the
\* packets younger than rtx_send_cache_time, so that each request for one of
\* them can be answered (__rtp_session_sendm_with_ts).  The cache must take
\* less than half of the numbers, as it does in the program.
THEOREM CacheIsTheWindow ==
  ASSUME 2 * SendCache < SeqSpace, SendCache < TsSpace
  PROVE  SafeSpec => []SendCacheIsTheWindow
<1>0. SendCache \in Nat \ {0}
  BY RtxAssumption DEF RtxAssumption
<1>1. Init => CacheInv
  <2>1. ASSUME Init  PROVE CacheInv
    <3>1. Size(0) = 0
      BY <1>0 DEF Size
    <3>2. LastOf(0, 0) = <<>>
      <4>1. 0 \in Nat /\ 0 \in 0..0
        OBVIOUS
      <4>2. Len(LastOf(0, 0)) = 0 /\ LastOf(0, 0) \in Seq({Media(k) : k \in Nat})
        BY <4>1, LastOfType, Zenon
      <4>. QED  BY <4>2
    <3>. QED  BY <2>1, <3>1, <3>2 DEF Init, CacheInv
  <2>. QED  BY <2>1
<1>2. CacheInv /\ [Next]_vars => CacheInv'
  <2>. SUFFICES ASSUME CacheInv, [Next]_vars PROVE CacheInv'
    OBVIOUS
  <2>1. CASE Send
    <3>1. sent' = sent + 1 /\ sendQ' = Pruned(rtp_putq(sendQ, Media(sent)), Media(sent).ts)
      BY <2>1 DEF Send
    <3>2. Size(sent) \in 0..sent /\ 2 * Size(sent) < SeqSpace
      BY <1>0, SpaceAssumption DEF CacheInv, Size, SpaceAssumption
    <3>3. rtp_putq(sendQ, Media(sent)) = LastOf(sent + 1, Size(sent) + 1)
      BY <3>2, NewestLast DEF CacheInv
    <3>4. sendQ' = LastOf(sent + 1, Size(sent + 1))
      BY <3>1, <3>3, OldLeave DEF CacheInv
    <3>. QED  BY <3>1, <3>4 DEF CacheInv
  <2>2. ASSUME UNCHANGED sndVars  PROVE CacheInv'
    BY <2>2 DEF CacheInv, sndVars
  <2>3. Arrive \/ AnswerRequest \/ RecvTick \/ RecvAgain => UNCHANGED sndVars
    BY DEF Arrive, AnswerRequest, RecvTick, RecvAgain, Recvm
  <2>4. UNCHANGED vars => UNCHANGED sndVars
    BY DEF vars
  <2>. QED  BY <2>1, <2>2, <2>3, <2>4 DEF Next
<1>3. CacheInv => SendCacheIsTheWindow
  <2>. SUFFICES ASSUME CacheInv PROVE SendCacheIsTheWindow
    OBVIOUS
  <2>. DEFINE m == Size(sent)
              young == {k \in 0..sent - 1 : sent - 1 - k < SendCache}
  <2>1. sent \in Nat /\ m \in 0..sent
    BY <1>0 DEF CacheInv, Size
  <2>2. young = {k \in 0..sent - 1 : k >= sent - m}
    BY <1>0, <2>1 DEF Size
  <2>3. DOMAIN sendQ = 1..m /\ \A i \in 1..m : sendQ[i] = Media(sent - m + i - 1)
    BY DEF CacheInv, LastOf
  <2>. HIDE DEF m, young
  <2>4. \A i \in 1..m : sent - m + i - 1 \in young /\ sendQ[i].seq = SeqOfPkt(sent - m + i - 1)
    BY <2>1, <2>2, <2>3 DEF Media
  <2>5. ASSUME NEW k \in young
        PROVE  \E i \in 1..m : sendQ[i].seq = SeqOfPkt(k)
    <3>1. k - sent + m + 1 \in 1..m /\ sent - m + (k - sent + m + 1) - 1 = k
      BY <2>1, <2>2
    <3>. QED  BY <3>1, <2>4
  <2>6. {sendQ[i].seq : i \in 1..m} = {SeqOfPkt(k) : k \in young}
    BY <2>4, <2>5
  <2>. QED  BY <2>3, <2>6 DEF SendCacheIsTheWindow, young
<1>. QED  BY <1>1, <1>2, <1>3, PTL DEF SafeSpec
-----------------------------------------------------------------------------
(***************************************************************************)
(* The receiver's queues hold packets and placeholders of a stream of at   *)
(* most MaxPackets, which takes at most half of the sequence numbers, and  *)
(* the clock differs from no timestamp by half of the timestamps.          *)
(***************************************************************************)
WidthsSuffice ==
  /\ 2 * MaxPackets =< SeqSpace /\ SendCache < TsSpace
  /\ 2 * (MaxPackets + MaxUserTs) =< TsSpace
  /\ 2 * (MaxPackets + JittComp + RecvCache) =< TsSpace

\* The packet that an entry stands for and the one whose timestamp it has.
No(e) == NumberOf(e.seq)
TsNo(e) == (e.ts - Ts0) % TsSpace

Entry == [seq : 0..SeqSpace - 1, ts : 0..TsSpace - 1, hole : BOOLEAN]
Entries(n) == {e \in Entry : /\ No(e) < n /\ TsNo(e) < n
                             /\ IF e.hole THEN No(e) < TsNo(e) ELSE No(e) = TsNo(e)}

Rising(q) == \A i, j \in 1..Len(q) : i < j => No(q[i]) < No(q[j])
Contiguous(q) == \A i \in 1..Len(q) : No(q[i]) = No(q[1]) + i - 1

LEMMA Constants ==
  /\ SeqSpace \in Nat \ {0} /\ SeqSpace % 2 = 0 /\ TsSpace \in Nat \ {0} /\ TsSpace % 2 = 0
  /\ Seq0 \in 0..SeqSpace - 1 /\ Ts0 \in 0..TsSpace - 1
  /\ SendCache \in Nat \ {0} /\ RecvCache \in Nat \ {0} /\ JittComp \in Nat
  /\ MaxRqSize \in Nat \ {0} /\ MaxPackets \in Nat /\ MaxUserTs \in Nat
  BY SpaceAssumption, RtxAssumption DEF SpaceAssumption, RtxAssumption

LEMMA SeqOrder ==
  ASSUME WidthsSuffice, NEW s1 \in 0..SeqSpace - 1, NEW s2 \in 0..SeqSpace - 1,
         NumberOf(s1) < MaxPackets, NumberOf(s2) < MaxPackets
  PROVE  /\ NumberOf(s1) \in Nat /\ NumberOf(s2) \in Nat
         /\ SeqIsGreater(s1, s2) <=> NumberOf(s1) >= NumberOf(s2)
         /\ s1 = s2 <=> NumberOf(s1) = NumberOf(s2)
         /\ NumberOf(s1) >= NumberOf(s2) => (s1 - s2) % SeqSpace = NumberOf(s1) - NumberOf(s2)
         /\ s1 = SeqOfPkt(NumberOf(s1))
<1>. DEFINE n1 == NumberOf(s1)
            n2 == NumberOf(s2)
<1>0. SeqSpace \in Nat \ {0} /\ SeqSpace % 2 = 0 /\ Seq0 \in Int /\ MaxPackets \in Nat
      /\ 2 * MaxPackets =< SeqSpace
  BY Constants DEF WidthsSuffice
<1>1. n1 \in 0..SeqSpace - 1 /\ (Seq0 + n1) % SeqSpace = s1
  BY <1>0, ModPlace DEF NumberOf
<1>2. n2 \in 0..SeqSpace - 1 /\ (Seq0 + n2) % SeqSpace = s2
  BY <1>0, ModPlace DEF NumberOf
<1>3. n1 < MaxPackets /\ n2 < MaxPackets
  OBVIOUS
<1>4. (((Seq0 + n1) % SeqSpace) - s2) % SeqSpace = (n1 - n2) % SeqSpace
  <2>1. n1 \in Int
    BY <1>1
  <2>2. (((Seq0 + n1) % SeqSpace) - s2) % SeqSpace = (n1 - ((s2 - Seq0) % SeqSpace)) % SeqSpace
    BY <1>0, <2>1, ModPlace
  <2>. QED  BY <2>2 DEF NumberOf
<1>. HIDE DEF n1, n2
<1>5. (n1 - n2) % SeqSpace < SeqSpace \div 2 <=> n1 - n2 >= 0
  <2>1. n1 - n2 \in Int /\ 2 * (n1 - n2) < SeqSpace /\ 2 * (-(n1 - n2)) =< SeqSpace
    BY <1>0, <1>1, <1>2, <1>3
  <2>. QED  BY <1>0, <2>1, ModHalf
<1>6. n1 >= n2 => (n1 - n2) % SeqSpace = n1 - n2
  BY <1>0, <1>1, <1>2, ModSmall
<1>7. (s1 - s2) % SeqSpace = (n1 - n2) % SeqSpace
  BY <1>1, <1>4
<1>8. SeqIsGreater(s1, s2) <=> n1 >= n2
  BY <1>1, <1>2, <1>5, <1>7 DEF SeqIsGreater
<1>. QED  BY <1>1, <1>2, <1>6, <1>7, <1>8 DEF n1, n2, SeqOfPkt

\* T is what the clock t stands for.
LEMMA TsOrder ==
  ASSUME NEW T \in Int, NEW x \in 0..TsSpace - 1,
         2 * (T - ((x - Ts0) % TsSpace)) < TsSpace, 2 * (((x - Ts0) % TsSpace) - T) =< TsSpace
  PROVE  TsIsNewer((Ts0 + T) % TsSpace, x) <=> T >= (x - Ts0) % TsSpace
<1>. DEFINE k == (x - Ts0) % TsSpace
<1>0. TsSpace \in Nat \ {0} /\ TsSpace % 2 = 0 /\ Ts0 \in Int
  BY Constants
<1>1. k \in 0..TsSpace - 1 /\ (((Ts0 + T) % TsSpace) - x) % TsSpace = (T - k) % TsSpace
  BY <1>0, ModPlace
<1>2. 2 * (T - k) < TsSpace /\ 2 * (k - T) =< TsSpace
  OBVIOUS
<1>. HIDE DEF k
<1>3. (T - k) % TsSpace < TsSpace \div 2 <=> T - k >= 0
  <2>1. T - k \in Int /\ 2 * (-(T - k)) =< TsSpace
    BY <1>1, <1>2
  <2>. QED  BY <1>0, <1>2, <2>1, ModHalf
<1>4. TsIsNewer((Ts0 + T) % TsSpace, x) <=> T >= k
  BY <1>1, <1>3 DEF TsIsNewer
<1>. QED  BY <1>4 DEF k
-----------------------------------------------------------------------------
(***************************************************************************)
(* The queue operations on entries in the order of their numbers.          *)
(***************************************************************************)
\* What No says of entries.
LEMMA EntryNo ==
  ASSUME WidthsSuffice, NEW n \in 0..MaxPackets, NEW e \in Entries(n)
  PROVE  /\ e \in Entry /\ No(e) \in 0..n - 1 /\ No(e) < MaxPackets /\ TsNo(e) \in 0..n - 1
         /\ e.seq \in 0..SeqSpace - 1 /\ e.ts \in 0..TsSpace - 1 /\ e.hole \in BOOLEAN
         /\ No(e) =< TsNo(e) /\ e.seq = SeqOfPkt(No(e))
<1>1. e \in Entry /\ No(e) < n /\ TsNo(e) < n
      /\ IF e.hole THEN No(e) < TsNo(e) ELSE No(e) = TsNo(e)
  BY DEF Entries
<1>2. e.seq \in 0..SeqSpace - 1 /\ e.ts \in 0..TsSpace - 1 /\ e.hole \in BOOLEAN
  BY <1>1 DEF Entry
<1>. DEFINE s == e.seq
            t == e.ts
<1>6. (s - Seq0) % SeqSpace \in Nat /\ (t - Ts0) % TsSpace \in Nat
  <2>1. s \in 0..SeqSpace - 1 /\ t \in 0..TsSpace - 1
    BY <1>2
  <2>. HIDE DEF s, t
  <2>. QED  BY <2>1, Constants, ModRange
<1>3. No(e) < MaxPackets /\ No(e) = NumberOf(e.seq)
  BY <1>1, <1>6, Constants DEF No, NumberOf
<1>4. No(e) \in Nat /\ e.seq = SeqOfPkt(No(e))
  BY <1>2, <1>3, SeqOrder DEF No
<1>5. TsNo(e) \in Nat
  BY <1>6 DEF TsNo
<1>. QED  BY <1>1, <1>2, <1>3, <1>4, <1>5

LEMMA EntryOrder ==
  ASSUME WidthsSuffice, NEW n \in 0..MaxPackets, NEW d \in Entries(n), NEW e \in Entries(n)
  PROVE  /\ SeqIsGreater(d.seq, e.seq) <=> No(d) >= No(e)
         /\ d.seq = e.seq <=> No(d) = No(e)
         /\ No(d) >= No(e) => (d.seq - e.seq) % SeqSpace = No(d) - No(e)
<1>1. /\ d.seq \in 0..SeqSpace - 1 /\ No(d) < MaxPackets
      /\ e.seq \in 0..SeqSpace - 1 /\ No(e) < MaxPackets
  BY EntryNo
<1>. QED  BY <1>1, SeqOrder DEF No

\* rtp_putq: a packet whose number is in the queue is freed, another one goes
\* to its place.
LEMMA PutPlace ==
  ASSUME WidthsSuffice, NEW n \in 0..MaxPackets, NEW q \in Seq(Entries(n)), Rising(q),
         NEW p \in Entries(n)
  PROVE  /\ rtp_putq(q, p) \in Seq(Entries(n))
         /\ \/ rtp_putq(q, p) = q /\ \E i \in 1..Len(q) : No(q[i]) = No(p)
            \/ \E k \in 0..Len(q) :
                 /\ Placed(q, p, k, rtp_putq(q, p))
                 /\ \A i \in 1..k : No(q[i]) < No(p)
                 /\ \A i \in k + 1..Len(q) : No(q[i]) > No(p)
<1>. DEFINE place == [e \in Entries(n) |-> No(e)]
<1>1. place \in [Entries(n) -> Nat]
  <2>1. \A e \in Entries(n) : No(e) \in Nat
    BY EntryNo
  <2>. QED  BY <2>1
<1>2. \A e \in Entries(n) : place[e] = No(e)
  OBVIOUS
<1>. HIDE DEF place
<1>3. InStream(Entries(n), place)
  BY <1>1, <1>2, EntryOrder DEF InStream
<1>4. \A i \in 1..Len(q) : q[i] \in Entries(n)
  OBVIOUS
<1>5. Rises(place, q)
  BY <1>2, <1>4 DEF Rises, Rising
<1>6. /\ rtp_putq(q, p) \in Seq(Entries(n))
      /\ \/ rtp_putq(q, p) = q /\ \E i \in 1..Len(q) : place[q[i]] = place[p]
         \/ \E k \in 0..Len(q) :
              /\ Placed(q, p, k, rtp_putq(q, p))
              /\ \A i \in 1..k : place[q[i]] < place[p]
              /\ \A i \in k + 1..Len(q) : place[q[i]] > place[p]
  BY <1>3, <1>5, PutInPlace
<1>7. \A k \in 0..Len(q) : 1..k \subseteq 1..Len(q) /\ k + 1..Len(q) \subseteq 1..Len(q)
  OBVIOUS
<1>. QED  BY <1>2, <1>4, <1>6, <1>7

\* r holds what q holds, and an entry with the number of p.
Merged(q, p, r) ==
  /\ \A i \in 1..Len(q) : \E j \in 1..Len(r) : r[j] = q[i]
  /\ \A j \in 1..Len(r) : r[j] = p \/ \E i \in 1..Len(q) : r[j] = q[i]
  /\ \E j \in 1..Len(r) : No(r[j]) = No(p)

\* Each entry of r is one of q, in the same order.
Part(q, r) ==
  /\ Len(q) # 0 \/ r = <<>>
  /\ \A j \in 1..Len(r) : \E i \in 1..Len(q) : r[j] = q[i]

LEMMA PutRows ==
  ASSUME WidthsSuffice, NEW n \in 0..MaxPackets, NEW q \in Seq(Entries(n)), Rising(q),
         NEW p \in Entries(n)
  PROVE  /\ rtp_putq(q, p) \in Seq(Entries(n)) /\ Rising(rtp_putq(q, p))
         /\ Merged(q, p, rtp_putq(q, p))
<1>. DEFINE r == rtp_putq(q, p)
<1>1. r \in Seq(Entries(n))
  BY PutPlace
<1>2. CASE r = q /\ \E i \in 1..Len(q) : No(q[i]) = No(p)
  BY <1>1, <1>2 DEF Merged
<1>3. ASSUME NEW k \in 0..Len(q), Placed(q, p, k, r),
             \A i \in 1..k : No(q[i]) < No(p), \A i \in k + 1..Len(q) : No(q[i]) > No(p)
      PROVE  Rising(r) /\ Merged(q, p, r)
  <2>. HIDE DEF r
  <2>1. Len(r) = Len(q) + 1 /\ Len(q) \in Nat
        /\ \A i \in 1..Len(q) + 1 :
             r[i] = IF i =< k THEN q[i] ELSE IF i = k + 1 THEN p ELSE q[i - 1]
    BY <1>3 DEF Placed
  <2>2. No(p) \in Nat /\ \A i \in 1..Len(q) : No(q[i]) \in Nat
    BY EntryNo
  <2>3. Rising(r)
    <3>1. ASSUME NEW i \in 1..Len(q) + 1, NEW j \in 1..Len(q) + 1, i < j
          PROVE  No(r[i]) < No(r[j])
      <4>1. CASE j =< k
        <5>1. r[i] = q[i] /\ r[j] = q[j] /\ i \in 1..Len(q) /\ j \in 1..Len(q)
          BY <2>1, <3>1, <4>1
        <5>. QED  BY <3>1, <5>1 DEF Rising
      <4>2. CASE j = k + 1
        <5>1. r[i] = q[i] /\ r[j] = p /\ i \in 1..k
          BY <2>1, <3>1, <4>2
        <5>. QED  BY <1>3, <5>1
      <4>3. CASE j > k + 1 /\ i = k + 1
        <5>1. r[i] = p /\ r[j] = q[j - 1] /\ j - 1 \in k + 1..Len(q)
          BY <2>1, <3>1, <4>3
        <5>2. No(q[j - 1]) > No(p) /\ No(q[j - 1]) \in Nat
          BY <1>3, <2>2, <5>1
        <5>. QED  BY <2>2, <5>1, <5>2
      <4>4. CASE j > k + 1 /\ i < k + 1
        <5>1. r[i] = q[i] /\ r[j] = q[j - 1] /\ i \in 1..Len(q) /\ j - 1 \in 1..Len(q) /\ i < j - 1
          BY <2>1, <3>1, <4>4
        <5>. QED  BY <5>1 DEF Rising
      <4>5. CASE j > k + 1 /\ i > k + 1
        <5>1. r[i] = q[i - 1] /\ r[j] = q[j - 1] /\ i - 1 \in 1..Len(q) /\ j - 1 \in 1..Len(q)
              /\ i - 1 < j - 1
          BY <2>1, <3>1, <4>5
        <5>. QED  BY <5>1 DEF Rising
      <4>. QED  BY <4>1, <4>2, <4>3, <4>4, <4>5
    <3>. QED  BY <2>1, <3>1 DEF Rising
  <2>4. ASSUME NEW i \in 1..Len(q)  PROVE \E j \in 1..Len(q) + 1 : r[j] = q[i]
    <3>1. CASE i =< k
      BY <2>1, <3>1
    <3>2. CASE i > k
      <4>1. i + 1 \in 1..Len(q) + 1 /\ ~(i + 1 =< k) /\ i + 1 # k + 1 /\ (i + 1) - 1 = i
        BY <2>1, <3>2
      <4>2. r[i + 1] = q[i]
        BY <2>1, <4>1
      <4>. QED  BY <4>1, <4>2
    <3>. QED  BY <3>1, <3>2
  <2>5. ASSUME NEW j \in 1..Len(q) + 1  PROVE r[j] = p \/ \E i \in 1..Len(q) : r[j] = q[i]
    <3>1. CASE j =< k
      BY <2>1, <3>1
    <3>2. CASE j = k + 1
      BY <2>1, <3>2
    <3>3. CASE j > k + 1
      <4>1. r[j] = q[j - 1] /\ j - 1 \in 1..Len(q)
        BY <2>1, <3>3
      <4>. QED  BY <4>1
    <3>. QED  BY <3>1, <3>2, <3>3
  <2>6. \E j \in 1..Len(q) + 1 : No(r[j]) = No(p)
    <3>1. k + 1 \in 1..Len(q) + 1 /\ r[k + 1] = p
      BY <2>1
    <3>. QED  BY <3>1
  <2>. QED  BY <2>1, <2>3, <2>4, <2>5, <2>6 DEF Merged
<1>. QED  BY <1>1, <1>2, <1>3, PutPlace

LEMMA SuffixRows ==
  ASSUME NEW n \in Nat, NEW q \in Seq(Entries(n)), Rising(q), NEW m \in 1..Len(q) + 1
  PROVE  LET r == SubSeq(q, m, Len(q))
         IN  /\ r \in Seq(Entries(n)) /\ Rising(r) /\ Part(q, r)
             /\ Len(r) = Len(q) - m + 1 /\ \A j \in 1..Len(r) : r[j] = q[m + j - 1]
<1>. DEFINE r == SubSeq(q, m, Len(q))
<1>1. /\ r \in Seq(Entries(n)) /\ Len(r) = Len(q) - m + 1
      /\ \A j \in 1..Len(r) : r[j] = q[m + j - 1]
  OBVIOUS
<1>2. \A j \in 1..Len(r) : m + j - 1 \in 1..Len(q)
  BY <1>1
<1>. HIDE DEF r
<1>3. Rising(r)
  <2>1. ASSUME NEW i \in 1..Len(r), NEW j \in 1..Len(r), i < j  PROVE No(r[i]) < No(r[j])
    <3>1. m + i - 1 < m + j - 1
      BY <2>1
    <3>. QED  BY <1>1, <1>2, <3>1 DEF Rising
  <2>. QED  BY <2>1 DEF Rising
<1>4. Part(q, r)
  <2>1. Len(q) = 0 => r = <<>>
    BY <1>1
  <2>. QED  BY <1>1, <1>2, <2>1 DEF Part
<1>. QED  BY <1>1, <1>3, <1>4 DEF r

\* queue_packet: at most the packets of the queue and p.
LEMMA QueuePacketRows ==
  ASSUME WidthsSuffice, NEW n \in 0..MaxPackets, NEW q \in Seq(Entries(n)), Rising(q),
         NEW p \in Entries(n)
  PROVE  LET r == queue_packet(q, MaxRqSize, p)
         IN  /\ r \in Seq(Entries(n)) /\ Rising(r)
             /\ \A j \in 1..Len(r) : r[j] = p \/ \E i \in 1..Len(q) : r[j] = q[i]
<1>. DEFINE s == rtp_putq(q, p)
            over == Len(s) - MaxRqSize
            r == queue_packet(q, MaxRqSize, p)
<1>1. s \in Seq(Entries(n)) /\ Rising(s) /\ Merged(q, p, s)
  BY PutRows
<1>2. r = IF over > 0 THEN SubSeq(s, over + 1, Len(s)) ELSE s
  BY DEF queue_packet
<1>. HIDE DEF s, r
<1>3. CASE over > 0
  <2>1. over + 1 \in 1..Len(s) + 1 /\ n \in Nat
    BY <1>1, <1>3, Constants
  <2>2. r \in Seq(Entries(n)) /\ Rising(r) /\ Part(s, r)
    BY <1>1, <1>2, <1>3, <2>1, SuffixRows
  <2>3. \A j \in 1..Len(r) : \E k \in 1..Len(s) : r[j] = s[k]
    BY <2>2 DEF Part
  <2>4. \A k \in 1..Len(s) : s[k] = p \/ \E i \in 1..Len(q) : s[k] = q[i]
    BY <1>1 DEF Merged
  <2>5. \A j \in 1..Len(r) : r[j] = p \/ \E i \in 1..Len(q) : r[j] = q[i]
    BY <2>3, <2>4
  <2>. QED  BY <2>2, <2>5 DEF r
<1>4. CASE ~(over > 0)
  BY <1>1, <1>2, <1>4 DEF Merged, r
<1>. QED  BY <1>3, <1>4

\* What the clock may stand for, with rtx_recv_cache_time taken off or not.
ClockRange == -(JittComp + RecvCache)..MaxPackets + MaxUserTs - 1

LEMMA EntryIsDue ==
  ASSUME WidthsSuffice, NEW n \in 0..MaxPackets, NEW e \in Entries(n), NEW T \in ClockRange
  PROVE  TsIsNewer((Ts0 + T) % TsSpace, e.ts) <=> T >= TsNo(e)
<1>1. TsNo(e) \in 0..n - 1 /\ e.ts \in 0..TsSpace - 1 /\ TsNo(e) = (e.ts - Ts0) % TsSpace
  BY EntryNo DEF TsNo
<1>2. 2 * (T - TsNo(e)) < TsSpace /\ 2 * (TsNo(e) - T) =< TsSpace /\ T \in Int
  BY <1>1, Constants DEF WidthsSuffice, ClockRange
<1>. DEFINE x == e.ts
<1>3. x \in 0..TsSpace - 1 /\ TsNo(e) = (x - Ts0) % TsSpace
  BY <1>1
<1>. HIDE DEF x
<1>4. TsIsNewer((Ts0 + T) % TsSpace, x) <=> T >= TsNo(e)
  BY <1>2, <1>3, TsOrder
<1>. QED  BY <1>4 DEF x

\* rtp_getq: what it leaves is newer than the clock.
LEMMA GetRows ==
  ASSUME WidthsSuffice, NEW n \in 0..MaxPackets, NEW q \in Seq(Entries(n)), Rising(q),
         \A i \in 1..Len(q) : ~q[i].hole, NEW T \in ClockRange
  PROVE  LET g == rtp_getq(q, (Ts0 + T) % TsSpace)
         IN  /\ g.rest \in Seq(Entries(n)) /\ Rising(g.rest) /\ Part(q, g.rest)
             /\ \A i \in 1..Len(g.rest) : No(g.rest[i]) > T
             /\ g.ret = <<>> \/ \E i \in 1..Len(q) : g.ret = <<q[i]>>
<1>. DEFINE t == (Ts0 + T) % TsSpace
            mayTake(k) == \A i \in 1..k : TsIsNewer(t, q[i].ts) /\ (i > 1 => q[i].ts # q[i - 1].ts)
            able == {k \in 0..Len(q) : mayTake(k)}
            taken == Max(able)
            g == rtp_getq(q, t)
<1>1. /\ g.ret = (IF taken = 0 THEN <<>> ELSE <<q[taken]>>)
      /\ g.rest = SubSeq(q, taken + 1, Len(q))
  BY DEF rtp_getq
<1>2. taken \in 0..Len(q) /\ mayTake(taken) /\ \A k \in 0..Len(q) : mayTake(k) => taken >= k
  <2>1. able # {} /\ able \in SUBSET (0..Len(q)) /\ Len(q) \in Nat
    <3>1. 0 \in able
      OBVIOUS
    <3>. QED  BY <3>1
  <2>. HIDE DEF able
  <2>2. taken \in able /\ \A y \in able : taken >= y
    BY <2>1, GreatestOf
  <2>. HIDE DEF taken
  <2>. QED  BY <2>2 DEF able
<1>. HIDE DEF taken, able, g
<1>3. \A i \in 1..Len(q) : /\ q[i] \in Entries(n) /\ No(q[i]) = TsNo(q[i]) /\ No(q[i]) \in Nat
                           /\ TsIsNewer(t, q[i].ts) <=> T >= No(q[i])
  <2>1. ASSUME NEW i \in 1..Len(q)
        PROVE  /\ q[i] \in Entries(n) /\ No(q[i]) = TsNo(q[i]) /\ No(q[i]) \in Nat
               /\ TsIsNewer(t, q[i].ts) <=> T >= No(q[i])
    <3>1. q[i] \in Entries(n) /\ ~q[i].hole
      OBVIOUS
    <3>2. No(q[i]) = TsNo(q[i])
      BY <3>1 DEF Entries
    <3>. QED  BY <3>1, <3>2, EntryNo, EntryIsDue
  <2>. QED  BY <2>1
<1>4. \A i \in 2..Len(q) : q[i].ts # q[i - 1].ts
  <2>1. ASSUME NEW i \in 2..Len(q)  PROVE q[i].ts # q[i - 1].ts
    <3>1. i - 1 \in 1..Len(q) /\ i \in 1..Len(q) /\ i - 1 < i
      OBVIOUS
    <3>2. No(q[i - 1]) < No(q[i])
      BY <3>1 DEF Rising
    <3>3. TsNo(q[i - 1]) # TsNo(q[i])
      BY <1>3, <3>1, <3>2
    <3>. QED  BY <3>3 DEF TsNo
  <2>. QED  BY <2>1
<1>5. \A i \in taken + 1..Len(q) : No(q[i]) > T
  <2>1. SUFFICES ASSUME taken + 1 \in 1..Len(q)  PROVE No(q[taken + 1]) > T
    <3>1. ASSUME NEW i \in taken + 1..Len(q), No(q[taken + 1]) > T  PROVE No(q[i]) > T
      <4>1. taken + 1 \in 1..Len(q) /\ i \in 1..Len(q) /\ taken + 1 =< i
        BY <1>2
      <4>2. No(q[taken + 1]) =< No(q[i])
        BY <1>3, <4>1 DEF Rising
      <4>. QED  BY <1>3, <3>1, <4>1, <4>2 DEF ClockRange
    <3>2. ASSUME NEW i \in taken + 1..Len(q)  PROVE taken + 1 \in 1..Len(q)
      BY <1>2
    <3>. QED  BY <3>1, <3>2
  <2>2. ~mayTake(taken + 1)
    BY <1>2, <2>1
  <2>3. PICK i \in 1..taken + 1 : ~(TsIsNewer(t, q[i].ts) /\ (i > 1 => q[i].ts # q[i - 1].ts))
    BY <2>2
  <2>4. i = taken + 1
    <3>1. SUFFICES ASSUME i # taken + 1  PROVE FALSE
      OBVIOUS
    <3>2. i \in 1..taken
      BY <1>2, <3>1
    <3>. QED  BY <1>2, <2>3, <3>2
  <2>5. ~TsIsNewer(t, q[i].ts)
    <3>1. i > 1 => i \in 2..Len(q)
      BY <2>1, <2>4
    <3>. QED  BY <1>4, <2>3, <3>1
  <2>. QED  BY <1>3, <2>1, <2>4, <2>5 DEF ClockRange
<1>6. taken + 1 \in 1..Len(q) + 1 /\ n \in Nat
  BY <1>2
<1>7. /\ g.rest \in Seq(Entries(n)) /\ Rising(g.rest) /\ Part(q, g.rest)
      /\ Len(g.rest) = Len(q) - (taken + 1) + 1
      /\ \A j \in 1..Len(g.rest) : g.rest[j] = q[(taken + 1) + j - 1]
  BY <1>1, <1>6, SuffixRows
<1>8. \A i \in 1..Len(g.rest) : No(g.rest[i]) > T
  <2>1. ASSUME NEW i \in 1..Len(g.rest)  PROVE No(g.rest[i]) > T
    <3>1. (taken + 1) + i - 1 \in taken + 1..Len(q)
      BY <1>2, <1>7
    <3>. QED  BY <1>5, <1>7, <3>1
  <2>. QED  BY <2>1
<1>9. g.ret = <<>> \/ \E i \in 1..Len(q) : g.ret = <<q[i]>>
  <2>1. taken # 0 => taken \in 1..Len(q)
    BY <1>2
  <2>. QED  BY <1>1, <2>1
<1>. QED  BY <1>7, <1>8, <1>9 DEF g, t

\* rtp_getq_permissive: the head, if its time has come.
LEMMA PermissiveRows ==
  ASSUME WidthsSuffice, NEW n \in 0..MaxPackets, NEW q \in Seq(Entries(n)), NEW T \in ClockRange
  PROVE  LET d == rtp_getq_permissive(q, (Ts0 + T) % TsSpace)
         IN  \/ d.ret = <<>> /\ d.rest = q
             \/ /\ Len(q) > 0 /\ d.ret = <<q[1]>> /\ TsNo(q[1]) =< T
                /\ d.rest = Tail(q)
<1>. DEFINE t == (Ts0 + T) % TsSpace
            d == rtp_getq_permissive(q, t)
<1>1. d = IF q # <<>> /\ TsIsNewer(t, Head(q).ts)
          THEN [ret |-> <<Head(q)>>, rest |-> Tail(q)]
          ELSE [ret |-> <<>>, rest |-> q]
  BY DEF rtp_getq_permissive
<1>2. CASE q # <<>> /\ TsIsNewer(t, Head(q).ts)
  <2>1. Len(q) > 0 /\ Head(q) = q[1] /\ q[1] \in Entries(n)
    BY <1>2
  <2>2. T >= TsNo(q[1])
    BY <1>2, <2>1, EntryIsDue
  <2>3. TsNo(q[1]) =< T
    BY <2>1, <2>2, EntryNo DEF ClockRange
  <2>. QED  BY <1>1, <1>2, <2>1, <2>3
<1>3. CASE ~(q # <<>> /\ TsIsNewer(t, Head(q).ts))
  BY <1>1, <1>3
<1>. QED  BY <1>2, <1>3

\* The number of the packet k after the packet a.
LEMMA NumberAfter ==
  ASSUME WidthsSuffice, NEW a \in Nat, NEW k \in Nat, a + k < MaxPackets
  PROVE  /\ (SeqOfPkt(a) + k) % SeqSpace = SeqOfPkt(a + k)
         /\ SeqOfPkt(a + k) \in 0..SeqSpace - 1 /\ NumberOf(SeqOfPkt(a + k)) = a + k
<1>0. SeqSpace \in Nat \ {0} /\ Seq0 \in Int /\ MaxPackets =< SeqSpace
  BY Constants DEF WidthsSuffice
<1>. DEFINE x == Seq0 + a
            c == x \div SeqSpace
<1>1. x \in Int /\ c \in Int /\ x = SeqSpace * c + (x % SeqSpace) /\ x % SeqSpace \in 0..SeqSpace - 1
  <2>1. x \in Int
    BY <1>0
  <2>. HIDE DEF x
  <2>. QED  BY <1>0, <2>1, ModRange
<1>2. ((x % SeqSpace) + k) % SeqSpace = (x + k) % SeqSpace
  <2>. DEFINE y == x % SeqSpace
              m == SeqSpace * c
  <2>1. x + k = ((x % SeqSpace) + k) + SeqSpace * c
    <3>1. x \in Int /\ y \in Int /\ m \in Int /\ x = m + y
      BY <1>0, <1>1
    <3>. HIDE DEF x, y, m
    <3>2. x + k = (y + k) + m
      BY <3>1
    <3>. QED  BY <3>2 DEF y, m
  <2>2. (x % SeqSpace) + k \in Int
    BY <1>1
  <2>3. (((x % SeqSpace) + k) + SeqSpace * c) % SeqSpace = ((x % SeqSpace) + k) % SeqSpace
    BY <1>0, <1>1, <2>2, ModAdd
  <2>. QED  BY <2>1, <2>3
<1>3. x + k = Seq0 + (a + k)
  BY <1>0
<1>4. (SeqOfPkt(a) + k) % SeqSpace = SeqOfPkt(a + k)
  BY <1>2, <1>3 DEF SeqOfPkt
<1>. DEFINE y == Seq0 + (a + k)
            s == y % SeqSpace
<1>5. s \in 0..SeqSpace - 1
  <2>1. y \in Int
    BY <1>0
  <2>. HIDE DEF y
  <2>. QED  BY <1>0, <2>1, ModRange
<1>6. (s - Seq0) % SeqSpace = (y - Seq0) % SeqSpace
  <2>1. y \in Int /\ Seq0 % SeqSpace = Seq0
    BY <1>0, Constants, ModSmall
  <2>. HIDE DEF y
  <2>2. ((y % SeqSpace) - (Seq0 % SeqSpace)) % SeqSpace = (y - Seq0) % SeqSpace
    BY <1>0, <2>1, ModDiff
  <2>. QED  BY <2>1, <2>2
<1>7. y - Seq0 = a + k /\ a + k \in 0..SeqSpace - 1
  BY <1>0, Constants
<1>8. (y - Seq0) % SeqSpace = a + k
  BY <1>0, <1>7, ModSmall
<1>. QED  BY <1>4, <1>5, <1>6, <1>8 DEF NumberOf, SeqOfPkt

\* What the walk over the queue makes of it: the numbers without a gap.
Filled(q, r) ==
  /\ Contiguous(r) /\ No(r[1]) = No(q[1]) /\ Len(r) = No(q[Len(q)]) - No(q[1]) + 1
  /\ \A i \in 1..Len(q) : \E j \in 1..Len(r) : r[j] = q[i]
  /\ \A j \in 1..Len(r) : \/ \E i \in 1..Len(q) : r[j] = q[i]
                          \/ /\ r[j].hole /\ No(r[j]) > No(q[1])
                             /\ \A i \in 1..Len(q) : No(q[i]) # No(r[j])

LEMMA FillRows ==
  ASSUME WidthsSuffice, NEW n \in 0..MaxPackets, NEW q \in Seq(Entries(n)), Rising(q), Len(q) > 0
  PROVE  FillGaps(q) \in Seq(Entries(n)) /\ Filled(q, FillGaps(q))
<1>. DEFINE a == No(q[1])
            z == No(q[Len(q)])
            r == FillGaps(q)
            Row(k) == IF EntriesAt(q, k) # {} THEN q[Min(EntriesAt(q, k))]
                      ELSE Placeholder(NumberAt(q, k), GapTs(q, k))
<1>0. Len(q) \in Nat \ {0} /\ 1 \in 1..Len(q) /\ Len(q) \in 1..Len(q)
  OBVIOUS
<1>1. \A i \in 1..Len(q) :
        /\ q[i] \in Entries(n) /\ No(q[i]) \in 0..n - 1 /\ No(q[i]) \in a..z
        /\ TsNo(q[i]) \in 0..n - 1 /\ No(q[i]) =< TsNo(q[i])
        /\ q[i].seq \in 0..SeqSpace - 1 /\ q[i].seq = SeqOfPkt(No(q[i]))
        /\ q[i].ts \in 0..TsSpace - 1
  <2>1. ASSUME NEW i \in 1..Len(q)
        PROVE  /\ q[i] \in Entries(n) /\ No(q[i]) \in 0..n - 1
               /\ TsNo(q[i]) \in 0..n - 1 /\ No(q[i]) =< TsNo(q[i])
               /\ q[i].seq \in 0..SeqSpace - 1 /\ q[i].seq = SeqOfPkt(No(q[i]))
               /\ q[i].ts \in 0..TsSpace - 1
    <3>1. q[i] \in Entries(n)
      OBVIOUS
    <3>. QED  BY <3>1, EntryNo
  <2>2. ASSUME NEW i \in 1..Len(q)  PROVE No(q[i]) \in a..z
    <3>1. No(q[i]) \in Int /\ a \in Int /\ z \in Int
      BY <1>0, <2>1
    <3>2. i > 1 => a < No(q[i])
      BY <1>0 DEF Rising
    <3>3. i < Len(q) => No(q[i]) < z
      BY <1>0 DEF Rising
    <3>4. (i = 1 \/ i > 1) /\ (i = Len(q) \/ i < Len(q))
      OBVIOUS
    <3>. QED  BY <3>1, <3>2, <3>3, <3>4
  <2>. QED  BY <2>1, <2>2
<1>2. a \in 0..n - 1 /\ z \in a..n - 1 /\ n =< MaxPackets
  BY <1>0, <1>1
<1>3. (Last(q).seq - q[1].seq) % SeqSpace = z - a
  <2>1. Last(q) = q[Len(q)]
    BY DEF Last
  <2>2. q[Len(q)] \in Entries(n) /\ q[1] \in Entries(n) /\ z >= a
    BY <1>0, <1>1, <1>2
  <2>3. (q[Len(q)].seq - q[1].seq) % SeqSpace = z - a
    BY <2>2, EntryOrder
  <2>. QED  BY <2>1, <2>3
<1>4. r = [i \in 1..(z - a) + 1 |-> Row(i - 1)]
  <2>1. q # <<>>
    BY <1>0
  <2>. QED  BY <1>3, <2>1 DEF FillGaps
<1>5. ASSUME NEW k \in 0..z - a
      PROVE  /\ NumberAt(q, k) = SeqOfPkt(a + k) /\ NumberAt(q, k) \in 0..SeqSpace - 1
             /\ NumberOf(NumberAt(q, k)) = a + k
  <2>1. a \in Nat /\ k \in Nat /\ a + k < MaxPackets
    <3>. HIDE DEF a, z
    <3>. QED  BY <1>2, Constants
  <2>2. /\ (SeqOfPkt(a) + k) % SeqSpace = SeqOfPkt(a + k)
        /\ SeqOfPkt(a + k) \in 0..SeqSpace - 1 /\ NumberOf(SeqOfPkt(a + k)) = a + k
    <3>. HIDE DEF a
    <3>. QED  BY <2>1, NumberAfter
  <2>3. q[1].seq = SeqOfPkt(a)
    BY <1>0, <1>1
  <2>. QED  BY <2>2, <2>3 DEF NumberAt
<1>6. ASSUME NEW k \in 0..z - a
      PROVE  EntriesAt(q, k) = {i \in 1..Len(q) : No(q[i]) = a + k}
  <2>1. \A i \in 1..Len(q) : q[i].seq = NumberAt(q, k) <=> No(q[i]) = a + k
    <3>1. \A i \in 1..Len(q) : q[i].seq = NumberAt(q, k) => No(q[i]) = a + k
      BY <1>5 DEF No
    <3>2. \A i \in 1..Len(q) : No(q[i]) = a + k => q[i].seq = NumberAt(q, k)
      BY <1>1, <1>5
    <3>. QED  BY <3>1, <3>2
  <2>. QED  BY <2>1 DEF EntriesAt
<1>7. ASSUME NEW k \in 0..z - a, NEW i \in 1..Len(q), No(q[i]) = a + k
      PROVE  Row(k) = q[i]
  <2>. DEFINE S == EntriesAt(q, k)
  <2>1. i \in S /\ S \in SUBSET Nat
    BY <1>6, <1>7
  <2>2. Min(S) \in S
    <3>. HIDE DEF S
    <3>. QED  BY <2>1, LeastOf
  <2>3. Min(S) \in 1..Len(q) /\ No(q[Min(S)]) = a + k
    BY <1>6, <2>2
  <2>4. Min(S) = i
    <3>. DEFINE m == Min(S)
    <3>1. m \in 1..Len(q) /\ No(q[m]) = No(q[i])
      BY <1>7, <2>3
    <3>. HIDE DEF m
    <3>2. m = i
      BY <1>1, <3>1 DEF Rising
    <3>. QED  BY <3>2 DEF m
  <2>. QED  BY <2>1, <2>4
<1>8. ASSUME NEW k \in 0..z - a, \A i \in 1..Len(q) : No(q[i]) # a + k
      PROVE  /\ Row(k) = Placeholder(NumberAt(q, k), GapTs(q, k))
             /\ \E m \in 1..Len(q) : GapTs(q, k) = q[m].ts /\ No(q[m]) > a + k
  <2>1. EntriesAt(q, k) = {}
    BY <1>6, <1>8
  <2>. DEFINE S == {i \in DOMAIN q : (q[i].seq - q[1].seq) % SeqSpace > k}
  <2>2. \A i \in 1..Len(q) : (q[i].seq - q[1].seq) % SeqSpace = No(q[i]) - a
    <3>1. ASSUME NEW i \in 1..Len(q)  PROVE (q[i].seq - q[1].seq) % SeqSpace = No(q[i]) - a
      <4>1. q[i] \in Entries(n) /\ q[1] \in Entries(n) /\ No(q[i]) >= a
        BY <1>0, <1>1
      <4>. QED  BY <4>1, EntryOrder
    <3>. QED  BY <3>1
  <2>3. S = {i \in 1..Len(q) : No(q[i]) - a > k}
    BY <2>2
  <2>4. Len(q) \in S
    <3>1. z # a + k /\ z \in Int /\ a \in Int
      BY <1>0, <1>2, <1>8
    <3>2. z - a > k
      BY <3>1
    <3>. QED  BY <1>0, <2>3, <3>2
  <2>5. Min(S) \in S
    <3>1. S \in SUBSET Nat /\ S # {}
      BY <2>3, <2>4
    <3>. HIDE DEF S
    <3>. QED  BY <3>1, LeastOf
  <2>6. Min(S) \in 1..Len(q) /\ No(q[Min(S)]) > a + k
    <3>. DEFINE m == Min(S)
    <3>1. m \in 1..Len(q) /\ No(q[m]) - a > k
      BY <2>3, <2>5
    <3>2. No(q[m]) \in Int /\ a \in Int
      BY <1>1, <1>2, <3>1
    <3>. HIDE DEF m
    <3>3. No(q[m]) > a + k
      BY <3>1, <3>2
    <3>. QED  BY <3>1, <3>3 DEF m
  <2>7. GapTs(q, k) = q[Min(S)].ts
    BY DEF GapTs
  <2>. QED  BY <2>1, <2>6, <2>7
<1>. HIDE DEF r, Row
<1>9. ASSUME NEW k \in 0..z - a
      PROVE  /\ Row(k) \in Entries(n) /\ No(Row(k)) = a + k
             /\ \/ \E i \in 1..Len(q) : Row(k) = q[i]
                \/ /\ Row(k).hole /\ No(Row(k)) > a
                   /\ \A i \in 1..Len(q) : No(q[i]) # No(Row(k))
  <2>1. CASE \E i \in 1..Len(q) : No(q[i]) = a + k
    <3>1. PICK i \in 1..Len(q) : No(q[i]) = a + k
      BY <2>1
    <3>2. Row(k) = q[i]
      BY <1>7, <3>1
    <3>. QED  BY <1>1, <3>1, <3>2
  <2>2. CASE \A i \in 1..Len(q) : No(q[i]) # a + k
    <3>1. PICK m \in 1..Len(q) : GapTs(q, k) = q[m].ts /\ No(q[m]) > a + k
      BY <1>8, <2>2
    <3>. DEFINE e == Row(k)
    <3>2. e = [seq |-> NumberAt(q, k), ts |-> q[m].ts, hole |-> TRUE]
      BY <1>8, <2>2, <3>1 DEF Placeholder
    <3>. HIDE DEF e
    <3>3. e \in Entry /\ No(e) = a + k /\ TsNo(e) = TsNo(q[m]) /\ e.hole
      BY <1>1, <1>5, <3>2 DEF Entry, No, TsNo
    <3>4. a + k < TsNo(q[m]) /\ TsNo(q[m]) < n /\ a + k < n
      <4>1. /\ No(q[m]) \in Int /\ TsNo(q[m]) \in Int /\ No(q[m]) =< TsNo(q[m]) /\ a \in Int
            /\ TsNo(q[m]) < n
        BY <1>1, <1>2
      <4>. QED  BY <3>1, <4>1
    <3>5. e \in Entries(n)
      BY <3>3, <3>4 DEF Entries
    <3>6. No(e) > a
      <4>1. k # 0
        BY <1>0, <1>2, <2>2
      <4>. QED  BY <1>2, <3>3, <4>1
    <3>. QED  BY <2>2, <3>3, <3>5, <3>6 DEF e
  <2>. QED  BY <2>1, <2>2
<1>10. Len(r) = (z - a) + 1 /\ (z - a) + 1 \in Nat \ {0}
       /\ \A j \in 1..(z - a) + 1 : r[j] = Row(j - 1) /\ j - 1 \in 0..z - a
  BY <1>2, <1>4
<1>11. r \in Seq(Entries(n))
  <2>1. \A j \in 1..(z - a) + 1 : r[j] \in Entries(n)
    BY <1>9, <1>10
  <2>2. r = [j \in 1..(z - a) + 1 |-> r[j]]
    BY <1>4
  <2>. DEFINE m == (z - a) + 1
  <2>3. m \in Nat /\ r = [j \in 1..m |-> r[j]] /\ \A j \in 1..m : r[j] \in Entries(n)
    BY <1>10, <2>1, <2>2
  <2>. HIDE DEF m
  <2>4. r \in [1..m -> Entries(n)]
    BY <2>3
  <2>. QED  BY <2>3, <2>4
<1>12. \A j \in 1..Len(r) : No(r[j]) = a + j - 1
  BY <1>2, <1>9, <1>10
<1>13. Contiguous(r) /\ No(r[1]) = a
  <2>1. No(r[1]) = a
    BY <1>2, <1>10, <1>12
  <2>. QED  BY <1>12, <2>1 DEF Contiguous
<1>14. ASSUME NEW i \in 1..Len(q)  PROVE \E j \in 1..Len(r) : r[j] = q[i]
  <2>. DEFINE k == No(q[i]) - a
  <2>1. k \in 0..z - a /\ No(q[i]) = a + k /\ k + 1 \in 1..(z - a) + 1
    BY <1>1, <1>2
  <2>. HIDE DEF k
  <2>2. Row(k) = q[i]
    BY <1>7, <2>1
  <2>3. r[k + 1] = Row((k + 1) - 1) /\ (k + 1) - 1 = k
    BY <1>10, <2>1
  <2>. QED  BY <1>10, <2>1, <2>2, <2>3
<1>15. ASSUME NEW j \in 1..Len(r)
       PROVE  \/ \E i \in 1..Len(q) : r[j] = q[i]
              \/ /\ r[j].hole /\ No(r[j]) > a
                 /\ \A i \in 1..Len(q) : No(q[i]) # No(r[j])
  BY <1>9, <1>10
<1>. QED  BY <1>10, <1>11, <1>13, <1>14, <1>15 DEF Filled, r
-----------------------------------------------------------------------------
\* The requests: the numbers of the new placeholders, each once and in order.
IsNew(before, e) == e.hole /\ e.seq \notin Holes(before)

Requested(before, after, as) ==
  /\ as \in Seq(0..SeqSpace - 1)
  /\ \A i \in 1..Len(as) : \E j \in 1..Len(after) : IsNew(before, after[j]) /\ as[i] = after[j].seq
  /\ \A i, k \in 1..Len(as) : i < k => NumberOf(as[i]) < NumberOf(as[k])
  /\ \A j \in 1..Len(after) : IsNew(before, after[j]) => \E i \in 1..Len(as) : as[i] = after[j].seq

LEMMA AskedRows ==
  ASSUME WidthsSuffice, NEW n \in 0..MaxPackets, NEW before,
         NEW after \in Seq(Entries(n)), Rising(after)
  PROVE  Requested(before, after, Asked(before, after))
<1>. DEFINE m == Len(after)
            X == Seq(0..SeqSpace - 1)
            Next1(s, i) == IF after[i].hole /\ after[i].seq \notin Holes(before)
                           THEN Append(s, after[i].seq) ELSE s
            h == CHOOSE f : f = [i \in 0..m |-> IF i = 0 THEN <<>>
                                   ELSE IF after[i].hole /\ after[i].seq \notin Holes(before)
                                   THEN Append(f[i - 1], after[i].seq) ELSE f[i - 1]]
<1>1. Asked(before, after) = h[m]
  BY DEF Asked
<1>2. \A i \in 1..m : after[i].seq \in 0..SeqSpace - 1
  <2>1. ASSUME NEW i \in 1..m  PROVE after[i].seq \in 0..SeqSpace - 1
    <3>1. after[i] \in Entries(n)
      OBVIOUS
    <3>. QED  BY <3>1, EntryNo
  <2>. QED  BY <2>1
<1>3. h = [i \in 0..m |-> IF i = 0 THEN <<>>
             ELSE IF after[i].hole /\ after[i].seq \notin Holes(before)
             THEN Append(h[i - 1], after[i].seq) ELSE h[i - 1]]
  <2>. DEFINE G == [z \in X \X (1..m) |-> Next1(z[1], z[2])]
  <2>1. G \in [X \X (1..m) -> X]
    <3>1. ASSUME NEW s \in X, NEW i \in 1..m  PROVE Next1(s, i) \in X
      <4>. DEFINE x == after[i].seq
      <4>1. x \in 0..SeqSpace - 1
        BY <1>2
      <4>. HIDE DEF x
      <4>2. Append(s, x) \in X
        BY <4>1
      <4>. QED  BY <4>2 DEF x
    <3>2. \A z \in X \X (1..m) : z[1] \in X /\ z[2] \in 1..m
      OBVIOUS
    <3>. HIDE DEF X, Next1
    <3>. QED  BY <3>1, <3>2
  <2>2. m \in Nat /\ <<>> \in X
    OBVIOUS
  <2>3. \E f \in [0..m -> X] : Unfolds(f, <<>>, m, G)
    <3>. HIDE DEF m, X, G
    <3>. QED  BY <2>1, <2>2, FunctionExists
  <2>4. PICK f \in [0..m -> X] : f[0] = <<>> /\ \A i \in 1..m : f[i] = G[<<f[i - 1], i>>]
    BY <2>3 DEF Unfolds
  <2>5. \A i \in 1..m : f[i] = Next1(f[i - 1], i)
    <3>1. ASSUME NEW i \in 1..m  PROVE f[i] = Next1(f[i - 1], i)
      <4>1. f[i - 1] \in X
        OBVIOUS
      <4>2. G[<<f[i - 1], i>>] = Next1(f[i - 1], i)
        <5>. HIDE DEF X, Next1, m
        <5>. QED  BY <4>1
      <4>. QED  BY <2>4, <4>2
    <3>. QED  BY <3>1
  <2>6. f = [i \in 0..m |-> IF i = 0 THEN <<>>
               ELSE IF after[i].hole /\ after[i].seq \notin Holes(before)
               THEN Append(f[i - 1], after[i].seq) ELSE f[i - 1]]
    <3>1. \A i \in 0..m : i = 0 \/ i \in 1..m
      OBVIOUS
    <3>. HIDE DEF X, m
    <3>. QED  BY <2>4, <2>5, <3>1
  <2>. HIDE DEF m
  <2>. QED  BY <2>6, Zenon
<1>4. /\ h[0] = <<>>
      /\ \A i \in 1..m : h[i] = IF IsNew(before, after[i]) THEN Append(h[i - 1], after[i].seq)
                                ELSE h[i - 1]
  <2>1. \A i \in 1..m : i \in 0..m /\ i # 0
    OBVIOUS
  <2>2. 0 \in 0..m
    OBVIOUS
  <2>. HIDE DEF h, m
  <2>. QED  BY <1>3, <2>1, <2>2 DEF IsNew
<1>. HIDE DEF h
<1>. DEFINE Ok(k) == /\ h[k] \in X
                     /\ \A i \in 1..Len(h[k]) : \E j \in 1..k :
                          IsNew(before, after[j]) /\ h[k][i] = after[j].seq
                     /\ \A i, l \in 1..Len(h[k]) : i < l => NumberOf(h[k][i]) < NumberOf(h[k][l])
                     /\ \A j \in 1..k : IsNew(before, after[j]) =>
                          \E i \in 1..Len(h[k]) : h[k][i] = after[j].seq
<1>5. Ok(0)
  <2>1. h[0] \in X /\ Len(h[0]) = 0
    BY <1>4
  <2>2. \A i \in 1..Len(h[0]) : FALSE
    BY <2>1
  <2>3. \A i \in 1..0 : FALSE
    OBVIOUS
  <2>. QED  BY <2>1, <2>2, <2>3
<1>6. ASSUME NEW k \in Nat, k + 1 =< m, Ok(k)  PROVE Ok(k + 1)
  <2>2. Ok(k) /\ k + 1 \in 1..m
    <3>1. m \in Nat
      OBVIOUS
    <3>. HIDE DEF Ok, m
    <3>2. k + 1 \in 1..m
      BY <1>6, <3>1
    <3>. QED  BY <1>6, <3>2
  <2>. DEFINE s == h[k]
              u == h[k + 1]
              e == after[k + 1]
  <2>3. u = IF IsNew(before, e) THEN Append(s, e.seq) ELSE s
    <3>1. (k + 1) - 1 = k
      OBVIOUS
    <3>. QED  BY <1>4, <2>2, <3>1
  <2>4. CASE ~IsNew(before, e)
    <3>1. u = s
      BY <2>3, <2>4
    <3>2. \A j \in 1..k + 1 : IsNew(before, after[j]) => j \in 1..k
      BY <2>4
    <3>3. 1..k \subseteq 1..k + 1
      OBVIOUS
    <3>. HIDE DEF X
    <3>4. \A i \in 1..Len(s) : \E j \in 1..k + 1 : IsNew(before, after[j]) /\ s[i] = after[j].seq
      BY <2>2, <3>3, Zenon
    <3>5. \A j \in 1..k + 1 : IsNew(before, after[j]) => \E i \in 1..Len(s) : s[i] = after[j].seq
      BY <2>2, <3>2, Zenon
    <3>. HIDE DEF s, u
    <3>. QED  BY <2>2, <3>1, <3>4, <3>5 DEF s, u
  <2>5. CASE IsNew(before, e)
    <3>1. e.seq \in 0..SeqSpace - 1
      BY <1>2, <2>2
    <3>. DEFINE x == e.seq
    <3>2. u = Append(s, x) /\ s \in Seq(0..SeqSpace - 1) /\ x \in 0..SeqSpace - 1
      BY <2>2, <2>3, <2>5, <3>1
    <3>3. \A i \in 1..Len(s) : \E j \in 1..k : IsNew(before, after[j]) /\ s[i] = after[j].seq
      BY <2>2
    <3>4. \A i, l \in 1..Len(s) : i < l => NumberOf(s[i]) < NumberOf(s[l])
      BY <2>2
    <3>5. \A j \in 1..k : IsNew(before, after[j]) => \E i \in 1..Len(s) : s[i] = after[j].seq
      BY <2>2
    <3>6. \A j \in 1..k : NumberOf(after[j].seq) < NumberOf(x)
      <4>1. ASSUME NEW j \in 1..k  PROVE NumberOf(after[j].seq) < NumberOf(x)
        <5>1. j \in 1..m /\ k + 1 \in 1..m /\ j < k + 1
          BY <2>2
        <5>. QED  BY <5>1 DEF Rising, No
      <4>. QED  BY <4>1
    <3>. HIDE DEF s, x, u
    <3>7. /\ u \in X /\ Len(u) = Len(s) + 1 /\ u[Len(s) + 1] = x
          /\ \A i \in 1..Len(s) : u[i] = s[i]
      BY <3>2
    <3>8. \A i \in 1..Len(s) + 1 : i \in 1..Len(s) \/ i = Len(s) + 1
      BY <3>2
    <3>9. ASSUME NEW i \in 1..Len(u)
          PROVE  \E j \in 1..k + 1 : IsNew(before, after[j]) /\ u[i] = after[j].seq
      <4>1. CASE i \in 1..Len(s)
        <5>1. PICK j \in 1..k : IsNew(before, after[j]) /\ s[i] = after[j].seq
          BY <3>3, <4>1
        <5>. QED  BY <3>7, <4>1, <5>1
      <4>2. CASE i = Len(s) + 1
        <5>1. u[i] = after[k + 1].seq /\ k + 1 \in 1..k + 1
          BY <3>7, <4>2 DEF x
        <5>. QED  BY <2>5, <5>1
      <4>. QED  BY <3>7, <3>8, <4>1, <4>2
    <3>10. ASSUME NEW i \in 1..Len(u), NEW l \in 1..Len(u), i < l
           PROVE  NumberOf(u[i]) < NumberOf(u[l])
      <4>1. i \in 1..Len(s)
        BY <3>2, <3>7, <3>10
      <4>2. CASE l \in 1..Len(s)
        BY <3>4, <3>7, <3>10, <4>1, <4>2
      <4>3. CASE l = Len(s) + 1
        BY <3>3, <3>6, <3>7, <4>1, <4>3
      <4>. QED  BY <3>7, <3>8, <4>2, <4>3
    <3>11. ASSUME NEW j \in 1..k + 1, IsNew(before, after[j])
           PROVE  \E i \in 1..Len(u) : u[i] = after[j].seq
      <4>1. CASE j \in 1..k
        <5>1. PICK i \in 1..Len(s) : s[i] = after[j].seq
          BY <3>5, <3>11, <4>1
        <5>2. i \in 1..Len(u) /\ u[i] = s[i]
          BY <3>2, <3>7, <5>1
        <5>. QED  BY <5>1, <5>2
      <4>2. CASE j = k + 1
        <5>1. Len(s) + 1 \in 1..Len(u) /\ u[Len(s) + 1] = after[j].seq
          BY <3>2, <3>7, <4>2 DEF x
        <5>. QED  BY <5>1
      <4>. QED  BY <4>1, <4>2
    <3>. QED  BY <3>7, <3>9, <3>10, <3>11 DEF u
  <2>. QED  BY <2>4, <2>5
<1>7. Ok(m)
  <2>. DEFINE S == {k \in Nat : k =< m => Ok(k)}
  <2>. HIDE DEF Ok
  <2>1. 0 \in S
    BY <1>5
  <2>2. ASSUME NEW k \in Nat, k \in S  PROVE k + 1 \in S
    <3>1. m \in Nat /\ (k + 1 =< m => k =< m)
      OBVIOUS
    <3>. QED  BY <1>6, <2>2, <3>1
  <2>3. m \in S
    <3>1. m \in Nat
      OBVIOUS
    <3>. HIDE DEF S, m
    <3>. QED  BY <2>1, <2>2, <3>1, AllNumbers
  <2>. QED  BY <2>3
<1>. QED  BY <1>1, <1>7 DEF Requested
-----------------------------------------------------------------------------
(***************************************************************************)
(* The receiver's datagrams.  A retransmission takes the place of the      *)
(* entry with its number; nothing else changes in rtx_recv_queue.          *)
(***************************************************************************)
Datagrams(n) == {d \in [seq : 0..SeqSpace - 1, ts : 0..TsSpace - 1, ver : {0, 2}, copy : {1, 2}] :
                   No(d) = TsNo(d) /\ No(d) < n}

Refilled(q, r) ==
  /\ Len(r) = Len(q)
  /\ \A i \in 1..Len(q) : No(r[i]) = No(q[i]) /\ (r[i].hole => q[i].hole)

LEMMA ContiguousRises ==
  ASSUME WidthsSuffice, NEW n \in 0..MaxPackets, NEW q \in Seq(Entries(n)), Contiguous(q)
  PROVE  Rising(q) /\ \A i, j \in 1..Len(q) : No(q[i]) = No(q[j]) => i = j
<1>1. \A i \in 1..Len(q) : No(q[i]) = No(q[1]) + i - 1 /\ No(q[1]) \in Int
  <2>1. ASSUME NEW i \in 1..Len(q)  PROVE No(q[1]) \in Int
    <3>1. q[1] \in Entries(n)
      OBVIOUS
    <3>. QED  BY <3>1, EntryNo
  <2>. QED  BY <2>1 DEF Contiguous
<1>. QED  BY <1>1 DEF Rising

LEMMA PacketEntry ==
  ASSUME NEW n \in Nat, NEW d \in Datagrams(n)
  PROVE  LET p == [seq |-> d.seq, ts |-> d.ts, hole |-> FALSE]
         IN  p \in Entries(n) /\ No(p) = No(d) /\ TsNo(p) = No(d)
<1>. DEFINE p == [seq |-> d.seq, ts |-> d.ts, hole |-> FALSE]
<1>1. p \in Entry /\ p.seq = d.seq /\ p.ts = d.ts /\ ~p.hole
  BY DEF Datagrams, Entry
<1>2. No(p) = No(d) /\ TsNo(p) = TsNo(d) /\ No(d) = TsNo(d) /\ No(d) < n
  BY <1>1 DEF Datagrams, No, TsNo
<1>. HIDE DEF p
<1>3. p \in Entries(n)
  BY <1>1, <1>2 DEF Entries
<1>. QED  BY <1>2, <1>3 DEF p

LEMMA RemoveRows ==
  ASSUME NEW S, NEW q \in Seq(S), NEW j \in 1..Len(q)
  PROVE  /\ RemoveAt(q, j) \in Seq(S) /\ Len(RemoveAt(q, j)) = Len(q) - 1
         /\ \A i \in 1..Len(q) - 1 : RemoveAt(q, j)[i] = IF i < j THEN q[i] ELSE q[i + 1]
<1>. DEFINE u == SubSeq(q, 1, j - 1)
            v == SubSeq(q, j + 1, Len(q))
            r == u \o v
<1>1. u \in Seq(S) /\ Len(u) = j - 1 /\ \A i \in 1..j - 1 : u[i] = q[i]
  OBVIOUS
<1>2. v \in Seq(S) /\ Len(v) = Len(q) - j /\ \A i \in 1..Len(q) - j : v[i] = q[j + i]
  OBVIOUS
<1>3. RemoveAt(q, j) = r
  BY DEF RemoveAt
<1>. HIDE DEF u, v
<1>4. r \in Seq(S) /\ Len(r) = Len(q) - 1
  <2>1. r \in Seq(S) /\ Len(r) = Len(u) + Len(v)
    BY <1>1, <1>2, ConcatProperties
  <2>2. (j - 1) + (Len(q) - j) = Len(q) - 1
    OBVIOUS
  <2>. QED  BY <1>1, <1>2, <2>1, <2>2
<1>5. ASSUME NEW i \in 1..Len(q) - 1  PROVE r[i] = IF i < j THEN q[i] ELSE q[i + 1]
  <2>1. r[i] = IF i =< j - 1 THEN u[i] ELSE v[i - (j - 1)]
    BY <1>1, <1>2
  <2>2. CASE i < j
    BY <1>1, <2>1, <2>2
  <2>3. CASE ~(i < j)
    <3>1. i - (j - 1) \in 1..Len(q) - j /\ j + (i - (j - 1)) = i + 1 /\ ~(i =< j - 1)
      BY <2>3
    <3>2. v[i - (j - 1)] = q[j + (i - (j - 1))]
      BY <1>2, <3>1
    <3>. QED  BY <2>1, <2>3, <3>1, <3>2
  <2>. QED  BY <2>2, <2>3
<1>. HIDE DEF r
<1>. QED  BY <1>3, <1>4, <1>5

LEMMA RefillRows ==
  ASSUME WidthsSuffice, NEW n \in 0..MaxPackets, NEW q \in Seq(Entries(n)), Contiguous(q),
         NEW j \in 1..Len(q), NEW p \in Entries(n), No(p) = No(q[j]), ~p.hole
  PROVE  LET r == rtp_putq(RemoveAt(q, j), p)
         IN  r \in Seq(Entries(n)) /\ Refilled(q, r) /\ r[j] = p
<1>. DEFINE s == RemoveAt(q, j)
            r == rtp_putq(s, p)
<1>1. /\ s \in Seq(Entries(n)) /\ Len(s) = Len(q) - 1
      /\ \A i \in 1..Len(q) - 1 : s[i] = IF i < j THEN q[i] ELSE q[i + 1]
  BY RemoveRows
<1>2. /\ \A i, k \in 1..Len(q) : i < k => No(q[i]) < No(q[k])
      /\ \A i \in 1..Len(q) : No(q[i]) \in Nat
  <2>1. \A i \in 1..Len(q) : q[i] \in Entries(n)
    OBVIOUS
  <2>. QED  BY <2>1, ContiguousRises, EntryNo DEF Rising
<1>. HIDE DEF s
<1>3. \A i \in 1..Len(s) : /\ i < j => No(s[i]) < No(p)
                           /\ i >= j => No(s[i]) > No(p)
                           /\ i \in 1..Len(q) /\ i + 1 \in 1..Len(q)
  <2>1. ASSUME NEW i \in 1..Len(s)
        PROVE  /\ i < j => No(s[i]) < No(p)
               /\ i >= j => No(s[i]) > No(p)
               /\ i \in 1..Len(q) /\ i + 1 \in 1..Len(q)
    <3>1. i \in 1..Len(q) - 1 /\ i \in 1..Len(q) /\ i + 1 \in 1..Len(q)
      BY <1>1
    <3>2. i < j => No(s[i]) < No(p)
      BY <1>1, <1>2, <3>1
    <3>3. CASE i >= j
      <4>1. s[i] = q[i + 1] /\ j < i + 1
        BY <1>1, <3>1, <3>3
      <4>2. No(q[j]) < No(q[i + 1]) /\ No(q[j]) \in Nat /\ No(q[i + 1]) \in Nat
        BY <1>2, <3>1, <4>1
      <4>. QED  BY <3>1, <3>2, <4>1, <4>2
    <3>4. CASE i < j
      BY <3>1, <3>2, <3>4
    <3>. QED  BY <3>3, <3>4
  <2>. QED  BY <2>1
<1>4. Rising(s)
  <2>1. ASSUME NEW i \in 1..Len(s), NEW k \in 1..Len(s), i < k  PROVE No(s[i]) < No(s[k])
    <3>1. i \in 1..Len(q) - 1 /\ k \in 1..Len(q) - 1
      BY <1>1
    <3>2. s[i] = (IF i < j THEN q[i] ELSE q[i + 1]) /\ s[k] = IF k < j THEN q[k] ELSE q[k + 1]
      BY <1>1, <3>1
    <3>3. \/ s[i] = q[i] /\ s[k] = q[k] /\ i < k
          \/ s[i] = q[i] /\ s[k] = q[k + 1] /\ i < k + 1
          \/ s[i] = q[i + 1] /\ s[k] = q[k + 1] /\ i + 1 < k + 1
      BY <2>1, <3>2
    <3>. QED  BY <1>2, <1>3, <3>3
  <2>. QED  BY <2>1 DEF Rising
<1>5. r \in Seq(Entries(n))
  BY <1>1, <1>4, PutPlace
<1>6. \E k \in 0..Len(s) : /\ Placed(s, p, k, r)
                           /\ \A i \in 1..k : No(s[i]) < No(p)
                           /\ \A i \in k + 1..Len(s) : No(s[i]) > No(p)
  <2>1. ~ \E i \in 1..Len(s) : No(s[i]) = No(p)
    <3>1. ASSUME NEW i \in 1..Len(s)  PROVE No(s[i]) # No(p)
      <4>1. No(p) \in Nat /\ (i < j \/ i >= j)
        BY <1>2
      <4>. QED  BY <1>3, <4>1
    <3>. QED  BY <3>1
  <2>. QED  BY <1>1, <1>4, <2>1, PutPlace
<1>. HIDE DEF r
<1>7. PICK k \in 0..Len(s) : /\ Placed(s, p, k, r)
                             /\ \A i \in 1..k : No(s[i]) < No(p)
                             /\ \A i \in k + 1..Len(s) : No(s[i]) > No(p)
  BY <1>6
<1>8. k = j - 1
  <2>1. No(p) \in Nat /\ Len(s) = Len(q) - 1
    BY <1>1, <1>2
  <2>2. CASE k < j - 1
    <3>1. k + 1 \in k + 1..Len(s) /\ k + 1 \in 1..Len(s) /\ k + 1 < j
      BY <2>1, <2>2
    <3>2. No(s[k + 1]) > No(p) /\ No(s[k + 1]) < No(p)
      BY <1>3, <1>7, <3>1
    <3>3. No(s[k + 1]) \in Int
      BY <1>1, <1>2, <1>3, <3>1
    <3>. QED  BY <2>1, <3>2, <3>3
  <2>3. CASE k > j - 1
    <3>1. k \in 1..k /\ k \in 1..Len(s) /\ k >= j
      BY <2>1, <2>3
    <3>2. No(s[k]) > No(p) /\ No(s[k]) < No(p)
      BY <1>3, <1>7, <3>1
    <3>3. No(s[k]) \in Int
      <4>1. s[k] = q[k + 1] /\ k + 1 \in 1..Len(q)
        BY <1>1, <1>3, <3>1
      <4>. QED  BY <1>2, <4>1
    <3>. QED  BY <2>1, <3>2, <3>3
  <2>. QED  BY <2>2, <2>3
<1>9. Len(r) = Len(q) /\ \A i \in 1..Len(q) : r[i] = IF i = j THEN p ELSE q[i]
  <2>1. Len(r) = Len(s) + 1
        /\ \A i \in 1..Len(s) + 1 :
             r[i] = IF i =< j - 1 THEN s[i] ELSE IF i = (j - 1) + 1 THEN p ELSE s[i - 1]
    BY <1>7, <1>8 DEF Placed
  <2>2. Len(r) = Len(q)
    BY <1>1, <2>1
  <2>3. ASSUME NEW i \in 1..Len(q)  PROVE r[i] = IF i = j THEN p ELSE q[i]
    <3>1. i \in 1..Len(s) + 1
      BY <1>1
    <3>2. CASE i =< j - 1
      <4>1. r[i] = s[i] /\ i \in 1..Len(q) - 1 /\ i < j
        BY <2>1, <3>1, <3>2
      <4>. QED  BY <1>1, <4>1
    <3>3. CASE i = j
      BY <2>1, <3>1, <3>3
    <3>4. CASE i > j
      <4>1. r[i] = s[i - 1] /\ i - 1 \in 1..Len(q) - 1 /\ ~(i - 1 < j) /\ (i - 1) + 1 = i /\ i # j
        BY <2>1, <3>1, <3>4
      <4>2. s[i - 1] = q[(i - 1) + 1]
        BY <1>1, <4>1
      <4>. QED  BY <4>1, <4>2
    <3>. QED  BY <3>2, <3>3, <3>4
  <2>. QED  BY <2>2, <2>3
<1>10. Refilled(q, r)
  BY <1>9 DEF Refilled
<1>. QED  BY <1>5, <1>9, <1>10 DEF r, s

(***************************************************************************)
(* rtp_session_rtp_recv: the two queues while datagrams are read at ts.    *)
(***************************************************************************)
\* The stream has the clock offset D, given the slide x of the jitter control.
Slides(x, D) == \E k \in Int : x = Ts0 + D + TsSpace * k

BufferOk(r, ts) ==
  /\ Rising(r.rq) /\ \A i \in 1..Len(r.rq) : ~r.rq[i].hole
  /\ lastTs # <<>> => \A i \in 1..Len(r.rq) : No(r.rq[i]) >= (lastTs[1] - Ts0) % TsSpace
  /\ Refilled(rtxQ, r.rtxQ)
  /\ slide # <<>> => r.slide = slide
  /\ slide = <<>> => \/ r.slide = <<>> /\ r.rq = <<>>
                     \/ \E x \in Int, D \in -ts..MaxPackets - 1 : r.slide = <<x>> /\ Slides(x, D)

Buffers(ts) ==
  {r \in [rq : Seq(Entries(sent)), rtxQ : Seq(Entries(sent)), slide : {<<>>} \cup {<<x>> : x \in Int}] :
     BufferOk(r, ts)}

\* What a datagram does to the placeholders.
Refills(r, d, s) ==
  /\ Refilled(r.rtxQ, s.rtxQ)
  /\ d.ver = 0 /\ rcvPt = MediaPt => \A i \in 1..Len(s.rtxQ) : s.rtxQ[i].seq = d.seq => ~s.rtxQ[i].hole

LEMMA RefilledTwice ==
  ASSUME NEW q, NEW r, NEW s, Refilled(q, r), Refilled(r, s)
  PROVE  Refilled(q, s)
  BY DEF Refilled

LEMMA RefilledContiguous ==
  ASSUME NEW q, NEW r, Refilled(q, r), Contiguous(q), Len(q) \in Nat
  PROVE  Contiguous(r)
<1>1. Len(r) = Len(q) /\ \A i \in 1..Len(q) : No(r[i]) = No(q[i])
  BY DEF Refilled
<1>2. \A i \in 1..Len(q) : 1 \in 1..Len(q)
  OBVIOUS
<1>. QED  BY <1>1, <1>2 DEF Contiguous

LEMMA SlideLocked ==
  ASSUME NEW n \in Nat, NEW d \in Datagrams(n), NEW ts \in Nat
  PROVE  d.ts - ts \in Int /\ No(d) - ts \in -ts..n - 1 /\ Slides(d.ts - ts, No(d) - ts)
<1>. DEFINE x == d.ts
            y == x - Ts0
            k == y % TsSpace
            c == y \div TsSpace
<1>1. x \in 0..TsSpace - 1 /\ TsNo(d) = k /\ No(d) = TsNo(d) /\ No(d) < n
  BY DEF Datagrams, TsNo
<1>2. x \in Int /\ Ts0 \in Int /\ y \in Int /\ x = Ts0 + y
  BY <1>1, Constants
<1>. HIDE DEF x, y
<1>3. k \in 0..TsSpace - 1 /\ c \in Int /\ y = TsSpace * c + k
  BY <1>2, Constants, ModRange
<1>4. k \in Int /\ k >= 0
  BY <1>3, Constants
<1>. DEFINE m == TsSpace * c
<1>5. y = m + k /\ m \in Int
  BY <1>3, Constants
<1>. HIDE DEF k, m
<1>6. x - ts = Ts0 + (k - ts) + m
  BY <1>2, <1>4, <1>5
<1>. HIDE DEF c
<1>7. Slides(x - ts, k - ts)
  BY <1>3, <1>6 DEF Slides, m
<1>8. No(d) = k
  BY <1>1
<1>9. x - ts \in Int /\ k - ts \in -ts..n - 1
  BY <1>1, <1>2, <1>4, <1>8
<1>. QED  BY <1>7, <1>8, <1>9 DEF x

LEMMA RetransmittedRows ==
  ASSUME WidthsSuffice, sent \in 0..MaxPackets, rtxQ \in Seq(Entries(sent)), Contiguous(rtxQ),
         NEW ts \in Nat, NEW r \in Buffers(ts), NEW d \in Datagrams(sent)
  PROVE  Retransmitted(r, d) \in Buffers(ts)
         /\ (d.ver = 0 => Refills(r, d, Retransmitted(r, d)))
<1>. DEFINE q == r.rtxQ
            p == [seq |-> d.seq, ts |-> d.ts, hole |-> FALSE]
            same == WaitingFor(q, d.seq)
            u == rtp_putq(RemoveAt(q, Max(same)), p)
<1>1. /\ q \in Seq(Entries(sent)) /\ BufferOk(r, ts) /\ Refilled(rtxQ, q)
      /\ r \in [rq : Seq(Entries(sent)), rtxQ : Seq(Entries(sent)),
                slide : {<<>>} \cup {<<x>> : x \in Int}]
  BY DEF Buffers, BufferOk
<1>2. Contiguous(q)
  BY <1>1, RefilledContiguous
<1>3. Refilled(q, q)
  BY DEF Refilled
<1>4. same = {i \in 1..Len(q) : q[i].seq = d.seq}
  BY <1>1 DEF WaitingFor
<1>5. CASE ~(d.ver = 0 /\ rcvPt = MediaPt /\ same # {})
  <2>1. Retransmitted(r, d) = r
    BY <1>5 DEF Retransmitted
  <2>2. ASSUME rcvPt = MediaPt, d.ver = 0, NEW i \in 1..Len(q), q[i].seq = d.seq  PROVE FALSE
    BY <1>4, <1>5, <2>2
  <2>. QED  BY <1>3, <2>1, <2>2 DEF Refills
<1>6. CASE d.ver = 0 /\ rcvPt = MediaPt /\ same # {}
  <2>1. p \in Entries(sent) /\ No(p) = No(d) /\ ~p.hole
    <3>1. sent \in Nat
      BY Constants
    <3>. QED  BY <3>1, PacketEntry
  <2>2. PICK j \in 1..Len(q) : q[j].seq = d.seq
    BY <1>4, <1>6
  <2>3. No(q[j]) = No(p)
    BY <2>1, <2>2 DEF No
  <2>4. \A i \in 1..Len(q) : q[i].seq = d.seq => i = j
    <3>1. ASSUME NEW i \in 1..Len(q), q[i].seq = d.seq  PROVE i = j
      <4>1. No(q[i]) = No(q[j])
        BY <2>2, <3>1 DEF No
      <4>. HIDE DEF q
      <4>. QED  BY <1>1, <1>2, <4>1, ContiguousRises
    <3>. QED  BY <3>1
  <2>5. Max(same) = j
    <3>1. same = {j}
      BY <1>4, <2>2, <2>4
    <3>2. j \in Int
      OBVIOUS
    <3>. HIDE DEF same
    <3>. QED  BY <3>1, <3>2 DEF Max
  <2>6. Retransmitted(r, d) = [r EXCEPT !.rtxQ = u]
    <3>. HIDE DEF same
    <3>1. Retransmitted(r, d) = IF d.ver = 0 /\ rcvPt = MediaPt /\ same # {}
                                THEN [r EXCEPT !.rtxQ = u] ELSE r
      BY DEF Retransmitted, same
    <3>. QED  BY <1>6, <3>1
  <2>. HIDE DEF same
  <2>7. u = rtp_putq(RemoveAt(q, j), p)
    BY <2>5
  <2>. HIDE DEF u, q, p
  <2>8. u \in Seq(Entries(sent)) /\ Refilled(q, u) /\ u[j] = p
    BY <1>1, <1>2, <2>1, <2>3, <2>7, RefillRows
  <2>. DEFINE s == [r EXCEPT !.rtxQ = u]
  <2>9. /\ s \in [rq : Seq(Entries(sent)), rtxQ : Seq(Entries(sent)),
                  slide : {<<>>} \cup {<<x>> : x \in Int}]
        /\ s.rq = r.rq /\ s.slide = r.slide /\ s.rtxQ = u
    BY <1>1, <2>8
  <2>. HIDE DEF s
  <2>10. Refilled(rtxQ, u)
    BY <1>1, <2>8, RefilledTwice
  <2>11. BufferOk(s, ts)
    BY <1>1, <2>9, <2>10 DEF BufferOk
  <2>12. \A i \in 1..Len(u) : u[i].seq = d.seq => ~u[i].hole
    <3>1. ASSUME NEW i \in 1..Len(u), u[i].seq = d.seq  PROVE ~u[i].hole
      <4>1. i \in 1..Len(q) /\ No(q[i]) = No(d)
        BY <2>8, <3>1 DEF Refilled, No
      <4>2. i = j
        BY <1>1, <1>2, <2>1, <2>3, <4>1, ContiguousRises
      <4>. QED  BY <2>1, <2>8, <4>2
    <3>. QED  BY <3>1
  <2>13. s \in Buffers(ts) /\ Refills(r, d, s)
    BY <2>8, <2>9, <2>11, <2>12 DEF Buffers, Refills, q
  <2>. QED  BY <2>6, <2>13 DEF s
<1>. QED  BY <1>5, <1>6

\* rcv_last_ts is a timestamp of the stream.
LastOk == lastTs # <<>> => lastTs[1] \in 0..TsSpace - 1 /\ (lastTs[1] - Ts0) % TsSpace < MaxPackets

LEMMA InTime ==
  ASSUME WidthsSuffice, sent \in 0..MaxPackets, LastOk, NEW d \in Datagrams(sent), ~TooOld(d),
         lastTs # <<>>
  PROVE  No(d) >= (lastTs[1] - Ts0) % TsSpace
<1>. DEFINE v == lastTs[1]
            T == (v - Ts0) % TsSpace
<1>1. v \in 0..TsSpace - 1 /\ T < MaxPackets
  BY DEF LastOk
<1>2. d.ts \in 0..TsSpace - 1 /\ No(d) = (d.ts - Ts0) % TsSpace /\ No(d) < MaxPackets
  BY Constants DEF Datagrams, TsNo
<1>. HIDE DEF v
<1>3. T \in 0..TsSpace - 1 /\ (Ts0 + T) % TsSpace = v
  <2>1. Ts0 \in Int
    BY Constants
  <2>. QED  BY <1>1, <2>1, Constants, ModPlace
<1>4. No(d) \in Nat
  <2>1. Ts0 \in Int
    BY Constants
  <2>2. (d.ts - Ts0) % TsSpace \in 0..TsSpace - 1
    BY <1>2, <2>1, Constants, ModPlace
  <2>. QED  BY <1>2, <2>2, Constants
<1>5. TsIsNewer(v, d.ts) <=> T >= No(d)
  <2>. DEFINE x == d.ts
              k == (x - Ts0) % TsSpace
  <2>1. x \in 0..TsSpace - 1 /\ k = No(d)
    BY <1>2
  <2>2. 2 * MaxPackets =< TsSpace
    BY Constants DEF WidthsSuffice
  <2>. HIDE DEF x, T
  <2>3. T \in Int /\ 2 * (T - k) < TsSpace /\ 2 * (k - T) =< TsSpace
    BY <1>1, <1>2, <1>3, <1>4, <2>1, <2>2, Constants
  <2>4. TsIsNewer((Ts0 + T) % TsSpace, x) <=> T >= k
    BY <2>1, <2>3, TsOrder
  <2>. QED  BY <1>3, <2>1, <2>4 DEF x
<1>6. ~TsIsNewer(v, d.ts) \/ v = d.ts
  BY DEF TooOld, TsIsStrictlyNewer, v
<1>7. CASE v = d.ts
  BY <1>2, <1>4, <1>7 DEF v
<1>8. CASE ~TsIsNewer(v, d.ts)
  <2>. HIDE DEF T
  <2>1. T < No(d) /\ T \in Int
    BY <1>3, <1>4, <1>5, <1>8
  <2>. QED  BY <1>4, <2>1 DEF T, v
<1>. QED  BY <1>6, <1>7, <1>8

LEMMA ParseRows ==
  ASSUME WidthsSuffice, sent \in 0..MaxPackets, rtxQ \in Seq(Entries(sent)), Contiguous(rtxQ),
         LastOk, NEW ts \in Nat, NEW r \in Buffers(ts), NEW d \in Datagrams(sent)
  PROVE  parse(r, d, ts) \in Buffers(ts) /\ Refills(r, d, parse(r, d, ts))
<1>1. CASE d.ver = 0
  <2>1. parse(r, d, ts) = Retransmitted(r, d)
    BY <1>1 DEF parse
  <2>. QED  BY <1>1, <2>1, RetransmittedRows
<1>2. CASE d.ver # 0
  <2>. DEFINE jc == IF r.slide = <<>> THEN <<d.ts - ts>> ELSE r.slide
              p == [seq |-> d.seq, ts |-> d.ts, hole |-> FALSE]
              q == IF TooOld(d) THEN r.rq ELSE queue_packet(r.rq, MaxRqSize, p)
              s == [r EXCEPT !.slide = jc, !.rq = q]
  <2>1. parse(r, d, ts) = s
    BY <1>2 DEF parse
  <2>2. /\ BufferOk(r, ts) /\ r.rq \in Seq(Entries(sent)) /\ r.rtxQ \in Seq(Entries(sent))
        /\ r \in [rq : Seq(Entries(sent)), rtxQ : Seq(Entries(sent)),
                  slide : {<<>>} \cup {<<x>> : x \in Int}]
    BY DEF Buffers
  <2>3. /\ p \in Entries(sent) /\ No(p) = No(d) /\ ~p.hole
    <3>1. sent \in Nat
      BY Constants
    <3>. QED  BY <3>1, PacketEntry
  <2>. HIDE DEF p
  <2>4. q = r.rq \/ (q = queue_packet(r.rq, MaxRqSize, p) /\ ~TooOld(d))
    BY Zenon
  <2>. HIDE DEF q
  <2>5. /\ q \in Seq(Entries(sent)) /\ Rising(q)
        /\ \A j \in 1..Len(q) : (~TooOld(d) /\ q[j] = p) \/ \E i \in 1..Len(r.rq) : q[j] = r.rq[i]
    <3>1. CASE q = r.rq
      BY <2>2, <3>1 DEF BufferOk
    <3>2. CASE q = queue_packet(r.rq, MaxRqSize, p) /\ ~TooOld(d)
      BY <2>2, <2>3, <3>2, QueuePacketRows DEF BufferOk
    <3>. QED  BY <2>4, <3>1, <3>2
  <2>6. /\ jc \in {<<>>} \cup {<<x>> : x \in Int}
        /\ slide # <<>> => jc = slide
        /\ slide = <<>> => \E x \in Int, D \in -ts..MaxPackets - 1 : jc = <<x>> /\ Slides(x, D)
    <3>1. d.ts - ts \in Int /\ No(d) - ts \in -ts..MaxPackets - 1 /\ Slides(d.ts - ts, No(d) - ts)
      <4>1. sent \in Nat
        BY Constants
      <4>2. d.ts - ts \in Int /\ No(d) - ts \in -ts..sent - 1 /\ Slides(d.ts - ts, No(d) - ts)
        BY <4>1, SlideLocked
      <4>. QED  BY <4>1, <4>2, Constants
    <3>2. CASE r.slide = <<>>
      <4>1. jc = <<d.ts - ts>>
        BY <3>2
      <4>2. slide = <<>>
        BY <2>2, <3>2 DEF BufferOk
      <4>. QED  BY <3>1, <4>1, <4>2
    <3>3. CASE r.slide # <<>>
      BY <2>2, <3>3 DEF BufferOk
    <3>. QED  BY <3>2, <3>3
  <2>. HIDE DEF jc
  <2>7. /\ s \in [rq : Seq(Entries(sent)), rtxQ : Seq(Entries(sent)),
                  slide : {<<>>} \cup {<<x>> : x \in Int}]
        /\ s.rq = q /\ s.rtxQ = r.rtxQ /\ s.slide = jc
    BY <2>2, <2>5, <2>6
  <2>. HIDE DEF s
  <2>8. \A i \in 1..Len(q) : ~q[i].hole
    BY <2>2, <2>3, <2>5 DEF BufferOk
  <2>9. lastTs # <<>> => \A i \in 1..Len(q) : No(q[i]) >= (lastTs[1] - Ts0) % TsSpace
    <3>1. ASSUME lastTs # <<>>, NEW i \in 1..Len(q)  PROVE No(q[i]) >= (lastTs[1] - Ts0) % TsSpace
      <4>1. CASE ~TooOld(d) /\ q[i] = p
        <5>1. No(d) >= (lastTs[1] - Ts0) % TsSpace
          BY <3>1, <4>1, InTime
        <5>. QED  BY <2>3, <4>1, <5>1
      <4>2. CASE \E j \in 1..Len(r.rq) : q[i] = r.rq[j]
        BY <2>2, <3>1, <4>2 DEF BufferOk
      <4>. QED  BY <2>5, <4>1, <4>2
    <3>. QED  BY <3>1
  <2>10. BufferOk(s, ts)
    BY <2>2, <2>5, <2>6, <2>7, <2>8, <2>9 DEF BufferOk
  <2>11. s \in Buffers(ts)
    BY <2>7, <2>10 DEF Buffers
  <2>12. Refills(r, d, s)
    BY <1>2, <2>7 DEF Refills, Refilled
  <2>. QED  BY <2>1, <2>11, <2>12
<1>. QED  BY <1>1, <1>2

\* No placeholder waits for the packet d any more.
Settled(q, d) == \A i \in 1..Len(q) : No(q[i]) = No(d) => ~q[i].hole

LEMMA StaysSettled ==
  ASSUME NEW q, NEW s, Refilled(q, s), NEW d, Settled(q, d)
  PROVE  Settled(s, d)
  BY DEF Refilled, Settled

LEMMA SettledBy ==
  ASSUME WidthsSuffice, sent \in 0..MaxPackets, NEW ts \in Nat, NEW r, NEW d \in Datagrams(sent),
         NEW s \in Buffers(ts), Refills(r, d, s), d.ver = 0, rcvPt = MediaPt
  PROVE  Settled(s.rtxQ, d)
<1>. DEFINE q == s.rtxQ
            p == [seq |-> d.seq, ts |-> d.ts, hole |-> FALSE]
<1>1. p \in Entries(sent) /\ No(p) = No(d) /\ p.seq = d.seq
  <2>1. sent \in Nat
    BY Constants
  <2>. QED  BY <2>1, PacketEntry
<1>2. q \in Seq(Entries(sent)) /\ \A i \in 1..Len(q) : q[i].seq = d.seq => ~q[i].hole
  BY DEF Buffers, Refills
<1>. HIDE DEF p, q
<1>3. ASSUME NEW i \in 1..Len(q), No(q[i]) = No(d)  PROVE ~q[i].hole
  <2>. DEFINE e == q[i]
  <2>1. e \in Entries(sent)
    BY <1>2
  <2>. HIDE DEF e
  <2>2. e.seq = p.seq <=> No(e) = No(p)
    BY <1>1, <2>1, EntryOrder
  <2>. QED  BY <1>1, <1>2, <1>3, <2>2 DEF e
<1>. QED  BY <1>3 DEF Settled, q

LEMMA RtpRecvRows ==
  ASSUME WidthsSuffice, sent \in 0..MaxPackets, rtxQ \in Seq(Entries(sent)), Contiguous(rtxQ),
         LastOk, NEW ts \in Nat, NEW r \in Buffers(ts), NEW ds \in Seq(Datagrams(sent))
  PROVE  /\ RtpRecv(r, ds, ts) \in Buffers(ts)
         /\ rcvPt = MediaPt => \A i \in 1..Len(ds) :
              ds[i].ver = 0 => Settled(RtpRecv(r, ds, ts).rtxQ, ds[i])
<1>. DEFINE n == Len(ds)
            X == Buffers(ts)
            Step(x, i) == parse(x, ds[i], ts)
            h == CHOOSE f : f = [i \in 0..n |-> IF i = 0 THEN r ELSE parse(f[i - 1], ds[i], ts)]
<1>1. RtpRecv(r, ds, ts) = h[n]
  BY DEF RtpRecv
<1>2. n \in Nat /\ r \in X /\ \A i \in 1..n : ds[i] \in Datagrams(sent)
  OBVIOUS
<1>3. ASSUME NEW x \in X, NEW i \in 1..n  PROVE Step(x, i) \in X /\ Refills(x, ds[i], Step(x, i))
  <2>. DEFINE d == ds[i]
  <2>1. d \in Datagrams(sent)
    BY <1>2
  <2>. HIDE DEF d
  <2>2. parse(x, d, ts) \in Buffers(ts) /\ Refills(x, d, parse(x, d, ts))
    BY <2>1, ParseRows
  <2>. QED  BY <2>2 DEF d
<1>. HIDE DEF n, X
<1>4. PICK f \in [0..n -> X] : f[0] = r /\ \A i \in 1..n : f[i] = Step(f[i - 1], i)
  <2>. DEFINE G == [z \in X \X (1..n) |-> Step(z[1], z[2])]
  <2>1. G \in [X \X (1..n) -> X]
    <3>1. \A z \in X \X (1..n) : z[1] \in X /\ z[2] \in 1..n
      OBVIOUS
    <3>. HIDE DEF Step
    <3>. QED  BY <1>3, <3>1
  <2>2. \E f \in [0..n -> X] : Unfolds(f, r, n, G)
    <3>. HIDE DEF G
    <3>. QED  BY <1>2, <2>1, FunctionExists
  <2>3. PICK f \in [0..n -> X] : f[0] = r /\ \A i \in 1..n : f[i] = G[<<f[i - 1], i>>]
    BY <2>2 DEF Unfolds
  <2>4. ASSUME NEW i \in 1..n  PROVE f[i] = Step(f[i - 1], i)
    <3>1. f[i - 1] \in X
      BY <1>2
    <3>. HIDE DEF Step
    <3>2. G[<<f[i - 1], i>>] = Step(f[i - 1], i)
      BY <3>1
    <3>. QED  BY <2>3, <3>2
  <2>. HIDE DEF Step
  <2>. QED  BY <2>3, <2>4
<1>5. h = [i \in 0..n |-> IF i = 0 THEN r ELSE parse(h[i - 1], ds[i], ts)]
  <2>1. f = [i \in 0..n |-> IF i = 0 THEN r ELSE parse(f[i - 1], ds[i], ts)]
    <3>1. \A i \in 0..n : i = 0 \/ i \in 1..n
      BY <1>2
    <3>. QED  BY <1>4, <3>1
  <2>. QED  BY <2>1, Zenon
<1>6. /\ h[0] = r /\ \A i \in 1..n : h[i] = Step(h[i - 1], i)
  <2>1. /\ 0 \in 0..n
        /\ \A i \in 1..n : i # 0 /\ i \in 0..n
    BY <1>2
  <2>. HIDE DEF h
  <2>. QED  BY <1>5, <2>1
<1>. HIDE DEF h
<1>. DEFINE P(k) == /\ h[k] \in X
                    /\ rcvPt = MediaPt =>
                         \A i \in 1..k : ds[i].ver = 0 => Settled(h[k].rtxQ, ds[i])
            S == {k \in Nat : k =< n => P(k)}
<1>7. Nat \subseteq S
  <2>1. 0 \in S
    <3>1. \A i \in 1..0 : FALSE
      OBVIOUS
    <3>. QED  BY <1>2, <1>6, <3>1
  <2>2. ASSUME NEW k \in Nat, k \in S  PROVE k + 1 \in S
    <3>1. SUFFICES ASSUME k + 1 =< n  PROVE P(k + 1)
      OBVIOUS
    <3>2. P(k) /\ k + 1 \in 1..n /\ (k + 1) - 1 = k
      BY <1>2, <2>2, <3>1
    <3>. DEFINE x == h[k]
                s == h[k + 1]
                d == ds[k + 1]
    <3>3. x \in X /\ s = Step(x, k + 1)
      BY <1>6, <3>2
    <3>4. s \in X /\ Refills(x, d, s)
      <4>. HIDE DEF x
      <4>. QED  BY <1>3, <3>2, <3>3
    <3>. HIDE DEF s, x
    <3>5. ASSUME rcvPt = MediaPt, NEW i \in 1..k + 1, ds[i].ver = 0  PROVE Settled(s.rtxQ, ds[i])
      <4>1. CASE i = k + 1
        <5>1. d \in Datagrams(sent) /\ d.ver = 0
          BY <1>2, <3>2, <3>5, <4>1
        <5>. HIDE DEF d
        <5>2. Settled(s.rtxQ, d)
          BY <3>4, <3>5, <5>1, SettledBy DEF X
        <5>. QED  BY <4>1, <5>2 DEF d
      <4>2. CASE i \in 1..k
        <5>1. Settled(x.rtxQ, ds[i])
          BY <3>2, <3>5, <4>2 DEF x
        <5>2. Refilled(x.rtxQ, s.rtxQ)
          BY <3>4 DEF Refills
        <5>. QED  BY <5>1, <5>2, StaysSettled
      <4>. QED  BY <4>1, <4>2
    <3>. QED  BY <3>4, <3>5 DEF s
  <2>. HIDE DEF S
  <2>. QED  BY <2>1, <2>2, AllNumbers
<1>8. P(n)
  <2>1. n \in S
    BY <1>2, <1>7
  <2>. QED  BY <1>2, <2>1
<1>. QED  BY <1>1, <1>8 DEF X, n
-----------------------------------------------------------------------------
(***************************************************************************)
(* The invariant of the stream.                                            *)
(***************************************************************************)
InFlight ==
  /\ sent \in 0..MaxPackets /\ userTs \in -1..MaxUserTs
  /\ net \subseteq Datagrams(sent) /\ sock \in Seq(Datagrams(sent))
  /\ sendQ = LastOf(sent, Size(sent))

Queues ==
  /\ rq \in Seq(Entries(sent)) /\ Rising(rq) /\ \A i \in 1..Len(rq) : ~rq[i].hole
  /\ rtxQ \in Seq(Entries(sent)) /\ Contiguous(rtxQ)
  /\ out \in Seq(Entries(sent))
  /\ lastTs = IF out = <<>> THEN <<>> ELSE <<out[Len(out)].ts>>

\* The jitter control, once it has locked on the stream, lets the packets up to
\* number T out: D is the clock offset of the stream, and what is left in the
\* jitter buffer is younger.
TimeOf(D, T) ==
  /\ D \in -userTs..MaxPackets - 1 /\ T = D + userTs - JittComp
  /\ \A i \in 1..Len(rq) : No(rq[i]) > T
  /\ out # <<>> => TsNo(out[Len(out)]) =< T - RecvCache

Clocked ==
  /\ slide = <<>> => rq = <<>> /\ rtxQ = <<>> /\ out = <<>>
  /\ slide # <<>> => \E x, D, T \in Int : slide = <<x>> /\ Slides(x, D) /\ TimeOf(D, T)

\* The entry e may come out after l.
Follows(e, l) == No(e) > No(l) \/ (No(e) = No(l) /\ ~e.hole /\ ~l.hole)

OrderedOf(o, q) ==
  /\ \A i, j \in 1..Len(o) : i < j => Follows(o[j], o[i])
  /\ o # <<>> => \A i \in 1..Len(q) : Follows(q[i], o[Len(o)])

Ordered == OrderedOf(out, rtxQ)

\* A number that was asked for has come out, or waits to do so.
AskedForOf(as, o, q) ==
  /\ as \in Seq(0..SeqSpace - 1)
  /\ \A j \in 1..Len(as) :
       /\ NumberOf(as[j]) < sent
       /\ \/ o # <<>> /\ NumberOf(as[j]) =< No(o[Len(o)])
          \/ \E i \in 1..Len(q) : No(q[i]) = NumberOf(as[j])
  /\ \A i \in 1..Len(q) : q[i].hole => \E j \in 1..Len(as) : as[j] = q[i].seq
  /\ \A i \in 1..Len(o) : o[i].hole => \E j \in 1..Len(as) : as[j] = o[i].seq

AskedFor == AskedForOf(requests, out, rtxQ)

RtxInv == InFlight /\ Queues /\ Clocked /\ Ordered /\ AskedFor

LEMMA ClockReads ==
  ASSUME NEW x \in Int, NEW D \in Int, Slides(x, D), NEW ts \in Int
  PROVE  LET t == CompensatedTs(<<x>>, ts)
             T == D + ts - JittComp
         IN  t = (Ts0 + T) % TsSpace /\ (t - RecvCache) % TsSpace = (Ts0 + (T - RecvCache)) % TsSpace
<1>. DEFINE t == CompensatedTs(<<x>>, ts)
            T == D + ts - JittComp
            a == Ts0 + T
            c == a \div TsSpace
<1>1. Ts0 \in Int /\ JittComp \in Int /\ RecvCache \in Int /\ T \in Int /\ a \in Int
  BY Constants
<1>2. PICK k \in Int : x = Ts0 + D + TsSpace * k
  BY DEF Slides
<1>3. t = (a + TsSpace * k) % TsSpace
  <2>. DEFINE m == TsSpace * k
  <2>1. m \in Int
    BY Constants
  <2>. HIDE DEF m
  <2>2. ts + x - JittComp = a + m
    BY <1>1, <1>2, <2>1 DEF m
  <2>3. <<x>> # <<>> /\ <<x>>[1] = x
    OBVIOUS
  <2>4. t = (ts + x - JittComp) % TsSpace
    BY <2>3 DEF CompensatedTs
  <2>. QED  BY <2>2, <2>4 DEF m
<1>. HIDE DEF a
<1>4. t = a % TsSpace
  BY <1>1, <1>3, Constants, ModAdd
<1>5. a = TsSpace * c + (a % TsSpace) /\ c \in Int /\ a % TsSpace \in Int
  BY <1>1, Constants, ModRange
<1>. HIDE DEF t, c
<1>. DEFINE m == TsSpace * c
            b == a - RecvCache
<1>6. b \in Int /\ -c \in Int
  BY <1>1, <1>5
<1>7. t - RecvCache = b + TsSpace * (-c)
  <2>1. m \in Int /\ TsSpace * (-c) = -m
    BY <1>5, Constants
  <2>2. a = m + t /\ t \in Int
    BY <1>4, <1>5
  <2>. HIDE DEF m
  <2>3. t - RecvCache = b + (-m)
    BY <1>1, <2>1, <2>2
  <2>. QED  BY <2>1, <2>3
<1>. HIDE DEF b
<1>8. (t - RecvCache) % TsSpace = b % TsSpace
  <2>. DEFINE turns == -c
  <2>1. turns \in Int
    BY <1>6
  <2>. HIDE DEF turns
  <2>2. (b + TsSpace * turns) % TsSpace = b % TsSpace
    BY <1>6, <2>1, Constants, ModAdd
  <2>. QED  BY <1>7, <2>2 DEF turns
<1>9. b = Ts0 + (T - RecvCache)
  BY <1>1 DEF a, b
<1>. QED  BY <1>4, <1>8, <1>9 DEF a, t

\* What the walk makes of rtx_recv_queue when p comes out of the jitter buffer.
Walked(q, p, r) ==
  /\ Contiguous(r)
  /\ \A i \in 1..Len(q) : \E j \in 1..Len(r) : r[j] = q[i]
  /\ \A j \in 1..Len(r) :
       \/ r[j] = p \/ \E i \in 1..Len(q) : r[j] = q[i]
       \/ /\ r[j].hole /\ \A i \in 1..Len(q) : No(r[j]) # No(q[i])
          /\ No(r[j]) > No(p) \/ \E i \in 1..Len(q) : No(r[j]) > No(q[i])

LEMMA WalkRows ==
  ASSUME WidthsSuffice, NEW n \in 0..MaxPackets, NEW q \in Seq(Entries(n)), Contiguous(q),
         NEW p \in Entries(n)
  PROVE  FillGaps(rtp_putq(q, p)) \in Seq(Entries(n)) /\ Walked(q, p, FillGaps(rtp_putq(q, p)))
<1>. DEFINE s == rtp_putq(q, p)
            r == FillGaps(s)
<1>1. Rising(q)
  BY ContiguousRises
<1>2. s \in Seq(Entries(n)) /\ Rising(s) /\ Merged(q, p, s)
  BY <1>1, PutRows
<1>. HIDE DEF s
<1>3. Len(s) > 0
  <2>1. \E j \in 1..Len(s) : No(s[j]) = No(p)
    BY <1>2 DEF Merged
  <2>. QED  BY <1>2, <2>1
<1>4. r \in Seq(Entries(n)) /\ Filled(s, r)
  BY <1>2, <1>3, FillRows
<1>. HIDE DEF r
<1>5. \A i \in 1..Len(q) : \E j \in 1..Len(r) : r[j] = q[i]
  <2>1. ASSUME NEW i \in 1..Len(q)  PROVE \E j \in 1..Len(r) : r[j] = q[i]
    <3>1. PICK k \in 1..Len(s) : s[k] = q[i]
      BY <1>2 DEF Merged
    <3>2. PICK j \in 1..Len(r) : r[j] = s[k]
      BY <1>4 DEF Filled
    <3>. QED  BY <3>1, <3>2
  <2>. QED  BY <2>1
<1>6. ASSUME NEW j \in 1..Len(r)
      PROVE  \/ r[j] = p \/ \E i \in 1..Len(q) : r[j] = q[i]
             \/ /\ r[j].hole /\ \A i \in 1..Len(q) : No(r[j]) # No(q[i])
                /\ No(r[j]) > No(p) \/ \E i \in 1..Len(q) : No(r[j]) > No(q[i])
  <2>1. CASE \E k \in 1..Len(s) : r[j] = s[k]
    BY <1>2, <2>1 DEF Merged
  <2>2. CASE r[j].hole /\ No(r[j]) > No(s[1]) /\ \A k \in 1..Len(s) : No(s[k]) # No(r[j])
    <3>1. \A i \in 1..Len(q) : No(r[j]) # No(q[i])
      BY <1>2, <2>2 DEF Merged
    <3>2. 1 \in 1..Len(s)
      BY <1>2, <1>3
    <3>3. s[1] = p \/ \E i \in 1..Len(q) : s[1] = q[i]
      BY <1>2, <3>2 DEF Merged
    <3>. QED  BY <2>2, <3>1, <3>3
  <2>. QED  BY <1>4, <2>1, <2>2 DEF Filled
<1>. QED  BY <1>4, <1>5, <1>6 DEF Walked, Filled, r, s

LEMMA FollowsAll ==
  ASSUME WidthsSuffice, NEW n \in 0..MaxPackets, NEW q \in Seq(Entries(n)), NEW p \in Entries(n),
         NEW r \in Seq(Entries(n)), Walked(q, p, r), NEW l \in Entries(n), Follows(p, l),
         \A i \in 1..Len(q) : Follows(q[i], l)
  PROVE  \A j \in 1..Len(r) : Follows(r[j], l)
<1>1. ASSUME NEW j \in 1..Len(r)  PROVE Follows(r[j], l)
  <2>. DEFINE e == r[j]
  <2>1. e \in Entries(n) /\ No(e) \in Nat
    <3>1. e \in Entries(n)
      OBVIOUS
    <3>. HIDE DEF e
    <3>. QED  BY <3>1, EntryNo
  <2>2. /\ No(l) \in Nat /\ No(p) \in Nat
        /\ \A i \in 1..Len(q) : No(q[i]) \in Nat
    <3>1. No(l) \in Nat /\ No(p) \in Nat
      BY EntryNo
    <3>2. ASSUME NEW i \in 1..Len(q)  PROVE No(q[i]) \in Nat
      <4>. DEFINE x == q[i]
      <4>1. x \in Entries(n)
        OBVIOUS
      <4>. HIDE DEF x
      <4>2. No(x) \in Nat
        BY <4>1, EntryNo
      <4>. QED  BY <4>2 DEF x
    <3>. QED  BY <3>1, <3>2
  <2>3. CASE e = p \/ \E i \in 1..Len(q) : e = q[i]
    BY <2>3
  <2>4. CASE No(e) > No(p)
    BY <2>1, <2>2, <2>4 DEF Follows
  <2>5. CASE \E i \in 1..Len(q) : No(e) > No(q[i])
    <3>1. PICK i \in 1..Len(q) : No(e) > No(q[i])
      BY <2>5
    <3>2. No(q[i]) >= No(l)
      BY <2>2 DEF Follows
    <3>. DEFINE b == No(q[i])
                c == No(e)
                a == No(l)
    <3>3. b \in Nat /\ b >= a /\ c > b /\ c \in Nat /\ a \in Nat
      BY <2>1, <2>2, <3>1, <3>2
    <3>. HIDE DEF a, b, c
    <3>4. c > a
      BY <3>3
    <3>. QED  BY <3>4 DEF Follows, a, c
  <2>. QED  BY <2>3, <2>4, <2>5 DEF Walked
<1>. QED  BY <1>1
-----------------------------------------------------------------------------
(***************************************************************************)
(* One call of rtp_session_recvm_with_ts at ts, in its stages: r is the    *)
(* session after the sockets were read, t the time of the jitter buffer.   *)
(***************************************************************************)
Before == [rq |-> rq, rtxQ |-> rtxQ, slide |-> slide]
Read(ts) == IF ts = userTs THEN Before ELSE RtpRecv(Before, sock, ts)

\* What came out was due at the time T.
LastDue(T) == out # <<>> => TsNo(out[Len(out)]) =< T

\* The time of the call is T, given the slide of r.
Timed(r, ts, T) ==
  /\ T \in ClockRange /\ T - RecvCache \in ClockRange
  /\ \E x \in Int, D \in -ts..MaxPackets - 1 :
       r.slide = <<x>> /\ Slides(x, D) /\ T = D + ts - JittComp
  /\ CompensatedTs(r.slide, ts) = (Ts0 + T) % TsSpace
  /\ (CompensatedTs(r.slide, ts) - RecvCache) % TsSpace = (Ts0 + (T - RecvCache)) % TsSpace
  /\ LastDue(T - RecvCache)

LEMMA LastIsOk ==
  ASSUME WidthsSuffice, RtxInv  PROVE LastOk /\ (out # <<>> => lastTs # <<>> /\ out[Len(out)] \in Entries(sent)
                                                 /\ (lastTs[1] - Ts0) % TsSpace = TsNo(out[Len(out)]))
<1>1. CASE out = <<>>
  BY <1>1 DEF RtxInv, Queues, LastOk
<1>2. CASE out # <<>>
  <2>. DEFINE l == out[Len(out)]
  <2>1. sent \in 0..MaxPackets /\ out \in Seq(Entries(sent)) /\ lastTs = <<l.ts>>
    BY <1>2 DEF RtxInv, InFlight, Queues
  <2>2. l \in Entries(sent)
    BY <1>2, <2>1
  <2>. HIDE DEF l
  <2>3. l.ts \in 0..TsSpace - 1 /\ TsNo(l) \in 0..sent - 1
    BY <2>1, <2>2, EntryNo
  <2>4. lastTs # <<>> /\ lastTs[1] = l.ts /\ TsNo(l) = (l.ts - Ts0) % TsSpace
    BY <2>1 DEF TsNo
  <2>. QED  BY <2>1, <2>2, <2>3, <2>4, Constants DEF LastOk, l
<1>. QED  BY <1>1, <1>2

LEMMA ReadRows ==
  ASSUME WidthsSuffice, RtxInv, NEW ts \in {userTs, userTs + 1}
  PROVE  /\ Read(ts) \in Buffers(ts)
         /\ ts # userTs /\ rcvPt = MediaPt =>
              \A i \in 1..Len(sock) : sock[i].ver = 0 => Settled(Read(ts).rtxQ, sock[i])
<1>1. sent \in 0..MaxPackets /\ userTs \in -1..MaxUserTs /\ sock \in Seq(Datagrams(sent))
  BY DEF RtxInv, InFlight
<1>2. /\ rq \in Seq(Entries(sent)) /\ Rising(rq) /\ \A i \in 1..Len(rq) : ~rq[i].hole
      /\ rtxQ \in Seq(Entries(sent)) /\ Contiguous(rtxQ)
  BY DEF RtxInv, Queues
<1>3. LastOk
  BY LastIsOk
<1>4. Before \in Buffers(ts)
  <2>1. slide \in {<<>>} \cup {<<x>> : x \in Int} /\ (slide = <<>> => rq = <<>>)
    BY DEF RtxInv, Clocked
  <2>2. /\ Before \in [rq : Seq(Entries(sent)), rtxQ : Seq(Entries(sent)),
                       slide : {<<>>} \cup {<<x>> : x \in Int}]
        /\ Before.rq = rq /\ Before.rtxQ = rtxQ /\ Before.slide = slide
    BY <1>2, <2>1 DEF Before
  <2>3. Refilled(rtxQ, rtxQ)
    BY DEF Refilled
  <2>4. lastTs # <<>> => \A i \in 1..Len(rq) : No(rq[i]) >= (lastTs[1] - Ts0) % TsSpace
    <3>1. ASSUME lastTs # <<>>, NEW i \in 1..Len(rq)  PROVE No(rq[i]) >= (lastTs[1] - Ts0) % TsSpace
      <4>. DEFINE l == out[Len(out)]
                  y == (lastTs[1] - Ts0) % TsSpace
                  z == No(rq[i])
      <4>1. out # <<>>
        BY <3>1 DEF RtxInv, Queues
      <4>2. y = TsNo(l) /\ l \in Entries(sent)
        BY <4>1, LastIsOk
      <4>3. PICK D \in Int, T \in Int : z > T /\ TsNo(l) =< T - RecvCache
        <5>1. slide # <<>>
          BY <4>1 DEF RtxInv, Clocked
        <5>2. PICK x \in Int, D \in Int, T \in Int : TimeOf(D, T)
          BY <5>1 DEF RtxInv, Clocked
        <5>. QED  BY <4>1, <5>2 DEF TimeOf
      <4>4. z \in Nat /\ TsNo(l) \in Nat
        <5>1. rq[i] \in Entries(sent)
          BY <1>2
        <5>. HIDE DEF l
        <5>. QED  BY <1>1, <4>2, <5>1, EntryNo DEF z
      <4>. HIDE DEF y, z, l
      <4>5. z >= y
        BY <4>2, <4>3, <4>4, Constants
      <4>. QED  BY <4>5 DEF y, z
    <3>. QED  BY <3>1
  <2>. HIDE DEF Before
  <2>5. BufferOk(Before, ts)
    BY <1>2, <2>1, <2>2, <2>3, <2>4 DEF BufferOk
  <2>. QED  BY <2>2, <2>5 DEF Buffers
<1>5. CASE ts = userTs
  BY <1>4, <1>5 DEF Read
<1>6. CASE ts # userTs
  <2>1. ts \in Nat
    BY <1>1, <1>6
  <2>2. /\ RtpRecv(Before, sock, ts) \in Buffers(ts)
        /\ rcvPt = MediaPt => \A i \in 1..Len(sock) :
             sock[i].ver = 0 => Settled(RtpRecv(Before, sock, ts).rtxQ, sock[i])
    BY <1>1, <1>2, <1>3, <1>4, <2>1, RtpRecvRows
  <2>. QED  BY <1>1, <1>6, <2>2 DEF Read
<1>. QED  BY <1>5, <1>6

LEMMA TimeRows ==
  ASSUME WidthsSuffice, RtxInv, NEW ts \in {userTs, userTs + 1}, ts =< MaxUserTs,
         NEW r \in Buffers(ts)
  PROVE  \/ r.slide = <<>> /\ r.rq = <<>> /\ r.rtxQ = <<>> /\ out = <<>>
         \/ \E T \in Int : Timed(r, ts, T)
<1>1. userTs \in Int /\ ts \in Int /\ ts >= userTs /\ ts >= -1
  BY DEF RtxInv, InFlight
<1>2. BufferOk(r, ts) /\ r.rtxQ \in Seq(Entries(sent))
  BY DEF Buffers
<1>3. ASSUME NEW x \in Int, NEW D \in -ts..MaxPackets - 1, r.slide = <<x>>, Slides(x, D),
             LastDue((D + ts - JittComp) - RecvCache)
      PROVE  \E T \in Int : Timed(r, ts, T)
  <2>. DEFINE T == D + ts - JittComp
  <2>1. D \in Int /\ T \in Int
    BY <1>1, <1>3, Constants
  <2>2. T \in ClockRange /\ T - RecvCache \in ClockRange
    BY <1>1, <1>3, <2>1, Constants DEF ClockRange
  <2>3. /\ CompensatedTs(<<x>>, ts) = (Ts0 + T) % TsSpace
        /\ (CompensatedTs(<<x>>, ts) - RecvCache) % TsSpace = (Ts0 + (T - RecvCache)) % TsSpace
    BY <1>1, <1>3, <2>1, ClockReads, Zenon
  <2>4. LastDue(T - RecvCache)
    BY <1>3
  <2>5. \E z \in Int, E \in -ts..MaxPackets - 1 :
          r.slide = <<z>> /\ Slides(z, E) /\ T = E + ts - JittComp
    BY <1>3
  <2>. HIDE DEF T
  <2>6. Timed(r, ts, T)
    BY <1>3, <2>2, <2>3, <2>4, <2>5 DEF Timed
  <2>. QED  BY <2>1, <2>6
<1>4. CASE slide = <<>>
  <2>1. rtxQ = <<>> /\ out = <<>>
    BY <1>4 DEF RtxInv, Clocked
  <2>2. r.rtxQ = <<>>
    <3>1. Len(r.rtxQ) = 0
      BY <1>2, <2>1 DEF BufferOk, Refilled
    <3>. QED  BY <1>2, <3>1
  <2>3. CASE r.slide = <<>> /\ r.rq = <<>>
    BY <2>1, <2>2, <2>3
  <2>4. CASE \E x \in Int, D \in -ts..MaxPackets - 1 : r.slide = <<x>> /\ Slides(x, D)
    BY <1>3, <2>1, <2>4 DEF LastDue
  <2>. QED  BY <1>2, <1>4, <2>3, <2>4 DEF BufferOk
<1>5. CASE slide # <<>>
  <2>1. PICK x \in Int, D \in Int, T \in Int : slide = <<x>> /\ Slides(x, D) /\ TimeOf(D, T)
    BY <1>5 DEF RtxInv, Clocked
  <2>2. D \in -ts..MaxPackets - 1 /\ T = D + userTs - JittComp
    BY <1>1, <2>1 DEF TimeOf
  <2>3. r.slide = <<x>>
    BY <1>2, <1>5, <2>1 DEF BufferOk
  <2>4. LastDue((D + ts - JittComp) - RecvCache)
    <3>1. SUFFICES ASSUME out # <<>>  PROVE TsNo(out[Len(out)]) =< (D + ts - JittComp) - RecvCache
      BY DEF LastDue
    <3>. DEFINE l == out[Len(out)]
    <3>2. l \in Entries(sent) /\ sent \in 0..MaxPackets
      BY <3>1, LastIsOk DEF RtxInv, InFlight
    <3>3. TsNo(l) =< T - RecvCache
      BY <2>1, <3>1 DEF TimeOf
    <3>. HIDE DEF l
    <3>4. TsNo(l) \in Int
      BY <3>2, EntryNo
    <3>. DEFINE y == TsNo(l)
    <3>. HIDE DEF y
    <3>5. y =< (D + ts - JittComp) - RecvCache
      BY <1>1, <2>2, <3>3, <3>4, Constants DEF y
    <3>. QED  BY <3>5 DEF l, y
  <2>. QED  BY <1>3, <2>1, <2>2, <2>3, <2>4
<1>. QED  BY <1>4, <1>5

LEMMA EmptyGet == ASSUME NEW t PROVE rtp_getq(<<>>, t).ret = <<>> /\ rtp_getq(<<>>, t).rest = <<>>
<1>. DEFINE mayTake(k) == \A i \in 1..k : /\ TsIsNewer(t, <<>>[i].ts)
                                          /\ i > 1 => <<>>[i].ts # <<>>[i - 1].ts
            K == {k \in 0..0 : mayTake(k)}
            taken == Max(K)
<1>1. K = {0}
  <2>1. \A i \in 1..0 : FALSE
    OBVIOUS
  <2>. QED  BY <2>1
<1>2. taken = 0
  <2>. HIDE DEF K
  <2>. QED  BY <1>1 DEF Max
<1>3. rtp_getq(<<>>, t) = [ret      |-> IF taken = 0 THEN <<>> ELSE <<<<>>[taken]>>,
                           rejected |-> SubSeq(<<>>, 1, taken - 1),
                           rest     |-> SubSeq(<<>>, taken + 1, 0)]
  <2>1. Len(<<>>) = 0
    OBVIOUS
  <2>. QED  BY <2>1 DEF rtp_getq
<1>4. SubSeq(<<>>, 1, 0) = <<>>
  OBVIOUS
<1>. HIDE DEF taken
<1>. QED  BY <1>2, <1>3, <1>4

LEMMA DueRows ==
  ASSUME WidthsSuffice, RtxInv, NEW ts \in {userTs, userTs + 1}, ts =< MaxUserTs,
         NEW r \in Buffers(ts), NEW g, g = rtp_getq(r.rq, CompensatedTs(r.slide, ts))
  PROVE  /\ g.rest \in Seq(Entries(sent)) /\ Rising(g.rest)
         /\ \A i \in 1..Len(g.rest) : ~g.rest[i].hole
         /\ g.ret = <<>> \/ \E p \in Entries(sent) :
              g.ret = <<p>> /\ ~p.hole /\ (out # <<>> => Follows(p, out[Len(out)]))
         /\ r.slide = <<>> => g.rest = <<>> /\ g.ret = <<>>
         /\ \A T \in Int : Timed(r, ts, T) => \A i \in 1..Len(g.rest) : No(g.rest[i]) > T
<1>1. sent \in 0..MaxPackets
  BY DEF RtxInv, InFlight
<1>2. BufferOk(r, ts) /\ r.rq \in Seq(Entries(sent)) /\ r.rtxQ \in Seq(Entries(sent))
  BY DEF Buffers
<1>3. CASE r.slide = <<>> /\ r.rq = <<>>
  <2>1. g.ret = <<>> /\ g.rest = <<>>
    BY <1>3, EmptyGet
  <2>2. \A T \in Int : ~Timed(r, ts, T)
    BY <1>3 DEF Timed
  <2>3. \A i \in 1..0 : FALSE
    OBVIOUS
  <2>4. <<>> \in Seq(Entries(sent)) /\ Len(<<>>) = 0 /\ Rising(<<>>)
    BY <2>3 DEF Rising
  <2>. QED  BY <2>1, <2>2, <2>3, <2>4
<1>4. CASE \E T \in Int : Timed(r, ts, T)
  <2>. DEFINE q == r.rq
              t == CompensatedTs(r.slide, ts)
  <2>0. q \in Seq(Entries(sent)) /\ Rising(q) /\ \A i \in 1..Len(q) : ~q[i].hole
    BY <1>2 DEF BufferOk
  <2>. HIDE DEF q, t
  <2>1. ASSUME NEW T \in Int, Timed(r, ts, T)
        PROVE  /\ g.rest \in Seq(Entries(sent)) /\ Rising(g.rest) /\ Part(q, g.rest)
               /\ \A i \in 1..Len(g.rest) : No(g.rest[i]) > T
               /\ g.ret = <<>> \/ \E i \in 1..Len(q) : g.ret = <<q[i]>>
    <3>1. T \in ClockRange /\ t = (Ts0 + T) % TsSpace
      BY <2>1 DEF Timed, t
    <3>2. g = rtp_getq(q, (Ts0 + T) % TsSpace)
      BY <3>1 DEF q, t
    <3>. QED  BY <1>1, <2>0, <3>1, <3>2, GetRows
  <2>2. /\ g.rest \in Seq(Entries(sent)) /\ Rising(g.rest) /\ Part(q, g.rest)
        /\ g.ret = <<>> \/ \E i \in 1..Len(q) : g.ret = <<q[i]>>
    BY <1>4, <2>1
  <2>3. \A i \in 1..Len(g.rest) : ~g.rest[i].hole
    BY <2>0, <2>2 DEF Part
  <2>4. ASSUME NEW i \in 1..Len(q), out # <<>>  PROVE Follows(q[i], out[Len(out)])
    <3>. DEFINE l == out[Len(out)]
                p == q[i]
                y == (lastTs[1] - Ts0) % TsSpace
    <3>1. l \in Entries(sent) /\ y = TsNo(l) /\ lastTs # <<>>
      BY <2>4, LastIsOk
    <3>2. No(p) >= y /\ p \in Entries(sent) /\ ~p.hole
      BY <1>2, <2>0, <3>1 DEF BufferOk, q
    <3>. HIDE DEF l, p, y
    <3>3. No(p) \in Nat
      BY <1>1, <3>2, EntryNo
    <3>4. No(l) \in Nat /\ TsNo(l) \in Nat /\ No(l) =< TsNo(l)
      BY <1>1, <3>1, EntryNo
    <3>5. No(l) < TsNo(l) \/ ~l.hole
      BY <3>1 DEF Entries
    <3>6. No(p) > No(l) \/ (No(p) = No(l) /\ ~l.hole)
      BY <3>1, <3>2, <3>3, <3>4, <3>5
    <3>. QED  BY <3>2, <3>6 DEF Follows, l, p
  <2>5. g.ret = <<>> \/ \E p \in Entries(sent) :
          g.ret = <<p>> /\ ~p.hole /\ (out # <<>> => Follows(p, out[Len(out)]))
    BY <2>0, <2>2, <2>4
  <2>6. r.slide # <<>>
    BY <1>4 DEF Timed
  <2>. QED  BY <2>1, <2>2, <2>3, <2>5, <2>6
<1>. QED  BY <1>3, <1>4, TimeRows

\* rtx_recv_queue, q, before the oldest packet of it may leave.
Waiting(r, q) ==
  /\ q \in Seq(Entries(sent)) /\ Contiguous(q)
  /\ \A i \in 1..Len(r.rtxQ) : \E j \in 1..Len(q) : q[j] = r.rtxQ[i]
  /\ \A j \in 1..Len(q) : q[j].hole => \/ \E i \in 1..Len(r.rtxQ) : q[j] = r.rtxQ[i]
                                       \/ \A i \in 1..Len(r.rtxQ) : No(q[j]) # No(r.rtxQ[i])
  /\ out # <<>> => \A j \in 1..Len(q) : Follows(q[j], out[Len(out)])
  /\ r.slide = <<>> => q = <<>>

LEMMA WaitingRows ==
  ASSUME WidthsSuffice, RtxInv, NEW ts \in {userTs, userTs + 1}, ts =< MaxUserTs,
         NEW r \in Buffers(ts), NEW g, g = rtp_getq(r.rq, CompensatedTs(r.slide, ts))
  PROVE  Waiting(r, IF g.ret = <<>> THEN r.rtxQ ELSE FillGaps(rtp_putq(r.rtxQ, g.ret[1])))
<1>. DEFINE s == r.rtxQ
            q == IF g.ret = <<>> THEN s ELSE FillGaps(rtp_putq(s, g.ret[1]))
<1>1. sent \in 0..MaxPackets
  BY DEF RtxInv, InFlight
<1>2. /\ s \in Seq(Entries(sent)) /\ Refilled(rtxQ, s) /\ Contiguous(s)
      /\ r.slide = <<>> => s = <<>> /\ g.ret = <<>>
  <2>1. s \in Seq(Entries(sent)) /\ Refilled(rtxQ, s)
    BY DEF Buffers, BufferOk
  <2>2. rtxQ \in Seq(Entries(sent)) /\ Contiguous(rtxQ)
    BY DEF RtxInv, Queues
  <2>3. Contiguous(s)
    BY <2>1, <2>2, RefilledContiguous
  <2>4. r.slide = <<>> => s = <<>>
    <3>1. r.slide = <<>> => \A T \in Int : ~Timed(r, ts, T)
      BY DEF Timed
    <3>2. r.rtxQ = <<>> \/ \E T \in Int : Timed(r, ts, T)
      BY TimeRows
    <3>. QED  BY <3>1, <3>2
  <2>5. r.slide = <<>> => g.ret = <<>>
    BY DueRows
  <2>. QED  BY <2>1, <2>3, <2>4, <2>5
<1>. HIDE DEF s
<1>3. out # <<>> => \A i \in 1..Len(s) : Follows(s[i], out[Len(out)])
  BY <1>2 DEF RtxInv, Ordered, OrderedOf, Refilled, Follows
<1>4. CASE g.ret = <<>>
  <2>1. q = s
    BY <1>4
  <2>. QED  BY <1>2, <1>3, <2>1 DEF Waiting, s
<1>5. CASE g.ret # <<>>
  <2>1. PICK p \in Entries(sent) :
          g.ret = <<p>> /\ ~p.hole /\ (out # <<>> => Follows(p, out[Len(out)]))
    BY <1>5, DueRows
  <2>2. q = FillGaps(rtp_putq(s, p))
    BY <1>5, <2>1
  <2>. HIDE DEF q
  <2>3. q \in Seq(Entries(sent)) /\ Walked(s, p, q)
    BY <1>1, <1>2, <2>2, WalkRows
  <2>4. out # <<>> => \A j \in 1..Len(q) : Follows(q[j], out[Len(out)])
    <3>1. SUFFICES ASSUME out # <<>>  PROVE \A j \in 1..Len(q) : Follows(q[j], out[Len(out)])
      OBVIOUS
    <3>. DEFINE l == out[Len(out)]
    <3>2. l \in Entries(sent)
      BY <3>1, LastIsOk
    <3>3. Follows(p, l) /\ \A i \in 1..Len(s) : Follows(s[i], l)
      BY <1>3, <2>1, <3>1
    <3>. HIDE DEF l
    <3>4. \A j \in 1..Len(q) : Follows(q[j], l)
      BY <1>1, <1>2, <2>3, <3>2, <3>3, FollowsAll
    <3>. QED  BY <3>4 DEF l
  <2>5. \A j \in 1..Len(q) : q[j].hole => \/ \E i \in 1..Len(s) : q[j] = s[i]
                                          \/ \A i \in 1..Len(s) : No(q[j]) # No(s[i])
    BY <2>1, <2>3 DEF Walked
  <2>6. Waiting(r, q)
    BY <1>2, <1>5, <2>3, <2>4, <2>5 DEF Waiting, Walked, s
  <2>. QED  BY <2>6 DEF q, s
<1>. QED  BY <1>4, <1>5

\* What has come out, o, and what still waits, w, when the head of q may leave.
HeadLeft(q, o, w) ==
  \/ o = out /\ w = q
  \/ /\ Len(q) > 0 /\ Len(o) = Len(out) + 1 /\ Len(w) = Len(q) - 1
     /\ o[Len(out) + 1] = q[1] /\ \A i \in 1..Len(out) : o[i] = out[i]
     /\ \A i \in 1..Len(q) - 1 : w[i] = q[i + 1]

Taken(ts, r, q, d) ==
  /\ d.rest \in Seq(Entries(sent)) /\ out \o d.ret \in Seq(Entries(sent))
  /\ HeadLeft(q, out \o d.ret, d.rest)
  /\ \/ d.ret = <<>> /\ d.rest = q
     \/ Len(q) > 0 /\ d.ret = <<q[1]>> /\ d.rest = Tail(q)
  /\ \A T \in Int : Timed(r, ts, T) /\ d.ret # <<>> => TsNo(q[1]) =< T - RecvCache

LEMMA TakenRows ==
  ASSUME WidthsSuffice, RtxInv, NEW ts \in {userTs, userTs + 1}, ts =< MaxUserTs,
         NEW r \in Buffers(ts), NEW q, Waiting(r, q), NEW d,
         d = rtp_getq_permissive(q, (CompensatedTs(r.slide, ts) - RecvCache) % TsSpace)
  PROVE  Taken(ts, r, q, d)
<1>1. sent \in 0..MaxPackets /\ out \in Seq(Entries(sent)) /\ q \in Seq(Entries(sent))
  BY DEF RtxInv, InFlight, Queues, Waiting
<1>2. /\ \/ d.ret = <<>> /\ d.rest = q
         \/ Len(q) > 0 /\ d.ret = <<q[1]>> /\ d.rest = Tail(q)
      /\ \A T \in Int : Timed(r, ts, T) /\ d.ret # <<>> => TsNo(q[1]) =< T - RecvCache
  <2>1. ASSUME NEW T \in Int, Timed(r, ts, T)
        PROVE  \/ d.ret = <<>> /\ d.rest = q
               \/ /\ Len(q) > 0 /\ d.ret = <<q[1]>> /\ TsNo(q[1]) =< T - RecvCache
                  /\ d.rest = Tail(q)
    <3>. DEFINE U == T - RecvCache
    <3>1. U \in ClockRange /\ d = rtp_getq_permissive(q, (Ts0 + U) % TsSpace)
      BY <2>1 DEF Timed
    <3>. HIDE DEF U
    <3>2. \/ d.ret = <<>> /\ d.rest = q
          \/ /\ Len(q) > 0 /\ d.ret = <<q[1]>> /\ TsNo(q[1]) =< U
             /\ d.rest = Tail(q)
      BY <1>1, <3>1, PermissiveRows
    <3>. QED  BY <3>2 DEF U
  <2>2. CASE r.slide = <<>>
    <3>1. q = <<>>
      BY <2>2 DEF Waiting
    <3>2. d.ret = <<>> /\ d.rest = q
      BY <3>1 DEF rtp_getq_permissive
    <3>3. \A T \in Int : ~Timed(r, ts, T)
      BY <2>2 DEF Timed
    <3>. QED  BY <3>2, <3>3
  <2>3. CASE \E T \in Int : Timed(r, ts, T)
    <3>1. \/ d.ret = <<>> /\ d.rest = q
          \/ Len(q) > 0 /\ d.ret = <<q[1]>> /\ d.rest = Tail(q)
      BY <2>1, <2>3
    <3>2. ASSUME NEW T \in Int, Timed(r, ts, T), d.ret # <<>>  PROVE TsNo(q[1]) =< T - RecvCache
      BY <2>1, <3>2
    <3>. QED  BY <3>1, <3>2
  <2>. QED  BY <2>2, <2>3, TimeRows
<1>3. CASE d.ret = <<>> /\ d.rest = q
  <2>1. out \o <<>> = out
    BY <1>1
  <2>. QED  BY <1>1, <1>2, <1>3, <2>1 DEF HeadLeft, Taken
<1>4. CASE Len(q) > 0 /\ d.ret = <<q[1]>> /\ d.rest = Tail(q)
  <2>. DEFINE e == q[1]
              n == Len(out)
              w == Tail(q)
  <2>1. e \in Entries(sent) /\ n \in Nat
    BY <1>1, <1>4
  <2>2. /\ w \in Seq(Entries(sent)) /\ Len(w) = Len(q) - 1
        /\ \A i \in 1..Len(q) - 1 : w[i] = q[i + 1]
    BY <1>1, <1>4
  <2>. HIDE DEF e, n, w
  <2>3. /\ out \o <<e>> \in Seq(Entries(sent)) /\ Len(out \o <<e>>) = n + 1
        /\ (out \o <<e>>)[n + 1] = e /\ \A i \in 1..n : (out \o <<e>>)[i] = out[i]
    <3>1. Len(out) = n
      BY DEF n
    <3>. QED  BY <1>1, <2>1, <3>1, PutAtEnd
  <2>4. d.ret = <<e>> /\ d.rest = w
    BY <1>4 DEF e, w
  <2>5. HeadLeft(q, out \o <<e>>, w)
    BY <1>4, <2>2, <2>3 DEF HeadLeft, e, n
  <2>. QED  BY <1>2, <2>2, <2>3, <2>4, <2>5 DEF Taken
<1>. QED  BY <1>2, <1>3, <1>4

LEMMA StillOrdered ==
  ASSUME WidthsSuffice, RtxInv, NEW r, NEW q, Waiting(r, q),
         NEW o \in Seq(Entries(sent)), NEW w \in Seq(Entries(sent)), HeadLeft(q, o, w)
  PROVE  Contiguous(w) /\ OrderedOf(o, w)
<1>1. /\ sent \in 0..MaxPackets /\ out \in Seq(Entries(sent)) /\ OrderedOf(out, rtxQ)
      /\ q \in Seq(Entries(sent)) /\ Contiguous(q)
      /\ out # <<>> => \A j \in 1..Len(q) : Follows(q[j], out[Len(out)])
  BY DEF RtxInv, InFlight, Queues, Ordered, Waiting
<1>2. CASE o = out /\ w = q
  BY <1>1, <1>2 DEF OrderedOf
<1>3. CASE /\ Len(q) > 0 /\ Len(o) = Len(out) + 1 /\ Len(w) = Len(q) - 1
           /\ o[Len(out) + 1] = q[1] /\ \A i \in 1..Len(out) : o[i] = out[i]
           /\ \A i \in 1..Len(q) - 1 : w[i] = q[i + 1]
  <2>. DEFINE n == Len(out)
              e == q[1]
  <2>1. n \in Nat /\ e \in Entries(sent) /\ No(e) \in Nat
    <3>1. n \in Nat /\ e \in Entries(sent)
      BY <1>1, <1>3
    <3>. HIDE DEF e
    <3>. QED  BY <1>1, <3>1, EntryNo
  <2>2. \A i \in 1..Len(q) : No(q[i]) = No(e) + i - 1
    BY <1>1 DEF Contiguous
  <2>. HIDE DEF e
  <2>3. ASSUME NEW i \in 1..Len(w)  PROVE No(w[i]) = No(e) + i
    <3>1. i + 1 \in 1..Len(q) /\ w[i] = q[i + 1]
      BY <1>1, <1>3
    <3>. QED  BY <2>1, <2>2, <3>1
  <2>4. Contiguous(w)
    <3>1. ASSUME NEW i \in 1..Len(w)  PROVE No(w[i]) = No(w[1]) + i - 1
      <4>1. 1 \in 1..Len(w)
        OBVIOUS
      <4>. QED  BY <2>1, <2>3, <4>1
    <3>. QED  BY <3>1 DEF Contiguous
  <2>5. o[Len(o)] = e /\ Len(o) = n + 1
    BY <1>3 DEF e
  <2>6. \A i \in 1..Len(w) : Follows(w[i], o[Len(o)])
    BY <2>1, <2>3, <2>5 DEF Follows
  <2>7. ASSUME NEW i \in 1..Len(o), NEW j \in 1..Len(o), i < j  PROVE Follows(o[j], o[i])
    <3>1. CASE j =< n
      <4>1. i \in 1..n /\ j \in 1..n /\ o[i] = out[i] /\ o[j] = out[j]
        BY <1>3, <2>1, <2>7, <3>1
      <4>. QED  BY <1>1, <2>7, <4>1 DEF OrderedOf
    <3>2. CASE j = n + 1
      <4>. DEFINE l == out[n]
                  x == out[i]
      <4>1. i \in 1..n /\ o[j] = e /\ o[i] = x /\ n \in 1..n /\ out # <<>>
        BY <1>3, <2>1, <2>5, <2>7, <3>2
      <4>2. Follows(e, l)
        <5>1. 1 \in 1..Len(q)
          BY <1>1, <1>3
        <5>. QED  BY <1>1, <4>1, <5>1 DEF e
      <4>3. i = n \/ Follows(l, x)
        <5>1. i = n \/ i < n
          BY <4>1
        <5>. QED  BY <1>1, <4>1, <5>1 DEF OrderedOf
      <4>4. l \in Entries(sent) /\ x \in Entries(sent)
        BY <1>1, <4>1
      <4>5. i = n => x = l
        OBVIOUS
      <4>. HIDE DEF l, x
      <4>6. No(l) \in Nat /\ No(x) \in Nat
        BY <1>1, <4>4, EntryNo
      <4>7. Follows(e, x)
        <5>1. CASE i = n
          BY <4>2, <4>5, <5>1
        <5>2. CASE Follows(l, x)
          BY <2>1, <4>2, <4>6, <5>2 DEF Follows
        <5>. QED  BY <4>3, <5>1, <5>2
      <4>. QED  BY <4>1, <4>7
    <3>. QED  BY <2>1, <2>5, <3>1, <3>2
  <2>. QED  BY <2>4, <2>6, <2>7 DEF OrderedOf
<1>. QED  BY <1>2, <1>3 DEF HeadLeft

\* Refilling the queue keeps the numbers in it.
LEMMA RefilledSeq ==
  ASSUME WidthsSuffice, NEW n \in 0..MaxPackets, NEW q \in Seq(Entries(n)), NEW r \in Seq(Entries(n)),
         Refilled(q, r), NEW i \in 1..Len(q)
  PROVE  r[i].seq = q[i].seq
<1>. DEFINE a == r[i]
            b == q[i]
<1>1. a \in Entries(n) /\ b \in Entries(n) /\ No(a) = No(b)
  BY DEF Refilled
<1>. HIDE DEF a, b
<1>2. a.seq = b.seq
  BY <1>1, EntryOrder
<1>. QED  BY <1>2 DEF a, b

\* A placeholder is asked for when it is made, and only then.
IsFresh(q, x) ==
  /\ \E j \in 1..Len(q) : x = q[j].seq
  /\ NumberOf(x) \in Nat /\ NumberOf(x) < sent
  /\ \A k \in 1..Len(out) : No(out[k]) < NumberOf(x)
  /\ \A k \in 1..Len(requests) : NumberOf(requests[k]) # NumberOf(x)

LEMMA AskedOnce ==
  ASSUME WidthsSuffice, RtxInv, NEW r, r.rtxQ \in Seq(Entries(sent)), Refilled(rtxQ, r.rtxQ),
         NEW q, Waiting(r, q), NEW as, Requested(r.rtxQ, q, as), NEW i \in 1..Len(as)
  PROVE  IsFresh(q, as[i])
<1>0. sent \in 0..MaxPackets /\ out \in Seq(Entries(sent)) /\ q \in Seq(Entries(sent))
  BY DEF RtxInv, InFlight, Queues, Waiting
<1>1. PICK j \in 1..Len(q) : IsNew(r.rtxQ, q[j]) /\ as[i] = q[j].seq
  BY DEF Requested
<1>. DEFINE e == q[j]
            m == NumberOf(as[i])
<1>2. e \in Entries(sent) /\ m = No(e) /\ e.hole /\ e.seq \notin Holes(r.rtxQ)
  BY <1>0, <1>1 DEF IsNew, No
<1>. HIDE DEF e
<1>3. m \in Nat /\ m < sent
  <2>1. No(e) \in 0..sent - 1
    BY <1>0, <1>2, EntryNo
  <2>. QED  BY <1>0, <1>2, <2>1
<1>. HIDE DEF m
<1>4. out # <<>> => m > No(out[Len(out)])
  BY <1>2 DEF Waiting, Follows, e
<1>5. ASSUME NEW k \in 1..Len(out)  PROVE No(out[k]) < m
  <2>. DEFINE l == out[Len(out)]
              x == out[k]
  <2>1. out # <<>> /\ l \in Entries(sent) /\ x \in Entries(sent) /\ Len(out) \in 1..Len(out)
        /\ (k < Len(out) \/ x = l)
    BY <1>0, <1>5
  <2>2. Follows(l, x) \/ x = l
    BY <2>1 DEF RtxInv, Ordered, OrderedOf
  <2>3. m > No(l)
    BY <1>4, <2>1
  <2>. HIDE DEF l, x
  <2>4. No(l) \in Nat /\ No(x) \in Nat
    BY <1>0, <2>1, EntryNo
  <2>5. No(x) < m
    BY <1>3, <2>2, <2>3, <2>4 DEF Follows
  <2>. QED  BY <2>5 DEF x
<1>6. ASSUME NEW k \in 1..Len(requests), NumberOf(requests[k]) = m  PROVE FALSE
  <2>1. \/ out # <<>> /\ m =< No(out[Len(out)])
        \/ \E h \in 1..Len(rtxQ) : No(rtxQ[h]) = m
    BY <1>6 DEF RtxInv, AskedFor, AskedForOf
  <2>2. CASE out # <<>> /\ m =< No(out[Len(out)])
    <3>. DEFINE l == out[Len(out)]
    <3>1. l \in Entries(sent) /\ m > No(l) /\ m =< No(l)
      BY <1>0, <1>4, <2>2
    <3>. HIDE DEF l
    <3>2. No(l) \in Nat
      BY <1>0, <3>1, EntryNo
    <3>. QED  BY <1>3, <3>1, <3>2
  <2>3. CASE \E h \in 1..Len(rtxQ) : No(rtxQ[h]) = m
    <3>1. PICK h \in 1..Len(rtxQ) : No(rtxQ[h]) = m
      BY <2>3
    <3>2. h \in 1..Len(r.rtxQ) /\ No(r.rtxQ[h]) = m
      BY <3>1 DEF Refilled
    <3>3. PICK x \in 1..Len(r.rtxQ) : e = r.rtxQ[x]
      BY <1>2, <3>2 DEF Waiting, e
    <3>4. x \in DOMAIN r.rtxQ /\ r.rtxQ[x].hole
      BY <1>2, <3>3
    <3>5. e.seq \in Holes(r.rtxQ)
      BY <3>3, <3>4 DEF Holes
    <3>. QED  BY <1>2, <3>5
  <2>. QED  BY <2>1, <2>2, <2>3
<1>. QED  BY <1>1, <1>3, <1>5, <1>6 DEF IsFresh, m

IsJoined(S, a, b, c) ==
  /\ Len(a) \in Nat /\ Len(b) \in Nat /\ Len(c) = Len(a) + Len(b)
  /\ DOMAIN a = 1..Len(a) /\ DOMAIN b = 1..Len(b) /\ DOMAIN c = 1..Len(c)
  /\ \A j \in 1..Len(a) : j \in 1..Len(c) /\ c[j] = a[j]
  /\ \A j \in 1..Len(b) : Len(a) + j \in 1..Len(c) /\ c[Len(a) + j] = b[j]
  /\ \A j \in 1..Len(c) : /\ j \in 1..Len(a) \/ \E i \in 1..Len(b) : j = Len(a) + i
                          /\ c[j] \in S

LEMMA Joined ==
  ASSUME NEW S, NEW a \in Seq(S), NEW b \in Seq(S)
  PROVE  a \o b \in Seq(S) /\ IsJoined(S, a, b, a \o b)
<1>. DEFINE c == a \o b
            m == Len(a)
            n == Len(b)
<1>1. m \in Nat /\ n \in Nat /\ c \in Seq(S) /\ Len(c) = m + n
  OBVIOUS
<1>2. \A j \in 1..m : c[j] = a[j]
  OBVIOUS
<1>3. ASSUME NEW j \in 1..n  PROVE c[m + j] = b[j]
  <2>1. m + j \in 1..m + n /\ m + j > m /\ (m + j) - m = j
    BY <1>1
  <2>. QED  BY <2>1
<1>7. /\ \A j \in 1..Len(c) : c[j] \in S
      /\ DOMAIN a = 1..m /\ DOMAIN b = 1..n /\ DOMAIN c = 1..Len(c)
  BY <1>1
<1>. HIDE DEF c, m, n
<1>4. ASSUME NEW j \in 1..m + n, j \notin 1..m  PROVE \E i \in 1..n : j = m + i
  <2>1. j - m \in 1..n /\ j = m + (j - m)
    BY <1>1, <1>4
  <2>. QED  BY <2>1
<1>5. \A j \in 1..m : j \in 1..m + n
  BY <1>1
<1>6. \A j \in 1..n : m + j \in 1..m + n
  BY <1>1
<1>. QED  BY <1>1, <1>2, <1>3, <1>4, <1>5, <1>6, <1>7 DEF IsJoined, c, m, n

LEMMA StillAsked ==
  ASSUME WidthsSuffice, RtxInv, NEW r, r.rtxQ \in Seq(Entries(sent)), Refilled(rtxQ, r.rtxQ),
         NEW q, Waiting(r, q), NEW as, Requested(r.rtxQ, q, as),
         NEW o \in Seq(Entries(sent)), NEW w \in Seq(Entries(sent)), HeadLeft(q, o, w)
  PROVE  AskedForOf(requests \o as, o, w)
<1>. DEFINE all == requests \o as
            n == Len(requests)
            s == r.rtxQ
<1>0. /\ sent \in 0..MaxPackets /\ out \in Seq(Entries(sent)) /\ q \in Seq(Entries(sent))
      /\ rtxQ \in Seq(Entries(sent)) /\ requests \in Seq(0..SeqSpace - 1)
      /\ as \in Seq(0..SeqSpace - 1) /\ AskedForOf(requests, out, rtxQ)
  BY DEF RtxInv, InFlight, Queues, Waiting, AskedFor, AskedForOf, Requested
<1>1. /\ all \in Seq(0..SeqSpace - 1)
      /\ \A j \in 1..n : j \in 1..Len(all) /\ all[j] = requests[j]
      /\ \A j \in 1..Len(as) : n + j \in 1..Len(all) /\ all[n + j] = as[j]
      /\ \A j \in 1..Len(all) : /\ j \in 1..n \/ \E i \in 1..Len(as) : j = n + i
                                /\ all[j] \in 0..SeqSpace - 1
  <2>. DEFINE S == 0..SeqSpace - 1
  <2>1. requests \in Seq(S) /\ as \in Seq(S)
    BY <1>0
  <2>. HIDE DEF S
  <2>2. all \in Seq(S) /\ IsJoined(S, requests, as, all)
    BY <2>1, Joined
  <2>. HIDE DEF all
  <2>. QED  BY <2>2 DEF IsJoined, S
<1>. HIDE DEF all
<1>2. ASSUME NEW k \in 1..Len(q), q[k].hole  PROVE \E j \in 1..Len(all) : all[j] = q[k].seq
  <2>1. CASE q[k].seq \in Holes(s)
    <3>1. PICK i \in DOMAIN s : s[i].hole /\ s[i].seq = q[k].seq
      BY <2>1 DEF Holes
    <3>2. i \in 1..Len(rtxQ) /\ rtxQ[i].hole
      BY <3>1 DEF Refilled
    <3>3. s[i].seq = rtxQ[i].seq
      BY <1>0, <3>2, RefilledSeq
    <3>4. PICK j \in 1..n : requests[j] = rtxQ[i].seq
      BY <1>0, <3>2 DEF AskedForOf
    <3>5. j \in 1..Len(all) /\ all[j] = q[k].seq
      BY <1>1, <3>1, <3>3, <3>4
    <3>. QED  BY <3>5
  <2>2. CASE q[k].seq \notin Holes(s)
    <3>1. PICK i \in 1..Len(as) : as[i] = q[k].seq
      BY <1>2, <2>2 DEF Requested, IsNew
    <3>2. n + i \in 1..Len(all) /\ all[n + i] = q[k].seq
      BY <1>1, <3>1
    <3>. QED  BY <3>2
  <2>. QED  BY <2>1, <2>2
<1>3. \A k \in 1..Len(q) : \/ \E i \in 1..Len(w) : w[i] = q[k]
                           \/ o # <<>> /\ o[Len(o)] = q[k]
  <2>1. CASE w = q
    BY <2>1
  <2>2. CASE /\ Len(q) > 0 /\ Len(o) = Len(out) + 1 /\ Len(w) = Len(q) - 1
             /\ o[Len(out) + 1] = q[1] /\ \A i \in 1..Len(out) : o[i] = out[i]
             /\ \A i \in 1..Len(q) - 1 : w[i] = q[i + 1]
    <3>1. ASSUME NEW k \in 1..Len(q), k # 1  PROVE \E i \in 1..Len(w) : w[i] = q[k]
      <4>1. k - 1 \in 1..Len(w) /\ k - 1 \in 1..Len(q) - 1 /\ (k - 1) + 1 = k
        BY <1>0, <2>2, <3>1
      <4>2. w[k - 1] = q[k]
        BY <2>2, <4>1
      <4>. QED  BY <4>1, <4>2
    <3>2. o # <<>> /\ o[Len(o)] = q[1]
      BY <1>0, <2>2
    <3>. QED  BY <3>1, <3>2
  <2>. QED  BY <2>1, <2>2 DEF HeadLeft
<1>4. ASSUME NEW k \in 1..Len(q)
      PROVE  \/ o # <<>> /\ No(q[k]) =< No(o[Len(o)])
             \/ \E i \in 1..Len(w) : No(w[i]) = No(q[k])
  <2>1. CASE \E i \in 1..Len(w) : w[i] = q[k]
    BY <2>1
  <2>2. CASE o # <<>> /\ o[Len(o)] = q[k]
    <3>. DEFINE e == q[k]
    <3>1. e \in Entries(sent)
      BY <1>0
    <3>. HIDE DEF e
    <3>2. No(e) \in Nat
      BY <1>0, <3>1, EntryNo
    <3>3. No(e) =< No(e)
      BY <3>2
    <3>4. o # <<>> /\ o[Len(o)] = e
      BY <2>2 DEF e
    <3>. QED  BY <3>3, <3>4 DEF e
  <2>. QED  BY <1>3, <2>1, <2>2
<1>5. out # <<>> => o # <<>> /\ No(out[Len(out)]) =< No(o[Len(o)]) /\ No(out[Len(out)]) \in Nat
                    /\ No(o[Len(o)]) \in Nat
  <2>1. SUFFICES ASSUME out # <<>>
                 PROVE  o # <<>> /\ No(out[Len(out)]) =< No(o[Len(o)]) /\ No(out[Len(out)]) \in Nat
                        /\ No(o[Len(o)]) \in Nat
    OBVIOUS
  <2>. DEFINE l == out[Len(out)]
              x == o[Len(o)]
  <2>2. o # <<>> /\ (x = l \/ Follows(x, l))
    <3>1. CASE o = out
      BY <2>1, <3>1
    <3>2. CASE Len(q) > 0 /\ Len(o) = Len(out) + 1 /\ o[Len(out) + 1] = q[1]
      <4>1. 1 \in 1..Len(q) /\ o # <<>> /\ x = q[1]
        BY <1>0, <3>2
      <4>. QED  BY <2>1, <4>1 DEF Waiting
    <3>. QED  BY <3>1, <3>2 DEF HeadLeft
  <2>3. l \in Entries(sent) /\ x \in Entries(sent)
    BY <1>0, <2>1, <2>2
  <2>. HIDE DEF l, x
  <2>4. No(l) \in Nat /\ No(x) \in Nat
    BY <1>0, <2>3, EntryNo
  <2>5. No(l) =< No(x)
    BY <2>2, <2>4 DEF Follows
  <2>. QED  BY <2>2, <2>4, <2>5 DEF l, x
<1>6. ASSUME NEW j \in 1..Len(all)
      PROVE  /\ NumberOf(all[j]) < sent
             /\ \/ o # <<>> /\ NumberOf(all[j]) =< No(o[Len(o)])
                \/ \E i \in 1..Len(w) : No(w[i]) = NumberOf(all[j])
  <2>1. CASE j \in 1..n
    <3>. DEFINE m == NumberOf(all[j])
    <3>1. /\ m < sent
          /\ \/ out # <<>> /\ m =< No(out[Len(out)])
             \/ \E i \in 1..Len(rtxQ) : No(rtxQ[i]) = m
      BY <1>0, <1>1, <2>1 DEF AskedForOf
    <3>2. m \in Int
      <4>. DEFINE x == all[j]
      <4>1. x \in 0..SeqSpace - 1
        BY <1>1
      <4>. HIDE DEF x
      <4>2. NumberOf(x) \in Int
        <5>1. x \in Int /\ Seq0 \in Int /\ x - Seq0 \in Int
          BY <4>1, Constants
        <5>. QED  BY <5>1, Constants, ModRange DEF NumberOf
      <4>. QED  BY <4>2 DEF x
    <3>. HIDE DEF m
    <3>3. CASE out # <<>> /\ m =< No(out[Len(out)])
      <4>. DEFINE a == No(out[Len(out)])
                  b == No(o[Len(o)])
      <4>1. o # <<>> /\ m =< a /\ a =< b /\ a \in Nat /\ b \in Nat
        BY <1>5, <3>3
      <4>. HIDE DEF a, b
      <4>2. m =< b
        BY <3>2, <4>1
      <4>. QED  BY <3>1, <4>1, <4>2 DEF b, m
    <3>4. CASE \E i \in 1..Len(rtxQ) : No(rtxQ[i]) = m
      <4>1. PICK i \in 1..Len(s) : No(s[i]) = m
        BY <3>4 DEF Refilled
      <4>2. PICK k \in 1..Len(q) : q[k] = s[i]
        BY DEF Waiting
      <4>3. No(q[k]) = m
        BY <4>1, <4>2
      <4>. QED  BY <1>4, <3>1, <4>3 DEF m
    <3>. QED  BY <3>1, <3>3, <3>4
  <2>2. CASE j \notin 1..n
    <3>1. PICK i \in 1..Len(as) : j = n + i
      BY <1>1, <2>2
    <3>2. all[j] = as[i]
      BY <1>1, <3>1
    <3>3. /\ \E k \in 1..Len(q) : as[i] = q[k].seq
          /\ NumberOf(as[i]) \in Nat /\ NumberOf(as[i]) < sent
      <4>1. IsFresh(q, as[i])
        BY AskedOnce
      <4>. QED  BY <4>1 DEF IsFresh
    <3>4. PICK k \in 1..Len(q) : all[j] = q[k].seq
      BY <3>2, <3>3
    <3>5. NumberOf(all[j]) = No(q[k])
      BY <3>4 DEF No
    <3>. QED  BY <1>4, <3>2, <3>3, <3>5
  <2>. QED  BY <2>1, <2>2
<1>7. \A i \in 1..Len(w) : w[i].hole => \E j \in 1..Len(all) : all[j] = w[i].seq
  <2>1. \A i \in 1..Len(w) : \E k \in 1..Len(q) : w[i] = q[k]
    <3>1. CASE w = q
      BY <3>1
    <3>2. CASE Len(w) = Len(q) - 1 /\ \A i \in 1..Len(q) - 1 : w[i] = q[i + 1]
      <4>1. ASSUME NEW i \in 1..Len(w)  PROVE \E k \in 1..Len(q) : w[i] = q[k]
        <5>1. i \in 1..Len(q) - 1 /\ i + 1 \in 1..Len(q)
          BY <1>0, <3>2
        <5>. QED  BY <3>2, <5>1
      <4>. QED  BY <4>1
    <3>. QED  BY <3>1, <3>2 DEF HeadLeft
  <2>. QED  BY <1>2, <2>1
<1>8. \A i \in 1..Len(o) : o[i].hole => \E j \in 1..Len(all) : all[j] = o[i].seq
  <2>1. ASSUME NEW i \in 1..Len(out), out[i].hole  PROVE \E j \in 1..Len(all) : all[j] = out[i].seq
    <3>1. PICK j \in 1..n : requests[j] = out[i].seq
      BY <1>0, <2>1 DEF AskedForOf
    <3>2. j \in 1..Len(all) /\ all[j] = out[i].seq
      BY <1>1, <3>1
    <3>. QED  BY <3>2
  <2>2. CASE o = out
    BY <2>1, <2>2
  <2>3. CASE Len(q) > 0 /\ Len(o) = Len(out) + 1 /\ o[Len(out) + 1] = q[1]
             /\ \A i \in 1..Len(out) : o[i] = out[i]
    <3>1. ASSUME NEW i \in 1..Len(o), o[i].hole  PROVE \E j \in 1..Len(all) : all[j] = o[i].seq
      <4>1. CASE i \in 1..Len(out)
        <5>1. o[i] = out[i]
          BY <2>3, <4>1
        <5>. QED  BY <2>1, <3>1, <4>1, <5>1
      <4>2. CASE i \notin 1..Len(out)
        <5>1. i = Len(out) + 1 /\ 1 \in 1..Len(q)
          BY <1>0, <2>3, <4>2
        <5>2. o[i] = q[1]
          BY <2>3, <5>1
        <5>. QED  BY <1>2, <3>1, <5>1, <5>2
      <4>. QED  BY <4>1, <4>2
    <3>. QED  BY <3>1
  <2>. QED  BY <2>2, <2>3 DEF HeadLeft
<1>. QED  BY <1>1, <1>6, <1>7, <1>8 DEF AskedForOf, all
-----------------------------------------------------------------------------
(***************************************************************************)
(* The call as a step.                                                     *)
(***************************************************************************)
Given(got) ==
  /\ out' = out \o got
  /\ lastTs' = IF got = <<>> THEN lastTs ELSE <<got[1].ts>>

LEMMA ReturnGives == ASSUME NEW got, Return(got) PROVE Given(got)
  BY DEF Return, Given

Stages(ts, r, g, q, d) ==
  /\ g = rtp_getq(r.rq, CompensatedTs(r.slide, ts))
  /\ q = IF g.ret = <<>> THEN r.rtxQ ELSE FillGaps(rtp_putq(r.rtxQ, g.ret[1]))
  /\ d = rtp_getq_permissive(q, (CompensatedTs(r.slide, ts) - RecvCache) % TsSpace)
  /\ UNCHANGED <<sent, sendQ, net>> /\ userTs' = ts /\ slide' = r.slide
  /\ sock' = IF ts = userTs THEN sock ELSE <<>>
  /\ \/ /\ rq' = g.rest /\ rtxQ' = d.rest
        /\ requests' = requests \o Asked(r.rtxQ, q) /\ Given(d.ret)
     \/ /\ r.rq = <<>> /\ rq' = r.rq /\ rtxQ' = r.rtxQ
        /\ requests' = requests /\ Given(<<>>)

Called(ts, r, g, q, d) ==
  /\ sock'   = IF ts = userTs THEN sock ELSE <<>>
  /\ userTs' = ts
  /\ slide'  = r.slide
  /\ IF synced \/ r.rq # <<>>
     THEN /\ synced'   = TRUE
          /\ rq'       = g.rest
          /\ rtxQ'     = d.rest
          /\ requests' = requests \o Asked(r.rtxQ, q)
          /\ RtcpToNet(Range(Asked(r.rtxQ, q)))
          /\ Return(d.ret)
     ELSE /\ rq' = r.rq /\ rtxQ' = r.rtxQ
          /\ UNCHANGED <<synced, requests, rtcpNet, budget>>
          /\ Return(<<>>)
  /\ UNCHANGED <<sndVars, net>>

LEMMA RecvmStages ==
  ASSUME NEW ts, Recvm(ts)
  PROVE  \E g, q, d : Stages(ts, Read(ts), g, q, d)
<1>1. \E r \in {Read(ts)} :
      \E t \in {CompensatedTs(r.slide, ts)} :
      \E g \in {rtp_getq(r.rq, t)} :
      \E q \in {IF g.ret = <<>> THEN r.rtxQ ELSE FillGaps(rtp_putq(r.rtxQ, g.ret[1]))} :
      \E d \in {rtp_getq_permissive(q, (t - RecvCache) % TsSpace)} : Called(ts, r, g, q, d)
  BY Zenon DEF Recvm, Read, Before, Called
<1>. DEFINE r == Read(ts)
            t == CompensatedTs(r.slide, ts)
            g == rtp_getq(r.rq, t)
            q == IF g.ret = <<>> THEN r.rtxQ ELSE FillGaps(rtp_putq(r.rtxQ, g.ret[1]))
            d == rtp_getq_permissive(q, (t - RecvCache) % TsSpace)
<1>2. Called(ts, r, g, q, d)
  BY <1>1, Zenon
<1>3. Stages(ts, r, g, q, d)
  <2>. HIDE DEF r
  <2>1. /\ g = rtp_getq(r.rq, CompensatedTs(r.slide, ts))
        /\ q = IF g.ret = <<>> THEN r.rtxQ ELSE FillGaps(rtp_putq(r.rtxQ, g.ret[1]))
        /\ d = rtp_getq_permissive(q, (CompensatedTs(r.slide, ts) - RecvCache) % TsSpace)
    OBVIOUS
  <2>. HIDE DEF g, q, d
  <2>2. CASE synced \/ r.rq # <<>>
    BY <1>2, <2>1, <2>2, ReturnGives, Zenon DEF Called, Stages, sndVars
  <2>3. CASE ~(synced \/ r.rq # <<>>)
    BY <1>2, <2>1, <2>3, ReturnGives, Zenon DEF Called, Stages, sndVars
  <2>. QED  BY <2>2, <2>3
<1>. QED  BY <1>3

\* What the call at ts has done: q waited in rtx_recv_queue and as was asked for.
Outcome(ts, r, q, as) ==
  /\ UNCHANGED <<sent, sendQ, net>> /\ userTs' = ts /\ slide' = r.slide
  /\ sock' = IF ts = userTs THEN sock ELSE <<>>
  /\ r \in Buffers(ts) /\ Waiting(r, q) /\ Requested(r.rtxQ, q, as)
  /\ requests' = requests \o as
  /\ out' \in Seq(Entries(sent)) /\ rtxQ' \in Seq(Entries(sent)) /\ HeadLeft(q, out', rtxQ')
  /\ rq' \in Seq(Entries(sent)) /\ Rising(rq') /\ \A i \in 1..Len(rq') : ~rq'[i].hole
  /\ lastTs' = IF out' = <<>> THEN <<>> ELSE <<out'[Len(out')].ts>>
  /\ slide' = <<>> => rq' = <<>> /\ rtxQ' = <<>> /\ out' = <<>>
  /\ \A T \in Int : Timed(r, ts, T) =>
       /\ \A i \in 1..Len(rq') : No(rq'[i]) > T
       /\ out' # <<>> => TsNo(out'[Len(out')]) =< T - RecvCache

LEMMA RecvmOutcome ==
  ASSUME WidthsSuffice, RtxInv, NEW ts \in {userTs, userTs + 1}, ts =< MaxUserTs, Recvm(ts)
  PROVE  \E q, as : Outcome(ts, Read(ts), q, as)
<1>. DEFINE r == Read(ts)
<1>1. PICK g, q, d : Stages(ts, r, g, q, d)
  BY RecvmStages
<1>2. r \in Buffers(ts)
  BY ReadRows
<1>. HIDE DEF r
<1>3. /\ sent \in 0..MaxPackets /\ out \in Seq(Entries(sent))
      /\ lastTs = IF out = <<>> THEN <<>> ELSE <<out[Len(out)].ts>>
  BY DEF RtxInv, InFlight, Queues
<1>4. /\ g = rtp_getq(r.rq, CompensatedTs(r.slide, ts))
      /\ q = IF g.ret = <<>> THEN r.rtxQ ELSE FillGaps(rtp_putq(r.rtxQ, g.ret[1]))
      /\ d = rtp_getq_permissive(q, (CompensatedTs(r.slide, ts) - RecvCache) % TsSpace)
  BY <1>1 DEF Stages
<1>5. Waiting(r, q)
  BY <1>2, <1>4, WaitingRows
<1>6. /\ g.rest \in Seq(Entries(sent)) /\ Rising(g.rest)
      /\ \A i \in 1..Len(g.rest) : ~g.rest[i].hole
      /\ r.slide = <<>> => g.rest = <<>>
      /\ \A T \in Int : Timed(r, ts, T) => \A i \in 1..Len(g.rest) : No(g.rest[i]) > T
  BY <1>2, <1>4, DueRows
<1>7. /\ r.slide = <<>> => out = <<>> /\ q = <<>> /\ r.rtxQ = <<>>
      /\ \A T \in Int : Timed(r, ts, T) /\ out # <<>> => TsNo(out[Len(out)]) =< T - RecvCache
  <2>1. r.slide = <<>> => \A T \in Int : ~Timed(r, ts, T)
    BY DEF Timed
  <2>2. r.slide = <<>> => out = <<>> /\ r.rtxQ = <<>>
    BY <1>2, <2>1, TimeRows
  <2>3. \A T \in Int : Timed(r, ts, T) => LastDue(T - RecvCache)
    BY DEF Timed
  <2>. QED  BY <1>5, <2>2, <2>3 DEF Waiting, LastDue
<1>8. /\ UNCHANGED <<sent, sendQ, net>> /\ userTs' = ts /\ slide' = r.slide
      /\ sock' = IF ts = userTs THEN sock ELSE <<>>
  BY <1>1 DEF Stages
<1>9. CASE /\ rq' = g.rest /\ rtxQ' = d.rest
           /\ requests' = requests \o Asked(r.rtxQ, q) /\ Given(d.ret)
  <2>. DEFINE as == Asked(r.rtxQ, q)
              o == out \o d.ret
  <2>1. Requested(r.rtxQ, q, as)
    <3>1. q \in Seq(Entries(sent)) /\ Rising(q)
      BY <1>3, <1>5, ContiguousRises DEF Waiting
    <3>. QED  BY <1>3, <3>1, AskedRows
  <2>. HIDE DEF as
  <2>2. /\ d.rest \in Seq(Entries(sent)) /\ o \in Seq(Entries(sent))
        /\ HeadLeft(q, o, d.rest)
        /\ \/ d.ret = <<>> /\ d.rest = q
           \/ Len(q) > 0 /\ d.ret = <<q[1]>> /\ d.rest = Tail(q)
        /\ \A T \in Int : Timed(r, ts, T) /\ d.ret # <<>> => TsNo(q[1]) =< T - RecvCache
    <3>1. d = rtp_getq_permissive(q, (CompensatedTs(r.slide, ts) - RecvCache) % TsSpace)
      BY <1>4
    <3>2. Taken(ts, r, q, d)
      BY <1>2, <1>5, <3>1, TakenRows
    <3>. QED  BY <3>2 DEF Taken
  <2>3. /\ out' = o
        /\ lastTs' = IF d.ret = <<>> THEN lastTs ELSE <<d.ret[1].ts>>
    BY <1>9 DEF Given
  <2>4. \/ d.ret = <<>> /\ o = out
        \/ d.ret = <<q[1]>> /\ o # <<>> /\ o[Len(o)] = q[1] /\ Len(q) > 0
    <3>1. CASE d.ret = <<>>
      BY <1>3, <3>1
    <3>2. CASE d.ret = <<q[1]>> /\ Len(q) > 0
      <4>. DEFINE e == q[1]
                  n == Len(out)
      <4>1. e \in Entries(sent) /\ n \in Nat
        BY <1>3, <1>5, <3>2 DEF Waiting
      <4>. HIDE DEF e, n
      <4>2. Len(out \o <<e>>) = n + 1 /\ (out \o <<e>>)[n + 1] = e
        BY <1>3, <4>1, PutAtEnd DEF n
      <4>3. d.ret = <<e>> /\ o = out \o <<e>>
        BY <3>2 DEF e
      <4>. HIDE DEF o
      <4>4. Len(o) = n + 1 /\ o[Len(o)] = e
        BY <4>2, <4>3
      <4>5. o # <<>>
        BY <4>1, <4>4
      <4>. QED  BY <3>2, <4>4, <4>5 DEF e
    <3>. QED  BY <2>2, <3>1, <3>2
  <2>. HIDE DEF o
  <2>5. lastTs' = IF o = <<>> THEN <<>> ELSE <<o[Len(o)].ts>>
    BY <1>3, <2>3, <2>4
  <2>6. r.slide = <<>> => g.rest = <<>> /\ d.rest = <<>> /\ o = <<>>
    BY <1>6, <1>7, <2>2, <2>4
  <2>7. ASSUME NEW T \in Int, Timed(r, ts, T)
        PROVE  /\ \A i \in 1..Len(g.rest) : No(g.rest[i]) > T
               /\ o # <<>> => TsNo(o[Len(o)]) =< T - RecvCache
    <3>1. CASE d.ret = <<>> /\ o = out
      BY <1>6, <1>7, <2>7, <3>1
    <3>2. CASE d.ret = <<q[1]>> /\ o # <<>> /\ o[Len(o)] = q[1]
      <4>1. d.ret # <<>>
        BY <3>2
      <4>2. TsNo(q[1]) =< T - RecvCache
        BY <2>2, <2>7, <4>1
      <4>. QED  BY <1>6, <2>7, <3>2, <4>2
    <3>. QED  BY <2>4, <3>1, <3>2
  <2>8. /\ rq' = g.rest /\ rtxQ' = d.rest /\ requests' = requests \o as
    BY <1>9 DEF as
  <2>9. Outcome(ts, r, q, as)
    BY <1>2, <1>5, <1>6, <1>8, <2>1, <2>2, <2>3, <2>5, <2>6, <2>7, <2>8 DEF Outcome
  <2>. QED  BY <2>9 DEF r
<1>10. CASE /\ r.rq = <<>> /\ rq' = r.rq /\ rtxQ' = r.rtxQ
            /\ requests' = requests /\ Given(<<>>)
  <2>1. g.ret = <<>>
    BY <1>4, <1>10, EmptyGet
  <2>2. q = r.rtxQ
    BY <1>4, <2>1
  <2>3. out \o <<>> = out /\ requests \o <<>> = requests
    BY <1>3 DEF RtxInv, AskedFor, AskedForOf
  <2>4. out' = out /\ lastTs' = lastTs
    BY <1>10, <2>3 DEF Given
  <2>5. Requested(q, q, <<>>)
    <3>1. \A j \in 1..Len(q) : ~IsNew(q, q[j])
      <4>1. DOMAIN q = 1..Len(q)
        BY <1>5 DEF Waiting
      <4>. QED  BY <4>1 DEF IsNew, Holes
    <3>2. <<>> \in Seq(0..SeqSpace - 1) /\ Len(<<>>) = 0 /\ \A i \in 1..0 : FALSE
      OBVIOUS
    <3>. QED  BY <3>1, <3>2 DEF Requested
  <2>6. q \in Seq(Entries(sent)) /\ HeadLeft(q, out, q)
    BY <1>5 DEF Waiting, HeadLeft
  <2>7. <<>> \in Seq(Entries(sent)) /\ Rising(<<>>) /\ Len(<<>>) = 0 /\ \A i \in 1..0 : FALSE
    <3>1. \A i \in 1..0 : FALSE
      OBVIOUS
    <3>2. Len(<<>>) = 0
      OBVIOUS
    <3>. QED  BY <3>1, <3>2 DEF Rising
  <2>8. Outcome(ts, r, q, <<>>)
    BY <1>2, <1>3, <1>5, <1>7, <1>8, <1>10, <2>2, <2>3, <2>4, <2>5, <2>6, <2>7 DEF Outcome
  <2>. QED  BY <2>8 DEF r
<1>. QED  BY <1>1, <1>9, <1>10 DEF Stages

LEMMA RecvmKeepsInv ==
  ASSUME WidthsSuffice, RtxInv, NEW ts \in {userTs, userTs + 1}, ts =< MaxUserTs, Recvm(ts)
  PROVE  RtxInv'
<1>. DEFINE r == Read(ts)
<1>1. PICK q, as : Outcome(ts, r, q, as)
  BY RecvmOutcome
<1>. HIDE DEF r
<1>2. /\ sent' = sent /\ sendQ' = sendQ /\ net' = net /\ userTs' = ts /\ slide' = r.slide
      /\ sock' = IF ts = userTs THEN sock ELSE <<>>
      /\ r \in Buffers(ts) /\ Waiting(r, q) /\ Requested(r.rtxQ, q, as)
      /\ requests' = requests \o as
      /\ out' \in Seq(Entries(sent)) /\ rtxQ' \in Seq(Entries(sent)) /\ HeadLeft(q, out', rtxQ')
  BY <1>1 DEF Outcome
<1>3. InFlight'
  <2>1. InFlight
    BY DEF RtxInv
  <2>4. userTs' \in -1..MaxUserTs
    BY <1>2, <2>1 DEF InFlight
  <2>5. sock' \in Seq(Datagrams(sent))
    BY <1>2, <2>1 DEF InFlight
  <2>. QED  BY <1>2, <2>1, <2>4, <2>5 DEF InFlight
<1>4. Contiguous(rtxQ') /\ OrderedOf(out', rtxQ')
  BY <1>2, StillOrdered
<1>5. Queues'
  <2>1. /\ rq' \in Seq(Entries(sent)) /\ Rising(rq') /\ \A i \in 1..Len(rq') : ~rq'[i].hole
        /\ lastTs' = IF out' = <<>> THEN <<>> ELSE <<out'[Len(out')].ts>>
    BY <1>1 DEF Outcome
  <2>. QED  BY <1>2, <1>4, <2>1 DEF Queues
<1>6. Clocked'
  <2>1. slide' = <<>> => rq' = <<>> /\ rtxQ' = <<>> /\ out' = <<>>
    BY <1>1 DEF Outcome
  <2>2. ASSUME slide' # <<>>
        PROVE  \E x, D, T \in Int : slide' = <<x>> /\ Slides(x, D) /\ TimeOf(D, T)'
    <3>1. PICK T \in Int : Timed(r, ts, T)
      BY <1>2, <2>2, TimeRows
    <3>2. PICK x \in Int, D \in -ts..MaxPackets - 1 :
            r.slide = <<x>> /\ Slides(x, D) /\ T = D + ts - JittComp
      BY <3>1 DEF Timed
    <3>3. ts \in Int /\ D \in Int
      BY <3>2, Constants DEF RtxInv, InFlight
    <3>4. /\ \A i \in 1..Len(rq') : No(rq'[i]) > T
          /\ out' # <<>> => TsNo(out'[Len(out')]) =< T - RecvCache
      BY <1>1, <3>1 DEF Outcome
    <3>5. TimeOf(D, T)'
      BY <1>2, <3>2, <3>4 DEF TimeOf
    <3>. QED  BY <1>2, <3>2, <3>3, <3>5
  <2>. QED  BY <2>1, <2>2 DEF Clocked
<1>7. Ordered'
  BY <1>4 DEF Ordered
<1>8. AskedFor'
  <2>1. r.rtxQ \in Seq(Entries(sent)) /\ Refilled(rtxQ, r.rtxQ)
    BY <1>2 DEF Buffers, BufferOk
  <2>2. AskedForOf(requests \o as, out', rtxQ')
    BY <1>2, <2>1, StillAsked
  <2>. QED  BY <1>2, <2>2 DEF AskedFor, AskedForOf
<1>. QED  BY <1>3, <1>5, <1>6, <1>7, <1>8 DEF RtxInv
-----------------------------------------------------------------------------
(***************************************************************************)
(* The other steps.                                                        *)
(***************************************************************************)
LEMMA EntriesGrow ==
  ASSUME NEW n \in Nat
  PROVE  Entries(n) \subseteq Entries(n + 1) /\ Datagrams(n) \subseteq Datagrams(n + 1)
<1>1. ASSUME NEW x \in Int, NEW w \in Nat \ {0}, NEW b \in Int  PROVE (x - b) % w \in Int
  <2>. DEFINE y == x - b
  <2>1. y \in Int
    OBVIOUS
  <2>. HIDE DEF y
  <2>2. y % w \in Int
    BY <2>1
  <2>. QED  BY <2>2 DEF y
<1>2. ASSUME NEW e \in Entries(n)  PROVE e \in Entries(n + 1)
  <2>1. e.seq \in Int /\ e.ts \in Int
    BY Constants DEF Entries, Entry
  <2>2. No(e) \in Int
    <3>1. Seq0 \in Int
      BY Constants
    <3>. QED  BY <1>1, <2>1, <3>1, Constants DEF No, NumberOf
  <2>3. TsNo(e) \in Int
    <3>1. Ts0 \in Int
      BY Constants
    <3>. QED  BY <1>1, <2>1, <3>1, Constants DEF TsNo
  <2>. QED  BY <2>2, <2>3 DEF Entries
<1>3. ASSUME NEW d \in Datagrams(n)  PROVE d \in Datagrams(n + 1)
  <2>1. d.seq \in Int
    BY Constants DEF Datagrams
  <2>2. No(d) \in Int
    <3>1. Seq0 \in Int
      BY Constants
    <3>. QED  BY <1>1, <2>1, <3>1, Constants DEF No, NumberOf
  <2>. QED  BY <2>2 DEF Datagrams
<1>. QED  BY <1>2, <1>3

\* The datagram of packet k, as it was sent first or again.
LEMMA SentIsDatagram ==
  ASSUME WidthsSuffice, NEW n \in 0..MaxPackets, NEW k \in 0..n - 1, NEW ver \in {0, 2}
  PROVE  [seq |-> Media(k).seq, ts |-> Media(k).ts, ver |-> ver, copy |-> 1] \in Datagrams(n)
<1>. DEFINE d == [seq |-> Media(k).seq, ts |-> Media(k).ts, ver |-> ver, copy |-> 1]
<1>1. k \in Nat /\ k < MaxPackets /\ n \in Nat /\ k < n /\ n =< MaxPackets
  BY Constants
<1>2. SeqOfPkt(k) \in 0..SeqSpace - 1 /\ NumberOf(SeqOfPkt(k)) = k
  <2>1. k + 0 < MaxPackets /\ 0 \in Nat /\ k + 0 = k
    BY <1>1
  <2>2. SeqOfPkt(k + 0) \in 0..SeqSpace - 1 /\ NumberOf(SeqOfPkt(k + 0)) = k + 0
    BY <1>1, <2>1, NumberAfter
  <2>. QED  BY <2>1, <2>2
<1>3. TsOfPkt(k) \in 0..TsSpace - 1 /\ (TsOfPkt(k) - Ts0) % TsSpace = k
  <2>. DEFINE a == Ts0 + k
              b == Ts0
  <2>1. a \in Int /\ b \in Int /\ a - b = k /\ b \in 0..TsSpace - 1
    BY <1>1, Constants
  <2>. HIDE DEF a, b
  <2>2. ((a % TsSpace) - (b % TsSpace)) % TsSpace = k % TsSpace
    BY <2>1, Constants, ModDiff
  <2>3. b % TsSpace = b
    BY <2>1, Constants, ModSmall
  <2>4. k \in 0..TsSpace - 1
    BY <1>1, Constants DEF WidthsSuffice
  <2>5. k % TsSpace = k
    BY <2>4, Constants, ModSmall
  <2>6. a % TsSpace \in 0..TsSpace - 1
    BY <2>1, Constants, ModRange
  <2>. QED  BY <2>2, <2>3, <2>5, <2>6 DEF TsOfPkt, a, b
<1>4. d.seq = SeqOfPkt(k) /\ d.ts = TsOfPkt(k)
  BY DEF Media
<1>5. d \in [seq : 0..SeqSpace - 1, ts : 0..TsSpace - 1, ver : {0, 2}, copy : {1, 2}]
  BY <1>2, <1>3 DEF Media
<1>. HIDE DEF d
<1>. QED  BY <1>1, <1>2, <1>3, <1>4, <1>5 DEF Datagrams, No, TsNo, d

LEMMA NetKeeps ==
  ASSUME NEW n \in Nat, NEW ds \in SUBSET Datagrams(n), net \subseteq Datagrams(n), RtpToNet(ds)
  PROVE  net' \subseteq Datagrams(n)
<1>1. PICK lost \in SUBSET ds, twice \in SUBSET ds :
        net' = net \cup (ds \ lost) \cup {[d EXCEPT !.copy = 2] : d \in twice}
  BY DEF RtpToNet
<1>2. ASSUME NEW d \in Datagrams(n)  PROVE [d EXCEPT !.copy = 2] \in Datagrams(n)
  <2>. DEFINE e == [d EXCEPT !.copy = 2]
  <2>1. d \in [seq : 0..SeqSpace - 1, ts : 0..TsSpace - 1, ver : {0, 2}, copy : {1, 2}]
        /\ No(d) = TsNo(d) /\ No(d) < n
    BY DEF Datagrams
  <2>2. e \in [seq : 0..SeqSpace - 1, ts : 0..TsSpace - 1, ver : {0, 2}, copy : {1, 2}]
        /\ e.seq = d.seq /\ e.ts = d.ts
    BY <2>1
  <2>. HIDE DEF e
  <2>3. e \in Datagrams(n)
    BY <2>1, <2>2 DEF Datagrams, No, TsNo
  <2>. QED  BY <2>3 DEF e
<1>. QED  BY <1>1, <1>2

LEMMA InvAtStart == Init => RtxInv
<1>. SUFFICES ASSUME Init  PROVE RtxInv
  OBVIOUS
<1>1. /\ sent = 0 /\ sendQ = <<>> /\ net = {} /\ sock = <<>> /\ userTs = -1
      /\ slide = <<>> /\ rq = <<>> /\ rtxQ = <<>> /\ lastTs = <<>> /\ rcvPt = MediaPt
      /\ out = <<>> /\ requests = <<>>
  BY DEF Init
<1>2. Len(<<>>) = 0 /\ \A i \in 1..0 : FALSE
  OBVIOUS
<1>3. \A S : <<>> \in Seq(S)
  OBVIOUS
<1>4. sendQ = LastOf(sent, Size(sent))
  <2>1. Size(0) = 0
    BY RtxAssumption DEF RtxAssumption, Size
  <2>2. LastOf(0, 0) = <<>>
    <3>1. LastOf(0, 0) \in Seq({Media(k) : k \in Nat}) /\ Len(LastOf(0, 0)) = 0
      <4>1. 0 \in 0..0 /\ 0 \in Nat
        OBVIOUS
      <4>. QED  BY <4>1, LastOfType
    <3>. QED  BY <3>1
  <2>. QED  BY <1>1, <2>1, <2>2
<1>5. InFlight
  <2>1. 0 \in 0..MaxPackets /\ -1 \in -1..MaxUserTs
    BY Constants
  <2>. QED  BY <1>1, <1>3, <1>4, <2>1 DEF InFlight
<1>6. Queues
  BY <1>1, <1>2, <1>3 DEF Queues, Rising, Contiguous
<1>7. Clocked
  BY <1>1 DEF Clocked
<1>8. Ordered /\ AskedFor
  BY <1>1, <1>2, <1>3 DEF Ordered, OrderedOf, AskedFor, AskedForOf
<1>. QED  BY <1>5, <1>6, <1>7, <1>8 DEF RtxInv

LEMMA SeqGrows ==
  ASSUME NEW S, NEW T, S \subseteq T, NEW q \in Seq(S)  PROVE q \in Seq(T)
  OBVIOUS

LEMMA SendKeepsInv == ASSUME WidthsSuffice, RtxInv, Send PROVE RtxInv'
<1>. DEFINE p == Media(sent)
            d == [seq |-> p.seq, ts |-> p.ts, ver |-> 2, copy |-> 1]
            n == sent + 1
<1>1. /\ sent < MaxPackets /\ sent' = n
      /\ sendQ' = Pruned(rtp_putq(sendQ, p), p.ts)
      /\ RtpToNet({d}) /\ UNCHANGED rcvVars
  BY DEF Send
<1>2. InFlight /\ Queues /\ Clocked /\ Ordered /\ AskedFor
  BY DEF RtxInv
<1>3. sent \in Nat /\ n \in Nat /\ n \in 0..MaxPackets /\ sent \in 0..n - 1
  BY <1>1, <1>2, Constants DEF InFlight
<1>4. Entries(sent) \subseteq Entries(n) /\ Datagrams(sent) \subseteq Datagrams(n)
  BY <1>3, EntriesGrow
<1>5. d \in Datagrams(n)
  BY <1>3, SentIsDatagram
<1>6. sendQ' = LastOf(n, Size(n))
  <2>1. Size(sent) \in 0..sent /\ 2 * Size(sent) < SeqSpace /\ SendCache < TsSpace
    BY <1>1, <1>3, Constants DEF Size, WidthsSuffice
  <2>2. rtp_putq(LastOf(sent, Size(sent)), p) = LastOf(n, Size(sent) + 1)
    BY <1>3, <2>1, NewestLast
  <2>3. Pruned(LastOf(n, Size(sent) + 1), p.ts) = LastOf(n, Size(n))
    BY <1>3, <2>1, OldLeave
  <2>4. sendQ = LastOf(sent, Size(sent))
    BY <1>2 DEF InFlight
  <2>. HIDE DEF p, n
  <2>. QED  BY <1>1, <2>2, <2>3, <2>4
<1>. HIDE DEF d, n
<1>7. InFlight'
  <2>1. net' \subseteq Datagrams(n)
    <3>1. net \subseteq Datagrams(n) /\ {d} \in SUBSET Datagrams(n)
      BY <1>2, <1>4, <1>5 DEF InFlight
    <3>. QED  BY <1>1, <1>3, <3>1, NetKeeps
  <2>2. sock \in Seq(Datagrams(n))
    BY <1>2, <1>4, SeqGrows DEF InFlight
  <2>. QED  BY <1>1, <1>2, <1>3, <1>6, <2>1, <2>2 DEF InFlight, rcvVars
<1>8. Queues'
  <2>1. /\ rq \in Seq(Entries(n)) /\ rtxQ \in Seq(Entries(n)) /\ out \in Seq(Entries(n))
    BY <1>2, <1>4, SeqGrows DEF Queues
  <2>. QED  BY <1>1, <1>2, <2>1 DEF Queues, rcvVars
<1>9. Clocked'
  BY <1>1, <1>2 DEF Clocked, TimeOf, rcvVars
<1>10. Ordered'
  BY <1>1, <1>2 DEF Ordered, rcvVars
<1>11. AskedFor'
  <2>1. \A j \in 1..Len(requests) : NumberOf(requests[j]) < n
    <3>1. ASSUME NEW j \in 1..Len(requests)  PROVE NumberOf(requests[j]) < n
      <4>. DEFINE x == requests[j]
                  y == x - Seq0
                  m == y % SeqSpace
      <4>1. x \in 0..SeqSpace - 1 /\ NumberOf(x) < sent
        <5>1. requests \in Seq(0..SeqSpace - 1) /\ NumberOf(x) < sent
          BY <1>2 DEF AskedFor, AskedForOf
        <5>. DEFINE S == 0..SeqSpace - 1
        <5>2. requests \in Seq(S)
          BY <5>1
        <5>. HIDE DEF S
        <5>3. x \in S
          BY <5>2
        <5>. QED  BY <5>1, <5>3 DEF S
      <4>. HIDE DEF x
      <4>2. y \in Int /\ NumberOf(x) = m
        BY <4>1, Constants DEF NumberOf
      <4>. HIDE DEF y
      <4>3. m \in Int
        BY <4>2, Constants, ModRange
      <4>. HIDE DEF m
      <4>4. NumberOf(x) < n
        BY <1>3, <4>1, <4>2, <4>3 DEF n
      <4>. QED  BY <4>4 DEF x
    <3>. QED  BY <3>1
  <2>. QED  BY <1>1, <1>2, <2>1 DEF AskedFor, AskedForOf, rcvVars
<1>. QED  BY <1>7, <1>8, <1>9, <1>10, <1>11 DEF RtxInv

LEMMA ArriveKeepsInv == ASSUME RtxInv, Arrive PROVE RtxInv'
<1>1. PICK d \in net :
        /\ net' = net \ {d} /\ sock' = Append(sock, d)
        /\ UNCHANGED <<sndVars, userTs, slide, rq, rtxQ, lastTs, rcvPt, out, requests>>
  BY DEF Arrive
<1>2. InFlight'
  <2>1. d \in Datagrams(sent) /\ sock \in Seq(Datagrams(sent))
    BY DEF RtxInv, InFlight
  <2>2. sock' \in Seq(Datagrams(sent))
    BY <1>1, <2>1
  <2>. QED  BY <1>1, <2>2 DEF RtxInv, InFlight, sndVars
<1>3. Queues' /\ Clocked'
  BY <1>1 DEF RtxInv, Queues, Clocked, TimeOf, sndVars
<1>4. Ordered' /\ AskedFor'
  BY <1>1 DEF RtxInv, Ordered, AskedFor, AskedForOf, sndVars
<1>. QED  BY <1>2, <1>3, <1>4 DEF RtxInv

LEMMA AnswerKeepsInv == ASSUME WidthsSuffice, RtxInv, AnswerRequest PROVE RtxInv'
<1>1. PICK s \in rtcpNet :
        /\ RtpToNet({[seq |-> s, ts |-> sendQ[i].ts, ver |-> 0, copy |-> 1] :
                       i \in {j \in DOMAIN sendQ : sendQ[j].seq = s}})
        /\ UNCHANGED <<sndVars, rcvVars>>
  BY DEF AnswerRequest
<1>. DEFINE ds == {[seq |-> s, ts |-> sendQ[i].ts, ver |-> 0, copy |-> 1] :
                     i \in {j \in DOMAIN sendQ : sendQ[j].seq = s}}
            m == Size(sent)
<1>2. InFlight
  BY DEF RtxInv
<1>3. sent \in Nat /\ sent \in 0..MaxPackets /\ m \in 0..sent /\ sendQ = LastOf(sent, m)
  BY <1>2, Constants DEF InFlight, Size
<1>4. ds \subseteq Datagrams(sent)
  <2>1. ASSUME NEW i \in DOMAIN sendQ, sendQ[i].seq = s
        PROVE  [seq |-> s, ts |-> sendQ[i].ts, ver |-> 0, copy |-> 1] \in Datagrams(sent)
    <3>. HIDE DEF m
    <3>1. i \in 1..m /\ sendQ[i] = Media(sent - m + i - 1)
      <4>1. /\ Len(sendQ) = m /\ sendQ \in Seq({Media(k) : k \in Nat})
            /\ \A h \in 1..m : sendQ[h] = Media(sent - m + h - 1)
        BY <1>3, LastOfType
      <4>. QED  BY <2>1, <4>1
    <3>. DEFINE k == sent - m + i - 1
    <3>2. k \in 0..sent - 1
      BY <1>3, <3>1
    <3>. HIDE DEF k
    <3>3. [seq |-> Media(k).seq, ts |-> Media(k).ts, ver |-> 0, copy |-> 1] \in Datagrams(sent)
      BY <1>3, <3>2, SentIsDatagram
    <3>. QED  BY <2>1, <3>1, <3>3 DEF k
  <2>. QED  BY <2>1
<1>5. InFlight'
  <2>1. net' \subseteq Datagrams(sent)
    <3>1. net \subseteq Datagrams(sent) /\ RtpToNet(ds)
      BY <1>1, <1>2 DEF InFlight
    <3>. HIDE DEF ds
    <3>. QED  BY <1>3, <1>4, <3>1, NetKeeps
  <2>. QED  BY <1>1, <1>2, <2>1 DEF InFlight, sndVars, rcvVars
<1>6. Queues' /\ Clocked'
  BY <1>1 DEF RtxInv, Queues, Clocked, TimeOf, sndVars, rcvVars
<1>7. Ordered' /\ AskedFor'
  BY <1>1 DEF RtxInv, Ordered, AskedFor, AskedForOf, sndVars, rcvVars
<1>. QED  BY <1>5, <1>6, <1>7 DEF RtxInv

\* Both timestamps a call may be made with.
LEMMA RecvStep ==
  ASSUME RtxInv, RecvTick \/ RecvAgain
  PROVE  \E ts \in {userTs, userTs + 1} : ts =< MaxUserTs /\ Recvm(ts)
<1>1. userTs \in -1..MaxUserTs /\ MaxUserTs \in Nat
  BY Constants DEF RtxInv, InFlight
<1>2. CASE RecvTick
  BY <1>1, <1>2 DEF RecvTick
<1>3. CASE RecvAgain
  BY <1>1, <1>3 DEF RecvAgain
<1>. QED  BY <1>2, <1>3

LEMMA InvInduction ==
  ASSUME WidthsSuffice, RtxInv, [Next]_vars
  PROVE  RtxInv'
<1>1. CASE Send
  BY <1>1, SendKeepsInv
<1>2. CASE Arrive
  BY <1>2, ArriveKeepsInv
<1>3. CASE AnswerRequest
  BY <1>3, AnswerKeepsInv
<1>4. CASE RecvTick \/ RecvAgain
  <2>1. PICK ts \in {userTs, userTs + 1} : ts =< MaxUserTs /\ Recvm(ts)
    BY <1>4, RecvStep
  <2>. QED  BY <2>1, RecvmKeepsInv
<1>5. CASE UNCHANGED vars
  BY <1>5 DEF vars, sndVars, netVars, rcvVars, RtxInv, InFlight, Queues, Clocked, TimeOf,
              Ordered, AskedFor, AskedForOf
<1>. QED  BY <1>1, <1>2, <1>3, <1>4, <1>5 DEF Next
-----------------------------------------------------------------------------
\* Whatever the network loses, delays, duplicates or reorders, the queues of both
\* sessions stay in the order of the stream, what has come out is behind what
\* waits, and every placeholder was asked for (rtp_session_recvm_with_ts).
THEOREM RtxInvHolds ==
  ASSUME WidthsSuffice
  PROVE  SafeSpec => []RtxInv
<1>1. Init => RtxInv
  BY InvAtStart
<1>2. RtxInv /\ [Next]_vars => RtxInv'
  BY InvInduction
<1>. QED  BY <1>1, <1>2, PTL DEF SafeSpec

\* Between two calls of rtp_session_recvm_with_ts no number is missing from
\* rtx_recv_queue: a gap the walk over it did not see would never be asked for.
THEOREM NoGapIsLeft ==
  ASSUME WidthsSuffice
  PROVE  SafeSpec => []RtxQueueContiguous
<1>1. RtxInv => RtxQueueContiguous
  <2>1. ASSUME RtxInv, NEW i \in 1..Len(rtxQ) - 1
        PROVE  rtxQ[i + 1].seq = Successor(rtxQ[i].seq)
    <3>. DEFINE a == rtxQ[i]
                b == rtxQ[i + 1]
    <3>1. sent \in 0..MaxPackets /\ rtxQ \in Seq(Entries(sent)) /\ Contiguous(rtxQ)
      BY <2>1 DEF RtxInv, InFlight, Queues
    <3>2. i \in 1..Len(rtxQ) /\ i + 1 \in 1..Len(rtxQ) /\ 1 \in 1..Len(rtxQ)
      BY <3>1
    <3>3. a \in Entries(sent) /\ b \in Entries(sent) /\ rtxQ[1] \in Entries(sent)
      BY <3>1, <3>2
    <3>4. No(b) = No(a) + 1
      <4>1. No(a) = No(rtxQ[1]) + i - 1 /\ No(b) = No(rtxQ[1]) + (i + 1) - 1
        BY <3>1, <3>2 DEF Contiguous
      <4>2. No(rtxQ[1]) \in Nat
        BY <3>1, <3>3, EntryNo
      <4>. QED  BY <4>1, <4>2
    <3>. HIDE DEF a, b
    <3>5. /\ No(a) \in Nat /\ No(a) + 1 < MaxPackets
          /\ a.seq = SeqOfPkt(No(a)) /\ b.seq = SeqOfPkt(No(b))
      <4>1. No(a) \in 0..sent - 1 /\ a.seq = SeqOfPkt(No(a))
        BY <3>1, <3>3, EntryNo
      <4>2. No(b) < MaxPackets /\ b.seq = SeqOfPkt(No(b))
        BY <3>1, <3>3, EntryNo
      <4>. QED  BY <3>4, <4>1, <4>2
    <3>6. (SeqOfPkt(No(a)) + 1) % SeqSpace = SeqOfPkt(No(a) + 1)
      BY <3>5, NumberAfter
    <3>7. b.seq = Successor(a.seq)
      BY <3>4, <3>5, <3>6 DEF Successor
    <3>. QED  BY <3>7 DEF a, b
  <2>. QED  BY <2>1 DEF RtxQueueContiguous
<1>. QED  BY <1>1, RtxInvHolds, PTL

\* A retransmission that is read while its placeholder waits takes the
\* placeholder's place (rtp_session_rtp_parse), and the walk that follows puts
\* no other placeholder there, whatever the retry limit is and whether the
\* profile knows it as a payload type.  If it does, as 1 and av_profile do, a
\* placeholder that comes out sets rcv.pt to it, and the property says nothing
\* of the retransmissions that are read before a packet of the stream comes out.
THEOREM RetransmissionCounts ==
  ASSUME WidthsSuffice
  PROVE  SafeSpec => RetransmissionFillsHole
<1>. DEFINE Fills == \A i \in DOMAIN sock, j \in DOMAIN rtxQ :
       (sock' = <<>> /\ sock[i].ver = 0 /\ rcvPt = MediaPt /\ rtxQ[j].hole
          /\ rtxQ[j].seq = sock[i].seq)
       => \A k \in DOMAIN rtxQ' : rtxQ'[k].seq = sock[i].seq => ~rtxQ'[k].hole
<1>1. RtxInv /\ [Next]_vars => [Fills]_vars
  <2>. SUFFICES ASSUME RtxInv, [Next]_vars,
                       NEW i \in DOMAIN sock, NEW j \in DOMAIN rtxQ,
                       sock' = <<>>, sock[i].ver = 0, rcvPt = MediaPt,
                       rtxQ[j].hole, rtxQ[j].seq = sock[i].seq,
                       NEW k \in DOMAIN rtxQ', rtxQ'[k].seq = sock[i].seq, rtxQ'[k].hole
                PROVE  FALSE
    OBVIOUS
  <2>1. sock \in Seq(Datagrams(sent)) /\ sock # <<>> /\ rtxQ \in Seq(Entries(sent))
        /\ i \in 1..Len(sock) /\ j \in 1..Len(rtxQ) /\ sent \in 0..MaxPackets
    BY DEF RtxInv, InFlight, Queues
  <2>2. RecvTick \/ RecvAgain
    <3>1. ~Arrive
      BY <2>1 DEF Arrive
    <3>2. ~Send /\ ~AnswerRequest /\ ~UNCHANGED vars
      BY <2>1 DEF Send, AnswerRequest, vars, rcvVars
    <3>. QED  BY <3>1, <3>2 DEF Next
  <2>3. PICK ts \in {userTs, userTs + 1} : ts =< MaxUserTs /\ Recvm(ts)
    BY <2>2, RecvStep
  <2>. DEFINE r == Read(ts)
              s == r.rtxQ
              d == sock[i]
              e == rtxQ'[k]
  <2>4. PICK q, as : Outcome(ts, r, q, as)
    BY <2>3, RecvmOutcome
  <2>5. ts # userTs
    BY <2>1, <2>4 DEF Outcome
  <2>6. Settled(s, d)
    BY <2>1, <2>5, ReadRows
  <2>. HIDE DEF r, d
  <2>7. /\ Waiting(r, q) /\ HeadLeft(q, out', rtxQ') /\ rtxQ' \in Seq(Entries(sent))
        /\ s \in Seq(Entries(sent)) /\ Refilled(rtxQ, s)
    BY <2>4 DEF Outcome, Buffers, BufferOk
  <2>8. PICK h \in 1..Len(q) : q[h] = e
    <3>1. k \in 1..Len(rtxQ')
      BY <2>7
    <3>2. CASE rtxQ' = q
      BY <3>1, <3>2
    <3>3. CASE Len(rtxQ') = Len(q) - 1 /\ \A x \in 1..Len(q) - 1 : rtxQ'[x] = q[x + 1]
      <4>1. k \in 1..Len(q) - 1 /\ k + 1 \in 1..Len(q)
        BY <2>7, <3>1, <3>3 DEF Waiting
      <4>. QED  BY <3>3, <4>1
    <3>. QED  BY <2>7, <3>2, <3>3 DEF HeadLeft
  <2>9. No(e) = No(d) /\ e.hole
    BY DEF No, d
  <2>10. No(s[j]) = No(d) /\ j \in 1..Len(s)
    <3>1. No(rtxQ[j]) = No(d)
      BY DEF No, d
    <3>. QED  BY <2>1, <2>7, <3>1 DEF Refilled
  <2>. HIDE DEF e, s
  <2>11. CASE \E x \in 1..Len(s) : e = s[x]
    BY <2>6, <2>9, <2>11 DEF Settled
  <2>12. CASE \A x \in 1..Len(s) : No(e) # No(s[x])
    BY <2>9, <2>10, <2>12
  <2>. QED  BY <2>7, <2>8, <2>9, <2>11, <2>12 DEF Waiting, s
<1>2. SafeSpec => []RtxInv
  BY RtxInvHolds
<1>. QED  BY <1>1, <1>2, PTL DEF SafeSpec, RetransmissionFillsHole
-----------------------------------------------------------------------------
(***************************************************************************)
(* The stream implements RtpChannel.                                       *)
(***************************************************************************)
MappedAsked(as) == [i \in DOMAIN as |-> NumberOf(as[i])]
MappedGiven(o) == [i \in DOMAIN o |-> [n |-> NumberOf(o[i].seq), hole |-> o[i].hole]]

LEMMA MappedRows ==
  ASSUME WidthsSuffice, RtxInv
  PROVE  /\ DOMAIN requests = 1..Len(requests) /\ DOMAIN out = 1..Len(out)
         /\ Len(MappedAsked(requests)) = Len(requests) /\ Len(MappedGiven(out)) = Len(out)
<1>1. requests \in Seq(0..SeqSpace - 1) /\ out \in Seq(Entries(sent))
  BY DEF RtxInv, Queues, AskedFor, AskedForOf
<1>. QED  BY <1>1 DEF MappedAsked, MappedGiven

\* The number that comes out, as the channel sees it.
LEMMA GivenMaps ==
  ASSUME WidthsSuffice, RtxInv, NEW r, NEW q, Waiting(r, q), NEW o \in Seq(Entries(sent)), NEW w,
         HeadLeft(q, o, w), o # out, NEW all, AskedForOf(all, o, w)
  PROVE  \E n \in 0..sent - 1, hole \in BOOLEAN :
           /\ MappedGiven(o) = Append(MappedGiven(out), [n |-> n, hole |-> hole])
           /\ \/ \A i \in 1..Len(out) : No(out[i]) < n
              \/ out # <<>> /\ No(out[Len(out)]) = n /\ ~out[Len(out)].hole /\ ~hole
           /\ hole => \E i \in 1..Len(all) : NumberOf(all[i]) = n
<1>. DEFINE e == q[1]
            m == Len(out)
            l == out[m]
<1>1. /\ Len(q) > 0 /\ Len(o) = m + 1 /\ o[m + 1] = e /\ \A i \in 1..m : o[i] = out[i]
      /\ sent \in 0..MaxPackets /\ out \in Seq(Entries(sent)) /\ q \in Seq(Entries(sent))
  BY DEF HeadLeft, RtxInv, InFlight, Queues, Waiting
<1>2. e \in Entries(sent) /\ (out # <<>> => Follows(e, l) /\ l \in Entries(sent) /\ m \in 1..m)
  <2>1. 1 \in 1..Len(q)
    BY <1>1
  <2>. QED  BY <1>1, <2>1 DEF Waiting
<1>. HIDE DEF e
<1>3. No(e) \in 0..sent - 1 /\ e.hole \in BOOLEAN
  BY <1>1, <1>2, EntryNo
<1>4. MappedGiven(o) = Append(MappedGiven(out), [n |-> No(e), hole |-> e.hole])
  <2>. DEFINE F(x) == [n |-> NumberOf(x.seq), hole |-> x.hole]
  <2>1. m \in Nat /\ DOMAIN out = 1..m /\ DOMAIN o = 1..m + 1
    BY <1>1
  <2>2. F(e) = [n |-> No(e), hole |-> e.hole]
    BY DEF No
  <2>3. MappedGiven(o) = [i \in 1..m + 1 |-> F(o[i])] /\ MappedGiven(out) = [i \in 1..m |-> F(out[i])]
    BY <2>1 DEF MappedGiven
  <2>. HIDE DEF F, m
  <2>4. Append([i \in 1..m |-> F(out[i])], F(e)) = [i \in 1..m + 1 |-> F(o[i])]
    <3>1. \A i \in 1..m + 1 : i \in 1..m \/ i = m + 1
      BY <2>1
    <3>2. Len([i \in 1..m |-> F(out[i])]) = m
      BY <2>1
    <3>3. Append([i \in 1..m |-> F(out[i])], F(e))
            = [i \in 1..m + 1 |-> IF i = m + 1 THEN F(e) ELSE F(out[i])]
      BY <2>1, <3>2
    <3>. QED  BY <1>1, <3>1, <3>3
  <2>. QED  BY <2>2, <2>3, <2>4
<1>5. \/ \A i \in 1..m : No(out[i]) < No(e)
      \/ out # <<>> /\ No(l) = No(e) /\ ~l.hole /\ ~e.hole
  <2>1. CASE out = <<>>
    BY <2>1
  <2>2. CASE out # <<>> /\ No(e) > No(l)
    <3>1. ASSUME NEW i \in 1..m  PROVE No(out[i]) < No(e)
      <4>. DEFINE x == out[i]
      <4>1. x \in Entries(sent) /\ l \in Entries(sent) /\ (x = l \/ Follows(l, x))
        <5>1. i = m \/ i < m
          BY <1>1
        <5>2. i < m => Follows(l, x)
          BY <1>1, <1>2, <2>2 DEF RtxInv, Ordered, OrderedOf
        <5>3. x \in Entries(sent) /\ l \in Entries(sent)
          BY <1>1, <1>2, <2>2
        <5>. QED  BY <5>1, <5>2, <5>3
      <4>2. No(e) > No(l)
        BY <2>2
      <4>. HIDE DEF x, l
      <4>3. No(x) \in Nat /\ No(l) \in Nat
        BY <1>1, <4>1, EntryNo
      <4>4. No(x) < No(e)
        BY <1>3, <4>1, <4>2, <4>3 DEF Follows
      <4>. QED  BY <4>4 DEF x
    <3>. QED  BY <3>1
  <2>3. CASE out # <<>> /\ ~(No(e) > No(l))
    BY <1>2, <2>3 DEF Follows
  <2>. QED  BY <2>1, <2>2, <2>3
<1>6. e.hole => \E i \in 1..Len(all) : NumberOf(all[i]) = No(e)
  <2>1. m + 1 \in 1..Len(o)
    BY <1>1
  <2>. QED  BY <1>1, <2>1 DEF AskedForOf, No
<1>. HIDE DEF l
<1>. QED  BY <1>3, <1>4, <1>5, <1>6 DEF l

\* What is asked for in a call, as the channel sees it.
LEMMA AskedMaps ==
  ASSUME WidthsSuffice, RtxInv, NEW r, r.rtxQ \in Seq(Entries(sent)), Refilled(rtxQ, r.rtxQ),
         NEW q, Waiting(r, q), NEW as, Requested(r.rtxQ, q, as)
  PROVE  LET a == MappedAsked(requests)
             b == MappedAsked(requests \o as)
         IN  /\ Len(b) = Len(a) + Len(as) /\ Len(a) = Len(requests) /\ Len(as) \in Nat /\ Len(a) \in Nat
             /\ SubSeq(b, 1, Len(a)) = a
             /\ SubSeq(b, Len(a) + 1, Len(b)) = MappedAsked(as)
<1>. DEFINE n == Len(requests)
            k == Len(as)
            all == requests \o as
            S == 0..SeqSpace - 1
            a == MappedAsked(requests)
            b == MappedAsked(all)
            c == MappedAsked(as)
<1>1. requests \in Seq(S) /\ as \in Seq(S)
  BY DEF RtxInv, AskedFor, AskedForOf, Requested
<1>. HIDE DEF S
<1>2. /\ n \in Nat /\ k \in Nat /\ Len(all) = n + k /\ DOMAIN all = 1..n + k
      /\ DOMAIN requests = 1..n /\ DOMAIN as = 1..k
  <2>1. IsJoined(S, requests, as, all)
    BY <1>1, Joined
  <2>. HIDE DEF all
  <2>. QED  BY <2>1 DEF IsJoined
<1>3. /\ \A i \in 1..n : all[i] = requests[i]
      /\ \A i \in 1..k : all[n + i] = as[i]
  <2>1. IsJoined(S, requests, as, all)
    BY <1>1, Joined
  <2>. HIDE DEF all
  <2>. QED  BY <2>1 DEF IsJoined
<1>. HIDE DEF n, k, all
<1>4. /\ a = [i \in 1..n |-> NumberOf(requests[i])]
      /\ b = [i \in 1..n + k |-> NumberOf(all[i])]
      /\ c = [i \in 1..k |-> NumberOf(as[i])]
  BY <1>2 DEF MappedAsked
<1>. HIDE DEF a, b, c
<1>5. Len(a) = n /\ Len(b) = n + k
  BY <1>2, <1>4
<1>6. SubSeq(b, 1, n) = a
  <2>1. SubSeq(b, 1, n) = [i \in 1..n |-> b[i]]
    BY <1>2, <1>4, <1>5
  <2>. QED  BY <1>2, <1>3, <1>4, <2>1
<1>7. SubSeq(b, n + 1, n + k) = c
  <2>1. SubSeq(b, n + 1, n + k) = [i \in 1..k |-> b[n + i]]
    BY <1>2, <1>4, <1>5
  <2>2. \A i \in 1..k : n + i \in 1..n + k
    BY <1>2
  <2>3. \A i \in 1..k : b[n + i] = NumberOf(as[i])
    BY <1>3, <1>4, <2>2
  <2>. QED  BY <1>4, <2>1, <2>3
<1>. QED  BY <1>2, <1>5, <1>6, <1>7 DEF a, b, c, n, k, all

LEMMA FreshMaps ==
  ASSUME WidthsSuffice, RtxInv, NEW r, r.rtxQ \in Seq(Entries(sent)), Refilled(rtxQ, r.rtxQ),
         NEW q, Waiting(r, q), NEW as, Requested(r.rtxQ, q, as)
  PROVE  Channel!Fresh(MappedAsked(as))
<1>1. DOMAIN as = 1..Len(as) /\ DOMAIN out = 1..Len(out) /\ DOMAIN requests = 1..Len(requests)
  <2>. DEFINE S == 0..SeqSpace - 1
  <2>1. as \in Seq(S)
    BY DEF Requested
  <2>. HIDE DEF S
  <2>2. DOMAIN as = 1..Len(as)
    BY <2>1, LenProperties, Zenon
  <2>3. DOMAIN out = 1..Len(out) /\ DOMAIN requests = 1..Len(requests)
    BY MappedRows
  <2>. QED  BY <2>2, <2>3
<1>2. DOMAIN MappedAsked(as) = 1..Len(as) /\ \A i \in 1..Len(as) : MappedAsked(as)[i] = NumberOf(as[i])
  BY <1>1 DEF MappedAsked
<1>3. ASSUME NEW i \in 1..Len(as)
      PROVE  /\ NumberOf(as[i]) < sent /\ \A k \in 1..Len(out) : No(out[k]) < NumberOf(as[i])
             /\ \A k \in 1..Len(requests) : NumberOf(requests[k]) # NumberOf(as[i])
  <2>1. IsFresh(q, as[i])
    BY AskedOnce
  <2>. QED  BY <2>1 DEF IsFresh
<1>4. \A i, k \in 1..Len(as) : i < k => NumberOf(as[i]) < NumberOf(as[k])
  BY DEF Requested
<1>. QED  BY <1>1, <1>2, <1>3, <1>4 DEF Channel!Fresh, Channel!Ahead, No

LEMMA RecvmIsReceive ==
  ASSUME WidthsSuffice, RtxInv, NEW ts \in {userTs, userTs + 1}, ts =< MaxUserTs, Recvm(ts)
  PROVE  Channel!Receive
<1>. DEFINE r == Read(ts)
<1>1. PICK q, as : Outcome(ts, r, q, as)
  BY RecvmOutcome
<1>. HIDE DEF r
<1>2. /\ sent' = sent /\ r \in Buffers(ts) /\ Waiting(r, q) /\ Requested(r.rtxQ, q, as)
      /\ requests' = requests \o as
      /\ out' \in Seq(Entries(sent)) /\ rtxQ' \in Seq(Entries(sent)) /\ HeadLeft(q, out', rtxQ')
  BY <1>1 DEF Outcome
<1>3. r.rtxQ \in Seq(Entries(sent)) /\ Refilled(rtxQ, r.rtxQ)
  BY <1>2 DEF Buffers, BufferOk
<1>. DEFINE a == MappedAsked(requests)
            b == MappedAsked(requests')
            g == MappedGiven(out)
            h == MappedGiven(out')
<1>4. /\ Len(b) = Len(a) + Len(as) /\ Len(as) \in Nat /\ Len(a) \in Nat
      /\ SubSeq(b, 1, Len(a)) = a
      /\ SubSeq(b, Len(a) + 1, Len(b)) = MappedAsked(as)
  BY <1>2, <1>3, AskedMaps
<1>5. Channel!Fresh(SubSeq(b, Len(a) + 1, Len(b)))
  <2>1. Channel!Fresh(MappedAsked(as))
    BY <1>2, <1>3, FreshMaps
  <2>. QED  BY <1>4, <2>1
<1>6. AskedForOf(requests', out', rtxQ')
  BY <1>2, <1>3, StillAsked
<1>7. \/ h = g
      \/ \E n \in 0..sent - 1, hole \in BOOLEAN :
           /\ h = Append(g, [n |-> n, hole |-> hole])
           /\ \/ \A i \in 1..Len(out) : No(out[i]) < n
              \/ out # <<>> /\ No(out[Len(out)]) = n /\ ~out[Len(out)].hole /\ ~hole
           /\ hole => \E i \in 1..Len(requests') : NumberOf(requests'[i]) = n
  <2>1. CASE out' = out
    BY <2>1
  <2>2. CASE out' # out
    BY <1>2, <1>6, <2>2, GivenMaps
  <2>. QED  BY <2>1, <2>2
<1>8. /\ DOMAIN out = 1..Len(out) /\ Len(g) = Len(out) /\ DOMAIN g = 1..Len(out)
      /\ DOMAIN requests' = 1..Len(requests') /\ DOMAIN b = 1..Len(requests')
      /\ \A i \in 1..Len(out) : g[i].n = No(out[i])
      /\ \A i \in 1..Len(out) : g[i] = [n |-> No(out[i]), hole |-> out[i].hole]
      /\ \A i \in 1..Len(requests') : b[i] = NumberOf(requests'[i])
  <2>1. requests' \in Seq(0..SeqSpace - 1)
    BY <1>6 DEF AskedForOf
  <2>2. DOMAIN requests' = 1..Len(requests')
    BY <2>1
  <2>. QED  BY <2>2, MappedRows DEF MappedGiven, MappedAsked, No
<1>9. out # <<>> => Len(out) \in 1..Len(out) /\ g # <<>>
  BY MappedRows DEF RtxInv, Queues
<1>10. \/ h = g
       \/ \E n \in 0..sent - 1, hole \in BOOLEAN :
            /\ h = Append(g, [n |-> n, hole |-> hole])
            /\ Channel!Ahead(n) \/ (Channel!Repeated(n) /\ ~hole)
            /\ hole => \E i \in DOMAIN b : b[i] = n
  <2>1. ASSUME NEW n, \A i \in 1..Len(out) : No(out[i]) < n  PROVE Channel!Ahead(n)
    BY <1>8, <2>1 DEF Channel!Ahead, No
  <2>2. ASSUME NEW n, out # <<>>, No(out[Len(out)]) = n, ~out[Len(out)].hole  PROVE Channel!Repeated(n)
    <3>1. out[Len(out)].hole = FALSE
      <4>1. out[Len(out)] \in Entries(sent)
        BY <1>9, <2>2 DEF RtxInv, Queues
      <4>. QED  BY <2>2, <4>1 DEF Entries, Entry
    <3>2. g # <<>> /\ g[Len(g)] = [n |-> n, hole |-> FALSE]
      <4>. HIDE DEF g
      <4>. QED  BY <1>8, <1>9, <2>2, <3>1
    <3>. QED  BY <3>2 DEF Channel!Repeated, MappedGiven
  <2>3. CASE h = g
    BY <2>3
  <2>4. ASSUME NEW n \in 0..sent - 1, NEW hole \in BOOLEAN,
               h = Append(g, [n |-> n, hole |-> hole]),
               \/ \A i \in 1..Len(out) : No(out[i]) < n
               \/ out # <<>> /\ No(out[Len(out)]) = n /\ ~out[Len(out)].hole /\ ~hole,
               hole => \E i \in 1..Len(requests') : NumberOf(requests'[i]) = n
        PROVE  /\ Channel!Ahead(n) \/ (Channel!Repeated(n) /\ ~hole)
               /\ hole => \E i \in DOMAIN b : b[i] = n
    <3>1. Channel!Ahead(n) \/ (Channel!Repeated(n) /\ ~hole)
      BY <2>1, <2>2, <2>4
    <3>2. hole => \E i \in DOMAIN b : b[i] = n
      <4>. HIDE DEF b
      <4>. QED  BY <1>8, <2>4
    <3>. QED  BY <3>1, <3>2
  <2>. HIDE DEF a, b, g, h
  <2>. QED  BY <1>7, <2>3, <2>4, Zenon
<1>11. Len(a) \in Len(a)..Len(b)
  <2>1. Len(b) = Len(a) + Len(as) /\ Len(as) \in Nat /\ Len(a) \in Nat
    BY <1>4
  <2>. DEFINE la == Len(a)
              lb == Len(b)
              k == Len(as)
  <2>2. lb = la + k /\ k \in Nat /\ la \in Nat
    BY <2>1
  <2>. HIDE DEF la, lb, k
  <2>3. la \in la..lb
    BY <2>2
  <2>. QED  BY <2>3 DEF la, lb
<1>. QED  BY <1>2, <1>4, <1>5, <1>10, <1>11 DEF Channel!Receive, MappedAsked, MappedGiven

\* What the receiving application sees is the stream of RtpChannel, whatever the
\* network does: numbers are asked for once and before anything of their age
\* came out of rtp_session_recvm_with_ts, what comes out does not go back, and
\* a placeholder comes out only for a number that was asked for.
THEOREM ImplementsTheChannel ==
  ASSUME WidthsSuffice
  PROVE  SafeSpec => ImplementsChannel
<1>1. Init => Channel!ChannelInit
  BY DEF Init, Channel!ChannelInit
<1>2. RtxInv /\ [Next]_vars => [Channel!Produce \/ Channel!Receive]_Channel!channelVars
  <2>1. CASE Send
    BY <2>1 DEF Send, rcvVars, Channel!Produce
  <2>2. CASE Arrive
    BY <2>2 DEF Arrive, sndVars, Channel!channelVars
  <2>3. CASE AnswerRequest
    BY <2>3 DEF AnswerRequest, sndVars, rcvVars, Channel!channelVars
  <2>4. ASSUME RtxInv, RecvTick \/ RecvAgain  PROVE Channel!Receive
    BY <2>4, RecvStep, RecvmIsReceive
  <2>5. CASE UNCHANGED vars
    BY <2>5 DEF vars, sndVars, rcvVars, Channel!channelVars
  <2>. QED  BY <2>1, <2>2, <2>3, <2>4, <2>5 DEF Next
<1>3. SafeSpec => []RtxInv
  BY RtxInvHolds
<1>. QED  BY <1>1, <1>2, <1>3, PTL DEF SafeSpec, ImplementsChannel, Channel!ChannelSpec
-----------------------------------------------------------------------------
(***************************************************************************)
(* The turns of the walk (RtxWalk).  Off counts the numbers from FirstSeq; *)
(* a queue the walk starts from climbs and spans less than half of them.   *)
(***************************************************************************)
OffOf(s) == (s - FirstSeq) % SeqSpace
Off(e) == OffOf(e.seq)

WalkEntry == {e \in [seq : 0..SeqSpace - 1, ts : 0..TsSpace - 1, hole : BOOLEAN] :
                Off(e) =< MaxSpan}

Climbs(q) == \A i, j \in 1..Len(q) : i < j => Off(q[i]) < Off(q[j])

LEMMA OffPlace ==
  ASSUME WalkAssumption, NEW s \in 0..SeqSpace - 1
  PROVE  OffOf(s) \in 0..SeqSpace - 1 /\ (FirstSeq + OffOf(s)) % SeqSpace = s
<1>1. SeqSpace \in Nat \ {0} /\ FirstSeq \in Int
  BY SpaceAssumption DEF WalkAssumption, SpaceAssumption
<1>. QED  BY <1>1, ModPlace DEF OffOf

LEMMA OffOrder ==
  ASSUME WalkAssumption, NEW s1 \in 0..SeqSpace - 1, NEW s2 \in 0..SeqSpace - 1,
         OffOf(s1) =< MaxSpan, OffOf(s2) =< MaxSpan
  PROVE  /\ SeqIsGreater(s1, s2) <=> OffOf(s1) >= OffOf(s2)
         /\ s1 = s2 <=> OffOf(s1) = OffOf(s2)
         /\ OffOf(s1) >= OffOf(s2) => (s1 - s2) % SeqSpace = OffOf(s1) - OffOf(s2)
<1>. DEFINE a == OffOf(s1)
            b == OffOf(s2)
<1>0. SeqSpace \in Nat \ {0} /\ SeqSpace % 2 = 0 /\ FirstSeq \in Int /\ MaxSpan \in Nat
      /\ 2 * MaxSpan < SeqSpace
  <2>1. SeqSpace \in Nat \ {0} /\ SeqSpace % 2 = 0
    BY SpaceAssumption DEF SpaceAssumption
  <2>. QED  BY <2>1 DEF WalkAssumption
<1>1. a \in 0..MaxSpan /\ (FirstSeq + a) % SeqSpace = s1
  BY OffPlace, <1>0
<1>2. b \in 0..MaxSpan /\ (FirstSeq + b) % SeqSpace = s2
  BY OffPlace, <1>0
<1>3. (((FirstSeq + a) % SeqSpace) - s2) % SeqSpace = (a - b) % SeqSpace
  <2>1. a \in Int
    BY <1>1
  <2>2. (((FirstSeq + a) % SeqSpace) - s2) % SeqSpace
          = (a - ((s2 - FirstSeq) % SeqSpace)) % SeqSpace
    <3>. HIDE DEF a
    <3>. QED  BY <1>0, <2>1, ModPlace
  <2>. QED  BY <2>2 DEF OffOf
<1>. HIDE DEF a, b
<1>4. (s1 - s2) % SeqSpace = (a - b) % SeqSpace
  BY <1>1, <1>3
<1>5. (a - b) % SeqSpace < SeqSpace \div 2 <=> a - b >= 0
  <2>1. a - b \in Int /\ 2 * (a - b) < SeqSpace /\ 2 * (-(a - b)) =< SeqSpace
    BY <1>0, <1>1, <1>2
  <2>. QED  BY <1>0, <2>1, ModHalf
<1>6. a >= b => (a - b) % SeqSpace = a - b
  BY <1>0, <1>1, <1>2, ModSmall
<1>7. SeqIsGreater(s1, s2) <=> a >= b
  BY <1>1, <1>2, <1>4, <1>5 DEF SeqIsGreater
<1>. QED  BY <1>1, <1>2, <1>4, <1>6, <1>7 DEF a, b

\* The number k after s.
LEMMA OffAfter ==
  ASSUME WalkAssumption, NEW s \in 0..SeqSpace - 1, NEW k \in Nat, OffOf(s) + k =< MaxSpan
  PROVE  (s + k) % SeqSpace \in 0..SeqSpace - 1 /\ OffOf((s + k) % SeqSpace) = OffOf(s) + k
<1>0. SeqSpace \in Nat \ {0} /\ FirstSeq \in 0..SeqSpace - 1 /\ MaxSpan < SeqSpace
      /\ MaxSpan \in Nat
  <2>1. SeqSpace \in Nat \ {0}
    BY SpaceAssumption DEF SpaceAssumption
  <2>. QED  BY <2>1 DEF WalkAssumption
<1>. DEFINE a == OffOf(s)
            c == (s - FirstSeq) \div SeqSpace
<1>1. a \in 0..SeqSpace - 1 /\ c \in Int /\ s - FirstSeq = SeqSpace * c + a
  <2>1. s - FirstSeq \in Int
    BY <1>0
  <2>. QED  BY <1>0, <2>1, ModRange DEF OffOf
<1>2. a + k =< MaxSpan
  OBVIOUS
<1>. HIDE DEF a, c
<1>3. (s + k) - FirstSeq = SeqSpace * c + (a + k) /\ a + k \in 0..SeqSpace - 1
  BY <1>0, <1>1, <1>2
<1>4. ((s + k) - FirstSeq) % SeqSpace = a + k
  BY <1>0, <1>1, <1>3, ModUnique
<1>5. (((s + k) % SeqSpace) - (FirstSeq % SeqSpace)) % SeqSpace = ((s + k) - FirstSeq) % SeqSpace
  <2>1. s + k \in Int /\ FirstSeq \in Int
    BY <1>0
  <2>. QED  BY <1>0, <2>1, ModDiff
<1>6. FirstSeq % SeqSpace = FirstSeq
  BY <1>0, ModSmall
<1>7. (s + k) % SeqSpace \in 0..SeqSpace - 1
  <2>1. s + k \in Int
    OBVIOUS
  <2>. QED  BY <1>0, <2>1, ModRange
<1>. QED  BY <1>4, <1>5, <1>6, <1>7 DEF OffOf, a

\* What Off says of entries.
LEMMA WalkEntries ==
  ASSUME WalkAssumption, NEW d \in WalkEntry, NEW e \in WalkEntry
  PROVE  /\ d.seq \in 0..SeqSpace - 1 /\ d.ts \in 0..TsSpace - 1 /\ d.hole \in BOOLEAN
         /\ Off(d) \in 0..MaxSpan
         /\ SeqIsGreater(d.seq, e.seq) <=> Off(d) >= Off(e)
         /\ d.seq = e.seq <=> Off(d) = Off(e)
         /\ Off(d) >= Off(e) => (d.seq - e.seq) % SeqSpace = Off(d) - Off(e)
<1>1. /\ d.seq \in 0..SeqSpace - 1 /\ d.ts \in 0..TsSpace - 1 /\ d.hole \in BOOLEAN
      /\ e.seq \in 0..SeqSpace - 1 /\ OffOf(d.seq) =< MaxSpan /\ OffOf(e.seq) =< MaxSpan
  BY DEF WalkEntry, Off
<1>2. OffOf(d.seq) \in 0..SeqSpace - 1
  BY <1>1, OffPlace
<1>3. MaxSpan \in Nat
  BY SpaceAssumption DEF WalkAssumption, SpaceAssumption
<1>. QED  BY <1>1, <1>2, <1>3, OffOrder DEF Off

\* Climbing offsets are at least as far apart as their positions.
LEMMA ClimbSteps ==
  ASSUME WalkAssumption, NEW q \in Seq(WalkEntry), Climbs(q),
         NEW i \in 1..Len(q), NEW n \in Nat, i + n \in 1..Len(q)
  PROVE  Off(q[i + n]) >= Off(q[i]) + n
<1>. DEFINE S == {m \in Nat : i + m \in 1..Len(q) => Off(q[i + m]) >= Off(q[i]) + m}
<1>1. \A l \in 1..Len(q) : Off(q[l]) \in Int
  <2>1. ASSUME NEW l \in 1..Len(q)  PROVE Off(q[l]) \in Int
    <3>1. q[l] \in WalkEntry
      OBVIOUS
    <3>. HIDE DEF WalkEntry
    <3>2. Off(q[l]) \in 0..MaxSpan
      BY <3>1, WalkEntries
    <3>. QED  BY <3>2
  <2>. QED  BY <2>1
<1>2. 0 \in S
  BY <1>1
<1>3. ASSUME NEW m \in Nat, m \in S  PROVE m + 1 \in S
  <2>1. SUFFICES ASSUME i + (m + 1) \in 1..Len(q)  PROVE Off(q[i + (m + 1)]) >= Off(q[i]) + (m + 1)
    OBVIOUS
  <2>2. i + m \in 1..Len(q) /\ i + m < i + (m + 1)
    BY <2>1
  <2>3. Off(q[i + m]) >= Off(q[i]) + m
    BY <1>3, <2>2
  <2>4. Off(q[i + m]) < Off(q[i + (m + 1)])
    BY <2>1, <2>2 DEF Climbs
  <2>. QED  BY <1>1, <2>1, <2>2, <2>3, <2>4
<1>. HIDE DEF S
<1>4. n \in S
  BY <1>2, <1>3, AllNumbers
<1>. QED  BY <1>4 DEF S
\* The queues the walk starts from.
LEMMA StartsClimb ==
  ASSUME WalkAssumption, NEW q \in StartQueues
  PROVE  q \in Seq(WalkEntry) /\ Climbs(q)
<1>. DEFINE m == MaxSpan + 1
            B == [seq : 0..SeqSpace - 1, ts : 0..TsSpace - 1, hole : BOOLEAN]
            X == SUBSET Seq(B)
            entry(n, hole) == [seq |-> (FirstSeq + n - 1) % SeqSpace,
                               ts |-> (FirstSeq + n - 1) % TsSpace, hole |-> hole]
            With(Q, n) == Q \cup {Append(s, entry(n, hole)) : s \in Q, hole \in BOOLEAN}
            Body(f) == [n \in 0..m |-> IF n = 0 THEN {<<>>} ELSE With(f[n - 1], n)]
            h == CHOOSE f : f = Body(f)
<1>0. /\ SeqSpace \in Nat \ {0} /\ TsSpace \in Nat \ {0} /\ FirstSeq \in 0..SeqSpace - 1
      /\ MaxSpan \in Nat /\ m \in Nat /\ m < SeqSpace
  <2>1. SeqSpace \in Nat \ {0} /\ TsSpace \in Nat \ {0} /\ SeqSpace % 2 = 0
    BY SpaceAssumption DEF SpaceAssumption
  <2>. QED  BY <2>1 DEF WalkAssumption
<1>1. q \in h[m]
  BY DEF StartQueues
<1>2. ASSUME NEW n \in 1..m, NEW hole \in BOOLEAN
      PROVE  /\ entry(n, hole) \in B
             /\ Off(entry(n, hole)) = n - 1
  <2>1. FirstSeq + n - 1 = FirstSeq + (n - 1) /\ n - 1 \in 0..MaxSpan /\ FirstSeq + n - 1 \in Int
    BY <1>0
  <2>2. (FirstSeq + n - 1) % SeqSpace \in 0..SeqSpace - 1
        /\ (FirstSeq + n - 1) % TsSpace \in 0..TsSpace - 1
    BY <1>0, <2>1, ModRange
  <2>3. OffOf(FirstSeq) = 0
    <3>1. FirstSeq - FirstSeq = 0 /\ 0 % SeqSpace = 0
      BY <1>0, ModSmall
    <3>. QED  BY <3>1 DEF OffOf
  <2>4. OffOf((FirstSeq + (n - 1)) % SeqSpace) = n - 1
    <3>1. n - 1 \in Nat /\ OffOf(FirstSeq) + (n - 1) =< MaxSpan
      BY <2>1, <2>3
    <3>2. OffOf((FirstSeq + (n - 1)) % SeqSpace) = OffOf(FirstSeq) + (n - 1)
      BY <1>0, <3>1, OffAfter
    <3>. QED  BY <2>1, <2>3, <3>2
  <2>. QED  BY <2>1, <2>2, <2>4 DEF Off
<1>3. h = Body(h)
  <2>. DEFINE G == [z \in X \X (1..m) |-> With(z[1], z[2])]
  <2>1. G \in [X \X (1..m) -> X]
    <3>1. ASSUME NEW Q \in X, NEW n \in 1..m  PROVE With(Q, n) \in X
      <4>1. \A hole \in BOOLEAN : entry(n, hole) \in B
        BY <1>2
      <4>. HIDE DEF entry, B
      <4>2. ASSUME NEW s \in Q, NEW hole \in BOOLEAN
            PROVE  Append(s, entry(n, hole)) \in Seq(B)
        <5>1. s \in Seq(B)
          OBVIOUS
        <5>. QED  BY <4>1, <5>1
      <4>. QED  BY <4>2
    <3>2. \A z \in X \X (1..m) : z[1] \in X /\ z[2] \in 1..m
      OBVIOUS
    <3>. HIDE DEF X, With
    <3>. QED  BY <3>1, <3>2
  <2>2. m \in Nat /\ {<<>>} \in X
    BY <1>0
  <2>3. \E f \in [0..m -> X] : Unfolds(f, {<<>>}, m, G)
    <3>. HIDE DEF m, X, G
    <3>. QED  BY <2>1, <2>2, FunctionExists
  <2>4. PICK f \in [0..m -> X] : Unfolds(f, {<<>>}, m, G)
    <3>. HIDE DEF m, X, G
    <3>. QED  BY <2>3
  <2>5. f[0] = {<<>>} /\ \A n \in 1..m : f[n] = With(f[n - 1], n)
    <3>1. ASSUME NEW n \in 1..m  PROVE f[n] = With(f[n - 1], n)
      <4>1. n - 1 \in 0..m
        BY <1>0
      <4>2. f[n - 1] \in X
        <5>. HIDE DEF X, m
        <5>. QED  BY <4>1
      <4>3. f[n] = G[<<f[n - 1], n>>]
        <5>. HIDE DEF X, m, G
        <5>. QED  BY <2>4 DEF Unfolds
      <4>4. G[<<f[n - 1], n>>] = With(f[n - 1], n)
        <5>. HIDE DEF X, With, m
        <5>. QED  BY <4>2
      <4>. HIDE DEF G, With
      <4>. QED  BY <4>3, <4>4
    <3>2. f[0] = {<<>>}
      <4>. HIDE DEF X, m, G
      <4>. QED  BY <2>4 DEF Unfolds
    <3>. HIDE DEF With
    <3>. QED  BY <3>1, <3>2
  <2>6. f = Body(f)
    <3>1. \A n \in 0..m : n = 0 \/ n \in 1..m
      BY <1>0
    <3>2. f = [n \in 0..m |-> f[n]]
      <4>. HIDE DEF X, m
      <4>. QED  OBVIOUS
    <3>. HIDE DEF X, m, With
    <3>. QED  BY <2>5, <3>1, <3>2
  <2>. HIDE DEF Body
  <2>. QED  BY <2>6, Zenon
<1>4. h[0] = {<<>>} /\ \A n \in 1..m : h[n] = With(h[n - 1], n)
  <2>1. 0 \in 0..m /\ \A n \in 1..m : n \in 0..m /\ n # 0
    BY <1>0
  <2>. HIDE DEF h, m, With
  <2>. QED  BY <1>3, <2>1
<1>. HIDE DEF h, entry, Body
<1>. DEFINE Good(s, n) == /\ s \in Seq(WalkEntry) /\ Climbs(s)
                          /\ \A i \in 1..Len(s) : Off(s[i]) < n
            S == {n \in Nat : n =< m => \A s \in h[n] : Good(s, n)}
<1>5. 0 \in S
  <2>1. Good(<<>>, 0)
    BY DEF Climbs
  <2>. QED  BY <1>4, <2>1
<1>6. ASSUME NEW n \in Nat, n \in S  PROVE n + 1 \in S
  <2>1. SUFFICES ASSUME n + 1 =< m, NEW s \in h[n + 1]  PROVE Good(s, n + 1)
    OBVIOUS
  <2>2. n + 1 \in 1..m /\ (n + 1) - 1 = n /\ n =< m
    BY <1>0, <2>1
  <2>3. s \in With(h[n], n + 1)
    BY <1>4, <2>1, <2>2
  <2>4. CASE s \in h[n]
    <3>1. Good(s, n)
      BY <1>6, <2>2, <2>4
    <3>2. \A i \in 1..Len(s) : Off(s[i]) < n + 1
      <4>1. ASSUME NEW i \in 1..Len(s)  PROVE Off(s[i]) < n + 1
        <5>1. s[i] \in WalkEntry /\ Off(s[i]) < n
          BY <3>1
        <5>2. Off(s[i]) \in 0..MaxSpan
          BY <5>1, WalkEntries
        <5>. QED  BY <5>1, <5>2
      <4>. QED  BY <4>1
    <3>. QED  BY <3>1, <3>2
  <2>5. CASE s \notin h[n]
    <3>1. PICK r \in h[n], hole \in BOOLEAN : s = Append(r, entry(n + 1, hole))
      BY <2>3, <2>5
    <3>. DEFINE e == entry(n + 1, hole)
    <3>2. Good(r, n)
      BY <1>6, <2>2
    <3>3. e \in WalkEntry /\ Off(e) = n
      BY <1>0, <1>2, <2>2 DEF WalkEntry
    <3>4. s = Append(r, e)
      BY <3>1
    <3>. HIDE DEF e
    <3>5. /\ s \in Seq(WalkEntry) /\ Len(s) = Len(r) + 1 /\ s[Len(r) + 1] = e
          /\ \A i \in 1..Len(r) : s[i] = r[i]
      BY <3>2, <3>3, <3>4
    <3>6. \A i \in 1..Len(s) : i \in 1..Len(r) \/ i = Len(r) + 1
      BY <3>2, <3>5
    <3>7. ASSUME NEW i \in 1..Len(s)  PROVE Off(s[i]) < n + 1
      <4>1. CASE i \in 1..Len(r)
        <5>1. r[i] \in WalkEntry /\ Off(r[i]) < n /\ s[i] = r[i]
          BY <3>2, <3>5, <4>1
        <5>2. Off(r[i]) \in 0..MaxSpan
          BY <5>1, WalkEntries
        <5>. QED  BY <5>1, <5>2
      <4>. QED  BY <3>3, <3>5, <3>6, <4>1
    <3>8. ASSUME NEW i \in 1..Len(s), NEW j \in 1..Len(s), i < j  PROVE Off(s[i]) < Off(s[j])
      <4>1. Len(r) \in Nat
        BY <3>2
      <4>2. i \in 1..Len(r)
        BY <3>6, <3>8, <4>1
      <4>3. CASE j \in 1..Len(r)
        BY <3>2, <3>5, <3>8, <4>2, <4>3 DEF Climbs
      <4>4. CASE j = Len(r) + 1
        BY <3>2, <3>3, <3>5, <4>2, <4>4
      <4>. QED  BY <3>6, <4>3, <4>4
    <3>. QED  BY <3>5, <3>7, <3>8 DEF Climbs
  <2>. QED  BY <2>4, <2>5
<1>7. m \in S
  <2>. HIDE DEF S, m
  <2>. QED  BY <1>0, <1>5, <1>6, AllNumbers
<1>. QED  BY <1>1, <1>7

\* What FillGaps makes of a queue that climbs.
LEMMA FillIs ==
  ASSUME WalkAssumption, NEW q \in Seq(WalkEntry), Climbs(q), Len(q) > 0
  PROVE  LET a == Off(q[1])
             z == Off(q[Len(q)])
             r == FillGaps(q)
         IN  /\ a \in Nat /\ z \in a..MaxSpan /\ Len(r) = z - a + 1
             /\ r = [n \in 1..z - a + 1 |-> r[n]]
             /\ \A i \in 1..Len(q) : Off(q[i]) \in a..z /\ r[Off(q[i]) - a + 1] = q[i]
             /\ \A n \in 1..z - a + 1 : Off(r[n]) = a + n - 1 /\ r[n].seq \in 0..SeqSpace - 1
             /\ \A l \in 2..Len(q), n \in 1..z - a + 1 :
                  Off(q[l - 1]) < a + n - 1 /\ Off(q[l]) > a + n - 1 =>
                    r[n] = Placeholder(NumberAt(q, n - 1), q[l].ts)
<1>. DEFINE a == Off(q[1])
            z == Off(q[Len(q)])
            r == FillGaps(q)
            Row(k) == IF EntriesAt(q, k) # {} THEN q[Min(EntriesAt(q, k))]
                      ELSE Placeholder(NumberAt(q, k), GapTs(q, k))
<1>0. Len(q) \in Nat \ {0} /\ 1 \in 1..Len(q) /\ Len(q) \in 1..Len(q) /\ MaxSpan \in Nat
  BY SpaceAssumption DEF WalkAssumption, SpaceAssumption
<1>1. \A i \in 1..Len(q) : q[i] \in WalkEntry /\ q[i].seq \in 0..SeqSpace - 1
                           /\ Off(q[i]) \in 0..MaxSpan
  <2>1. ASSUME NEW i \in 1..Len(q)
        PROVE  q[i] \in WalkEntry /\ q[i].seq \in 0..SeqSpace - 1 /\ Off(q[i]) \in 0..MaxSpan
    <3>1. q[i] \in WalkEntry
      OBVIOUS
    <3>. QED  BY <3>1, WalkEntries
  <2>. QED  BY <2>1
<1>2. a \in Nat /\ z \in a..MaxSpan /\ \A i \in 1..Len(q) : Off(q[i]) \in a..z
  <2>1. ASSUME NEW i \in 1..Len(q)  PROVE a =< Off(q[i]) /\ Off(q[i]) =< z
    <3>1. i > 1 => a < Off(q[i])
      BY <1>0 DEF Climbs
    <3>2. i < Len(q) => Off(q[i]) < z
      BY <1>0 DEF Climbs
    <3>3. (i = 1 \/ i > 1) /\ (i = Len(q) \/ i < Len(q)) /\ Off(q[i]) \in Int
      BY <1>1
    <3>. QED  BY <1>0, <1>1, <3>1, <3>2, <3>3
  <2>2. \A i \in 1..Len(q) : Off(q[i]) \in Int
    BY <1>1
  <2>. QED  BY <1>0, <1>1, <2>1, <2>2
<1>3. r = [n \in 1..(z - a) + 1 |-> Row(n - 1)]
  <2>1. q # <<>> /\ Last(q) = q[Len(q)]
    BY <1>0 DEF Last
  <2>2. (q[Len(q)].seq - q[1].seq) % SeqSpace = z - a
    <3>1. q[Len(q)] \in WalkEntry /\ q[1] \in WalkEntry /\ z >= a
      BY <1>0, <1>1, <1>2
    <3>. QED  BY <3>1, WalkEntries
  <2>. QED  BY <2>1, <2>2 DEF FillGaps
<1>4. ASSUME NEW k \in 0..z - a
      PROVE  NumberAt(q, k) \in 0..SeqSpace - 1 /\ OffOf(NumberAt(q, k)) = a + k
  <2>. DEFINE s == q[1].seq
  <2>1. s \in 0..SeqSpace - 1 /\ OffOf(s) = a /\ k \in Nat /\ a + k =< MaxSpan
    <3>1. s \in 0..SeqSpace - 1 /\ OffOf(s) = a
      BY <1>0, <1>1 DEF Off
    <3>. HIDE DEF a, z
    <3>. QED  BY <1>0, <1>2, <3>1
  <2>2. NumberAt(q, k) = (s + k) % SeqSpace
    BY DEF NumberAt
  <2>. HIDE DEF s, a
  <2>. QED  BY <2>1, <2>2, OffAfter
<1>5. ASSUME NEW k \in 0..z - a
      PROVE  EntriesAt(q, k) = {i \in 1..Len(q) : Off(q[i]) = a + k}
  <2>1. ASSUME NEW i \in 1..Len(q)  PROVE q[i].seq = NumberAt(q, k) <=> Off(q[i]) = a + k
    <3>. DEFINE s1 == q[i].seq
                s2 == NumberAt(q, k)
    <3>1. /\ s1 \in 0..SeqSpace - 1 /\ OffOf(s1) =< MaxSpan /\ OffOf(s1) = Off(q[i])
          /\ s2 \in 0..SeqSpace - 1 /\ OffOf(s2) =< MaxSpan /\ OffOf(s2) = a + k
      <4>1. OffOf(s1) = Off(q[i])
        BY DEF Off
      <4>2. a + k =< MaxSpan
        <5>. HIDE DEF a, z
        <5>. QED  BY <1>0, <1>2
      <4>. QED  BY <1>1, <1>4, <4>1, <4>2
    <3>. HIDE DEF s1, s2, a
    <3>2. s1 = s2 <=> Off(q[i]) = a + k
      BY <3>1, OffOrder
    <3>. QED  BY <3>2 DEF s1, s2
  <2>. QED  BY <2>1 DEF EntriesAt
<1>6. ASSUME NEW k \in 0..z - a, NEW i \in 1..Len(q), Off(q[i]) = a + k
      PROVE  Row(k) = q[i]
  <2>. DEFINE S == EntriesAt(q, k)
              m == Min(S)
  <2>1. i \in S /\ S \in SUBSET Nat
    BY <1>5, <1>6
  <2>2. m \in S
    <3>. HIDE DEF S
    <3>. QED  BY <2>1, LeastOf
  <2>3. m \in 1..Len(q) /\ Off(q[m]) = Off(q[i])
    <3>. HIDE DEF m
    <3>. QED  BY <1>5, <1>6, <2>2
  <2>. HIDE DEF m
  <2>4. m = i
    BY <1>1, <2>3 DEF Climbs
  <2>. QED  BY <2>1, <2>4 DEF m
<1>7. ASSUME NEW k \in 0..z - a, \A i \in 1..Len(q) : Off(q[i]) # a + k
      PROVE  Row(k) = Placeholder(NumberAt(q, k), GapTs(q, k))
  <2>1. EntriesAt(q, k) = {}
    BY <1>5, <1>7
  <2>. QED  BY <2>1
<1>8. ASSUME NEW k \in 0..z - a, NEW l \in 2..Len(q), Off(q[l - 1]) < a + k, Off(q[l]) > a + k
      PROVE  Row(k) = Placeholder(NumberAt(q, k), q[l].ts)
  <2>. DEFINE S == {i \in DOMAIN q : (q[i].seq - q[1].seq) % SeqSpace > k}
  <2>1. ASSUME NEW i \in 1..Len(q)
        PROVE  /\ (q[i].seq - q[1].seq) % SeqSpace = Off(q[i]) - a
               /\ i < l => Off(q[i]) < a + k
               /\ i >= l => Off(q[i]) > a + k
    <3>1. q[i] \in WalkEntry /\ q[1] \in WalkEntry /\ Off(q[i]) >= Off(q[1])
      BY <1>0, <1>1, <1>2
    <3>2. (q[i].seq - q[1].seq) % SeqSpace = Off(q[i]) - a
      BY <3>1, WalkEntries
    <3>3. l \in 1..Len(q) /\ l - 1 \in 1..Len(q)
      OBVIOUS
    <3>4. /\ i < l => i = l - 1 \/ Off(q[i]) < Off(q[l - 1])
          /\ i >= l => i = l \/ Off(q[l]) < Off(q[i])
      BY <3>3 DEF Climbs
    <3>5. Off(q[i]) \in Int /\ Off(q[l]) \in Int /\ Off(q[l - 1]) \in Int /\ a \in Int
      BY <1>1, <1>2, <3>3
    <3>. HIDE DEF a, z
    <3>. QED  BY <1>8, <3>2, <3>4, <3>5
  <2>2. S = {i \in 1..Len(q) : i >= l}
    <3>1. ASSUME NEW i \in 1..Len(q)  PROVE (q[i].seq - q[1].seq) % SeqSpace > k <=> i >= l
      <4>1. Off(q[i]) \in Int /\ a \in Int /\ k \in Int
        BY <1>1, <1>2
      <4>. HIDE DEF a, z
      <4>. QED  BY <2>1, <4>1
    <3>. QED  BY <3>1
  <2>3. Min(S) = l
    <3>1. S = l..Len(q)
      BY <2>2
    <3>2. l \in Nat /\ Len(q) \in Nat /\ l =< Len(q)
      OBVIOUS
    <3>. HIDE DEF S
    <3>. QED  BY <3>1, <3>2, MinOfInterval
  <2>4. GapTs(q, k) = q[l].ts
    BY <2>3 DEF GapTs
  <2>5. \A i \in 1..Len(q) : Off(q[i]) # a + k
    <3>1. ASSUME NEW i \in 1..Len(q)  PROVE Off(q[i]) # a + k
      <4>1. Off(q[i]) \in Int /\ a \in Int /\ k \in Int /\ (i < l \/ i >= l)
        BY <1>1, <1>2
      <4>. HIDE DEF a, z
      <4>. QED  BY <2>1, <4>1
    <3>. QED  BY <3>1
  <2>. QED  BY <1>7, <2>4, <2>5
<1>. HIDE DEF Row, r
<1>9. Len(r) = z - a + 1 /\ r = [n \in 1..z - a + 1 |-> r[n]]
      /\ \A n \in 1..z - a + 1 : r[n] = Row(n - 1) /\ n - 1 \in 0..z - a
  <2>. HIDE DEF a, z
  <2>. QED  BY <1>2, <1>3
<1>10. ASSUME NEW i \in 1..Len(q)  PROVE r[Off(q[i]) - a + 1] = q[i]
  <2>. DEFINE k == Off(q[i]) - a
  <2>1. k \in 0..z - a /\ Off(q[i]) = a + k /\ k + 1 \in 1..z - a + 1 /\ (k + 1) - 1 = k
    <3>1. Off(q[i]) \in a..z
      BY <1>2
    <3>. HIDE DEF a, z
    <3>. QED  BY <1>0, <1>2, <3>1
  <2>. HIDE DEF k, a, z
  <2>2. r[k + 1] = Row(k)
    BY <1>9, <2>1
  <2>. QED  BY <1>6, <2>1, <2>2 DEF k
<1>11. ASSUME NEW n \in 1..z - a + 1
       PROVE  Off(r[n]) = a + n - 1 /\ r[n].seq \in 0..SeqSpace - 1
  <2>. DEFINE k == n - 1
  <2>1. k \in 0..z - a /\ r[n] = Row(k) /\ a + k = a + n - 1
    <3>. HIDE DEF a, z
    <3>. QED  BY <1>2, <1>9
  <2>. HIDE DEF k
  <2>2. CASE \E i \in 1..Len(q) : Off(q[i]) = a + k
    BY <1>1, <1>6, <2>1, <2>2
  <2>3. CASE \A i \in 1..Len(q) : Off(q[i]) # a + k
    <3>1. Row(k).seq = NumberAt(q, k)
      BY <1>7, <2>1, <2>3 DEF Placeholder
    <3>. QED  BY <1>4, <2>1, <3>1 DEF Off
  <2>. QED  BY <2>2, <2>3
<1>12. ASSUME NEW l \in 2..Len(q), NEW n \in 1..z - a + 1,
              Off(q[l - 1]) < a + n - 1, Off(q[l]) > a + n - 1
       PROVE  r[n] = Placeholder(NumberAt(q, n - 1), q[l].ts)
  <2>. DEFINE k == n - 1
  <2>1. k \in 0..z - a /\ r[n] = Row(k) /\ a + k = a + n - 1
    <3>. HIDE DEF a, z
    <3>. QED  BY <1>2, <1>9
  <2>. HIDE DEF k
  <2>2. Row(k) = Placeholder(NumberAt(q, k), q[l].ts)
    BY <1>8, <1>12, <2>1
  <2>. QED  BY <2>1, <2>2 DEF k
<1>. QED  BY <1>2, <1>9, <1>10, <1>11, <1>12 DEF r
\* The requests for the first i entries of after, as Asked counts them.
RequestsFor(before, after) ==
  CHOOSE f : f = [i \in 0..Len(after) |-> IF i = 0 THEN <<>>
                    ELSE IF after[i].hole /\ after[i].seq \notin Holes(before)
                    THEN Append(f[i - 1], after[i].seq) ELSE f[i - 1]]

LEMMA RequestsStep ==
  ASSUME NEW before, NEW after, Len(after) \in Nat,
         \A i \in 1..Len(after) : after[i].seq \in 0..SeqSpace - 1
  PROVE  /\ Asked(before, after) = RequestsFor(before, after)[Len(after)]
         /\ RequestsFor(before, after)[0] = <<>>
         /\ \A i \in 1..Len(after) :
              RequestsFor(before, after)[i] =
                IF after[i].hole /\ after[i].seq \notin Holes(before)
                THEN Append(RequestsFor(before, after)[i - 1], after[i].seq)
                ELSE RequestsFor(before, after)[i - 1]
<1>. DEFINE m == Len(after)
            X == Seq(0..SeqSpace - 1)
            With(s, i) == IF after[i].hole /\ after[i].seq \notin Holes(before)
                          THEN Append(s, after[i].seq) ELSE s
            Body(f) == [i \in 0..m |-> IF i = 0 THEN <<>> ELSE With(f[i - 1], i)]
            h == CHOOSE f : f = Body(f)
<1>1. RequestsFor(before, after) = h /\ Asked(before, after) = h[m]
  BY DEF Asked, RequestsFor
<1>2. h = Body(h)
  <2>. DEFINE G == [z \in X \X (1..m) |-> With(z[1], z[2])]
  <2>1. G \in [X \X (1..m) -> X]
    <3>1. ASSUME NEW s \in X, NEW i \in 1..m  PROVE With(s, i) \in X
      <4>. DEFINE x == after[i].seq
      <4>1. x \in 0..SeqSpace - 1
        OBVIOUS
      <4>. HIDE DEF x
      <4>2. Append(s, x) \in X
        BY <4>1
      <4>. QED  BY <4>2 DEF x
    <3>2. \A z \in X \X (1..m) : z[1] \in X /\ z[2] \in 1..m
      OBVIOUS
    <3>. HIDE DEF X, With
    <3>. QED  BY <3>1, <3>2
  <2>2. m \in Nat /\ <<>> \in X
    OBVIOUS
  <2>3. \E f \in [0..m -> X] : Unfolds(f, <<>>, m, G)
    <3>. HIDE DEF m, X, G
    <3>. QED  BY <2>1, <2>2, FunctionExists
  <2>4. PICK f \in [0..m -> X] : Unfolds(f, <<>>, m, G)
    <3>. HIDE DEF m, X, G
    <3>. QED  BY <2>3
  <2>5. f[0] = <<>> /\ \A i \in 1..m : f[i] = With(f[i - 1], i)
    <3>1. ASSUME NEW i \in 1..m  PROVE f[i] = With(f[i - 1], i)
      <4>1. i - 1 \in 0..m
        BY <2>2
      <4>2. f[i - 1] \in X
        <5>. HIDE DEF X, m
        <5>. QED  BY <4>1
      <4>3. f[i] = G[<<f[i - 1], i>>]
        <5>. HIDE DEF X, m, G
        <5>. QED  BY <2>4 DEF Unfolds
      <4>4. G[<<f[i - 1], i>>] = With(f[i - 1], i)
        <5>. HIDE DEF X, With, m
        <5>. QED  BY <4>2
      <4>. HIDE DEF G, With
      <4>. QED  BY <4>3, <4>4
    <3>2. f[0] = <<>>
      <4>. HIDE DEF X, m, G
      <4>. QED  BY <2>4 DEF Unfolds
    <3>. HIDE DEF With
    <3>. QED  BY <3>1, <3>2
  <2>6. f = Body(f)
    <3>1. \A i \in 0..m : i = 0 \/ i \in 1..m
      BY <2>2
    <3>2. f = [i \in 0..m |-> f[i]]
      <4>. HIDE DEF X, m
      <4>. QED  OBVIOUS
    <3>. HIDE DEF X, m, With
    <3>. QED  BY <2>5, <3>1, <3>2
  <2>. HIDE DEF Body
  <2>. QED  BY <2>6, Zenon
<1>3. h[0] = <<>> /\ \A i \in 1..m : h[i] = With(h[i - 1], i)
  <2>1. 0 \in 0..m /\ \A i \in 1..m : i \in 0..m /\ i # 0
    OBVIOUS
  <2>. HIDE DEF h, m, With
  <2>. QED  BY <1>2, <2>1
<1>. HIDE DEF h
<1>. QED  BY <1>1, <1>3

(***************************************************************************)
(* The cursor is at the end of what is already as FillGaps leaves it, and  *)
(* behind it follow, untouched, the entries of the first queue from k + 1. *)
(***************************************************************************)
Ahead(k) ==
  /\ curr \in 1..Len(FillGaps(queue0)) /\ queue \in Seq(WalkEntry)
  /\ Len(queue) = curr + Len(queue0) - k
  /\ \A i \in 1..curr : queue[i] = FillGaps(queue0)[i]
  /\ \A j \in 1..Len(queue0) - k : queue[curr + j] = queue0[k + j]
  /\ \A i \in 1..k : Off(queue0[i]) < Off(queue0[1]) + curr
  /\ \A i \in k + 1..Len(queue0) : Off(queue0[i]) >= Off(queue0[1]) + curr
  /\ asked = RequestsFor(queue0, FillGaps(queue0))[curr]

WalkInv ==
  /\ queue0 \in Seq(WalkEntry) /\ Climbs(queue0)
  /\ Len(queue0) = 0 => queue = queue0 /\ curr = 1 /\ asked = <<>>
  /\ Len(queue0) > 0 => \E k \in 1..Len(queue0) : Ahead(k)

LEMMA WalkStarts == ASSUME WalkAssumption, WalkInit  PROVE WalkInv
<1>. DEFINE r == FillGaps(queue0)
            h == RequestsFor(queue0, r)
            a == Off(queue0[1])
            z == Off(queue0[Len(queue0)])
<1>1. queue0 \in Seq(WalkEntry) /\ Climbs(queue0)
  BY StartsClimb DEF WalkInit
<1>2. queue = queue0 /\ curr = 1 /\ asked = <<>>
  BY DEF WalkInit
<1>3. ASSUME Len(queue0) > 0  PROVE Ahead(1)
  <2>0. Len(queue0) \in Nat /\ 1 \in 1..Len(queue0) /\ MaxSpan \in Nat
    BY <1>1, <1>3, SpaceAssumption DEF WalkAssumption, SpaceAssumption
  <2>1. /\ a \in Nat /\ z \in a..MaxSpan /\ Len(r) = z - a + 1
        /\ \A i \in 1..Len(queue0) : Off(queue0[i]) \in a..z
                                     /\ r[Off(queue0[i]) - a + 1] = queue0[i]
        /\ \A n \in 1..z - a + 1 : r[n].seq \in 0..SeqSpace - 1
    BY <1>1, <1>3, FillIs
  <2>. HIDE DEF r
  <2>2. a \in Nat /\ z \in Nat /\ a =< z /\ 1 \in 1..Len(r) /\ Len(r) \in Nat
    <3>. HIDE DEF a, z
    <3>. QED  BY <2>0, <2>1
  <2>3. r[1] = queue0[1]
    <3>1. a - a + 1 = 1
      <4>. HIDE DEF a
      <4>. QED  BY <2>2
    <3>2. r[Off(queue0[1]) - a + 1] = queue0[1]
      <4>. HIDE DEF a, z
      <4>. QED  BY <2>0, <2>1
    <3>. QED  BY <3>1, <3>2
  <2>4. /\ h[0] = <<>>
        /\ h[1] = IF r[1].hole /\ r[1].seq \notin Holes(queue0)
                  THEN Append(h[0], r[1].seq) ELSE h[0]
    <3>1. \A i \in 1..Len(r) : r[i].seq \in 0..SeqSpace - 1
      BY <2>1
    <3>2. /\ h[0] = <<>>
          /\ \A i \in 1..Len(r) : h[i] = IF r[i].hole /\ r[i].seq \notin Holes(queue0)
                                         THEN Append(h[i - 1], r[i].seq) ELSE h[i - 1]
      BY <2>2, <3>1, RequestsStep
    <3>. HIDE DEF h
    <3>3. h[1] = IF r[1].hole /\ r[1].seq \notin Holes(queue0)
                 THEN Append(h[1 - 1], r[1].seq) ELSE h[1 - 1]
      BY <2>2, <3>2
    <3>4. 1 - 1 = 0
      OBVIOUS
    <3>. QED  BY <3>2, <3>3, <3>4
  <2>5. h[1] = <<>>
    <3>1. r[1].hole => r[1].seq \in Holes(queue0)
      BY <2>0, <2>3 DEF Holes
    <3>. QED  BY <2>4, <3>1
  <2>6. \A i \in 2..Len(queue0) : Off(queue0[i]) >= a + 1
    <3>1. ASSUME NEW i \in 2..Len(queue0)  PROVE Off(queue0[i]) >= a + 1
      <4>1. a < Off(queue0[i])
        BY <1>1, <2>0 DEF Climbs
      <4>2. Off(queue0[i]) \in a..z
        BY <2>0, <2>1
      <4>. HIDE DEF a, z
      <4>. QED  BY <2>2, <4>1, <4>2
    <3>. QED  BY <3>1
  <2>7. a < a + 1
    <3>. HIDE DEF a
    <3>. QED  BY <2>2
  <2>8. /\ \A i \in 1..curr : queue[i] = r[i]
        /\ \A i \in 1..1 : Off(queue0[i]) < a + curr
        /\ \A i \in 1 + 1..Len(queue0) : Off(queue0[i]) >= a + curr
    BY <1>2, <2>3, <2>6, <2>7
  <2>9. Len(queue) = curr + Len(queue0) - 1
        /\ \A j \in 1..Len(queue0) - 1 : queue[curr + j] = queue0[1 + j]
    BY <1>2, <2>0
  <2>10. asked = h[curr] /\ curr \in 1..Len(r) /\ queue \in Seq(WalkEntry)
    BY <1>1, <1>2, <2>2, <2>5
  <2>. HIDE DEF a
  <2>. QED  BY <2>8, <2>9, <2>10 DEF Ahead, r, h, a
<1>4. Len(queue0) > 0 => 1 \in 1..Len(queue0)
  BY <1>1
<1>. QED  BY <1>1, <1>2, <1>3, <1>4 DEF WalkInv

\* A turn of the walk.
LEMMA WalkStep == ASSUME WalkAssumption, WalkInv, Walk  PROVE WalkInv'
<1>. DEFINE r == FillGaps(queue0)
            h == RequestsFor(queue0, r)
            a == Off(queue0[1])
            z == Off(queue0[Len(queue0)])
            missing == NextSeq(queue[curr].seq)
<1>1. /\ curr < Len(queue) /\ curr' = curr + 1 /\ queue0' = queue0
      /\ IF missing # queue[curr + 1].seq
         THEN /\ queue' = rtp_putq(queue, Placeholder(missing, queue[curr + 1].ts))
              /\ asked' = Append(asked, missing)
         ELSE UNCHANGED <<queue, asked>>
  BY DEF Walk
<1>2. queue0 \in Seq(WalkEntry) /\ Climbs(queue0) /\ Len(queue0) > 0
  BY <1>1 DEF WalkInv
<1>3. PICK k \in 1..Len(queue0) : Ahead(k)
  BY <1>2 DEF WalkInv
<1>4. /\ curr \in 1..Len(r) /\ queue \in Seq(WalkEntry)
      /\ Len(queue) = curr + Len(queue0) - k
      /\ \A i \in 1..curr : queue[i] = r[i]
      /\ \A j \in 1..Len(queue0) - k : queue[curr + j] = queue0[k + j]
      /\ \A i \in 1..k : Off(queue0[i]) < a + curr
      /\ \A i \in k + 1..Len(queue0) : Off(queue0[i]) >= a + curr
      /\ asked = h[curr]
  BY <1>3 DEF Ahead
<1>5. /\ a \in Nat /\ z \in a..MaxSpan /\ Len(r) = z - a + 1
      /\ \A i \in 1..Len(queue0) : Off(queue0[i]) \in a..z
                                   /\ r[Off(queue0[i]) - a + 1] = queue0[i]
      /\ \A n \in 1..z - a + 1 : Off(r[n]) = a + n - 1 /\ r[n].seq \in 0..SeqSpace - 1
      /\ \A l \in 2..Len(queue0), n \in 1..z - a + 1 :
           Off(queue0[l - 1]) < a + n - 1 /\ Off(queue0[l]) > a + n - 1 =>
             r[n] = Placeholder(NumberAt(queue0, n - 1), queue0[l].ts)
  BY <1>2, FillIs
<1>. HIDE DEF r
<1>6. /\ MaxSpan \in Nat /\ a \in Nat /\ z \in Nat /\ z =< MaxSpan /\ Len(r) \in Nat
      /\ Len(queue0) \in Nat /\ k \in 1..Len(queue0) - 1 /\ curr \in Nat \ {0}
  <2>1. MaxSpan \in Nat
    BY SpaceAssumption DEF WalkAssumption, SpaceAssumption
  <2>2. a \in Nat /\ z \in Nat /\ z =< MaxSpan /\ a =< z /\ Len(r) = z - a + 1
    <3>. HIDE DEF a, z
    <3>. QED  BY <1>5, <2>1
  <2>3. Len(r) \in Nat
    <3>. HIDE DEF a, z
    <3>. QED  BY <2>2
  <2>4. Len(queue0) \in Nat
    BY <1>2
  <2>5. k \in 1..Len(queue0) - 1 /\ curr \in Nat \ {0}
    BY <1>1, <1>4, <2>3, <2>4
  <2>. QED  BY <2>1, <2>2, <2>3, <2>4, <2>5
<1>. DEFINE x == Off(queue0[k + 1])
<1>7. x \in a..z /\ x >= a + curr /\ curr + 1 \in 1..Len(r) /\ queue[curr + 1] = queue0[k + 1]
  <2>1. k + 1 \in 1..Len(queue0) /\ k + 1 \in k + 1..Len(queue0) /\ 1 \in 1..Len(queue0) - k
    BY <1>6
  <2>2. x \in a..z /\ x >= a + curr
    BY <1>4, <1>5, <2>1
  <2>3. queue[curr + 1] = queue0[k + 1]
    BY <1>4, <2>1
  <2>. HIDE DEF x, a, z
  <2>. QED  BY <1>5, <1>6, <2>2, <2>3
<1>8. /\ missing \in 0..SeqSpace - 1 /\ OffOf(missing) = a + curr /\ a + curr =< MaxSpan
      /\ missing = NumberAt(queue0, curr)
  <2>1. queue[curr] = r[curr] /\ curr \in 1..z - a + 1
    <3>1. queue[curr] = r[curr]
      <4>1. curr \in 1..curr
        BY <1>6
      <4>. QED  BY <1>4, <4>1
    <3>2. curr \in 1..z - a + 1
      BY <1>4, <1>5
    <3>. QED  BY <3>1, <3>2
  <2>. DEFINE s == queue[curr].seq
              t == queue0[1].seq
  <2>2. s \in 0..SeqSpace - 1 /\ OffOf(s) = a + curr - 1
    BY <1>5, <2>1 DEF Off
  <2>3. t \in 0..SeqSpace - 1 /\ OffOf(t) = a
    <3>1. queue0[1] \in WalkEntry
      BY <1>2, <1>6
    <3>. QED  BY <3>1 DEF WalkEntry, Off
  <2>4. a + curr =< MaxSpan
    <3>. HIDE DEF x, a, z
    <3>. QED  BY <1>6, <1>7
  <2>5. missing = (s + 1) % SeqSpace /\ NumberAt(queue0, curr) = (t + curr) % SeqSpace
    BY DEF NextSeq, NumberAt
  <2>. HIDE DEF s, t, a, missing
  <2>6. missing \in 0..SeqSpace - 1 /\ OffOf(missing) = a + curr
    <3>1. 1 \in Nat /\ OffOf(s) + 1 =< MaxSpan /\ OffOf(s) + 1 = a + curr
      BY <1>6, <2>2, <2>4
    <3>. QED  BY <2>2, <2>5, <3>1, OffAfter
  <2>7. (t + curr) % SeqSpace \in 0..SeqSpace - 1 /\ OffOf((t + curr) % SeqSpace) = a + curr
    BY <1>6, <2>3, <2>4, OffAfter
  <2>8. missing = (t + curr) % SeqSpace
    <3>. DEFINE y == (t + curr) % SeqSpace
    <3>1. y \in 0..SeqSpace - 1 /\ OffOf(y) = a + curr
      BY <2>7
    <3>. HIDE DEF y
    <3>2. missing = y
      BY <2>4, <2>6, <3>1, OffOrder
    <3>. QED  BY <3>2 DEF y
  <2>. QED  BY <2>4, <2>5, <2>6, <2>8
<1>9. h[curr + 1] = IF r[curr + 1].hole /\ r[curr + 1].seq \notin Holes(queue0)
                    THEN Append(h[curr], r[curr + 1].seq) ELSE h[curr]
  <2>1. \A i \in 1..Len(r) : r[i].seq \in 0..SeqSpace - 1
    BY <1>5
  <2>2. \A i \in 1..Len(r) : h[i] = IF r[i].hole /\ r[i].seq \notin Holes(queue0)
                                    THEN Append(h[i - 1], r[i].seq) ELSE h[i - 1]
    BY <1>6, <2>1, RequestsStep
  <2>3. (curr + 1) - 1 = curr
    BY <1>6
  <2>. HIDE DEF h
  <2>. QED  BY <1>7, <2>2, <2>3
<1>10. queue0[k + 1] \in WalkEntry /\ queue0[k + 1].seq \in 0..SeqSpace - 1
       /\ x = OffOf(queue0[k + 1].seq) /\ queue0[k + 1].ts \in 0..TsSpace - 1
  <2>1. k + 1 \in 1..Len(queue0)
    BY <1>6
  <2>2. queue0[k + 1] \in WalkEntry
    BY <1>2, <2>1
  <2>. QED  BY <2>2 DEF WalkEntry, Off
<1>11. missing = queue[curr + 1].seq <=> x = a + curr
  <2>. DEFINE s == queue0[k + 1].seq
  <2>1. x =< MaxSpan
    <3>. HIDE DEF x, a, z
    <3>. QED  BY <1>6, <1>7
  <2>2. s \in 0..SeqSpace - 1 /\ OffOf(s) = x
    BY <1>10
  <2>. HIDE DEF s, x, a, missing
  <2>3. missing = s <=> OffOf(missing) = OffOf(s)
    BY <1>8, <2>1, <2>2, OffOrder
  <2>4. missing = s <=> x = a + curr
    BY <1>8, <2>2, <2>3
  <2>. QED  BY <1>7, <2>4 DEF s
<1>12. CASE x = a + curr
  <2>1. queue' = queue /\ asked' = asked
    BY <1>1, <1>11, <1>12
  <2>2. r[curr + 1] = queue0[k + 1]
    <3>1. k + 1 \in 1..Len(queue0)
      BY <1>6
    <3>2. r[x - a + 1] = queue0[k + 1]
      BY <1>5, <3>1
    <3>3. x - a + 1 = curr + 1
      <4>. HIDE DEF x, a
      <4>. QED  BY <1>6, <1>12
    <3>. QED  BY <3>2, <3>3
  <2>3. h[curr + 1] = h[curr]
    <3>1. r[curr + 1].hole => r[curr + 1].seq \in Holes(queue0)
      <4>1. k + 1 \in DOMAIN queue0
        BY <1>2, <1>6
      <4>. QED  BY <2>2, <4>1 DEF Holes
    <3>. HIDE DEF h
    <3>. QED  BY <1>9, <3>1
  <2>4. \A i \in k + 2..Len(queue0) : Off(queue0[i]) >= a + (curr + 1)
    <3>1. ASSUME NEW i \in k + 2..Len(queue0)  PROVE Off(queue0[i]) >= a + (curr + 1)
      <4>1. i \in 1..Len(queue0) /\ k + 1 \in 1..Len(queue0) /\ k + 1 < i
        BY <1>6
      <4>2. x < Off(queue0[i]) /\ Off(queue0[i]) \in a..z
        BY <1>2, <1>5, <4>1 DEF Climbs
      <4>. HIDE DEF x, a, z
      <4>. QED  BY <1>6, <1>12, <4>2
    <3>. QED  BY <3>1
  <2>5. \A i \in 1..k + 1 : Off(queue0[i]) < a + (curr + 1)
    <3>1. ASSUME NEW i \in 1..k + 1  PROVE Off(queue0[i]) < a + (curr + 1)
      <4>1. i \in 1..k \/ i = k + 1
        BY <1>6
      <4>2. i \in 1..Len(queue0)
        BY <1>6
      <4>3. Off(queue0[i]) \in a..z
        BY <1>5, <4>2
      <4>4. i \in 1..k => Off(queue0[i]) < a + curr
        BY <1>4
      <4>5. i = k + 1 => Off(queue0[i]) = a + curr
        BY <1>12
      <4>. HIDE DEF x, a, z
      <4>. QED  BY <1>6, <4>1, <4>3, <4>4, <4>5
    <3>. QED  BY <3>1
  <2>6. /\ Len(queue) = (curr + 1) + Len(queue0) - (k + 1) /\ k + 1 \in 1..Len(queue0)
        /\ \A j \in 1..Len(queue0) - (k + 1) : queue[(curr + 1) + j] = queue0[(k + 1) + j]
        /\ \A i \in 1..curr + 1 : queue[i] = r[i]
    <3>1. ASSUME NEW j \in 1..Len(queue0) - (k + 1)
          PROVE  queue[(curr + 1) + j] = queue0[(k + 1) + j]
      <4>1. j + 1 \in 1..Len(queue0) - k /\ (curr + 1) + j = curr + (j + 1)
            /\ (k + 1) + j = k + (j + 1)
        BY <1>6
      <4>2. queue[curr + (j + 1)] = queue0[k + (j + 1)]
        BY <1>4, <4>1
      <4>. QED  BY <4>1, <4>2
    <3>2. \A i \in 1..curr + 1 : i \in 1..curr \/ i = curr + 1
      BY <1>6
    <3>3. \A i \in 1..curr + 1 : queue[i] = r[i]
      BY <1>4, <1>7, <2>2, <3>2
    <3>4. Len(queue) = (curr + 1) + Len(queue0) - (k + 1) /\ k + 1 \in 1..Len(queue0)
      <4>1. Len(queue) = curr + Len(queue0) - k
        BY <1>4
      <4>. HIDE DEF x, a, z, h, missing
      <4>. QED  BY <1>6, <4>1
    <3>. QED  BY <3>1, <3>3, <3>4
  <2>7. (k + 1) + 1 = k + 2
    BY <1>6
  <2>8. asked' = RequestsFor(queue0', FillGaps(queue0'))[curr']
    BY <1>1, <1>4, <2>1, <2>3 DEF r
  <2>9. Ahead(k + 1)'
    <3>. HIDE DEF h
    <3>. QED  BY <1>1, <1>4, <1>7, <2>1, <2>4, <2>5, <2>6, <2>7, <2>8 DEF Ahead, r
  <2>. QED  BY <1>1, <1>2, <2>6, <2>9 DEF WalkInv
<1>13. CASE x # a + curr
  <2>. DEFINE p == Placeholder(missing, queue0[k + 1].ts)
  <2>1. queue' = rtp_putq(queue, p) /\ asked' = Append(asked, missing)
    BY <1>1, <1>7, <1>11, <1>13
  <2>2. x > a + curr
    <3>. HIDE DEF x, a, z
    <3>. QED  BY <1>6, <1>7, <1>13
  <2>3. r[curr + 1] = p
    <3>1. k + 1 \in 2..Len(queue0) /\ (k + 1) - 1 = k /\ k \in 1..k /\ curr + 1 \in 1..z - a + 1
      BY <1>5, <1>6, <1>7
    <3>2. (curr + 1) - 1 = curr /\ a + (curr + 1) - 1 = a + curr
      <4>. HIDE DEF a
      <4>. QED  BY <1>6
    <3>3. Off(queue0[(k + 1) - 1]) < a + (curr + 1) - 1
      BY <1>4, <3>1, <3>2
    <3>4. Off(queue0[k + 1]) > a + (curr + 1) - 1
      BY <2>2, <3>2
    <3>5. r[curr + 1] = Placeholder(NumberAt(queue0, (curr + 1) - 1), queue0[k + 1].ts)
      <4>. HIDE DEF a, z
      <4>. QED  BY <1>5, <3>1, <3>3, <3>4
    <3>. QED  BY <1>8, <3>2, <3>5
  <2>4. p \in WalkEntry /\ p.seq = missing /\ p.hole /\ Off(p) = a + curr
    <3>. HIDE DEF missing, a
    <3>. QED  BY <1>8, <1>10 DEF WalkEntry, Placeholder, Off
  <2>. HIDE DEF p, missing
  <2>5. h[curr + 1] = Append(h[curr], missing)
    <3>1. missing \notin Holes(queue0)
      <4>1. SUFFICES ASSUME missing \in Holes(queue0)  PROVE FALSE
        OBVIOUS
      <4>2. PICK i \in DOMAIN queue0 : queue0[i].seq = missing
        BY <4>1 DEF Holes
      <4>3. i \in 1..Len(queue0) /\ Off(queue0[i]) = a + curr
        BY <1>2, <1>8, <4>2 DEF Off
      <4>4. i =< k \/ i > k
        BY <4>3, <1>6
      <4>5. CASE i =< k
        <5>1. i \in 1..k /\ a + curr \in Int
          <6>. HIDE DEF a
          <6>. QED  BY <1>6, <4>3, <4>5
        <5>2. Off(queue0[i]) < a + curr
          BY <1>4, <5>1
        <5>. HIDE DEF a
        <5>. QED  BY <4>3, <5>1, <5>2
      <4>6. CASE i > k
        <5>1. i = k + 1 \/ k + 1 < i
          BY <1>6, <4>3, <4>6
        <5>2. k + 1 \in 1..Len(queue0)
          BY <1>6
        <5>3. i # k + 1 => x < Off(queue0[i])
          BY <1>2, <4>3, <5>1, <5>2 DEF Climbs
        <5>4. i # k + 1
          BY <1>13, <4>3
        <5>. HIDE DEF a, x, z
        <5>. QED  BY <1>6, <1>7, <2>2, <4>3, <5>3, <5>4
      <4>. QED  BY <4>4, <4>5, <4>6
    <3>. HIDE DEF h
    <3>. QED  BY <1>9, <2>3, <2>4, <3>1
  <2>. DEFINE q == queue
              stops == {i \in DOMAIN q : SeqIsGreater(p.seq, q[i].seq)}
              last  == Max(stops)
  <2>6. ASSUME NEW i \in 1..Len(queue)
        PROVE  /\ queue[i] \in WalkEntry /\ (i =< curr => Off(queue[i]) = a + i - 1)
               /\ (i > curr => Off(queue[i]) > a + curr)
    <3>1. queue[i] \in WalkEntry
      BY <1>4
    <3>2. ASSUME i =< curr  PROVE Off(queue[i]) = a + i - 1
      <4>1. i \in 1..curr /\ i \in 1..z - a + 1
        BY <1>4, <1>5, <1>6, <3>2
      <4>. QED  BY <1>4, <1>5, <4>1
    <3>3. ASSUME i > curr  PROVE Off(queue[i]) > a + curr
      <4>. DEFINE j == i - curr
      <4>1. j \in 1..Len(queue0) - k /\ curr + j = i /\ k + j \in 1..Len(queue0)
            /\ k + 1 \in 1..Len(queue0) /\ (j = 1 \/ k + 1 < k + j)
        BY <1>4, <1>6, <3>3
      <4>. HIDE DEF j
      <4>2. queue[i] = queue0[k + j]
        BY <1>4, <4>1
      <4>3. j # 1 => x < Off(queue0[k + j])
        BY <1>2, <4>1 DEF Climbs
      <4>4. Off(queue0[k + j]) \in a..z /\ (j = 1 => Off(queue0[k + j]) = x)
        BY <1>5, <4>1
      <4>5. Off(queue0[k + j]) > a + curr
        <5>. HIDE DEF a, x, z
        <5>. QED  BY <1>6, <1>7, <2>2, <4>3, <4>4
      <4>. QED  BY <4>2, <4>5
    <3>. QED  BY <3>1, <3>2, <3>3
  <2>7. stops = 1..curr
    <3>1. DOMAIN q = 1..Len(queue) /\ 1..curr \subseteq 1..Len(queue)
      BY <1>1, <1>4, <1>6
    <3>2. ASSUME NEW i \in 1..Len(queue)  PROVE SeqIsGreater(p.seq, q[i].seq) <=> i =< curr
      <4>1. SeqIsGreater(p.seq, q[i].seq) <=> Off(p) >= Off(q[i])
        BY <2>4, <2>6, WalkEntries
      <4>2. Off(q[i]) \in Int
        <5>1. Off(q[i]) \in 0..MaxSpan
          BY <2>6, WalkEntries
        <5>. QED  BY <5>1
      <4>3. Off(p) >= Off(q[i]) <=> i =< curr
        <5>1. i =< curr \/ i > curr
          BY <1>6
        <5>. HIDE DEF a, q
        <5>2. CASE i =< curr
          <6>1. Off(queue[i]) = a + i - 1
            BY <2>6, <5>2
          <6>. QED  BY <1>6, <2>4, <5>2, <6>1 DEF q
        <5>3. CASE i > curr
          <6>1. Off(queue[i]) > a + curr
            BY <2>6, <5>3
          <6>. QED  BY <1>6, <2>4, <4>2, <5>3, <6>1 DEF q
        <5>. QED  BY <5>1, <5>2, <5>3
      <4>. QED  BY <4>1, <4>3
    <3>. QED  BY <3>1, <3>2
  <2>8. queue' = IF stops = {} THEN <<p>> \o q
                 ELSE IF q[last].seq = p.seq THEN q
                 ELSE SubSeq(q, 1, last) \o <<p>> \o SubSeq(q, last + 1, Len(q))
    <3>. HIDE DEF x, a, z, h
    <3>. QED  BY <2>1 DEF rtp_putq
  <2>. HIDE DEF stops, last
  <2>9. last = curr /\ stops # {}
    <3>1. 1 \in 1..curr
      BY <1>6
    <3>. QED  BY <1>6, <2>7, <3>1, MaxOfInterval DEF last
  <2>10. q[curr].seq # p.seq
    <3>1. curr \in 1..Len(queue)
      BY <1>1, <1>4, <1>6
    <3>2. Off(queue[curr]) = a + curr - 1 /\ queue[curr] \in WalkEntry
      BY <1>6, <2>6, <3>1
    <3>3. Off(queue[curr]) # Off(p)
      <4>. HIDE DEF a
      <4>. QED  BY <1>6, <2>4, <3>2
    <3>. QED  BY <2>4, <3>2, <3>3, WalkEntries
  <2>11. queue' \in Seq(WalkEntry) /\ Placed(queue, p, curr, queue')
    <3>1. queue' = SubSeq(queue, 1, curr) \o <<p>> \o SubSeq(queue, curr + 1, Len(queue))
      BY <2>8, <2>9, <2>10
    <3>2. curr \in 0..Len(queue) /\ queue \in Seq(WalkEntry)
      BY <1>1, <1>4, <1>6
    <3>. QED  BY <2>4, <3>1, <3>2, PutBehind, Zenon
  <2>12. /\ Len(queue') = (curr + 1) + Len(queue0) - k
         /\ \A i \in 1..curr + 1 : queue'[i] = r[i]
         /\ \A j \in 1..Len(queue0) - k : queue'[(curr + 1) + j] = queue0[k + j]
    <3>1. Len(queue') = Len(queue) + 1
          /\ \A i \in 1..Len(queue) + 1 :
               queue'[i] = IF i =< curr THEN queue[i] ELSE IF i = curr + 1 THEN p ELSE queue[i - 1]
      BY <2>11 DEF Placed
    <3>2. Len(queue') = (curr + 1) + Len(queue0) - k
      BY <1>4, <1>6, <3>1
    <3>3. ASSUME NEW i \in 1..curr + 1  PROVE queue'[i] = r[i]
      <4>1. i \in 1..Len(queue) + 1 /\ (i \in 1..curr \/ (i = curr + 1 /\ ~(i =< curr)))
        BY <1>1, <1>4, <1>6
      <4>2. i \in 1..curr => i =< curr
        OBVIOUS
      <4>. QED  BY <1>4, <2>3, <3>1, <4>1, <4>2
    <3>4. ASSUME NEW j \in 1..Len(queue0) - k  PROVE queue'[(curr + 1) + j] = queue0[k + j]
      <4>. DEFINE i == (curr + 1) + j
      <4>1. i \in 1..Len(queue) + 1 /\ ~(i =< curr) /\ i # curr + 1 /\ i - 1 = curr + j
        BY <1>4, <1>6
      <4>. HIDE DEF i
      <4>2. queue'[i] = queue[i - 1]
        BY <3>1, <4>1
      <4>3. queue[curr + j] = queue0[k + j]
        BY <1>4
      <4>. QED  BY <4>1, <4>2, <4>3 DEF i
    <3>. QED  BY <3>2, <3>3, <3>4
  <2>13. \A i \in k + 1..Len(queue0) : Off(queue0[i]) >= a + (curr + 1)
    <3>1. ASSUME NEW i \in k + 1..Len(queue0)  PROVE Off(queue0[i]) >= a + (curr + 1)
      <4>1. i \in 1..Len(queue0) /\ k + 1 \in 1..Len(queue0) /\ (i = k + 1 \/ k + 1 < i)
        BY <1>6
      <4>2. Off(queue0[i]) \in a..z /\ (i = k + 1 => Off(queue0[i]) = x)
            /\ (i # k + 1 => x < Off(queue0[i]))
        BY <1>2, <1>5, <4>1 DEF Climbs
      <4>. HIDE DEF x, a, z
      <4>. QED  BY <1>6, <1>7, <2>2, <4>2
    <3>. QED  BY <3>1
  <2>14. \A i \in 1..k : Off(queue0[i]) < a + (curr + 1)
    <3>1. ASSUME NEW i \in 1..k  PROVE Off(queue0[i]) < a + (curr + 1)
      <4>1. i \in 1..Len(queue0)
        BY <1>6
      <4>2. Off(queue0[i]) \in a..z /\ Off(queue0[i]) < a + curr
        BY <1>4, <1>5, <4>1
      <4>. HIDE DEF x, a, z
      <4>. QED  BY <1>6, <4>2
    <3>. QED  BY <3>1
  <2>15. asked' = RequestsFor(queue0', FillGaps(queue0'))[curr']
    BY <1>1, <1>4, <2>1, <2>5 DEF r
  <2>16. Ahead(k)'
    <3>. HIDE DEF h
    <3>. QED  BY <1>1, <1>7, <2>11, <2>12, <2>13, <2>14, <2>15 DEF Ahead, r
  <2>. QED  BY <1>1, <1>2, <1>3, <2>16 DEF WalkInv
<1>. QED  BY <1>12, <1>13

\* The turns of the walk over rtx_recv_queue (rtp_session_recvm_with_ts) add
\* up to what the model of the session takes for the whole loop: the queue
\* without gaps, and a request for each new placeholder in their order.
THEOREM WalkIsFillGaps == ASSUME WalkAssumption  PROVE WalkSpec => []WalkFillsGaps
<1>1. WalkInit => WalkInv
  BY WalkStarts
<1>2. WalkInv /\ [Walk]_walkVars => WalkInv'
  <2>1. WalkInv /\ UNCHANGED walkVars => WalkInv'
    BY DEF WalkInv, Ahead, walkVars
  <2>. QED  BY <2>1, WalkStep
<1>3. WalkInv => WalkFillsGaps
  <2>. SUFFICES ASSUME WalkInv  PROVE WalkFillsGaps
    OBVIOUS
  <2>. DEFINE r == FillGaps(queue0)
              a == Off(queue0[1])
              z == Off(queue0[Len(queue0)])
  <2>0. queue0 \in Seq(WalkEntry) /\ Climbs(queue0) /\ Len(queue0) \in Nat
    BY DEF WalkInv
  <2>1. CASE Len(queue0) = 0
    <3>1. queue0 = <<>> /\ queue = <<>> /\ asked = <<>> /\ r = <<>>
      BY <2>0, <2>1 DEF WalkInv, FillGaps
    <3>2. Asked(queue0, queue) = <<>>
      <4>1. Len(<<>>) = 0 /\ \A i \in 1..0 : <<>>[i].seq \in 0..SeqSpace - 1
        OBVIOUS
      <4>2. Asked(queue0, <<>>) = RequestsFor(queue0, <<>>)[0]
            /\ RequestsFor(queue0, <<>>)[0] = <<>>
        BY <4>1, RequestsStep
      <4>. QED  BY <3>1, <4>2
    <3>. QED  BY <3>1, <3>2 DEF WalkFillsGaps
  <2>2. CASE Len(queue0) > 0
    <3>1. PICK k \in 1..Len(queue0) : Ahead(k)
      BY <2>2 DEF WalkInv
    <3>2. /\ curr \in 1..Len(r) /\ queue \in Seq(WalkEntry)
          /\ Len(queue) = curr + Len(queue0) - k
          /\ \A i \in 1..curr : queue[i] = r[i]
          /\ \A i \in 1..k : Off(queue0[i]) < a + curr
          /\ \A i \in k + 1..Len(queue0) : Off(queue0[i]) >= a + curr
          /\ asked = RequestsFor(queue0, r)[curr]
      BY <3>1 DEF Ahead
    <3>3. /\ a \in Nat /\ z \in a..MaxSpan /\ Len(r) = z - a + 1
          /\ r = [n \in 1..z - a + 1 |-> r[n]]
          /\ \A i \in 1..Len(queue0) : Off(queue0[i]) \in a..z
          /\ \A n \in 1..z - a + 1 : r[n].seq \in 0..SeqSpace - 1
      BY <2>0, <2>2, FillIs
    <3>. HIDE DEF r
    <3>4. MaxSpan \in Nat
      BY SpaceAssumption DEF WalkAssumption, SpaceAssumption
    <3>5. a \in Nat /\ z \in Nat /\ a =< z /\ Len(r) \in Nat /\ curr \in Nat
      <4>1. a \in Nat /\ z \in Nat /\ a =< z /\ Len(r) = z - a + 1
        <5>. HIDE DEF a, z
        <5>. QED  BY <3>3, <3>4
      <4>2. Len(r) \in Nat
        <5>. HIDE DEF a, z
        <5>. QED  BY <4>1
      <4>. QED  BY <3>2, <4>1, <4>2
    <3>6. Len(queue) =< Len(r)
      <4>1. CASE k = Len(queue0)
        BY <2>0, <3>2, <3>5, <4>1
      <4>2. CASE k < Len(queue0)
        <5>. DEFINE i == k + 1
                    n == Len(queue0) - (k + 1)
        <5>1. i \in 1..Len(queue0) /\ n \in Nat /\ i + n = Len(queue0) /\ i \in k + 1..Len(queue0)
              /\ i + n \in 1..Len(queue0)
          BY <2>0, <4>2
        <5>. HIDE DEF i, n
        <5>2. Off(queue0[i + n]) >= Off(queue0[i]) + n
          BY <2>0, <5>1, ClimbSteps
        <5>3. Off(queue0[i]) \in a..z /\ Off(queue0[i]) >= a + curr
          BY <3>2, <3>3, <5>1 DEF i
        <5>4. z >= a + curr + n
          <6>1. z >= Off(queue0[i]) + n
            BY <5>1, <5>2
          <6>. HIDE DEF a, z
          <6>. QED  BY <3>5, <5>1, <5>3, <6>1
        <5>5. Len(queue) = curr + n + 1
          BY <2>0, <3>2, <3>5, <4>2 DEF n
        <5>6. Len(r) = z - a + 1
          BY <3>3
        <5>. HIDE DEF a, z
        <5>. QED  BY <3>5, <5>1, <5>4, <5>5, <5>6
      <4>. QED  BY <2>0, <4>1, <4>2
    <3>7. ASSUME curr >= Len(queue)  PROVE queue = r /\ asked = Asked(queue0, queue)
      <4>1. k = Len(queue0) /\ Len(queue) = curr
        BY <2>0, <3>2, <3>5, <3>7
      <4>2. z < a + curr
        BY <2>2, <2>0, <3>2, <4>1
      <4>3. curr = Len(r)
        <5>. HIDE DEF a, z
        <5>. QED  BY <3>2, <3>3, <3>5, <4>2
      <4>4. queue = r
        <5>1. queue = [n \in 1..Len(queue) |-> queue[n]]
          BY <3>2
        <5>2. r = [n \in 1..Len(r) |-> r[n]]
          BY <3>3
        <5>. HIDE DEF a, z
        <5>. QED  BY <3>2, <4>1, <4>3, <5>1, <5>2
      <4>5. Asked(queue0, r) = RequestsFor(queue0, r)[Len(r)]
        <5>1. \A i \in 1..Len(r) : r[i].seq \in 0..SeqSpace - 1
          BY <3>3
        <5>. QED  BY <3>5, <5>1, RequestsStep
      <4>. QED  BY <3>2, <4>3, <4>4, <4>5
    <3>. QED  BY <3>6, <3>7 DEF WalkFillsGaps, r
  <2>. QED  BY <2>0, <2>1, <2>2
<1>. QED  BY <1>1, <1>2, <1>3, PTL DEF WalkSpec
=============================================================================
