-------------------------- MODULE RtpReceiveProofs --------------------------
(***************************************************************************)
(* The lock on a source, for any number of sources and any threshold; the  *)
(* extended sequence number and the count of losses, for any widths; and   *)
(* how long a source is turned down whose clock jumps, for any jump,       *)
(* tolerance and length of the queue.                                      *)
(***************************************************************************)
EXTENDS RtpReceive, RtpQueueProofs, FiniteSetTheorems

\* How the candidate and its count (inc_ssrc_candidate, inc_same_ssrc_count)
\* go with the packets received: the count is the length of the run of the
\* candidate, or one less.
FreshInv == ~ssrc_set => count = 0

LockInv == ssrc_set /\ ~taken =>
  /\ last \in Ssrcs
  /\ last = ssrc => count = 0 \/ cand = ssrc
  /\ last # ssrc => /\ cand = last /\ count < Threshold
                    /\ count =< run /\ run =< count + 1

BoundInv ==
  /\ scene \in Scene /\ todo \in [reports : Nat, resets : Nat, jumps : Nat]
  /\ todo.resets =< scene.resets

RunInv ==
  /\ BoundInv
  /\ count \in Nat /\ run \in Nat
  /\ NeverReset => FreshInv /\ LockInv

\* A packet of source s: where the lock goes.
LEMMA ReceiveLock ==
  ASSUME RunInv, NEW s \in Ssrcs, Receive(s)
  PROVE  /\ RunInv'
         /\ ssrc_set /\ ssrc' # ssrc /\ ~taken' /\ NeverReset'
              => last' = ssrc' /\ run' >= Threshold
  <1>1. /\ Lock(s) /\ last' = s /\ run' = (IF s = last THEN run + 1 ELSE 1)
        /\ UNCHANGED <<scene, todo, taken>>
    BY DEF Receive
  <1>2. s # None /\ Threshold \in Nat
    BY ReceiveAssumption DEF None
  <1>3. count' \in Nat /\ run' \in Nat
    BY <1>1 DEF RunInv, Lock, NewCount, SameCount
  <1>4. BoundInv' /\ NeverReset' = NeverReset
    BY <1>1 DEF RunInv, BoundInv, NeverReset
  <1>5. SUFFICES ASSUME NeverReset
        PROVE  /\ RunInv'
               /\ ssrc_set /\ ssrc' # ssrc /\ ~taken' => last' = ssrc' /\ run' >= Threshold
    BY <1>3, <1>4 DEF RunInv
  <1>6. CASE ~ssrc_set
    <2>1. ssrc_set' /\ ssrc' = s /\ count' = 0
      BY <1>1, <1>5, <1>6 DEF RunInv, FreshInv, Lock, Accepted, NewCount
    <2>2. QED
      BY <1>1, <1>3, <1>4, <1>5, <1>6, <2>1 DEF RunInv, FreshInv, LockInv
  <1>7. CASE ssrc_set /\ s = ssrc
    <2>1. ssrc_set' /\ ssrc' = s /\ count' = 0
      BY <1>1, <1>7 DEF Lock, Accepted, NewCount
    <2>2. QED
      BY <1>1, <1>3, <1>4, <1>5, <1>7, <2>1 DEF RunInv, FreshInv, LockInv
  <1>8. CASE ssrc_set /\ s # ssrc
    <2>1. ssrc_set' /\ cand' = s /\ count' = SameCount(s)
          /\ ssrc' = (IF SameCount(s) >= Threshold THEN s ELSE ssrc)
      BY <1>1, <1>8 DEF Lock, Accepted, Changes, NewCount
    <2>2. ~taken => count' =< run' /\ run' =< count' + 1
      <3>1. SUFFICES ASSUME ~taken PROVE count' =< run' /\ run' =< count' + 1
        OBVIOUS
      <3>2. CASE last = ssrc
        <4>1. run' = 1 /\ (count = 0 \/ cand = ssrc)
          BY <1>1, <1>5, <1>8, <3>1, <3>2 DEF RunInv, LockInv
        <4>2. count' \in {0, 1}
          BY <1>8, <2>1, <4>1 DEF SameCount
        <4>3. count' = 0 \/ count' = 1
          BY <4>2
        <4>4. QED
          BY <4>1, <4>3
      <3>3. CASE last # ssrc
        <4>1. cand = last /\ count =< run /\ run =< count + 1
          BY <1>5, <1>8, <3>1, <3>3 DEF RunInv, LockInv
        <4>2. QED
          BY <1>1, <2>1, <4>1 DEF SameCount, RunInv
      <3>4. QED
        BY <3>2, <3>3
    <2>3. CASE SameCount(s) >= Threshold
      BY <1>1, <1>2, <1>3, <1>4, <1>5, <1>8, <2>1, <2>2, <2>3 DEF RunInv, FreshInv, LockInv
    <2>4. CASE ~(SameCount(s) >= Threshold)
      BY <1>1, <1>2, <1>3, <1>4, <1>5, <1>8, <2>1, <2>2, <2>4 DEF RunInv, FreshInv, LockInv
    <2>5. QED
      BY <2>3, <2>4
  <1>9. QED
    BY <1>6, <1>7, <1>8

\* No other step lets the session leave its source, unless recvm takes it.
LEMMA OtherLock ==
  ASSUME RunInv, [Next]_vars, ~\E s \in Ssrcs : Receive(s)
  PROVE  RunInv' /\ (ssrc_set /\ ssrc' # ssrc => taken')
  <1>1. CASE Deliver
    <2>1. /\ UNCHANGED <<ssrc_set, cand, count, scene, todo, last, run>>
          /\ taken' = (taken \/ ssrc' # ssrc)
      BY <1>1 DEF Deliver, envVars
    <2>2. CASE ssrc' = ssrc
      BY <2>1, <2>2 DEF RunInv, BoundInv, NeverReset, FreshInv, LockInv
    <2>3. CASE ssrc' # ssrc
      BY <2>1, <2>3 DEF RunInv, BoundInv, NeverReset, FreshInv, LockInv
    <2>4. QED
      BY <2>2, <2>3
  <1>2. CASE Report
    <2>1. UNCHANGED <<lockVars, scene, histVars>> /\ todo' = [todo EXCEPT !.reports = @ - 1]
          /\ todo.reports > 0
      BY <1>2 DEF Report
    <2>2. BoundInv' /\ todo'.resets = todo.resets
      BY <2>1 DEF RunInv, BoundInv
    <2>3. QED
      BY <2>1, <2>2 DEF RunInv, NeverReset, FreshInv, LockInv, lockVars, histVars
  <1>3. CASE Reset
    <2>1. /\ UNCHANGED <<ssrc, count, scene>> /\ run' = 0
          /\ todo.resets > 0 /\ todo' = [todo EXCEPT !.resets = @ - 1]
      BY <1>3 DEF Reset
    <2>2. BoundInv' /\ ~NeverReset'
      BY <2>1 DEF RunInv, BoundInv, NeverReset, Scene
    <2>3. QED
      BY <2>1, <2>2 DEF RunInv
  <1>4. ASSUME NEW s \in Ssrcs, Jump(s)
        PROVE  RunInv' /\ (ssrc_set /\ ssrc' # ssrc => taken')
    <2>1. UNCHANGED <<lockVars, scene, taken, last, run>>
          /\ todo' = [todo EXCEPT !.jumps = @ - 1] /\ todo.jumps > 0
      BY <1>4 DEF Jump
    <2>2. BoundInv' /\ todo'.resets = todo.resets
      BY <2>1 DEF RunInv, BoundInv
    <2>3. QED
      BY <2>1, <2>2 DEF RunInv, NeverReset, FreshInv, LockInv, lockVars
  <1>5. CASE UNCHANGED vars
    BY <1>5 DEF vars, lockVars, histVars, envVars, RunInv, BoundInv, NeverReset,
                FreshInv, LockInv
  <1>6. scene.sources \subseteq Ssrcs
    BY DEF RunInv, BoundInv, Scene
  <1>7. QED
    BY <1>1, <1>2, <1>3, <1>4, <1>5, <1>6 DEF Next

LEMMA RunInvStep == RunInv /\ [Next]_vars => RunInv'
  BY ReceiveLock, OtherLock

LEMMA RunInvInit == Init => RunInv
  <1>1. SUFFICES ASSUME Init PROVE RunInv
    OBVIOUS
  <1>2. scene \in Scene
    BY <1>1, ReceiveAssumption DEF Init
  <1>3. BoundInv
    BY <1>1, <1>2 DEF Init, BoundInv, Scene
  <1>4. QED
    BY <1>1, <1>3 DEF Init, RunInv, FreshInv, LockInv

\* A session that was never reset only leaves its source after Threshold
\* packets in a row from another one.
THEOREM LockedSourceIsKept == Spec => LockChangesOnRun
  <1>1. RunInv /\ [Next]_vars =>
          [ssrc_set /\ ssrc' # ssrc /\ ~taken' /\ NeverReset'
             => last' = ssrc' /\ run' >= Threshold]_vars
    BY ReceiveLock, OtherLock
  <1>2. QED
    BY <1>1, RunInvInit, RunInvStep, PTL DEF Spec, LockChangesOnRun

\* And no other source is turned down for longer than Threshold packets.
THEOREM NewSourceIsFollowed == Spec => []LockFollows
  <1>1. RunInv => LockFollows
    <2>1. Threshold \in Nat
      BY ReceiveAssumption
    <2>2. QED
      BY <2>1 DEF RunInv, LockInv, LockFollows
  <1>2. QED
    BY <1>1, RunInvInit, RunInvStep, PTL DEF Spec
-----------------------------------------------------------------------------
(***************************************************************************)
(* The extended sequence number and the count of lost packets, of a stream *)
(* from one source whose packets come in order, with a few lost in a row   *)
(* at most, and whose numbers do not wrap more often than hwrcv_extseq can *)
(* count.                                                                  *)
(***************************************************************************)
Orderly == \A z \in Scenes : Cardinality(z.sources) = 1 =>
  z.late = 0 /\ z.burst + 2 =< LoopWindow /\ z.final < SeqSpace * SeqSpace

\* Numbers with their cycles: the greatest one, and the one of the last report.
Newest   == first - SeqNrOf(first) + ExtSeq
Reported == first - SeqNrOf(first) + atLast

\* A packet of the scene, as it is in the queue.
Packets == [seq : 0..SeqSpace - 1, ts : 0..TsSpace - 1, ssrc : scene.sources]

SessionInv ==
  /\ scene \in Scenes
  /\ lo \in 0..SeqSpace - 1 /\ hi \in 0..SeqSpace - 1 /\ atLast \in Nat /\ cum \in Int
  /\ recv \in Nat /\ since \in 0..recv /\ first \in Nat
  /\ next \in [Ssrcs -> Nat] /\ shift \in [Ssrcs -> Nat]
  /\ rq \in Seq(Packets)
  /\ ssrc_set => ssrc \in scene.sources
  /\ recv > 0 => ssrc_set
  /\ recv = 0 => lo = 0 /\ hi = 0 /\ cum = 0 /\ got = {} 

\* The packets received are those from first to Newest, but for the lost ones.
GotInv(s) ==
  /\ Newest = next[s] - 1 /\ Newest =< scene.final /\ first =< Newest
  /\ IsFiniteSet(Numbers) /\ Cardinality(Numbers) = recv
  /\ Numbers \subseteq first..Newest /\ {first, Newest} \subseteq Numbers
  /\ got = {<<s, n>> : n \in Numbers}
  /\ recv =< Newest - first + 1

\* What the reports have counted, up to Reported; the first report counts one
\* packet less than it covers.
LossInv ==
  LET before == (Reported - first) + 1 - (recv - since) IN
  IF since = recv THEN Reported = first /\ cum = 0
  ELSE /\ first =< Reported /\ since =< Newest - Reported
       /\ cum \in {before, before - 1}
       /\ since = 0 => Reported = Newest

CountInv ==
  /\ SessionInv
  /\ OneSource /\ recv > 0 => LossInv /\ \A s \in scene.sources : GotInv(s)

LEMMA ReceiveConstants ==
  /\ SeqSpace \in Nat \ {0} /\ TsSpace \in Nat \ {0} /\ IsFiniteSet(Ssrcs)
  /\ LoopWindow \in Nat /\ 2 * LoopWindow =< SeqSpace /\ MaxRqSize \in Nat
  /\ \A z \in Scenes : z \in Scene
  BY SpaceAssumption, ReceiveAssumption DEF SpaceAssumption, ReceiveAssumption

LoopsAt(S, W, l, q)    == q =< l /\ q < W /\ l > S - W
LowOf(S, W, l, n)      == IF n % S > l \/ LoopsAt(S, W, l, n % S) THEN n % S ELSE l
HighOf(S, W, l, h, n)  == IF LoopsAt(S, W, l, n % S) THEN (h + 1) % S ELSE h
ExtOf(S, f, l, h)      == (f - (f % S)) + (h * S + l)

\* The number after E: at most b packets were lost, so that the lower half of
\* the extended number goes up, or loops and is seen to.
LEMMA NextNumber ==
  ASSUME NEW S \in Nat \ {0}, NEW W \in Nat, 2 * W =< S, NEW b \in Nat, b + 2 =< W,
         NEW f \in Nat, NEW l \in 0..S - 1, NEW h \in 0..S - 1,
         NEW n \in Nat, n < S * S,
         ExtOf(S, f, l, h) < n, n =< ExtOf(S, f, l, h) + (1 + b)
  PROVE  ExtOf(S, f, LowOf(S, W, l, n), HighOf(S, W, l, h, n)) = n
<1>. DEFINE q == n % S
            c == f \div S
            B == S * (c + h)
            loops == q =< l /\ q < W /\ l > S - W
            l2 == IF q > l \/ loops THEN q ELSE l
            h2 == IF loops THEN (h + 1) % S ELSE h
<1>1. f % S \in 0..S - 1 /\ c \in Int /\ f = S * c + (f % S) /\ c >= 0
  <2>1. f % S \in 0..S - 1 /\ c \in Int /\ f = S * c + (f % S)
    <3>1. f % S \in 0..S - 1 /\ f \div S \in Int /\ f = S * (f \div S) + (f % S)
      <4>1. f \in Int
        OBVIOUS
      <4>. QED  BY <4>1, ModRange
    <3>. QED  BY <3>1
  <2>2. c >= 0
    OBVIOUS
  <2>. QED  BY <2>1, <2>2
<1>0. /\ f - (f % S) = S * c /\ S * c \in Int
      /\ S * c + h * S = B /\ h * S \in Int
      /\ S * c + (h + 1) * S = B + S /\ (h + 1) * S \in Int
  <2>. DEFINE m == f % S
              x == S * c
              y == h * S
              z == (h + 1) * S
  <2>1. f = x + m /\ x \in Int /\ m \in Int /\ y \in Int /\ z \in Int
    BY <1>1
  <2>2. x + y = B /\ z = y + S
    BY <1>1
  <2>. HIDE DEF B, m, x, y, z
  <2>3. f - m = x /\ x + z = B + S
    BY <2>1, <2>2
  <2>4. f - m = x /\ x \in Int /\ x + y = B /\ y \in Int /\ x + z = B + S /\ z \in Int
    BY <2>1, <2>2, <2>3
  <2>. QED  BY <2>4 DEF B, m, x, y, z
<1>2. (f - (f % S)) + (h * S + l) = B + l
  <2>. DEFINE x == S * c
              y == h * S
              z == B
  <2>1. x + y = z /\ x \in Int /\ y \in Int
    BY <1>0
  <2>. HIDE DEF x, y, z
  <2>2. x + (y + l) = z + l
    BY <2>1
  <2>. QED  BY <1>0, <2>2 DEF x, y, z
<1>3. B + l < n /\ n =< (B + l) + (1 + b) /\ B \in Int /\ c + h \in Int
  <2>1. B \in Int /\ c + h \in Int
    BY <1>1
  <2>2. ExtOf(S, f, l, h) = B + l
    BY <1>2 DEF ExtOf
  <2>. HIDE DEF B
  <2>. QED  BY <2>1, <2>2
<1>4. ASSUME n < B + S  PROVE (f - (f % S)) + (h2 * S + l2) = n
  <2>1. n - B \in 0..S - 1 /\ n = S * (c + h) + (n - B)
    BY <1>3, <1>4
  <2>2. q = n - B
    BY <1>3, <2>1, ModUnique
  <2>. HIDE DEF B, q, c
  <2>3. q > l
    BY <1>3, <2>2
  <2>4. l2 = q /\ h2 = h
    BY <2>1, <2>2, <2>3
  <2>5. (f - (f % S)) + (h2 * S + l2) = B + q
    <3>. DEFINE x == f - (f % S)
                y == h * S
    <3>1. x + y = B /\ x \in Int /\ y \in Int
      BY <1>0 DEF B
    <3>2. q \in Int
      BY <2>1, <2>2
    <3>. HIDE DEF x, y
    <3>3. x + (y + q) = B + q
      BY <3>1, <3>2
    <3>. QED  BY <2>4, <3>3 DEF x, y
  <2>6. B + q = n
    BY <1>3, <2>2
  <2>. QED  BY <2>5, <2>6
<1>5. ASSUME n >= B + S  PROVE (f - (f % S)) + (h2 * S + l2) = n
  <2>1. n - B - S \in 0..S - 1 /\ n = S * (c + h + 1) + (n - B - S)
    <3>1. B + S = S * (c + h + 1)
      BY <1>1
    <3>2. n = (B + S) + (n - B - S)
      BY <1>3
    <3>. HIDE DEF B
    <3>3. n - B - S \in 0..S - 1
      BY <1>3, <1>5
    <3>. QED  BY <3>1, <3>2, <3>3
  <2>2. q = n - B - S
    <3>1. c + h + 1 \in Int
      BY <1>3
    <3>. QED  BY <2>1, <3>1, ModUnique
  <2>3. h + 1 < S
    <3>1. SUFFICES ASSUME h + 1 >= S  PROVE FALSE
      OBVIOUS
    <3>2. c + h + 1 >= S
      BY <1>1, <3>1
    <3>3. S * (c + h + 1) >= S * S
      BY <1>1, <3>2
    <3>. QED  BY <2>1, <3>3
  <2>. HIDE DEF B, q, c
  <2>4. q =< l /\ q < W /\ l > S - W /\ q \in 0..S - 1
    BY <1>3, <1>5, <2>1, <2>2
  <2>5. l2 = q /\ h2 = h + 1 /\ h2 \in 0..S - 1
    <3>1. h + 1 \in 0..S - 1
      BY <2>3
    <3>2. (h + 1) % S = h + 1
      BY <3>1, ModSmall
    <3>. QED  BY <2>4, <3>1, <3>2
  <2>6. (f - (f % S)) + ((h + 1) * S + q) = B + S + q
    <3>. DEFINE x == f - (f % S)
                y == (h + 1) * S
    <3>1. x + y = B + S /\ x \in Int /\ y \in Int
      BY <1>0 DEF B
    <3>. HIDE DEF x, y
    <3>2. x + (y + q) = B + S + q
      BY <2>4, <3>1
    <3>. QED  BY <3>2 DEF x, y
  <2>7. B + S + q = n
    BY <1>3, <2>2
  <2>8. (f - (f % S)) + (h2 * S + l2) = n
    BY <2>5, <2>6, <2>7
  <2>. QED  BY <2>8
<1>6. (f - (f % S)) + (h2 * S + l2) = n
  <2>1. n < B + S \/ n >= B + S
    BY <1>3
  <2>. HIDE DEF l2, h2, B
  <2>. QED  BY <1>4, <1>5, <2>1, Zenon
<1>. QED  BY <1>6 DEF ExtOf, LowOf, HighOf, LoopsAt

LEMMA GetKeeps ==
  ASSUME NEW P, NEW q \in Seq(P), NEW t
  PROVE  LET g == rtp_getq(q, t)
         IN  g.rest \in Seq(P) /\ (g.ret = <<>> \/ \E i \in 1..Len(q) : g.ret = <<q[i]>>)
<1>. DEFINE mayTake(k) == \A i \in 1..k : TsIsNewer(t, q[i].ts) /\ (i > 1 => q[i].ts # q[i - 1].ts)
            able == {k \in 0..Len(q) : mayTake(k)}
            most == Max(able)
            g == rtp_getq(q, t)
<1>1. /\ g.ret = (IF most = 0 THEN <<>> ELSE <<q[most]>>)
      /\ g.rest = SubSeq(q, most + 1, Len(q))
  BY DEF rtp_getq
<1>2. most \in 0..Len(q)
  <2>1. able # {} /\ able \in SUBSET (0..Len(q)) /\ Len(q) \in Nat
    <3>1. 0 \in able
      OBVIOUS
    <3>. QED  BY <3>1
  <2>. HIDE DEF able
  <2>. QED  BY <2>1, GreatestOf
<1>. HIDE DEF most, able, g
<1>3. SubSeq(q, most + 1, Len(q)) \in Seq(P)
  BY <1>2
<1>4. most # 0 => most \in 1..Len(q)
  BY <1>2
<1>. QED  BY <1>1, <1>3, <1>4 DEF g

LEMMA SceneTypes ==
  ASSUME SessionInv
  PROVE  /\ scene \in Scene /\ scene.sources \in SUBSET Ssrcs /\ scene.base \in Nat /\ scene.final \in Nat
         /\ scene.burst \in Nat /\ scene.late \in Nat
<1>1. scene \in Scene
  BY ReceiveConstants DEF SessionInv
<1>. QED  BY <1>1, ReceiveConstants DEF Scene

\* The first packet of a source s, or one behind it.
Arrives(s, n) ==
  /\ n \in (next[s] - 1 - scene.late..next[s] + scene.burst) \ {next[s] - 1}
  /\ scene.base =< n /\ n =< scene.final /\ n \in Nat
  /\ <<s, n>> \notin got
  /\ Lock(s) /\ Count(s, n) /\ CheckTime(s, n)
  /\ next' = [next EXCEPT ![s] = IF n < @ THEN @ ELSE n + 1]
  /\ first' = IF recv = 0 THEN n ELSE first
  /\ got' = IF Accepted(s) THEN got \cup {<<s, n>>} ELSE got
  /\ UNCHANGED <<shift, scene>>

LEMMA ReceiveArrives ==
  ASSUME SessionInv, NEW s \in scene.sources, Receive(s)
  PROVE  \E n \in Nat : Arrives(s, n)
<1>1. PICK n \in (next[s] - 1 - scene.late..next[s] + scene.burst) \ {next[s] - 1} :
        /\ scene.base =< n /\ n =< scene.final
        /\ <<s, n>> \notin got
        /\ Lock(s) /\ Count(s, n) /\ CheckTime(s, n)
        /\ next' = [next EXCEPT ![s] = IF n < @ THEN @ ELSE n + 1]
        /\ first' = (IF recv = 0 THEN n ELSE first)
        /\ got' = (IF Accepted(s) THEN got \cup {<<s, n>>} ELSE got)
        /\ UNCHANGED <<shift, scene>>
  BY DEF Receive
<1>2. next[s] \in Nat /\ scene.base \in Nat /\ scene.burst \in Nat /\ scene.late \in Nat
  BY SceneTypes DEF SessionInv
<1>3. n \in Nat
  BY <1>1, <1>2
<1>. QED  BY <1>1, <1>3 DEF Arrives

\* rtp_session_rtp_parse keeps the types.
LEMMA ReceiveSession ==
  ASSUME SessionInv, NEW s \in scene.sources, Receive(s)
  PROVE  SessionInv'
<1>1. PICK n \in Nat : Arrives(s, n)
  BY ReceiveArrives
<1>2. scene' = scene /\ shift' = shift /\ s \in Ssrcs /\ next[s] \in Nat /\ shift[s] \in Nat
  BY <1>1, SceneTypes DEF Arrives, SessionInv
<1>. DEFINE q == SeqNrOf(n)
            t == TsOf(s, n)
<1>3. q \in 0..SeqSpace - 1 /\ t \in 0..TsSpace - 1
  <2>1. n \in Int /\ n + shift[s] \in Int
    BY <1>2
  <2>. QED  BY <2>1, ReceiveConstants, ModRange DEF SeqNrOf, TsOf
<1>4. /\ recv' = recv + 1 /\ since' = since + 1 /\ cum' = cum
      /\ lo' \in 0..SeqSpace - 1 /\ hi' \in 0..SeqSpace - 1 /\ atLast' \in Nat
  <2>1. (hi + 1) % SeqSpace \in 0..SeqSpace - 1
    <3>1. hi + 1 \in Int
      BY DEF SessionInv
    <3>. QED  BY <3>1, ReceiveConstants, ModRange
  <2>. HIDE DEF q
  <2>2. Count(s, n)
    BY <1>1 DEF Arrives
  <2>. QED  BY <1>3, <2>1, <2>2 DEF Count, SessionInv, q
<1>5. ssrc_set' = TRUE /\ ssrc' \in scene.sources
  BY <1>1 DEF Arrives, Lock, SessionInv, Accepted
<1>6. rq' \in Seq(Packets)
  <2>. DEFINE p == [seq |-> q, ts |-> t, ssrc |-> s]
              m == MaxRqSize
  <2>1. p \in Packets
    BY <1>3 DEF Packets
  <2>2. <<>> \in Seq(Packets) /\ rq \in Seq(Packets) /\ m \in Nat
    BY ReceiveConstants DEF SessionInv
  <2>. HIDE DEF p, m
  <2>3. /\ queue_packet(rq, m, p) \in Seq(Packets)
        /\ queue_packet(<<>>, m, p) \in Seq(Packets)
    BY <2>1, <2>2, QueueKeeps
  <2>4. rq' \in {rq, <<>>, queue_packet(rq, m, p), queue_packet(<<>>, m, p)}
    <3>1. CheckTime(s, n)
      BY <1>1 DEF Arrives
    <3>. QED  BY <3>1, Zenon DEF CheckTime, timeVars, p, m
  <2>. QED  BY <2>2, <2>3, <2>4
<1>7. Packets' = Packets
  BY <1>2 DEF Packets
<1>8. next' \in [Ssrcs -> Nat] /\ first' \in Nat
  BY <1>1, <1>2 DEF Arrives, SessionInv
<1>. QED  BY <1>2, <1>4, <1>5, <1>6, <1>7, <1>8 DEF SessionInv

\* So does every other call.
LEMMA OtherSession ==
  ASSUME SessionInv, [Next]_vars, ~\E s \in scene.sources : Receive(s)
  PROVE  SessionInv'
<1>1. CASE Deliver
  <2>1. PICK t \in 0..TsSpace - 1 :
          /\ rq # <<>> /\ ssrc' = (IF sync THEN Head(rq).ssrc ELSE ssrc)
          /\ rq' = rtp_getq(rq, t).rest
          /\ UNCHANGED <<ssrc_set, statVars, envVars, first, got>>
    BY <1>1 DEF Deliver
  <2>2. rq' \in Seq(Packets)
    BY <2>1, GetKeeps DEF SessionInv
  <2>3. Head(rq) \in Packets
    BY <2>1 DEF SessionInv
  <2>4. ssrc_set => ssrc' \in scene.sources
    BY <2>1, <2>3 DEF SessionInv, Packets
  <2>5. Packets' = Packets
    BY <2>1 DEF Packets, envVars
  <2>. QED  BY <2>1, <2>2, <2>4, <2>5 DEF SessionInv, statVars, envVars
<1>2. CASE Report
  <2>1. /\ recv > 0 /\ since' = 0 /\ atLast' = ExtSeq
        /\ cum' = (IF since = 0 THEN cum ELSE cum + PacketLoss)
        /\ UNCHANGED <<ssrc_set, ssrc, lo, hi, recv, rq, next, shift, scene, first, got>>
    BY <1>2 DEF Report, lockVars, timeVars, histVars
  <2>2. ExtSeq \in Nat
    <3>1. hi * SeqSpace \in Nat
      BY ReceiveConstants DEF SessionInv
    <3>. QED  BY <3>1 DEF ExtSeq, SessionInv
  <2>3. PacketLoss \in Nat
    BY <2>2 DEF PacketLoss, SessionInv
  <2>4. Packets' = Packets
    BY <2>1 DEF Packets
  <2>. HIDE DEF ExtSeq
  <2>. QED  BY <2>1, <2>2, <2>3, <2>4 DEF SessionInv
<1>3. CASE Reset
  <2>1. /\ ~ssrc_set' /\ lo' = 0 /\ hi' = 0 /\ since' = 0 /\ recv' = 0 /\ cum' = 0
        /\ rq' = <<>> /\ first' = 0 /\ got' = {}
        /\ UNCHANGED <<atLast, next, shift, scene>>
    BY <1>3 DEF Reset
  <2>2. 0 \in 0..SeqSpace - 1
    BY ReceiveConstants
  <2>3. <<>> \in Seq(Packets)
    OBVIOUS
  <2>4. Packets' = Packets
    BY <2>1 DEF Packets
  <2>. QED  BY <2>1, <2>2, <2>3, <2>4 DEF SessionInv
<1>4. ASSUME NEW s \in scene.sources, Jump(s)  PROVE SessionInv'
  <2>1. PICK d \in 1..TsSpace - 1 :
          /\ shift' = [shift EXCEPT ![s] = (@ + d) % TsSpace]
          /\ UNCHANGED <<lockVars, statVars, timeVars, next, scene, first, got>>
    BY <1>4 DEF Jump
  <2>2. s \in Ssrcs /\ shift[s] \in Nat
    BY SceneTypes DEF SessionInv
  <2>3. (shift[s] + d) % TsSpace \in Nat
    <3>1. shift[s] + d \in Int
      BY <2>2
    <3>. QED  BY <3>1, ReceiveConstants, ModRange
  <2>4. shift' \in [Ssrcs -> Nat]
    BY <2>1, <2>2, <2>3 DEF SessionInv
  <2>5. Packets' = Packets
    BY <2>1 DEF Packets
  <2>. QED  BY <2>1, <2>4, <2>5 DEF SessionInv, lockVars, statVars, timeVars
<1>5. CASE UNCHANGED vars
  <2>1. Packets' = Packets
    BY <1>5 DEF Packets, vars, envVars
  <2>. QED  BY <1>5, <2>1 DEF SessionInv, vars, lockVars, statVars, timeVars, envVars, histVars
<1>. QED  BY <1>1, <1>2, <1>3, <1>4, <1>5 DEF Next

LEMMA OnlySource ==
  ASSUME SessionInv, OneSource, NEW s \in scene.sources
  PROVE  scene.sources = {s}
<1>1. IsFiniteSet(scene.sources)
  BY SceneTypes, ReceiveConstants, FS_Subset
<1>2. \E x : scene.sources = {x}
  BY <1>1, FS_Singleton DEF OneSource
<1>. QED  BY <1>2

\* A packet from the only source is behind all others, and gets its number.
LEMMA ArriveCount ==
  ASSUME Orderly, CountInv, OneSource, NEW s \in scene.sources, Receive(s)
  PROVE  recv' > 0 /\ LossInv' /\ GotInv(s)'
<1>1. PICK n \in Nat : Arrives(s, n)
  BY ReceiveArrives DEF CountInv
<1>2. /\ SessionInv /\ s \in Ssrcs /\ next[s] \in Nat /\ next \in [Ssrcs -> Nat]
      /\ recv \in Nat /\ since \in 0..recv /\ first \in Nat /\ atLast \in Nat /\ cum \in Int
      /\ lo \in 0..SeqSpace - 1 /\ hi \in 0..SeqSpace - 1
      /\ scene.burst \in Nat /\ scene.final \in Nat
  BY SceneTypes DEF CountInv, SessionInv
<1>3. scene.late = 0 /\ scene.burst + 2 =< LoopWindow /\ scene.final < SeqSpace * SeqSpace
  BY <1>2 DEF Orderly, OneSource, SessionInv
<1>4. n >= next[s] /\ n =< next[s] + scene.burst /\ n =< scene.final
  BY <1>1, <1>2, <1>3 DEF Arrives
<1>5. scene' = scene /\ next'[s] = n + 1
  <2>1. scene' = scene /\ next' = [next EXCEPT ![s] = IF n < @ THEN @ ELSE n + 1]
    BY <1>1 DEF Arrives
  <2>. QED  BY <1>2, <1>4, <2>1
<1>6. Accepted(s)
  BY <1>2, OnlySource DEF Accepted, SessionInv
<1>. DEFINE q == SeqNrOf(n)
<1>7. /\ recv' = recv + 1 /\ since' = since + 1 /\ cum' = cum
      /\ lo' = (IF q > lo \/ Loops(q) THEN q ELSE lo)
      /\ hi' = (IF Loops(q) THEN (hi + 1) % SeqSpace ELSE hi)
      /\ atLast' = (IF recv + 1 = 1 THEN q ELSE atLast)
  BY <1>1, <1>6 DEF Arrives, Count
<1>8. /\ first' = (IF recv = 0 THEN n ELSE first)
      /\ got' = got \cup {<<s, n>>}
  BY <1>1, <1>6 DEF Arrives
<1>9. q \in 0..SeqSpace - 1
  BY ReceiveConstants, ModRange DEF SeqNrOf
<1>10. Numbers' = Numbers \cup {n}
  <2>. DEFINE x == <<s, n>>
  <2>1. x[2] = n
    OBVIOUS
  <2>2. got' = got \cup {x}
    BY <1>8
  <2>. HIDE DEF x
  <2>3. {p[2] : p \in got'} = {p[2] : p \in got} \cup {x[2]}
    BY <2>2
  <2>. QED  BY <2>1, <2>3 DEF Numbers
<1>11. CASE recv = 0
  <2>1. lo = 0 /\ hi = 0 /\ cum = 0 /\ got = {} /\ since = 0
    BY <1>2, <1>11 DEF SessionInv
  <2>2. ~Loops(q)
    BY <2>1, ReceiveConstants DEF Loops
  <2>3. lo' = q /\ hi' = 0 /\ first' = n /\ atLast' = q
    <3>. HIDE DEF q
    <3>. QED  BY <1>7, <1>8, <1>9, <1>11, <2>1, <2>2
  <2>4. Newest' = n /\ Reported' = n
    <3>1. ExtSeq' = 0 * SeqSpace + q
      BY <2>3 DEF ExtSeq
    <3>2. SeqNrOf(first)' = q
      BY <2>3 DEF SeqNrOf
    <3>. HIDE DEF q
    <3>. QED  BY <1>9, <2>3, <3>1, <3>2, ReceiveConstants DEF Newest, Reported
  <2>5. Numbers' = {n} /\ got' = {<<s, n>>}
    BY <1>8, <1>10, <2>1 DEF Numbers
  <2>6. IsFiniteSet(Numbers') /\ Cardinality(Numbers') = 1
    BY <2>5, FS_Singleton
  <2>. HIDE DEF q
  <2>7. GotInv(s)'
    BY <1>4, <1>5, <1>7, <1>11, <2>3, <2>4, <2>5, <2>6 DEF GotInv
  <2>8. LossInv'
    BY <1>7, <1>11, <2>1, <2>3, <2>4 DEF LossInv
  <2>. QED  BY <1>7, <1>11, <2>7, <2>8
<1>12. CASE recv > 0
  <2>1. LossInv /\ GotInv(s)
    BY <1>12 DEF CountInv
  <2>2. first' = first /\ atLast' = atLast
    BY <1>2, <1>7, <1>8, <1>12
  <2>3. Newest = next[s] - 1 /\ Newest = (first - (first % SeqSpace)) + (hi * SeqSpace + lo)
    BY <2>1 DEF GotInv, Newest, SeqNrOf, ExtSeq
  <2>4. (first - (first % SeqSpace)) + (hi' * SeqSpace + lo') = n
    <3>. DEFINE E == (first - (first % SeqSpace)) + (hi * SeqSpace + lo)
    <3>1. n < SeqSpace * SeqSpace
      <4>1. SeqSpace * SeqSpace \in Nat
        BY ReceiveConstants
      <4>. QED  BY <1>2, <1>3, <1>4, <4>1
    <3>2. E < n /\ n =< E + 1 + scene.burst
      <4>1. E = next[s] - 1
        BY <2>3
      <4>. HIDE DEF E
      <4>. QED  BY <1>2, <1>4, <4>1
    <3>3. /\ lo' = LowOf(SeqSpace, LoopWindow, lo, n)
          /\ hi' = HighOf(SeqSpace, LoopWindow, lo, hi, n)
      BY <1>7, Zenon DEF Loops, SeqNrOf, LoopsAt, LowOf, HighOf
    <3>4. ExtOf(SeqSpace, first, lo, hi) < n
          /\ n =< ExtOf(SeqSpace, first, lo, hi) + (1 + scene.burst)
      <4>1. E \in Int /\ scene.burst \in Nat
        BY <1>2, <2>3
      <4>. HIDE DEF E
      <4>2. n =< E + (1 + scene.burst)
        BY <3>2, <4>1
      <4>. QED  BY <3>2, <4>2 DEF ExtOf, E
    <3>5. ExtOf(SeqSpace, first, lo', hi') = n
      <4>1. /\ SeqSpace \in Nat \ {0} /\ LoopWindow \in Nat /\ 2 * LoopWindow =< SeqSpace
            /\ scene.burst \in Nat /\ scene.burst + 2 =< LoopWindow
            /\ first \in Nat /\ lo \in 0..SeqSpace - 1 /\ hi \in 0..SeqSpace - 1
        BY <1>2, <1>3, ReceiveConstants
      <4>. HIDE DEF E
      <4>2. ExtOf(SeqSpace, first, LowOf(SeqSpace, LoopWindow, lo, n),
                  HighOf(SeqSpace, LoopWindow, lo, hi, n)) = n
        BY <3>1, <3>4, <4>1, NextNumber
      <4>. QED  BY <3>3, <4>2
    <3>. QED  BY <3>5 DEF ExtOf
  <2>5. Newest' = n /\ Reported' = Reported
    BY <2>2, <2>4 DEF Newest, Reported, SeqNrOf, ExtSeq
  <2>6. n \notin Numbers /\ n > Newest /\ Newest \in Int
    <3>1. Newest \in Int /\ n > Newest
      BY <1>2, <1>4, <2>3
    <3>. QED  BY <1>2, <2>1, <3>1 DEF GotInv
  <2>7. IsFiniteSet(Numbers') /\ Cardinality(Numbers') = recv + 1
    BY <1>10, <2>1, <2>6, FS_AddElement DEF GotInv
  <2>8. got' = {<<s, m>> : m \in Numbers'}
    BY <1>8, <1>10, <2>1 DEF GotInv
  <2>. HIDE DEF q
  <2>9. GotInv(s)'
    <3>1. Numbers' \subseteq first..n /\ {first, n} \subseteq Numbers' /\ first =< n
      <4>1. Numbers \subseteq first..Newest /\ first \in Numbers /\ first =< Newest
        BY <2>1 DEF GotInv
      <4>2. first..Newest \subseteq first..n /\ n \in first..n
        BY <1>2, <2>6, <4>1
      <4>3. first =< n
        BY <4>2
      <4>. QED  BY <1>10, <4>1, <4>2, <4>3
    <3>2. recv + 1 =< n - first + 1
      BY <1>2, <2>1, <2>6 DEF GotInv
    <3>. QED  BY <1>4, <1>5, <1>7, <2>2, <2>5, <2>7, <2>8, <3>1, <3>2 DEF GotInv
  <2>10. LossInv'
    <3>1. Reported \in Int
      BY <1>2, ReceiveConstants, ModRange DEF Reported, SeqNrOf
    <3>. QED  BY <1>2, <1>7, <1>12, <2>1, <2>2, <2>5, <2>6, <3>1 DEF LossInv
  <2>. QED  BY <1>2, <1>7, <2>9, <2>10
<1>. QED  BY <1>2, <1>11, <1>12

\* A report counts what was lost since the last one.
LEMMA ReportCount ==
  ASSUME CountInv, OneSource, NEW s \in scene.sources, Report
  PROVE  LossInv' /\ GotInv(s)'
<1>1. /\ recv > 0 /\ since' = 0 /\ atLast' = ExtSeq
      /\ cum' = (IF since = 0 THEN cum ELSE cum + PacketLoss)
      /\ UNCHANGED <<lo, hi, recv, next, scene, first, got>>
  BY DEF Report, histVars
<1>2. /\ recv \in Nat /\ since \in 0..recv /\ first \in Nat /\ atLast \in Nat /\ cum \in Int
      /\ LossInv /\ GotInv(s)
  BY <1>1 DEF CountInv, SessionInv
<1>3. GotInv(s)'
  <2>1. Newest' = Newest /\ Numbers' = Numbers
    BY <1>1 DEF Newest, ExtSeq, Numbers, SeqNrOf
  <2>. QED  BY <1>1, <1>2, <2>1 DEF GotInv
<1>. DEFINE base == first - SeqNrOf(first)
            e == ExtSeq
<1>4. base \in Int /\ e \in Int
  <2>1. SeqNrOf(first) \in Int
    BY <1>2, ReceiveConstants, ModRange DEF SeqNrOf
  <2>2. hi * SeqSpace \in Int
    BY ReceiveConstants DEF CountInv, SessionInv
  <2>3. lo \in Int
    BY DEF CountInv, SessionInv
  <2>4. base \in Int
    BY <1>2, <2>1
  <2>. QED  BY <2>2, <2>3, <2>4 DEF ExtSeq
<1>5. Newest = base + e /\ Reported = base + atLast
  BY DEF Newest, Reported
<1>6. Newest' = base + e /\ Reported' = base + e
  BY <1>1 DEF Newest, Reported, ExtSeq, SeqNrOf
<1>7. PacketLoss = IF e - atLast - since < 0 THEN 0 ELSE e - atLast - since
  BY DEF PacketLoss
<1>8. first =< Newest /\ recv =< Newest - first + 1
  BY <1>2 DEF GotInv
<1>. HIDE DEF base, e
<1>9. first' = first /\ recv' = recv
  BY <1>1
<1>10. CASE since = 0
  <2>1. cum' = cum /\ Reported = Newest
    BY <1>1, <1>2, <1>10 DEF LossInv
  <2>. QED  BY <1>1, <1>2, <1>3, <1>4, <1>5, <1>6, <1>8, <1>9, <1>10, <2>1 DEF LossInv
<1>11. CASE since # 0 /\ since = recv
  <2>1. Reported = first /\ cum = 0
    BY <1>2, <1>11 DEF LossInv
  <2>2. cum' \in {(base + e - first) + 1 - recv, (base + e - first) + 1 - recv - 1}
    <3>1. cum' = (IF e - atLast - since < 0 THEN 0 ELSE e - atLast - since)
      BY <1>1, <1>2, <1>4, <1>7, <1>11, <2>1
    <3>. QED  BY <1>2, <1>4, <1>5, <1>8, <1>11, <2>1, <3>1
  <2>. QED  BY <1>1, <1>2, <1>3, <1>4, <1>5, <1>6, <1>8, <1>9, <1>11, <2>2 DEF LossInv
<1>12. CASE since # 0 /\ since # recv
  <2>1. /\ first =< Reported /\ since =< Newest - Reported
        /\ cum \in {(Reported - first) + 1 - (recv - since), (Reported - first) + 1 - (recv - since) - 1}
    BY <1>2, <1>4, <1>5, <1>12 DEF LossInv
  <2>2. cum' = cum + (e - atLast - since)
    BY <1>1, <1>2, <1>4, <1>5, <1>7, <1>12, <2>1
  <2>3. cum' \in {(base + e - first) + 1 - recv, (base + e - first) + 1 - recv - 1}
    BY <1>2, <1>4, <1>5, <2>1, <2>2
  <2>. QED  BY <1>1, <1>2, <1>3, <1>4, <1>5, <1>6, <1>8, <1>9, <1>12, <2>3 DEF LossInv
<1>. QED  BY <1>3, <1>10, <1>11, <1>12

LEMMA CountInvStep ==
  ASSUME Orderly, CountInv, [Next]_vars
  PROVE  CountInv'
<1>1. SessionInv'
  BY ReceiveSession, OtherSession DEF CountInv
<1>2. scene' = scene
  BY DEF Next, Receive, Deliver, Report, Reset, Jump, vars, envVars
<1>3. SUFFICES ASSUME OneSource, recv' > 0
               PROVE  LossInv' /\ \A s \in scene.sources : GotInv(s)'
  BY <1>1, <1>2 DEF CountInv, OneSource
<1>4. ASSUME NEW s \in scene.sources, Receive(s)
      PROVE  LossInv' /\ \A x \in scene.sources : GotInv(x)'
  <2>1. LossInv' /\ GotInv(s)'
    BY <1>3, <1>4, ArriveCount
  <2>2. scene.sources = {s}
    BY <1>3, <1>4, OnlySource DEF CountInv
  <2>. QED  BY <2>1, <2>2, Zenon
<1>5. CASE Report
  <2>1. PICK s \in scene.sources : TRUE
    <3>1. recv > 0
      BY <1>5 DEF Report
    <3>. QED  BY <3>1 DEF CountInv, SessionInv
  <2>2. LossInv' /\ GotInv(s)'
    BY <1>3, <1>5, ReportCount
  <2>3. scene.sources = {s}
    BY <1>3, OnlySource DEF CountInv
  <2>. QED  BY <2>2, <2>3, Zenon
<1>6. CASE Reset
  BY <1>3, <1>6 DEF Reset
<1>7. CASE UNCHANGED <<lo, hi, atLast, cum, recv, since, first, got, next, scene>>
  <2>1. Newest' = Newest /\ Reported' = Reported /\ Numbers' = Numbers
    BY <1>7 DEF Newest, Reported, ExtSeq, Numbers, SeqNrOf
  <2>. QED  BY <1>3, <1>7, <2>1 DEF CountInv, LossInv, GotInv
<1>8. Deliver => UNCHANGED <<lo, hi, atLast, cum, recv, since, first, got, next, scene>>
  BY DEF Deliver, statVars, envVars
<1>9. ASSUME NEW s \in scene.sources, Jump(s)
      PROVE  UNCHANGED <<lo, hi, atLast, cum, recv, since, first, got, next, scene>>
  BY <1>9 DEF Jump, statVars
<1>10. UNCHANGED vars => UNCHANGED <<lo, hi, atLast, cum, recv, since, first, got, next, scene>>
  BY DEF vars, statVars, envVars, histVars
<1>. QED  BY <1>4, <1>5, <1>6, <1>7, <1>8, <1>9, <1>10 DEF Next

LEMMA CountInvStart == Init => CountInv
<1>. SUFFICES ASSUME Init  PROVE CountInv
  OBVIOUS
<1>1. scene \in Scenes /\ scene \in Scene
  BY ReceiveConstants DEF Init
<1>2. 0 \in 0..SeqSpace - 1 /\ scene.base \in Nat
  BY <1>1, ReceiveConstants DEF Scene
<1>3. next \in [Ssrcs -> Nat] /\ shift \in [Ssrcs -> Nat] /\ rq \in Seq(Packets)
  BY <1>2 DEF Init
<1>. QED  BY <1>1, <1>2, <1>3 DEF Init, CountInv, SessionInv

LEMMA NewestIsMax ==
  ASSUME CountInv, recv > 0, OneSource
  PROVE  Max(Numbers) = Newest
<1>1. PICK s \in scene.sources : GotInv(s)
  BY DEF CountInv, SessionInv
<1>2. /\ Numbers \subseteq first..Newest /\ Newest \in Numbers
      /\ first =< Newest /\ first \in Nat
  BY <1>1 DEF GotInv, CountInv, SessionInv
<1>. HIDE DEF Newest, Numbers
<1>3. \A x \in Numbers : x \in Int /\ x =< Newest
  BY <1>2
<1>4. \A x \in Numbers : (\A y \in Numbers : x >= y) <=> x = Newest
  BY <1>2, <1>3
<1>. QED  BY <1>2, <1>4 DEF Max

\* If the packets of a source come in order and not as many are lost in a row
\* as could hide that their numbers have wrapped, the extended number of
\* rtp_session_rtp_parse is that of the newest packet received, with the right
\* cycles.
THEOREM ExtendedNumberIsRight ==
  ASSUME Orderly
  PROVE  Spec => []ExtSeqIsNewest
<1>1. CountInv => ExtSeqIsNewest
  <2>1. SUFFICES ASSUME CountInv, recv > 0, OneSource
                 PROVE  Newest = Max(Numbers)
    BY DEF ExtSeqIsNewest, Newest
  <2>. QED  BY <2>1, NewestIsMax
<1>2. CountInv /\ [Next]_vars => CountInv'
  BY CountInvStep
<1>. QED  BY <1>1, <1>2, CountInvStart, PTL DEF Spec

\* Of such a stream the reports (report_block_init) never count a packet lost
\* that was not, and leave out at most one.
THEOREM LossIsCounted ==
  ASSUME Orderly
  PROVE  Spec => []LossIsNearlyTrue
<1>1. CountInv => LossIsNearlyTrue
  <2>1. SUFFICES ASSUME CountInv, recv > 0, since = 0, OneSource
                 PROVE  cum \in {Lost, Lost - 1}
    BY DEF LossIsNearlyTrue
  <2>2. PICK s \in scene.sources : GotInv(s)
    BY <2>1 DEF CountInv, SessionInv
  <2>3. /\ Numbers \subseteq first..Newest /\ first \in Numbers /\ Newest \in Numbers
        /\ Cardinality(Numbers) = recv /\ first =< Newest /\ first \in Nat /\ recv \in Nat
    BY <2>1, <2>2 DEF GotInv, CountInv, SessionInv
  <2>4. Newest \in Int
    BY <2>3
  <2>5. Max(Numbers) = Newest /\ Min(Numbers) = first
    <3>. HIDE DEF Newest, Numbers
    <3>1. \A x \in Numbers : x \in Int /\ first =< x /\ x =< Newest
      BY <2>3
    <3>2. \A x \in Numbers : (\A y \in Numbers : x =< y) <=> x = first
      BY <2>3, <2>4, <3>1
    <3>3. Min(Numbers) = first
      BY <2>3, <3>2 DEF Min
    <3>4. Max(Numbers) = Newest
      BY <2>1, NewestIsMax
    <3>. QED  BY <3>3, <3>4
  <2>6. Lost = Newest - first + 1 - recv
    BY <2>3, <2>5 DEF Lost
  <2>7. Reported = Newest /\ cum \in {(Reported - first) + 1 - recv, (Reported - first) + 1 - recv - 1}
    BY <2>1, <2>3 DEF CountInv, LossInv
  <2>. QED  BY <2>3, <2>4, <2>6, <2>7
<1>2. CountInv /\ [Next]_vars => CountInv'
  BY CountInvStep
<1>. QED  BY <1>1, <1>2, CountInvStart, PTL DEF Spec
-----------------------------------------------------------------------------
(***************************************************************************)
(* How long a source is turned down whose clock jumps.  Of one source      *)
(* whose packets come in order, number m has a timestamp of the old clock  *)
(* if m < j and one of the new clock from j on.  The packets of the jitter *)
(* buffer have the numbers f, all later than m, that of the packet that    *)
(* was delivered last.                                                     *)
(*                                                                         *)
(* Before the jump the newest packet is at most Slack later than m.  After *)
(* it, as long as a packet of the old clock was the last to be delivered,  *)
(* every packet that does not make the session resynchronize is nearer     *)
(* than TsJump to one of those that still may have been: with D, what the  *)
(* clock jumped by, all their numbers lie in a window behind c, the first  *)
(* of these packets, and of a window that long only so many are too old.   *)
(***************************************************************************)
\* The packets' timestamps and numbers have room for the window.
Roomy == \A z \in Scenes : Cardinality(z.sources) = 1 =>
  /\ 2 * (TsJump + Slack(z) + z.burst) + 1 < TsSpace \div 2
  /\ 2 * (TsJump + Slack(z) + z.burst) + 1 < SeqSpace \div 2

Calm == Resyncs /\ OneSource /\ scene.late = 0 /\ scene.jumps =< 1

Clock(s, j, m) == IF m < j THEN 0 ELSE shift[s]

Stored(q, s, j, f) ==
  /\ f \in Seq(Int) /\ Len(f) = Len(q) /\ Len(f) =< MaxRqSize /\ j =< next[s]
  /\ \A i \in 1..Len(f) :
       /\ q[i].seq = f[i] % SeqSpace
       /\ q[i].ts = (f[i] + Clock(s, j, f[i])) % TsSpace
       /\ f[i] < next[s]
  /\ \A i, k \in 1..Len(f) : i < k => f[i] < f[k]

\* Nothing was delivered since the session resynchronized.
Unread(s, f) ==
  /\ deaf =< TsJump + Slack(scene) /\ (deaf > 0 => f = <<>>)
  /\ \A i \in 1..Len(f) : next[s] - 1 - f[i] =< (Len(f) - i) * (scene.burst + 1)

Far == 2 * (TsJump + Slack(scene)) + scene.burst + 1

\* The packet delivered last is of the old clock, and the source has a new one.
AcrossJump(s, j, m, c, D) ==
  /\ c =< m /\ m =< c + Slack(scene) /\ j =< c + Slack(scene) + 1
  /\ \/ deaf = 0 /\ next[s] - 1 - c =< Slack(scene)
     \/ /\ D % TsSpace = shift[s] /\ D >= 0 - TsJump - Slack(scene) - scene.burst - 1
        /\ c - TsJump =< next[s] - 1 + D
        /\ next[s] - 1 + D =< c + Slack(scene) + TsJump - 1
        /\ deaf =< TsJump + Slack(scene) /\ deaf =< next[s] + D - c + TsJump

Delivered(s, j, m, c, D, f) ==
  /\ lastTs = (m + Clock(s, j, m)) % TsSpace
  /\ m < next[s] /\ next[s] - m =< Far /\ \A i \in 1..Len(f) : m < f[i]
  /\ shift[s] = 0 => deaf = 0 /\ next[s] - 1 - m =< Slack(scene)
  /\ shift[s] # 0 /\ j =< m => deaf =< TsJump + Slack(scene)
  /\ shift[s] # 0 /\ m < j => AcrossJump(s, j, m, c, D)

\* Where the packets and the clock of s are.
Placing(s, j, m, c, D, f) ==
  /\ Stored(rq, s, j, f)
  /\ ~started => Unread(s, f)
  /\ started => Delivered(s, j, m, c, D, f)

Jumps(s) ==
  /\ shift[s] \in 0..TsSpace - 1
  /\ todo.jumps =< scene.jumps /\ (shift[s] # 0 => todo.jumps < scene.jumps)

Traced(s) == \E j, m, c, D \in Int, f \in Seq(Int) : Placing(s, j, m, c, D, f)

DeafInv ==
  /\ SessionInv /\ RunInv /\ deaf \in Nat
  /\ Calm => \A s \in scene.sources : Jumps(s) /\ Traced(s)
-----------------------------------------------------------------------------
LEMMA MaxOfTwo ==
  ASSUME NEW a \in Int, NEW b \in Int
  PROVE  Max({a, b}) \in Int /\ Max({a, b}) >= a /\ Max({a, b}) >= b
<1>1. \E x \in {a, b} : \A y \in {a, b} : x >= y
  BY a >= b \/ b >= a
<1>. QED  BY <1>1 DEF Max

LEMMA SlackIs ==
  ASSUME NEW z \in Scene
  PROVE  /\ Slack(z) \in Nat /\ TsJump \in Nat \ {0} /\ TsJump - 1 =< Slack(z)
         /\ (MaxRqSize - 1) * (z.burst + 1) =< Slack(z)
         /\ MaxRqSize \in Nat /\ z.burst \in Nat
<1>1. TsJump \in Nat \ {0} /\ MaxRqSize \in Nat
  BY SpaceAssumption, ReceiveAssumption DEF SpaceAssumption, ReceiveAssumption
<1>2. z.burst \in Nat
  BY DEF Scene
<1>3. (MaxRqSize - 1) * (z.burst + 1) \in Int
  BY <1>1, <1>2
<1>. DEFINE x == (MaxRqSize - 1) * (z.burst + 1)
            y == TsJump - 1
<1>4. Max({y, x}) \in Int /\ Max({y, x}) >= y /\ Max({y, x}) >= x /\ y >= 0
  <2>1. x \in Int /\ y \in Int /\ y >= 0
    BY <1>1, <1>3
  <2>. HIDE DEF x, y
  <2>. QED  BY <2>1, MaxOfTwo
<1>. QED  BY <1>1, <1>2, <1>4 DEF Slack

LEMMA HalfOfSpace ==
  /\ TsSpace \in Nat \ {0} /\ TsSpace \div 2 \in Nat /\ TsSpace = 2 * (TsSpace \div 2)
  /\ TsJump < TsSpace \div 2 /\ TsJump \in Nat /\ TsJump >= 1
  /\ SeqSpace \in Nat \ {0} /\ SeqSpace \div 2 \in Nat /\ SeqSpace = 2 * (SeqSpace \div 2)
  BY SpaceAssumption, ReceiveAssumption DEF SpaceAssumption, ReceiveAssumption

\* A number that is nearly one of 0..w - 1.
LEMMA ModNear ==
  ASSUME NEW w \in Nat \ {0}, NEW x \in Int, -w < x, x < w
  PROVE  x % w = IF x >= 0 THEN x ELSE x + w
<1>1. CASE x >= 0
  <2>1. x \in 0..w - 1
    BY <1>1
  <2>. QED  BY <1>1, <2>1, ModSmall
<1>2. CASE x < 0
  <2>1. x + w \in 0..w - 1 /\ x = w * (-1) + (x + w)
    BY <1>2
  <2>2. x % w = x + w
    BY <2>1, ModUnique
  <2>. QED  BY <1>2, <2>2
<1>. QED  BY <1>1, <1>2

\* The tests of rtp_session_rtp_parse, by how much later than l the timestamp t
\* is.
LEMMA Judged ==
  ASSUME NEW l \in 0..TsSpace - 1, NEW t \in 0..TsSpace - 1
  PROVE  LET d == (t - l) % TsSpace
             half == TsSpace \div 2
         IN  /\ d \in 0..TsSpace - 1
             /\ JumpsAhead(l, t) <=> started /\ TsJump =< d /\ d < TsJump + half
             /\ TooOld(l, t) <=> started /\ half + TsJump =< d
             /\ JumpsBack(l, t) <=> started /\ half + TsJump =< d /\ d < TsSpace - TsJump
<1>. DEFINE T == TsSpace
            J == TsJump
            h == TsSpace \div 2
            d == (t - l) % T
<1>1. /\ T \in Nat \ {0} /\ h \in Nat /\ T = 2 * h /\ J < h /\ J \in Nat /\ J >= 1
      /\ l \in 0..T - 1 /\ t \in 0..T - 1
  BY HalfOfSpace
<1>. HIDE DEF T, J, h
<1>2. d = (IF t >= l THEN t - l ELSE (t - l) + T) /\ d \in 0..T - 1
  <2>1. t - l \in Int /\ -T < t - l /\ t - l < T
    BY <1>1
  <2>2. d = IF t - l >= 0 THEN t - l ELSE (t - l) + T
    BY <1>1, <2>1, ModNear
  <2>. QED  BY <1>1, <2>1, <2>2
<1>. HIDE DEF d
<1>3. TsIsNewer(t, l + J) <=> J =< d /\ d < J + h
  <2>1. (t - (l + J)) % T = IF d >= J THEN d - J ELSE (d - J) + T
    <3>1. d - J \in Int /\ -T < d - J /\ d - J < T
      BY <1>1, <1>2
    <3>2. (d - J) % T = IF d - J >= 0 THEN d - J ELSE (d - J) + T
      BY <1>1, <3>1, ModNear
    <3>3. (d - J) % T = (t - (l + J)) % T
      <4>1. CASE t >= l
        BY <1>1, <1>2, <4>1
      <4>2. CASE t < l
        <5>1. d - J = (t - (l + J)) + T * 1 /\ t - (l + J) \in Int
          BY <1>1, <1>2, <4>2
        <5>2. ((t - (l + J)) + T * 1) % T = (t - (l + J)) % T
          <6>1. 1 \in Int
            OBVIOUS
          <6>. QED  BY <1>1, <5>1, <6>1, ModAdd, Zenon
        <5>. QED  BY <5>1, <5>2
      <4>3. t >= l \/ t < l
        BY <1>1
      <4>. QED  BY <4>1, <4>2, <4>3
    <3>. QED  BY <1>1, <1>2, <3>2, <3>3
  <2>. QED  BY <1>1, <1>2, <2>1 DEF TsIsNewer, T, h
<1>4. TsIsStrictlyNewer(l, t) <=> h < d
  <2>1. (l - t) % T = IF d = 0 THEN 0 ELSE T - d
    <3>1. l - t \in Int /\ -T < l - t /\ l - t < T
      BY <1>1
    <3>2. (l - t) % T = IF l - t >= 0 THEN l - t ELSE (l - t) + T
      BY <1>1, <3>1, ModNear
    <3>. QED  BY <1>1, <1>2, <3>2
  <2>2. l # t <=> d # 0
    BY <1>1, <1>2
  <2>. QED  BY <1>1, <1>2, <2>1, <2>2 DEF TsIsStrictlyNewer, TsIsNewer, T, h
<1>5. TsIsStrictlyNewer(l, (t + J) % T) <=> h < d + J /\ d + J < T
  <2>. DEFINE u == (t + J) % T
  <2>1. u = (IF t + J < T THEN t + J ELSE t + J - T) /\ u \in 0..T - 1
    <3>1. CASE t + J < T
      <4>1. t + J \in 0..T - 1
        BY <1>1, <3>1
      <4>. QED  BY <1>1, <3>1, <4>1, ModSmall
    <3>2. CASE t + J >= T
      <4>1. t + J - T \in 0..T - 1 /\ t + J = T * 1 + (t + J - T)
        BY <1>1, <3>2
      <4>2. u = t + J - T
        BY <1>1, <4>1, ModUnique
      <4>. QED  BY <1>1, <3>2, <4>1, <4>2
    <3>. QED  BY <1>1, <3>1, <3>2
  <2>. HIDE DEF u
  <2>2. (l - u) % T = IF l - u >= 0 THEN l - u ELSE (l - u) + T
    <3>1. l - u \in Int /\ -T < l - u /\ l - u < T
      BY <1>1, <2>1
    <3>. QED  BY <1>1, <3>1, ModNear
  <2>3. TsIsStrictlyNewer(l, u) <=> (l - u) % T < h /\ l # u
    BY DEF TsIsStrictlyNewer, TsIsNewer, T, h
  <2>4. ((l - u) % T < h /\ l # u) <=> h < d + J /\ d + J < T
    <3>1. CASE t >= l
      <4>1. d = t - l
        BY <1>2, <3>1
      <4>. QED  BY <1>1, <3>1, <4>1, <2>1, <2>2
    <3>2. CASE t < l
      <4>1. d = (t - l) + T
        BY <1>1, <1>2, <3>2
      <4>. QED  BY <1>1, <3>2, <4>1, <2>1, <2>2
    <3>. QED  BY <1>1, <3>1, <3>2
  <2>. QED  BY <2>3, <2>4 DEF u
<1>6. JumpsAhead(l, t) <=> started /\ J =< d /\ d < J + h
  BY <1>3 DEF JumpsAhead, J
<1>7. TooOld(l, t) <=> started /\ h + J =< d
  BY <1>1, <1>2, <1>4, <1>6 DEF TooOld
<1>8. JumpsBack(l, t) <=> started /\ h + J =< d /\ d < T - J
  BY <1>1, <1>2, <1>5, <1>7 DEF JumpsBack, J, T
<1>. QED  BY <1>2, <1>6, <1>7, <1>8 DEF T, J, h, d
-----------------------------------------------------------------------------
LEMMA RestOf ==
  ASSUME NEW S, NEW q \in Seq(S), NEW k \in 0..Len(q)
  PROVE  /\ SubSeq(q, k + 1, Len(q)) \in Seq(S)
         /\ Len(SubSeq(q, k + 1, Len(q))) = Len(q) - k
         /\ \A i \in 1..(Len(q) - k) : SubSeq(q, k + 1, Len(q))[i] = q[i + k]
  OBVIOUS

\* r and the numbers h are q and the numbers f, with packet p, of number n,
\* behind them and without the first ones.
Appended(q, f, p, n, r, h) ==
  /\ Len(h) = Len(r) /\ Len(r) \in Nat
  /\ \A i \in 1..Len(r) :
       \/ i = Len(r) /\ r[i] = p /\ h[i] = n
       \/ \E k \in 1..Len(q) : /\ k - i = (Len(q) + 1) - Len(r)
                               /\ i < Len(r) /\ r[i] = q[k] /\ h[i] = f[k]

\* A packet that is newer than all in the queue goes to its end, and the
\* oldest may have to go.
LEMMA QueueAppends ==
  ASSUME NEW P, NEW q \in Seq(P), NEW p \in P, NEW M \in Nat, NEW n \in Int,
         NEW f \in Seq(Int), Len(f) = Len(q), NEW r, r = queue_packet(q, M, p), p.seq = n % SeqSpace,
         \A i \in 1..Len(q) : /\ q[i].seq = f[i] % SeqSpace
                              /\ f[i] < n /\ n - f[i] < SeqSpace \div 2
  PROVE  Len(r) =< M /\ \E h \in Seq(Int) : Appended(q, f, p, n, r, h)
<1>1. SeqSpace \in Nat \ {0} /\ SeqSpace \div 2 \in Nat /\ SeqSpace = 2 * (SeqSpace \div 2)
  BY HalfOfSpace
<1>2. ASSUME NEW i \in 1..Len(q)
      PROVE  SeqIsGreater(p.seq, q[i].seq) /\ q[i].seq # p.seq
  <2>. DEFINE d == n - f[i]
  <2>0. f[i] \in Int /\ f[i] < n /\ n - f[i] < SeqSpace \div 2
    OBVIOUS
  <2>1. f[i] \in Int /\ d \in Int /\ 0 < d /\ d < SeqSpace \div 2 /\ d \in 0..SeqSpace - 1
    <3>1. \A a \in Int : a < n /\ n - a < SeqSpace \div 2 =>
            /\ n - a \in Int /\ 0 < n - a /\ n - a < SeqSpace \div 2
            /\ n - a \in 0..SeqSpace - 1
      BY <1>1
    <3>. QED  BY <2>0, <3>1
  <2>2. (p.seq - q[i].seq) % SeqSpace = d
    <3>1. ((n % SeqSpace) - (f[i] % SeqSpace)) % SeqSpace = (n - f[i]) % SeqSpace
      BY <1>1, <2>1, ModDiff
    <3>2. d % SeqSpace = d
      BY <1>1, <2>1, ModSmall
    <3>. QED  BY <3>1, <3>2
  <2>3. SeqIsGreater(p.seq, q[i].seq)
    BY <2>1, <2>2 DEF SeqIsGreater
  <2>4. q[i].seq # p.seq
    <3>1. SUFFICES ASSUME q[i].seq = p.seq  PROVE FALSE
      OBVIOUS
    <3>2. p.seq \in Int
      BY <1>1, ModRange
    <3>3. p.seq - q[i].seq = 0 /\ 0 \in 0..SeqSpace - 1
      BY <1>1, <3>1, <3>2
    <3>4. 0 % SeqSpace = 0
      BY <1>1, <3>3, ModSmall
    <3>. QED  BY <2>1, <2>2, <3>3, <3>4
  <2>. QED  BY <2>3, <2>4
<1>. DEFINE Fits(h) == Len(r) =< M /\ Appended(q, f, p, n, r, h)
<1>0. SUFFICES \E h \in Seq(Int) : Fits(h)
  OBVIOUS
<1>. DEFINE stops == {i \in DOMAIN q : SeqIsGreater(p.seq, q[i].seq)}
            place == Max(stops)
            put == rtp_putq(q, p)
<1>3. put = IF stops = {} THEN <<p>> \o q
          ELSE IF q[place].seq = p.seq THEN q
          ELSE SubSeq(q, 1, place) \o <<p>> \o SubSeq(q, place + 1, Len(q))
  BY DEF rtp_putq
<1>4. stops = 1..Len(q)
  BY <1>2
<1>5. Len(q) # 0 => place = Len(q)
  <2>1. Len(q) # 0 => Max(1..Len(q)) = Len(q)
    BY MaxOfInterval
  <2>. QED  BY <1>4, <2>1
<1>6. Len(q) = 0 => stops = {} /\ q = <<>>
  BY <1>4
<1>7. Len(q) # 0 => stops # {} /\ Len(q) \in 1..Len(q)
  BY <1>4
<1>. HIDE DEF stops, place, put
<1>8. put \in Seq(P) /\ Len(put) = Len(q) + 1 /\ put[Len(q) + 1] = p
      /\ \A k \in 1..Len(q) : put[k] = q[k]
  <2>1. CASE Len(q) = 0
    <3>1. put = <<p>> \o <<>>
      BY <2>1, <1>3, <1>6
    <3>. QED  BY <3>1, <2>1
  <2>2. CASE Len(q) # 0
    <3>1. put = SubSeq(q, 1, Len(q)) \o <<p>> \o SubSeq(q, Len(q) + 1, Len(q))
      <4>1. q[place].seq # p.seq
        BY <2>2, <1>2, <1>5, <1>7
      <4>. QED  BY <4>1, <2>2, <1>3, <1>5, <1>7
    <3>2. Len(q) \in 0..Len(q)
      OBVIOUS
    <3>3. put \in Seq(P) /\ Placed(q, p, Len(q), put)
      BY <3>1, <3>2, PutBehind
    <3>. QED  BY <3>3 DEF Placed
  <2>. QED  BY <2>1, <2>2
<1>. DEFINE over == Len(put) - M
            g == Append(f, n)
<1>9. /\ r = IF over > 0 THEN SubSeq(put, over + 1, Len(put)) ELSE put
      /\ over \in Int /\ Len(put) \in Nat /\ Len(q) \in Nat
  BY <1>8 DEF queue_packet, put
<1>10. g \in Seq(Int) /\ Len(g) = Len(put) /\ g[Len(q) + 1] = n
       /\ \A k \in 1..Len(q) : g[k] = f[k]
  BY <1>8
<1>. HIDE DEF g
<1>11. CASE over > 0
  <2>. DEFINE h == SubSeq(g, over + 1, Len(put))
              u == SubSeq(put, over + 1, Len(put))
  <2>1. over \in 0..Len(put)
    BY <1>9, <1>11
  <2>. HIDE DEF over
  <2>2. /\ h \in Seq(Int) /\ Len(h) = Len(put) - over /\ Len(u) = Len(put) - over
        /\ \A i \in 1..(Len(put) - over) : h[i] = g[i + over] /\ u[i] = put[i + over]
    <3>1. h = SubSeq(g, over + 1, Len(g)) /\ over \in 0..Len(g)
      BY <2>1, <1>10
    <3>2. /\ h \in Seq(Int) /\ Len(h) = Len(g) - over
          /\ \A i \in 1..(Len(g) - over) : h[i] = g[i + over]
      BY <3>1, <1>10, RestOf
    <3>3. /\ Len(u) = Len(put) - over
          /\ \A i \in 1..(Len(put) - over) : u[i] = put[i + over]
      BY <2>1, <1>8, RestOf
    <3>. QED  BY <3>2, <3>3, <1>10
  <2>3. r = u /\ Len(put) - over = M
    BY <1>9, <1>11 DEF over
  <2>. HIDE DEF h, u
  <2>4. ASSUME NEW i \in 1..M
        PROVE  \/ i = M /\ u[i] = p /\ h[i] = n
               \/ \E k \in 1..Len(q) : /\ k - i = (Len(q) + 1) - M
                                       /\ i < M /\ u[i] = q[k] /\ h[i] = f[k]
    <3>1. CASE i = M
      <4>1. i + over = Len(q) + 1
        BY <3>1, <1>8, <1>9, <2>3
      <4>. QED  BY <3>1, <4>1, <2>2, <2>3, <1>8, <1>10
    <3>2. CASE i < M
      <4>0. over \in Nat /\ over + M = Len(q) + 1 /\ Len(q) \in Nat
        BY <1>8, <1>9, <1>11, <2>3
      <4>1. i + over \in 1..Len(q) /\ (i + over) - i = (Len(q) + 1) - M
        BY <3>2, <4>0
      <4>2. u[i] = q[i + over] /\ h[i] = f[i + over]
        BY <4>1, <2>2, <2>3, <1>8, <1>10
      <4>. QED  BY <3>2, <4>1, <4>2
    <3>. QED  BY <3>1, <3>2
  <2>5. r = u /\ Len(h) = Len(r) /\ Len(r) = M
    BY <2>2, <2>3
  <2>6. ASSUME NEW i \in 1..Len(r)
        PROVE  \/ i = Len(r) /\ r[i] = p /\ h[i] = n
               \/ \E k \in 1..Len(q) : /\ k - i = (Len(q) + 1) - Len(r)
                                       /\ i < Len(r) /\ r[i] = q[k] /\ h[i] = f[k]
    BY <2>4, <2>5
  <2>7. Len(h) = Len(r) /\ Len(r) =< M /\ Len(r) \in Nat /\ h \in Seq(Int)
    BY <2>2, <2>5
  <2>8. Fits(h) /\ h \in Seq(Int)
    BY <2>6, <2>7 DEF Appended
  <2>. HIDE DEF Fits
  <2>. QED  BY <2>8
<1>12. CASE over =< 0
  <2>1. r = put /\ Len(put) =< M
    BY <1>9, <1>12
  <2>2. ASSUME NEW i \in 1..Len(put)
        PROVE  \/ i = Len(put) /\ put[i] = p /\ g[i] = n
               \/ \E k \in 1..Len(q) : /\ k - i = (Len(q) + 1) - Len(put)
                                       /\ i < Len(put) /\ put[i] = q[k] /\ g[i] = f[k]
    <3>1. CASE i = Len(q) + 1
      BY <3>1, <1>8, <1>10
    <3>2. CASE i \in 1..Len(q)
      BY <3>2, <1>8, <1>10
    <3>. QED  BY <3>1, <3>2, <1>8, <1>9
  <2>6. ASSUME NEW i \in 1..Len(r)
        PROVE  \/ i = Len(r) /\ r[i] = p /\ g[i] = n
               \/ \E k \in 1..Len(q) : /\ k - i = (Len(q) + 1) - Len(r)
                                       /\ i < Len(r) /\ r[i] = q[k] /\ g[i] = f[k]
    BY <2>1, <2>2
  <2>7. Len(g) = Len(r) /\ Len(r) =< M /\ Len(r) \in Nat /\ g \in Seq(Int)
    BY <2>1, <1>9, <1>10
  <2>3. Fits(g) /\ g \in Seq(Int)
    BY <2>6, <2>7 DEF Appended
  <2>. HIDE DEF Fits
  <2>. QED  BY <2>3
<1>. HIDE DEF Fits
<1>. QED  BY <1>9, <1>11, <1>12

\* rtp_getq takes from the top.
LEMMA GetTakes ==
  ASSUME NEW P, NEW q \in Seq(P), NEW t
  PROVE  \E k \in 0..Len(q) :
           /\ rtp_getq(q, t).ret = IF k = 0 THEN <<>> ELSE <<q[k]>>
           /\ rtp_getq(q, t).rest = SubSeq(q, k + 1, Len(q))
<1>. DEFINE mayTake(k) == \A i \in 1..k : TsIsNewer(t, q[i].ts) /\ (i > 1 => q[i].ts # q[i - 1].ts)
            able == {k \in 0..Len(q) : mayTake(k)}
            most == Max(able)
<1>1. /\ rtp_getq(q, t).ret = (IF most = 0 THEN <<>> ELSE <<q[most]>>)
      /\ rtp_getq(q, t).rest = SubSeq(q, most + 1, Len(q))
  BY DEF rtp_getq
<1>2. most \in 0..Len(q)
  <2>1. able # {} /\ able \in SUBSET (0..Len(q)) /\ Len(q) \in Nat
    <3>1. 0 \in able
      OBVIOUS
    <3>. QED  BY <3>1
  <2>. HIDE DEF able
  <2>. QED  BY <2>1, GreatestOf
<1>. HIDE DEF most
<1>. QED  BY <1>1, <1>2
-----------------------------------------------------------------------------
LEMMA RoomIs ==
  ASSUME Roomy, DeafInv, Calm
  PROVE  /\ Slack(scene) \in Nat /\ TsJump \in Nat /\ TsJump >= 1 /\ scene.burst \in Nat
         /\ TsJump - 1 =< Slack(scene) /\ MaxRqSize \in Nat
         /\ (MaxRqSize - 1) * (scene.burst + 1) =< Slack(scene)
         /\ Far = 2 * (TsJump + Slack(scene)) + scene.burst + 1
         /\ Far + scene.burst < TsSpace \div 2 /\ Far + scene.burst < SeqSpace \div 2
         /\ TsSpace \div 2 \in Nat /\ TsSpace = 2 * (TsSpace \div 2)
<1>1. scene \in Scene /\ scene \in Scenes
  BY SceneTypes DEF DeafInv, SessionInv
<1>2. /\ 2 * (TsJump + Slack(scene) + scene.burst) + 1 < TsSpace \div 2
      /\ 2 * (TsJump + Slack(scene) + scene.burst) + 1 < SeqSpace \div 2
  BY <1>1 DEF Roomy, Calm, OneSource
<1>3. /\ Slack(scene) \in Nat /\ TsJump \in Nat /\ scene.burst \in Nat
      /\ TsJump - 1 =< Slack(scene) /\ MaxRqSize \in Nat
      /\ (MaxRqSize - 1) * (scene.burst + 1) =< Slack(scene)
  BY <1>1, SlackIs
<1>4. Far = 2 * (TsJump + Slack(scene)) + scene.burst + 1
  BY DEF Far
<1>. DEFINE W == Slack(scene)
            b == scene.burst
<1>5. 2 * (TsJump + W) + b + 1 + b = 2 * (TsJump + W + b) + 1
  <2>1. W \in Nat /\ b \in Nat /\ TsJump \in Nat
    BY <1>3
  <2>. HIDE DEF W, b
  <2>. QED  BY <2>1
<1>. QED  BY <1>2, <1>3, <1>4, <1>5, HalfOfSpace

\* Of packets that followed one another, none is older than Slack.
LEMMA QueueIsNear ==
  ASSUME Roomy, DeafInv, Calm, NEW len \in Nat, len =< MaxRqSize, NEW i \in 1..len
  PROVE  (len - i) * (scene.burst + 1) =< Slack(scene)
<1>1. /\ MaxRqSize \in Nat /\ scene.burst \in Nat /\ Slack(scene) \in Nat
      /\ (MaxRqSize - 1) * (scene.burst + 1) =< Slack(scene)
  BY RoomIs
<1>2. \A g \in Nat, x \in Int, y \in Int : x =< y => x * g =< y * g
  OBVIOUS
<1>3. len - i =< MaxRqSize - 1 /\ scene.burst + 1 \in Nat /\ len - i \in Int
      /\ MaxRqSize - 1 \in Int
  BY <1>1
<1>4. (len - i) * (scene.burst + 1) =< (MaxRqSize - 1) * (scene.burst + 1)
  BY <1>2, <1>3
<1>5. (len - i) * (scene.burst + 1) \in Int /\ (MaxRqSize - 1) * (scene.burst + 1) \in Int
  BY <1>3
<1>. HIDE DEF Slack
<1>. QED  BY <1>1, <1>4, <1>5

\* What happens to a packet: the session jumps to it, gives up its clock, turns
\* it down, or queues it.
Sort(s, n) ==
  LET t == TsOf(s, n)
      p == [seq |-> SeqNrOf(n), ts |-> t, ssrc |-> s]
  IN  \/ /\ JumpsAhead(lastTs, t)
         /\ ~started' /\ rq' = queue_packet(<<>>, MaxRqSize, p) /\ deaf' = 0
      \/ /\ JumpsBack(lastTs, t)
         /\ ~started' /\ rq' = <<>> /\ deaf' = deaf + 1
      \/ /\ TooOld(lastTs, t) /\ ~JumpsBack(lastTs, t)
         /\ started' /\ rq' = rq /\ deaf' = deaf + 1
      \/ /\ ~JumpsAhead(lastTs, t) /\ ~TooOld(lastTs, t)
         /\ (started' <=> started) /\ rq' = queue_packet(rq, MaxRqSize, p) /\ deaf' = 0

LEMMA ReceiveSorts ==
  ASSUME DeafInv, Calm, NEW s \in scene.sources, Receive(s)
  PROVE  \E n \in Nat :
           /\ next[s] =< n /\ n =< next[s] + scene.burst /\ next'[s] = n + 1
           /\ Sort(s, n)
           /\ lastTs' = lastTs /\ UNCHANGED <<shift, scene, todo>>
<1>1. PICK n \in Nat : Arrives(s, n)
  BY ReceiveArrives DEF DeafInv
<1>2. /\ next[s] \in Nat /\ scene.burst \in Nat /\ s \in Ssrcs /\ next \in [Ssrcs -> Nat]
  BY SceneTypes DEF DeafInv, SessionInv
<1>3. next[s] =< n /\ n =< next[s] + scene.burst /\ next'[s] = n + 1
  <2>1. scene.late = 0
    BY DEF Calm
  <2>2. n \in (next[s] - 1..next[s] + scene.burst) \ {next[s] - 1}
    BY <1>1, <1>2, <2>1 DEF Arrives
  <2>3. next[s] =< n /\ n =< next[s] + scene.burst
    BY <1>2, <2>2
  <2>4. next' = [next EXCEPT ![s] = IF n < @ THEN @ ELSE n + 1]
    BY <1>1 DEF Arrives
  <2>. QED  BY <1>2, <2>3, <2>4
<1>4. Accepted(s) /\ ~Changes(s)
  <2>1. ssrc_set => ssrc = s
    BY OnlySource DEF DeafInv, SessionInv, Calm
  <2>. QED  BY <2>1 DEF Accepted, Changes
<1>. DEFINE t == TsOf(s, n)
            p == [seq |-> SeqNrOf(n), ts |-> t, ssrc |-> s]
            ahead == JumpsAhead(lastTs, t)
            back == JumpsBack(lastTs, t)
            old == TooOld(lastTs, t)
            kept == IF ahead \/ back THEN <<>> ELSE rq
<1>5. /\ lastTs' = lastTs
      /\ started' = (started /\ ~(ahead \/ back))
      /\ rq' = IF old THEN kept ELSE queue_packet(kept, MaxRqSize, p)
      /\ deaf' = IF old THEN deaf + 1 ELSE 0
  <2>1. CheckTime(s, n)
    BY <1>1 DEF Arrives
  <2>2. Resyncs
    BY DEF Calm
  <2>. QED  BY <1>4, <2>1, <2>2, Zenon DEF CheckTime
<1>6. (back => old) /\ (old => ~ahead) /\ (old => started) /\ (ahead => started)
  BY DEF JumpsBack, TooOld, JumpsAhead
<1>. HIDE DEF t, p, ahead, back, old
<1>7. \/ ahead /\ ~started' /\ rq' = queue_packet(<<>>, MaxRqSize, p) /\ deaf' = 0
      \/ back /\ ~started' /\ rq' = <<>> /\ deaf' = deaf + 1
      \/ old /\ ~back /\ started' /\ rq' = rq /\ deaf' = deaf + 1
      \/ ~ahead /\ ~old /\ (started' <=> started) /\ rq' = queue_packet(rq, MaxRqSize, p) /\ deaf' = 0
  <2>1. CASE ahead
    BY <1>5, <1>6, <2>1
  <2>2. CASE back
    BY <1>5, <1>6, <2>2
  <2>3. CASE old /\ ~back
    BY <1>5, <1>6, <2>3
  <2>4. CASE ~ahead /\ ~old
    <3>1. ~(ahead \/ back)
      BY <1>6, <2>4
    <3>2. kept = rq
      BY <3>1
    <3>3. started' <=> started
      BY <1>5, <3>1
    <3>. QED  BY <1>5, <2>4, <3>2, <3>3
  <2>. QED  BY <1>6, <2>1, <2>2, <2>3, <2>4
<1>8. Sort(s, n)
  BY <1>7 DEF Sort, t, p, ahead, back, old
<1>9. UNCHANGED todo /\ UNCHANGED <<shift, scene>>
  BY <1>1 DEF Receive, Arrives
<1>. QED  BY <1>3, <1>5, <1>8, <1>9

\* The packets of r have the numbers h: those of q, without the first ones,
\* and n.
NumbersOf(s, j, f, n, r, h) ==
  /\ Len(h) = Len(r)
  /\ \A i \in 1..Len(h) :
       /\ r[i].seq = h[i] % SeqSpace
       /\ r[i].ts = (h[i] + Clock(s, j, h[i])) % TsSpace
       /\ \/ i = Len(h) /\ h[i] = n
          \/ \E k \in 1..Len(f) : /\ k - i = (Len(f) + 1) - Len(h)
                                  /\ i < Len(h) /\ h[i] = f[k]

\* A packet n goes behind those of q.
LEMMA StoredBehind ==
  ASSUME Roomy, DeafInv, Calm, NEW s \in scene.sources,
         NEW q \in Seq(Packets), NEW j \in Int, NEW f \in Seq(Int), Stored(q, s, j, f),
         NEW n \in Nat, next[s] =< n,
         \A i \in 1..Len(f) : n - f[i] < SeqSpace \div 2,
         NEW r,
         r = queue_packet(q, MaxRqSize, [seq |-> SeqNrOf(n), ts |-> TsOf(s, n), ssrc |-> s])
  PROVE  Len(r) =< MaxRqSize /\ \E h \in Seq(Int) : NumbersOf(s, j, f, n, r, h)
<1>. DEFINE p == [seq |-> SeqNrOf(n), ts |-> TsOf(s, n), ssrc |-> s]
            M == MaxRqSize
<1>1. M \in Nat /\ next[s] \in Nat /\ s \in Ssrcs /\ shift[s] \in Nat
  BY RoomIs, SceneTypes DEF DeafInv, SessionInv
<1>2. /\ Len(f) = Len(q) /\ j =< next[s] /\ Len(f) \in Nat
      /\ \A i \in 1..Len(q) :
           /\ q[i].seq = f[i] % SeqSpace
           /\ q[i].ts = (f[i] + Clock(s, j, f[i])) % TsSpace
           /\ f[i] < next[s] /\ f[i] \in Int
  BY DEF Stored
<1>3. p \in Packets /\ p.seq = n % SeqSpace /\ p.ts = (n + shift[s]) % TsSpace
  <2>1. n \in Int /\ n + shift[s] \in Int
    BY <1>1
  <2>2. n % SeqSpace \in 0..SeqSpace - 1 /\ (n + shift[s]) % TsSpace \in 0..TsSpace - 1
    BY <2>1, ReceiveConstants, ModRange
  <2>. QED  BY <2>2 DEF Packets, SeqNrOf, TsOf
<1>4. Clock(s, j, n) = shift[s]
  BY <1>1, <1>2 DEF Clock
<1>5. r = queue_packet(q, M, p)
  OBVIOUS
<1>. HIDE DEF p, M
<1>6. \A i \in 1..Len(q) : /\ q[i].seq = f[i] % SeqSpace
                           /\ f[i] < n /\ n - f[i] < SeqSpace \div 2
  BY <1>1, <1>2
<1>70. Len(r) =< M /\ \E h \in Seq(Int) : Appended(q, f, p, n, r, h)
  <2>1. n \in Int /\ Len(f) = Len(q) /\ M \in Nat
    BY <1>1, <1>2
  <2>2. q \in Seq(Packets) /\ p \in Packets /\ f \in Seq(Int) /\ p.seq = n % SeqSpace
    BY <1>3
  <2>. QED  BY <1>5, <1>6, <2>1, <2>2, QueueAppends
<1>71. PICK h \in Seq(Int) : Appended(q, f, p, n, r, h)
  BY <1>70
<1>7. /\ Len(h) = Len(r) /\ Len(r) =< M /\ Len(r) \in Nat
      /\ \A i \in 1..Len(r) :
             \/ i = Len(r) /\ r[i] = p /\ h[i] = n
             \/ \E k \in 1..Len(q) : /\ k - i = (Len(q) + 1) - Len(r)
                                     /\ i < Len(r) /\ r[i] = q[k] /\ h[i] = f[k]
  BY <1>70, <1>71 DEF Appended
<1>8. ASSUME NEW i \in 1..Len(h)
      PROVE  /\ r[i].seq = h[i] % SeqSpace
             /\ r[i].ts = (h[i] + Clock(s, j, h[i])) % TsSpace
             /\ \/ i = Len(h) /\ h[i] = n
                \/ \E k \in 1..Len(f) : /\ k - i = (Len(f) + 1) - Len(h)
                                        /\ i < Len(h) /\ h[i] = f[k]
  <2>1. i \in 1..Len(r)
    BY <1>7
  <2>2. CASE i = Len(r) /\ r[i] = p /\ h[i] = n
    BY <2>2, <1>3, <1>4, <1>7
  <2>3. ASSUME NEW k \in 1..Len(q), k - i = (Len(q) + 1) - Len(r), i < Len(r),
               r[i] = q[k], h[i] = f[k]
        PROVE  /\ r[i].seq = h[i] % SeqSpace
               /\ r[i].ts = (h[i] + Clock(s, j, h[i])) % TsSpace
               /\ \E l \in 1..Len(f) : /\ l - i = (Len(f) + 1) - Len(h)
                                       /\ i < Len(h) /\ h[i] = f[l]
    <3>1. k \in 1..Len(f) /\ k - i = (Len(f) + 1) - Len(h) /\ i < Len(h)
      BY <2>3, <1>2, <1>7
    <3>. QED  BY <3>1, <2>3, <1>2
  <2>4. \/ i = Len(r) /\ r[i] = p /\ h[i] = n
        \/ \E k \in 1..Len(q) : /\ k - i = (Len(q) + 1) - Len(r)
                                /\ i < Len(r) /\ r[i] = q[k] /\ h[i] = f[k]
    BY <2>1, <1>7
  <2>. QED  BY <2>2, <2>3, <2>4
<1>9. Len(r) =< MaxRqSize
  BY <1>7 DEF M
<1>10. NumbersOf(s, j, f, n, r, h)
  BY <1>7, <1>8 DEF NumbersOf
<1>. QED  BY <1>9, <1>10

\* So the next state has its packets and numbers.
LEMMA StoredNext ==
  ASSUME Roomy, DeafInv, Calm, NEW s \in scene.sources,
         NEW q \in Seq(Packets), NEW j \in Int, NEW f \in Seq(Int), Stored(q, s, j, f),
         NEW n \in Nat, next[s] =< n, next'[s] = n + 1, UNCHANGED shift,
         \A i \in 1..Len(f) : n - f[i] < SeqSpace \div 2,
         rq' = queue_packet(q, MaxRqSize, [seq |-> SeqNrOf(n), ts |-> TsOf(s, n), ssrc |-> s])
  PROVE  \E h \in Seq(Int) :
           /\ Stored(rq, s, j, h)'
           /\ \A i \in 1..Len(h) :
                \/ i = Len(h) /\ h[i] = n
                \/ \E k \in 1..Len(f) : /\ k - i = (Len(f) + 1) - Len(h)
                                        /\ i < Len(h) /\ h[i] = f[k]
<1>1. next[s] \in Nat
  BY SceneTypes DEF DeafInv, SessionInv
<1>2. /\ j =< next[s] /\ Len(f) \in Nat
      /\ \A i \in 1..Len(f) : f[i] < next[s] /\ f[i] \in Int
      /\ \A i, k \in 1..Len(f) : i < k => f[i] < f[k]
  BY DEF Stored
<1>30. PICK h \in Seq(Int) : NumbersOf(s, j, f, n, rq', h)
  BY StoredBehind
<1>31. Len(rq') =< MaxRqSize
  BY StoredBehind
<1>3. /\ Len(h) = Len(rq') /\ Len(h) =< MaxRqSize
      /\ \A i \in 1..Len(h) :
                /\ rq'[i].seq = h[i] % SeqSpace
                /\ rq'[i].ts = (h[i] + Clock(s, j, h[i])) % TsSpace
                /\ \/ i = Len(h) /\ h[i] = n
                   \/ \E k \in 1..Len(f) : /\ k - i = (Len(f) + 1) - Len(h)
                                           /\ i < Len(h) /\ h[i] = f[k]
  BY <1>30, <1>31 DEF NumbersOf
<1>4. \A i \in 1..Len(h) :
        \/ i = Len(h) /\ h[i] = n
        \/ \E k \in 1..Len(f) : k - i = (Len(f) + 1) - Len(h) /\ i < Len(h) /\ h[i] = f[k]
  BY <1>3
<1>5. ASSUME NEW i \in 1..Len(h)
      PROVE  h[i] < n + 1
  <2>1. CASE h[i] = n
    BY <2>1
  <2>2. ASSUME NEW k \in 1..Len(f), h[i] = f[k]
        PROVE  h[i] < n + 1
    <3>1. f[k] < next[s] /\ f[k] \in Int
      BY <1>2
    <3>2. \A a \in Int : a < next[s] => a < n + 1
      BY <1>1
    <3>. QED  BY <2>2, <3>1, <3>2
  <2>. QED  BY <1>4, <2>1, <2>2
<1>6. ASSUME NEW i \in 1..Len(h), NEW l \in 1..Len(h), i < l
      PROVE  h[i] < h[l]
  <2>1. PICK k \in 1..Len(f) : k - i = (Len(f) + 1) - Len(h) /\ h[i] = f[k]
    <3>1. i # Len(h)
      BY <1>6
    <3>. QED  BY <3>1, <1>4
  <2>2. CASE h[l] = n
    <3>1. f[k] < next[s] /\ f[k] \in Int
      BY <1>2
    <3>2. \A a, x, y \in Int : a < x /\ x =< y => a < y
      OBVIOUS
    <3>3. next[s] =< n /\ next[s] \in Int /\ n \in Int
      BY <1>1
    <3>. QED  BY <2>1, <2>2, <3>1, <3>2, <3>3
  <2>3. ASSUME NEW e \in 1..Len(f), e - l = (Len(f) + 1) - Len(h), h[l] = f[e]
        PROVE  h[i] < h[l]
    <3>1. k < e
      BY <2>1, <2>3, <1>2, <1>6
    <3>. QED  BY <2>1, <2>3, <3>1, <1>2
  <2>. QED  BY <1>4, <2>2, <2>3
<1>7. \A m : Clock(s, j, m)' = Clock(s, j, m)
  BY DEF Clock
<1>8. j =< next'[s]
  BY <1>1, <1>2
<1>9. \A i \in 1..Len(h) : /\ rq'[i].seq = h[i] % SeqSpace
                           /\ rq'[i].ts = (h[i] + Clock(s, j, h[i])) % TsSpace
  BY <1>3
<1>10. Stored(rq, s, j, h)'
  BY <1>3, <1>5, <1>6, <1>7, <1>8, <1>9 DEF Stored
<1>. QED  BY <1>4, <1>10
-----------------------------------------------------------------------------
\* A packet n of s that is the next one or comes after a loss.
Comes(s, n) ==
  /\ next[s] =< n /\ n =< next[s] + scene.burst /\ next'[s] = n + 1
  /\ lastTs' = lastTs /\ UNCHANGED <<shift, scene, todo>>

\* A packet that is queued, by a session that has delivered none since it
\* resynchronized.
LEMMA QueuedUnread ==
  ASSUME Roomy, DeafInv, Calm, NEW s \in scene.sources, NEW n \in Nat, Comes(s, n),
         NEW q \in Seq(Packets), NEW j \in Int, NEW f \in Seq(Int), Stored(q, s, j, f),
         \A i \in 1..Len(f) : next[s] - 1 - f[i] =< (Len(f) - i) * (scene.burst + 1),
         ~started', deaf' = 0,
         rq' = queue_packet(q, MaxRqSize, [seq |-> SeqNrOf(n), ts |-> TsOf(s, n), ssrc |-> s])
  PROVE  Traced(s)'
<1>. DEFINE b == scene.burst
            W == Slack(scene)
            N == next[s]
<1>1. /\ W \in Nat /\ TsJump \in Nat /\ b \in Nat /\ N \in Nat
      /\ N =< n /\ n =< N + b /\ next'[s] = n + 1
      /\ W + b + 1 < SeqSpace \div 2
  <2>1. N \in Nat
    BY SceneTypes DEF DeafInv, SessionInv
  <2>2. /\ W \in Nat /\ TsJump \in Nat /\ b \in Nat /\ SeqSpace \div 2 \in Nat
        /\ 2 * (TsJump + W) + b + 1 + b < SeqSpace \div 2
    BY RoomIs, HalfOfSpace
  <2>3. N =< n /\ n =< N + b /\ next'[s] = n + 1
    BY DEF Comes
  <2>. HIDE DEF N, b, W
  <2>. QED  BY <2>1, <2>2, <2>3
<1>2. /\ Len(f) \in Nat /\ Len(f) =< MaxRqSize
      /\ \A i \in 1..Len(f) : f[i] \in Int /\ f[i] < N
  BY DEF Stored
<1>3. \A i \in 1..Len(f) : /\ (Len(f) - i) * (b + 1) =< W
                           /\ N - 1 - f[i] =< (Len(f) - i) * (b + 1)
                           /\ (Len(f) - i) * (b + 1) \in Int
  <2>1. \A i \in 1..Len(f) : (Len(f) - i) * (b + 1) =< W
    BY <1>2, QueueIsNear
  <2>2. \A i \in 1..Len(f) : Len(f) - i \in Int /\ b + 1 \in Int
    BY <1>1, <1>2
  <2>. QED  BY <2>1, <2>2
<1>. HIDE DEF W, N, b
<1>4. \A i \in 1..Len(f) : n - f[i] < SeqSpace \div 2
  <2>1. \A x, y \in Int : N - 1 - x =< y /\ y =< W => n - x < SeqSpace \div 2
    BY <1>1, HalfOfSpace
  <2>. QED  BY <1>2, <1>3, <2>1
<1>5. PICK h \in Seq(Int) :
        /\ Stored(rq, s, j, h)'
        /\ \A i \in 1..Len(h) :
             \/ i = Len(h) /\ h[i] = n
             \/ \E k \in 1..Len(f) : /\ k - i = (Len(f) + 1) - Len(h)
                                     /\ i < Len(h) /\ h[i] = f[k]
  <2>1. next[s] =< n /\ next'[s] = n + 1 /\ UNCHANGED shift
    BY DEF Comes
  <2>. QED  BY <1>4, <2>1, StoredNext
<1>6. ASSUME NEW i \in 1..Len(h)
      PROVE  (n + 1) - 1 - h[i] =< (Len(h) - i) * (b + 1)
  <2>1. CASE i = Len(h) /\ h[i] = n
    <3>1. Len(h) - i = 0 /\ b + 1 \in Int /\ (n + 1) - 1 - h[i] = 0
      BY <2>1, <1>1
    <3>. QED  BY <3>1
  <2>2. ASSUME NEW k \in 1..Len(f), k - i = (Len(f) + 1) - Len(h), h[i] = f[k]
        PROVE  (n + 1) - 1 - h[i] =< (Len(h) - i) * (b + 1)
    <3>1. Len(h) - i = (Len(f) - k) + 1 /\ Len(f) - k \in Int /\ b + 1 \in Int
      BY <2>2, <1>1, <1>2
    <3>2. \A x, y \in Int : (x + 1) * y = (x * y) + y
      OBVIOUS
    <3>3. (Len(h) - i) * (b + 1) = ((Len(f) - k) * (b + 1)) + (b + 1)
      BY <3>1, <3>2
    <3>4. N - 1 - f[k] =< (Len(f) - k) * (b + 1) /\ (Len(f) - k) * (b + 1) \in Int
          /\ f[k] \in Int
      BY <1>2, <1>3
    <3>5. \A x, y \in Int : N - 1 - x =< y => (n + 1) - 1 - x =< y + (b + 1)
      BY <1>1
    <3>. QED  BY <2>2, <3>3, <3>4, <3>5
  <2>. QED  BY <1>5, <2>1, <2>2
<1>7. Unread(s, h)'
  <2>1. deaf' =< TsJump + Slack(scene') /\ scene' = scene
    BY <1>1 DEF Comes, W
  <2>2. ~(deaf' > 0)
    OBVIOUS
  <2>3. \A i \in 1..Len(h) : next'[s] - 1 - h[i] =< (Len(h) - i) * (scene'.burst + 1)
    BY <1>1, <1>6, <2>1 DEF b
  <2>. QED  BY <2>1, <2>2, <2>3 DEF Unread
<1>8. Placing(s, j, 0, 0, 0, h)'
  BY <1>5, <1>7 DEF Placing
<1>. QED  BY <1>8 DEF Traced

LEMMA NoneStored ==
  ASSUME DeafInv, NEW s \in scene.sources, NEW j \in Int, j =< next[s]
  PROVE  Stored(<<>>, s, j, <<>>)
<1>1. MaxRqSize \in Nat /\ <<>> \in Seq(Int) /\ Len(<<>>) = 0
  BY ReceiveConstants
<1>. QED  BY <1>1 DEF Stored

\* A session that has delivered no packet does not check the time.
LEMMA ComesUnread ==
  ASSUME Roomy, DeafInv, Calm, NEW s \in scene.sources, Traced(s),
         NEW n \in Nat, Comes(s, n), Sort(s, n), ~started
  PROVE  Traced(s)'
<1>1. PICK j \in Int, m \in Int, c \in Int, D \in Int, f \in Seq(Int) : Placing(s, j, m, c, D, f)
  BY DEF Traced
<1>2. Stored(rq, s, j, f) /\ Unread(s, f)
  BY <1>1 DEF Placing
<1>3. /\ ~started' /\ deaf' = 0
      /\ rq' = queue_packet(rq, MaxRqSize, [seq |-> SeqNrOf(n), ts |-> TsOf(s, n), ssrc |-> s])
  BY DEF Sort, JumpsAhead, JumpsBack, TooOld
<1>4. rq \in Seq(Packets)
  BY DEF DeafInv, SessionInv
<1>5. \A i \in 1..Len(f) : next[s] - 1 - f[i] =< (Len(f) - i) * (scene.burst + 1)
  BY <1>2 DEF Unread
<1>. QED  BY <1>2, <1>3, <1>4, <1>5, QueuedUnread

\* A session that jumps to the packet has no other.
LEMMA ComesAhead ==
  ASSUME Roomy, DeafInv, Calm, NEW s \in scene.sources, Traced(s),
         NEW n \in Nat, Comes(s, n), ~started', deaf' = 0,
         rq' = queue_packet(<<>>, MaxRqSize, [seq |-> SeqNrOf(n), ts |-> TsOf(s, n), ssrc |-> s])
  PROVE  Traced(s)'
<1>1. next[s] \in Int /\ next[s] =< next[s]
  BY SceneTypes DEF DeafInv, SessionInv
<1>2. <<>> \in Seq(Packets) /\ <<>> \in Seq(Int) /\ Len(<<>>) = 0
  OBVIOUS
<1>3. Stored(<<>>, s, next[s], <<>>)
  BY <1>1, NoneStored
<1>4. \A i \in 1..Len(<<>>) : next[s] - 1 - <<>>[i] =< (Len(<<>>) - i) * (scene.burst + 1)
  BY <1>2
<1>5. ASSUME NEW j \in Int, j = next[s]
      PROVE  Traced(s)'
  BY <1>2, <1>3, <1>4, <1>5, QueuedUnread
<1>. QED  BY <1>1, <1>5
-----------------------------------------------------------------------------
\* How much later than the last packet delivered, m, of a clock that had
\* jumped by e, packet n is.
LEMMA HowMuchLater ==
  ASSUME DeafInv, NEW s \in scene.sources, NEW n \in Nat, NEW m \in Int, NEW e \in Int,
         lastTs = (m + e) % TsSpace
  PROVE  /\ lastTs \in 0..TsSpace - 1 /\ TsOf(s, n) \in 0..TsSpace - 1
         /\ (TsOf(s, n) - lastTs) % TsSpace = ((n + shift[s]) - (m + e)) % TsSpace
<1>1. shift[s] \in Nat /\ TsSpace \in Nat \ {0}
  BY SceneTypes, HalfOfSpace DEF DeafInv, SessionInv
<1>2. n + shift[s] \in Int /\ m + e \in Int
  BY <1>1
<1>. QED  BY <1>1, <1>2, ModRange, ModDiff DEF TsOf

\* What is behind m in the queue stays behind m.
LEMMA QueuedBehind ==
  ASSUME Roomy, DeafInv, Calm, NEW s \in scene.sources, NEW n \in Nat, Comes(s, n),
         NEW j \in Int, NEW m \in Int, NEW f \in Seq(Int), Stored(rq, s, j, f),
         m < next[s], n - m < SeqSpace \div 2, \A i \in 1..Len(f) : m < f[i],
         rq' = queue_packet(rq, MaxRqSize, [seq |-> SeqNrOf(n), ts |-> TsOf(s, n), ssrc |-> s])
  PROVE  \E h \in Seq(Int) : Stored(rq, s, j, h)' /\ \A i \in 1..Len(h) : m < h[i]
<1>1. next[s] \in Nat /\ next[s] =< n /\ next'[s] = n + 1 /\ UNCHANGED shift
  BY SceneTypes DEF DeafInv, SessionInv, Comes
<1>2. \A i \in 1..Len(f) : f[i] \in Int
  OBVIOUS
<1>3. \A i \in 1..Len(f) : n - f[i] < SeqSpace \div 2
  <2>1. \A x \in Int : m < x => n - x < SeqSpace \div 2
    BY HalfOfSpace
  <2>. QED  BY <1>2, <2>1
<1>4. rq \in Seq(Packets)
  BY DEF DeafInv, SessionInv
<1>5. PICK h \in Seq(Int) :
        /\ Stored(rq, s, j, h)'
        /\ \A i \in 1..Len(h) :
             \/ i = Len(h) /\ h[i] = n
             \/ \E k \in 1..Len(f) : /\ k - i = (Len(f) + 1) - Len(h)
                                     /\ i < Len(h) /\ h[i] = f[k]
  BY <1>1, <1>3, <1>4, StoredNext
<1>6. m < n
  BY <1>1
<1>7. \A i \in 1..Len(h) : m < h[i]
  BY <1>5, <1>6
<1>. QED  BY <1>5, <1>7

\* A packet of the clock of the last packet delivered is later than that, and
\* by less than half of the timestamps.
LEMMA ComesSame ==
  ASSUME Roomy, DeafInv, Calm, NEW s \in scene.sources, Traced(s),
         NEW j \in Int, NEW m \in Int, NEW c \in Int, NEW D \in Int, NEW f \in Seq(Int),
         Placing(s, j, m, c, D, f), shift[s] = 0 \/ j =< m,
         NEW n \in Nat, Comes(s, n), Sort(s, n), started
  PROVE  Traced(s)'
<1>. DEFINE t == TsOf(s, n)
            d == n - m
            half == TsSpace \div 2
            W == Slack(scene)
            J == TsJump
            b == scene.burst
            N == next[s]
<1>1. /\ W \in Nat /\ J \in Nat /\ J >= 1 /\ b \in Nat /\ J - 1 =< W /\ Far = 2 * (J + W) + b + 1
      /\ Far + b < half /\ Far + b < SeqSpace \div 2 /\ half \in Nat /\ TsSpace = 2 * half
      /\ SeqSpace \div 2 \in Nat
  BY RoomIs, HalfOfSpace
<1>2. N \in Nat /\ shift[s] \in Nat /\ N =< n /\ n =< N + b /\ next'[s] = n + 1
  BY SceneTypes DEF DeafInv, SessionInv, Comes
<1>3. Stored(rq, s, j, f) /\ Delivered(s, j, m, c, D, f)
  BY DEF Placing
<1>4. m < N /\ N - m =< Far /\ \A i \in 1..Len(f) : m < f[i]
  BY <1>3 DEF Delivered
<1>. HIDE DEF W, J, b, N, half
<1>5. Far \in Nat /\ Far >= J
  BY <1>1
<1>6. d \in Int /\ 1 =< d /\ d =< Far + b /\ d < half /\ d < SeqSpace \div 2
  <2>1. m < N /\ N - m =< Far
    BY <1>4
  <2>2. \A x \in Int, h \in Int : m < N /\ N - m =< x /\ x + b < h => n - m < h
    BY <1>1, <1>2
  <2>3. n - m < half /\ n - m < SeqSpace \div 2
    <3>. DEFINE a == SeqSpace \div 2
    <3>1. Far \in Int /\ half \in Int /\ a \in Int /\ Far + b < half /\ Far + b < a
      BY <1>1, <1>5
    <3>. HIDE DEF a
    <3>2. n - m < half /\ n - m < a
      BY <2>1, <2>2, <3>1
    <3>. QED  BY <3>2 DEF a
  <2>4. \A x \in Int : N - m =< x => n - m =< x + b
    BY <1>1, <1>2
  <2>5. n - m \in Int /\ 1 =< n - m /\ n - m =< Far + b
    BY <1>2, <1>5, <2>1, <2>4
  <2>. QED  BY <2>3, <2>5
<1>7. (t - lastTs) % TsSpace = d /\ lastTs \in 0..TsSpace - 1 /\ t \in 0..TsSpace - 1
  <2>1. Clock(s, j, m) = shift[s]
    BY <1>2 DEF Clock
  <2>2. lastTs = (m + shift[s]) % TsSpace
    BY <1>3, <2>1 DEF Delivered
  <2>3. /\ lastTs \in 0..TsSpace - 1 /\ t \in 0..TsSpace - 1
        /\ (t - lastTs) % TsSpace = ((n + shift[s]) - (m + shift[s])) % TsSpace
    BY <1>2, <2>2, HowMuchLater
  <2>4. (n + shift[s]) - (m + shift[s]) = d
    BY <1>2
  <2>5. d \in 0..TsSpace - 1 /\ TsSpace \in Nat \ {0}
    BY <1>1, <1>6
  <2>6. d % TsSpace = d
    BY <2>5, ModSmall
  <2>. QED  BY <2>3, <2>4, <2>6
<1>. HIDE DEF t, d
<1>8. (JumpsAhead(lastTs, t) <=> J =< d) /\ ~TooOld(lastTs, t) /\ ~JumpsBack(lastTs, t)
  <2>1. /\ JumpsAhead(lastTs, t) <=> started /\ J =< d /\ d < J + half
        /\ TooOld(lastTs, t) <=> started /\ half + J =< d
        /\ JumpsBack(lastTs, t) <=> started /\ half + J =< d /\ d < TsSpace - J
    BY <1>7, Judged DEF J, half
  <2>. QED  BY <1>1, <1>6, <2>1
<1>9. CASE J =< d
  <2>1. ~started' /\ deaf' = 0
        /\ rq' = queue_packet(<<>>, MaxRqSize, [seq |-> SeqNrOf(n), ts |-> TsOf(s, n), ssrc |-> s])
    BY <1>8, <1>9 DEF Sort, t
  <2>. QED  BY <2>1, ComesAhead
<1>10. CASE d < J
  <2>1. started' /\ deaf' = 0
        /\ rq' = queue_packet(rq, MaxRqSize, [seq |-> SeqNrOf(n), ts |-> TsOf(s, n), ssrc |-> s])
    <3>1. ~JumpsAhead(lastTs, t)
      BY <1>1, <1>6, <1>8, <1>10
    <3>. QED  BY <1>8, <3>1 DEF Sort, t
  <2>2. \E h \in Seq(Int) : Stored(rq, s, j, h)' /\ \A i \in 1..Len(h) : m < h[i]
    <3>1. m < next[s] /\ n - m < SeqSpace \div 2
      BY <1>4, <1>6 DEF N, d
    <3>. QED  BY <1>3, <1>4, <2>1, <3>1, QueuedBehind
  <2>3. PICK h \in Seq(Int) : Stored(rq, s, j, h)' /\ \A i \in 1..Len(h) : m < h[i]
    BY <2>2
  <2>4. Delivered(s, j, m, c, D, h)'
    <3>1. UNCHANGED <<lastTs, shift, scene>> /\ Clock(s, j, m)' = Clock(s, j, m)
      BY DEF Comes, Clock
    <3>2. lastTs' = (m + Clock(s, j, m)') % TsSpace
      BY <1>3, <3>1 DEF Delivered
    <3>3. Far' = Far /\ Slack(scene)' = W
      BY <3>1 DEF Far, W
    <3>4. m < next'[s] /\ next'[s] - m =< Far' /\ next'[s] - 1 - m =< Slack(scene)'
      <4>1. n - m < J /\ 1 =< n - m
        BY <1>6, <1>10 DEF d
      <4>2. /\ m < n + 1 /\ (n + 1) - m =< J /\ J =< Far /\ (n + 1) - 1 - m =< W
            /\ (n + 1) - m \in Int /\ (n + 1) - 1 - m \in Int
        BY <1>1, <1>5, <4>1
      <4>3. (n + 1) - m =< Far
        BY <1>1, <1>5, <4>2
      <4>. QED  BY <1>2, <3>3, <4>2, <4>3
    <3>5. deaf' =< TsJump + Slack(scene)'
      BY <1>1, <2>1, <3>3 DEF J
    <3>6. ~(shift'[s] # 0 /\ m < j)
      BY <3>1
    <3>7. \A i \in 1..Len(h) : m < h[i]
      BY <2>3
    <3>. QED  BY <2>1, <3>2, <3>4, <3>5, <3>6, <3>7 DEF Delivered
  <2>5. Placing(s, j, m, c, D, h)'
    BY <2>1, <2>3, <2>4 DEF Placing
  <2>. QED  BY <2>5 DEF Traced
<1>. QED  BY <1>1, <1>6, <1>9, <1>10
-----------------------------------------------------------------------------
\* What of a clock that jumped by sh is near m, has a place E in the window:
\* known from the packets turned down before, or fixed by this first one.
InWindow(n, m, c, sh, E) ==
  /\ E % TsSpace = sh /\ E >= 0 - TsJump - Slack(scene) - scene.burst - 1
  /\ c - TsJump =< n + E /\ n + E =< c + Slack(scene) + TsJump - 1
  /\ (n + 1) - m =< Far

Fits(n, m, c, sh, d, E) ==
  /\ d < TsJump \/ TsSpace - TsJump =< d => InWindow(n, m, c, sh, E)
  /\ TsSpace - TsJump =< d => deaf + 1 =< TsJump + Slack(scene)
                              /\ deaf + 1 =< (n + 1) + E - c + TsJump
  /\ TsSpace \div 2 + TsJump =< d /\ d < TsSpace - TsJump => deaf + 1 =< TsJump + Slack(scene)

\* The first packet since the jump, or since one was accepted.
LEMMA FirstInWindow ==
  ASSUME Roomy, DeafInv, Calm,
         NEW N \in Nat, NEW n \in Nat, N =< n, n =< N + scene.burst, NEW m \in Int, m < N,
         NEW c \in Int, c =< m, m =< c + Slack(scene),
         NEW sh \in 0..TsSpace - 1, NEW d, d = ((n + sh) - m) % TsSpace,
         deaf = 0, N - 1 - c =< Slack(scene)
  PROVE  \E E \in Int : Fits(n, m, c, sh, d, E)
<1>. DEFINE T == TsSpace
            J == TsJump
            W == Slack(scene)
            b == scene.burst
            half == TsSpace \div 2
            k == ((n + sh) - m) \div T
            x == IF d < J THEN d ELSE d - T
            E == (m - n) + x
<1>1. /\ W \in Nat /\ J \in Nat /\ J >= 1 /\ b \in Nat /\ J - 1 =< W /\ Far = 2 * (J + W) + b + 1
      /\ Far + b < half /\ half \in Nat /\ T = 2 * half /\ T \in Nat \ {0}
  BY RoomIs, HalfOfSpace
<1>2. N =< n /\ n =< N + b /\ c =< m /\ m =< c + W /\ N - 1 - c =< W /\ sh \in 0..T - 1
  OBVIOUS
<1>3. d \in 0..T - 1 /\ k \in Int /\ (n + sh) - m = T * k + d
  <2>1. (n + sh) - m \in Int
    BY <1>1, <1>2
  <2>2. T \in Nat \ {0} /\ d = ((n + sh) - m) % T
    BY <1>1
  <2>. HIDE DEF T
  <2>. QED  BY <2>1, <2>2, ModRange
<1>. HIDE DEF T, J, W, b, half, k
<1>4. E \in Int /\ E % T = sh
  <2>1. CASE d < J
    <3>1. E = sh + T * (-k) /\ -k \in Int
      BY <1>1, <1>2, <1>3, <2>1
    <3>0. sh \in Int /\ T \in Nat \ {0}
      BY <1>1, <1>2
    <3>2. E % T = sh % T
      <4>. DEFINE e == E
      <4>1. e = sh + T * (IF d < J THEN -k ELSE -k - 1)
        BY <1>1, <1>2, <1>3
      <4>. QED  BY <3>0, <3>1, ModAdd
    <3>. QED  BY <1>1, <1>2, <3>1, <3>2, ModSmall
  <2>2. CASE ~(d < J)
    <3>1. E = sh + T * (-k - 1) /\ -k - 1 \in Int
      BY <1>1, <1>2, <1>3, <2>2
    <3>0. sh \in Int /\ T \in Nat \ {0}
      BY <1>1, <1>2
    <3>2. E % T = sh % T
      <4>. DEFINE e == E
      <4>1. e = sh + T * (IF d < J THEN -k ELSE -k - 1)
        BY <1>1, <1>2, <1>3
      <4>. QED  BY <3>0, <3>1, ModAdd
    <3>3. E \in Int
      BY <1>1, <1>3, <2>2
    <3>. QED  BY <1>1, <1>2, <3>2, <3>3, ModSmall
  <2>. QED  BY <2>1, <2>2
<1>5. x \in Int /\ (d < J \/ T - J =< d => 0 - J =< x /\ x =< J - 1) /\ E = (m - n) + x
  BY <1>1, <1>3
<1>. HIDE DEF x, E
<1>6. ASSUME d < J \/ T - J =< d
      PROVE  InWindow(n, m, c, sh, E)
  <2>1. 0 - J =< x /\ x =< J - 1 /\ x \in Int /\ E = (m - n) + x
    BY <1>5, <1>6
  <2>2. /\ E >= 0 - J - W - b - 1 /\ c - J =< n + E /\ n + E =< c + W + J - 1
        /\ (n + 1) - m =< 2 * (J + W) + b + 1
    BY <1>1, <1>2, <2>1
  <2>3. Far = 2 * (J + W) + b + 1
    BY <1>1
  <2>. QED  BY <1>4, <2>2, <2>3 DEF InWindow, T, J, W, b
<1>7. deaf + 1 =< J + W
  BY <1>1
<1>8. ASSUME T - J =< d
      PROVE  deaf + 1 =< (n + 1) + E - c + J
  BY <1>1, <1>2, <1>3, <1>5, <1>8
<1>9. Fits(n, m, c, sh, d, E)
  BY <1>6, <1>7, <1>8 DEF Fits, T, J, W
<1>. QED  BY <1>4, <1>9

\* The others.
LEMMA NextInWindow ==
  ASSUME Roomy, DeafInv, Calm,
         NEW N \in Nat, NEW n \in Nat, N =< n, n =< N + scene.burst, NEW m \in Int, m < N,
         NEW c \in Int, c =< m, m =< c + Slack(scene),
         NEW sh \in 0..TsSpace - 1, NEW d, d = ((n + sh) - m) % TsSpace,
         NEW D \in Int, D % TsSpace = sh, D >= 0 - TsJump - Slack(scene) - scene.burst - 1,
         c - TsJump =< N - 1 + D, N - 1 + D =< c + Slack(scene) + TsJump - 1,
         deaf =< TsJump + Slack(scene), deaf =< N + D - c + TsJump
  PROVE  Fits(n, m, c, sh, d, D)
<1>. DEFINE T == TsSpace
            J == TsJump
            W == Slack(scene)
            b == scene.burst
            half == TsSpace \div 2
            x == (n + D) - m
            F == 2 * (J + W) + b + 1
<1>1. /\ W \in Nat /\ J \in Nat /\ J >= 1 /\ b \in Nat /\ J - 1 =< W /\ Far = F
      /\ F + b < half /\ half \in Nat /\ T = 2 * half /\ T \in Nat \ {0} /\ deaf \in Nat
  BY RoomIs, HalfOfSpace DEF DeafInv
<1>2. /\ N =< n /\ n =< N + b /\ c =< m /\ m =< c + W /\ sh \in 0..T - 1
      /\ D >= 0 - J - W - b - 1 /\ c - J =< N - 1 + D /\ N - 1 + D =< c + W + J - 1
      /\ deaf =< J + W /\ deaf =< N + D - c + J
  OBVIOUS
<1>3. D % T = sh /\ d = ((n + sh) - m) % T
  OBVIOUS
<1>. HIDE DEF T, J, W, b, half
<1>4. x \in Int /\ 0 - (J + W) + 1 =< x /\ x =< J + W + b
  BY <1>1, <1>2
<1>5. x % T = d
  <2>. DEFINE k == D \div T
  <2>1. k \in Int /\ D = T * k + sh
    BY <1>1, <1>3, ModRange
  <2>. HIDE DEF k
  <2>2. (n + sh) - m = x + T * (-k) /\ -k \in Int
    BY <1>1, <1>2, <2>1
  <2>3. (x + T * (-k)) % T = x % T
    BY <1>1, <1>4, <2>2, ModAdd
  <2>. QED  BY <1>3, <2>2, <2>3
<1>6. d = IF x >= 0 THEN x ELSE x + T
  <2>1. -T < x /\ x < T
    BY <1>1, <1>4
  <2>. QED  BY <1>1, <1>4, <1>5, <2>1, ModNear
<1>7. ASSUME d < J \/ T - J =< d
      PROVE  InWindow(n, m, c, sh, D)
  <2>1. 0 - J =< x /\ x =< J - 1
    BY <1>1, <1>4, <1>6, <1>7
  <2>2. c - J =< n + D /\ n + D =< c + W + J - 1 /\ (n + 1) - m =< F
    BY <1>1, <1>2, <2>1
  <2>. QED  BY <1>1, <1>2, <1>3, <2>2 DEF InWindow, T, J, W, b
<1>8. ASSUME half + J =< d
      PROVE  x < 0 /\ deaf + 1 =< J + W /\ deaf + 1 =< (n + 1) + D - c + J
  <2>1. x < 0
    BY <1>1, <1>4, <1>6, <1>8
  <2>. QED  BY <1>1, <1>2, <2>1
<1>9. T - J =< d => half + J =< d
  BY <1>1, <1>4, <1>6
<1>. QED  BY <1>7, <1>8, <1>9 DEF Fits, T, J, W, half
-----------------------------------------------------------------------------
\* A packet of the new clock, after one of the old clock was delivered: the
\* session jumps to it or gives up its clock, or it is in the window.
LEMMA ComesAcross ==
  ASSUME Roomy, DeafInv, Calm, NEW s \in scene.sources, Traced(s), Jumps(s),
         NEW j \in Int, NEW m \in Int, NEW c \in Int, NEW D \in Int, NEW f \in Seq(Int),
         Placing(s, j, m, c, D, f), shift[s] # 0, m < j,
         NEW n \in Nat, Comes(s, n), Sort(s, n), started
  PROVE  Traced(s)'
<1>. DEFINE t == TsOf(s, n)
            d == (t - lastTs) % TsSpace
            half == TsSpace \div 2
            N == next[s]
            p == [seq |-> SeqNrOf(n), ts |-> t, ssrc |-> s]
<1>1. /\ Slack(scene) \in Nat /\ TsJump \in Nat /\ TsJump >= 1 /\ scene.burst \in Nat
      /\ Far = 2 * (TsJump + Slack(scene)) + scene.burst + 1
      /\ Far + scene.burst < half /\ Far + scene.burst < SeqSpace \div 2
      /\ half \in Nat /\ TsSpace = 2 * half /\ SeqSpace \div 2 \in Nat /\ deaf \in Nat
  BY RoomIs, HalfOfSpace DEF DeafInv
<1>2. /\ N \in Nat /\ shift[s] \in 0..TsSpace - 1
      /\ N =< n /\ n =< N + scene.burst /\ next'[s] = n + 1
      /\ lastTs' = lastTs /\ UNCHANGED <<shift, scene, todo>>
  BY SceneTypes DEF DeafInv, SessionInv, Comes, Jumps
<1>3. Stored(rq, s, j, f) /\ Delivered(s, j, m, c, D, f)
  BY DEF Placing
<1>4. /\ m < N /\ N - m =< Far /\ \A i \in 1..Len(f) : m < f[i]
      /\ AcrossJump(s, j, m, c, D) /\ lastTs = (m + Clock(s, j, m)) % TsSpace
  BY <1>3 DEF Delivered
<1>5. c =< m /\ m =< c + Slack(scene) /\ j =< c + Slack(scene) + 1
  BY <1>4 DEF AcrossJump
<1>6. /\ d = ((n + shift[s]) - m) % TsSpace /\ d \in 0..TsSpace - 1
      /\ lastTs \in 0..TsSpace - 1 /\ t \in 0..TsSpace - 1
  <2>1. Clock(s, j, m) = 0
    BY DEF Clock
  <2>2. /\ lastTs \in 0..TsSpace - 1 /\ t \in 0..TsSpace - 1
        /\ d = ((n + shift[s]) - (m + 0)) % TsSpace
    <3>1. 0 \in Int /\ lastTs = (m + 0) % TsSpace
      BY <1>4, <2>1
    <3>. HIDE DEF t
    <3>. QED  BY <3>1, HowMuchLater DEF t
  <2>3. m + 0 = m
    OBVIOUS
  <2>. QED  BY <2>2, <2>3, Judged
<1>7. /\ JumpsAhead(lastTs, t) <=> TsJump =< d /\ d < TsJump + half
      /\ TooOld(lastTs, t) <=> half + TsJump =< d
      /\ JumpsBack(lastTs, t) <=> half + TsJump =< d /\ d < TsSpace - TsJump
  BY <1>6, Judged
<1>8. \E E \in Int : Fits(n, m, c, shift[s], d, E)
  <2>1. CASE deaf = 0 /\ N - 1 - c =< Slack(scene)
    BY <1>2, <1>4, <1>5, <1>6, <2>1, FirstInWindow
  <2>2. CASE /\ D % TsSpace = shift[s] /\ D >= 0 - TsJump - Slack(scene) - scene.burst - 1
             /\ c - TsJump =< N - 1 + D
             /\ N - 1 + D =< c + Slack(scene) + TsJump - 1
             /\ deaf =< TsJump + Slack(scene) /\ deaf =< N + D - c + TsJump
    BY <1>2, <1>4, <1>5, <1>6, <2>2, NextInWindow
  <2>. QED  BY <1>4, <2>1, <2>2 DEF AcrossJump
<1>9. PICK E \in Int : Fits(n, m, c, shift[s], d, E)
  BY <1>8
<1>10. Far' = Far /\ Slack(scene)' = Slack(scene) /\ Clock(s, j, m)' = Clock(s, j, m)
  BY <1>2 DEF Far, Clock
<1>. DEFINE T == TsSpace
            J == TsJump
            W == Slack(scene)
            b == scene.burst
            S2 == SeqSpace \div 2
<1>16. /\ W \in Nat /\ J \in Nat /\ J >= 1 /\ b \in Nat /\ Far = 2 * (J + W) + b + 1
       /\ Far + b < half /\ Far + b < S2
       /\ half \in Nat /\ T = 2 * half /\ S2 \in Nat /\ deaf \in Nat
       /\ d \in 0..T - 1 /\ N \in Nat /\ N =< n /\ n =< N + b
       /\ JumpsAhead(lastTs, t) <=> J =< d /\ d < J + half
       /\ TooOld(lastTs, t) <=> half + J =< d
       /\ JumpsBack(lastTs, t) <=> half + J =< d /\ d < T - J
  BY <1>1, <1>2, <1>6, <1>7
<1>. HIDE DEF t, d, half, N, T, J, W, b, S2
<1>11. CASE JumpsAhead(lastTs, t) /\ ~started' /\ rq' = queue_packet(<<>>, MaxRqSize, p) /\ deaf' = 0
  BY <1>11, ComesAhead DEF t
<1>12. CASE JumpsBack(lastTs, t) /\ ~started' /\ rq' = <<>> /\ deaf' = deaf + 1
  <2>1. deaf' =< TsJump + Slack(scene)'
    BY <1>7, <1>9, <1>10, <1>12 DEF Fits, half
  <2>2. j =< next'[s]
    BY <1>2, <1>3 DEF Stored, N
  <2>3. <<>> \in Seq(Int) /\ Len(<<>>) = 0 /\ Len(<<>>) =< MaxRqSize
    BY ReceiveConstants
  <2>4. Stored(rq, s, j, <<>>)'
    BY <1>12, <2>2, <2>3 DEF Stored
  <2>5. Unread(s, <<>>)'
    BY <2>1, <2>3 DEF Unread
  <2>6. Placing(s, j, m, c, D, <<>>)'
    BY <1>12, <2>4, <2>5 DEF Placing
  <2>. QED  BY <2>3, <2>6 DEF Traced
<1>13. ASSUME started', d < TsJump \/ TsSpace - TsJump =< d,
              deaf' = IF d < TsJump THEN 0 ELSE deaf + 1,
              NEW h \in Seq(Int), Stored(rq, s, j, h)', \A i \in 1..Len(h) : m < h[i]
       PROVE  Traced(s)'
  <2>1. InWindow(n, m, c, shift[s], E)
    BY <1>9, <1>13 DEF Fits
  <2>2. /\ E % TsSpace = shift[s] /\ E >= 0 - TsJump - Slack(scene) - scene.burst - 1
        /\ c - TsJump =< n + E /\ n + E =< c + Slack(scene) + TsJump - 1
        /\ (n + 1) - m =< Far
    BY <2>1 DEF InWindow
  <2>3. deaf' =< TsJump + Slack(scene) /\ deaf' =< (n + 1) + E - c + TsJump
    <3>1. CASE d < TsJump
      <4>1. deaf' = 0 /\ 0 =< J + W /\ c - J =< n + E
        <5>1. deaf' = 0
          BY <1>13, <3>1
        <5>2. c - J =< n + E
          BY <2>2 DEF J
        <5>3. 0 =< J + W
          BY <1>16
        <5>. QED  BY <5>1, <5>2, <5>3
      <4>2. 0 =< (n + 1) + E - c + J
        BY <1>16, <4>1
      <4>. QED  BY <4>1, <4>2 DEF J, W
    <3>2. CASE ~(d < TsJump)
      <4>1. deaf + 1 =< TsJump + Slack(scene) /\ deaf + 1 =< (n + 1) + E - c + TsJump
        BY <1>9, <1>13, <3>2 DEF Fits
      <4>. QED  BY <1>13, <3>2, <4>1
    <3>. QED  BY <3>1, <3>2
  <2>4. AcrossJump(s, j, m, c, E)'
    <3>1. (n + 1) - 1 + E = n + E
      OBVIOUS
    <3>. QED  BY <1>2, <1>5, <1>10, <2>2, <2>3, <3>1 DEF AcrossJump
  <2>5. Delivered(s, j, m, c, E, h)'
    <3>1. m < next'[s] /\ next'[s] - m =< Far'
      BY <1>2, <1>4, <1>10, <2>2
    <3>2. lastTs' = (m + Clock(s, j, m)') % TsSpace
      BY <1>2, <1>4, <1>10
    <3>3. shift'[s] # 0 /\ ~(j =< m)
      BY <1>2
    <3>. QED  BY <1>13, <2>4, <3>1, <3>2, <3>3 DEF Delivered
  <2>6. Placing(s, j, m, c, E, h)'
    BY <1>13, <2>5 DEF Placing
  <2>. QED  BY <2>6 DEF Traced
<1>14. CASE /\ TooOld(lastTs, t) /\ ~JumpsBack(lastTs, t)
            /\ started' /\ rq' = rq /\ deaf' = deaf + 1
  <2>1. TsSpace - TsJump =< d /\ ~(d < TsJump)
    <3>1. T - J =< d /\ ~(d < J)
      BY <1>16, <1>14
    <3>. QED  BY <3>1 DEF T, J
  <2>2. Stored(rq, s, j, f)'
    <3>1. \A x : Clock(s, j, x)' = Clock(s, j, x)
      BY <1>2 DEF Clock
    <3>2. /\ f \in Seq(Int) /\ Len(f) = Len(rq) /\ Len(f) =< MaxRqSize
          /\ j =< N /\ \A i \in 1..Len(f) : f[i] \in Int /\ f[i] < N
      BY <1>3 DEF Stored, N
    <3>3. \A x \in Int : x =< N => x =< n + 1
      BY <1>2
    <3>4. \A x \in Int : x < N => x < n + 1
      BY <1>2
    <3>5. j =< next'[s] /\ \A i \in 1..Len(f) : f[i] < next'[s]
      BY <1>2, <3>2, <3>3, <3>4
    <3>. QED  BY <1>3, <1>14, <3>1, <3>5 DEF Stored
  <2>. QED  BY <1>4, <1>13, <1>14, <2>1, <2>2
<1>15. CASE /\ ~JumpsAhead(lastTs, t) /\ ~TooOld(lastTs, t)
            /\ (started' <=> started) /\ rq' = queue_packet(rq, MaxRqSize, p) /\ deaf' = 0
  <2>1. d < TsJump
    <3>1. d < J
      BY <1>16, <1>15
    <3>. QED  BY <3>1 DEF J
  <2>2. (n + 1) - m =< Far
    BY <1>9, <2>1 DEF Fits, InWindow
  <2>3. n - m < SeqSpace \div 2 /\ m < next[s]
    <3>1. n - m < S2
      <4>1. Far \in Nat /\ Far + b < S2
        BY <1>16
      <4>2. \A x \in Int : (n + 1) - m =< x /\ x + b < S2 => n - m < S2
        BY <1>16
      <4>. QED  BY <2>2, <4>1, <4>2
    <3>. QED  BY <1>4, <3>1 DEF S2, N
  <2>4. \E h \in Seq(Int) : Stored(rq, s, j, h)' /\ \A i \in 1..Len(h) : m < h[i]
    BY <1>3, <1>4, <1>15, <2>3, QueuedBehind DEF t
  <2>. QED  BY <1>13, <1>15, <2>1, <2>4
<1>. QED  BY <1>11, <1>12, <1>14, <1>15 DEF Sort, t
-----------------------------------------------------------------------------
LEMMA ReceivePlaces ==
  ASSUME Roomy, DeafInv, Calm, NEW s \in scene.sources, Receive(s)
  PROVE  Jumps(s)' /\ Traced(s)'
<1>1. PICK n \in Nat :
        /\ next[s] =< n /\ n =< next[s] + scene.burst /\ next'[s] = n + 1
        /\ Sort(s, n)
        /\ lastTs' = lastTs /\ UNCHANGED <<shift, scene, todo>>
  BY ReceiveSorts
<1>2. Comes(s, n)
  BY <1>1 DEF Comes
<1>3. Jumps(s) /\ Traced(s)
  BY DEF DeafInv
<1>4. Jumps(s)'
  BY <1>1, <1>3 DEF Jumps
<1>5. CASE ~started
  BY <1>1, <1>2, <1>3, <1>4, <1>5, ComesUnread
<1>6. CASE started
  <2>1. PICK j \in Int, m \in Int, c \in Int, D \in Int, f \in Seq(Int) : Placing(s, j, m, c, D, f)
    BY <1>3 DEF Traced
  <2>2. CASE shift[s] = 0 \/ j =< m
    BY <1>1, <1>2, <1>3, <1>4, <1>6, <2>1, <2>2, ComesSame
  <2>3. CASE shift[s] # 0 /\ m < j
    BY <1>1, <1>2, <1>3, <1>4, <1>6, <2>1, <2>3, ComesAcross
  <2>. QED  BY <2>2, <2>3
<1>. QED  BY <1>5, <1>6

\* The first k packets of the queue go to the application.
LEMMA DeliverPlaces ==
  ASSUME Roomy, DeafInv, Calm, NEW s \in scene.sources, Deliver
  PROVE  Jumps(s)' /\ Traced(s)'
<1>. DEFINE N == next[s]
            W == Slack(scene)
            J == TsJump
            b == scene.burst
<1>1. /\ W \in Nat /\ J \in Nat /\ J >= 1 /\ b \in Nat /\ Far = 2 * (J + W) + b + 1
      /\ N \in Nat /\ shift[s] \in Nat /\ deaf \in Nat
  BY RoomIs, SceneTypes DEF DeafInv, SessionInv
<1>2. Jumps(s) /\ Traced(s) /\ rq \in Seq(Packets)
  BY DEF DeafInv, SessionInv
<1>3. PICK j \in Int, m \in Int, c \in Int, D \in Int, f \in Seq(Int) : Placing(s, j, m, c, D, f)
  BY <1>2 DEF Traced
<1>4. PICK t \in 0..TsSpace - 1 :
        /\ rq # <<>> /\ rq' = rtp_getq(rq, t).rest
        /\ lastTs' = (IF rtp_getq(rq, t).ret = <<>> THEN lastTs ELSE rtp_getq(rq, t).ret[1].ts)
        /\ started' = (started \/ rtp_getq(rq, t).ret # <<>>)
        /\ UNCHANGED <<next, shift, scene, todo, deaf>>
  BY DEF Deliver, envVars
<1>5. PICK k \in 0..Len(rq) :
        /\ rtp_getq(rq, t).ret = IF k = 0 THEN <<>> ELSE <<rq[k]>>
        /\ rtp_getq(rq, t).rest = SubSeq(rq, k + 1, Len(rq))
  BY <1>2, GetTakes
<1>6. /\ rq' = SubSeq(rq, k + 1, Len(rq))
      /\ k = 0 => lastTs' = lastTs /\ (started' <=> started)
      /\ k # 0 => lastTs' = rq[k].ts /\ started'
  <2>1. CASE k = 0
    BY <1>4, <1>5, <2>1
  <2>2. CASE k # 0
    <3>1. rtp_getq(rq, t).ret = <<rq[k]>>
      BY <1>5, <2>2
    <3>2. <<rq[k]>> # <<>> /\ <<rq[k]>>[1] = rq[k]
      OBVIOUS
    <3>. QED  BY <1>4, <1>5, <2>2, <3>1, <3>2
  <2>. QED  BY <2>1, <2>2
<1>7. Jumps(s)'
  BY <1>2, <1>4 DEF Jumps
<1>8. /\ Len(f) = Len(rq) /\ Len(f) \in Nat /\ Len(f) =< MaxRqSize /\ j =< N
      /\ \A i \in 1..Len(f) :
           /\ rq[i].ts = (f[i] + Clock(s, j, f[i])) % TsSpace
           /\ rq[i].seq = f[i] % SeqSpace /\ f[i] < N /\ f[i] \in Int
      /\ \A i, l \in 1..Len(f) : i < l => f[i] < f[l]
  BY <1>3 DEF Placing, Stored
<1>. DEFINE g == SubSeq(f, k + 1, Len(f))
<1>9. /\ g \in Seq(Int) /\ Len(g) = Len(f) - k /\ Len(rq') = Len(f) - k
      /\ \A i \in 1..Len(g) : g[i] = f[i + k] /\ rq'[i] = rq[i + k]
  <2>1. /\ g \in Seq(Int) /\ Len(g) = Len(f) - k
        /\ \A i \in 1..(Len(f) - k) : g[i] = f[i + k]
    BY <1>8, RestOf
  <2>2. /\ Len(rq') = Len(rq) - k
        /\ \A i \in 1..(Len(rq) - k) : rq'[i] = rq[i + k]
    <3>. DEFINE u == SubSeq(rq, k + 1, Len(rq))
    <3>1. Len(u) = Len(rq) - k /\ \A i \in 1..(Len(rq) - k) : u[i] = rq[i + k]
      BY <1>2, RestOf
    <3>2. rq' = u
      BY <1>6
    <3>. HIDE DEF u
    <3>. QED  BY <3>1, <3>2
  <2>. QED  BY <2>1, <2>2, <1>8
<1>. HIDE DEF g, N, W, J, b
<1>10. \A i \in 1..Len(g) : i + k \in 1..Len(f) /\ k < i + k
  BY <1>8, <1>9
<1>11. UNCHANGED <<shift, Far, Slack(scene)>> /\ \A x : Clock(s, j, x)' = Clock(s, j, x)
  BY <1>4 DEF Clock, Far
<1>12. Stored(rq, s, j, g)'
  <2>1. ASSUME NEW i \in 1..Len(g)
        PROVE  /\ rq'[i].seq = g[i] % SeqSpace
               /\ rq'[i].ts = (g[i] + Clock(s, j, g[i])) % TsSpace
               /\ g[i] < N
    BY <1>8, <1>9, <1>10
  <2>2. ASSUME NEW i \in 1..Len(g), NEW l \in 1..Len(g), i < l
        PROVE  g[i] < g[l]
    <3>1. i + k < l + k
      BY <2>2
    <3>. QED  BY <3>1, <1>8, <1>9, <1>10
  <2>3. Len(g) = Len(rq') /\ Len(g) =< MaxRqSize /\ j =< next'[s] /\ next'[s] = N
    <3>1. Len(f) - k =< Len(f) /\ MaxRqSize \in Nat
      BY <1>8, ReceiveConstants
    <3>. QED  BY <1>4, <1>8, <1>9, <3>1 DEF N
  <2>. QED  BY <1>9, <1>11, <2>1, <2>2, <2>3 DEF Stored
<1>13. CASE k = 0
  <2>1. g = f
    BY <1>13, <1>8 DEF g
  <2>2. ASSUME ~started'
        PROVE  Unread(s, f)'
    <3>1. Unread(s, f)
      BY <1>3, <1>6, <1>13, <2>2 DEF Placing
    <3>. QED  BY <1>4, <1>11, <3>1 DEF Unread
  <2>3. ASSUME started'
        PROVE  Delivered(s, j, m, c, D, f)'
    <3>1. Delivered(s, j, m, c, D, f)
      BY <1>3, <1>6, <1>13, <2>3 DEF Placing
    <3>2. lastTs' = lastTs
      BY <1>6, <1>13
    <3>. QED  BY <1>4, <1>11, <3>1, <3>2 DEF Delivered, AcrossJump
  <2>4. Placing(s, j, m, c, D, f)'
    BY <1>12, <2>1, <2>2, <2>3 DEF Placing
  <2>. QED  BY <1>7, <2>4 DEF Traced
<1>14. CASE k # 0
  <2>1. k \in 1..Len(f)
    BY <1>8, <1>14
  <2>. DEFINE x == f[k]
  <2>2. /\ started' /\ x \in Int /\ x < N /\ \A i \in 1..Len(g) : x < g[i]
        /\ lastTs' = (x + Clock(s, j, x)') % TsSpace
    BY <1>6, <1>8, <1>9, <1>10, <1>11, <1>14, <2>1
  <2>. HIDE DEF x
  <2>3. ASSUME NEW e \in Int, NEW X \in Int,
               N - x =< Far, shift[s] = 0 => deaf = 0 /\ N - 1 - x =< W,
               shift[s] # 0 /\ j =< x => deaf =< J + W,
               shift[s] # 0 /\ x < j => AcrossJump(s, j, x, e, X)
        PROVE  Traced(s)'
    <3>1. AcrossJump(s, j, x, e, X)' <=> AcrossJump(s, j, x, e, X)
      BY <1>4, <1>11 DEF AcrossJump
    <3>2. next'[s] = N /\ Slack(scene)' = W /\ Far' = Far /\ deaf' = deaf
      BY <1>4, <1>11 DEF N, W
    <3>3. Delivered(s, j, x, e, X, g)'
      BY <1>11, <2>2, <2>3, <3>1, <3>2 DEF Delivered, J
    <3>4. Placing(s, j, x, e, X, g)'
      BY <1>12, <2>2, <3>3 DEF Placing
    <3>. QED  BY <1>9, <2>2, <3>4 DEF Traced
  <2>4. CASE ~started
    <3>1. deaf = 0 /\ N - 1 - x =< (Len(f) - k) * (b + 1)
      <4>1. Unread(s, f) /\ f # <<>>
        BY <1>3, <2>1, <2>4 DEF Placing
      <4>. QED  BY <1>1, <2>1, <4>1 DEF Unread, N, b, x
    <3>2. (Len(f) - k) * (b + 1) =< W /\ (Len(f) - k) * (b + 1) \in Int
      <4>1. Len(f) - k \in Int /\ b + 1 \in Int
        BY <1>1, <1>8
      <4>2. (Len(f) - k) * (b + 1) =< W
        BY <1>8, <2>1, QueueIsNear DEF W, b
      <4>. QED  BY <4>1, <4>2
    <3>3. N - 1 - x =< W
      BY <1>1, <2>2, <3>1, <3>2
    <3>4. N - x =< Far
      BY <1>1, <2>2, <3>3
    <3>5. AcrossJump(s, j, x, x, 0)
      <4>1. x =< x + W /\ x =< x /\ j =< x + W + 1
        BY <1>1, <1>8, <2>2, <3>3
      <4>. QED  BY <3>1, <3>3, <4>1 DEF AcrossJump, W, N
    <3>6. deaf =< J + W
      BY <1>1, <3>1
    <3>. QED  BY <1>7, <2>2, <2>3, <3>1, <3>3, <3>4, <3>5, <3>6
  <2>5. CASE started
    <3>1. /\ m < x /\ N - m =< Far
          /\ shift[s] = 0 => deaf = 0 /\ N - 1 - m =< W
          /\ shift[s] # 0 /\ j =< m => deaf =< J + W
          /\ shift[s] # 0 /\ m < j => AcrossJump(s, j, m, c, D)
      <4>1. Delivered(s, j, m, c, D, f)
        BY <1>3, <2>5 DEF Placing
      <4>. QED  BY <2>1, <4>1 DEF Delivered, N, W, J, x
    <3>2. N - x =< Far /\ N - 1 - x =< N - 1 - m /\ N - 1 - x \in Int
      <4>1. \A y \in Int, F \in Int : m < y /\ N - m =< F =>
              N - y =< F /\ N - 1 - y =< N - 1 - m /\ N - 1 - y \in Int
        BY <1>1
      <4>2. Far \in Int
        BY <1>1
      <4>. QED  BY <2>2, <3>1, <4>1, <4>2
    <3>3. shift[s] = 0 => deaf = 0 /\ N - 1 - x =< W
      BY <1>1, <2>2, <3>1, <3>2
    <3>4. ASSUME shift[s] # 0, m < j
          PROVE  /\ deaf =< J + W
                 /\ x < j => AcrossJump(s, j, x, c, D)
      <4>1. AcrossJump(s, j, m, c, D)
        BY <3>1, <3>4
      <4>2. c =< m /\ j =< c + W + 1
        BY <4>1 DEF AcrossJump, W
      <4>3. c =< x /\ (x < j => x =< c + W)
        <5>1. \A y \in Int : m < y => c =< y /\ (y < j => y =< c + W)
          BY <1>1, <4>2
        <5>. QED  BY <2>2, <3>1, <5>1
      <4>4. deaf =< J + W
        BY <1>1, <4>1 DEF AcrossJump, J, W
      <4>. QED  BY <4>1, <4>3, <4>4 DEF AcrossJump, W
    <3>5. m < j \/ j =< m
      OBVIOUS
    <3>6. x < j => m < j
      BY <2>2, <3>1
    <3>7. shift[s] # 0 /\ j =< x => deaf =< J + W
      BY <3>1, <3>4, <3>5, Zenon
    <3>8. shift[s] # 0 /\ x < j => AcrossJump(s, j, x, c, D)
      BY <3>4, <3>6, Zenon
    <3>9. N - x =< Far
      BY <3>2
    <3>10. Traced(s)'
      BY <2>3, <3>3, <3>7, <3>8, <3>9, Zenon
    <3>. QED  BY <1>7, <3>10
  <2>. QED  BY <2>4, <2>5
<1>. QED  BY <1>13, <1>14
-----------------------------------------------------------------------------
\* The jump: the packets so far are of the old clock, and the next one, j, is
\* of the new.
LEMMA JumpPlaces ==
  ASSUME Roomy, DeafInv, Calm, NEW s \in scene.sources, Jump(s)
  PROVE  Jumps(s)' /\ Traced(s)'
<1>1. PICK d \in 1..TsSpace - 1 :
        /\ todo.jumps > 0
        /\ shift' = [shift EXCEPT ![s] = (@ + d) % TsSpace]
        /\ todo' = [todo EXCEPT !.jumps = @ - 1] /\ deaf' = 0
        /\ UNCHANGED <<started, lastTs, rq, next, scene>>
  BY DEF Jump, timeVars
<1>2. /\ Jumps(s) /\ Traced(s) /\ s \in Ssrcs /\ shift \in [Ssrcs -> Nat] /\ next[s] \in Nat
      /\ todo \in [reports : Nat, resets : Nat, jumps : Nat] /\ scene.jumps \in Nat
      /\ TsSpace \in Nat \ {0}
  BY SceneTypes, HalfOfSpace DEF DeafInv, SessionInv, RunInv, BoundInv, Scene
<1>3. shift[s] = 0 /\ todo.jumps \in Nat /\ todo'.jumps = todo.jumps - 1 /\ todo.jumps =< scene.jumps
  <2>1. todo.jumps =< scene.jumps /\ (shift[s] # 0 => todo.jumps < scene.jumps)
    BY <1>2 DEF Jumps
  <2>2. scene.jumps =< 1 /\ todo.jumps \in Nat
    BY <1>2 DEF Calm
  <2>. QED  BY <1>1, <1>2, <2>1, <2>2
<1>4. shift'[s] = d /\ d \in 0..TsSpace - 1 /\ d # 0
  <2>1. d \in 0..TsSpace - 1 /\ 0 + d = d
    BY <1>2
  <2>2. d % TsSpace = d
    BY <1>2, <2>1, ModSmall
  <2>. QED  BY <1>1, <1>2, <1>3, <2>1, <2>2
<1>5. Jumps(s)'
  BY <1>1, <1>2, <1>3, <1>4 DEF Jumps
<1>6. PICK j \in Int, m \in Int, c \in Int, D \in Int, f \in Seq(Int) : Placing(s, j, m, c, D, f)
  BY <1>2 DEF Traced
<1>7. PICK N \in Int : N = next[s]
  BY <1>2
<1>8. \A x \in Int : x < N => Clock(s, N, x)' = 0 /\ Clock(s, j, x) = 0
  BY <1>3, <1>7 DEF Clock
<1>9. Stored(rq, s, N, f)'
  <2>1. Stored(rq, s, j, f) /\ N =< N
    BY <1>2, <1>6, <1>7 DEF Placing
  <2>. QED  BY <1>1, <1>8, <1>7, <2>1 DEF Stored
<1>10. ASSUME ~started'
      PROVE  Unread(s, f)'
  <2>1. Unread(s, f)
    BY <1>1, <1>6, <1>10 DEF Placing
  <2>2. 0 =< TsJump + Slack(scene)
    BY RoomIs
  <2>. QED  BY <1>1, <2>1, <2>2 DEF Unread
<1>11. ASSUME started'
       PROVE  Delivered(s, N, m, m, m, f)'
  <2>1. Delivered(s, j, m, c, D, f)
    BY <1>1, <1>6, <1>11 DEF Placing
  <2>2. m < N /\ N - 1 - m =< Slack(scene)
    BY <1>3, <1>7, <2>1 DEF Delivered
  <2>3. AcrossJump(s, N, m, m, m)'
    <3>1. Slack(scene) \in Nat
      BY RoomIs
    <3>2. m =< m /\ m =< m + Slack(scene) /\ N =< m + Slack(scene) + 1
      BY <1>7, <2>2, <3>1
    <3>. QED  BY <1>1, <1>7, <2>2, <3>2 DEF AcrossJump
  <2>4. ~(N =< m) /\ shift'[s] # 0
    BY <1>4, <1>7, <2>2
  <2>5. lastTs' = (m + Clock(s, N, m)') % TsSpace
    BY <1>1, <1>8, <2>1, <2>2 DEF Delivered
  <2>6. Far' = Far
    BY <1>1 DEF Far
  <2>. QED  BY <1>1, <1>7, <2>1, <2>2, <2>3, <2>4, <2>5, <2>6 DEF Delivered
<1>12. Placing(s, N, m, m, m, f)'
  BY <1>9, <1>10, <1>11 DEF Placing
<1>13. Traced(s)'
  BY <1>7, <1>12 DEF Traced
<1>. QED  BY <1>5, <1>13

LEMMA ResetPlaces ==
  ASSUME Roomy, DeafInv, Calm, NEW s \in scene.sources, Reset
  PROVE  Jumps(s)' /\ Traced(s)'
<1>1. /\ ~started' /\ rq' = <<>> /\ deaf' = 0 /\ UNCHANGED <<next, shift, scene>>
      /\ todo' = [todo EXCEPT !.resets = @ - 1]
  BY DEF Reset
<1>2. Jumps(s) /\ next[s] \in Int /\ todo \in [reports : Nat, resets : Nat, jumps : Nat]
  BY SceneTypes DEF DeafInv, SessionInv, RunInv, BoundInv
<1>3. Jumps(s)'
  BY <1>1, <1>2 DEF Jumps
<1>4. <<>> \in Seq(Int) /\ Len(<<>>) = 0 /\ Len(<<>>) =< MaxRqSize
  BY ReceiveConstants
<1>5. PICK N \in Int : N = next[s]
  BY <1>2
<1>6. Stored(rq, s, N, <<>>)'
  <2>1. N =< next'[s]
    BY <1>1, <1>5
  <2>. QED  BY <1>1, <1>4, <2>1 DEF Stored
<1>7. Unread(s, <<>>)'
  <2>1. 0 =< TsJump + Slack(scene)
    BY RoomIs
  <2>. QED  BY <1>1, <1>4, <2>1 DEF Unread
<1>8. Placing(s, N, N, N, N, <<>>)'
  BY <1>1, <1>6, <1>7 DEF Placing
<1>. QED  BY <1>3, <1>4, <1>5, <1>8 DEF Traced

LEMMA OtherPlaces ==
  ASSUME DeafInv, Calm, NEW s \in scene.sources,
         UNCHANGED <<started, lastTs, rq, next, shift, scene, deaf>>, todo'.jumps = todo.jumps
  PROVE  Jumps(s)' /\ Traced(s)'
<1>1. Jumps(s) /\ Traced(s)
  BY DEF DeafInv
<1>2. Jumps(s)'
  BY <1>1 DEF Jumps
<1>3. PICK j \in Int, m \in Int, c \in Int, D \in Int, f \in Seq(Int) : Placing(s, j, m, c, D, f)
  BY <1>1 DEF Traced
<1>4. \A x : Clock(s, j, x)' = Clock(s, j, x)
  BY DEF Clock
<1>5. Stored(rq, s, j, f)' <=> Stored(rq, s, j, f)
  BY <1>4 DEF Stored
<1>6. Unread(s, f)' <=> Unread(s, f)
  BY DEF Unread
<1>7. AcrossJump(s, j, m, c, D)' <=> AcrossJump(s, j, m, c, D)
  BY DEF AcrossJump
<1>8. Far' = Far /\ Slack(scene)' = Slack(scene)
  BY DEF Far
<1>9. Delivered(s, j, m, c, D, f)' <=> Delivered(s, j, m, c, D, f)
  BY <1>4, <1>7, <1>8 DEF Delivered
<1>10. Placing(s, j, m, c, D, f)'
  BY <1>3, <1>5, <1>6, <1>9 DEF Placing
<1>. QED  BY <1>2, <1>10 DEF Traced
-----------------------------------------------------------------------------
LEMMA DeafCounts ==
  ASSUME DeafInv, [Next]_vars
  PROVE  deaf' \in Nat /\ scene' = scene
<1>1. deaf \in Nat
  BY DEF DeafInv
<1>2. ASSUME NEW s \in scene.sources, Receive(s)
      PROVE  deaf' \in Nat
  <2>1. PICK n \in Nat : Arrives(s, n)
    BY <1>2, ReceiveArrives DEF DeafInv
  <2>2. deaf' \in {deaf, deaf + 1, 0}
    <3>1. CheckTime(s, n)
      BY <2>1 DEF Arrives
    <3>. QED  BY <3>1 DEF CheckTime
  <2>. QED  BY <1>1, <2>2
<1>3. (\E s \in scene.sources : Jump(s)) \/ Reset => deaf' = 0
  BY DEF Jump, Reset
<1>4. Deliver \/ Report \/ UNCHANGED vars => deaf' = deaf
  BY DEF Deliver, Report, vars, histVars
<1>5. deaf' \in Nat
  BY <1>1, <1>2, <1>3, <1>4 DEF Next
<1>. QED  BY <1>5 DEF Next, Receive, Deliver, Report, Reset, Jump, vars, envVars

LEMMA DeafInvStep ==
  ASSUME Roomy, DeafInv, [Next]_vars
  PROVE  DeafInv'
<1>1. SessionInv' /\ RunInv' /\ deaf' \in Nat /\ scene' = scene
  BY ReceiveSession, OtherSession, RunInvStep, DeafCounts DEF DeafInv
<1>2. ASSUME Calm, NEW s \in scene.sources
      PROVE  Jumps(s)' /\ Traced(s)'
  <2>1. \A x \in scene.sources : x = s
    BY <1>2, OnlySource DEF DeafInv, Calm
  <2>2. CASE Receive(s)
    BY <1>2, <2>2, ReceivePlaces
  <2>3. CASE Jump(s)
    BY <1>2, <2>3, JumpPlaces
  <2>4. CASE Deliver
    BY <1>2, <2>4, DeliverPlaces
  <2>5. CASE Reset
    BY <1>2, <2>5, ResetPlaces
  <2>6. CASE Report
    <3>1. todo \in [reports : Nat, resets : Nat, jumps : Nat]
      BY DEF DeafInv, RunInv, BoundInv
    <3>2. UNCHANGED <<started, lastTs, rq, next, shift, scene, deaf>> /\ todo'.jumps = todo.jumps
      BY <2>6, <3>1 DEF Report, timeVars, histVars
    <3>. QED  BY <1>2, <3>2, OtherPlaces
  <2>7. CASE UNCHANGED vars
    <3>1. UNCHANGED <<started, lastTs, rq, next, shift, scene, deaf>> /\ todo'.jumps = todo.jumps
      BY <2>7 DEF vars, timeVars, envVars, histVars
    <3>. QED  BY <1>2, <3>1, OtherPlaces
  <2>. QED  BY <2>1, <2>2, <2>3, <2>4, <2>5, <2>6, <2>7 DEF Next
<1>3. Calm' <=> Calm
  BY <1>1 DEF Calm, OneSource
<1>. QED  BY <1>1, <1>2, <1>3 DEF DeafInv

LEMMA DeafInvStart == ASSUME Roomy, Init PROVE DeafInv
<1>1. SessionInv /\ RunInv /\ deaf = 0
  BY CountInvStart, RunInvInit DEF CountInv, Init
<1>2. ASSUME NEW s \in scene.sources
      PROVE  Jumps(s) /\ Traced(s)
  <2>1. /\ s \in Ssrcs /\ shift[s] = 0 /\ next[s] \in Int /\ rq = <<>> /\ ~started
        /\ todo.jumps = scene.jumps /\ scene \in Scene
    BY <1>1, SceneTypes DEF Init, SessionInv
  <2>2. scene.jumps \in Nat /\ MaxRqSize \in Nat /\ 0 \in 0..TsSpace - 1
    BY <2>1, ReceiveConstants DEF Scene
  <2>3. Jumps(s)
    BY <2>1, <2>2 DEF Jumps
  <2>4. PICK N \in Int : N = next[s]
    BY <2>1
  <2>5. <<>> \in Seq(Int) /\ Len(<<>>) = 0
    OBVIOUS
  <2>6. Stored(rq, s, N, <<>>)
    BY <2>1, <2>2, <2>4, <2>5 DEF Stored
  <2>7. Unread(s, <<>>)
    <3>1. Slack(scene) \in Nat /\ TsJump \in Nat
      BY <2>1, SlackIs
    <3>. QED  BY <1>1, <2>5, <3>1 DEF Unread
  <2>8. Placing(s, N, N, N, N, <<>>)
    BY <2>1, <2>6, <2>7 DEF Placing
  <2>. QED  BY <2>3, <2>4, <2>5, <2>8 DEF Traced
<1>. QED  BY <1>1, <1>2 DEF DeafInv

\* A source whose clock jumps once, and whose packets come in order, is not
\* turned down (TooOld, in rtp_session_rtp_parse) for longer than TsJump packets
\* and those of the old clock that may still be delivered, if the session
\* resynchronizes when it sees the jump: however the packets that come, the
\* calls of recvm and the losses are interleaved, and by whatever amount the
\* clock jumps.
THEOREM DeafnessPasses ==
  ASSUME Roomy
  PROVE  Spec => []DeafnessEnds
<1>1. DeafInv => DeafnessEnds
  <2>1. SUFFICES ASSUME DeafInv, Calm
                 PROVE  deaf =< TsJump + Slack(scene)
    BY DEF DeafnessEnds, Calm
  <2>2. PICK s \in scene.sources : TRUE
    <3>1. scene.sources # {}
      <4>1. Cardinality(scene.sources) = 1
        BY <2>1 DEF Calm, OneSource
      <4>. QED  BY <4>1, FS_EmptySet
    <3>. QED  BY <3>1
  <2>3. PICK j \in Int, m \in Int, c \in Int, D \in Int, f \in Seq(Int) : Placing(s, j, m, c, D, f)
    BY <2>1, <2>2 DEF DeafInv, Traced
  <2>4. Slack(scene) \in Nat /\ TsJump \in Nat
    BY <2>1, RoomIs
  <2>5. CASE ~started
    BY <2>3, <2>5 DEF Placing, Unread
  <2>6. CASE started
    <3>1. Delivered(s, j, m, c, D, f)
      BY <2>3, <2>6 DEF Placing
    <3>2. deaf = 0 \/ deaf =< TsJump + Slack(scene)
      <4>1. CASE shift[s] = 0
        BY <3>1, <4>1 DEF Delivered
      <4>2. CASE shift[s] # 0 /\ j =< m
        BY <3>1, <4>2 DEF Delivered
      <4>3. CASE shift[s] # 0 /\ m < j
        BY <3>1, <4>3 DEF Delivered, AcrossJump
      <4>. QED  BY <4>1, <4>2, <4>3
    <3>. QED  BY <2>4, <3>2
  <2>. QED  BY <2>5, <2>6
<1>2. DeafInv /\ [Next]_vars => DeafInv'
  BY DeafInvStep
<1>3. Init => DeafInv
  BY DeafInvStart
<1>. QED  BY <1>1, <1>2, <1>3, PTL DEF Spec
=============================================================================
