------------------------ MODULE TelephoneEventsProofs ------------------------
(***************************************************************************)
(* What TelephoneEvents guarantees for any number of keys, any duration of *)
(* the tones and any loss and duplication: the numbers on the wire follow  *)
(* each other, and, when the network keeps the order of the packets from   *)
(* call to call, every key is reported at most once and in the order of    *)
(* the keys.                                                               *)
(*                                                                         *)
(* The argument for the second one orders the packets by their place in    *)
(* the stream.  What waits, on its way or in tev_rq, waits in that order   *)
(* and is not older than the packet taken last; the end of a tone is the   *)
(* only one of its packets at its place, and no later packet belongs to    *)
(* its key.  So an end that was reported can only come again while the     *)
(* stored events are still those of its tone, which say so.                *)
(***************************************************************************)
EXTENDS TelephoneEvents, RtpQueueProofs, FiniteSetTheorems

\* Place in the stream, whose first number is SeqSpace - 2.
Place(s) == (s + 2) % SeqSpace
No(p)    == Place(p.seq)
Sent     == Place(sndSeq)

Waiting == Range(net) \cup Range(tevQ)

Keys    == GoodKeys \cup BadKeys
Numbers == 0..SeqSpace - 1
Times   == 0..TsSpace - 1
Packets == [tev : BOOLEAN, id : Nat, seq : Numbers, ts : Times,
            mark : BOOLEAN, end : BOOLEAN]

ToneTypes ==
  /\ scene \in [supported : BOOLEAN, direct : BOOLEAN, ordered : BOOLEAN]
  /\ quiet \in 0..MaxQuiet /\ time \in Times /\ lastNet \in Times
  /\ lastSent = <<>> \/ \E t \in Times : lastSent = <<t>>
  /\ dtmf = <<>> \/ \E k \in Keys : dtmf = <<k, pressed>>
  /\ dtmf # <<>> => pressed > 0
  /\ skip \in BOOLEAN /\ skipUntil \in Times
  /\ duration \in Durations /\ mute \in BOOLEAN
  /\ sndSeq \in Numbers /\ wire \in Seq(Packets) /\ pressed \in 0..MaxPress
  /\ net \in Seq(Packets) /\ tevQ \in Seq(Packets)
  /\ curTev = <<>> \/ \E m \in Packets : curTev = <<m>>
  /\ reported \in Seq(Nat)
  /\ budget \in [loss : Nat, dup : Nat, change : Nat, idle : Nat, late : Nat, air : Nat]

\* A tone that goes on has a key; keys sent by the application are not stored.
SenderInv ==
  /\ skip => dtmf # <<>> /\ lastSent # <<>>
  /\ scene.direct => dtmf = <<>>

\* sndSeq is the number after the last one on the wire.
WireInv == wire # <<>> => sndSeq = Seq1(Last(wire).seq + 1)

\* How far the timestamps of the frames are behind the clock.
Lag == IF lastSent = <<>> THEN 0 ELSE Ts(time - lastNet)
LagInv == 2 * (Lag + budget.idle + MaxDuration) < TsSpace

\* The keys whose packets may be on the wire, and those that may be ended.
Begun == IF dtmf # <<>> /\ ~skip THEN pressed - 1 ELSE pressed
Ended == IF dtmf # <<>> THEN pressed - 1 ELSE pressed

\* Frames until the tone ends, and the numbers they may need.
Left == Ts(skipUntil - lastNet)
CountInv ==
  /\ skip  => Left \in 1..MaxDuration /\ Sent + Left + 1 =< NumbersOfPress * pressed
  /\ ~skip => Sent =< quiet + NumbersOfPress * Ended

PacketInv ==
  \A p \in Waiting :
    /\ No(p) < Sent /\ p.id =< Begun
    /\ p.end => p.id =< Ended /\ ~p.mark

\* Two packets at one place are one; no later packet belongs to the key of an
\* end, and none to an earlier key.
PairInv ==
  \A p, q \in Waiting :
    /\ No(p) = No(q) => p = q
    /\ No(p) < No(q) => p.id =< q.id /\ (p.end => p.id < q.id)

OrderInv ==
  /\ \A i, j \in DOMAIN net : i < j => No(net[i]) =< No(net[j])
  /\ \A i, j \in DOMAIN tevQ : i < j => No(tevQ[i]) < No(tevQ[j])
  /\ \A i \in DOMAIN tevQ, j \in DOMAIN net : No(tevQ[i]) =< No(net[j])

\* p is an end that was reported or passed over.
Old(p) == p.end /\ reported # <<>> /\ p.id =< Last(reported)

\* e is the place of the packet taken last.
TakenAt(e) ==
  /\ e < Sent
  /\ \A p \in Waiting :
       /\ e =< No(p)
       /\ Old(p) => /\ No(p) = e /\ curTev # <<>>
                    /\ curTev[1].ts = p.ts /\ curTev[1].end

TakenInv ==
  /\ reported # <<>> => Last(reported) =< Ended
  /\ \E e \in -1..SeqSpace : TakenAt(e)

StreamInv == /\ ToneTypes /\ SenderInv /\ LagInv /\ CountInv /\ PacketInv
             /\ PairInv /\ OrderInv /\ TakenInv /\ InOrder
-----------------------------------------------------------------------------
BudgetType == [loss : Nat, dup : Nat, change : Nat, idle : Nat, late : Nat, air : Nat]

LEMMA ToneConstants ==
  /\ SeqSpace \in Nat \ {0} /\ SeqSpace % 2 = 0 /\ TsSpace \in Nat \ {0} /\ TsSpace % 2 = 0
  /\ Duration0 \in Durations /\ Durations \subseteq 1..(TsSpace \div 2) - 1
  /\ Tolerance \in Nat /\ MaxQuiet \in Nat /\ Budgets \subseteq BudgetType
  /\ TevQSize \in Nat \ {0} /\ MaxPress \in Nat \ {0} /\ MaxRead \in Nat \ {0}
  BY SpaceAssumption, ToneAssumption DEF SpaceAssumption, ToneAssumption, BudgetType

\* The longest duration.
LEMMA Longest ==
  /\ MaxDuration \in Nat \ {0} /\ NumbersOfPress \in Nat
  /\ \A d \in Durations : d \in Nat \ {0} /\ d \in Times /\ d =< MaxDuration
<1>1. Durations # {} /\ Durations \in SUBSET (0..TsSpace - 1) /\ TsSpace - 1 \in Nat
  BY ToneConstants
<1>2. Max(Durations) \in Durations /\ \A d \in Durations : Max(Durations) >= d
  BY <1>1, GreatestOf
<1>3. \A d \in Durations : d \in Nat \ {0} /\ d \in 0..TsSpace - 1
  BY ToneConstants
<1>4. MaxDuration \in Nat \ {0}
  BY <1>2, <1>3 DEF MaxDuration
<1>5. NumbersOfPress \in Nat
  BY <1>4, ToneConstants DEF NumbersOfPress
<1>6. \A d \in Durations : d =< MaxDuration
  <2>1. ASSUME NEW d \in Durations  PROVE d =< MaxDuration
    <3>1. d \in Nat /\ Max(Durations) \in Nat /\ Max(Durations) >= d
      BY <1>2, <1>3
    <3>. QED  BY <3>1 DEF MaxDuration
  <2>. QED  BY <2>1
<1>. QED  BY <1>3, <1>4, <1>5, <1>6 DEF Times

LEMMA TsType == ASSUME NEW x \in Int PROVE Ts(x) \in Times
  BY ToneConstants, ModRange DEF Ts, Times

LEMMA SeqType == ASSUME NEW x \in Int PROVE Seq1(x) \in Numbers
  BY ToneConstants, ModRange DEF Seq1, Numbers

LEMMA IntTypes == Times \subseteq Int /\ Numbers \subseteq Int
  BY DEF Times, Numbers

LEMMA NextNumbers == \A s \in Numbers : \A k \in Nat : Seq1(s + k) \in Numbers
<1>1. ASSUME NEW s \in Numbers, NEW k \in Nat  PROVE Seq1(s + k) \in Numbers
  <2>1. s + k \in Int
    BY DEF Numbers
  <2>. QED  BY <2>1, SeqType
<1>. QED  BY <1>1

LEMMA BudgetSpent ==
  ASSUME NEW b \in BudgetType
  PROVE  /\ b.change > 0 => [b EXCEPT !.change = @ - 1] \in BudgetType
         /\ b.idle > 0 => [b EXCEPT !.idle = @ - 1] \in BudgetType
         /\ b.late > 0 => [b EXCEPT !.late = @ - 1] \in BudgetType
<1>1. b.change > 0 => b.change - 1 \in Nat
  BY DEF BudgetType
<1>2. b.idle > 0 => b.idle - 1 \in Nat
  BY DEF BudgetType
<1>3. b.late > 0 => b.late - 1 \in Nat
  BY DEF BudgetType
<1>. QED  BY <1>1, <1>2, <1>3 DEF BudgetType
-----------------------------------------------------------------------------
(***************************************************************************)
(* What is sent.                                                           *)
(***************************************************************************)
\* What arrives of tevs, at the end of what is on its way.
Arrives(tevs) ==
  \E n \in 0..Len(tevs) : \E kept \in Increasing(n, Len(tevs)) :
    net' = net \o [i \in 1..n |-> tevs[kept[i]]]

LEMMA TransmitStep ==
  ASSUME NEW allowed \in BudgetType, NEW tevs \in Seq(Packets), net \in Seq(Packets),
         Transmit(tevs, allowed)
  PROVE  /\ budget' \in BudgetType /\ budget'.idle = allowed.idle
         /\ net' \in Seq(Packets) /\ Arrives(tevs)
<1>0. PICK n \in 0..Len(tevs) : \E kept \in Increasing(n, Len(tevs)) :
        /\ Len(tevs) - n =< allowed.loss
        /\ net' = net \o [i \in 1..n |-> tevs[kept[i]]]
        /\ budget' = [allowed EXCEPT !.loss = @ - (Len(tevs) - n)]
  BY DEF Transmit
<1>1. PICK kept \in Increasing(n, Len(tevs)) :
        /\ Len(tevs) - n =< allowed.loss
        /\ net' = net \o [i \in 1..n |-> tevs[kept[i]]]
        /\ budget' = [allowed EXCEPT !.loss = @ - (Len(tevs) - n)]
  BY <1>0
<1>2. allowed.loss - (Len(tevs) - n) \in Nat
  BY <1>1 DEF BudgetType
<1>3. budget' \in BudgetType /\ budget'.idle = allowed.idle
  BY <1>1, <1>2 DEF BudgetType
<1>4. kept \in [1..n -> 1..Len(tevs)]
  BY DEF Increasing
<1>5. [i \in 1..n |-> tevs[kept[i]]] \in Seq(Packets)
  <2>1. \A i \in 1..n : tevs[kept[i]] \in Packets
    BY <1>4
  <2>. QED  BY <2>1
<1>6. net' \in Seq(Packets)
  BY <1>1, <1>5
<1>. QED  BY <1>1, <1>3, <1>6 DEF Arrives

\* The frame of this tick.
Tick   == Ts(time + 1)
Now    == NetTs(Tick)
Begins == dtmf # <<>> /\ ~skip
IsOn   == Begins \/ skip
Until  == IF Begins THEN Ts(Now + duration) ELSE skipUntil
IsOver == IsOn /\ Over(Now, Until)

\* A packet of the tone.
TonePacket(p) ==
  /\ p \in Packets /\ p.tev /\ p.id = pressed /\ p.seq = sndSeq
  /\ p.mark = Begins /\ p.end = IsOver

FrameSends(tevs) ==
  \/ tevs = <<>>
  \/ IsOn /\ \E p \in Packets : TonePacket(p) /\ tevs = IF IsOver THEN Thrice(p) ELSE <<p>>

After(tevs) == IF tevs = <<>> THEN sndSeq ELSE Seq1(sndSeq + 1)

FrameWith(d, tevs, talk) ==
  /\ FrameSends(tevs) /\ (talk => ~IsOn \/ IsOver)
  /\ time' = Tick /\ lastSent' = <<Tick>> /\ lastNet' = Now /\ duration' = d
  /\ skip' = (IsOn /\ ~IsOver) /\ dtmf' = (IF IsOver THEN <<>> ELSE dtmf)
  /\ IsOn \/ quiet < MaxQuiet
  /\ quiet' = (IF IsOn THEN 0 ELSE quiet + 1)
  /\ skipUntil' = Until
  /\ sndSeq' = (IF talk THEN Seq1(After(tevs) + 1) ELSE After(tevs))
  /\ wire' = (IF tevs \o (IF talk THEN <<Sound(After(tevs))>> ELSE <<>>) = <<>> THEN wire
              ELSE tevs \o (IF talk THEN <<Sound(After(tevs))>> ELSE <<>>))
  /\ budget' \in BudgetType /\ budget'.idle = budget.idle
  /\ net' \in Seq(Packets) /\ Arrives(tevs)
  /\ UNCHANGED <<scene, mute, pressed, rcv>>

LEMMA NowType == ASSUME ToneTypes PROVE Tick \in Times /\ Now \in Times
<1>1. time \in Int /\ lastNet \in Int
  BY IntTypes DEF ToneTypes
<1>2. Tick \in Times /\ Ts(lastNet + 1) \in Times
  BY <1>1, TsType DEF Tick
<1>. QED  BY <1>2 DEF Now, NetTs

LEMMA UntilType == ASSUME ToneTypes PROVE Until \in Times
<1>1. Now + duration \in Int
  <2>1. duration \in Nat
    BY Longest DEF ToneTypes
  <2>2. Now \in Int
    BY NowType, IntTypes
  <2>. QED  BY <2>1, <2>2
<1>. QED  BY <1>1, TsType DEF Until, ToneTypes

LEMMA FrameStep ==
  ASSUME ToneTypes, SenderInv, Frame
  PROVE  \E d \in Durations, tevs \in Seq(Packets), talk \in BOOLEAN : FrameWith(d, tevs, talk)
<1>. DEFINE t      == Ts(time + 1)
            now    == NetTs(t)
            begins == dtmf # <<>> /\ ~skip
            on     == begins \/ skip
            until  == IF begins THEN Ts(now + duration) ELSE skipUntil
            over   == on /\ Over(now, until)
            Sends(d) == IF ~on THEN <<>>
                        ELSE TonePackets(dtmf[1], dtmf[2], Ts(until - d), begins, over)
            Talk(d)  == (~on \/ Finished(over, Sends(d))) /\ ~mute
            Seq2(d)  == IF Sends(d) = <<>> THEN sndSeq ELSE SeqAfter(Sends(d))
            Ps(d)    == Sends(d) \o (IF Talk(d) THEN <<Sound(Seq2(d))>> ELSE <<>>)
<1>0. t = Tick /\ now = Now /\ begins = Begins /\ on = IsOn /\ until = Until /\ over = IsOver
  BY DEF Tick, Now, Begins, IsOn, Until, IsOver
<1>1. PICK d \in IF begins /\ budget.change > 0 THEN Durations ELSE {duration} :
        /\ time' = t /\ lastSent' = <<t>> /\ lastNet' = now
        /\ duration' = d
        /\ skip' = (on /\ ~Finished(over, Sends(d)))
        /\ dtmf' = (IF Finished(over, Sends(d)) THEN <<>> ELSE dtmf)
        /\ on \/ quiet < MaxQuiet
        /\ quiet' = (IF on THEN 0 ELSE quiet + 1)
        /\ skipUntil' = until
        /\ sndSeq' = (IF Talk(d) THEN Seq1(Seq2(d) + 1) ELSE Seq2(d))
        /\ wire' = (IF Ps(d) = <<>> THEN wire ELSE Ps(d))
        /\ Transmit(Sends(d), IF d = duration THEN budget
                              ELSE [budget EXCEPT !.change = @ - 1])
        /\ UNCHANGED <<scene, mute, pressed, rcv>>
  BY Zenon DEF Frame
<1>. DEFINE tevs == Sends(d)
            talk == Talk(d)
<1>2. d \in Durations
  BY <1>1 DEF ToneTypes
<1>. HIDE DEF t, now, begins, on, until, over
<1>3. FrameSends(tevs) /\ tevs \in Seq(Packets)
  <2>1. CASE ~on
    BY <1>0, <2>1 DEF FrameSends
  <2>2. CASE on /\ (dtmf[1] \notin GoodKeys \/ ~scene.supported)
    BY <2>2 DEF TonePackets, FrameSends
  <2>3. CASE on /\ ~(dtmf[1] \notin GoodKeys \/ ~scene.supported)
    <3>. DEFINE p == Tev(dtmf[2], sndSeq, Ts(until - d), begins, over)
    <3>1. dtmf # <<>>
      BY <2>3 DEF on, begins, SenderInv
    <3>2. dtmf[2] = pressed
      BY <3>1 DEF ToneTypes
    <3>3. Ts(until - d) \in Times
      <4>1. until \in Int /\ d \in Int
        BY <1>0, <1>2, UntilType, Longest, IntTypes
      <4>. QED  BY <4>1, TsType
    <3>4. begins \in BOOLEAN /\ over \in BOOLEAN
      BY DEF begins, over
    <3>5. p \in Packets /\ TonePacket(p)
      BY <1>0, <3>2, <3>3, <3>4 DEF Tev, Packets, TonePacket, ToneTypes
    <3>6. tevs = IF over THEN Thrice(p) ELSE <<p>>
      BY <2>3 DEF TonePackets
    <3>. HIDE DEF p, tevs
    <3>7. FrameSends(tevs)
      BY <1>0, <2>3, <3>5, <3>6 DEF FrameSends
    <3>8. tevs \in Seq(Packets)
      BY <3>5, <3>6 DEF Thrice
    <3>. QED  BY <3>7, <3>8 DEF tevs
  <2>. QED  BY <2>1, <2>2, <2>3
<1>4. Seq2(d) = After(tevs)
  <2>1. CASE tevs = <<>>
    BY <2>1 DEF After
  <2>2. CASE tevs # <<>>
    <3>. HIDE DEF tevs
    <3>1. PICK p \in Packets : TonePacket(p) /\ tevs = IF IsOver THEN Thrice(p) ELSE <<p>>
      BY <1>3, <2>2 DEF FrameSends
    <3>2. Last(tevs) = p
      BY <3>1 DEF Last, Thrice
    <3>. QED  BY <2>2, <3>1, <3>2 DEF After, SeqAfter, TonePacket, tevs
  <2>. QED  BY <2>1, <2>2
<1>. DEFINE allowed == IF d = duration THEN budget ELSE [budget EXCEPT !.change = @ - 1]
<1>5. allowed \in BudgetType /\ allowed.idle = budget.idle
  <2>1. d # duration => budget.change > 0
    BY <1>1
  <2>2. budget \in BudgetType
    BY DEF ToneTypes, BudgetType
  <2>. QED  BY <2>1, <2>2 DEF BudgetType
<1>6. /\ budget' \in BudgetType /\ budget'.idle = budget.idle
      /\ net' \in Seq(Packets) /\ Arrives(tevs)
  <2>1. net \in Seq(Packets) /\ Transmit(tevs, allowed)
    BY <1>1 DEF ToneTypes
  <2>. HIDE DEF tevs, allowed
  <2>. QED  BY <1>3, <1>5, <2>1, TransmitStep
<1>7. Finished(over, tevs) = over
  BY DEF Finished
<1>8. talk \in BOOLEAN /\ (talk => ~on \/ over)
  BY <1>7
<1>. HIDE DEF tevs, talk
<1>9. FrameWith(d, tevs, talk)
  BY <1>0, <1>1, <1>3, <1>4, <1>6, <1>7, <1>8 DEF FrameWith, tevs, talk
<1>. QED  BY <1>2, <1>3, <1>8, <1>9
-----------------------------------------------------------------------------
(***************************************************************************)
(* What is received.                                                       *)
(***************************************************************************)
\* What a set of queues keeps when a packet is queued, it keeps for them all.
LEMMA QueuedIn ==
  ASSUME NEW S, NEW X, NEW q \in X, NEW order \in Seq(S),
         \A r \in X, p \in S : queue_packet(r, TevQSize, p) \in X
  PROVE  Queued(q, order) \in X
<1>. DEFINE m == Len(order)
            Put(r, i) == queue_packet(r, TevQSize, order[i])
            G == [z \in X \X (1..m) |-> Put(z[1], z[2])]
            h == CHOOSE f : f = [i \in 0..m |->
                   IF i = 0 THEN q ELSE queue_packet(f[i - 1], TevQSize, order[i])]
<1>1. Queued(q, order) = h[m]
  BY DEF Queued
<1>2. m \in Nat /\ \A i \in 1..m : order[i] \in S
  OBVIOUS
<1>3. G \in [X \X (1..m) -> X]
  BY <1>2
<1>. HIDE DEF m
<1>4. PICK f \in [0..m -> X] : Unfolds(f, q, m, G)
  <2>. HIDE DEF G
  <2>. QED  BY <1>2, <1>3, FunctionExists
<1>5. f[0] = q /\ \A i \in 1..m : f[i] = queue_packet(f[i - 1], TevQSize, order[i])
  <2>1. ASSUME NEW i \in 1..m  PROVE f[i] = queue_packet(f[i - 1], TevQSize, order[i])
    <3>1. f[i - 1] \in X /\ f[i] = G[<<f[i - 1], i>>]
      <4>. HIDE DEF G
      <4>. QED  BY <1>2, <1>4 DEF Unfolds
    <3>2. G[<<f[i - 1], i>>] = Put(f[i - 1], i)
      <4>. HIDE DEF Put
      <4>. QED  BY <3>1
    <3>. QED  BY <3>1, <3>2
  <2>. QED  BY <1>4, <2>1 DEF Unfolds
<1>6. f = [i \in 0..m |-> IF i = 0 THEN q ELSE queue_packet(f[i - 1], TevQSize, order[i])]
  <2>1. \A i \in 0..m : i = 0 \/ i \in 1..m
    BY <1>2
  <2>. QED  BY <1>4, <1>5, <2>1
<1>7. h = [i \in 0..m |-> IF i = 0 THEN q ELSE queue_packet(h[i - 1], TevQSize, order[i])]
  BY <1>6, Zenon
<1>. HIDE DEF h
<1>8. h[0] = q /\ \A i \in 1..m : h[i] = queue_packet(h[i - 1], TevQSize, order[i])
  <2>1. 0 \in 0..m /\ \A i \in 1..m : i \in 0..m /\ i # 0
    BY <1>2
  <2>. QED  BY <1>7, <2>1
<1>. DEFINE K == {i \in Nat : i =< m => h[i] \in X}
<1>9. 0 \in K
  BY <1>8
<1>10. ASSUME NEW i \in Nat, i \in K  PROVE i + 1 \in K
  <2>1. SUFFICES ASSUME i + 1 =< m  PROVE h[i + 1] \in X
    OBVIOUS
  <2>2. i + 1 \in 1..m /\ (i + 1) - 1 = i /\ h[i] \in X
    BY <1>2, <1>10, <2>1
  <2>. QED  BY <1>2, <1>8, <2>2
<1>. HIDE DEF K
<1>11. m \in K
  BY <1>2, <1>9, <1>10, AllNumbers
<1>. QED  BY <1>1, <1>2, <1>11 DEF K

LEMMA QueuedPackets ==
  ASSUME NEW q \in Seq(Packets), NEW order \in Seq(Packets)
  PROVE  Queued(q, order) \in Seq(Packets)
<1>1. \A r \in Seq(Packets), p \in Packets : queue_packet(r, TevQSize, p) \in Seq(Packets)
  <2>1. ASSUME NEW W, NEW r \in Seq(W), NEW p \in W  PROVE queue_packet(r, TevQSize, p) \in Seq(W)
    BY ToneConstants, QueueKeeps
  <2>. QED  BY <2>1
<1>. QED  BY <1>1, QueuedIn

\* A call reads the first n packets in some order; the last one may stay.
RecvWith(n, again, order) ==
  /\ TakeOut(Queued(tevQ, order))
  /\ net' = SubSeq(net, n + 1 - again, Len(net))
  /\ budget' \in BudgetType /\ budget'.idle = budget.idle
  /\ UNCHANGED <<scene, snd>>

LEMMA RecvStep ==
  ASSUME ToneTypes, Recv
  PROVE  \E n \in 1..Len(net), again \in {0, 1} : \E order \in Seq(Range(SubSeq(net, 1, n))) :
           RecvWith(n, again, order)
<1>1. PICK n \in 1..MaxRead \cap DOMAIN net, again \in IF budget.dup > 0 THEN {0, 1} ELSE {0} :
        \E order \in SetToSeqs(Range(SubSeq(net, 1, n))) :
          /\ TakeOut(Queued(tevQ, order))
          /\ net' = SubSeq(net, n + 1 - again, Len(net))
          /\ budget' = [budget EXCEPT !.dup = @ - again]
          /\ UNCHANGED <<scene, snd>>
  BY DEF Recv
<1>. DEFINE front == SubSeq(net, 1, n)
            S == Range(front)
<1>2. PICK order \in SetToSeqs(S) :
        /\ TakeOut(Queued(tevQ, order))
        /\ net' = SubSeq(net, n + 1 - again, Len(net))
        /\ budget' = [budget EXCEPT !.dup = @ - again]
        /\ UNCHANGED <<scene, snd>>
  BY <1>1
<1>3. n \in 1..Len(net) /\ again \in {0, 1} /\ Len(net) \in Nat
  BY ToneConstants DEF ToneTypes
<1>4. order \in Seq(S)
  <2>1. front \in [1..n -> S] /\ \A x \in S : \E i \in 1..n : front[i] = x
    <3>1. net \in Seq(Packets)
      BY DEF ToneTypes
    <3>2. front \in [1..n -> Packets]
      <4>1. front \in Seq(Packets) /\ Len(front) = n
        BY <1>3, <3>1, SubSeqProperties
      <4>. HIDE DEF front
      <4>. QED  BY <4>1
    <3>. HIDE DEF front
    <3>. QED  BY <3>2 DEF Range
  <2>. HIDE DEF front, S
  <2>2. front \in Surjection(1..n, S)
    BY <2>1 DEF Surjection
  <2>3. IsFiniteSet(1..n)
    BY <1>3, FS_Interval
  <2>4. IsFiniteSet(S)
    BY <2>2, <2>3, FS_Surjection
  <2>5. Cardinality(S) \in Nat
    BY <2>4, FS_CardinalityType
  <2>6. order \in [1..Cardinality(S) -> S]
    BY DEF SetToSeqs
  <2>. QED  BY <2>5, <2>6
<1>5. budget' \in BudgetType /\ budget'.idle = budget.idle
  <2>1. budget \in BudgetType /\ budget.dup - again \in Nat
    <3>1. again = 1 => budget.dup > 0
      OBVIOUS
    <3>2. budget.dup \in Nat
      BY DEF ToneTypes
    <3>. QED  BY <1>3, <3>1, <3>2 DEF ToneTypes, BudgetType
  <2>. QED  BY <1>2, <2>1 DEF BudgetType
<1>. QED  BY <1>2, <1>3, <1>4, <1>5 DEF RecvWith

\* What the application has taken out.
TakenTypes ==
  /\ tevQ \in Seq(Packets) /\ reported \in Seq(Nat)
  /\ curTev = <<>> \/ \E m \in Packets : curTev = <<m>>

LEMMA TakeTypes ==
  ASSUME TakenTypes, NEW q \in Seq(Packets), TakeOut(q)
  PROVE  TakenTypes'
<1>1. CASE q = <<>>
  BY <1>1 DEF TakeOut, TakenTypes
<1>2. CASE q # <<>>
  <2>. DEFINE m == Head(q)
              other == m.mark \/ curTev = <<>> \/ curTev[1].ts # m.ts
              new   == m.end /\ (other \/ ~curTev[1].end)
  <2>1. m \in Packets /\ Tail(q) \in Seq(Packets)
    BY <1>2
  <2>2. /\ tevQ' = Tail(q)
        /\ curTev' = (IF other THEN <<m>>
                      ELSE IF new THEN <<[curTev[1] EXCEPT !.end = TRUE]>> ELSE curTev)
        /\ reported' = IF new THEN Append(reported, m.id) ELSE reported
    BY <1>2 DEF TakeOut, Check
  <2>3. m.id \in Nat
    BY <2>1 DEF Packets
  <2>. HIDE DEF m
  <2>4. reported' \in Seq(Nat)
    BY <2>2, <2>3 DEF TakenTypes
  <2>5. curTev' = <<>> \/ \E x \in Packets : curTev' = <<x>>
    <3>1. CASE other
      BY <2>1, <2>2, <3>1
    <3>2. CASE ~other /\ new
      <4>1. PICK c \in Packets : curTev = <<c>>
        BY <3>2 DEF TakenTypes
      <4>2. curTev' = <<[c EXCEPT !.end = TRUE]>>
        BY <2>2, <3>2, <4>1
      <4>3. [c EXCEPT !.end = TRUE] \in Packets
        BY DEF Packets
      <4>. QED  BY <4>2, <4>3
    <3>3. CASE ~other /\ ~new
      BY <2>2, <3>3 DEF TakenTypes
    <3>. QED  BY <3>1, <3>2, <3>3
  <2>. QED  BY <2>1, <2>2, <2>4, <2>5 DEF TakenTypes
<1>. QED  BY <1>1, <1>2
-----------------------------------------------------------------------------
(***************************************************************************)
(* The types, and that a tone which goes on has a key.                     *)
(***************************************************************************)
\* rtp_session_send_dtmf2: a begins the tone, b goes on with it, c ends it.
DirectWith(a, b, c) ==
  /\ scene.direct /\ pressed < MaxPress
  /\ wire # <<>>
  /\ a.id = pressed + 1 /\ b.id = pressed + 1 /\ c.id = pressed + 1
  /\ ~a.end /\ ~b.end /\ c.end /\ ~c.mark
  /\ a.seq = sndSeq /\ b.seq = Seq1(sndSeq + 1) /\ c.seq = Seq1(sndSeq + 2)
  /\ sndSeq' = Seq1(Seq1(sndSeq + 2) + 1)
  /\ wire' = <<a, b, c, c, c>> /\ Arrives(<<a, b, c, c, c>>) /\ net' \in Seq(Packets)
  /\ budget' \in BudgetType /\ budget'.idle = budget.idle
  /\ quiet' = 0 /\ pressed' = pressed + 1
  /\ UNCHANGED <<scene, dtmf, skip, skipUntil, clock, duration, mute, rcv>>

LEMMA DirectStep ==
  ASSUME ToneTypes, SendDtmf2
  PROVE  \E a, b, c \in Packets : DirectWith(a, b, c)
<1>. DEFINE a == Tev(pressed + 1, sndSeq, time, TRUE, FALSE)
            b == Tev(pressed + 1, Seq1(sndSeq + 1), time, FALSE, FALSE)
            c == Tev(pressed + 1, Seq1(sndSeq + 2), time, FALSE, TRUE)
            ps == <<a, b>> \o Thrice(c)
<1>1. a \in Packets /\ b \in Packets /\ c \in Packets
  <2>1. sndSeq + 1 \in Int /\ sndSeq + 2 \in Int /\ pressed + 1 \in Nat
    BY IntTypes DEF ToneTypes
  <2>2. sndSeq \in Numbers /\ Seq1(sndSeq + 1) \in Numbers /\ Seq1(sndSeq + 2) \in Numbers
    BY <2>1, SeqType DEF ToneTypes
  <2>. QED  BY <2>1, <2>2 DEF Tev, Packets, ToneTypes
<1>2. /\ a.id = pressed + 1 /\ b.id = pressed + 1 /\ c.id = pressed + 1
      /\ ~a.end /\ ~b.end /\ c.end /\ ~c.mark
      /\ a.seq = sndSeq /\ b.seq = Seq1(sndSeq + 1) /\ c.seq = Seq1(sndSeq + 2)
  BY DEF Tev
<1>3. /\ scene.direct /\ pressed < MaxPress /\ wire # <<>> /\ pressed' = pressed + 1
      /\ sndSeq' = SeqAfter(ps) /\ wire' = ps /\ Transmit(ps, budget) /\ quiet' = 0
      /\ UNCHANGED <<scene, dtmf, skip, skipUntil, clock, duration, mute, rcv>>
  BY DEF SendDtmf2
<1>. HIDE DEF a, b, c
<1>4. ps = <<a, b, c, c, c>> /\ ps \in Seq(Packets)
  <2>1. <<a, b>> \o <<c, c, c>> = <<a, b, c, c, c>>
    <3>. DEFINE u == <<a, b>>
                v == <<c, c, c>>
                w == <<a, b, c, c, c>>
    <3>1. u \in Seq(Packets) /\ v \in Seq(Packets) /\ w \in Seq(Packets)
          /\ Len(u) = 2 /\ Len(v) = 3 /\ Len(w) = 5
      BY <1>1
    <3>2. /\ u[1] = a /\ u[2] = b /\ v[1] = c /\ v[2] = c /\ v[3] = c
          /\ w[1] = a /\ w[2] = b /\ w[3] = c /\ w[4] = c /\ w[5] = c
      OBVIOUS
    <3>. HIDE DEF u, v, w
    <3>3. u \o v \in Seq(Packets) /\ Len(u \o v) = 5
          /\ \A i \in 1..5 : (u \o v)[i] = IF i =< 2 THEN u[i] ELSE v[i - 2]
      <4>1. /\ u \o v \in Seq(Packets) /\ Len(u \o v) = Len(u) + Len(v)
            /\ \A i \in 1..Len(u) + Len(v) :
                 (u \o v)[i] = IF i =< Len(u) THEN u[i] ELSE v[i - Len(u)]
        BY <3>1, ConcatProperties, Zenon
      <4>2. Len(u) + Len(v) = 5
        BY <3>1
      <4>. QED  BY <3>1, <4>1, <4>2, Zenon
    <3>4. \A i \in 1..5 : i = 1 \/ i = 2 \/ i = 3 \/ i = 4 \/ i = 5
      OBVIOUS
    <3>5. \A i \in 1..5 : (u \o v)[i] = w[i]
      <4>1. (u \o v)[1] = u[1] /\ (u \o v)[2] = u[2]
        BY <3>3
      <4>2. (u \o v)[3] = v[1] /\ (u \o v)[4] = v[2] /\ (u \o v)[5] = v[3]
        <5>1. 3 - 2 = 1 /\ 4 - 2 = 2 /\ 5 - 2 = 3
          OBVIOUS
        <5>2. ~(3 =< 2) /\ ~(4 =< 2) /\ ~(5 =< 2) /\ {3, 4, 5} \subseteq 1..5
          OBVIOUS
        <5>. QED  BY <3>3, <5>1, <5>2, Zenon
      <4>3. /\ (u \o v)[1] = w[1] /\ (u \o v)[2] = w[2] /\ (u \o v)[3] = w[3]
            /\ (u \o v)[4] = w[4] /\ (u \o v)[5] = w[5]
        BY <3>2, <4>1, <4>2, Zenon
      <4>. QED  BY <3>4, <4>3, Zenon
    <3>6. u \o v = w
      BY <3>1, <3>3, <3>5, SeqEqual
    <3>. QED  BY <3>6 DEF u, v, w
  <2>2. <<a, b, c, c, c>> \in Seq(Packets)
    BY <1>1
  <2>. QED  BY <2>1, <2>2 DEF Thrice
<1>. HIDE DEF ps
<1>5. SeqAfter(ps) = Seq1(c.seq + 1)
  BY <1>4 DEF SeqAfter, Last
<1>6. /\ budget' \in BudgetType /\ budget'.idle = budget.idle
      /\ net' \in Seq(Packets) /\ Arrives(ps)
  <2>1. budget \in BudgetType /\ net \in Seq(Packets)
    BY DEF ToneTypes, BudgetType
  <2>. QED  BY <1>3, <1>4, <2>1, TransmitStep
<1>. QED  BY <1>1, <1>2, <1>3, <1>4, <1>5, <1>6 DEF DirectWith

LEMMA TypesStart == Init => ToneTypes /\ SenderInv /\ WireInv
<1>. SUFFICES ASSUME Init PROVE ToneTypes /\ SenderInv /\ WireInv
  OBVIOUS
<1>2. TsSpace - 2 \in Times /\ SeqSpace - 2 \in Numbers /\ 0 \in Times
  BY ToneConstants DEF Times, Numbers
<1>3. budget \in BudgetType
  BY ToneConstants DEF Init
<1>4. /\ quiet = 0 /\ time = TsSpace - 2 /\ lastSent = <<>> /\ lastNet = 0
      /\ dtmf = <<>> /\ skip = FALSE /\ skipUntil = 0 /\ duration = Duration0 /\ mute = FALSE
      /\ sndSeq = SeqSpace - 2 /\ wire = <<>> /\ pressed = 0
      /\ net = <<>> /\ tevQ = <<>> /\ curTev = <<>> /\ reported = <<>>
      /\ scene \in [supported : BOOLEAN, direct : BOOLEAN, ordered : BOOLEAN]
  BY DEF Init
<1>5. pressed \in 0..MaxPress /\ quiet \in 0..MaxQuiet /\ duration \in Durations
  BY <1>4, ToneConstants
<1>6. wire \in Seq(Packets) /\ net \in Seq(Packets) /\ tevQ \in Seq(Packets)
      /\ reported \in Seq(Nat)
  BY <1>4
<1>7. ToneTypes
  BY <1>2, <1>3, <1>4, <1>5, <1>6 DEF ToneTypes, BudgetType
<1>. QED  BY <1>4, <1>7 DEF SenderInv, WireInv

LEMMA PressTypes ==
  ASSUME ToneTypes, SenderInv, NEW k \in GoodKeys \cup BadKeys, Press(k)
  PROVE  ToneTypes' /\ SenderInv'
<1>1. pressed' = pressed + 1 /\ dtmf' = <<k, pressed'>> /\ k \in Keys
      /\ pressed' \in 0..MaxPress /\ pressed' > 0
  BY ToneConstants DEF Press, ToneTypes, Keys
<1>2. UNCHANGED <<scene, clock, skip, skipUntil, quiet, duration, mute, sndSeq, wire, rcv,
                  net, budget>> /\ ~skip /\ ~scene.direct
  BY DEF Press
<1>3. ToneTypes'
  BY <1>1, <1>2 DEF ToneTypes, clock, rcv
<1>. QED  BY <1>1, <1>2, <1>3 DEF SenderInv, clock

LEMMA FrameTypes ==
  ASSUME ToneTypes, SenderInv, Frame
  PROVE  ToneTypes' /\ SenderInv'
<1>1. PICK d \in Durations, tevs \in Seq(Packets), talk \in BOOLEAN : FrameWith(d, tevs, talk)
  BY FrameStep
<1>2. /\ time' = Tick /\ lastSent' = <<Tick>> /\ lastNet' = Now /\ duration' = d
      /\ skip' = (IsOn /\ ~IsOver) /\ dtmf' = (IF IsOver THEN <<>> ELSE dtmf)
      /\ IsOn \/ quiet < MaxQuiet
      /\ quiet' = (IF IsOn THEN 0 ELSE quiet + 1)
      /\ skipUntil' = Until
      /\ budget' \in BudgetType /\ net' \in Seq(Packets)
      /\ UNCHANGED <<scene, mute, pressed, rcv>>
  BY <1>1 DEF FrameWith
<1>3. After(tevs) \in Numbers /\ sndSeq' \in Numbers
  <2>2. After(tevs) \in Numbers
    BY NextNumbers DEF After, ToneTypes
  <2>3. Seq1(After(tevs) + 1) \in Numbers
    BY <2>2, NextNumbers
  <2>. QED  BY <1>1, <2>2, <2>3 DEF FrameWith
<1>4. wire' \in Seq(Packets)
  <2>. DEFINE sounds == IF talk THEN <<Sound(After(tevs))>> ELSE <<>>
  <2>1. Sound(After(tevs)) \in Packets
    BY <1>3, ToneConstants DEF Sound, Packets, Times
  <2>2. sounds \in Seq(Packets)
    BY <2>1
  <2>3. wire' = IF tevs \o sounds = <<>> THEN wire ELSE tevs \o sounds
    BY <1>1 DEF FrameWith
  <2>. HIDE DEF sounds
  <2>. QED  BY <2>2, <2>3 DEF ToneTypes
<1>5. quiet' \in 0..MaxQuiet
  BY <1>2, ToneConstants DEF ToneTypes
<1>6. ToneTypes'
  BY <1>2, <1>3, <1>4, <1>5, NowType, UntilType DEF ToneTypes, BudgetType, rcv, IsOn, Begins
<1>7. SenderInv'
  <2>1. IsOn => dtmf # <<>>
    BY DEF IsOn, Begins, SenderInv
  <2>. QED  BY <1>2, <2>1 DEF SenderInv
<1>. QED  BY <1>6, <1>7

LEMMA ReadTypes ==
  ASSUME ToneTypes, SenderInv, Recv \/ RecvAgain
  PROVE  ToneTypes' /\ SenderInv'
<1>1. TakenTypes
  BY DEF ToneTypes, TakenTypes
<1>2. SUFFICES TakenTypes' /\ net' \in Seq(Packets) /\ budget' \in BudgetType
               /\ UNCHANGED <<scene, snd>>
  BY DEF ToneTypes, SenderInv, TakenTypes, BudgetType, snd, tone, clock
<1>3. CASE RecvAgain
  <2>1. TakeOut(tevQ) /\ UNCHANGED <<scene, snd, net, budget>>
    BY <1>3 DEF RecvAgain
  <2>2. tevQ \in Seq(Packets) /\ net \in Seq(Packets) /\ budget \in BudgetType
    BY DEF ToneTypes, BudgetType
  <2>. QED  BY <1>1, <2>1, <2>2, TakeTypes
<1>4. CASE Recv
  <2>1. PICK n \in 1..Len(net), again \in {0, 1} : \E order \in Seq(Range(SubSeq(net, 1, n))) :
               RecvWith(n, again, order)
    BY <1>4, RecvStep
  <2>2. PICK order \in Seq(Range(SubSeq(net, 1, n))) : RecvWith(n, again, order)
    BY <2>1
  <2>3. net \in Seq(Packets) /\ tevQ \in Seq(Packets)
    BY DEF ToneTypes
  <2>4. SubSeq(net, 1, n) \in Seq(Packets) /\ SubSeq(net, n + 1 - again, Len(net)) \in Seq(Packets)
    BY <2>3
  <2>5. order \in Seq(Packets)
    <3>1. Range(SubSeq(net, 1, n)) \subseteq Packets
      BY <2>4 DEF Range
    <3>. QED  BY <3>1
  <2>6. Queued(tevQ, order) \in Seq(Packets)
    BY <2>3, <2>5, QueuedPackets
  <2>. QED  BY <1>1, <2>2, <2>4, <2>6, TakeTypes DEF RecvWith
<1>. QED  BY <1>3, <1>4

LEMMA TypesStep == ToneTypes /\ SenderInv /\ [Next]_vars => ToneTypes' /\ SenderInv'
<1>. SUFFICES ASSUME ToneTypes, SenderInv, [Next]_vars PROVE ToneTypes' /\ SenderInv'
  OBVIOUS
<1>2. ASSUME NEW b \in BOOLEAN, Mute(b)  PROVE ToneTypes' /\ SenderInv'
  <2>1. budget' \in BudgetType /\ mute' \in BOOLEAN
    <3>1. budget \in BudgetType
      BY DEF ToneTypes, BudgetType
    <3>. QED  BY <1>2, <3>1, BudgetSpent DEF Mute
  <2>2. UNCHANGED <<scene, tone, clock, duration, sndSeq, wire, pressed, rcv, net>>
    BY <1>2 DEF Mute
  <2>. QED  BY <2>1, <2>2 DEF ToneTypes, SenderInv, BudgetType, tone, clock, rcv
<1>3. ASSUME NEW n \in Durations, SetDuration(n)  PROVE ToneTypes' /\ SenderInv'
  <2>1. budget' \in BudgetType /\ duration' \in Durations
    <3>1. budget \in BudgetType
      BY DEF ToneTypes, BudgetType
    <3>. QED  BY <1>3, <3>1, BudgetSpent DEF SetDuration
  <2>2. UNCHANGED <<scene, tone, clock, mute, sndSeq, wire, pressed, rcv, net>>
    BY <1>3 DEF SetDuration
  <2>. QED  BY <2>1, <2>2 DEF ToneTypes, SenderInv, BudgetType, tone, clock, rcv
<1>4. CASE SendDtmf2
  <2>1. PICK a, b, c \in Packets : DirectWith(a, b, c)
    BY <1>4, DirectStep
  <2>2. wire' \in Seq(Packets)
    BY <2>1 DEF DirectWith
  <2>3. sndSeq' \in Numbers /\ pressed' \in 0..MaxPress /\ quiet' \in 0..MaxQuiet
    <3>1. Seq1(sndSeq + 2) \in Numbers
      BY NextNumbers DEF ToneTypes
    <3>2. Seq1(Seq1(sndSeq + 2) + 1) \in Numbers
      BY <3>1, NextNumbers
    <3>. QED  BY <2>1, <3>2, ToneConstants DEF DirectWith, ToneTypes
  <2>4. dtmf = <<>>
    BY <2>1 DEF DirectWith, SenderInv
  <2>. QED  BY <2>1, <2>2, <2>3, <2>4 DEF DirectWith, ToneTypes, SenderInv, BudgetType, clock, rcv
<1>5. CASE TickWithoutFrame
  <2>1. budget' \in BudgetType /\ time' \in Times
    <3>1. Ts(time + 1) \in Times
      BY NowType DEF Tick
    <3>2. budget \in BudgetType
      BY DEF ToneTypes, BudgetType
    <3>. QED  BY <1>5, <3>1, <3>2, BudgetSpent DEF TickWithoutFrame
  <2>2. UNCHANGED <<scene, tone, lastSent, lastNet, duration, mute, sndSeq, wire,
                    pressed, rcv, net>>
    BY <1>5 DEF TickWithoutFrame
  <2>. QED  BY <2>1, <2>2 DEF ToneTypes, SenderInv, BudgetType, tone, rcv
<1>6. CASE Overtaken
  <2>1. budget' \in BudgetType
    <3>1. budget \in BudgetType
      BY DEF ToneTypes, BudgetType
    <3>. QED  BY <1>6, <3>1, BudgetSpent DEF Overtaken
  <2>2. net' \in Seq(Packets)
    <3>1. PICK i \in DOMAIN net, j \in DOMAIN net :
            net' = SubSeq(net, 1, i - 1) \o SubSeq(net, i + 1, j) \o <<net[i]>>
                     \o SubSeq(net, j + 1, Len(net))
      BY <1>6 DEF Overtaken
    <3>2. /\ net \in Seq(Packets) /\ i \in 1..Len(net) /\ j \in 1..Len(net)
          /\ net[i] \in Packets /\ Len(net) \in Nat
      BY DEF ToneTypes
    <3>3. /\ SubSeq(net, 1, i - 1) \in Seq(Packets) /\ SubSeq(net, i + 1, j) \in Seq(Packets)
          /\ SubSeq(net, j + 1, Len(net)) \in Seq(Packets)
      BY <3>2
    <3>4. <<net[i]>> \in Seq(Packets)
      BY <3>2
    <3>5. \A r, u, v, w \in Seq(Packets) : r \o u \o v \o w \in Seq(Packets)
      OBVIOUS
    <3>. QED  BY <3>1, <3>3, <3>4, <3>5, Zenon
  <2>3. UNCHANGED <<scene, snd, rcv>>
    BY <1>6 DEF Overtaken
  <2>. QED  BY <2>1, <2>2, <2>3 DEF ToneTypes, SenderInv, BudgetType, snd, tone, clock, rcv
<1>7. CASE UNCHANGED vars
  BY <1>7 DEF vars, snd, tone, clock, rcv, ToneTypes, SenderInv
<1>. QED  BY <1>2, <1>3, <1>4, <1>5, <1>6, <1>7, PressTypes, FrameTypes, ReadTypes DEF Next
-----------------------------------------------------------------------------
(***************************************************************************)
(* The numbers on the wire.                                                *)
(***************************************************************************)
Follows(p, q) == q.seq = Seq1(p.seq + 1) \/ (q = p /\ p.end)
AllFollow(w) == \A i \in 1..Len(w) - 1 : Follows(w[i], w[i + 1])

LEMMA Behind ==
  ASSUME NEW l \in Packets, NEW w \in Seq(Packets), w # <<>>, AllFollow(w),
         w[1].seq = Seq1(l.seq + 1)
  PROVE  AllFollow(<<l>> \o w)
<1>. DEFINE r == <<l>> \o w
<1>1. r \in Seq(Packets) /\ Len(r) = Len(w) + 1 /\ r[1] = l
      /\ \A i \in 1..Len(w) : r[i + 1] = w[i]
  <2>1. <<l>> \in Seq(Packets) /\ Len(<<l>>) = 1 /\ <<l>>[1] = l
    OBVIOUS
  <2>. DEFINE u == <<l>>
  <2>. HIDE DEF u
  <2>2. /\ u \o w \in Seq(Packets) /\ Len(u \o w) = Len(w) + 1 /\ (u \o w)[1] = u[1]
        /\ \A i \in 1..Len(w) : (u \o w)[i + 1] = w[i]
    BY <2>1 DEF u
  <2>. QED  BY <2>1, <2>2 DEF u
<1>. HIDE DEF r
<1>2. ASSUME NEW i \in 1..Len(r) - 1  PROVE Follows(r[i], r[i + 1])
  <2>1. CASE i = 1
    <3>1. r[i] = l /\ r[i + 1] = w[1] /\ 1 \in 1..Len(w)
      BY <1>1, <2>1
    <3>. QED  BY <3>1 DEF Follows
  <2>2. CASE i > 1
    <3>1. i - 1 \in 1..Len(w) - 1 /\ (i - 1) + 1 = i /\ i \in 1..Len(w)
      BY <1>1, <2>2
    <3>2. r[i] = w[i - 1] /\ r[i + 1] = w[i]
      BY <1>1, <3>1
    <3>3. Follows(w[i - 1], w[i])
      BY <3>1 DEF AllFollow
    <3>. QED  BY <3>2, <3>3
  <2>. QED  BY <1>1, <2>1, <2>2
<1>. QED  BY <1>2 DEF AllFollow, r

\* Each step that sends begins with the next number and goes on from there.
SendsInTurn ==
  \/ wire' = wire /\ sndSeq' = sndSeq
  \/ /\ wire' \in Seq(Packets) /\ wire' # <<>> /\ AllFollow(wire')
     /\ wire'[1].seq = sndSeq /\ sndSeq' = Seq1(Last(wire').seq + 1)

LEMMA DirectInTurn == ASSUME ToneTypes, SendDtmf2 PROVE SendsInTurn
<1>1. PICK a \in Packets, b \in Packets, c \in Packets : DirectWith(a, b, c)
  BY DirectStep
<1>2. wire' = <<a, b, c, c, c>> /\ sndSeq' = Seq1(c.seq + 1) /\ c.end /\ a.seq = sndSeq
      /\ b.seq = Seq1(sndSeq + 1) /\ c.seq = Seq1(sndSeq + 2)
  BY <1>1 DEF DirectWith
<1>3. Seq1(Seq1(sndSeq + 1) + 1) = Seq1(sndSeq + 2)
  <2>. DEFINE S == SeqSpace
              k == (sndSeq + 1) \div S
              m == (sndSeq + 1) % S
  <2>1. sndSeq + 1 = S * k + m /\ k \in Int /\ m \in Int
    BY ToneConstants, ModRange DEF ToneTypes, Numbers
  <2>. HIDE DEF k, m
  <2>2. sndSeq + 2 = (m + 1) + S * k
    BY <2>1, ToneConstants DEF ToneTypes, Numbers
  <2>3. ((m + 1) + S * k) % S = (m + 1) % S
    <3>1. m + 1 \in Int /\ k \in Int /\ S \in Nat \ {0}
      BY <2>1, ToneConstants
    <3>. HIDE DEF S
    <3>. QED  BY <3>1, ModAdd
  <2>. QED  BY <2>2, <2>3 DEF Seq1, m
<1>4. Follows(a, b) /\ Follows(b, c) /\ Follows(c, c)
  BY <1>2, <1>3 DEF Follows
<1>. DEFINE w == <<a, b, c, c, c>>
<1>5. w \in Seq(Packets) /\ w # <<>> /\ Last(w) = c /\ w[1] = a
  BY DEF Last
<1>6. AllFollow(w)
  <2>1. /\ Len(w) = 5 /\ w[1] = a /\ w[2] = b /\ w[3] = c /\ w[4] = c /\ w[5] = c
    OBVIOUS
  <2>. HIDE DEF w
  <2>2. ASSUME NEW i \in 1..4  PROVE Follows(w[i], w[i + 1])
    <3>1. i = 1 \/ i = 2 \/ i = 3 \/ i = 4
      OBVIOUS
    <3>2. i = 1 => i + 1 = 2
      OBVIOUS
    <3>3. i = 2 => i + 1 = 3
      OBVIOUS
    <3>4. i = 3 => i + 1 = 4
      OBVIOUS
    <3>5. i = 4 => i + 1 = 5
      OBVIOUS
    <3>. QED  BY <1>4, <2>1, <3>1, <3>2, <3>3, <3>4, <3>5
  <2>3. Len(w) - 1 = 4
    BY <2>1
  <2>. QED  BY <2>2, <2>3 DEF AllFollow
<1>. HIDE DEF w
<1>. QED  BY <1>2, <1>5, <1>6 DEF SendsInTurn, w

\* The packets of a tone, followed by the sound s or not.
TevsWith(p, s, over, talk) ==
  (IF over THEN Thrice(p) ELSE <<p>>) \o (IF talk THEN <<s>> ELSE <<>>)

LEMMA TevsInTurn ==
  ASSUME NEW p \in Packets, NEW s \in Packets, s.seq = Seq1(p.seq + 1), NEW over \in BOOLEAN,
         over = p.end, NEW talk \in BOOLEAN
  PROVE  LET w == TevsWith(p, s, over, talk)
         IN  /\ w \in Seq(Packets) /\ w # <<>> /\ AllFollow(w) /\ w[1] = p
             /\ Last(w) = IF talk THEN s ELSE p
<1>. DEFINE u == IF over THEN Thrice(p) ELSE <<p>>
            v == IF talk THEN <<s>> ELSE <<>>
            w == u \o v
            n == IF over THEN 3 ELSE 1
            m == IF talk THEN 1 ELSE 0
<1>1. u \in Seq(Packets) /\ Len(u) = n /\ \A i \in 1..n : u[i] = p
  BY DEF Thrice
<1>2. v \in Seq(Packets) /\ Len(v) = m /\ \A i \in 1..m : v[i] = s
  OBVIOUS
<1>3. n \in Nat /\ m \in Nat /\ n >= 1 /\ m =< 1 /\ (n > 1 => p.end) /\ (m = 1 <=> talk)
  OBVIOUS
<1>. HIDE DEF u, v, n, m
<1>4. /\ w \in Seq(Packets) /\ Len(w) = n + m
      /\ \A i \in 1..n + m : w[i] = IF i =< n THEN u[i] ELSE v[i - n]
  <2>1. /\ w \in Seq(Packets) /\ Len(w) = Len(u) + Len(v)
        /\ \A i \in 1..Len(u) + Len(v) : w[i] = IF i =< Len(u) THEN u[i] ELSE v[i - Len(u)]
    BY <1>1, <1>2, ConcatProperties, Zenon
  <2>. QED  BY <1>1, <1>2, <2>1, Zenon
<1>. HIDE DEF w
<1>5. \A i \in 1..n + m : w[i] = IF i =< n THEN p ELSE s
  <2>1. ASSUME NEW i \in 1..n + m  PROVE w[i] = IF i =< n THEN p ELSE s
    <3>1. i > n => i - n \in 1..m
      BY <1>3
    <3>2. i =< n => i \in 1..n
      BY <1>3
    <3>. QED  BY <1>1, <1>2, <1>4, <3>1, <3>2
  <2>. QED  BY <2>1
<1>6. ASSUME NEW i \in 1..Len(w) - 1  PROVE Follows(w[i], w[i + 1])
  <2>1. i \in 1..n + m /\ i + 1 \in 1..n + m
    BY <1>3, <1>4
  <2>2. i =< n
    BY <1>3, <1>4
  <2>3. CASE i + 1 =< n
    <3>1. w[i] = p /\ w[i + 1] = p /\ p.end
      BY <1>3, <1>5, <2>1, <2>2, <2>3
    <3>. QED  BY <3>1 DEF Follows
  <2>4. CASE ~(i + 1 =< n)
    <3>1. w[i] = p /\ w[i + 1] = s
      BY <1>5, <2>1, <2>2, <2>4
    <3>. QED  BY <3>1 DEF Follows
  <2>. QED  BY <2>3, <2>4
<1>7. w # <<>> /\ w[1] = p /\ Last(w) = IF talk THEN s ELSE p
  <2>1. 1 \in 1..n + m /\ n + m \in 1..n + m
    BY <1>3
  <2>2. n + m > n <=> talk
    BY <1>3
  <2>. QED  BY <1>3, <1>4, <1>5, <2>1, <2>2 DEF Last
<1>. QED  BY <1>4, <1>6, <1>7 DEF AllFollow, TevsWith, w, u, v

LEMMA FrameInTurn == ASSUME ToneTypes, SenderInv, Frame PROVE SendsInTurn
<1>1. PICK d \in Durations, tevs \in Seq(Packets), talk \in BOOLEAN : FrameWith(d, tevs, talk)
  BY FrameStep
<1>. DEFINE s == Sound(After(tevs))
            sounds == IF talk THEN <<s>> ELSE <<>>
<1>2. /\ wire' = (IF tevs \o sounds = <<>> THEN wire ELSE tevs \o sounds)
      /\ sndSeq' = (IF talk THEN Seq1(After(tevs) + 1) ELSE After(tevs))
      /\ FrameSends(tevs)
  BY <1>1 DEF FrameWith
<1>3. s \in Packets /\ s.seq = After(tevs)
  <2>1. After(tevs) \in Numbers
    BY NextNumbers DEF After, ToneTypes
  <2>. QED  BY <2>1, ToneConstants DEF Sound, Packets, Times
<1>. HIDE DEF s
<1>4. CASE tevs = <<>>
  <2>1. After(tevs) = sndSeq
    BY <1>4 DEF After
  <2>2. CASE talk
    <3>1. tevs \o sounds = <<s>> /\ <<s>> # <<>>
      BY <1>3, <1>4, <2>2
    <3>2. wire' = <<s>> /\ sndSeq' = Seq1(s.seq + 1)
      BY <1>2, <1>3, <2>2, <3>1
    <3>3. AllFollow(<<s>>) /\ Last(<<s>>) = s /\ <<s>>[1] = s /\ <<s>> \in Seq(Packets)
      BY <1>3 DEF AllFollow, Last
    <3>. QED  BY <1>3, <2>1, <3>1, <3>2, <3>3 DEF SendsInTurn
  <2>3. CASE ~talk
    <3>1. tevs \o sounds = <<>>
      BY <1>4, <2>3
    <3>. QED  BY <1>2, <2>1, <2>3, <3>1 DEF SendsInTurn
  <2>. QED  BY <2>2, <2>3
<1>5. CASE tevs # <<>>
  <2>1. PICK p \in Packets : TonePacket(p) /\ tevs = IF IsOver THEN Thrice(p) ELSE <<p>>
    BY <1>2, <1>5 DEF FrameSends
  <2>2. After(tevs) = Seq1(p.seq + 1) /\ p.seq = sndSeq /\ p.end = IsOver
    BY <1>5, <2>1 DEF After, TonePacket
  <2>. DEFINE over == IsOver
              w == TevsWith(p, s, over, talk)
  <2>3. /\ w \in Seq(Packets) /\ w # <<>> /\ AllFollow(w) /\ w[1] = p
        /\ Last(w) = IF talk THEN s ELSE p
    <3>1. over \in BOOLEAN
      BY DEF IsOver
    <3>2. s.seq = Seq1(p.seq + 1) /\ over = p.end /\ s \in Packets
      BY <1>3, <2>2
    <3>. HIDE DEF over
    <3>. QED  BY <3>1, <3>2, TevsInTurn
  <2>4. w = tevs \o sounds
    BY <2>1 DEF TevsWith
  <2>. HIDE DEF w, sounds
  <2>5. wire' = w /\ sndSeq' = Seq1(Last(w).seq + 1)
    BY <1>2, <1>3, <2>2, <2>3, <2>4
  <2>. QED  BY <2>2, <2>3, <2>5 DEF SendsInTurn
<1>. QED  BY <1>4, <1>5

LEMMA InTurn == ASSUME ToneTypes, SenderInv, [Next]_vars PROVE SendsInTurn
<1>1. CASE UNCHANGED <<wire, sndSeq>>
  BY <1>1 DEF SendsInTurn
<1>2. \A k \in GoodKeys \cup BadKeys : Press(k) => UNCHANGED <<wire, sndSeq>>
  BY DEF Press
<1>3. \A b \in BOOLEAN : Mute(b) => UNCHANGED <<wire, sndSeq>>
  BY DEF Mute
<1>4. \A n \in Durations : SetDuration(n) => UNCHANGED <<wire, sndSeq>>
  BY DEF SetDuration
<1>5. TickWithoutFrame \/ Overtaken \/ Recv \/ RecvAgain \/ UNCHANGED vars
        => UNCHANGED <<wire, sndSeq>>
  BY DEF TickWithoutFrame, Overtaken, Recv, RecvAgain, vars, snd
<1>. QED  BY <1>1, <1>2, <1>3, <1>4, <1>5, DirectInTurn, FrameInTurn DEF Next

LEMMA WireStep ==
  ASSUME ToneTypes, SenderInv, WireInv, [Next]_vars
  PROVE  /\ WireInv'
         /\ LET w == <<Last(wire)>> \o wire' IN
            wire # <<>> /\ wire' # wire =>
              \A i \in 1..Len(w) - 1 :
                \/ w[i + 1].seq = Seq1(w[i].seq + 1)
                \/ w[i + 1] = w[i] /\ w[i].end
<1>1. SendsInTurn
  BY InTurn
<1>2. WireInv'
  BY <1>1 DEF WireInv, SendsInTurn
<1>3. ASSUME wire # <<>>, wire' # wire  PROVE AllFollow(<<Last(wire)>> \o wire')
  <2>1. Last(wire) \in Packets
    BY <1>3 DEF ToneTypes, Last
  <2>2. sndSeq = Seq1(Last(wire).seq + 1)
    BY <1>3 DEF WireInv
  <2>. QED  BY <1>1, <1>3, <2>1, <2>2, Behind DEF SendsInTurn
<1>. QED  BY <1>2, <1>3 DEF AllFollow, Follows

\* For any widths, keys and durations: the numbers on the wire follow each
\* other through sound and tones (NumbersFollow); only the copies of the end of
\* a tone share one.
THEOREM NoNumberIsLeftOut == Spec => NumbersFollow
<1>. DEFINE I == ToneTypes /\ SenderInv /\ WireInv
<1>1. Init => I
  BY TypesStart
<1>2. I /\ [Next]_vars => I'
  BY TypesStep, WireStep
<1>3. I /\ [Next]_vars =>
        [LET w == <<Last(wire)>> \o wire' IN
         wire # <<>> /\ wire' # wire =>
           \A i \in 1..Len(w) - 1 :
             \/ w[i + 1].seq = Seq1(w[i].seq + 1)
             \/ w[i + 1] = w[i] /\ w[i].end]_vars
  BY WireStep
<1>. QED  BY <1>1, <1>2, <1>3, PTL DEF Spec, NumbersFollow
-----------------------------------------------------------------------------
(***************************************************************************)
(* Numbers and frames: how many numbers were used, and how many frames a   *)
(* tone has left.                                                          *)
(***************************************************************************)
\* The place of a later number.
LEMMA PlaceOfNext ==
  ASSUME NEW s \in Numbers, NEW k \in Nat, Place(s) + k < SeqSpace
  PROVE  Place(s) \in Nat /\ Place(Seq1(s + k)) = Place(s) + k
<1>. DEFINE S == SeqSpace
            a == (s + k) \div S
            b == (s + 2) \div S
<1>1. S \in Nat \ {0} /\ s \in Int
  BY ToneConstants, IntTypes
<1>. HIDE DEF S
<1>2. s + k \in Int /\ s + 2 \in Int
  BY <1>1
<1>3. s + k = S * a + ((s + k) % S) /\ a \in Int /\ (s + k) % S \in Int
  BY <1>1, <1>2, ModRange
<1>4. s + 2 = S * b + ((s + 2) % S) /\ b \in Int /\ (s + 2) % S \in 0..S - 1
  BY <1>1, <1>2, ModRange
<1>. HIDE DEF a, b
<1>5. ((s + 2) % S) + k \in 0..S - 1
  BY <1>1, <1>4 DEF Place, S
<1>6. ((s + k) % S) + 2 = (((s + 2) % S) + k) + S * (b - a) /\ b - a \in Int
  <2>1. S * (b - a) = S * b - S * a
    BY <1>1, <1>3, <1>4
  <2>. QED  BY <1>1, <1>3, <1>4, <2>1
<1>7. ((((s + 2) % S) + k) + S * (b - a)) % S = (((s + 2) % S) + k) % S
  <2>1. ((s + 2) % S) + k \in Int
    BY <1>5
  <2>. QED  BY <1>1, <1>6, <2>1, ModAdd
<1>8. (((s + 2) % S) + k) % S = ((s + 2) % S) + k
  BY <1>1, <1>5, ModSmall
<1>. QED  BY <1>4, <1>6, <1>7, <1>8 DEF Place, Seq1, S

\* Half of the numbers are never used up.
LEMMA SentBound ==
  ASSUME ToneTypes, CountInv
  PROVE  /\ Sent \in Nat /\ 2 * Sent =< SeqSpace
         /\ NumbersOfPress * pressed =< NumbersOfPress * MaxPress
         /\ 2 * (MaxQuiet + NumbersOfPress * MaxPress) =< SeqSpace
<1>. DEFINE K == NumbersOfPress
            P == MaxPress
            e == Ended
<1>1. K \in Nat /\ P \in Nat /\ pressed \in Nat /\ pressed =< P /\ MaxQuiet \in Nat
      /\ quiet \in Nat /\ quiet =< MaxQuiet
  BY ToneConstants, Longest DEF ToneTypes
<1>2. e \in Nat /\ e =< pressed
  BY <1>1 DEF ToneTypes, Ended
<1>3. 2 * (MaxQuiet + K * P) =< SeqSpace
  BY StreamAssumption DEF StreamAssumption
<1>4. Sent \in Nat
  <2>1. sndSeq + 2 \in Int
    BY IntTypes DEF ToneTypes
  <2>2. (sndSeq + 2) % SeqSpace \in 0..SeqSpace - 1
    BY <2>1, ToneConstants, ModRange
  <2>. QED  BY <2>2, ToneConstants DEF Sent, Place
<1>5. Left \in Nat
  <2>1. skipUntil - lastNet \in Int
    BY IntTypes DEF ToneTypes
  <2>. QED  BY <2>1, TsType DEF Left, Times
<1>6. skip => Sent + Left + 1 =< K * pressed
  BY DEF CountInv
<1>7. ~skip => Sent =< quiet + K * e
  BY DEF CountInv
<1>. HIDE DEF K, P, e
<1>8. K * pressed =< K * P /\ K * e =< K * pressed /\ K * pressed \in Nat /\ K * P \in Nat
      /\ K * e \in Nat
  <2>1. P = pressed + (P - pressed) /\ P - pressed \in Nat
    BY <1>1
  <2>2. pressed = e + (pressed - e) /\ pressed - e \in Nat
    BY <1>1, <1>2
  <2>3. K * (P - pressed) \in Nat /\ K * (pressed - e) \in Nat
    BY <1>1, <2>1, <2>2
  <2>4. K * P = K * pressed + K * (P - pressed)
    BY <1>1, <2>1
  <2>5. K * pressed = K * e + K * (pressed - e)
    BY <1>1, <1>2, <2>2
  <2>6. K * pressed \in Nat /\ K * P \in Nat /\ K * e \in Nat
    BY <1>1, <1>2
  <2>. QED  BY <2>3, <2>4, <2>5, <2>6
<1>9. Sent =< MaxQuiet + K * P
  <2>1. CASE skip
    BY <1>1, <1>4, <1>5, <1>6, <1>8, <2>1
  <2>2. CASE ~skip
    BY <1>1, <1>4, <1>7, <1>8, <2>2
  <2>. QED  BY <2>1, <2>2
<1>10. 2 * Sent =< SeqSpace
  BY <1>1, <1>3, <1>4, <1>8, <1>9, ToneConstants
<1>. QED  BY <1>3, <1>4, <1>8, <1>10 DEF K, P

\* One more press is within the bound.
LEMMA NextPress ==
  ASSUME NEW n \in Nat
  PROVE  NumbersOfPress * (n + 1) = NumbersOfPress * n + MaxDuration + 2 + MaxQuiet
         /\ NumbersOfPress * n \in Nat
<1>. DEFINE K == NumbersOfPress
<1>1. K = MaxDuration + 2 + MaxQuiet /\ K \in Nat /\ MaxDuration \in Nat /\ MaxQuiet \in Nat
  BY Longest, ToneConstants DEF NumbersOfPress
<1>. HIDE DEF K
<1>2. K * (n + 1) = K * n + K
  BY <1>1
<1>3. K * n \in Nat
  BY <1>1
<1>. QED  BY <1>1, <1>2, <1>3 DEF K

(***************************************************************************)
(* A tone is over when as many frames have passed as it had left; a frame  *)
(* passes one, or those the clock is ahead.                                *)
(***************************************************************************)
Passed == Ts(Now - lastNet)

LEMMA FramesPass ==
  ASSUME ToneTypes, LagInv, lastSent # <<>>
  PROVE  /\ Passed \in 1..Lag + 1 /\ 2 * Lag < TsSpace
         /\ Ts(Tick - Now) =< Lag
<1>. DEFINE T == TsSpace
            b == time - lastNet
<1>1. T \in Nat \ {0} /\ time \in Int /\ lastNet \in Int /\ b \in Int
  BY ToneConstants, IntTypes DEF ToneTypes
<1>2. Lag = b % T /\ Lag \in 0..T - 1
  <2>1. Lag = Ts(b)
    BY DEF Lag
  <2>. QED  BY <1>1, <2>1, TsType DEF Ts, Times
<1>3. 2 * (Lag + 1) < T
  <2>1. budget.idle \in Nat
    BY DEF ToneTypes
  <2>. QED  BY <1>1, <1>2, <2>1, Longest DEF LagInv
<1>4. Now = Tick \/ Now = Ts(lastNet + 1)
  BY DEF Now, NetTs
<1>5. Ts(Tick - lastNet) = Lag + 1
  <2>1. Tick = (time + 1) % T
    BY DEF Tick, Ts
  <2>. HIDE DEF T, b
  <2>2. (((time + 1) % T) - lastNet) % T = (b + 1) % T
    <3>1. ((time + 1) % T) - lastNet = (b + 1) + T * (-((time + 1) \div T))
          /\ (time + 1) \div T \in Int
      <4>1. time + 1 = T * ((time + 1) \div T) + ((time + 1) % T) /\ (time + 1) % T \in Int
            /\ (time + 1) \div T \in Int
        <5>1. time + 1 \in Int
          BY <1>1
        <5>. QED  BY <1>1, <5>1, ModRange
      <4>. HIDE DEF b
      <4>2. T * (-((time + 1) \div T)) = -(T * ((time + 1) \div T))
        BY <1>1, <4>1
      <4>. QED  BY <1>1, <4>1, <4>2 DEF b
    <3>2. b + 1 \in Int /\ -((time + 1) \div T) \in Int
      BY <1>1, <3>1
    <3>. QED  BY <1>1, <3>1, <3>2, ModAdd
  <2>3. (b + 1) % T = Lag + 1
    <3>1. b = T * (b \div T) + Lag /\ b \div T \in Int
      BY <1>1, <1>2, ModRange
    <3>2. b + 1 = T * (b \div T) + (Lag + 1) /\ Lag + 1 \in 0..T - 1
      BY <1>1, <1>2, <1>3, <3>1
    <3>. HIDE DEF b
    <3>. QED  BY <1>1, <3>1, <3>2, ModUnique
  <2>. QED  BY <2>1, <2>2, <2>3 DEF Ts, T
<1>6. Ts(Ts(lastNet + 1) - lastNet) = 1
  <2>. HIDE DEF T
  <2>1. lastNet + 1 = T * ((lastNet + 1) \div T) + ((lastNet + 1) % T)
        /\ (lastNet + 1) % T \in Int /\ (lastNet + 1) \div T \in Int
    <3>1. lastNet + 1 \in Int
      BY <1>1
    <3>. QED  BY <1>1, <3>1, ModRange
  <2>. DEFINE k == -((lastNet + 1) \div T)
  <2>2. k \in Int /\ T * k = -(T * ((lastNet + 1) \div T))
    BY <1>1, <2>1
  <2>3. ((lastNet + 1) % T) - lastNet = T * k + 1
    <3>. HIDE DEF k
    <3>. QED  BY <1>1, <2>1, <2>2
  <2>4. 1 \in 0..T - 1
    BY <1>1, <1>2, <1>3
  <2>. HIDE DEF k
  <2>5. (T * k + 1) % T = 1
    BY <1>1, <2>2, <2>4, ModUnique
  <2>. QED  BY <2>3, <2>5 DEF Ts, T
<1>7. Passed \in 1..Lag + 1
  BY <1>2, <1>4, <1>5, <1>6 DEF Passed
<1>8. Ts(Tick - Now) =< Lag
  <2>1. CASE Now = Tick
    <3>0. Tick \in Int
      BY NowType, IntTypes
    <3>1. Tick - Now = 0
      BY <2>1, <3>0
    <3>2. 0 % T = 0
      BY <1>1, ModSmall
    <3>. QED  BY <1>2, <3>1, <3>2 DEF Ts
  <2>2. CASE Now = Ts(lastNet + 1)
    <3>1. Tick - Now = ((time + 1) % T) - ((lastNet + 1) % T)
      BY <2>2 DEF Tick, Ts
    <3>. HIDE DEF T
    <3>2. (((time + 1) % T) - ((lastNet + 1) % T)) % T = ((time + 1) - (lastNet + 1)) % T
      <4>1. time + 1 \in Int /\ lastNet + 1 \in Int
        BY <1>1
      <4>. QED  BY <1>1, <4>1, ModDiff
    <3>3. (time + 1) - (lastNet + 1) = b
      BY <1>1
    <3>. HIDE DEF b
    <3>4. (Tick - Now) % T = Lag
      BY <1>2, <3>1, <3>2, <3>3 DEF T
    <3>5. Ts(Tick - Now) = Lag
      BY <3>4 DEF Ts, T
    <3>6. Lag =< Lag
      BY <1>1, <1>2
    <3>. QED  BY <3>5, <3>6
  <2>. QED  BY <1>4, <2>1, <2>2
<1>. QED  BY <1>1, <1>2, <1>3, <1>7, <1>8

LEMMA OverAfter ==
  ASSUME ToneTypes, LagInv, skip, lastSent # <<>>, Left \in 1..MaxDuration
  PROVE  /\ Over(Now, skipUntil) <=> Passed >= Left
         /\ Passed < Left => Ts(skipUntil - Now) = Left - Passed
<1>. DEFINE T == TsSpace
            d == Passed - Left
<1>1. T \in Nat \ {0} /\ T % 2 = 0 /\ Now \in Int /\ lastNet \in Int /\ skipUntil \in Int
  BY ToneConstants, NowType, IntTypes DEF ToneTypes
<1>2. Passed \in Nat /\ Left \in Nat /\ d \in Int /\ Passed >= 1
  BY FramesPass
<1>3. 2 * d < T /\ 2 * (-d) =< T /\ Left < T
  <2>1. Lag \in Nat
    <3>1. time - lastNet \in Int
      BY IntTypes DEF ToneTypes
    <3>2. Ts(time - lastNet) \in Times
      BY <3>1, TsType
    <3>. QED  BY <3>2 DEF Lag, Times
  <2>2. budget.idle \in Nat /\ MaxDuration \in Nat
    BY Longest DEF ToneTypes
  <2>3. 2 * Lag < T /\ 2 * MaxDuration < T
    BY <1>1, <2>1, <2>2 DEF LagInv
  <2>4. Passed =< Lag + 1 /\ Left >= 1 /\ Left =< MaxDuration
    BY <2>1, FramesPass
  <2>. HIDE DEF T
  <2>. QED  BY <1>1, <1>2, <2>1, <2>2, <2>3, <2>4
<1>4. (Now - skipUntil) % T = d % T
  <2>. DEFINE m == Now - lastNet
              n == skipUntil - lastNet
  <2>0. m \in Int /\ n \in Int
    BY <1>1
  <2>1. ((m % T) - (n % T)) % T = (m - n) % T
    <3>. HIDE DEF T, m, n
    <3>. QED  BY <1>1, <2>0, ModDiff
  <2>2. m - n = Now - skipUntil
    BY <1>1
  <2>3. Passed = m % T /\ Left = n % T
    BY DEF Passed, Left, Ts
  <2>. HIDE DEF m, n, T
  <2>. QED  BY <2>1, <2>2, <2>3
<1>5. (skipUntil - Now) % T = (-d) % T
  <2>. DEFINE m == skipUntil - lastNet
              n == Now - lastNet
  <2>0. m \in Int /\ n \in Int
    BY <1>1
  <2>1. ((m % T) - (n % T)) % T = (m - n) % T
    <3>. HIDE DEF T, m, n
    <3>. QED  BY <1>1, <2>0, ModDiff
  <2>2. m - n = skipUntil - Now
    BY <1>1
  <2>3. Left - Passed = -d
    BY <1>2
  <2>4. Passed = n % T /\ Left = m % T
    BY DEF Passed, Left, Ts
  <2>. HIDE DEF m, n, T, d
  <2>. QED  BY <2>1, <2>2, <2>3, <2>4
<1>6. Over(Now, skipUntil) <=> d >= 0
  <2>. HIDE DEF T, d
  <2>1. d % T < T \div 2 <=> d >= 0
    BY <1>1, <1>2, <1>3, ModHalf
  <2>. QED  BY <1>4, <2>1 DEF Over, TsIsNewer, T
<1>7. ASSUME Passed < Left  PROVE Ts(skipUntil - Now) = Left - Passed
  <2>1. -d \in 0..T - 1 /\ -d = Left - Passed
    BY <1>1, <1>2, <1>3, <1>7
  <2>2. (-d) % T = -d
    <3>. HIDE DEF T, d
    <3>. QED  BY <1>1, <2>1, ModSmall
  <2>. QED  BY <1>5, <2>1, <2>2 DEF Ts
<1>. QED  BY <1>2, <1>6, <1>7

\* A tone that begins has all its frames to go.
LEMMA BeginsWith ==
  ASSUME ToneTypes, Begins
  PROVE  ~IsOver /\ Ts(Until - Now) = duration
<1>. DEFINE T == TsSpace
<1>1. T \in Nat \ {0} /\ T % 2 = 0 /\ Now \in Times /\ Now \in Int /\ duration \in 1..(T \div 2) - 1
  BY ToneConstants, NowType, IntTypes DEF ToneTypes
<1>2. Until = (Now + duration) % T
  BY DEF Until, Ts
<1>3. duration \in Int /\ duration >= 1 /\ 2 * duration < T /\ Now + duration \in Int
      /\ -duration \in Int /\ duration \in 0..T - 1
  BY <1>1
<1>. HIDE DEF T
<1>4. Now % T = Now
  <2>1. Now \in 0..T - 1
    BY <1>1 DEF Times, T
  <2>. QED  BY <1>1, <2>1, ModSmall
<1>5. (Now - Until) % T = (-duration) % T
  <2>1. ((Now % T) - ((Now + duration) % T)) % T = (Now - (Now + duration)) % T
    BY <1>1, <1>3, ModDiff
  <2>2. Now - (Now + duration) = -duration
    BY <1>1, <1>3
  <2>. QED  BY <1>2, <1>4, <2>1, <2>2
<1>6. (Until - Now) % T = duration
  <2>1. (((Now + duration) % T) - (Now % T)) % T = ((Now + duration) - Now) % T
    BY <1>1, <1>3, ModDiff
  <2>2. (Now + duration) - Now = duration
    BY <1>1, <1>3
  <2>3. duration % T = duration
    BY <1>1, <1>3, ModSmall
  <2>. QED  BY <1>2, <1>4, <2>1, <2>2, <2>3
<1>7. ~((-duration) % T < T \div 2)
  <2>. DEFINE e == -duration
  <2>1. e \in Int /\ 2 * e < T /\ 2 * (-e) =< T /\ e < 0
    BY <1>1, <1>3
  <2>. HIDE DEF e
  <2>2. e % T < T \div 2 <=> e >= 0
    BY <1>1, <2>1, ModHalf
  <2>. QED  BY <2>1, <2>2 DEF e
<1>. QED  BY <1>5, <1>6, <1>7 DEF IsOver, Over, TsIsNewer, Ts, T

\* What a frame does to the numbers and the frames: it takes one number, or
\* the two of the end of a tone and of the sound behind it.
Advances(tevs, k) ==
  /\ Sent' = Sent + k
  /\ k =< (IF IsOver THEN 2 ELSE 1)
  /\ tevs # <<>> => k >= 1

LEMMA FrameNumbers ==
  ASSUME ToneTypes, CountInv, Sent + 2 < SeqSpace,
         NEW d, NEW tevs, NEW talk \in BOOLEAN, FrameWith(d, tevs, talk)
  PROVE  \E k \in 0..2 : Advances(tevs, k)
<1>1. sndSeq' = IF talk THEN Seq1(After(tevs) + 1) ELSE After(tevs)
  BY DEF FrameWith
<1>2. After(tevs) = sndSeq \/ (After(tevs) = Seq1(sndSeq + 1) /\ IsOn)
  BY DEF FrameWith, FrameSends, After
<1>3. talk => ~IsOn \/ IsOver
  BY DEF FrameWith
<1>4. Sent \in Nat /\ Place(Seq1(sndSeq + 1)) = Sent + 1
  <2>1. sndSeq \in Numbers /\ Sent \in Nat
    BY SentBound DEF ToneTypes
  <2>2. Place(sndSeq) + 1 < SeqSpace
    BY <2>1, ToneConstants DEF Sent
  <2>. QED  BY <2>1, <2>2, PlaceOfNext DEF Sent
<1>5. Seq1(sndSeq + 1) \in Numbers
  BY NextNumbers DEF ToneTypes
<1>6. Place(Seq1(Seq1(sndSeq + 1) + 1)) = Sent + 2
  <2>. DEFINE s == Seq1(sndSeq + 1)
  <2>1. s \in Numbers /\ Place(s) = Sent + 1 /\ Place(s) + 1 < SeqSpace
    BY <1>4, <1>5, ToneConstants
  <2>. HIDE DEF s
  <2>2. Place(Seq1(s + 1)) = Place(s) + 1
    BY <2>1, PlaceOfNext
  <2>. QED  BY <1>4, <2>1, <2>2 DEF s
<1>7. IsOver => IsOn
  BY DEF IsOver
<1>8. Sent' = Place(sndSeq')
  BY DEF Sent, Place
<1>9. CASE ~talk /\ After(tevs) = sndSeq
  <2>1. Sent' = Sent + 0
    BY <1>1, <1>4, <1>8, <1>9 DEF Sent
  <2>2. tevs = <<>>
    <3>1. CASE tevs # <<>>
      <4>1. Place(After(tevs)) = Sent + 1 /\ Place(After(tevs)) = Sent
        BY <1>4, <1>9, <3>1 DEF After, Sent
      <4>. QED  BY <1>4, <4>1
    <3>. QED  BY <3>1
  <2>. QED  BY <2>1, <2>2 DEF Advances
<1>10. CASE (talk /\ After(tevs) = sndSeq) \/ (~talk /\ After(tevs) = Seq1(sndSeq + 1))
  <2>1. Sent' = Sent + 1
    BY <1>1, <1>4, <1>8, <1>10
  <2>. QED  BY <2>1 DEF Advances
<1>11. CASE talk /\ After(tevs) = Seq1(sndSeq + 1) /\ IsOn
  <2>1. Sent' = Sent + 2
    BY <1>1, <1>6, <1>8, <1>11
  <2>. QED  BY <1>3, <1>11, <2>1 DEF Advances
<1>. QED  BY <1>2, <1>9, <1>10, <1>11

LEMMA RoomForFrame ==
  ASSUME ToneTypes, CountInv
  PROVE  Sent \in Nat /\ 2 * Sent =< SeqSpace /\ Sent + 2 < SeqSpace
<1>. DEFINE K == NumbersOfPress
            P == MaxPress
<1>1. K \in Nat /\ P \in Nat \ {0} /\ K >= 3 /\ MaxQuiet \in Nat
  BY ToneConstants, Longest DEF NumbersOfPress
<1>2. 2 * (MaxQuiet + K * P) =< SeqSpace /\ Sent \in Nat /\ 2 * Sent =< SeqSpace
  BY SentBound
<1>. HIDE DEF K, P
<1>3. K * P >= 3
  <2>1. K * P = K + K * (P - 1) /\ P - 1 \in Nat
    BY <1>1
  <2>2. K * (P - 1) \in Nat
    BY <1>1, <2>1
  <2>. QED  BY <1>1, <2>1, <2>2
<1>4. K * P \in Nat
  BY <1>1
<1>. QED  BY <1>1, <1>2, <1>3, <1>4, ToneConstants

LEMMA FrameCounts ==
  ASSUME ToneTypes, SenderInv, LagInv, CountInv, NEW d \in Durations, NEW tevs,
         NEW talk \in BOOLEAN, FrameWith(d, tevs, talk)
  PROVE  /\ CountInv' /\ LagInv' /\ Sent \in Nat /\ Sent' \in Nat /\ Sent =< Sent'
         /\ tevs # <<>> => Sent < Sent'
<1>. DEFINE K == NumbersOfPress
<1>1. Sent \in Nat /\ 2 * Sent =< SeqSpace /\ Sent + 2 < SeqSpace
  BY RoomForFrame
<1>2. PICK k \in 0..2 : Advances(tevs, k)
  BY <1>1, FrameNumbers
<1>3. /\ time' = Tick /\ lastSent' = <<Tick>> /\ lastNet' = Now
      /\ skip' = (IsOn /\ ~IsOver) /\ dtmf' = (IF IsOver THEN <<>> ELSE dtmf)
      /\ IsOn \/ quiet < MaxQuiet
      /\ quiet' = (IF IsOn THEN 0 ELSE quiet + 1)
      /\ skipUntil' = Until /\ pressed' = pressed /\ budget'.idle = budget.idle
  BY DEF FrameWith
<1>4. Sent' = Sent + k /\ k =< (IF IsOver THEN 2 ELSE 1)
  BY <1>2 DEF Advances
<1>5. /\ quiet \in Nat /\ quiet =< MaxQuiet /\ MaxQuiet \in Nat /\ pressed \in Nat
      /\ K \in Nat /\ MaxDuration \in Nat \ {0} /\ duration \in Nat \ {0} /\ duration =< MaxDuration
  BY ToneConstants, Longest DEF ToneTypes
<1>6. K * pressed \in Nat /\ Ended \in Nat /\ K * Ended \in Nat
  <2>1. Ended \in Nat
    BY <1>5 DEF Ended, ToneTypes
  <2>. HIDE DEF K
  <2>. QED  BY <1>5, <2>1
<1>7. Left' = Ts(Until - Now)
  BY <1>3 DEF Left
<1>8. CountInv'
  <2>1. CASE ~IsOn
    <3>1. ~skip /\ ~skip' /\ dtmf = <<>> /\ dtmf' = <<>> /\ ~IsOver
      BY <1>3, <2>1 DEF IsOn, Begins, IsOver
    <3>2. Ended = pressed /\ Ended' = pressed
      BY <1>3, <3>1 DEF Ended
    <3>3. Sent =< quiet + K * pressed
      BY <3>1, <3>2 DEF CountInv
    <3>4. Sent' =< (quiet + 1) + K * pressed /\ quiet' = quiet + 1
      <4>. HIDE DEF K
      <4>. QED  BY <1>1, <1>3, <1>4, <1>5, <1>6, <2>1, <3>1, <3>3
    <3>. QED  BY <3>1, <3>2, <3>4 DEF CountInv
  <2>2. CASE Begins
    <3>1. ~IsOver /\ Left' = duration /\ IsOn /\ dtmf # <<>> /\ ~skip
      BY <1>7, <2>2, BeginsWith DEF IsOn, Begins
    <3>2. skip' /\ Ended = pressed - 1
      BY <1>3, <3>1 DEF Ended
    <3>3. Sent =< quiet + K * Ended
      BY <3>1 DEF CountInv
    <3>4. K * pressed = K * Ended + MaxDuration + 2 + MaxQuiet
      <4>1. pressed = Ended + 1
        BY <1>5, <3>2
      <4>. QED  BY <1>6, <4>1, NextPress
    <3>5. Sent' + Left' + 1 =< K * pressed
      <4>. HIDE DEF K
      <4>. QED  BY <1>1, <1>4, <1>5, <1>6, <3>1, <3>3, <3>4
    <3>6. Left' \in 1..MaxDuration
      BY <1>5, <3>1
    <3>. QED  BY <1>3, <3>2, <3>5, <3>6 DEF CountInv
  <2>3. CASE skip
    <3>1. IsOn /\ Until = skipUntil /\ dtmf # <<>> /\ lastSent # <<>>
      BY <2>3 DEF IsOn, Begins, Until, SenderInv
    <3>2. Left \in 1..MaxDuration /\ Sent + Left + 1 =< K * pressed
      BY <2>3 DEF CountInv
    <3>3. IsOver <=> Passed >= Left
      BY <2>3, <3>1, <3>2, OverAfter DEF IsOver
    <3>4. Passed \in Nat /\ Passed >= 1
      <4>1. Passed \in 1..Lag + 1
        BY <3>1, FramesPass
      <4>. QED  BY <4>1
    <3>5. CASE IsOver
      <4>1. ~skip' /\ dtmf' = <<>> /\ Ended' = pressed /\ quiet' = 0
        BY <1>3, <3>1, <3>5 DEF Ended
      <4>2. Sent' =< 0 + K * pressed
        <5>. HIDE DEF K
        <5>. QED  BY <1>1, <1>4, <1>5, <1>6, <3>2, <3>5
      <4>. QED  BY <4>1, <4>2 DEF CountInv
    <3>6. CASE ~IsOver
      <4>0. skip' = TRUE
        BY <1>3, <3>1, <3>6
      <4>1. Passed < Left /\ skip'
        BY <3>2, <3>3, <3>4, <3>6, <4>0
      <4>2. Left' = Left - Passed
        BY <1>7, <2>3, <3>1, <3>2, <4>1, OverAfter
      <4>3. Left' \in 1..MaxDuration
        BY <1>5, <3>2, <3>4, <4>1, <4>2
      <4>4. Sent' + Left' + 1 =< K * pressed
        <5>. HIDE DEF K
        <5>. QED  BY <1>1, <1>4, <1>5, <1>6, <3>2, <3>4, <3>6, <4>1, <4>2
      <4>. QED  BY <1>3, <4>1, <4>3, <4>4 DEF CountInv
    <3>. QED  BY <3>5, <3>6
  <2>. QED  BY <2>1, <2>2, <2>3 DEF IsOn
<1>9. LagInv'
  <2>1. Lag' = Ts(Tick - Now)
    BY <1>3 DEF Lag
  <2>2. Lag' \in Nat /\ Lag \in Nat
    <3>0. Tick \in Int /\ Now \in Int /\ time \in Int /\ lastNet \in Int
      BY NowType, IntTypes DEF ToneTypes
    <3>1. Tick - Now \in Int /\ time - lastNet \in Int
      BY <3>0
    <3>2. Ts(Tick - Now) \in Times /\ Ts(time - lastNet) \in Times
      BY <3>1, TsType
    <3>. QED  BY <2>1, <3>2 DEF Lag, Times
  <2>3. Lag' =< Lag
    <3>1. CASE lastSent # <<>>
      BY <2>1, <3>1, FramesPass
    <3>2. CASE lastSent = <<>>
      <4>1. Now = Tick /\ Tick \in Int
        BY <3>2, NowType, IntTypes DEF Now, NetTs
      <4>2. Tick - Now = 0
        BY <4>1
      <4>3. Ts(0) = 0
        BY ToneConstants, ModSmall DEF Ts
      <4>. QED  BY <2>1, <2>2, <4>2, <4>3
    <3>. QED  BY <3>1, <3>2
  <2>4. budget.idle \in Nat /\ 2 * (Lag + budget.idle + MaxDuration) < TsSpace
    BY DEF ToneTypes, LagInv
  <2>5. 2 * (Lag' + budget'.idle + MaxDuration) < TsSpace
    BY <1>3, <1>5, <2>2, <2>3, <2>4, ToneConstants
  <2>. QED  BY <2>5 DEF LagInv
<1>10. tevs # <<>> => Sent < Sent'
  BY <1>1, <1>2, <1>4 DEF Advances
<1>. QED  BY <1>1, <1>4, <1>8, <1>9, <1>10

LEMMA DirectCounts ==
  ASSUME ToneTypes, SenderInv, LagInv, CountInv, NEW a \in Packets, NEW b \in Packets,
         NEW c \in Packets, DirectWith(a, b, c)
  PROVE  /\ CountInv' /\ LagInv' /\ Sent \in Nat /\ Sent' = Sent + 3
         /\ No(a) = Sent /\ No(b) = Sent + 1 /\ No(c) = Sent + 2
         /\ Begun = pressed /\ Ended = pressed /\ Begun' = pressed' /\ Ended' = pressed'
<1>. DEFINE K == NumbersOfPress
<1>1. /\ a.seq = sndSeq /\ b.seq = Seq1(sndSeq + 1) /\ c.seq = Seq1(sndSeq + 2)
      /\ sndSeq' = Seq1(Seq1(sndSeq + 2) + 1) /\ pressed' = pressed + 1
      /\ pressed < MaxPress /\ scene.direct /\ budget'.idle = budget.idle
      /\ UNCHANGED <<dtmf, skip, skipUntil, time, lastSent, lastNet>> /\ quiet' = 0
  BY DEF DirectWith, clock
<1>2. dtmf = <<>> /\ ~skip /\ dtmf' = <<>> /\ ~skip'
  BY <1>1 DEF SenderInv
<1>3. Begun = pressed /\ Ended = pressed /\ Begun' = pressed' /\ Ended' = pressed'
  BY <1>1, <1>2 DEF Begun, Ended
<1>4. pressed \in Nat /\ quiet \in Nat /\ quiet =< MaxQuiet /\ MaxQuiet \in Nat
      /\ MaxDuration \in Nat \ {0} /\ K \in Nat /\ MaxPress \in Nat
  BY ToneConstants, Longest DEF ToneTypes
<1>5. Sent \in Nat /\ Sent =< quiet + K * pressed
  BY <1>2, <1>3, SentBound DEF CountInv
<1>6. K * (pressed + 1) = K * pressed + MaxDuration + 2 + MaxQuiet /\ K * pressed \in Nat
  BY <1>4, NextPress
<1>7. Sent + 3 =< K * (pressed + 1)
  <2>. HIDE DEF K
  <2>. QED  BY <1>4, <1>5, <1>6
<1>8. Sent + 3 < SeqSpace
  <2>1. K * MaxPress = K * (pressed + 1) + K * (MaxPress - (pressed + 1))
        /\ K * (MaxPress - (pressed + 1)) \in Nat
    <3>1. MaxPress - (pressed + 1) \in Nat
      BY <1>1, <1>4
    <3>2. MaxPress = (pressed + 1) + (MaxPress - (pressed + 1)) /\ pressed + 1 \in Nat
      BY <1>4
    <3>. HIDE DEF K
    <3>3. K * (MaxPress - (pressed + 1)) \in Nat
      BY <1>4, <3>1
    <3>. QED  BY <1>4, <3>1, <3>2, <3>3
  <2>2. 2 * (MaxQuiet + K * MaxPress) =< SeqSpace
    BY SentBound
  <2>3. K * (pressed + 1) \in Nat
    BY <1>4, <1>6
  <2>. HIDE DEF K
  <2>. QED  BY <1>4, <1>5, <1>7, <2>1, <2>2, <2>3, ToneConstants
<1>9. Place(Seq1(sndSeq + 1)) = Sent + 1 /\ Place(Seq1(sndSeq + 2)) = Sent + 2
  <2>1. sndSeq \in Numbers /\ Place(sndSeq) = Sent
    BY DEF ToneTypes, Sent
  <2>2. Place(sndSeq) + 1 < SeqSpace /\ Place(sndSeq) + 2 < SeqSpace
    BY <1>5, <1>8, <2>1, ToneConstants
  <2>. QED  BY <2>1, <2>2, PlaceOfNext
<1>10. Place(Seq1(Seq1(sndSeq + 2) + 1)) = Sent + 3
  <2>. DEFINE s == Seq1(sndSeq + 2)
  <2>1. s \in Numbers
    BY NextNumbers DEF ToneTypes
  <2>2. Place(s) + 1 < SeqSpace /\ Place(s) + 1 = Sent + 3
    BY <1>5, <1>8, <1>9, ToneConstants
  <2>. HIDE DEF s
  <2>3. Place(Seq1(s + 1)) = Place(s) + 1
    BY <2>1, <2>2, PlaceOfNext
  <2>. QED  BY <2>2, <2>3 DEF s
<1>11. Sent' = Sent + 3
  BY <1>1, <1>10 DEF Sent, Place
<1>12. No(a) = Sent /\ No(b) = Sent + 1 /\ No(c) = Sent + 2
  BY <1>1, <1>9 DEF No, Sent
<1>13. CountInv'
  <2>1. Sent' =< 0 + K * pressed'
    <3>1. K * pressed' \in Nat
      <4>. HIDE DEF K
      <4>. QED  BY <1>1, <1>4
    <3>. HIDE DEF K
    <3>. QED  BY <1>1, <1>7, <1>11, <3>1
  <2>. QED  BY <1>1, <1>2, <1>3, <2>1 DEF CountInv
<1>14. LagInv'
  BY <1>1 DEF LagInv, Lag
<1>. QED  BY <1>3, <1>5, <1>11, <1>12, <1>13, <1>14

LEMMA PressCounts ==
  ASSUME ToneTypes, SenderInv, LagInv, CountInv, NEW k, Press(k)
  PROVE  /\ CountInv' /\ LagInv' /\ Sent' = Sent
         /\ Begun =< Begun' /\ Ended =< Ended'
<1>. DEFINE K == NumbersOfPress
<1>1. ~skip /\ pressed' = pressed + 1 /\ dtmf' = <<k, pressed + 1>>
      /\ UNCHANGED <<time, lastSent, lastNet, skip, skipUntil, quiet, sndSeq, budget>>
  BY DEF Press, clock
<1>2. pressed \in Nat /\ K \in Nat /\ quiet \in Nat
  BY Longest DEF ToneTypes
<1>3. Sent' = Sent /\ Lag' = Lag
  BY <1>1 DEF Sent, Place, Lag
<1>4. dtmf' # <<>> /\ ~skip'
  BY <1>1
<1>5. Begun' = pressed /\ Ended' = pressed
  <2>1. Begun' = pressed' - 1 /\ Ended' = pressed' - 1
    BY <1>4 DEF Begun, Ended
  <2>. QED  BY <1>1, <1>2, <2>1
<1>6. Begun \in Nat /\ Ended \in Nat /\ Begun =< pressed /\ Ended =< pressed
  BY <1>2 DEF Begun, Ended, ToneTypes
<1>7. Sent =< quiet + K * pressed
  <2>1. Sent =< quiet + K * Ended
    BY <1>1 DEF CountInv
  <2>. HIDE DEF K
  <2>2. K * pressed = K * Ended + K * (pressed - Ended) /\ pressed - Ended \in Nat
    BY <1>2, <1>6
  <2>3. K * (pressed - Ended) \in Nat /\ K * Ended \in Nat
    BY <1>2, <1>6, <2>2
  <2>4. Sent \in Nat
    BY SentBound
  <2>. QED  BY <1>2, <2>1, <2>2, <2>3, <2>4
<1>8. CountInv'
  BY <1>1, <1>3, <1>4, <1>5, <1>7 DEF CountInv
<1>. QED  BY <1>1, <1>3, <1>5, <1>6, <1>8 DEF LagInv

LEMMA TickCounts ==
  ASSUME ToneTypes, LagInv, CountInv, TickWithoutFrame
  PROVE  CountInv' /\ LagInv'
<1>1. /\ lastSent # <<>> /\ budget.idle > 0 /\ budget' = [budget EXCEPT !.idle = @ - 1]
      /\ time' = Ts(time + 1)
      /\ UNCHANGED <<dtmf, skip, skipUntil, quiet, lastSent, lastNet, sndSeq, pressed>>
  BY DEF TickWithoutFrame, tone
<1>2. CountInv'
  BY <1>1 DEF CountInv, Sent, Place, Left, Ended
<1>3. budget.idle \in Nat /\ budget'.idle = budget.idle - 1
  BY <1>1 DEF ToneTypes
<1>. DEFINE T == TsSpace
            b == time - lastNet
<1>4. T \in Nat \ {0} /\ b \in Int /\ time + 1 \in Int /\ lastNet \in 0..T - 1 /\ time \in Int
  BY ToneConstants, IntTypes DEF ToneTypes, Times
<1>5. Lag = b % T /\ Lag \in 0..T - 1
  <2>1. Lag = b % T
    BY <1>1 DEF Lag, Ts
  <2>. QED  BY <1>4, <2>1, ModRange
<1>6. Lag' = Lag + 1
  <2>1. Lag' = (((time + 1) % T) - lastNet) % T
    BY <1>1 DEF Lag, Ts
  <2>. HIDE DEF T
  <2>2. lastNet % T = lastNet
    BY <1>4, ModSmall
  <2>3. (((time + 1) % T) - (lastNet % T)) % T = ((time + 1) - lastNet) % T
    <3>1. lastNet \in Int
      BY <1>4
    <3>. QED  BY <1>4, <3>1, ModDiff
  <2>4. (time + 1) - lastNet = b + 1
    BY <1>4
  <2>. HIDE DEF b
  <2>5. b = T * (b \div T) + Lag /\ b \div T \in Int
    BY <1>4, <1>5, ModRange
  <2>6. b + 1 = T * (b \div T) + (Lag + 1) /\ Lag + 1 \in 0..T - 1
    <3>1. Lag + 1 < T
      BY <1>4, <1>5, <1>3, Longest DEF LagInv, T
    <3>. QED  BY <1>4, <1>5, <2>5, <3>1
  <2>7. (b + 1) % T = Lag + 1
    BY <1>4, <2>5, <2>6, ModUnique
  <2>. QED  BY <2>1, <2>2, <2>3, <2>4, <2>7
<1>7. 2 * (Lag' + budget'.idle + MaxDuration) < TsSpace
  <2>1. Lag \in Nat /\ MaxDuration \in Nat
    BY <1>5, Longest
  <2>2. Lag' + budget'.idle + MaxDuration = Lag + budget.idle + MaxDuration
    BY <1>3, <1>6, <2>1
  <2>. QED  BY <2>2 DEF LagInv
<1>. QED  BY <1>2, <1>7 DEF LagInv
-----------------------------------------------------------------------------
(***************************************************************************)
(* What a step sends stands behind what waits: at later places, with the   *)
(* number of a press that is not ended.                                    *)
(***************************************************************************)
Fresh(tevs) ==
  /\ Begun =< Begun' /\ Ended =< Ended' /\ Sent =< Sent'
  /\ \A i \in 1..Len(tevs) :
       /\ Sent =< No(tevs[i]) /\ No(tevs[i]) < Sent'
       /\ Begun =< tevs[i].id /\ tevs[i].id =< Begun' /\ Ended < tevs[i].id
       /\ tevs[i].end => tevs[i].id =< Ended' /\ ~tevs[i].mark
  /\ \A i, j \in 1..Len(tevs) :
       /\ i < j => No(tevs[i]) =< No(tevs[j])
       /\ No(tevs[i]) = No(tevs[j]) => tevs[i] = tevs[j]
       /\ No(tevs[i]) < No(tevs[j]) => tevs[i].id = tevs[j].id /\ ~tevs[i].end

LEMMA NoType ==
  /\ \A p \in Packets : No(p) \in Nat /\ p.id \in Nat
  /\ ToneTypes => Sent \in Nat /\ Begun \in Int /\ Ended \in Int
<1>1. ASSUME NEW p \in Packets  PROVE No(p) \in Nat
  <2>0. p.seq \in Int
    BY IntTypes DEF Packets
  <2>1. p.seq + 2 \in Int
    BY <2>0
  <2>2. (p.seq + 2) % SeqSpace \in 0..SeqSpace - 1
    BY <2>1, ToneConstants, ModRange
  <2>. QED  BY <2>2 DEF No, Place
<1>2. ASSUME ToneTypes  PROVE Sent \in Nat /\ Begun \in Int /\ Ended \in Int
  <2>1. sndSeq + 2 \in Int
    BY <1>2, IntTypes DEF ToneTypes
  <2>2. (sndSeq + 2) % SeqSpace \in 0..SeqSpace - 1
    BY <2>1, ToneConstants, ModRange
  <2>. QED  BY <1>2, <2>2 DEF Sent, Place, Begun, Ended, ToneTypes
<1>. QED  BY <1>1, <1>2 DEF Packets

\* net' is net and, in their order, what arrives.
LEMMA ArriveInOrder ==
  ASSUME net \in Seq(Packets), NEW tevs \in Seq(Packets), Arrives(tevs), net' \in Seq(Packets)
  PROVE  /\ Len(net) =< Len(net') /\ \A i \in 1..Len(net) : net'[i] = net[i]
         /\ \E from \in [Len(net) + 1..Len(net') -> 1..Len(tevs)] :
              /\ \A i \in Len(net) + 1..Len(net') : net'[i] = tevs[from[i]]
              /\ \A i, j \in Len(net) + 1..Len(net') : i < j => from[i] < from[j]
<1>0. PICK n \in 0..Len(tevs) : \E kept \in Increasing(n, Len(tevs)) :
        net' = net \o [i \in 1..n |-> tevs[kept[i]]]
  BY DEF Arrives
<1>1. PICK kept \in Increasing(n, Len(tevs)) : net' = net \o [i \in 1..n |-> tevs[kept[i]]]
  BY <1>0
<1>2. kept \in [1..n -> 1..Len(tevs)] /\ \A i, j \in 1..n : i < j => kept[i] < kept[j]
  BY DEF Increasing
<1>. DEFINE new == [i \in 1..n |-> tevs[kept[i]]]
            l == Len(net)
            from == [i \in l + 1..Len(net') |-> kept[i - l]]
<1>3. n \in Nat /\ l \in Nat
  OBVIOUS
<1>4. new \in Seq(Packets) /\ Len(new) = n /\ \A i \in 1..n : new[i] = tevs[kept[i]]
  <2>1. \A i \in 1..n : tevs[kept[i]] \in Packets
    BY <1>2
  <2>. QED  BY <1>3, <2>1
<1>. HIDE DEF new
<1>5. /\ Len(net') = l + n /\ \A i \in 1..l : net'[i] = net[i]
      /\ \A i \in l + 1..l + n : net'[i] = new[i - l]
  BY <1>1, <1>3, <1>4 DEF new
<1>. HIDE DEF l
<1>6. \A i \in l + 1..l + n : i - l \in 1..n
  BY <1>3
<1>7. from \in [l + 1..Len(net') -> 1..Len(tevs)]
  BY <1>2, <1>5, <1>6
<1>8. \A i \in l + 1..Len(net') : net'[i] = tevs[from[i]]
  BY <1>4, <1>5, <1>6
<1>9. ASSUME NEW i \in l + 1..Len(net'), NEW j \in l + 1..Len(net'), i < j
      PROVE  from[i] < from[j]
  <2>1. i - l \in 1..n /\ j - l \in 1..n /\ i - l < j - l
    BY <1>3, <1>5, <1>9
  <2>. QED  BY <1>2, <2>1
<1>10. l =< Len(net')
  BY <1>3, <1>5
<1>. HIDE DEF from
<1>. QED  BY <1>5, <1>7, <1>8, <1>9, <1>10 DEF l

LEMMA SentStep ==
  ASSUME ToneTypes, ToneTypes', PacketInv, PairInv, OrderInv, TakenInv,
         NEW tevs \in Seq(Packets), Arrives(tevs), Fresh(tevs), UNCHANGED rcv
  PROVE  PacketInv' /\ PairInv' /\ OrderInv' /\ TakenInv'
<1>. DEFINE l == Len(net)
            New == {tevs[i] : i \in 1..Len(tevs)}
<1>1. net \in Seq(Packets) /\ net' \in Seq(Packets) /\ tevQ \in Seq(Packets) /\ tevQ' = tevQ
      /\ curTev' = curTev /\ reported' = reported /\ reported \in Seq(Nat)
  BY DEF ToneTypes, rcv
<1>2. /\ l =< Len(net') /\ \A i \in 1..l : net'[i] = net[i]
      /\ \E from \in [l + 1..Len(net') -> 1..Len(tevs)] :
           /\ \A i \in l + 1..Len(net') : net'[i] = tevs[from[i]]
           /\ \A i, j \in l + 1..Len(net') : i < j => from[i] < from[j]
  BY <1>1, ArriveInOrder, Zenon
<1>14. l \in Nat
  BY <1>1
<1>3. PICK from \in [l + 1..Len(net') -> 1..Len(tevs)] :
        /\ \A i \in l + 1..Len(net') : net'[i] = tevs[from[i]]
        /\ \A i, j \in l + 1..Len(net') : i < j => from[i] < from[j]
  BY <1>2, <1>14
<1>. HIDE DEF l
<1>4. /\ Sent \in Nat /\ Sent' \in Nat /\ Begun \in Int /\ Begun' \in Int
      /\ Ended \in Int /\ Ended' \in Int
      /\ \A p \in Packets : No(p) \in Nat /\ p.id \in Nat
  <2>1. Sent \in Nat /\ Begun \in Int /\ Ended \in Int
    BY NoType
  <2>2. (ToneTypes => Sent \in Nat /\ Begun \in Int /\ Ended \in Int)'
    BY NoType, PTL
  <2>. QED  BY <2>1, <2>2, NoType
<1>5. Waiting \subseteq Packets /\ New \subseteq Packets
  BY <1>1 DEF Waiting, Range
<1>6. Waiting' \subseteq Waiting \cup New
  <2>1. ASSUME NEW i \in DOMAIN net'  PROVE net'[i] \in Waiting \cup New
    <3>1. CASE i =< l
      <4>1. i \in 1..l /\ i \in DOMAIN net
        BY <1>1, <1>2, <1>14, <3>1 DEF l
      <4>. QED  BY <1>2, <1>14, <4>1 DEF Waiting, Range
    <3>2. CASE i > l
      <4>1. i \in l + 1..Len(net')
        BY <1>1, <1>2, <1>14, <3>2
      <4>. QED  BY <1>3, <4>1
    <3>. QED  BY <1>1, <1>2, <1>14, <3>1, <3>2
  <2>2. \A i \in DOMAIN tevQ : tevQ[i] \in Waiting
    BY DEF Waiting, Range
  <2>3. Waiting' = {net'[i] : i \in DOMAIN net'} \cup {tevQ[i] : i \in DOMAIN tevQ}
    BY <1>1 DEF Waiting, Range
  <2>. QED  BY <2>1, <2>2, <2>3
<1>7. /\ Begun =< Begun' /\ Ended =< Ended' /\ Sent =< Sent'
      /\ \A p \in New :
           /\ Sent =< No(p) /\ No(p) < Sent'
           /\ Begun =< p.id /\ p.id =< Begun' /\ Ended < p.id
           /\ p.end => p.id =< Ended' /\ ~p.mark
  BY DEF Fresh
<1>8. \A p, q \in New :
        /\ No(p) = No(q) => p = q
        /\ No(p) < No(q) => p.id = q.id /\ ~p.end
  BY DEF Fresh
<1>9. \A p \in Waiting : /\ No(p) < Sent /\ p.id =< Begun
                         /\ p.end => p.id =< Ended /\ ~p.mark
  BY DEF PacketInv
<1>. HIDE DEF New
<1>10. PacketInv'
  <2>1. ASSUME NEW p \in Waiting'
        PROVE  /\ No(p) < Sent' /\ p.id =< Begun'
               /\ p.end => p.id =< Ended' /\ ~p.mark
    <3>1. CASE p \in Waiting
      <4>1. No(p) \in Nat /\ p.id \in Nat
        BY <1>4, <1>5, <3>1
      <4>. QED  BY <1>4, <1>7, <1>9, <3>1, <4>1
    <3>2. CASE p \in New
      BY <1>7, <3>2
    <3>. QED  BY <1>6, <3>1, <3>2
  <2>. QED  BY <2>1 DEF PacketInv, No, Place
<1>11. PairInv'
  <2>1. ASSUME NEW p \in Waiting', NEW q \in Waiting'
        PROVE  /\ No(p) = No(q) => p = q
               /\ No(p) < No(q) => p.id =< q.id /\ (p.end => p.id < q.id)
    <3>0. p \in Packets /\ q \in Packets /\ No(p) \in Nat /\ No(q) \in Nat
          /\ p.id \in Nat /\ q.id \in Nat
      BY <1>4, <1>5, <1>6
    <3>1. CASE p \in Waiting /\ q \in Waiting
      BY <3>1 DEF PairInv
    <3>2. CASE p \in New /\ q \in New
      BY <1>8, <3>0, <3>2
    <3>3. CASE p \in Waiting /\ q \in New
      BY <1>4, <1>7, <1>9, <3>0, <3>3
    <3>4. CASE p \in New /\ q \in Waiting
      BY <1>4, <1>7, <1>9, <3>0, <3>4
    <3>. QED  BY <1>6, <3>1, <3>2, <3>3, <3>4
  <2>. QED  BY <2>1 DEF PairInv, No, Place
<1>12. OrderInv'
  <2>1. ASSUME NEW i \in DOMAIN net', NEW j \in DOMAIN net', i < j
        PROVE  No(net'[i]) =< No(net'[j])
    <3>0. net'[i] \in Packets /\ net'[j] \in Packets /\ No(net'[i]) \in Nat /\ No(net'[j]) \in Nat
      BY <1>1, <1>4
    <3>1. CASE j =< l
      <4>1. i \in 1..l /\ j \in 1..l /\ i \in DOMAIN net /\ j \in DOMAIN net
        BY <1>1, <1>2, <1>14, <2>1, <3>1 DEF l
      <4>. QED  BY <1>2, <1>14, <2>1, <4>1 DEF OrderInv
    <3>2. CASE i =< l /\ j > l
      <4>1. i \in 1..l /\ i \in DOMAIN net /\ j \in l + 1..Len(net')
        BY <1>1, <1>2, <1>14, <3>2 DEF l
      <4>2. net'[i] \in Waiting
        BY <1>2, <1>14, <4>1 DEF Waiting, Range
      <4>3. net'[j] \in New
        BY <1>3, <4>1 DEF New
      <4>. QED  BY <1>4, <1>7, <1>9, <3>0, <4>2, <4>3
    <3>3. CASE i > l
      <4>1. i \in l + 1..Len(net') /\ j \in l + 1..Len(net')
        BY <1>1, <1>2, <1>14, <2>1, <3>3
      <4>2. from[i] < from[j] /\ from[i] \in 1..Len(tevs) /\ from[j] \in 1..Len(tevs)
        BY <1>3, <2>1, <4>1
      <4>3. No(tevs[from[i]]) =< No(tevs[from[j]])
        BY <4>2 DEF Fresh
      <4>. QED  BY <1>3, <4>1, <4>3
    <3>4. i \in Nat /\ j \in Nat
      BY <1>1
    <3>. QED  BY <1>2, <1>14, <3>1, <3>2, <3>3, <3>4
  <2>2. ASSUME NEW i \in DOMAIN tevQ, NEW j \in DOMAIN net'
        PROVE  No(tevQ[i]) =< No(net'[j])
    <3>0. tevQ[i] \in Packets /\ net'[j] \in Packets /\ No(tevQ[i]) \in Nat /\ No(net'[j]) \in Nat
          /\ tevQ[i] \in Waiting
      BY <1>1, <1>4 DEF Waiting, Range
    <3>1. CASE j =< l
      <4>1. j \in 1..l /\ j \in DOMAIN net
        BY <1>1, <1>2, <1>14, <3>1 DEF l
      <4>. QED  BY <1>2, <1>14, <4>1 DEF OrderInv
    <3>2. CASE j > l
      <4>1. j \in l + 1..Len(net')
        BY <1>1, <1>2, <1>14, <3>2
      <4>2. net'[j] \in New
        BY <1>3, <4>1 DEF New
      <4>. QED  BY <1>4, <1>7, <1>9, <3>0, <4>2
    <3>3. j \in Nat
      BY <1>1
    <3>. QED  BY <1>2, <1>14, <3>1, <3>2, <3>3
  <2>3. \A i, j \in DOMAIN tevQ : i < j => No(tevQ[i]) < No(tevQ[j])
    BY DEF OrderInv
  <2>. QED  BY <1>1, <2>1, <2>2, <2>3 DEF OrderInv, No, Place
<1>13. TakenInv'
  <2>1. PICK e \in -1..SeqSpace : TakenAt(e)
    BY DEF TakenInv
  <2>2. e < Sent' /\ e \in Int
    BY <1>4, <1>7, <2>1, ToneConstants DEF TakenAt
  <2>3. reported # <<>> => Last(reported) =< Ended /\ Last(reported) \in Nat
    BY <1>1 DEF TakenInv, Last
  <2>4. ASSUME NEW p \in Waiting'
        PROVE  /\ e =< No(p)
               /\ Old(p) => /\ No(p) = e /\ curTev # <<>>
                            /\ curTev[1].ts = p.ts /\ curTev[1].end
    <3>1. CASE p \in Waiting
      BY <2>1, <3>1 DEF TakenAt
    <3>2. CASE p \in New
      <4>0. p.id \in Nat /\ No(p) \in Nat
        BY <1>4, <1>5, <3>2
      <4>1. e =< No(p)
        BY <1>4, <1>7, <2>1, <2>2, <3>2, <4>0 DEF TakenAt
      <4>2. ~Old(p)
        BY <1>4, <1>7, <2>3, <3>2, <4>0 DEF Old
      <4>. QED  BY <4>1, <4>2
    <3>. QED  BY <1>6, <3>1, <3>2
  <2>5. \A p : Old(p)' <=> Old(p)
    BY <1>1 DEF Old
  <2>6. TakenAt(e)'
    BY <1>1, <2>2, <2>4, <2>5 DEF TakenAt, No, Place, Old
  <2>7. reported' # <<>> => Last(reported') =< Ended'
    BY <1>1, <1>4, <1>7, <2>3
  <2>. QED  BY <2>6, <2>7 DEF TakenInv
<1>. QED  BY <1>10, <1>11, <1>12, <1>13

LEMMA FramePress ==
  ASSUME ToneTypes, SenderInv, NEW d, NEW tevs, NEW talk, FrameWith(d, tevs, talk)
  PROVE  /\ Begun =< Begun' /\ Ended =< Ended'
         /\ IsOn => Begun =< pressed /\ Begun' = pressed /\ Ended < pressed
         /\ IsOver => Ended' = pressed /\ ~Begins
<1>1. /\ skip' = (IsOn /\ ~IsOver) /\ dtmf' = (IF IsOver THEN <<>> ELSE dtmf)
      /\ pressed' = pressed
  BY DEF FrameWith
<1>2. pressed \in Nat
  BY DEF ToneTypes
<1>3. CASE ~IsOn
  <2>1. ~IsOver /\ dtmf = <<>> /\ dtmf' = <<>>
    BY <1>1, <1>3 DEF IsOver, IsOn, Begins, SenderInv
  <2>2. Begun = pressed /\ Ended = pressed /\ Begun' = pressed /\ Ended' = pressed
    BY <1>1, <2>1 DEF Begun, Ended
  <2>. QED  BY <1>2, <1>3, <2>1, <2>2
<1>4. CASE IsOn
  <2>1. dtmf # <<>> /\ Ended = pressed - 1
    BY <1>4 DEF IsOn, Begins, SenderInv, Ended
  <2>2. Begun = pressed - 1 \/ Begun = pressed
    BY DEF Begun
  <2>3. Begun' = pressed
    <3>1. CASE IsOver
      <4>1. dtmf' = <<>>
        BY <1>1, <3>1
      <4>. QED  BY <1>1, <4>1 DEF Begun
    <3>2. CASE ~IsOver
      <4>1. skip' = TRUE
        BY <1>1, <1>4, <3>2
      <4>. QED  BY <1>1, <4>1 DEF Begun
    <3>. QED  BY <3>1, <3>2
  <2>4. Ended' = IF IsOver THEN pressed ELSE pressed - 1
    <3>1. CASE IsOver
      <4>1. dtmf' = <<>>
        BY <1>1, <3>1
      <4>. QED  BY <1>1, <3>1, <4>1 DEF Ended
    <3>2. CASE ~IsOver
      <4>1. dtmf' # <<>>
        BY <1>1, <2>1, <3>2
      <4>. QED  BY <1>1, <3>2, <4>1 DEF Ended
    <3>. QED  BY <3>1, <3>2
  <2>5. IsOver => ~Begins
    BY BeginsWith
  <2>. QED  BY <1>2, <2>1, <2>2, <2>3, <2>4, <2>5
<1>. QED  BY <1>3, <1>4

LEMMA FrameFresh ==
  ASSUME ToneTypes, SenderInv, LagInv, CountInv, NEW d \in Durations, NEW tevs \in Seq(Packets),
         NEW talk \in BOOLEAN, FrameWith(d, tevs, talk)
  PROVE  Fresh(tevs)
<1>1. Sent \in Nat /\ Sent' \in Nat /\ Sent =< Sent' /\ (tevs # <<>> => Sent < Sent')
  BY FrameCounts
<1>2. /\ Begun =< Begun' /\ Ended =< Ended'
      /\ IsOn => Begun =< pressed /\ Begun' = pressed /\ Ended < pressed
      /\ IsOver => Ended' = pressed /\ ~Begins
  BY FramePress
<1>3. CASE tevs = <<>>
  <2>1. 1..Len(tevs) = {}
    BY <1>3
  <2>. QED  BY <1>1, <1>2, <2>1 DEF Fresh
<1>4. CASE tevs # <<>>
  <2>1. PICK p \in Packets : TonePacket(p) /\ tevs = IF IsOver THEN Thrice(p) ELSE <<p>>
    BY <1>4 DEF FrameWith, FrameSends
  <2>2. IsOn
    BY <1>4 DEF FrameWith, FrameSends
  <2>3. \A i \in 1..Len(tevs) : tevs[i] = p
    BY <2>1 DEF Thrice
  <2>4. p.id = pressed /\ No(p) = Sent /\ p.mark = Begins /\ p.end = IsOver
    BY <2>1 DEF TonePacket, No, Sent
  <2>5. No(p) < No(p) => FALSE
    BY <1>1, <2>4
  <2>6. No(p) =< No(p) /\ pressed =< pressed
    BY <1>1, <2>4 DEF ToneTypes
  <2>7. /\ Sent =< No(p) /\ No(p) < Sent'
        /\ Begun =< p.id /\ p.id =< Begun' /\ Ended < p.id
        /\ p.end => p.id =< Ended' /\ ~p.mark
    BY <1>1, <1>2, <1>4, <2>2, <2>4, <2>6
  <2>. QED  BY <1>1, <1>2, <2>3, <2>5, <2>6, <2>7 DEF Fresh
<1>. QED  BY <1>3, <1>4

LEMMA DirectFresh ==
  ASSUME ToneTypes, SenderInv, LagInv, CountInv, NEW a \in Packets, NEW b \in Packets,
         NEW c \in Packets, DirectWith(a, b, c)
  PROVE  Fresh(<<a, b, c, c, c>>)
<1>. DEFINE w == <<a, b, c, c, c>>
<1>1. /\ Sent \in Nat /\ Sent' = Sent + 3
      /\ No(a) = Sent /\ No(b) = Sent + 1 /\ No(c) = Sent + 2
      /\ Begun = pressed /\ Ended = pressed /\ Begun' = pressed' /\ Ended' = pressed'
  BY DirectCounts
<1>2. /\ a.id = pressed + 1 /\ b.id = pressed + 1 /\ c.id = pressed + 1
      /\ ~a.end /\ ~b.end /\ c.end /\ ~c.mark /\ pressed' = pressed + 1
  BY DEF DirectWith
<1>3. pressed \in Nat
  BY DEF ToneTypes
<1>4. Len(w) = 5 /\ w[1] = a /\ w[2] = b /\ w[3] = c /\ w[4] = c /\ w[5] = c
  OBVIOUS
<1>. HIDE DEF w
<1>5. \A i \in 1..Len(w) : \/ i = 1 /\ w[i] = a
                           \/ i = 2 /\ w[i] = b
                           \/ i >= 3 /\ w[i] = c
  <2>1. ASSUME NEW i \in 1..Len(w)
        PROVE  \/ i = 1 /\ w[i] = a
               \/ i = 2 /\ w[i] = b
               \/ i >= 3 /\ w[i] = c
    <3>1. i = 1 \/ i = 2 \/ i = 3 \/ i = 4 \/ i = 5
      BY <1>4
    <3>2. i = 1 => w[i] = a
      BY <1>4
    <3>3. i = 2 => w[i] = b
      BY <1>4
    <3>4. i = 3 \/ i = 4 \/ i = 5 => w[i] = c /\ i >= 3
      BY <1>4
    <3>. QED  BY <3>1, <3>2, <3>3, <3>4
  <2>. QED  BY <2>1
<1>6. ASSUME NEW i \in 1..Len(w)
      PROVE  /\ Sent =< No(w[i]) /\ No(w[i]) < Sent'
             /\ Begun =< w[i].id /\ w[i].id =< Begun' /\ Ended < w[i].id
             /\ w[i].end => w[i].id =< Ended' /\ ~w[i].mark
  <2>1. w[i] = a \/ w[i] = b \/ w[i] = c
    BY <1>5
  <2>. QED  BY <1>1, <1>2, <1>3, <2>1
<1>7. ASSUME NEW i \in 1..Len(w), NEW j \in 1..Len(w)
      PROVE  /\ i < j => No(w[i]) =< No(w[j])
             /\ No(w[i]) = No(w[j]) => w[i] = w[j]
             /\ No(w[i]) < No(w[j]) => w[i].id = w[j].id /\ ~w[i].end
  <2>1. /\ \/ i = 1 /\ w[i] = a
           \/ i = 2 /\ w[i] = b
           \/ i >= 3 /\ w[i] = c
        /\ \/ j = 1 /\ w[j] = a
           \/ j = 2 /\ w[j] = b
           \/ j >= 3 /\ w[j] = c
    BY <1>5
  <2>2. i \in Int /\ j \in Int
    OBVIOUS
  <2>3. i < j => No(w[i]) =< No(w[j])
    BY <1>1, <2>1, <2>2
  <2>4. No(w[i]) = No(w[j]) => w[i] = w[j]
    BY <1>1, <2>1
  <2>5. No(w[i]) < No(w[j]) => w[i].id = w[j].id /\ ~w[i].end
    BY <1>1, <1>2, <2>1
  <2>. QED  BY <2>3, <2>4, <2>5
<1>8. Begun =< Begun' /\ Ended =< Ended' /\ Sent =< Sent'
  BY <1>1, <1>2, <1>3
<1>. QED  BY <1>6, <1>7, <1>8 DEF Fresh, w
-----------------------------------------------------------------------------
(***************************************************************************)
(* What a call reads, and what it takes out.                               *)
(***************************************************************************)
\* q is the queue after the reading.
ReadTo(q) ==
  /\ q \in Seq(Packets) /\ net' \in Seq(Packets)
  /\ Range(q) \subseteq Waiting /\ Range(net') \subseteq Waiting
  /\ \A i, j \in 1..Len(q) : i < j => No(q[i]) < No(q[j])
  /\ \A i, j \in 1..Len(net') : i < j => No(net'[i]) =< No(net'[j])
  /\ \A i \in 1..Len(q), j \in 1..Len(net') : No(q[i]) =< No(net'[j])
  /\ UNCHANGED <<scene, snd>> /\ budget'.idle = budget.idle

\* Half of the numbers tell the order of the places.
LEMMA StretchOfStream ==
  ASSUME ToneTypes, CountInv, PacketInv, NEW W, W \subseteq Waiting
  PROVE  InStream(W, [p \in W |-> No(p)])
<1>. DEFINE S == SeqSpace
            place == [p \in W |-> No(p)]
<1>1. Waiting \subseteq Packets
  BY DEF Waiting, Range, ToneTypes
<1>2. S \in Nat \ {0} /\ S % 2 = 0 /\ Sent \in Nat /\ 2 * Sent =< S
  BY SentBound, ToneConstants
<1>3. place \in [W -> Nat]
  BY <1>1, NoType
<1>4. ASSUME NEW d \in W, NEW e \in W
      PROVE  /\ SeqIsGreater(d.seq, e.seq) <=> place[d] >= place[e]
             /\ d.seq = e.seq <=> place[d] = place[e]
  <2>. DEFINE x == No(d)
              y == No(e)
  <2>1. d.seq \in 0..S - 1 /\ e.seq \in 0..S - 1
    BY <1>1 DEF Packets, Numbers
  <2>2. x \in Nat /\ y \in Nat /\ x < Sent /\ y < Sent
    BY <1>1, NoType DEF PacketInv
  <2>3. x = (d.seq + 2) % S /\ y = (e.seq + 2) % S
    BY DEF No, Place
  <2>. HIDE DEF S, x, y
  <2>4. (d.seq - e.seq) % S = (x - y) % S
    <3>1. d.seq + 2 \in Int /\ e.seq + 2 \in Int
      BY <1>2, <2>1
    <3>2. (((d.seq + 2) % S) - ((e.seq + 2) % S)) % S = ((d.seq + 2) - (e.seq + 2)) % S
      BY <1>2, <3>1, ModDiff
    <3>3. (d.seq + 2) - (e.seq + 2) = d.seq - e.seq
      BY <1>2, <2>1
    <3>. QED  BY <2>3, <3>2, <3>3
  <2>5. (x - y) % S < S \div 2 <=> x - y >= 0
    <3>1. x - y \in Int /\ 2 * (x - y) < S /\ 2 * (-(x - y)) =< S
      BY <1>2, <2>2
    <3>. QED  BY <1>2, <3>1, ModHalf
  <2>6. x - y >= 0 <=> x >= y
    BY <2>2
  <2>7. SeqIsGreater(d.seq, e.seq) <=> x >= y
    BY <2>4, <2>5, <2>6 DEF SeqIsGreater, S
  <2>8. d.seq = e.seq => x = y
    BY <2>3
  <2>9. ASSUME x = y  PROVE d.seq = e.seq
    <3>1. (d.seq - e.seq) % S = 0
      <4>1. x - y = 0
        BY <2>2, <2>9
      <4>2. 0 % S = 0
        BY <1>2, ModSmall
      <4>. QED  BY <2>4, <4>1, <4>2
    <3>. DEFINE k == (d.seq - e.seq) \div S
    <3>2. d.seq - e.seq = S * k + 0 /\ k \in Int
      <4>1. d.seq - e.seq \in Int
        BY <1>2, <2>1
      <4>2. d.seq - e.seq = S * k + ((d.seq - e.seq) % S) /\ k \in Int
        BY <1>2, <4>1, ModRange
      <4>. QED  BY <3>1, <4>2
    <3>. HIDE DEF k
    <3>3. k = 0
      <4>1. k >= 1 => S * k >= S
        <5>1. k >= 1 => S * k = S + S * (k - 1) /\ S * (k - 1) \in Nat
          <6>1. k >= 1 => k - 1 \in Nat
            BY <3>2
          <6>2. k - 1 \in Nat => S * (k - 1) \in Nat
            BY <1>2
          <6>. QED  BY <1>2, <3>2, <6>1, <6>2
        <5>. QED  BY <1>2, <5>1
      <4>2. k =< -1 => S * k =< -S
        <5>1. k =< -1 => S * k = -S - S * (-1 - k) /\ S * (-1 - k) \in Nat
          <6>1. k =< -1 => -1 - k \in Nat
            BY <3>2
          <6>2. -1 - k \in Nat => S * (-1 - k) \in Nat
            BY <1>2
          <6>. QED  BY <1>2, <3>2, <6>1, <6>2
        <5>. QED  BY <1>2, <5>1
      <4>3. -S < S * k /\ S * k < S
        BY <1>2, <2>1, <3>2
      <4>4. S * k \in Int
        BY <1>2, <3>2
      <4>. QED  BY <1>2, <3>2, <4>1, <4>2, <4>3, <4>4
    <3>. QED  BY <1>2, <2>1, <3>2, <3>3
  <2>10. place[d] = x /\ place[e] = y
    BY DEF x, y
  <2>. HIDE DEF place
  <2>. QED  BY <2>7, <2>8, <2>9, <2>10
<1>. HIDE DEF place
<1>5. InStream(W, place)
  BY <1>3, <1>4 DEF InStream
<1>. QED  BY <1>5 DEF place

LEMMA ReadInOrder ==
  ASSUME ToneTypes, CountInv, PacketInv, OrderInv, Recv
  PROVE  \E q : ReadTo(q) /\ TakeOut(q)
<1>1. PICK n \in 1..Len(net), again \in {0, 1} : \E order \in Seq(Range(SubSeq(net, 1, n))) :
               RecvWith(n, again, order)
  BY RecvStep
<1>2. PICK order \in Seq(Range(SubSeq(net, 1, n))) : RecvWith(n, again, order)
  BY <1>1
<1>. DEFINE front == SubSeq(net, 1, n)
            k == n - again
            back == SubSeq(net, n + 1 - again, Len(net))
            W == Range(tevQ) \cup Range(front)
            place == [p \in W |-> No(p)]
            X == {r \in Seq(W) : Rises(place, r)}
            q == Queued(tevQ, order)
<1>3. net \in Seq(Packets) /\ tevQ \in Seq(Packets) /\ Len(net) \in Nat
  BY DEF ToneTypes
<1>4. front \in Seq(Packets) /\ Len(front) = n /\ \A i \in 1..n : front[i] = net[i] /\ i \in DOMAIN net
  BY <1>3
<1>5. k \in 0..Len(net) /\ n =< k + 1 /\ n + 1 - again = k + 1
  OBVIOUS
<1>6. back \in Seq(Packets) /\ Len(back) = Len(net) - k
      /\ \A i \in 1..Len(back) : back[i] = net[k + i] /\ k + i \in DOMAIN net
  <2>1. back = SubSeq(net, k + 1, Len(net))
    BY <1>5
  <2>. HIDE DEF back, k
  <2>. QED  BY <1>3, <1>5, <2>1
<1>. HIDE DEF front, back, k
<1>7. Range(front) \subseteq Range(net) /\ Range(back) \subseteq Range(net)
      /\ \A p \in Range(front) : \E i \in 1..n : p = net[i] /\ i \in DOMAIN net
  <2>0. DOMAIN front = 1..n /\ DOMAIN back = 1..Len(back)
    BY <1>4, <1>6
  <2>1. Range(front) = {front[i] : i \in 1..n} /\ Range(back) = {back[i] : i \in 1..Len(back)}
        /\ Range(net) = {net[i] : i \in DOMAIN net}
    BY <2>0, Zenon DEF Range
  <2>2. \A p \in Range(front) : \E i \in 1..n : p = net[i] /\ i \in DOMAIN net
    <3>1. ASSUME NEW p \in Range(front)  PROVE \E i \in 1..n : p = net[i] /\ i \in DOMAIN net
      <4>1. PICK i \in 1..n : p = front[i]
        BY <2>1
      <4>2. p = net[i] /\ i \in DOMAIN net
        BY <1>4, <4>1
      <4>. QED  BY <4>2
    <3>. QED  BY <3>1
  <2>3. Range(front) \subseteq Range(net)
    BY <2>1, <2>2
  <2>4. Range(back) \subseteq Range(net)
    <3>1. ASSUME NEW p \in Range(back)  PROVE p \in Range(net)
      <4>1. PICK i \in 1..Len(back) : p = back[i]
        BY <2>1
      <4>2. p = net[k + i] /\ k + i \in DOMAIN net
        BY <1>6, <4>1
      <4>. QED  BY <2>1, <4>2
    <3>. QED  BY <3>1
  <2>. QED  BY <2>2, <2>3, <2>4
<1>8. W \subseteq Waiting /\ Range(back) \subseteq Waiting
  BY <1>7 DEF Waiting
<1>9. InStream(W, place)
  BY <1>8, StretchOfStream
<1>10. tevQ \in X
  <2>1. tevQ \in Seq(W)
    <3>1. \A i \in 1..Len(tevQ) : tevQ[i] \in W
      BY <1>3 DEF Range
    <3>. QED  BY <1>3, <3>1
  <2>2. ASSUME NEW i \in 1..Len(tevQ), NEW j \in 1..Len(tevQ), i < j
        PROVE  place[tevQ[i]] < place[tevQ[j]]
    <3>1. tevQ[i] \in W /\ tevQ[j] \in W
      BY <2>1
    <3>2. No(tevQ[i]) < No(tevQ[j])
      BY <1>3, <2>2 DEF OrderInv
    <3>3. place[tevQ[i]] = No(tevQ[i]) /\ place[tevQ[j]] = No(tevQ[j])
      <4>. HIDE DEF W
      <4>. QED  BY <3>1
    <3>. QED  BY <3>2, <3>3
  <2>. HIDE DEF place, W
  <2>. QED  BY <2>1, <2>2 DEF Rises
<1>11. ASSUME NEW r \in X, NEW p \in W  PROVE queue_packet(r, TevQSize, p) \in X
  <2>. HIDE DEF place, W
  <2>. QED  BY <1>9, QueueRises, ToneConstants
<1>12. order \in Seq(W)
  <2>1. order \in Seq(Range(front))
    BY DEF front
  <2>2. Range(front) \subseteq W
    OBVIOUS
  <2>. HIDE DEF W
  <2>. QED  BY <2>1, <2>2
<1>13. q \in X
  <2>. HIDE DEF X, W
  <2>. QED  BY <1>10, <1>11, <1>12, QueuedIn
<1>. HIDE DEF q
<1>14. q \in Seq(W) /\ \A i, j \in 1..Len(q) : i < j => No(q[i]) < No(q[j])
  <2>. DEFINE Y == W
  <2>1. q \in Seq(Y) /\ \A i, j \in 1..Len(q) : i < j => place[q[i]] < place[q[j]]
    BY <1>13 DEF Rises
  <2>2. \A p \in Y : place[p] = No(p)
    OBVIOUS
  <2>. HIDE DEF place, Y
  <2>3. \A i \in 1..Len(q) : q[i] \in Y
    BY <2>1
  <2>. QED  BY <2>1, <2>2, <2>3 DEF Y
<1>15. W \subseteq Packets
  BY <1>3, <1>4 DEF Range
<1>16. ASSUME NEW p \in W, NEW j \in 1..Len(back)  PROVE No(p) =< No(back[j])
  <2>0. back[j] = net[k + j] /\ k + j \in DOMAIN net /\ No(net[k + j]) \in Nat
    BY <1>3, <1>6, NoType
  <2>1. CASE p \in Range(tevQ)
    <3>1. PICK i \in DOMAIN tevQ : p = tevQ[i]
      BY <2>1 DEF Range
    <3>. QED  BY <2>0, <3>1 DEF OrderInv
  <2>2. CASE p \in Range(front)
    <3>1. PICK i \in 1..n : p = net[i] /\ i \in DOMAIN net
      BY <1>7, <2>2
    <3>2. i < k + j \/ i = k + j
      BY <1>3, <1>5
    <3>3. CASE i < k + j
      BY <2>0, <3>1, <3>3 DEF OrderInv
    <3>4. CASE i = k + j
      BY <2>0, <3>1, <3>4
    <3>. QED  BY <3>2, <3>3, <3>4
  <2>. QED  BY <2>1, <2>2
<1>17. \A i, j \in 1..Len(back) : i < j => No(back[i]) =< No(back[j])
  <2>1. ASSUME NEW i \in 1..Len(back), NEW j \in 1..Len(back), i < j
        PROVE  No(back[i]) =< No(back[j])
    <3>1. k + i < k + j
      BY <1>5, <2>1
    <3>. QED  BY <1>6, <3>1 DEF OrderInv
  <2>. QED  BY <2>1
<1>. HIDE DEF W
<1>18. net' = back /\ UNCHANGED <<scene, snd>> /\ budget'.idle = budget.idle /\ TakeOut(q)
  BY <1>2 DEF RecvWith, back, q
<1>19. q \in Seq(Packets) /\ Range(q) \subseteq Waiting /\ \A i \in 1..Len(q) : q[i] \in W
  <2>1. \A i \in 1..Len(q) : q[i] \in W
    BY <1>14
  <2>2. q \in Seq(Packets)
    BY <1>14, <1>15
  <2>. QED  BY <1>8, <1>14, <2>1, <2>2 DEF Range
<1>20. \A i \in 1..Len(q), j \in 1..Len(back) : No(q[i]) =< No(back[j])
  BY <1>16, <1>19
<1>21. ReadTo(q)
  BY <1>6, <1>8, <1>14, <1>17, <1>18, <1>19, <1>20 DEF ReadTo
<1>. QED  BY <1>18, <1>21

LEMMA AgainInOrder ==
  ASSUME ToneTypes, OrderInv, RecvAgain
  PROVE  ReadTo(tevQ) /\ TakeOut(tevQ)
<1>1. TakeOut(tevQ) /\ UNCHANGED <<scene, snd, net, budget>>
  BY DEF RecvAgain
<1>2. net \in Seq(Packets) /\ tevQ \in Seq(Packets)
  BY DEF ToneTypes
<1>3. net' = net /\ budget' = budget /\ DOMAIN net = 1..Len(net) /\ DOMAIN tevQ = 1..Len(tevQ)
  BY <1>1, <1>2
<1>. QED  BY <1>1, <1>2, <1>3 DEF ReadTo, OrderInv, Waiting

\* The application takes the oldest packet out.
LEMMA TakenStep ==
  ASSUME StreamInv, ToneTypes', SenderInv', NEW q, ReadTo(q), TakeOut(q)
  PROVE  StreamInv'
<1>1. /\ q \in Seq(Packets) /\ net' \in Seq(Packets) /\ tevQ' \in Seq(Packets)
      /\ reported \in Seq(Nat) /\ UNCHANGED <<scene, snd>> /\ budget'.idle = budget.idle
      /\ ToneTypes /\ LagInv /\ CountInv /\ PacketInv /\ PairInv /\ OrderInv /\ TakenInv
      /\ InOrder /\ \A i \in 1..Len(q) : q[i] \in Waiting
  <2>1. /\ ToneTypes /\ LagInv /\ CountInv /\ PacketInv /\ PairInv /\ OrderInv /\ TakenInv
        /\ InOrder
    BY DEF StreamInv
  <2>2. /\ q \in Seq(Packets) /\ net' \in Seq(Packets) /\ Range(q) \subseteq Waiting
        /\ UNCHANGED <<scene, snd>> /\ budget'.idle = budget.idle
    BY DEF ReadTo
  <2>3. tevQ' \in Seq(Packets) /\ reported \in Seq(Nat)
    BY <2>1 DEF ToneTypes
  <2>4. \A i \in 1..Len(q) : q[i] \in Range(q)
    BY <2>2 DEF Range
  <2>. QED  BY <2>1, <2>2, <2>3, <2>4
<1>2. Sent' = Sent /\ Begun' = Begun /\ Ended' = Ended /\ Lag' = Lag /\ Left' = Left
      /\ skip' = skip /\ quiet' = quiet /\ pressed' = pressed
  BY <1>1 DEF snd, tone, clock, Sent, Place, Begun, Ended, Lag, Left
<1>3. LagInv' /\ CountInv'
  <2>1. LagInv'
    BY <1>1, <1>2 DEF LagInv
  <2>2. /\ skip  => Left \in 1..MaxDuration /\ Sent + Left + 1 =< NumbersOfPress * pressed
        /\ ~skip => Sent =< quiet + NumbersOfPress * Ended
    BY <1>1 DEF CountInv
  <2>3. /\ skip'  => Left' \in 1..MaxDuration /\ Sent' + Left' + 1 =< NumbersOfPress * pressed'
        /\ ~skip' => Sent' =< quiet' + NumbersOfPress * Ended'
    <3>1. CASE skip
      <4>1. skip'
        BY <1>2, <3>1
      <4>. QED  BY <1>2, <2>2, <3>1, <4>1
    <3>2. CASE ~skip
      <4>1. ~skip'
        BY <1>2, <3>2
      <4>. QED  BY <1>2, <2>2, <3>2, <4>1
    <3>. QED  BY <3>1, <3>2
  <2>. QED  BY <2>1, <2>3, Zenon DEF CountInv
<1>4. Waiting \subseteq Packets /\ \A p \in Packets : No(p) \in Nat /\ p.id \in Nat
  <2>1. net \in Seq(Packets) /\ tevQ \in Seq(Packets)
    BY <1>1 DEF ToneTypes
  <2>2. Waiting \subseteq Packets
    BY <2>1 DEF Waiting, Range
  <2>. QED  BY <2>2, NoType
<1>5. Sent \in Nat /\ Ended \in Int
  BY <1>1, NoType
<1>6. /\ Len(tevQ') =< Len(q)
      /\ \A i \in 1..Len(tevQ') : tevQ'[i] = q[i + 1] /\ i + 1 \in 1..Len(q)
  <2>1. CASE q = <<>>
    BY <1>1, <2>1 DEF TakeOut
  <2>2. CASE q # <<>>
    <3>1. tevQ' = Tail(q)
      BY <2>2 DEF TakeOut
    <3>. QED  BY <1>1, <2>2, <3>1
  <2>. QED  BY <2>1, <2>2
<1>7. Waiting' \subseteq Waiting
  <2>1. Range(net') \subseteq Waiting
    BY DEF ReadTo
  <2>2. \A i \in 1..Len(tevQ') : tevQ'[i] \in Waiting
    BY <1>1, <1>6
  <2>3. Range(tevQ') \subseteq Waiting
    BY <1>1, <2>2 DEF Range
  <2>4. Waiting' = Range(net') \cup Range(tevQ')
    BY DEF Waiting, Range
  <2>. QED  BY <2>1, <2>3, <2>4
<1>8. PacketInv' /\ PairInv'
  BY <1>1, <1>2, <1>7 DEF PacketInv, PairInv, No, Place
<1>9. OrderInv'
  <2>1. DOMAIN net' = 1..Len(net') /\ DOMAIN tevQ' = 1..Len(tevQ')
    BY <1>1
  <2>2. \A i, j \in 1..Len(net') : i < j => No(net'[i]) =< No(net'[j])
    BY DEF ReadTo
  <2>3. ASSUME NEW i \in 1..Len(tevQ'), NEW j \in 1..Len(tevQ'), i < j
        PROVE  No(tevQ'[i]) < No(tevQ'[j])
    <3>1. i + 1 \in 1..Len(q) /\ j + 1 \in 1..Len(q) /\ i + 1 < j + 1
      BY <1>6, <2>3
    <3>. QED  BY <1>6, <3>1 DEF ReadTo
  <2>4. ASSUME NEW i \in 1..Len(tevQ'), NEW j \in 1..Len(net')
        PROVE  No(tevQ'[i]) =< No(net'[j])
    BY <1>6 DEF ReadTo
  <2>. QED  BY <2>1, <2>2, <2>3, <2>4 DEF OrderInv, No, Place
<1>10. PICK e \in -1..SeqSpace : TakenAt(e)
  BY <1>1 DEF TakenInv
<1>11. e \in Int /\ e < Sent
       /\ \A p \in Waiting : /\ e =< No(p)
                             /\ Old(p) => /\ No(p) = e /\ curTev # <<>>
                                          /\ curTev[1].ts = p.ts /\ curTev[1].end
  BY <1>10, ToneConstants DEF TakenAt
<1>12. reported # <<>> => Last(reported) =< Ended /\ Last(reported) \in Nat
  BY <1>1 DEF TakenInv, Last
<1>13. CASE q = <<>>
  <2>1. UNCHANGED <<curTev, reported>>
    BY <1>13 DEF TakeOut
  <2>2. TakenAt(e)'
    BY <1>2, <1>7, <1>11, <2>1 DEF TakenAt, Old, No, Place
  <2>3. TakenInv'
    BY <1>2, <1>12, <2>1, <2>2 DEF TakenInv
  <2>4. InOrder'
    BY <1>1, <2>1 DEF InOrder
  <2>. QED  BY <1>3, <1>8, <1>9, <2>3, <2>4 DEF StreamInv
<1>14. CASE q # <<>>
  <2>. DEFINE m     == Head(q)
              other == m.mark \/ curTev = <<>> \/ curTev[1].ts # m.ts
              new   == m.end /\ (other \/ ~curTev[1].end)
  <2>1. /\ curTev' = (IF other THEN <<m>>
                      ELSE IF new THEN <<[curTev[1] EXCEPT !.end = TRUE]>> ELSE curTev)
        /\ reported' = (IF new THEN Append(reported, m.id) ELSE reported)
    BY <1>14 DEF TakeOut, Check
  <2>2. m = q[1] /\ 1 \in 1..Len(q) /\ m \in Waiting /\ m \in Packets
    <3>1. m = q[1] /\ 1 \in 1..Len(q)
      BY <1>1, <1>14
    <3>. QED  BY <1>1, <1>4, <3>1
  <2>. HIDE DEF m
  <2>3. No(m) \in Nat /\ m.id \in Nat /\ No(m) < Sent /\ e =< No(m)
        /\ (m.end => m.id =< Ended /\ ~m.mark)
    BY <1>1, <1>4, <1>11, <2>2 DEF PacketInv
  <2>4. ASSUME NEW p \in Waiting'  PROVE No(m) =< No(p)
    <3>1. p \in Range(net') \/ p \in Range(tevQ')
      BY DEF Waiting, Range
    <3>2. CASE p \in Range(net')
      <4>1. PICK j \in 1..Len(net') : p = net'[j]
        BY <1>1, <3>2 DEF Range
      <4>. QED  BY <2>2, <4>1 DEF ReadTo
    <3>3. CASE p \in Range(tevQ')
      <4>1. PICK j \in 1..Len(tevQ') : p = tevQ'[j]
        BY <1>1, <3>3 DEF Range
      <4>2. p = q[j + 1] /\ j + 1 \in 1..Len(q) /\ 1 < j + 1
        BY <1>6, <4>1
      <4>3. No(q[1]) < No(q[j + 1])
        BY <2>2, <4>2 DEF ReadTo
      <4>. QED  BY <1>4, <1>7, <2>2, <2>3, <4>2, <4>3
    <3>. QED  BY <3>1, <3>2, <3>3
  <2>5. \A p \in Waiting' : No(m) = No(p) => p = m
    BY <1>1, <1>7, <2>2 DEF PairInv
  <2>6. \A p \in Waiting' : No(m) < No(p) => (m.end => m.id < p.id)
    BY <1>1, <1>7, <2>2 DEF PairInv
  <2>7. new => ~Old(m)
    BY <1>11, <2>2, <2>3
  <2>8. new => m.end /\ (reported = <<>> \/ Last(reported) < m.id)
    BY <1>12, <2>3, <2>7 DEF Old
  <2>9. curTev' # <<>> /\ (new => curTev'[1].end /\ curTev'[1].ts = m.ts)
    <3>1. CASE other
      BY <2>1, <3>1
    <3>2. CASE ~other /\ new
      <4>1. curTev # <<>> /\ curTev[1].ts = m.ts
        BY <3>2
      <4>2. PICK c \in Packets : curTev = <<c>>
        BY <1>1, <4>1 DEF ToneTypes
      <4>3. curTev' = <<[c EXCEPT !.end = TRUE]>>
        BY <2>1, <3>2, <4>2
      <4>4. [c EXCEPT !.end = TRUE].end /\ [c EXCEPT !.end = TRUE].ts = c.ts
        BY DEF Packets
      <4>. QED  BY <4>1, <4>2, <4>3, <4>4
    <3>3. CASE ~other /\ ~new
      BY <2>1, <3>3
    <3>. QED  BY <3>1, <3>2, <3>3
  <2>10. CASE new
    <3>1. reported' = Append(reported, m.id) /\ m.end
      BY <2>1, <2>10
    <3>2. /\ Len(reported') = Len(reported) + 1 /\ reported' # <<>>
          /\ Last(reported') = m.id /\ reported'[Len(reported) + 1] = m.id
          /\ \A i \in 1..Len(reported) : reported'[i] = reported[i]
      BY <1>1, <2>3, <3>1 DEF Last
    <3>3. InOrder'
      <4>1. ASSUME NEW i \in 1..Len(reported') - 1  PROVE reported'[i] < reported'[i + 1]
        <5>1. i \in 1..Len(reported) /\ reported'[i] = reported[i]
          BY <1>1, <3>2
        <5>2. CASE i = Len(reported)
          <6>1. reported # <<>> /\ Last(reported) = reported[i]
            BY <1>1, <5>1, <5>2 DEF Last
          <6>. QED  BY <2>8, <2>10, <3>2, <5>1, <5>2, <6>1
        <5>3. CASE i # Len(reported)
          <6>1. i \in 1..Len(reported) - 1 /\ i + 1 \in 1..Len(reported)
            BY <1>1, <5>1, <5>3
          <6>2. reported[i] < reported[i + 1]
            BY <1>1, <6>1 DEF InOrder
          <6>. QED  BY <3>2, <5>1, <6>1, <6>2
        <5>. QED  BY <5>2, <5>3
      <4>. QED  BY <4>1 DEF InOrder
    <3>4. ASSUME NEW p \in Waiting', Old(p)'
          PROVE  /\ No(p) = No(m) /\ curTev'[1].ts = p.ts /\ curTev'[1].end
      <4>1. p.end /\ p.id =< m.id
        BY <3>2, <3>4 DEF Old
      <4>2. No(p) \in Nat /\ p.id \in Nat /\ No(m) =< No(p)
        BY <1>4, <1>7, <2>4
      <4>3. No(p) = No(m)
        BY <2>3, <2>6, <3>1, <4>1, <4>2
      <4>4. p = m
        BY <2>5, <4>3
      <4>. QED  BY <2>9, <2>10, <4>4
    <3>5. TakenAt(No(m))'
      BY <1>2, <2>3, <2>4, <2>9, <3>4 DEF TakenAt, No, Place
    <3>6. TakenInv'
      <4>1. No(m) \in -1..SeqSpace
        BY <1>1, <2>3, SentBound, ToneConstants
      <4>2. Last(reported') =< Ended'
        BY <1>2, <2>3, <3>1, <3>2
      <4>3. \E x \in -1..SeqSpace : TakenAt(x)'
        BY <3>5, <4>1 DEF No, Place
      <4>. QED  BY <4>2, <4>3 DEF TakenInv
    <3>. QED  BY <1>3, <1>8, <1>9, <3>3, <3>6 DEF StreamInv
  <2>11. CASE ~new
    <3>1. reported' = reported
      BY <2>1, <2>11
    <3>2. InOrder'
      BY <1>1, <3>1 DEF InOrder
    <3>3. ASSUME NEW p \in Waiting', Old(p)'
          PROVE  /\ No(p) = No(m) /\ curTev'[1].ts = p.ts /\ curTev'[1].end
      <4>1. Old(p) /\ p \in Waiting
        BY <1>7, <3>1, <3>3 DEF Old
      <4>2. No(p) = e /\ curTev # <<>> /\ curTev[1].ts = p.ts /\ curTev[1].end
        BY <1>11, <4>1
      <4>3. No(m) = No(p)
        BY <1>11, <2>3, <2>4, <4>2
      <4>4. p = m
        BY <2>5, <4>3
      <4>5. ~other
        BY <2>3, <4>1, <4>2, <4>4 DEF Old
      <4>6. curTev' = curTev
        BY <2>1, <2>11, <4>5
      <4>. QED  BY <4>2, <4>3, <4>6
    <3>5. TakenAt(No(m))'
      BY <1>2, <2>3, <2>4, <2>9, <3>3 DEF TakenAt, No, Place
    <3>6. TakenInv'
      <4>1. No(m) \in -1..SeqSpace
        BY <1>1, <2>3, SentBound, ToneConstants
      <4>3. \E x \in -1..SeqSpace : TakenAt(x)'
        BY <3>5, <4>1 DEF No, Place
      <4>. QED  BY <1>2, <1>12, <3>1, <4>3 DEF TakenInv
    <3>. QED  BY <1>3, <1>8, <1>9, <3>2, <3>6 DEF StreamInv
  <2>. QED  BY <2>10, <2>11
<1>. QED  BY <1>13, <1>14
-----------------------------------------------------------------------------
(***************************************************************************)
(* Every key is reported at most once, and in the order of the keys.       *)
(***************************************************************************)
LEMMA StreamStart == Init => StreamInv
<1>. SUFFICES ASSUME Init PROVE StreamInv
  OBVIOUS
<1>1. ToneTypes /\ SenderInv
  BY TypesStart
<1>2. /\ quiet = 0 /\ time = TsSpace - 2 /\ lastSent = <<>> /\ lastNet = 0
      /\ dtmf = <<>> /\ skip = FALSE /\ sndSeq = SeqSpace - 2 /\ pressed = 0
      /\ net = <<>> /\ tevQ = <<>> /\ curTev = <<>> /\ reported = <<>>
      /\ budget \in Budgets
  BY DEF Init
<1>3. Sent = 0
  <2>1. (SeqSpace - 2) + 2 = SeqSpace * 1 + 0 /\ 0 \in 0..SeqSpace - 1
    BY ToneConstants
  <2>. DEFINE S == SeqSpace
  <2>2. S \in Nat \ {0}
    BY ToneConstants
  <2>3. (S * 1 + 0) % S = 0
    <3>1. 0 \in 0..S - 1
      BY <2>1
    <3>. HIDE DEF S
    <3>. QED  BY <2>2, <3>1, ModUnique
  <2>. QED  BY <1>2, <2>1, <2>3 DEF Sent, Place
<1>4. LagInv
  <2>1. Lag = 0
    BY <1>2 DEF Lag
  <2>2. 2 * (budget.idle + MaxDuration) < TsSpace
    BY <1>2, StreamAssumption DEF StreamAssumption
  <2>3. budget.idle \in Nat /\ MaxDuration \in Nat
    BY <1>1, Longest DEF ToneTypes
  <2>. QED  BY <2>1, <2>2, <2>3 DEF LagInv
<1>5. CountInv
  <2>1. Ended = 0 /\ NumbersOfPress * 0 = 0
    BY <1>2, Longest DEF Ended
  <2>. QED  BY <1>2, <1>3, <2>1 DEF CountInv
<1>6. Waiting = {}
  BY <1>2 DEF Waiting, Range
<1>7. PacketInv /\ PairInv
  BY <1>6 DEF PacketInv, PairInv
<1>8. OrderInv
  BY <1>2 DEF OrderInv
<1>9. TakenInv
  <2>1. TakenAt(-1)
    BY <1>3, <1>6 DEF TakenAt
  <2>2. -1 \in -1..SeqSpace
    BY ToneConstants
  <2>. QED  BY <1>2, <2>1, <2>2 DEF TakenInv
<1>10. InOrder
  BY <1>2 DEF InOrder
<1>. QED  BY <1>1, <1>4, <1>5, <1>7, <1>8, <1>9, <1>10 DEF StreamInv

\* A step that sends, or only changes what the sender has.
LEMMA SenderStep ==
  ASSUME StreamInv, ToneTypes', SenderInv', LagInv', CountInv',
         NEW tevs \in Seq(Packets), Arrives(tevs), Fresh(tevs), UNCHANGED rcv
  PROVE  StreamInv'
<1>1. PacketInv' /\ PairInv' /\ OrderInv' /\ TakenInv'
  BY SentStep DEF StreamInv
<1>2. InOrder'
  BY DEF StreamInv, InOrder, rcv
<1>. QED  BY <1>1, <1>2 DEF StreamInv

LEMMA NothingSent ==
  ASSUME StreamInv, ToneTypes', SenderInv', LagInv', CountInv',
         Sent' = Sent, Begun =< Begun', Ended =< Ended', UNCHANGED <<rcv, net>>
  PROVE  StreamInv'
<1>. DEFINE none == <<>>
<1>1. none \in Seq(Packets) /\ 1..Len(none) = {}
  OBVIOUS
<1>2. Arrives(none)
  <2>1. net \in Seq(Packets)
    BY DEF StreamInv, ToneTypes
  <2>. DEFINE f == [i \in 1..0 |-> 0]
  <2>2. f \in Increasing(0, 0) /\ 0 \in 0..Len(none) /\ Len(none) = 0
    BY DEF Increasing
  <2>3. net \o [i \in 1..0 |-> none[f[i]]] = net
    <3>1. [i \in 1..0 |-> none[f[i]]] = <<>>
      OBVIOUS
    <3>. QED  BY <2>1, <3>1
  <2>. HIDE DEF f, none
  <2>4. net' = net \o [i \in 1..0 |-> none[f[i]]]
    BY <2>3
  <2>. QED  BY <2>2, <2>4 DEF Arrives
<1>3. Fresh(none)
  <2>1. Sent =< Sent'
    BY NoType DEF StreamInv
  <2>. QED  BY <1>1, <2>1 DEF Fresh
<1>. HIDE DEF none
<1>. QED  BY <1>1, <1>2, <1>3, SenderStep

LEMMA StreamStep == StreamInv /\ scene.ordered /\ [Next]_vars => StreamInv'
<1>. SUFFICES ASSUME StreamInv, scene.ordered, [Next]_vars PROVE StreamInv'
  OBVIOUS
<1>1. ToneTypes /\ SenderInv /\ LagInv /\ CountInv /\ PacketInv /\ PairInv /\ OrderInv
  BY DEF StreamInv
<1>2. ToneTypes' /\ SenderInv'
  BY <1>1, TypesStep
<1>3. ASSUME NEW k \in GoodKeys \cup BadKeys, Press(k)  PROVE StreamInv'
  <2>1. CountInv' /\ LagInv' /\ Sent' = Sent /\ Begun =< Begun' /\ Ended =< Ended'
    BY <1>1, <1>3, PressCounts
  <2>2. UNCHANGED <<rcv, net>>
    BY <1>3 DEF Press
  <2>. QED  BY <1>2, <2>1, <2>2, NothingSent
<1>4. ASSUME UNCHANGED <<dtmf, skip, skipUntil, quiet, lastNet, sndSeq, pressed, rcv, net>>,
             LagInv'
      PROVE  StreamInv'
  <2>1. Sent' = Sent /\ Begun' = Begun /\ Ended' = Ended /\ Left' = Left
    BY <1>4 DEF Sent, Place, Begun, Ended, Left
  <2>2. Begun =< Begun' /\ Ended =< Ended'
    BY <1>1, <2>1, NoType
  <2>3. CountInv'
    BY <1>1, <1>4, <2>1 DEF CountInv
  <2>. QED  BY <1>2, <1>4, <2>1, <2>2, <2>3, NothingSent
<1>5. ASSUME NEW b \in BOOLEAN, Mute(b)  PROVE StreamInv'
  <2>1. budget' = [budget EXCEPT !.change = @ - 1]
        /\ UNCHANGED <<tone, clock, sndSeq, pressed, rcv, net>>
    BY <1>5 DEF Mute
  <2>2. LagInv'
    BY <1>1, <2>1 DEF LagInv, Lag, clock, ToneTypes
  <2>. QED  BY <1>4, <2>1, <2>2 DEF tone, clock
<1>6. ASSUME NEW n \in Durations, SetDuration(n)  PROVE StreamInv'
  <2>1. budget' = [budget EXCEPT !.change = @ - 1]
        /\ UNCHANGED <<tone, clock, sndSeq, pressed, rcv, net>>
    BY <1>6 DEF SetDuration
  <2>2. LagInv'
    BY <1>1, <2>1 DEF LagInv, Lag, clock, ToneTypes
  <2>. QED  BY <1>4, <2>1, <2>2 DEF tone, clock
<1>7. CASE SendDtmf2
  <2>1. PICK a \in Packets, b \in Packets, c \in Packets : DirectWith(a, b, c)
    BY <1>1, <1>7, DirectStep
  <2>. DEFINE w == <<a, b, c, c, c>>
  <2>2. LagInv' /\ CountInv'
    BY <1>1, <2>1, DirectCounts
  <2>3. w \in Seq(Packets) /\ Arrives(w) /\ UNCHANGED rcv
    BY <2>1 DEF DirectWith
  <2>4. Fresh(w)
    BY <1>1, <2>1, DirectFresh
  <2>. HIDE DEF w
  <2>. QED  BY <1>2, <2>2, <2>3, <2>4, SenderStep
<1>8. CASE TickWithoutFrame
  <2>1. LagInv'
    BY <1>1, <1>8, TickCounts
  <2>2. UNCHANGED <<tone, lastNet, sndSeq, pressed, rcv, net>>
    BY <1>8 DEF TickWithoutFrame
  <2>. QED  BY <1>4, <2>1, <2>2 DEF tone
<1>9. CASE Frame
  <2>1. PICK d \in Durations, tevs \in Seq(Packets), talk \in BOOLEAN : FrameWith(d, tevs, talk)
    BY <1>1, <1>9, FrameStep
  <2>2. LagInv' /\ CountInv'
    BY <1>1, <2>1, FrameCounts
  <2>3. Arrives(tevs) /\ UNCHANGED rcv
    BY <2>1 DEF FrameWith
  <2>4. Fresh(tevs)
    BY <1>1, <2>1, FrameFresh
  <2>. QED  BY <1>2, <2>2, <2>3, <2>4, SenderStep
<1>10. CASE Recv
  <2>1. PICK q : ReadTo(q) /\ TakeOut(q)
    BY <1>1, <1>10, ReadInOrder
  <2>. QED  BY <1>2, <2>1, TakenStep
<1>11. CASE RecvAgain
  <2>1. ReadTo(tevQ) /\ TakeOut(tevQ)
    BY <1>1, <1>11, AgainInOrder
  <2>. QED  BY <1>2, <2>1, TakenStep
<1>12. CASE Overtaken
  BY <1>12 DEF Overtaken
<1>13. CASE UNCHANGED vars
  <2>1. LagInv'
    BY <1>1, <1>13 DEF LagInv, Lag, vars, snd, clock
  <2>. QED  BY <1>4, <1>13, <2>1 DEF vars, snd, tone, clock
<1>. QED  BY <1>3, <1>5, <1>6, <1>7, <1>8, <1>9, <1>10, <1>11, <1>12, <1>13 DEF Next

\* A network does not begin or cease to keep the order.
LEMMA SceneStays == [Next]_vars => scene' = scene
  BY DEF Next, vars, Press, Mute, SetDuration, SendDtmf2, TickWithoutFrame, Frame, Overtaken,
         Recv, RecvAgain

\* For any number of keys, any durations and any network that loses and
\* duplicates packets but keeps their order from one reading of the socket to
\* the next: the application hears of every key at most once, and in the order
\* of the keys (KeysReportedOnce).
THEOREM EveryKeyOnce == Spec => []KeysReportedOnce
<1>. DEFINE I == scene.ordered => StreamInv
<1>1. Init => I
  BY StreamStart
<1>2. I /\ [Next]_vars => I'
  BY StreamStep, SceneStays
<1>3. I => KeysReportedOnce
  BY DEF StreamInv, KeysReportedOnce
<1>. QED  BY <1>1, <1>2, <1>3, PTL DEF Spec
=============================================================================
