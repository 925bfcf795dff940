------------------------- MODULE RtpSchedulerProofs -------------------------
(***************************************************************************)
(* What RtpScheduler guarantees for any number of sessions and threads:    *)
(* its types, that no sleeping thread is forgotten, that a blocking call   *)
(* wakes up on time and that select reports the events and no other.  And  *)
(* what SchedRegistry guarantees for any number of sessions and of places. *)
(***************************************************************************)
EXTENDS RtpScheduler, SchedRegistry, WellFoundedInduction, SequenceTheorems, TLAPS

USE SchedAssumption DEF SchedAssumption

LEMMA PointsNonEmpty == AnyPoint \in Points /\ AnyPoint[1] \in Sessions
<1>1. List[1] \in Sessions
  BY SMT DEF Sessions
<1>2. <<List[1], "rcv">> \in Points
  BY <1>1 DEF Points, Dirs
<1>3. AnyPoint \in Points
  BY <1>2 DEF AnyPoint
<1>. QED  BY <1>3 DEF Points

LEMMA RoundType == Round \in Seq(Points)
<1>1. Len(List) \in Nat
  OBVIOUS
<1>2. ASSUME NEW i \in 1..2 * Len(List)
      PROVE  (i + 1) \div 2 \in 1..Len(List)
  BY <1>1, Z3
<1>3. ASSUME NEW i \in 1..2 * Len(List)
      PROVE  <<List[(i + 1) \div 2], IF i % 2 = 1 THEN "snd" ELSE "rcv">> \in Points
  <2>1. List[(i + 1) \div 2] \in Sessions
    BY <1>2
  <2>. QED  BY <2>1 DEF Points, Dirs
<1>4. Round \in [1..2 * Len(List) -> Points]
  BY <1>3, Zenon DEF Round
<1>. DEFINE m == 2 * Len(List)
<1>5. m \in Nat /\ Round \in [1..m -> Points]
  BY <1>1, <1>4
<1>. HIDE DEF m
<1>. QED  BY <1>5

LEMMA TimeStep == \A x \in Int : x % TimeSpace \in Times
  BY DEF Times

LEMMA WriteWordType ==
  ASSUME NEW d \in Dirs, NEW w, NEW v \in SUBSET Sessions,
         mask \in [Dirs -> SUBSET Sessions]
  PROVE  WriteWord(d, w, v) \in [Dirs -> SUBSET Sessions]
  BY DEF WriteWord, InWord

LEMMA UpdateType ==
  ASSUME NEW S, NEW T, NEW f \in [S -> T], NEW x, NEW v \in T
  PROVE  [f EXCEPT ![x] = v] \in [S -> T]
  OBVIOUS

LEMMA DisarmType ==
  ASSUME NEW p \in Points, wp \in [Points -> [time : Times, wakeup : BOOLEAN]]
  PROVE  [wp EXCEPT ![p].wakeup = FALSE] \in [Points -> [time : Times, wakeup : BOOLEAN]]
<1>1. [wp[p] EXCEPT !.wakeup = FALSE] \in [time : Times, wakeup : BOOLEAN]
  OBVIOUS
<1>. QED  BY <1>1

\* A step is one of the scheduler or of one thread.
LEMMA NextIsOne == SystemNext => SchedNext \/ \E a \in Apps : AppNext(a)
  BY DEF SystemNext, AppNext

\* Every variable keeps its type.
THEOREM TypeCorrect == SystemSpec => []TypeOK
<1>1. SystemInit => TypeOK
  <2>. SUFFICES ASSUME SystemInit PROVE TypeOK
    OBVIOUS
  <2>1. 0 \in Times
    BY DEF Times
  <2>2. WordOf[AnyPoint[1]] \in Words
    BY PointsNonEmpty
  <2>3. todo \in Seq(Points)
    BY DEF SystemInit
  <2>. QED  BY <2>1, <2>2, <2>3, PointsNonEmpty DEF SystemInit, TypeOK, Dirs, AppStates, Threads
<1>2. TypeOK /\ [SystemNext]_systemVars => TypeOK'
  <2>. SUFFICES ASSUME TypeOK, [SystemNext]_systemVars PROVE TypeOK'
    OBVIOUS
  <2>1. CASE SchedLock
    BY <2>1, RoundType DEF SchedLock, TypeOK, appVars, Threads
  <2>2. CASE SchedCheck
    <3>1. Head(todo) \in Points /\ Tail(todo) \in Seq(Points)
      BY <2>2 DEF SchedCheck, TypeOK
    <3>2. ReadWord(Head(todo)[2], WordOf[Head(todo)[1]]) \subseteq Sessions
      BY DEF ReadWord, InWord
    <3>3. /\ wp' \in [Points -> [time : Times, wakeup : BOOLEAN]]
          /\ wpLock' \in [Points -> Threads \cup {NoThread}]
      <4>1. CASE wait_point_check(Head(todo))
        <5>1. wp' = [wp EXCEPT ![Head(todo)].wakeup = FALSE]
          BY <2>2, <4>1 DEF SchedCheck
        <5>2. wpLock' = [wpLock EXCEPT ![Head(todo)] = SchedThread]
          BY <2>2, <4>1 DEF SchedCheck
        <5>3. wp' \in [Points -> [time : Times, wakeup : BOOLEAN]]
          BY <3>1, <5>1, DisarmType DEF TypeOK
        <5>4. wpLock' \in [Points -> Threads \cup {NoThread}]
          BY <3>1, <5>2, UpdateType DEF TypeOK, Threads
        <5>. QED  BY <5>3, <5>4
      <4>2. CASE ~wait_point_check(Head(todo))
        BY <2>2, <4>2 DEF SchedCheck, TypeOK
      <4>. QED  BY <4>1, <4>2
    <3>4. /\ spc' \in {"lock", "process", "set", "timer"}
          /\ scur' \in Points /\ stmp' \subseteq Sessions
      BY <2>2, <3>1, <3>2 DEF SchedCheck, TypeOK
    <3>. QED  BY <2>2, <3>1, <3>3, <3>4 DEF SchedCheck, TypeOK, appVars
  <2>3. CASE SchedSet
    <3>1. scur[1] \in Sessions /\ scur[2] \in Dirs
      BY DEF TypeOK, Points
    <3>2. mask' \in [Dirs -> SUBSET Sessions]
      BY <2>3, <3>1, WriteWordType DEF SchedSet, TypeOK
    <3>3. pc' \in [Apps -> AppStates]
      <4>1. CASE pc' = pc
        BY <4>1 DEF TypeOK
      <4>2. ASSUME NEW a \in Apps, pc' = [pc EXCEPT ![a] = "woken"] PROVE pc' \in [Apps -> AppStates]
        BY <4>2 DEF AppStates, TypeOK
      <4>. QED  BY <2>3, <4>1, <4>2 DEF SchedSet, Sleeping
    <3>. QED  BY <2>3, <3>2, <3>3 DEF SchedSet, TypeOK
  <2>4. CASE SchedBroadcast
    <3>1. pc' \in [Apps -> AppStates]
      BY <2>4 DEF SchedBroadcast, TypeOK, AppStates
    <3>. QED  BY <2>4, <3>1 DEF SchedBroadcast, TypeOK
  <2>5. CASE SchedTimer
    <3>1. time + 1 \in Int
      BY DEF TypeOK, Times
    <3>2. time' \in Times
      BY <2>5, <3>1, TimeStep DEF SchedTimer
    <3>. QED  BY <2>5, <3>2 DEF SchedTimer, TypeOK, appVars
  <2>6. ASSUME NEW a \in Apps, Call(a) PROVE TypeOK'
    <3>. PICK p \in ready[a] : Call(a)!(p)
      BY <2>6 DEF Call
    <3>1. p \in Points
      BY DEF TypeOK
    <3>2. PacketTime(p) \in Times
      BY <3>1 DEF PacketTime, TypeOK
    <3>3. (PacketTime(p) + Period) % TimeSpace \in Times
      <4>1. PacketTime(p) + Period \in Int
        BY <3>2 DEF Times
      <4>. QED  BY <4>1, TimeStep
    <3>4. /\ wp' \in [Points -> [time : Times, wakeup : BOOLEAN]]
          /\ wpLock' \in [Points -> Threads \cup {NoThread}]
          /\ pc' \in [Apps -> AppStates]
      <4>1. CASE TimeIsStrictlyNewer(PacketTime(p), time)
        <5>1. wp' = [wp EXCEPT ![p] = [time |-> PacketTime(p), wakeup |-> TRUE]]
          BY <4>1
        <5>2. wp' \in [Points -> [time : Times, wakeup : BOOLEAN]]
          BY <3>1, <3>2, <5>1 DEF TypeOK
        <5>3. CASE p[1] \in Blocking
          <6>1. wpLock' = wpLock /\ pc' = [pc EXCEPT ![a] = "sleep"]
            BY <4>1, <5>3
          <6>2. pc' \in [Apps -> AppStates]
            BY <6>1, UpdateType DEF TypeOK, AppStates
          <6>. QED  BY <5>2, <6>1, <6>2 DEF TypeOK
        <5>4. CASE p[1] \notin Blocking
          <6>1. wpLock' = [wpLock EXCEPT ![p] = a] /\ pc' = [pc EXCEPT ![a] = "clr"]
            BY <4>1, <5>4
          <6>2. pc' \in [Apps -> AppStates]
            BY <6>1, UpdateType DEF TypeOK, AppStates
          <6>3. wpLock' \in [Points -> Threads \cup {NoThread}]
            BY <6>1, UpdateType DEF TypeOK, Threads
          <6>. QED  BY <5>2, <6>2, <6>3
        <5>. QED  BY <5>3, <5>4
      <4>2. CASE ~TimeIsStrictlyNewer(PacketTime(p), time)
        <5>1. /\ wpLock' = [wpLock EXCEPT ![p] = a]
              /\ pc' = [pc EXCEPT ![a] = "set"]
              /\ wp' = wp
          BY <4>2
        <5>2. pc' \in [Apps -> AppStates]
          BY <5>1, UpdateType DEF TypeOK, AppStates
        <5>3. wpLock' \in [Points -> Threads \cup {NoThread}]
          BY <5>1, UpdateType DEF TypeOK, Threads
        <5>. QED  BY <5>1, <5>2, <5>3 DEF TypeOK
      <4>. QED  BY <4>1, <4>2
    <3>5. due' \in [Points -> Times] /\ started' \subseteq Points
      BY <3>1, <3>3 DEF TypeOK
    <3>6. cur' \in [Apps -> Points] /\ ready' \in [Apps -> SUBSET Points]
      BY <3>1 DEF TypeOK
    <3>. QED  BY <3>4, <3>5, <3>6 DEF TypeOK, schedVars
  <2>7. ASSUME NEW a \in Apps, Awake(a) PROVE TypeOK'
    BY <2>7 DEF Awake, TypeOK, schedVars, Threads, AppStates
  <2>8. ASSUME NEW a \in Apps, ReadMask(a) PROVE TypeOK'
    <3>1. ReadWord(cur[a][2], WordOf[cur[a][1]]) \subseteq Sessions
      BY DEF ReadWord, InWord
    <3>. QED  BY <2>8, <3>1 DEF ReadMask, TypeOK, schedVars, AppStates
  <2>9. ASSUME NEW a \in Apps, WriteMask(a) PROVE TypeOK'
    <3>1. cur[a][1] \in Sessions /\ cur[a][2] \in Dirs
      BY DEF TypeOK, Points
    <3>2. NewWord(a) \in SUBSET Sessions
      BY <3>1 DEF NewWord, TypeOK
    <3>3. mask' = WriteWord(cur[a][2], WordOf[cur[a][1]], NewWord(a))
      BY <2>9 DEF WriteMask
    <3>4. mask' \in [Dirs -> SUBSET Sessions]
      BY <3>1, <3>2, <3>3, WriteWordType DEF TypeOK
    <3>. QED  BY <2>9, <3>4 DEF WriteMask, TypeOK, schedVars, AppStates
  <2>10. ASSUME NEW a \in Apps, Again(a) PROVE TypeOK'
    BY <2>10 DEF Again, TypeOK, schedVars
  <2>11. ASSUME NEW a \in Apps, SelLock(a) PROVE TypeOK'
    <3>1. {p[2] : p \in Uses[a]} \X Words \subseteq Dirs \X Words
      BY DEF Points
    <3>. QED  BY <2>11, <3>1 DEF SelLock, TypeOK, schedVars, Threads, AppStates
  <2>12. ASSUME NEW a \in Apps, SelRead(a) PROVE TypeOK'
    <3>. PICK dw \in words[a] : SelRead(a)!(dw)
      BY <2>12 DEF SelRead
    <3>1. dw \in Dirs \X Words
      BY DEF TypeOK
    <3>2. ReadWord(dw[1], dw[2]) \subseteq Sessions
      BY DEF ReadWord, InWord
    <3>. QED  BY <3>1, <3>2 DEF TypeOK, schedVars, AppStates
  <2>13. ASSUME NEW a \in Apps, SelWrite(a) PROVE TypeOK'
    <3>1. scan[a][1] \in Dirs
      BY DEF TypeOK
    <3>2. Hits(a) \subseteq Points
      BY DEF Hits
    <3>3. mask' \in [Dirs -> SUBSET Sessions]
      BY <2>13, <3>1, WriteWordType DEF SelWrite, TypeOK
    <3>4. pc' \in [Apps -> AppStates]
      BY <2>13 DEF SelWrite, TypeOK, AppStates
    <3>. QED  BY <2>13, <3>2, <3>3, <3>4 DEF SelWrite, TypeOK, schedVars
  <2>14. ASSUME NEW a \in Apps, SelEnd(a) PROVE TypeOK'
    <3>1. SelResult(a) \subseteq Points
      BY DEF SelResult, TypeOK
    <3>2. /\ ready' \in [Apps -> SUBSET Points] /\ pc' \in [Apps -> AppStates]
      <4>1. CASE found[a] # {}
        <5>1. /\ ready' = [ready EXCEPT ![a] = SelResult(a)]
              /\ pc' = [pc EXCEPT ![a] = "idle"]
          BY <2>14, <4>1 DEF SelEnd
        <5>. QED  BY <3>1, <5>1, UpdateType DEF TypeOK, AppStates
      <4>2. CASE found[a] = {}
        BY <2>14, <4>2 DEF SelEnd, TypeOK, AppStates
      <4>. QED  BY <4>1, <4>2
    <3>3. schedLock' \in Threads \cup {NoThread} /\ found' \in [Apps -> SUBSET Points]
      BY <2>14 DEF SelEnd, TypeOK
    <3>4. UNCHANGED <<time, mask, wp, wpLock, spc, todo, scur, stmp, cur, tmp,
                      words, scan, due, started>>
      BY <2>14 DEF SelEnd, schedVars
    <3>. QED  BY <3>2, <3>3, <3>4 DEF TypeOK
  <2>15. ASSUME NEW a \in Apps, SelTimeout(a) PROVE TypeOK'
    BY <2>15 DEF SelTimeout, TypeOK, schedVars, AppStates
  <2>16. CASE UNCHANGED systemVars
    BY <2>16 DEF systemVars, schedVars, appVars, TypeOK
  <2>. QED
    BY NextIsOne, <2>1, <2>2, <2>3, <2>4, <2>5, <2>6, <2>7, <2>8, <2>9, <2>10, <2>11,
       <2>12, <2>13, <2>14, <2>15, <2>16 DEF SchedNext, AppNext, CallNext, SelectNext
<1>. QED  BY <1>1, <1>2, PTL DEF SystemSpec
-----------------------------------------------------------------------------
(***************************************************************************)
(* No lost wakeup.  The wait point a thread sleeps on is its own, who is   *)
(* inside a call holds the lock of its wait point, and so does the         *)
(* scheduler between its check and its signal, when it is indeed time.     *)
(***************************************************************************)
InCallStates == {"clr", "set", "clrWrite", "setWrite"}

CallsAreLocked == \A a \in Apps : pc[a] \in InCallStates => wpLock[cur[a]] = a
CallsAreOwn    == \A a \in Apps : pc[a] \in InCallStates \cup {"sleep", "woken"}
                                   => cur[a] \in Uses[a]
ReadyAreOwn    == \A a \in Apps : ready[a] \subseteq Uses[a] /\ found[a] \subseteq Uses[a]
SchedSignals   == spc = "set" => /\ wpLock[scur] = SchedThread
                                 /\ TimeIsNewer(time, wp[scur].time)

WaitInv == /\ CallsAreLocked /\ CallsAreOwn /\ ReadyAreOwn
           /\ SchedSignals /\ NoLostWakeup

LEMMA WaitInit == SystemInit => WaitInv
  BY DEF SystemInit, WaitInv, CallsAreLocked, CallsAreOwn, ReadyAreOwn, SchedSignals,
         NoLostWakeup, InCallStates

LEMMA WaitSched ==
  ASSUME TypeOK, WaitInv, SchedNext
  PROVE  WaitInv'
<1>. USE DEF InCallStates
<1>1. CASE SchedLock
  BY <1>1 DEF SchedLock, appVars, WaitInv, CallsAreLocked, CallsAreOwn,
              ReadyAreOwn, SchedSignals, NoLostWakeup
<1>2. CASE SchedCheck
  <2>1. Head(todo) \in Points /\ spc = "process" /\ wpLock[Head(todo)] = NoThread
    BY <1>2 DEF SchedCheck, TypeOK
  <2>2. UNCHANGED <<time, pc, cur, ready, found>>
    BY <1>2 DEF SchedCheck, appVars
  <2>3. CASE wait_point_check(Head(todo))
    <3>1. /\ wp' = [wp EXCEPT ![Head(todo)].wakeup = FALSE]
          /\ wpLock' = [wpLock EXCEPT ![Head(todo)] = SchedThread]
          /\ scur' = Head(todo) /\ spc' = "set"
      BY <1>2, <2>3 DEF SchedCheck
    <3>2. CallsAreLocked'
      BY <2>1, <2>2, <3>1 DEF WaitInv, CallsAreLocked, TypeOK, Threads
    <3>3. wp'[scur'].time = wp[scur'].time
      BY <2>1, <3>1 DEF TypeOK
    <3>4. SchedSignals'
      BY <2>1, <2>2, <2>3, <3>1, <3>3 DEF SchedSignals, TypeOK, TimeIsNewer,
                                          wait_point_check
    <3>5. ASSUME NEW p \in Points, p # Head(todo) PROVE wp'[p] = wp[p]
      BY <3>1, <3>5 DEF TypeOK
    <3>6. NoLostWakeup'
      BY <2>1, <2>2, <3>1, <3>5 DEF WaitInv, NoLostWakeup, TypeOK
    <3>. QED  BY <2>2, <3>2, <3>4, <3>6 DEF WaitInv, CallsAreOwn, ReadyAreOwn
  <2>4. CASE ~wait_point_check(Head(todo))
    <3>1. UNCHANGED <<wp, wpLock, scur, spc>>
      BY <1>2, <2>4 DEF SchedCheck
    <3>. QED  BY <2>2, <3>1 DEF WaitInv, CallsAreLocked, CallsAreOwn,
                                ReadyAreOwn, SchedSignals, NoLostWakeup
  <2>. QED  BY <2>3, <2>4
<1>3. CASE SchedSet
  <2>1. /\ spc = "set" /\ spc' = "process"
        /\ wpLock' = [wpLock EXCEPT ![scur] = NoThread]
        /\ UNCHANGED <<wp, cur, ready, found>>
    BY <1>3 DEF SchedSet
  <2>2. wpLock[scur] = SchedThread /\ scur \in Points
    BY <2>1 DEF WaitInv, SchedSignals, TypeOK
  <2>3. PICK S \in SUBSET Apps :
          /\ \A a \in S : pc[a] = "sleep" /\ cur[a] = scur
          /\ \A a \in Apps : pc[a] = "sleep" /\ cur[a] = scur => a \in S
          /\ pc' = [a \in Apps |-> IF a \in S THEN "woken" ELSE pc[a]]
    <3>1. CASE Sleeping(scur) = {}
      <4>1. pc' = pc
        BY <1>3, <3>1 DEF SchedSet
      <4>2. pc' = [a \in Apps |-> IF a \in {} THEN "woken" ELSE pc[a]]
        BY <4>1 DEF TypeOK
      <4>. QED  BY <3>1, <4>2 DEF Sleeping
    <3>2. CASE Sleeping(scur) # {}
      <4>1. PICK a \in Sleeping(scur) : pc' = [pc EXCEPT ![a] = "woken"]
        BY <1>3, <3>2 DEF SchedSet
      <4>2. ASSUME NEW b \in Sleeping(scur) PROVE a = b
        BY <4>1 DEF Sleeping, WaitInv, CallsAreOwn
      <4>3. pc' = [b \in Apps |-> IF b \in {a} THEN "woken" ELSE pc[b]]
        BY <4>1 DEF TypeOK
      <4>. QED  BY <4>1, <4>2, <4>3 DEF Sleeping
    <3>. QED  BY <3>1, <3>2
  <2>4. CallsAreLocked'
    BY <2>1, <2>2, <2>3 DEF WaitInv, CallsAreLocked, TypeOK, Threads
  <2>5. CallsAreOwn'
    BY <2>1, <2>3 DEF WaitInv, CallsAreOwn
  <2>6. NoLostWakeup'
    BY <2>1, <2>3 DEF WaitInv, NoLostWakeup
  <2>. QED  BY <2>1, <2>4, <2>5, <2>6 DEF WaitInv, ReadyAreOwn, SchedSignals
<1>4. CASE SchedBroadcast
  BY <1>4 DEF SchedBroadcast, WaitInv, CallsAreLocked, CallsAreOwn,
              ReadyAreOwn, SchedSignals, NoLostWakeup
<1>5. CASE SchedTimer
  BY <1>5 DEF SchedTimer, appVars, WaitInv, CallsAreLocked, CallsAreOwn,
              ReadyAreOwn, SchedSignals, NoLostWakeup
<1>. QED  BY <1>1, <1>2, <1>3, <1>4, <1>5 DEF SchedNext

LEMMA WaitCall ==
  ASSUME TypeOK, WaitInv, NEW a \in Apps, Call(a)
  PROVE  WaitInv'
<1>. USE DEF InCallStates
<1>1. PICK p \in ready[a] : Call(a)!(p)
  BY DEF Call
<1>2. /\ p \in Points /\ p \in Uses[a] /\ wpLock[p] = NoThread /\ pc[a] = "idle"
      /\ cur' = [cur EXCEPT ![a] = p]
      /\ ready' = [ready EXCEPT ![a] = @ \ {p}]
      /\ UNCHANGED <<time, spc, scur, found>>
  BY <1>1 DEF TypeOK, WaitInv, ReadyAreOwn, schedVars
<1>3. \/ /\ pc' = [pc EXCEPT ![a] = "sleep"]
         /\ wpLock' = wpLock
         /\ wp' = [wp EXCEPT ![p] = [time |-> PacketTime(p), wakeup |-> TRUE]]
      \/ /\ \E l \in {"clr", "set"} : pc' = [pc EXCEPT ![a] = l]
         /\ wpLock' = [wpLock EXCEPT ![p] = a]
         /\ \/ wp' = wp
            \/ wp' = [wp EXCEPT ![p] = [time |-> PacketTime(p), wakeup |-> TRUE]]
  BY <1>1
<1>4. ASSUME NEW b \in Apps, b # a
      PROVE  /\ cur'[b] = cur[b] /\ pc'[b] = pc[b]
             /\ pc[b] \in {"sleep"} \cup InCallStates => cur[b] # p
  <2>1. cur'[b] = cur[b] /\ pc'[b] = pc[b]
    BY <1>2, <1>3, <1>4 DEF TypeOK
  <2>. QED  BY <1>2, <1>4, <2>1 DEF WaitInv, CallsAreOwn
<1>5. ASSUME NEW q \in Points, q # p PROVE wp'[q] = wp[q] /\ wpLock'[q] = wpLock[q]
  BY <1>3, <1>5 DEF TypeOK
<1>6. CallsAreLocked'
  <2>1. pc'[a] \in InCallStates => wpLock'[cur'[a]] = a
    BY <1>2, <1>3 DEF TypeOK
  <2>. QED  BY <1>4, <1>5, <2>1 DEF WaitInv, CallsAreLocked, TypeOK
<1>7. CallsAreOwn'
  BY <1>2, <1>4 DEF WaitInv, CallsAreOwn, TypeOK
<1>8. ReadyAreOwn'
  BY <1>2 DEF WaitInv, ReadyAreOwn, TypeOK
<1>9. SchedSignals'
  BY <1>2, <1>5 DEF WaitInv, SchedSignals, TypeOK, TimeIsNewer, Threads
<1>10. NoLostWakeup'
  <2>1. pc'[a] = "sleep" => wp'[cur'[a]].wakeup
    BY <1>2, <1>3 DEF TypeOK
  <2>. QED  BY <1>2, <1>4, <1>5, <2>1 DEF WaitInv, NoLostWakeup, TypeOK
<1>. QED  BY <1>6, <1>7, <1>8, <1>9, <1>10 DEF WaitInv

LEMMA WaitApp ==
  ASSUME TypeOK, WaitInv, NEW a \in Apps, AppNext(a)
  PROVE  WaitInv'
<1>. USE DEF InCallStates
<1>1. CASE Call(a)
  BY <1>1, WaitCall
<1>2. CASE Awake(a)
  <2>1. /\ wpLock[cur[a]] = NoThread /\ pc[a] \in {"sleep", "woken"}
        /\ wpLock' = [wpLock EXCEPT ![cur[a]] = a]
        /\ pc' = [pc EXCEPT ![a] = "clr"]
        /\ UNCHANGED <<time, wp, spc, scur, cur, ready, found>>
    BY <1>2 DEF Awake, schedVars
  <2>2. CallsAreLocked'
    BY <2>1 DEF WaitInv, CallsAreLocked, TypeOK, Threads
  <2>3. SchedSignals'
    BY <2>1 DEF WaitInv, SchedSignals, TypeOK, Threads, TimeIsNewer
  <2>. QED  BY <2>1, <2>2, <2>3 DEF WaitInv, CallsAreOwn, ReadyAreOwn,
                                    NoLostWakeup, TypeOK
<1>3. CASE ReadMask(a)
  BY <1>3 DEF ReadMask, schedVars, WaitInv, CallsAreLocked, CallsAreOwn,
              ReadyAreOwn, SchedSignals, NoLostWakeup, TypeOK
<1>4. CASE WriteMask(a)
  <2>1. /\ pc[a] \in {"clrWrite", "setWrite"} /\ cur[a] \in Points
        /\ wpLock' = [wpLock EXCEPT ![cur[a]] = NoThread]
        /\ pc' = [pc EXCEPT ![a] = "idle"]
        /\ UNCHANGED <<time, wp, spc, scur, cur, ready, found>>
    BY <1>4 DEF WriteMask, schedVars, TypeOK
  <2>2. wpLock[cur[a]] = a
    BY <2>1 DEF WaitInv, CallsAreLocked
  <2>3. CallsAreLocked'
    BY <2>1, <2>2 DEF WaitInv, CallsAreLocked, TypeOK
  <2>4. SchedSignals'
    BY <2>1, <2>2 DEF WaitInv, SchedSignals, TypeOK, Threads, TimeIsNewer
  <2>. QED  BY <2>1, <2>3, <2>4 DEF WaitInv, CallsAreOwn, ReadyAreOwn,
                                    NoLostWakeup, TypeOK
<1>5. CASE Again(a)
  BY <1>5 DEF Again, schedVars, WaitInv, CallsAreLocked, CallsAreOwn,
              ReadyAreOwn, SchedSignals, NoLostWakeup, TypeOK
<1>6. CASE SelLock(a)
  BY <1>6 DEF SelLock, schedVars, WaitInv, CallsAreLocked, CallsAreOwn,
              ReadyAreOwn, SchedSignals, NoLostWakeup, TypeOK
<1>7. CASE SelRead(a)
  BY <1>7 DEF SelRead, schedVars, WaitInv, CallsAreLocked, CallsAreOwn,
              ReadyAreOwn, SchedSignals, NoLostWakeup, TypeOK
<1>8. CASE SelWrite(a)
  <2>1. Hits(a) \subseteq Uses[a]
    BY DEF Hits
  <2>. QED
    BY <1>8, <2>1 DEF SelWrite, schedVars, WaitInv, CallsAreLocked, CallsAreOwn,
              ReadyAreOwn, SchedSignals, NoLostWakeup, TypeOK
<1>9. CASE SelEnd(a)
  <2>1. SelResult(a) \subseteq Uses[a]
    BY DEF SelResult, WaitInv, ReadyAreOwn
  <2>. QED
    BY <1>9, <2>1 DEF SelEnd, schedVars, WaitInv, CallsAreLocked, CallsAreOwn,
              ReadyAreOwn, SchedSignals, NoLostWakeup, TypeOK
<1>10. CASE SelTimeout(a)
  BY <1>10 DEF SelTimeout, schedVars, WaitInv, CallsAreLocked, CallsAreOwn,
               ReadyAreOwn, SchedSignals, NoLostWakeup, TypeOK
<1>. QED
  BY <1>1, <1>2, <1>3, <1>4, <1>5, <1>6, <1>7, <1>8, <1>9, <1>10 DEF AppNext, CallNext, SelectNext

LEMMA WaitInductive == SystemSpec => []WaitInv
<1>1. TypeOK /\ WaitInv /\ [SystemNext]_systemVars => WaitInv'
  <2>. SUFFICES ASSUME TypeOK, WaitInv, [SystemNext]_systemVars PROVE WaitInv'
    OBVIOUS
  <2>1. CASE UNCHANGED systemVars
    BY <2>1 DEF systemVars, schedVars, appVars, WaitInv, CallsAreLocked, CallsAreOwn,
                ReadyAreOwn, SchedSignals, NoLostWakeup
  <2>. QED  BY NextIsOne, <2>1, WaitSched, WaitApp
<1>. QED  BY <1>1, WaitInit, TypeCorrect, PTL DEF SystemSpec

\* Nobody sleeps in wait_point_wakeup_at on a wait point the scheduler will
\* not signal, whatever the number of sessions and threads.
THEOREM WakeupsAreNotLost == SystemSpec => []NoLostWakeup
<1>1. WaitInv => NoLostWakeup
  BY DEF WaitInv
<1>. QED  BY <1>1, WaitInductive, PTL

\* Without spurious returns of pthread_cond_wait a blocking call returns when
\* the time of its packet has come (rtp_session_process signals only then).
THEOREM BlockingCallsWakeOnTime ==
  ASSUME Spurious = FALSE
  PROVE  SystemSpec => WakesOnTime
<1> DEFINE OnTime == \A a \in Apps : pc[a] = "sleep" /\ pc'[a] # "sleep" =>
                       TimeIsNewer(time, wp[cur[a]].time)
<1>1. TypeOK /\ WaitInv /\ [SystemNext]_systemVars => [OnTime]_systemVars
  <2>. SUFFICES ASSUME TypeOK, WaitInv, SystemNext, NEW a \in Apps,
                       pc[a] = "sleep", pc'[a] # "sleep"
                PROVE  TimeIsNewer(time, wp[cur[a]].time)
    OBVIOUS
  <2>1. ASSUME NEW b \in Apps, AppNext(b) PROVE FALSE
    <3>1. \E l \in AppStates : pc' = [pc EXCEPT ![b] = l] /\ pc[b] # "sleep"
      BY <2>1 DEF AppNext, CallNext, SelectNext, Call, Awake, ReadMask, WriteMask, Again, SelLock,
                  SelRead, SelWrite, SelEnd, SelTimeout, AppStates, TypeOK
    <3>. QED  BY <3>1 DEF TypeOK
  <2>2. CASE SchedSet
    <3>1. cur[a] = scur
      BY <2>2 DEF SchedSet, Sleeping, TypeOK
    <3>. QED  BY <2>2, <3>1 DEF SchedSet, WaitInv, SchedSignals
  <2>3. CASE SchedNext /\ ~SchedSet
    BY <2>3 DEF SchedNext, SchedLock, SchedCheck, SchedBroadcast, SchedTimer,
                appVars
  <2>. QED  BY NextIsOne, <2>1, <2>2, <2>3
<1>. QED  BY <1>1, WaitInductive, TypeCorrect, PTL DEF SystemSpec, WakesOnTime
-----------------------------------------------------------------------------
(***************************************************************************)
(* Events are not lost when every session has a word of the masks to       *)
(* itself and one thread selects, for any number of sessions and of other  *)
(* threads.  Both conditions are needed: a word is written back under      *)
(* locks that do not exclude each other, by a call and by another call in  *)
(* the same word, or by a select and a call on a session of another select.*)
(***************************************************************************)
OwnWords  == \A s, t \in Sessions : WordOf[s] = WordOf[t] => s = t
OneSelect == \A a, b \in Apps : Selects(a) /\ Selects(b) => a = b

SelStates == {"selRead", "selWrite", "selEnd", "selLoop", "selSleep", "selWoken"}

\* The lock of the scheduler is held during a round, and during a select.
SchedHolds  == spc \in {"process", "set"} => schedLock = SchedThread
SelectHolds == \A a \in Apps : pc[a] \in {"selRead", "selWrite", "selEnd", "selLoop"} => schedLock = a
\* Who is in a select may be there, and has dealt with the events before it.
SelectOwn   == \A a \in Apps : pc[a] \in SelStates => Selects(a) /\ ready[a] = {}
\* Only a blocking call sleeps; a call that does not block leaves an armed
\* wait point behind when it clears the bit.
CallSleeps  == \A a \in Apps : pc[a] \in {"sleep", "woken"} => cur[a][1] \in Blocking
CallArms    == \A a \in Apps : /\ pc[a] \in {"clr", "clrWrite"}
                               /\ cur[a][1] \notin Blocking
                               => wp[cur[a]].wakeup
\* The word a call writes back is the word it read.
CallWord    == \A a \in Apps : pc[a] \in {"clrWrite", "setWrite"} =>
                                 tmp[a] \subseteq InWord(WordOf[cur[a][1]])

ControlInv == /\ SchedHolds /\ SelectHolds /\ SelectOwn
              /\ CallSleeps /\ CallArms /\ CallWord

\* Nobody sets a bit in the word a select is about to write back.
ScanFreshAt(a, p) ==
  /\ pc[a] = "selWrite" /\ p[2] = scan[a][1] /\ WordOf[p[1]] = scan[a][2]
  /\ p[1] \in mask[p[2]]
  => p[1] \in tmp[a]
ScanIsFresh == \A a \in Apps : \A p \in Uses[a] : ScanFreshAt(a, p)

LEMMA UpdateAt ==
  ASSUME NEW S, NEW T, NEW f \in [S -> T], NEW x \in S, NEW v
  PROVE  /\ [f EXCEPT ![x] = v][x] = v
         /\ \A y \in S : y # x => [f EXCEPT ![x] = v][y] = f[y]
  OBVIOUS

LEMMA ControlInit == SystemInit => ControlInv
  BY DEF SystemInit, ControlInv, SchedHolds, SelectHolds, SelectOwn, CallSleeps,
         CallArms, CallWord, SelStates

LEMMA ControlSched ==
  ASSUME TypeOK, WaitInv, ControlInv, SchedNext
  PROVE  ControlInv'
<1>1. CASE SchedLock
  <2>1. \A a \in Apps : pc[a] \notin {"selRead", "selWrite", "selEnd", "selLoop"}
    BY <1>1 DEF SchedLock, ControlInv, SelectHolds, Threads
  <2>. QED
    BY <1>1, <2>1 DEF SchedLock, appVars, ControlInv, SchedHolds, SelectHolds,
         SelectOwn, CallSleeps, CallArms, CallWord
<1>2. CASE SchedCheck
  <2>1. /\ Head(todo) \in Points /\ wpLock[Head(todo)] = NoThread
        /\ spc = "process" /\ spc' \in {"process", "set"}
        /\ UNCHANGED <<schedLock, pc, cur, tmp, ready>>
    BY <1>2 DEF SchedCheck, TypeOK, appVars
  <2>2. \/ wp' = wp
        \/ wp' = [wp EXCEPT ![Head(todo)].wakeup = FALSE]
    BY <1>2 DEF SchedCheck
  <2>3. ASSUME NEW a \in Apps, pc[a] \in {"clr", "clrWrite"}
        PROVE  wp'[cur[a]] = wp[cur[a]]
    <3>1. cur[a] # Head(todo)
      BY <2>1, <2>3 DEF WaitInv, CallsAreLocked, InCallStates, Threads
    <3>2. \A q \in Points : q # Head(todo) => wp'[q] = wp[q]
      BY <2>1, <2>2 DEF TypeOK
    <3>3. cur[a] \in Points
      BY DEF TypeOK
    <3>. QED  BY <3>1, <3>2, <3>3
  <2>4. CallArms'
    BY <2>1, <2>3 DEF ControlInv, CallArms
  <2>. QED
    BY <2>1, <2>4 DEF ControlInv, SchedHolds, SelectHolds, SelectOwn,
         CallSleeps, CallWord
<1>3. CASE SchedSet
  <2>1. /\ spc = "set" /\ spc' = "process"
        /\ UNCHANGED <<schedLock, wp, cur, tmp, ready>>
    BY <1>3 DEF SchedSet
  <2>2. ASSUME NEW a \in Apps
        PROVE  pc'[a] = pc[a] \/ (pc[a] = "sleep" /\ pc'[a] = "woken")
    BY <1>3, <2>2 DEF SchedSet, Sleeping, TypeOK
  <2>. QED
    BY <2>1, <2>2 DEF ControlInv, SchedHolds, SelectHolds, SelectOwn,
         CallSleeps, CallArms, CallWord, SelStates
<1>4. CASE SchedBroadcast
  <2>1. /\ spc' = "timer" /\ spc = "process"
        /\ UNCHANGED <<wp, cur, tmp, ready>>
    BY <1>4 DEF SchedBroadcast
  <2>2. ASSUME NEW a \in Apps
        PROVE  pc'[a] = pc[a] \/ (pc[a] = "selSleep" /\ pc'[a] = "selWoken")
    BY <1>4 DEF SchedBroadcast
  <2>3. ASSUME NEW a \in Apps PROVE pc[a] \notin {"selRead", "selWrite", "selEnd", "selLoop"}
    BY <2>1 DEF ControlInv, SchedHolds, SelectHolds
  <2>. QED
    BY <2>1, <2>2, <2>3 DEF ControlInv, SchedHolds, SelectHolds, SelectOwn,
         CallSleeps, CallArms, CallWord, SelStates
<1>5. CASE SchedTimer
  BY <1>5 DEF SchedTimer, appVars, ControlInv, SchedHolds, SelectHolds,
         SelectOwn, CallSleeps, CallArms, CallWord
<1>. QED  BY <1>1, <1>2, <1>3, <1>4, <1>5 DEF SchedNext

LEMMA ControlCall ==
  ASSUME TypeOK, WaitInv, ControlInv, NEW a \in Apps, Call(a)
  PROVE  ControlInv'
<1>1. PICK p \in ready[a] : Call(a)!(p)
  BY DEF Call
<1>2. /\ p \in Points /\ p \in Uses[a] /\ pc[a] = "idle"
      /\ cur' = [cur EXCEPT ![a] = p]
      /\ ready' = [ready EXCEPT ![a] = @ \ {p}]
      /\ UNCHANGED <<schedLock, spc, tmp>>
  BY <1>1 DEF TypeOK, WaitInv, ReadyAreOwn, schedVars
<1>3. \/ /\ pc' = [pc EXCEPT ![a] = "sleep"] /\ p[1] \in Blocking
         /\ wp' = [wp EXCEPT ![p] = [time |-> PacketTime(p), wakeup |-> TRUE]]
      \/ /\ pc' = [pc EXCEPT ![a] = "clr"]
         /\ wp' = [wp EXCEPT ![p] = [time |-> PacketTime(p), wakeup |-> TRUE]]
      \/ /\ pc' = [pc EXCEPT ![a] = "set"] /\ wp' = wp
  BY <1>1
<1>4. ASSUME NEW b \in Apps, b # a
      PROVE  pc'[b] = pc[b] /\ cur'[b] = cur[b] /\ ready'[b] = ready[b]
  BY <1>2, <1>3, <1>4 DEF TypeOK
<1>5. cur'[a] = p /\ pc'[a] \in {"sleep", "clr", "set"}
  BY <1>2, <1>3 DEF TypeOK
<1>6. ASSUME NEW q \in Points, wp[q].wakeup PROVE wp'[q].wakeup
  BY <1>2, <1>3, <1>6 DEF TypeOK
<1>7. SchedHolds' /\ SelectHolds'
  BY <1>2, <1>4, <1>5 DEF ControlInv, SchedHolds, SelectHolds
<1>8. SelectOwn'
  BY <1>4, <1>5 DEF ControlInv, SelectOwn, SelStates
<1>9. CallSleeps'
  <2>1. pc'[a] \in {"sleep", "woken"} => p[1] \in Blocking
    BY <1>3 DEF TypeOK
  <2>. QED  BY <1>4, <1>5, <2>1 DEF ControlInv, CallSleeps
<1>10. CallArms'
  <2>1. pc'[a] \in {"clr", "clrWrite"} => wp'[p].wakeup
    BY <1>2, <1>3 DEF TypeOK
  <2>2. \A b \in Apps : cur[b] \in Points
    BY DEF TypeOK
  <2>. QED  BY <1>4, <1>5, <1>6, <2>1, <2>2 DEF ControlInv, CallArms
<1>11. CallWord'
  BY <1>2, <1>4, <1>5 DEF ControlInv, CallWord, InWord
<1>. QED  BY <1>7, <1>8, <1>9, <1>10, <1>11 DEF ControlInv

LEMMA ControlApp ==
  ASSUME TypeOK, WaitInv, ControlInv, NEW a \in Apps, AppNext(a)
  PROVE  ControlInv'
<1>. USE DEF ControlInv, SchedHolds, SelectHolds, SelectOwn, CallSleeps,
             CallArms, CallWord, SelStates
<1>1. CASE Call(a)
  BY <1>1, ControlCall
<1>2. CASE Awake(a)
  <2>1. /\ pc[a] \in {"sleep", "woken"} /\ pc' = [pc EXCEPT ![a] = "clr"]
        /\ UNCHANGED <<schedLock, spc, wp, cur, tmp, ready>>
    BY <1>2 DEF Awake, schedVars
  <2>. QED  BY <2>1 DEF TypeOK
<1>3. CASE ReadMask(a)
  <2>1. /\ pc[a] \in {"clr", "set"}
        /\ pc' = [pc EXCEPT ![a] = IF @ = "clr" THEN "clrWrite" ELSE "setWrite"]
        /\ tmp' = [tmp EXCEPT ![a] = ReadWord(cur[a][2], WordOf[cur[a][1]])]
        /\ UNCHANGED <<schedLock, spc, wp, cur, ready>>
    BY <1>3 DEF ReadMask, schedVars
  <2>2. tmp'[a] \subseteq InWord(WordOf[cur[a][1]])
    BY <2>1 DEF TypeOK, ReadWord
  <2>3. CallWord'
    BY <2>1, <2>2 DEF TypeOK, InWord
  <2>. QED  BY <2>1, <2>3 DEF TypeOK
<1>4. CASE WriteMask(a)
  <2>1. /\ pc' = [pc EXCEPT ![a] = "idle"] /\ tmp' = [tmp EXCEPT ![a] = {}]
        /\ UNCHANGED <<schedLock, spc, wp, cur, ready>>
    BY <1>4 DEF WriteMask, schedVars
  <2>. QED  BY <2>1 DEF TypeOK, InWord
<1>5. CASE Again(a)
  <2>1. /\ pc[a] = "idle" /\ ready' = [ready EXCEPT ![a] = Uses[a]]
        /\ UNCHANGED <<schedLock, spc, wp, pc, cur, tmp>>
    BY <1>5 DEF Again, schedVars
  <2>. QED  BY <2>1 DEF TypeOK, InWord
<1>6. CASE SelLock(a)
  <2>1. /\ pc[a] \in {"idle", "selWoken", "selSleep"} /\ schedLock = NoThread
        /\ pc[a] = "idle" => Selects(a) /\ ready[a] = {}
        /\ schedLock' = a /\ pc' = [pc EXCEPT ![a] = "selRead"]
        /\ UNCHANGED <<spc, wp, cur, tmp, ready>>
    BY <1>6 DEF SelLock, schedVars
  <2>2. Selects(a) /\ ready[a] = {}
    BY <2>1
  <2>3. spc \notin {"process", "set"}
    BY <2>1 DEF Threads
  <2>4. \A b \in Apps : pc[b] \notin {"selRead", "selWrite", "selEnd", "selLoop"}
    BY <2>1 DEF Threads
  <2>. QED  BY <2>1, <2>2, <2>3, <2>4 DEF TypeOK, InWord, Selects
<1>7. CASE SelRead(a)
  <2>1. /\ pc[a] = "selRead" /\ pc' = [pc EXCEPT ![a] = "selWrite"]
        /\ \E v : tmp' = [tmp EXCEPT ![a] = v]
        /\ UNCHANGED <<schedLock, spc, wp, cur, ready>>
    BY <1>7 DEF SelRead, schedVars
  <2>. QED  BY <2>1 DEF TypeOK, InWord, Selects
<1>8. CASE SelWrite(a)
  <2>1. /\ pc[a] = "selWrite"
        /\ \E l \in {"selRead", "selEnd", "selLoop"} : pc' = [pc EXCEPT ![a] = l]
        /\ tmp' = [tmp EXCEPT ![a] = {}]
        /\ UNCHANGED <<schedLock, spc, wp, cur, ready>>
    BY <1>8 DEF SelWrite, schedVars
  <2>. QED  BY <2>1 DEF TypeOK, InWord, Selects
<1>9. CASE SelEnd(a)
  <2>1. /\ pc[a] = "selEnd" /\ schedLock' = NoThread
        /\ \/ pc' = [pc EXCEPT ![a] = "idle"]
           \/ pc' = [pc EXCEPT ![a] = "selSleep"] /\ ready' = ready
        /\ \A b \in Apps : b # a => ready'[b] = ready[b]
        /\ UNCHANGED <<spc, wp, cur, tmp>>
    BY <1>9 DEF SelEnd, schedVars, TypeOK
  <2>2. schedLock = a /\ spc \notin {"process", "set"}
    BY <2>1
  <2>3. \A b \in Apps : b # a => pc[b] \notin {"selRead", "selWrite", "selEnd", "selLoop"}
    BY <2>2
  <2>4. pc'[a] = "idle" \/ (pc'[a] = "selSleep" /\ ready'[a] = ready[a])
    BY <2>1 DEF TypeOK
  <2>5. \A b \in Apps : b # a => pc'[b] = pc[b]
    BY <2>1 DEF TypeOK
  <2>6. SelectOwn'
    BY <2>1, <2>4, <2>5 DEF Selects
  <2>7. SchedHolds' /\ SelectHolds'
    BY <2>1, <2>2, <2>3, <2>4, <2>5
  <2>8. CallSleeps' /\ CallArms' /\ CallWord'
    BY <2>1, <2>4, <2>5 DEF InWord
  <2>. QED  BY <2>6, <2>7, <2>8
<1>10. CASE SelTimeout(a)
  <2>1. /\ pc' = [pc EXCEPT ![a] = "idle"]
        /\ UNCHANGED <<schedLock, spc, wp, cur, tmp, ready>>
    BY <1>10 DEF SelTimeout, schedVars
  <2>. QED  BY <2>1 DEF TypeOK, InWord, Selects
<1>. QED
  BY <1>1, <1>2, <1>3, <1>4, <1>5, <1>6, <1>7, <1>8, <1>9, <1>10 DEF AppNext, CallNext, SelectNext

LEMMA ControlInductive == SystemSpec => []ControlInv
<1>1. TypeOK /\ WaitInv /\ ControlInv /\ [SystemNext]_systemVars => ControlInv'
  <2>. SUFFICES ASSUME TypeOK, WaitInv, ControlInv, [SystemNext]_systemVars PROVE ControlInv'
    OBVIOUS
  <2>1. CASE UNCHANGED systemVars
    BY <2>1 DEF systemVars, schedVars, appVars, ControlInv, SchedHolds, SelectHolds,
         SelectOwn, CallSleeps, CallArms, CallWord
  <2>. QED  BY NextIsOne, <2>1, ControlSched, ControlApp
<1>. QED  BY <1>1, ControlInit, TypeCorrect, WaitInductive, PTL DEF SystemSpec
-----------------------------------------------------------------------------
(***************************************************************************)
(* A point p of a selecting thread a has its event somewhere.              *)
(***************************************************************************)
EventHeld(a, p) ==
  \/ wp[p].wakeup \/ p[1] \in mask[p[2]] \/ p \in ready[a]
  \/ (spc = "set" /\ scur = p) \/ InCall(a, p) \/ InSelect(a, p)

EventInv == ScanIsFresh /\ EventNotLost

\* Writing the word of session s does to other sessions nothing at all.
LEMMA WordWrite ==
  ASSUME OwnWords, mask \in [Dirs -> SUBSET Sessions],
         NEW q \in Points, NEW v \in SUBSET Sessions
  PROVE  /\ q[1] \in v => q[1] \in WriteWord(q[2], WordOf[q[1]], v)[q[2]]
         /\ \A p \in Points : p # q /\ p[1] \in mask[p[2]] =>
              p[1] \in WriteWord(q[2], WordOf[q[1]], v)[p[2]]
         /\ v \subseteq InWord(WordOf[q[1]]) =>
              \A p \in Points : p # q /\ p[1] \in WriteWord(q[2], WordOf[q[1]], v)[p[2]]
                => p[1] \in mask[p[2]]
<1>. DEFINE new == WriteWord(q[2], WordOf[q[1]], v)
<1>1. q[1] \in Sessions /\ q[2] \in Dirs /\ q = <<q[1], q[2]>>
  BY DEF Points
<1>2. InWord(WordOf[q[1]]) = {q[1]}
  BY <1>1 DEF InWord, OwnWords
<1>3. new = [mask EXCEPT ![q[2]] = (mask[q[2]] \ {q[1]}) \cup v]
  BY <1>2 DEF WriteWord
<1>. HIDE DEF new
<1>4. /\ new[q[2]] = (mask[q[2]] \ {q[1]}) \cup v
      /\ \A d \in Dirs : d # q[2] => new[d] = mask[d]
  BY <1>1, <1>3
<1>5. ASSUME NEW p \in Points, p # q
      PROVE  p[2] \in Dirs /\ (p[2] = q[2] => p[1] # q[1])
  BY <1>1, <1>5 DEF Points
<1>6. /\ q[1] \in v => q[1] \in new[q[2]]
      /\ \A p \in Points : p # q /\ p[1] \in mask[p[2]] => p[1] \in new[p[2]]
      /\ v \subseteq InWord(WordOf[q[1]]) =>
           \A p \in Points : p # q /\ p[1] \in new[p[2]] => p[1] \in mask[p[2]]
  BY <1>1, <1>2, <1>4, <1>5
<1>. QED  BY <1>6 DEF new

\* A step of the scheduler.
LEMMA EventSched ==
  ASSUME TypeOK, ControlInv, EventInv, OwnWords, SchedNext
  PROVE  EventInv'
<1>1. CASE SchedSet
  <2>1. /\ spc = "set" /\ scur \in Points /\ stmp \in SUBSET Sessions
        /\ mask' = WriteWord(scur[2], WordOf[scur[1]], stmp \cup {scur[1]})
        /\ UNCHANGED <<wp, cur, tmp, ready, scan, found>>
    BY <1>1 DEF SchedSet, TypeOK
  <2>2. stmp \cup {scur[1]} \in SUBSET Sessions
    BY <2>1 DEF Points
  <2>3. /\ scur[1] \in mask'[scur[2]]
        /\ \A p \in Points : p[1] \in mask[p[2]] => p[1] \in mask'[p[2]]
    <3>1. mask \in [Dirs -> SUBSET Sessions]
      BY DEF TypeOK
    <3>2. /\ scur[1] \in stmp \cup {scur[1]} => scur[1] \in mask'[scur[2]]
          /\ \A p \in Points : p # scur /\ p[1] \in mask[p[2]] => p[1] \in mask'[p[2]]
      BY <2>1, <2>2, <3>1, WordWrite
    <3>. QED  BY <3>2
  <2>4. ASSUME NEW a \in Apps
        PROVE  /\ pc'[a] = pc[a] \/ (pc[a] = "sleep" /\ pc'[a] = "woken")
               /\ pc[a] \notin {"selRead", "selWrite", "selEnd", "selLoop"}
    <3>1. schedLock = SchedThread
      BY <2>1 DEF ControlInv, SchedHolds
    <3>2. pc[a] \notin {"selRead", "selWrite", "selEnd", "selLoop"}
      BY <3>1 DEF ControlInv, SelectHolds
    <3>. QED  BY <1>1, <3>2 DEF SchedSet, Sleeping, TypeOK
  <2>5. ScanIsFresh'
    BY <2>4 DEF ScanIsFresh, ScanFreshAt
  <2>6. ASSUME NEW a \in Apps, NEW p \in Uses[a], Selects(a), EventHeld(a, p)
        PROVE  EventHeld(a, p)'
    <3>1. p \in Points
      OBVIOUS
    <3>2. ~InSelect(a, p)
      BY <2>4 DEF InSelect
    <3>3. InCall(a, p) => InCall(a, p)'
      BY <2>1, <2>4 DEF InCall
    <3>. QED  BY <2>1, <2>3, <2>6, <3>1, <3>2, <3>3 DEF EventHeld
  <2>. QED  BY <2>5, <2>6 DEF EventInv, EventNotLost, EventHeld
<1>2. CASE SchedCheck
  <2>1. /\ Head(todo) \in Points /\ spc = "process"
        /\ UNCHANGED <<mask, pc, cur, tmp, ready, scan, found>>
    BY <1>2 DEF SchedCheck, TypeOK, appVars
  <2>2. \/ /\ wp' = [wp EXCEPT ![Head(todo)].wakeup = FALSE]
           /\ scur' = Head(todo) /\ spc' = "set"
        \/ UNCHANGED <<wp, scur, spc>>
    BY <1>2 DEF SchedCheck
  <2>3. ASSUME NEW p \in Points, wp[p].wakeup
        PROVE  wp'[p].wakeup \/ (spc' = "set" /\ scur' = p)
    BY <2>1, <2>2, <2>3 DEF TypeOK
  <2>. QED
    BY <2>1, <2>3 DEF EventInv, ScanIsFresh, ScanFreshAt, EventNotLost, InCall, InSelect, Hits
<1>3. CASE SchedBroadcast
  <2>1. /\ spc = "process" /\ UNCHANGED <<wp, mask, cur, tmp, ready, scan, found>>
    BY <1>3 DEF SchedBroadcast
  <2>2. ASSUME NEW a \in Apps
        PROVE  pc'[a] = pc[a] \/ (pc[a] = "selSleep" /\ pc'[a] = "selWoken")
    BY <1>3 DEF SchedBroadcast
  <2>. QED
    BY <2>1, <2>2 DEF EventInv, ScanIsFresh, ScanFreshAt, EventNotLost, InCall, InSelect, Hits
<1>4. CASE SchedLock \/ SchedTimer
  BY <1>4 DEF SchedLock, SchedTimer, appVars, EventInv, ScanIsFresh, ScanFreshAt,
       EventNotLost, InCall, InSelect, Hits
<1>. QED  BY <1>1, <1>2, <1>3, <1>4 DEF SchedNext

\* A step of a thread that does not select, and what it does to a point that
\* is not its own.
LEMMA CallElsewhere ==
  ASSUME TypeOK, WaitInv, ControlInv, OwnWords,
         NEW b \in Apps, ~Selects(b), AppNext(b),
         NEW p \in Points, p \notin Uses[b]
  PROVE  /\ wp'[p] = wp[p] /\ UNCHANGED <<spc, scur>>
         /\ p[1] \in mask'[p[2]] <=> p[1] \in mask[p[2]]
         /\ \A a \in Apps : a # b =>
              /\ pc'[a] = pc[a] /\ cur'[a] = cur[a] /\ tmp'[a] = tmp[a]
              /\ ready'[a] = ready[a] /\ scan'[a] = scan[a] /\ found'[a] = found[a]
<1>1. Call(b) \/ Awake(b) \/ ReadMask(b) \/ WriteMask(b) \/ Again(b)
  <2>1. pc[b] \notin SelStates
    BY DEF ControlInv, SelectOwn
  <2>2. ~(SelLock(b) \/ SelRead(b) \/ SelWrite(b) \/ SelEnd(b) \/ SelTimeout(b))
    BY <2>1 DEF SelStates, SelLock, SelRead, SelWrite, SelEnd, SelTimeout
  <2>. QED  BY <2>2 DEF AppNext, CallNext, SelectNext
<1>2. CASE Call(b)
  <2>1. PICK q \in ready[b] : Call(b)!(q)
    BY <1>2 DEF Call
  <2>2. q \in Points /\ q # p
    BY <2>1 DEF WaitInv, ReadyAreOwn, TypeOK
  <2>3. wp' = wp \/ \E v : wp' = [wp EXCEPT ![q] = v]
    BY <2>1
  <2>4. \E l : pc' = [pc EXCEPT ![b] = l]
    BY <2>1
  <2>5. /\ UNCHANGED <<spc, scur, mask, tmp, scan, found>>
        /\ cur' = [cur EXCEPT ![b] = q]
        /\ ready' = [ready EXCEPT ![b] = @ \ {q}]
    BY <2>1 DEF schedVars
  <2>6. wp'[p] = wp[p]
    BY <2>2, <2>3 DEF TypeOK
  <2>. QED  BY <2>4, <2>5, <2>6 DEF TypeOK
<1>3. CASE WriteMask(b)
  <2>1. /\ pc[b] \in {"clrWrite", "setWrite"} /\ cur[b] \in Points
        /\ mask' = WriteWord(cur[b][2], WordOf[cur[b][1]], NewWord(b))
        /\ pc' = [pc EXCEPT ![b] = "idle"] /\ tmp' = [tmp EXCEPT ![b] = {}]
        /\ UNCHANGED <<wp, spc, scur, cur, ready, scan, found>>
    BY <1>3 DEF WriteMask, TypeOK, schedVars
  <2>2. cur[b] # p
    BY <2>1 DEF WaitInv, CallsAreOwn, InCallStates
  <2>3. cur[b][1] \in InWord(WordOf[cur[b][1]])
    BY <2>1 DEF InWord, Points
  <2>4. NewWord(b) \subseteq InWord(WordOf[cur[b][1]])
    BY <2>1, <2>3 DEF NewWord, ControlInv, CallWord
  <2>5. NewWord(b) \in SUBSET Sessions
    BY <2>4 DEF InWord
  <2>6. p[1] \in mask'[p[2]] <=> p[1] \in mask[p[2]]
    <3>1. mask \in [Dirs -> SUBSET Sessions]
      BY DEF TypeOK
    <3>2. PICK q \in Points, v \in SUBSET Sessions : q = cur[b] /\ v = NewWord(b)
      BY <2>1, <2>5
    <3>3. mask' = WriteWord(q[2], WordOf[q[1]], v) /\ v \subseteq InWord(WordOf[q[1]])
      BY <2>1, <2>4, <3>2
    <3>4. /\ \A r \in Points : r # q /\ r[1] \in mask[r[2]] => r[1] \in mask'[r[2]]
          /\ \A r \in Points : r # q /\ r[1] \in mask'[r[2]] => r[1] \in mask[r[2]]
      BY <3>1, <3>3, WordWrite
    <3>. QED  BY <2>2, <3>2, <3>4
  <2>. QED  BY <2>1, <2>6 DEF TypeOK
<1>4. CASE Awake(b) \/ ReadMask(b) \/ Again(b)
  BY <1>4 DEF Awake, ReadMask, Again, schedVars, TypeOK
<1>. QED  BY <1>1, <1>2, <1>3, <1>4
-----------------------------------------------------------------------------
\* A step of a selecting thread, and what it does to a point of its own.
LEMMA EventSelect ==
  ASSUME TypeOK, WaitInv, ControlInv, OwnWords,
         NEW a \in Apps, Selects(a), AppNext(a), NEW p \in Uses[a],
         EventHeld(a, p), ScanFreshAt(a, p)
  PROVE  EventHeld(a, p)' /\ ScanFreshAt(a, p)'
<1>1. p \in Points /\ p[1] \notin Blocking
  BY DEF Selects
<1>2. CASE Call(a)
  <2>1. PICK q \in ready[a] : Call(a)!(q)
    BY <1>2 DEF Call
  <2>2. q \in Points /\ q[1] \notin Blocking
    BY <2>1 DEF WaitInv, ReadyAreOwn, Selects, TypeOK
  <2>3. /\ pc[a] = "idle"
        /\ \E l \in {"clr", "set"} : pc' = [pc EXCEPT ![a] = l]
        /\ cur' = [cur EXCEPT ![a] = q] /\ ready' = [ready EXCEPT ![a] = @ \ {q}]
        /\ UNCHANGED <<mask, spc, scur>>
    BY <2>1, <2>2 DEF schedVars
  <2>4. wp' = wp \/ wp' = [wp EXCEPT ![q] = [time |-> PacketTime(q), wakeup |-> TRUE]]
    BY <2>1
  <2>5. wp[p].wakeup => wp'[p].wakeup
    <3>1. wp \in [Points -> [time : Times, wakeup : BOOLEAN]]
      BY DEF TypeOK
    <3>2. CASE p = q
      <4>1. wp' = wp \/ wp'[q] = [time |-> PacketTime(q), wakeup |-> TRUE]
        BY <2>2, <2>4, <3>1
      <4>. QED  BY <3>2, <4>1
    <3>3. CASE p # q
      BY <2>4, <3>1, <3>3
    <3>. QED  BY <3>2, <3>3
  <2>6. pc'[a] \in {"clr", "set"} /\ cur'[a] = q /\ ready'[a] = ready[a] \ {q}
    BY <2>3 DEF TypeOK
  <2>7. ~InCall(a, p) /\ ~InSelect(a, p)
    BY <2>3 DEF InCall, InSelect
  <2>8. EventHeld(a, p)'
    <3>1. CASE p = q
      BY <2>6, <3>1 DEF EventHeld, InCall
    <3>2. CASE p # q
      BY <2>3, <2>5, <2>6, <2>7, <3>2 DEF EventHeld
    <3>. QED  BY <3>1, <3>2
  <2>. QED  BY <2>6, <2>8 DEF ScanFreshAt
<1>3. CASE Awake(a)
  <2>1. pc[a] \in {"sleep", "woken"}
    BY <1>3 DEF Awake
  <2>2. cur[a] \in Uses[a] /\ cur[a][1] \in Blocking
    BY <2>1 DEF WaitInv, CallsAreOwn, ControlInv, CallSleeps
  <2>. QED  BY <2>2 DEF Selects
<1>4. CASE ReadMask(a)
  <2>1. /\ pc[a] \in {"clr", "set"} /\ pc'[a] \in {"clrWrite", "setWrite"}
        /\ UNCHANGED <<wp, mask, ready, spc, scur, cur>>
    BY <1>4 DEF ReadMask, schedVars, TypeOK
  <2>. QED  BY <2>1 DEF EventHeld, InCall, InSelect, ScanFreshAt
<1>5. CASE WriteMask(a)
  <2>1. /\ pc[a] \in {"clrWrite", "setWrite"} /\ cur[a] \in Points
        /\ mask' = WriteWord(cur[a][2], WordOf[cur[a][1]], NewWord(a))
        /\ pc' = [pc EXCEPT ![a] = "idle"]
        /\ UNCHANGED <<wp, spc, scur, cur, ready>>
    BY <1>5 DEF WriteMask, TypeOK, schedVars
  <2>2. NewWord(a) \in SUBSET Sessions
    BY <2>1 DEF NewWord, TypeOK, Points
  <2>3. /\ cur[a][1] \in NewWord(a) => cur[a][1] \in mask'[cur[a][2]]
        /\ p # cur[a] /\ p[1] \in mask[p[2]] => p[1] \in mask'[p[2]]
    <3>1. mask \in [Dirs -> SUBSET Sessions]
      BY DEF TypeOK
    <3>. QED  BY <1>1, <2>1, <2>2, <3>1, WordWrite
  <2>4. CASE p = cur[a] /\ pc[a] = "setWrite"
    BY <2>1, <2>3, <2>4 DEF NewWord, EventHeld, ScanFreshAt, TypeOK
  <2>5. CASE p = cur[a] /\ pc[a] = "clrWrite"
    <3>1. wp[p].wakeup
      BY <1>1, <2>5 DEF ControlInv, CallArms
    <3>. QED  BY <2>1, <3>1 DEF EventHeld, ScanFreshAt, TypeOK
  <2>6. CASE p # cur[a]
    <3>1. ~InCall(a, p) /\ ~InSelect(a, p)
      BY <2>1, <2>6 DEF InCall, InSelect
    <3>. QED  BY <2>1, <2>3, <2>6, <3>1 DEF EventHeld, ScanFreshAt, TypeOK
  <2>. QED  BY <2>1, <2>4, <2>5, <2>6
<1>6. CASE Again(a)
  BY <1>6 DEF Again
<1>7. CASE SelLock(a)
  <2>1. /\ pc[a] \in {"idle", "selWoken", "selSleep"} /\ pc'[a] = "selRead"
        /\ UNCHANGED <<wp, mask, ready, spc, scur>>
    BY <1>7 DEF SelLock, schedVars, TypeOK
  <2>. QED  BY <2>1 DEF EventHeld, InCall, InSelect, ScanFreshAt
<1>8. CASE SelRead(a)
  <2>1. PICK dw \in words[a] : SelRead(a)!(dw)
    BY <1>8 DEF SelRead
  <2>2. /\ pc[a] = "selRead" /\ pc'[a] = "selWrite"
        /\ tmp'[a] = ReadWord(dw[1], dw[2]) /\ scan'[a] = dw
        /\ UNCHANGED <<wp, mask, ready, found, spc, scur>>
    BY <2>1 DEF schedVars, TypeOK
  <2>3. ScanFreshAt(a, p)'
    <3>1. p[1] \in Sessions
      BY <1>1 DEF Points
    <3>. QED  BY <2>2, <3>1 DEF ScanFreshAt, ReadWord, InWord
  <2>. QED  BY <2>2, <2>3 DEF EventHeld, InCall, InSelect
<1>9. CASE SelWrite(a)
  <2>1. /\ pc[a] = "selWrite" /\ pc'[a] \in {"selRead", "selEnd", "selLoop"}
        /\ mask' = WriteWord(scan[a][1], scan[a][2], tmp[a] \ {q[1] : q \in Hits(a)})
        /\ found'[a] = found[a] \cup Hits(a)
        /\ UNCHANGED <<wp, ready, spc, scur>>
    BY <1>9 DEF SelWrite, schedVars, TypeOK
  <2>2. CASE p \in Hits(a) \cup found[a]
    BY <2>1, <2>2 DEF EventHeld, InSelect, ScanFreshAt
  <2>3. CASE p \notin Hits(a) \cup found[a]
    <3>1. ~InCall(a, p) /\ ~InSelect(a, p)
      BY <2>1, <2>3 DEF InCall, InSelect
    <3>2. p[1] \in mask[p[2]] => ~(p[2] = scan[a][1] /\ WordOf[p[1]] = scan[a][2])
      BY <2>1, <2>3 DEF ScanFreshAt, Hits
    <3>3. p[1] \in mask[p[2]] => p[1] \in mask'[p[2]]
      <4>1. scan[a][1] \in Dirs /\ p[2] \in Dirs
        BY <1>1 DEF TypeOK, Points
      <4>. QED  BY <2>1, <3>2, <4>1 DEF WriteWord, InWord, TypeOK
    <3>. QED  BY <2>1, <3>1, <3>3 DEF EventHeld, ScanFreshAt
  <2>. QED  BY <2>2, <2>3
<1>10. CASE SelEnd(a)
  <2>1. /\ pc[a] = "selEnd" /\ ready[a] = {} /\ pc'[a] # "selWrite"
        /\ UNCHANGED <<wp, mask, spc, scur>>
    BY <1>10 DEF SelEnd, schedVars, TypeOK, ControlInv, SelectOwn, SelStates
  <2>2. CASE p \in found[a]
    <3>1. ready'[a] = SelResult(a)
      BY <1>10, <2>2 DEF SelEnd, TypeOK
    <3>2. p[2] = "rcv" \/ p[2] = "snd"
      BY <1>1 DEF Points, Dirs
    <3>3. p \in SelResult(a)
      BY <2>2, <3>2 DEF SelResult
    <3>. QED  BY <2>1, <3>1, <3>3 DEF EventHeld, ScanFreshAt
  <2>3. CASE p \notin found[a]
    <3>1. ~InCall(a, p) /\ ~InSelect(a, p)
      BY <2>1, <2>3 DEF InCall, InSelect
    <3>. QED  BY <2>1, <3>1 DEF EventHeld, ScanFreshAt
  <2>. QED  BY <2>2, <2>3
<1>11. CASE SelTimeout(a)
  <2>1. /\ pc[a] \in {"selWoken", "selSleep"} /\ pc'[a] = "idle"
        /\ UNCHANGED <<wp, mask, ready, spc, scur>>
    BY <1>11 DEF SelTimeout, schedVars, TypeOK
  <2>. QED  BY <2>1 DEF EventHeld, InCall, InSelect, ScanFreshAt
<1>. QED
  BY <1>2, <1>3, <1>4, <1>5, <1>6, <1>7, <1>8, <1>9, <1>10, <1>11 DEF AppNext, CallNext, SelectNext

LEMMA EventApp ==
  ASSUME TypeOK, WaitInv, ControlInv, ControlInv', EventInv, OwnWords, OneSelect,
         NEW b \in Apps, AppNext(b)
  PROVE  EventInv'
<1>1. ASSUME NEW a \in Apps, NEW p \in Uses[a], Selects(a)
      PROVE  EventHeld(a, p)' /\ ScanFreshAt(a, p)'
  <2>1. EventHeld(a, p) /\ ScanFreshAt(a, p)
    BY <1>1 DEF EventInv, EventNotLost, EventHeld, ScanIsFresh
  <2>2. CASE Selects(b)
    <3>1. a = b
      BY <1>1, <2>2 DEF OneSelect
    <3>. QED  BY <1>1, <2>1, <3>1, EventSelect
  <2>3. CASE ~Selects(b)
    <3>1. a # b /\ p \in Points /\ p \notin Uses[b]
      BY <1>1, <2>3
    <3>2. /\ wp'[p] = wp[p] /\ UNCHANGED <<spc, scur>>
          /\ p[1] \in mask'[p[2]] <=> p[1] \in mask[p[2]]
          /\ pc'[a] = pc[a] /\ cur'[a] = cur[a] /\ tmp'[a] = tmp[a]
          /\ ready'[a] = ready[a] /\ scan'[a] = scan[a] /\ found'[a] = found[a]
      BY <2>3, <3>1, CallElsewhere
    <3>3. InCall(a, p) => InCall(a, p)'
      BY <3>2 DEF InCall
    <3>4. InSelect(a, p) => InSelect(a, p)'
      BY <3>2 DEF InSelect, Hits
    <3>. QED  BY <2>1, <3>2, <3>3, <3>4 DEF EventHeld, ScanFreshAt
  <2>. QED  BY <2>2, <2>3
<1>2. ASSUME NEW a \in Apps, NEW p \in Uses[a], ~Selects(a)
      PROVE  ScanFreshAt(a, p)'
  <2>1. pc'[a] # "selWrite"
    BY <1>2 DEF ControlInv, SelectOwn, SelStates, Selects
  <2>. QED  BY <2>1 DEF ScanFreshAt
<1>3. ScanIsFresh'
  BY <1>1, <1>2 DEF ScanIsFresh
<1>4. EventNotLost'
  BY <1>1 DEF EventNotLost, EventHeld, Selects
<1>. QED  BY <1>3, <1>4 DEF EventInv

\* With a word of the masks for every session and a single thread that
\* selects, session_set_select and the calls it leads to lose no event.
THEOREM SelectLosesNoEvent ==
  ASSUME OwnWords, OneSelect
  PROVE  SystemSpec => []EventNotLost
<1>1. SystemInit => EventInv
  <2>. SUFFICES ASSUME SystemInit PROVE EventInv
    OBVIOUS
  <2>1. ASSUME NEW p \in Points PROVE p[1] \in mask[p[2]]
    BY <2>1 DEF SystemInit, Points
  <2>. QED  BY <2>1 DEF SystemInit, EventInv, ScanIsFresh, ScanFreshAt, EventNotLost
<1>2. /\ TypeOK /\ WaitInv /\ ControlInv /\ ControlInv' /\ EventInv /\ [SystemNext]_systemVars
      => EventInv'
  <2>. SUFFICES ASSUME TypeOK, WaitInv, ControlInv, ControlInv', EventInv, [SystemNext]_systemVars
                PROVE  EventInv'
    OBVIOUS
  <2>1. CASE UNCHANGED systemVars
    BY <2>1 DEF systemVars, schedVars, appVars, EventInv, ScanIsFresh, ScanFreshAt,
         EventNotLost, InCall, InSelect, Hits
  <2>. QED  BY NextIsOne, <2>1, EventSched, EventApp
<1>3. EventInv => EventNotLost
  BY DEF EventInv
<1>. QED  BY <1>1, <1>2, <1>3, TypeCorrect, WaitInductive, ControlInductive, PTL DEF SystemSpec
-----------------------------------------------------------------------------
(***************************************************************************)
(* What select tells the user.  The bit of a wait point is set when its    *)
(* call has finished or would have, and is cleared when the next call arms *)
(* it again.  So a point select takes out of the masks is not armed: the   *)
(* only armed point with its bit set is the one of the call that is about  *)
(* to clear it.  A set is copied back only when an event has been counted  *)
(* before it, so the receivers of a thread that gives senders too are left *)
(* out: they may be called while armed.                                    *)
(***************************************************************************)
Counts(a, p) == p[2] = "snd" \/ ~GivesSenders(a)

\* What is true of a point p that a selecting thread a works on.
TrueAt(a, p) ==
  /\ p \in ready[a] => ~wp[p].wakeup
  /\ pc[a] \in {"selRead", "selWrite", "selEnd", "selLoop"} /\ p \in found[a]
       => ~wp[p].wakeup
  /\ pc[a] = "selWrite" /\ p \in Hits(a) => ~wp[p].wakeup
  /\ pc[a] \in {"set", "setWrite"} /\ cur[a] = p => ~wp[p].wakeup
  /\ spc = "set" /\ scur = p => ~wp[p].wakeup
  /\ wp[p].wakeup /\ p[1] \in mask[p[2]] => pc[a] \in {"clr", "clrWrite"} /\ cur[a] = p

SchedWord == spc = "set" => stmp \subseteq InWord(WordOf[scur[1]])

TruthInv ==
  /\ SchedWord
  /\ \A a \in Apps : \A p \in Uses[a] : Selects(a) /\ Counts(a, p) => TrueAt(a, p)

\* What select has taken out of the masks is what its user asked for.
FoundIsOwn == \A a \in Apps : found[a] \subseteq Uses[a]

LEMMA FoundInductive == SystemSpec => []FoundIsOwn
<1>1. SystemInit => FoundIsOwn
  BY DEF SystemInit, FoundIsOwn
<1>2. TypeOK /\ FoundIsOwn /\ [SystemNext]_systemVars => FoundIsOwn'
  <2>. SUFFICES ASSUME TypeOK, FoundIsOwn, [SystemNext]_systemVars, NEW a \in Apps
                PROVE  found'[a] \subseteq Uses[a]
    BY DEF FoundIsOwn
  <2>. found[a] \subseteq Uses[a] /\ found \in [Apps -> SUBSET Points]
    BY DEF FoundIsOwn, TypeOK
  <2>1. CASE UNCHANGED found
    BY <2>1
  <2>2. ASSUME NEW b \in Apps, SelLock(b) \/ SelEnd(b)
        PROVE  found'[a] \subseteq Uses[a]
    <3>1. found' = [found EXCEPT ![b] = {}]
      BY <2>2 DEF SelLock, SelEnd
    <3>. QED  BY <3>1
  <2>3. ASSUME NEW b \in Apps, SelWrite(b)
        PROVE  found'[a] \subseteq Uses[a]
    <3>1. found' = [found EXCEPT ![b] = @ \cup Hits(b)] /\ Hits(b) \subseteq Uses[b]
      BY <2>3 DEF SelWrite, Hits
    <3>. QED  BY <3>1
  <2>4. CASE SchedNext
    BY <2>1, <2>4 DEF SchedNext, SchedLock, SchedCheck, SchedSet, SchedBroadcast,
         SchedTimer, appVars
  <2>5. ASSUME NEW b \in Apps, Call(b) \/ Awake(b) \/ ReadMask(b) \/ WriteMask(b)
                               \/ Again(b) \/ SelRead(b) \/ SelTimeout(b)
        PROVE  found'[a] \subseteq Uses[a]
    BY <2>5 DEF Call, Awake, ReadMask, WriteMask, Again, SelRead, SelTimeout
  <2>6. CASE UNCHANGED systemVars
    BY <2>1, <2>6 DEF systemVars, appVars
  <2>. QED  BY NextIsOne, <2>2, <2>3, <2>4, <2>5, <2>6 DEF AppNext, CallNext, SelectNext
<1>. QED  BY <1>1, <1>2, TypeCorrect, PTL DEF SystemSpec

\* Only the end of a select takes a thread from "selEnd" to "idle".
LEMMA OnlySelEnd ==
  ASSUME TypeOK, [SystemNext]_systemVars, NEW a \in Apps, pc[a] = "selEnd", pc'[a] = "idle"
  PROVE  SelEnd(a)
<1>. pc \in [Apps -> AppStates]
  BY DEF TypeOK
<1>1. CASE UNCHANGED pc
  BY <1>1
<1>2. CASE SchedNext
  <2>1. CASE SchedSet
    <3>1. \/ pc' = pc
          \/ \E b \in Sleeping(scur) : pc' = [pc EXCEPT ![b] = "woken"]
      BY <2>1 DEF SchedSet
    <3>2. \A b \in Sleeping(scur) : b \in Apps /\ pc[b] = "sleep"
      BY DEF Sleeping
    <3>. QED  BY <3>1, <3>2
  <2>2. CASE SchedBroadcast
    BY <2>2 DEF SchedBroadcast
  <2>3. CASE SchedLock \/ SchedCheck \/ SchedTimer
    BY <1>1, <2>3 DEF SchedLock, SchedCheck, SchedTimer, appVars
  <2>. QED  BY <1>2, <2>1, <2>2, <2>3 DEF SchedNext
<1>3. ASSUME NEW b \in Apps, AppNext(b)
      PROVE  SelEnd(a)
  <2>1. a # b => pc'[a] = pc[a]
    BY <1>3 DEF AppNext, CallNext, SelectNext, Call, Awake, ReadMask, WriteMask, Again, SelLock, SelRead,
         SelWrite, SelEnd, SelTimeout
  <2>2. a = b
    BY <2>1
  <2>. QED
    BY <1>3, <2>2 DEF AppNext, CallNext, SelectNext, Call, Awake, ReadMask, WriteMask, Again, SelLock,
       SelRead, SelWrite, SelTimeout
<1>. QED  BY NextIsOne, <1>1, <1>2, <1>3 DEF systemVars, appVars

\* What a select ends with has been found, apart from the receivers of a thread
\* that gives senders too.
LEMMA ResultIsFound ==
  ASSUME FoundIsOwn, NEW a \in Apps, found[a] # {},
         NEW p \in SelResult(a), Counts(a, p)
  PROVE  p \in found[a]
<1>1. CASE p[2] = "snd"
  BY <1>1 DEF SelResult
<1>2. CASE ~GivesSenders(a)
  <2>1. \A q \in found[a] : q \in Uses[a] /\ q \in Points /\ q[2] # "snd"
    BY <1>2 DEF FoundIsOwn, GivesSenders
  <2>2. \A q \in found[a] : q[2] = "rcv"
    BY <2>1 DEF Points, Dirs
  <2>. QED  BY <2>2 DEF SelResult
<1>. QED  BY <1>1, <1>2 DEF Counts

LEMMA TruthInit == SystemInit => TruthInv
<1>. SUFFICES ASSUME SystemInit PROVE TruthInv
  OBVIOUS
<1>1. \A p \in Points : ~wp[p].wakeup
  BY DEF SystemInit
<1>. QED  BY <1>1 DEF SystemInit, TruthInv, SchedWord, TrueAt

LEMMA TruthSched ==
  ASSUME TypeOK, WaitInv, ControlInv, TruthInv, OwnWords, SchedNext
  PROVE  TruthInv'
<1>1. CASE SchedSet
  <2>1. /\ spc = "set" /\ spc' = "process" /\ scur \in Points /\ stmp \subseteq Sessions
        /\ mask' = WriteWord(scur[2], WordOf[scur[1]], stmp \cup {scur[1]})
        /\ UNCHANGED <<wp, cur, tmp, ready, scan, found>>
    BY <1>1 DEF SchedSet, TypeOK
  <2>2. ASSUME NEW p \in Points, p # scur, p[1] \in mask'[p[2]] PROVE p[1] \in mask[p[2]]
    <3>1. mask \in [Dirs -> SUBSET Sessions] /\ scur[1] \in Sessions
      BY <2>1 DEF TypeOK, Points
    <3>2. PICK q \in Points, v \in SUBSET Sessions : q = scur /\ v = stmp \cup {scur[1]}
      BY <2>1, <3>1
    <3>3. v \subseteq InWord(WordOf[q[1]])
      BY <2>1, <3>1, <3>2 DEF TruthInv, SchedWord, InWord
    <3>4. mask' = WriteWord(q[2], WordOf[q[1]], v)
      BY <2>1, <3>2
    <3>5. \A r \in Points : r # q /\ r[1] \in mask'[r[2]] => r[1] \in mask[r[2]]
      BY <3>1, <3>3, <3>4, WordWrite
    <3>. QED  BY <2>2, <3>2, <3>5
  <2>3. ASSUME NEW a \in Apps
        PROVE  pc'[a] = pc[a] \/ (pc[a] = "sleep" /\ pc'[a] = "woken")
    BY <1>1 DEF SchedSet, Sleeping, TypeOK
  <2>4. ASSUME NEW a \in Apps, NEW p \in Uses[a], TrueAt(a, p)
        PROVE  TrueAt(a, p)'
    <3>1. p \in Points
      OBVIOUS
    <3>2. wp'[p].wakeup /\ p[1] \in mask'[p[2]] => wp[p].wakeup /\ p[1] \in mask[p[2]]
      <4>1. p = scur => ~wp[p].wakeup
        BY <2>1, <2>4 DEF TrueAt
      <4>. QED  BY <2>1, <2>2, <3>1, <4>1
    <3>. QED  BY <2>1, <2>3, <2>4, <3>2 DEF TrueAt, Hits
  <2>. QED  BY <2>1, <2>4 DEF TruthInv, SchedWord, Counts, Selects, GivesSenders
<1>2. CASE SchedCheck
  <2>1. /\ Head(todo) \in Points /\ spc = "process"
        /\ UNCHANGED <<mask, pc, cur, tmp, ready, scan, found>>
    BY <1>2 DEF SchedCheck, TypeOK, appVars
  <2>2. \/ /\ wp' = [wp EXCEPT ![Head(todo)].wakeup = FALSE]
           /\ scur' = Head(todo) /\ spc' = "set"
           /\ stmp' = ReadWord(Head(todo)[2], WordOf[Head(todo)[1]])
        \/ UNCHANGED <<wp, scur, spc, stmp>>
    BY <1>2 DEF SchedCheck
  <2>3. ASSUME NEW p \in Points
        PROVE  /\ wp'[p].wakeup => wp[p].wakeup
               /\ spc' = "set" /\ scur' = p => ~wp'[p].wakeup
    BY <2>1, <2>2 DEF TypeOK
  <2>4. SchedWord'
    BY <2>1, <2>2 DEF SchedWord, ReadWord, InWord
  <2>5. ASSUME NEW a \in Apps, NEW p \in Uses[a], TrueAt(a, p)
        PROVE  TrueAt(a, p)'
    <3>1. p \in Points
      OBVIOUS
    <3>. QED  BY <2>1, <2>3, <2>5, <3>1 DEF TrueAt, Hits
  <2>. QED  BY <2>4, <2>5 DEF TruthInv, Counts, Selects, GivesSenders
<1>3. CASE SchedBroadcast
  <2>1. /\ spc = "process" /\ spc' = "timer"
        /\ UNCHANGED <<wp, mask, scur, cur, tmp, ready, scan, found>>
    BY <1>3 DEF SchedBroadcast
  <2>2. ASSUME NEW a \in Apps
        PROVE  pc'[a] = pc[a] \/ (pc[a] = "selSleep" /\ pc'[a] = "selWoken")
    BY <1>3 DEF SchedBroadcast
  <2>3. ASSUME NEW a \in Apps, NEW p \in Uses[a], TrueAt(a, p)
        PROVE  TrueAt(a, p)'
    BY <2>1, <2>2, <2>3 DEF TrueAt, Hits
  <2>. QED  BY <2>1, <2>3 DEF TruthInv, SchedWord, Counts, Selects, GivesSenders
<1>4. CASE SchedLock \/ SchedTimer
  <2>1. /\ spc # "set" /\ spc' # "set"
        /\ UNCHANGED <<wp, mask, pc, cur, tmp, ready, scan, found>>
    BY <1>4 DEF SchedLock, SchedTimer, appVars
  <2>2. ASSUME NEW a \in Apps, NEW p \in Uses[a], TrueAt(a, p)
        PROVE  TrueAt(a, p)'
    BY <2>1, <2>2 DEF TrueAt, Hits
  <2>. QED  BY <2>1, <2>2 DEF TruthInv, SchedWord, Counts, Selects, GivesSenders
<1>. QED  BY <1>1, <1>2, <1>3, <1>4 DEF SchedNext

\* A step of a selecting thread, and what it does to a point of its own.
LEMMA TruthSelect ==
  ASSUME TypeOK, WaitInv, ControlInv, FoundIsOwn, OwnWords,
         NEW a \in Apps, Selects(a), AppNext(a), NEW p \in Uses[a],
         Counts(a, p), TrueAt(a, p)
  PROVE  TrueAt(a, p)'
<1>1. p \in Points /\ p[1] \notin Blocking /\ p[1] \in Sessions /\ p[2] \in Dirs
  BY DEF Selects, Points
<1>2. CASE Call(a)
  <2>1. PICK q \in ready[a] : Call(a)!(q)
    BY <1>2 DEF Call
  <2>2. q \in Points /\ q[1] \notin Blocking /\ wpLock[q] = NoThread
    BY <2>1 DEF WaitInv, ReadyAreOwn, Selects, TypeOK
  <2>3. /\ pc[a] = "idle" /\ cur'[a] = q /\ ready'[a] = ready[a] \ {q}
        /\ UNCHANGED <<mask, spc, scur>>
    BY <2>1 DEF schedVars, TypeOK
  <2>4. \/ /\ pc'[a] = "clr"
           /\ wp' = [wp EXCEPT ![q] = [time |-> PacketTime(q), wakeup |-> TRUE]]
        \/ pc'[a] = "set" /\ wp' = wp
    BY <2>1, <2>2 DEF TypeOK
  <2>5. ~(wp[p].wakeup /\ p[1] \in mask[p[2]])
    BY <2>3 DEF TrueAt
  <2>6. CASE p # q
    <3>1. wp'[p] = wp[p]
      BY <2>4, <2>6 DEF TypeOK
    <3>. QED  BY <2>3, <2>4, <2>5, <2>6, <3>1 DEF TrueAt
  <2>7. CASE p = q
    <3>1. ~wp[p].wakeup
      BY <2>7 DEF TrueAt
    <3>2. ~(spc = "set" /\ scur = p)
      BY <2>2, <2>7 DEF WaitInv, SchedSignals, Threads
    <3>. QED  BY <2>3, <2>4, <2>7, <3>1, <3>2 DEF TrueAt
  <2>. QED  BY <2>6, <2>7
<1>3. CASE Awake(a)
  <2>1. pc[a] \in {"sleep", "woken"}
    BY <1>3 DEF Awake
  <2>2. cur[a] \in Uses[a] /\ cur[a][1] \in Blocking
    BY <2>1 DEF WaitInv, CallsAreOwn, ControlInv, CallSleeps
  <2>. QED  BY <2>2 DEF Selects
<1>4. CASE ReadMask(a)
  <2>1. /\ \/ pc[a] = "clr" /\ pc'[a] = "clrWrite"
           \/ pc[a] = "set" /\ pc'[a] = "setWrite"
        /\ UNCHANGED <<wp, mask, ready, spc, scur, cur>>
    BY <1>4 DEF ReadMask, schedVars, TypeOK
  <2>. QED  BY <2>1 DEF TrueAt
<1>5. CASE WriteMask(a)
  <2>1. /\ pc[a] \in {"clrWrite", "setWrite"} /\ cur[a] \in Points
        /\ mask' = WriteWord(cur[a][2], WordOf[cur[a][1]], NewWord(a))
        /\ pc'[a] = "idle"
        /\ UNCHANGED <<wp, spc, scur, cur, ready>>
    BY <1>5 DEF WriteMask, TypeOK, schedVars
  <2>2. NewWord(a) \in SUBSET Sessions /\ NewWord(a) \subseteq InWord(WordOf[cur[a][1]])
    BY <2>1 DEF NewWord, TypeOK, Points, ControlInv, CallWord, InWord
  <2>3. wp[p].wakeup => ~(p[1] \in mask'[p[2]])
    <3>1. CASE p = cur[a]
      <4>1. CASE pc[a] = "setWrite"
        BY <3>1, <4>1 DEF TrueAt
      <4>2. CASE pc[a] = "clrWrite"
        <5>1. p[1] \notin NewWord(a) /\ p[1] \in InWord(WordOf[p[1]])
          BY <1>1, <3>1, <4>2 DEF NewWord, InWord
        <5>. QED  BY <1>1, <2>1, <3>1, <5>1 DEF WriteWord, TypeOK
      <4>. QED  BY <2>1, <4>1, <4>2
    <3>2. CASE p # cur[a]
      <4>1. mask \in [Dirs -> SUBSET Sessions]
        BY DEF TypeOK
      <4>2. PICK q \in Points, v \in SUBSET Sessions : q = cur[a] /\ v = NewWord(a)
        BY <2>1, <2>2
      <4>3. mask' = WriteWord(q[2], WordOf[q[1]], v) /\ v \subseteq InWord(WordOf[q[1]])
        BY <2>1, <2>2, <4>2
      <4>4. \A r \in Points : r # q /\ r[1] \in mask'[r[2]] => r[1] \in mask[r[2]]
        BY <4>1, <4>3, WordWrite
      <4>5. p[1] \in mask'[p[2]] => p[1] \in mask[p[2]]
        BY <1>1, <3>2, <4>2, <4>4
      <4>. QED  BY <3>2, <4>5 DEF TrueAt
    <3>. QED  BY <3>1, <3>2
  <2>. QED  BY <2>1, <2>3 DEF TrueAt
<1>6. CASE Again(a)
  BY <1>6 DEF Again
<1>7. CASE SelLock(a)
  <2>1. /\ pc[a] \in {"idle", "selWoken", "selSleep"} /\ pc'[a] = "selRead"
        /\ found'[a] = {} /\ UNCHANGED <<wp, mask, ready, spc, scur>>
    BY <1>7 DEF SelLock, schedVars, TypeOK
  <2>. QED  BY <2>1 DEF TrueAt
<1>8. CASE SelRead(a)
  <2>1. PICK dw \in words[a] : SelRead(a)!(dw)
    BY <1>8 DEF SelRead
  <2>2. /\ pc[a] = "selRead" /\ pc'[a] = "selWrite"
        /\ tmp'[a] = ReadWord(dw[1], dw[2]) /\ scan'[a] = dw
        /\ UNCHANGED <<wp, mask, ready, found, spc, scur>>
    BY <2>1 DEF schedVars, TypeOK
  <2>3. p \in Hits(a)' => p[1] \in mask[p[2]]
    BY <2>2 DEF Hits, ReadWord
  <2>. QED  BY <2>2, <2>3 DEF TrueAt
<1>9. CASE SelWrite(a)
  <2>1. /\ pc[a] = "selWrite" /\ pc'[a] \in {"selRead", "selEnd", "selLoop"}
        /\ mask' = WriteWord(scan[a][1], scan[a][2], tmp[a] \ {q[1] : q \in Hits(a)})
        /\ found'[a] = found[a] \cup Hits(a)
        /\ UNCHANGED <<wp, ready, spc, scur>>
    BY <1>9 DEF SelWrite, schedVars, TypeOK
  <2>2. p[1] \in mask'[p[2]] => p[1] \in mask[p[2]]
    <3>1. p[2] = scan[a][1] /\ p[1] \in tmp[a] => p \in Hits(a)
      BY DEF Hits
    <3>. QED  BY <1>1, <2>1, <3>1 DEF WriteWord, TypeOK
  <2>. QED  BY <2>1, <2>2 DEF TrueAt
<1>10. CASE SelEnd(a)
  <2>1. /\ pc[a] = "selEnd" /\ pc'[a] \in {"idle", "selSleep"}
        /\ ready'[a] = ready[a] \/ (found[a] # {} /\ ready'[a] = SelResult(a))
        /\ UNCHANGED <<wp, mask, spc, scur>>
    BY <1>10 DEF SelEnd, schedVars, TypeOK
  <2>2. p \in ready'[a] => ~wp[p].wakeup
    BY <2>1, ResultIsFound DEF TrueAt
  <2>. QED  BY <2>1, <2>2 DEF TrueAt
<1>11. CASE SelTimeout(a)
  <2>1. /\ pc[a] \in {"selWoken", "selSleep"} /\ pc'[a] = "idle"
        /\ UNCHANGED <<wp, mask, ready, spc, scur>>
    BY <1>11 DEF SelTimeout, schedVars, TypeOK
  <2>. QED  BY <2>1 DEF TrueAt
<1>. QED
  BY <1>2, <1>3, <1>4, <1>5, <1>6, <1>7, <1>8, <1>9, <1>10, <1>11 DEF AppNext, CallNext, SelectNext

LEMMA TruthApp ==
  ASSUME TypeOK, WaitInv, ControlInv, FoundIsOwn, TruthInv, OwnWords, OneSelect,
         NEW b \in Apps, AppNext(b)
  PROVE  TruthInv'
<1>1. ASSUME NEW a \in Apps, NEW p \in Uses[a], Selects(a), Counts(a, p)
      PROVE  TrueAt(a, p)'
  <2>1. TrueAt(a, p)
    BY <1>1 DEF TruthInv
  <2>2. CASE Selects(b)
    <3>1. a = b
      BY <1>1, <2>2 DEF OneSelect
    <3>. QED  BY <1>1, <2>1, <3>1, TruthSelect
  <2>3. CASE ~Selects(b)
    <3>1. a # b /\ p \in Points /\ p \notin Uses[b]
      BY <1>1, <2>3
    <3>2. /\ wp'[p] = wp[p] /\ UNCHANGED <<spc, scur>>
          /\ p[1] \in mask'[p[2]] <=> p[1] \in mask[p[2]]
          /\ pc'[a] = pc[a] /\ cur'[a] = cur[a] /\ tmp'[a] = tmp[a]
          /\ ready'[a] = ready[a] /\ scan'[a] = scan[a] /\ found'[a] = found[a]
      BY <2>3, <3>1, CallElsewhere
    <3>3. Hits(a)' = Hits(a)
      BY <3>2 DEF Hits
    <3>. QED  BY <2>1, <3>2, <3>3 DEF TrueAt
  <2>. QED  BY <2>2, <2>3
<1>2. SchedWord'
  <2>1. UNCHANGED schedVars
    BY DEF AppNext, CallNext, SelectNext, Call, Awake, ReadMask, WriteMask, Again, SelLock, SelRead,
           SelWrite, SelEnd, SelTimeout
  <2>. QED  BY <2>1 DEF schedVars, TruthInv, SchedWord, InWord
<1>. QED  BY <1>1, <1>2 DEF TruthInv, Counts, Selects, GivesSenders

LEMMA TruthInductive ==
  ASSUME OwnWords, OneSelect
  PROVE  SystemSpec => []TruthInv
<1>1. /\ TypeOK /\ WaitInv /\ ControlInv /\ FoundIsOwn /\ TruthInv /\ [SystemNext]_systemVars
      => TruthInv'
  <2>. SUFFICES ASSUME TypeOK, WaitInv, ControlInv, FoundIsOwn, TruthInv, [SystemNext]_systemVars
                PROVE  TruthInv'
    OBVIOUS
  <2>1. CASE UNCHANGED systemVars
    BY <2>1 DEF systemVars, schedVars, appVars, TruthInv, SchedWord, InWord, TrueAt, Hits,
         Counts, Selects, GivesSenders
  <2>. QED  BY NextIsOne, <2>1, TruthSched, TruthApp
<1>. QED
  BY <1>1, TruthInit, TypeCorrect, WaitInductive, ControlInductive, FoundInductive,
     PTL DEF SystemSpec

\* A session that session_set_select returns among the senders, or among the
\* receivers of a thread that gives it no senders, had an event: the wait point
\* of its last call is no longer armed.  As for SelectLosesNoEvent, words that
\* are shared and a second thread that selects are excluded: either writes back
\* a bit that a call has cleared meanwhile.
THEOREM SelectTellsTheTruth ==
  ASSUME OwnWords, OneSelect
  PROVE  SystemSpec => SelectIsOnTime
<1>1. TypeOK /\ ControlInv /\ FoundIsOwn /\ TruthInv /\ [SystemNext]_systemVars
      => [\A a \in Apps : SelectReturned(a) =>
            \A p \in ready'[a] : p[2] = "snd" \/ ~GivesSenders(a) => ~wp[p].wakeup]_systemVars
  <2>. SUFFICES ASSUME TypeOK, ControlInv, FoundIsOwn, TruthInv, [SystemNext]_systemVars,
                       NEW a \in Apps, SelectReturned(a),
                       NEW p \in ready'[a], p[2] = "snd" \/ ~GivesSenders(a)
                PROVE  ~wp[p].wakeup
    OBVIOUS
  <2>1. SelEnd(a)
    BY OnlySelEnd DEF SelectReturned
  <2>2. found[a] # {} /\ ready'[a] = SelResult(a) /\ pc[a] = "selEnd"
    BY <2>1 DEF SelEnd, TypeOK, SelectReturned
  <2>3. Selects(a)
    BY <2>2 DEF ControlInv, SelectOwn, SelStates
  <2>4. p \in found[a] /\ p \in Uses[a]
    BY <2>2, ResultIsFound DEF Counts, FoundIsOwn
  <2>. QED  BY <2>2, <2>3, <2>4 DEF TruthInv, TrueAt, Counts
<1>. QED
  BY <1>1, TypeCorrect, ControlInductive, FoundInductive, TruthInductive, PTL
     DEF SystemSpec, SelectIsOnTime
-----------------------------------------------------------------------------
(***************************************************************************)
(* SchedRegistry.  Places are never mixed up as long as they suffice, and  *)
(* a session that is gone is not in the list, unless its scheduling was    *)
(* switched off.                                                           *)
(*                                                                         *)
(* The invariant: the flag IN_SCHEDULER says whether a session is in the   *)
(* list, no session is there twice, and one that is there without the flag *)
(* SCHEDULED has been switched off.                                        *)
(***************************************************************************)
HIDE SchedAssumption DEF SchedAssumption
USE RegistryAssumption DEF RegistryAssumption

RegistryTypes ==
  /\ life \in [RtpSessions -> {"none", "alive", "freed"}]
  /\ scheduled \in [RtpSessions -> BOOLEAN] /\ inScheduler \in [RtpSessions -> BOOLEAN]
  /\ list \in Seq(RtpSessions)
  /\ maskPos \in [RtpSessions -> Nat]
  /\ allSessions \subseteq 0..MaxSessions - 1 /\ allMax \in Nat
  /\ overfull \in BOOLEAN /\ switchedOff \subseteq RtpSessions

ListedOnce == \A i, j \in DOMAIN list : list[i] = list[j] => i = j
FlagIsTrue == Listed = {s \in RtpSessions : inScheduler[s]}
OffIsKnown == \A s \in Listed : ~scheduled[s] => s \in switchedOff

RegistryInv ==
  /\ RegistryTypes /\ ListedOnce /\ FlagIsTrue /\ OffIsKnown
  /\ PlacesAreTheirs /\ FreedIsUnlisted
-----------------------------------------------------------------------------
LEMMA LeastPlace ==
  ASSUME NEW S \in SUBSET Nat, S # {}
  PROVE  Min(S) \in S
<1>. DEFINE Less == {p \in Nat \X Nat : p[1] < p[2]}
<1>0. \A i, j \in Nat : <<i, j>> \in Less <=> i < j
  OBVIOUS
<1>1. \E n \in S : \A m \in S : n =< m
  <2>1. IsWellFoundedOn(Less, Nat)
    BY NatLessThanWellFounded DEF OpToRel
  <2>. HIDE DEF Less
  <2>2. \E n \in S : \A m \in S : ~(<<m, n>> \in Less)
    BY <2>1, WFMin, Zenon
  <2>3. PICK n \in S : \A m \in S : ~(<<m, n>> \in Less)
    BY <2>2
  <2>4. ASSUME NEW m \in S  PROVE  n =< m
    <3>1. m \in Nat /\ n \in Nat /\ ~(<<m, n>> \in Less)
      BY <2>3
    <3>2. ~(m < n)
      BY <3>1, <1>0
    <3>. QED  BY <3>1, <3>2
  <2>. QED  BY <2>4
<1>. QED  BY <1>1 DEF Min

LEMMA LargestOfTwo ==
  ASSUME NEW a \in Nat, NEW b \in Nat
  PROVE  /\ Max({a, b}) \in Nat
         /\ Max({a, b}) >= a /\ Max({a, b}) >= b
<1>1. \E x \in {a, b} : \A y \in {a, b} : x >= y
  OBVIOUS
<1>2. Max({a, b}) \in {a, b} /\ \A y \in {a, b} : Max({a, b}) >= y
  BY <1>1 DEF Max
<1>. QED  BY <1>2

\* A session put in front of the list.
LEMMA InFront ==
  ASSUME NEW q \in Seq(RtpSessions), NEW s \in RtpSessions
  PROVE  /\ <<s>> \o q \in Seq(RtpSessions)
         /\ ToSet(<<s>> \o q) = ToSet(q) \cup {s}
         /\ (s \notin ToSet(q) /\ \A i, j \in DOMAIN q : q[i] = q[j] => i = j)
              => \A i, j \in DOMAIN (<<s>> \o q) :
                    (<<s>> \o q)[i] = (<<s>> \o q)[j] => i = j
<1>. DEFINE r == <<s>> \o q
<1>1. /\ r \in Seq(RtpSessions) /\ Len(r) = Len(q) + 1 /\ r[1] = s
      /\ \A i \in 2..Len(r) : r[i] = q[i - 1]
  OBVIOUS
<1>2. \A x : x \in ToSet(r) <=> x \in ToSet(q) \/ x = s
  <2>1. ASSUME NEW x \in ToSet(r)  PROVE  x \in ToSet(q) \/ x = s
    BY <1>1 DEF ToSet
  <2>2. ASSUME NEW i \in DOMAIN q  PROVE  q[i] \in ToSet(r)
    <3>1. i + 1 \in 2..Len(r) /\ r[i + 1] = q[i]
      BY <1>1
    <3>. QED  BY <3>1, <1>1 DEF ToSet
  <2>3. s \in ToSet(r)
    BY <1>1 DEF ToSet
  <2>. QED  BY <2>1, <2>2, <2>3 DEF ToSet
<1>3. ASSUME s \notin ToSet(q), \A i, j \in DOMAIN q : q[i] = q[j] => i = j,
             NEW i \in DOMAIN r, NEW j \in DOMAIN r, r[i] = r[j]
      PROVE  i = j
  <2>1. \A k \in 2..Len(r) : k - 1 \in DOMAIN q /\ r[k] = q[k - 1] /\ r[k] # s
    BY <1>1, <1>3 DEF ToSet
  <2>. QED  BY <1>1, <1>3, <2>1
<1>. QED  BY <1>1, <1>2, <1>3

\* A session taken out of the list.
LEMMA TakenOut ==
  ASSUME NEW q \in Seq(RtpSessions), NEW k \in DOMAIN q,
         \A i, j \in DOMAIN q : q[i] = q[j] => i = j
  PROVE  /\ RemoveAt(q, k) \in Seq(RtpSessions)
         /\ ToSet(RemoveAt(q, k)) = ToSet(q) \ {q[k]}
         /\ \A i, j \in DOMAIN RemoveAt(q, k) :
              RemoveAt(q, k)[i] = RemoveAt(q, k)[j] => i = j
<1>. DEFINE before == SubSeq(q, 1, k - 1)
            after  == SubSeq(q, k + 1, Len(q))
            r == before \o after
<1>0. RemoveAt(q, k) = r
  BY DEF RemoveAt
<1>a. k \in 1..Len(q) /\ Len(q) \in Nat
  OBVIOUS
<1>b. before \in Seq(RtpSessions) /\ Len(before) = k - 1 /\ \A i \in 1..k - 1 : before[i] = q[i]
  BY <1>a, SubSeqProperties
<1>c. after \in Seq(RtpSessions) /\ Len(after) = Len(q) - k
      /\ \A i \in 1..Len(q) - k : after[i] = q[k + i]
  <2>1. \A i \in k + 1..Len(q) : q[i] \in RtpSessions
    BY <1>a
  <2>2. k + 1 \in 1..Len(q) + 1 /\ Len(q) \in k..Len(q)
    BY <1>a
  <2>. QED  BY <1>a, <2>1, <2>2, SubSeqProperties
<1>. HIDE DEF before, after
<1>1. /\ r \in Seq(RtpSessions) /\ Len(r) = Len(q) - 1
      /\ \A i \in 1..k - 1 : r[i] = q[i]
      /\ \A i \in k..Len(r) : r[i] = q[i + 1]
  <2>1. r \in Seq(RtpSessions) /\ Len(r) = Len(q) - 1
    BY <1>a, <1>b, <1>c
  <2>2. ASSUME NEW i \in 1..k - 1  PROVE  r[i] = q[i]
    <3>1. i \in 1..Len(before) + Len(after) /\ i =< Len(before)
      BY <1>a, <1>b, <1>c
    <3>2. r[i] = before[i]
      BY <3>1, <1>b, <1>c
    <3>. QED  BY <3>2, <1>b
  <2>3. ASSUME NEW i \in k..Len(r)  PROVE  r[i] = q[i + 1]
    <3>1. i \in 1..Len(before) + Len(after) /\ i > Len(before)
      BY <2>1, <1>a, <1>b, <1>c
    <3>2. r[i] = after[i - Len(before)]
      BY <3>1, <1>b, <1>c
    <3>3. i - Len(before) \in 1..Len(q) - k /\ k + (i - Len(before)) = i + 1
      BY <2>1, <1>a, <1>b, <1>c
    <3>. QED  BY <3>2, <3>3, <1>c
  <2>. QED  BY <2>1, <2>2, <2>3
<1>. HIDE DEF r
<1>2. \A x \in ToSet(r) : x \in ToSet(q) \ {q[k]}
  <2>1. ASSUME NEW i \in DOMAIN r  PROVE  r[i] \in ToSet(q) \ {q[k]}
    <3>1. CASE i < k
      BY <3>1, <1>1 DEF ToSet
    <3>2. CASE i >= k
      <4>1. i + 1 \in DOMAIN q /\ r[i] = q[i + 1] /\ i + 1 # k
        BY <3>2, <1>1, <1>a
      <4>. QED  BY <4>1 DEF ToSet
    <3>. QED  BY <3>1, <3>2, <1>1
  <2>. QED  BY <2>1 DEF ToSet
<1>3. ASSUME NEW i \in DOMAIN q, i # k  PROVE  q[i] \in ToSet(r)
  <2>1. CASE i < k
    BY <2>1, <1>1 DEF ToSet
  <2>2. CASE i > k
    <3>1. i - 1 \in k..Len(r) /\ r[i - 1] = q[i]
      BY <2>2, <1>1
    <3>. QED  BY <3>1, <1>1 DEF ToSet
  <2>. QED  BY <2>1, <2>2, <1>3
<1>4. ASSUME NEW i \in DOMAIN r, NEW j \in DOMAIN r, r[i] = r[j]  PROVE  i = j
  <2>1. CASE i < k /\ j < k
    <3>1. i \in DOMAIN q /\ j \in DOMAIN q /\ r[i] = q[i] /\ r[j] = q[j]
      BY <2>1, <1>1, <1>a
    <3>. QED  BY <3>1, <1>4
  <2>2. CASE i >= k /\ j >= k
    <3>1. i + 1 \in DOMAIN q /\ j + 1 \in DOMAIN q /\ q[i + 1] = q[j + 1]
      BY <2>2, <1>1, <1>4, <1>a
    <3>. QED  BY <3>1, <1>1
  <2>3. CASE i < k /\ j >= k
    <3>1. i \in DOMAIN q /\ j + 1 \in DOMAIN q /\ q[i] = q[j + 1]
      BY <2>3, <1>1, <1>4, <1>a
    <3>. QED  BY <3>1, <2>3, <1>1
  <2>4. CASE i >= k /\ j < k
    <3>1. i + 1 \in DOMAIN q /\ j \in DOMAIN q /\ q[i + 1] = q[j]
      BY <2>4, <1>1, <1>4, <1>a
    <3>. QED  BY <3>1, <2>4, <1>1
  <2>. QED  BY <2>1, <2>2, <2>3, <2>4, <1>1
<1>5. ToSet(r) = ToSet(q) \ {q[k]}
  BY <1>2, <1>3 DEF ToSet
<1>. QED  BY <1>0, <1>1, <1>4, <1>5
-----------------------------------------------------------------------------
LEMMA RegistryStarts == RegistryInit => RegistryInv
<1>. SUFFICES ASSUME RegistryInit PROVE RegistryInv
  OBVIOUS
<1>1. list = <<>> /\ Listed = {}
  BY DEF RegistryInit, Listed, ToSet
<1>2. RegistryTypes
  <2>1. list \in Seq(RtpSessions) /\ allSessions \subseteq 0..MaxSessions - 1 /\ allMax \in Nat
    BY <1>1 DEF RegistryInit
  <2>2. /\ scheduled \in [RtpSessions -> BOOLEAN] /\ inScheduler \in [RtpSessions -> BOOLEAN]
        /\ maskPos \in [RtpSessions -> Nat] /\ life \in [RtpSessions -> {"none", "alive", "freed"}]
    BY DEF RegistryInit
  <2>3. overfull \in BOOLEAN /\ switchedOff \subseteq RtpSessions
    BY DEF RegistryInit
  <2>. QED  BY <2>1, <2>2, <2>3 DEF RegistryTypes
<1>3. ListedOnce /\ OffIsKnown /\ FreedIsUnlisted
  BY <1>1 DEF ListedOnce, OffIsKnown, FreedIsUnlisted
<1>4. FlagIsTrue
  BY <1>1 DEF RegistryInit, FlagIsTrue
<1>5. PlacesAreTheirs
  BY <1>1 DEF RegistryInit, PlacesAreTheirs
<1>. QED  BY <1>2, <1>3, <1>4, <1>5 DEF RegistryInv

LEMMA CreateKeeps ==
  ASSUME RegistryInv, NEW s \in RtpSessions, Create(s)
  PROVE  RegistryInv'
<1>. USE DEF RegistryInv, Create
<1>1. Listed' = Listed /\ s \notin Listed
  BY DEF Listed
<1>2. RegistryTypes' /\ ListedOnce'
  BY DEF RegistryTypes, ListedOnce
<1>3. FlagIsTrue'
  BY <1>1 DEF FlagIsTrue, RegistryTypes
<1>4. OffIsKnown' /\ PlacesAreTheirs' /\ FreedIsUnlisted'
  <2>1. \A t \in Listed : t # s /\ t \in RtpSessions
    BY <1>1 DEF FlagIsTrue
  <2>2. \A t \in Listed : /\ scheduled'[t] = scheduled[t] /\ maskPos'[t] = maskPos[t]
                          /\ life'[t] = life[t] /\ (t \in switchedOff => t \in switchedOff')
    BY <2>1 DEF RegistryTypes
  <2>3. OffIsKnown' /\ FreedIsUnlisted'
    BY <1>1, <2>2 DEF OffIsKnown, FreedIsUnlisted
  <2>4. {maskPos'[t] : t \in Listed} = {maskPos[t] : t \in Listed}
    BY <2>2
  <2>5. PlacesAreTheirs'
    BY <1>1, <2>2, <2>4 DEF PlacesAreTheirs
  <2>. QED  BY <2>3, <2>5
<1>. QED  BY <1>2, <1>3, <1>4

\* A place that is found is nobody else's.
LEMMA FreePlace ==
  ASSUME RegistryTypes, Free # {}
  PROVE  /\ Min(Free) \in 0..MaxSessions - 1 /\ Min(Free) \notin allSessions
         /\ Max({allMax, Min(Free)}) \in Nat
         /\ Max({allMax, Min(Free)}) >= allMax /\ Max({allMax, Min(Free)}) >= Min(Free)
<1>1. Free \in SUBSET Nat
  BY DEF Free
<1>2. Min(Free) \in Free
  BY <1>1, LeastPlace
<1>. HIDE DEF Free
<1>3. Min(Free) \in Nat /\ allMax \in Nat
  BY <1>1, <1>2 DEF RegistryTypes
<1>. QED  BY <1>2, <1>3, LargestOfTwo DEF Free

LEMMA SwitchOnKeeps ==
  ASSUME RegistryInv, NEW s \in RtpSessions, SwitchOn(s)
  PROVE  RegistryInv'
<1>. USE DEF RegistryInv, SwitchOn
<1>1. CASE inScheduler[s]
  <2>1. list' = list /\ Listed' = Listed /\ UNCHANGED <<inScheduler, maskPos, allSessions,
              allMax, overfull, life, switchedOff>>
    BY <1>1 DEF Listed
  <2>2. scheduled' \in [RtpSessions -> BOOLEAN] /\ \A t \in RtpSessions : ~scheduled'[t] => ~scheduled[t]
    BY DEF RegistryTypes
  <2>3. Listed \subseteq RtpSessions
    BY DEF FlagIsTrue
  <2>4. RegistryTypes' /\ ListedOnce' /\ FlagIsTrue'
    BY <2>1, <2>2 DEF RegistryTypes, ListedOnce, FlagIsTrue
  <2>5. OffIsKnown' /\ PlacesAreTheirs' /\ FreedIsUnlisted'
    BY <2>1, <2>2, <2>3 DEF OffIsKnown, PlacesAreTheirs, FreedIsUnlisted
  <2>. QED  BY <2>4, <2>5
<1>2. CASE ~inScheduler[s]
  <2>1. s \notin Listed /\ Listed \subseteq RtpSessions
    BY <1>2 DEF FlagIsTrue
  <2>2. list' = <<s>> \o list /\ inScheduler' = [inScheduler EXCEPT ![s] = TRUE]
        /\ scheduled' = [scheduled EXCEPT ![s] = TRUE] /\ UNCHANGED <<life, switchedOff>>
    BY <1>2
  <2>3. list' \in Seq(RtpSessions) /\ Listed' = Listed \cup {s} /\ ListedOnce'
    BY <2>1, <2>2, InFront DEF RegistryTypes, Listed, ListedOnce
  <2>4. FlagIsTrue'
    BY <2>2, <2>3 DEF FlagIsTrue, RegistryTypes
  <2>5. OffIsKnown'
    BY <2>1, <2>2, <2>3 DEF OffIsKnown, RegistryTypes
  <2>6. FreedIsUnlisted'
    BY <2>2, <2>3 DEF FreedIsUnlisted
  <2>7. RegistryTypes' /\ PlacesAreTheirs'
    <3>1. CASE Free = {}
      BY <1>2, <2>2, <2>3, <3>1 DEF RegistryTypes, PlacesAreTheirs
    <3>2. CASE Free # {}
      <4>. DEFINE p == Min(Free)
      <4>1. /\ p \in 0..MaxSessions - 1 /\ p \notin allSessions
            /\ Max({allMax, p}) \in Nat /\ Max({allMax, p}) >= allMax /\ Max({allMax, p}) >= p
        BY <3>2, FreePlace
      <4>2. /\ maskPos' = [maskPos EXCEPT ![s] = p]
            /\ allSessions' = allSessions \cup {p}
            /\ allMax' = Max({allMax, p}) /\ overfull' = overfull
        BY <1>2, <3>2
      <4>. HIDE DEF p
      <4>3. RegistryTypes'
        BY <2>2, <2>3, <4>1, <4>2 DEF RegistryTypes
      <4>4. ASSUME ~overfull  PROVE PlacesAreTheirs'
        <5>1. allSessions = {maskPos[t] : t \in Listed}
          BY <4>4 DEF PlacesAreTheirs
        <5>2. maskPos'[s] = p /\ \A t \in Listed : maskPos'[t] = maskPos[t] /\ maskPos[t] # p
          BY <2>1, <4>1, <4>2, <5>1 DEF RegistryTypes
        <5>3. {maskPos'[t] : t \in Listed'} = allSessions'
          BY <2>3, <4>2, <5>1, <5>2
        <5>4. \A q \in allSessions' : q =< allMax'
          BY <4>1, <4>2, <4>4 DEF PlacesAreTheirs, RegistryTypes
        <5>5. \A t, u \in Listed' : maskPos'[t] = maskPos'[u] => t = u
          BY <2>3, <4>4, <5>2 DEF PlacesAreTheirs
        <5>. QED  BY <5>3, <5>4, <5>5 DEF PlacesAreTheirs
      <4>5. ASSUME overfull  PROVE PlacesAreTheirs'
        BY <4>2, <4>5 DEF PlacesAreTheirs
      <4>. QED  BY <4>3, <4>4, <4>5 DEF RegistryTypes
    <3>. QED  BY <3>1, <3>2
  <2>. QED  BY <2>3, <2>4, <2>5, <2>6, <2>7
<1>. QED  BY <1>1, <1>2 DEF RegistryTypes

LEMMA SwitchOffKeeps ==
  ASSUME RegistryInv, NEW s \in RtpSessions, SwitchOff(s)
  PROVE  RegistryInv'
<1>. USE DEF RegistryInv, SwitchOff
<1>1. list' = list /\ Listed' = Listed /\ Listed \subseteq RtpSessions
  BY DEF Listed, FlagIsTrue
<1>2. RegistryTypes' /\ ListedOnce' /\ FlagIsTrue' /\ PlacesAreTheirs'
  BY <1>1 DEF RegistryTypes, ListedOnce, FlagIsTrue, PlacesAreTheirs
<1>3. OffIsKnown' /\ FreedIsUnlisted'
  BY <1>1 DEF OffIsKnown, FreedIsUnlisted, RegistryTypes
<1>. QED  BY <1>2, <1>3

LEMMA DestroyKeeps ==
  ASSUME RegistryInv, NEW s \in RtpSessions, Destroy(s)
  PROVE  RegistryInv'
<1>. USE DEF RegistryInv, Destroy
<1>1. CASE scheduled[s] /\ inScheduler[s]
  <2>. DEFINE k == Position(s)
  <2>1. s \in Listed /\ Listed \subseteq RtpSessions
    BY <1>1 DEF FlagIsTrue
  <2>2. k \in DOMAIN list /\ list[k] = s
    BY <2>1 DEF Listed, ToSet, Position
  <2>3. list' = RemoveAt(list, k)
    BY <1>1 DEF Unlink
  <2>. HIDE DEF k
  <2>4. list' \in Seq(RtpSessions) /\ Listed' = Listed \ {s} /\ ListedOnce'
    BY <2>2, <2>3, TakenOut DEF RegistryTypes, ListedOnce, Listed
  <2>5. /\ inScheduler' = [inScheduler EXCEPT ![s] = FALSE]
        /\ allSessions' = allSessions \ {maskPos[s]}
        /\ life' = [life EXCEPT ![s] = "freed"]
        /\ UNCHANGED <<scheduled, maskPos, allMax, overfull, switchedOff>>
    BY <1>1 DEF Cleared
  <2>6. RegistryTypes' /\ FlagIsTrue'
    BY <2>4, <2>5 DEF RegistryTypes, FlagIsTrue
  <2>7. OffIsKnown' /\ FreedIsUnlisted'
    BY <2>1, <2>4, <2>5 DEF OffIsKnown, FreedIsUnlisted, RegistryTypes
  <2>8. PlacesAreTheirs'
    <3>. SUFFICES ASSUME ~overfull PROVE PlacesAreTheirs'
      BY <2>5 DEF PlacesAreTheirs
    <3>1. \A t, u \in Listed : maskPos[t] = maskPos[u] => t = u
      BY DEF PlacesAreTheirs
    <3>2. allSessions = {maskPos[t] : t \in Listed}
      BY DEF PlacesAreTheirs
    <3>3. allSessions' = {maskPos[t] : t \in Listed'}
      BY <2>1, <2>4, <2>5, <3>1, <3>2
    <3>4. \A q \in allSessions' : q =< allMax'
      BY <2>5 DEF PlacesAreTheirs
    <3>5. \A t, u \in Listed' : maskPos'[t] = maskPos'[u] => t = u
      BY <2>4, <2>5, <3>1
    <3>. QED  BY <3>3, <3>4, <3>5 DEF PlacesAreTheirs
  <2>. QED  BY <2>4, <2>6, <2>7, <2>8
<1>2. CASE ~(scheduled[s] /\ inScheduler[s])
  <2>1. list' = list /\ Listed' = Listed /\ Listed \subseteq RtpSessions
    BY <1>2 DEF Listed, FlagIsTrue
  <2>2. /\ life' = [life EXCEPT ![s] = "freed"]
        /\ UNCHANGED <<inScheduler, scheduled, maskPos, allSessions, allMax, overfull, switchedOff>>
    BY <1>2
  <2>3. s \in Listed => s \in switchedOff
    BY <1>2 DEF FlagIsTrue, OffIsKnown
  <2>4. RegistryTypes' /\ ListedOnce' /\ FlagIsTrue' /\ OffIsKnown' /\ PlacesAreTheirs'
    BY <2>1, <2>2 DEF RegistryTypes, ListedOnce, FlagIsTrue, OffIsKnown, PlacesAreTheirs
  <2>5. FreedIsUnlisted'
    BY <2>1, <2>2, <2>3 DEF FreedIsUnlisted, RegistryTypes
  <2>. QED  BY <2>4, <2>5
<1>. QED  BY <1>1, <1>2

LEMMA RegistryKeeps == RegistryInv /\ [RegistryNext]_registryVars => RegistryInv'
<1>. SUFFICES ASSUME RegistryInv, [RegistryNext]_registryVars PROVE RegistryInv'
  OBVIOUS
<1>1. CASE RegistryNext
  <2>1. PICK s \in RtpSessions : Create(s) \/ SwitchOn(s) \/ SwitchOff(s) \/ Destroy(s)
    BY <1>1 DEF RegistryNext
  <2>. QED  BY <2>1, CreateKeeps, SwitchOnKeeps, SwitchOffKeeps, DestroyKeeps
<1>2. CASE UNCHANGED registryVars
  BY <1>2 DEF registryVars, RegistryInv, RegistryTypes, ListedOnce, FlagIsTrue, OffIsKnown,
              PlacesAreTheirs, FreedIsUnlisted, Listed
<1>. QED  BY <1>1, <1>2
-----------------------------------------------------------------------------
\* However many sessions come and go: as long as the table was never full, no
\* two that the scheduler knows share a place in the masks of events, and no
\* place stays taken (rtp_scheduler_add_session, rtp_scheduler_remove_session).
THEOREM PlacesAreNeverMixed == RegistrySpec => []PlacesAreTheirs
<1>1. RegistryInv => PlacesAreTheirs
  BY DEF RegistryInv
<1>. QED  BY RegistryStarts, RegistryKeeps, <1>1, PTL DEF RegistrySpec

\* The scheduler goes through the memory of no session that is gone, unless its
\* scheduling was switched off (rtp_session_uninit).
THEOREM GoneIsUnlisted == RegistrySpec => []FreedIsUnlisted
<1>1. RegistryInv => FreedIsUnlisted
  BY DEF RegistryInv
<1>. QED  BY RegistryStarts, RegistryKeeps, <1>1, PTL DEF RegistrySpec
=============================================================================
