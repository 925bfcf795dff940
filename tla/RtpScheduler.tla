---------------------------- MODULE RtpScheduler ----------------------------
(***************************************************************************)
(* The RTP scheduler thread (ortp/scheduler.c), the wait points of the     *)
(* sessions (ortp/rtpsession.c) and session_set_select (ortp/sessionset.c):*)
(* how application threads wait until it is time to send or receive.       *)
(*                                                                         *)
(* A session has a wait point per direction, with its own mutex and        *)
(* condition.  The masks r_sessions and w_sessions have a bit per session. *)
(* The scheduler thread changes them under the scheduler's lock and the    *)
(* lock of a wait point, the application's send and receive calls under    *)
(* the lock of the wait point, select under the scheduler's lock: two      *)
(* threads may read, change and write back the same word of a mask at the  *)
(* same time, so reads and writes of a word are steps of their own.        *)
(***************************************************************************)
EXTENDS Integers, Sequences, FiniteSets

CONSTANTS
  List,          \* the scheduler's list of sessions, a sequence
  Apps,          \* application threads
  Uses,          \* Uses[a]: the wait points <<session, direction>> a works on
  Blocking,      \* sessions in RTP_SESSION_BLOCKING_MODE
  WordOf,        \* WordOf[s]: the word of the masks the bit of s is in
  SignBit,       \* sessions whose bit is the sign of its word (mask_pos 31, 63 ...)
  Period,        \* time between the packets of a stream, in timer ticks
  TimeSpace,     \* 2^32 in the code, in ticks here: sched->time_ wraps
  Spurious,      \* whether pthread_cond_wait may return without a signal
  NoThread, SchedThread

Sessions == {List[i] : i \in DOMAIN List}
Dirs    == {"rcv", "snd"}
Points  == Sessions \X Dirs
Times   == 0..TimeSpace - 1
Words   == {WordOf[s] : s \in Sessions}
Threads == Apps \cup {SchedThread}

\* Mutant of Round: the receive wait points are left out.
RoundOfSenders == [i \in 1..Len(List) |-> <<List[i], "snd">>]

\* The wait points in the order of a round of the scheduler: the send and then
\* the receive wait point of each session.
Round == [i \in 1..2 * Len(List) |->
            <<List[(i + 1) \div 2], IF i % 2 = 1 THEN "snd" ELSE "rcv">>]

ASSUME SchedAssumption ==
  /\ Uses \in [Apps -> SUBSET Points]
  /\ \A a, b \in Apps : a # b => Uses[a] \cap Uses[b] = {}
  /\ List # <<>> /\ List \in Seq(Sessions) /\ Blocking \subseteq Sessions
  /\ WordOf \in [Sessions -> Words] /\ SignBit \subseteq Sessions
  /\ TimeSpace \in Nat \ {0} /\ Period \in Nat \ {0}
  /\ Spurious \in BOOLEAN
  /\ NoThread \notin Threads /\ SchedThread \notin Apps

VARIABLES
  time,        \* sched->time_
  schedLock,   \* holder of sched->lock
  mask,        \* mask[d]: the sessions whose bit is set in r_/w_sessions
  wp,          \* wp[p]: the fields time and wakeup of a wait point
  wpLock,      \* wpLock[p]: holder of its mutex
  spc,         \* control of the scheduler thread
  todo,        \* wait points the scheduler has still to process in this round
  scur,        \* the wait point it works on
  stmp,        \* the word it has read
  pc,          \* pc[a]: control of application thread a
  cur,         \* cur[a]: the wait point of a's current call
  tmp,         \* tmp[a]: the word a has read
  ready,       \* ready[a]: points a will call before its next select
  words,       \* words[a]: words <<direction, word>> a's select has to read
  scan,        \* scan[a]: the one it is reading
  found,       \* found[a]: events a's select has taken out of the masks
  due,         \* due[p]: packet_time of the next call
  started      \* points whose SEND_/RECV_NOT_STARTED flag is off

schedVars == <<spc, todo, scur, stmp>>
appVars   == <<pc, cur, tmp, ready, words, scan, found, due, started>>
systemVars == <<time, schedLock, mask, wp, wpLock, schedVars, appVars>>

\* TIME_IS_NEWER_THAN and TIME_IS_STRICTLY_NEWER_THAN
TimeIsNewer(t1, t2) == (t1 - t2) % TimeSpace < TimeSpace \div 2
TimeIsStrictlyNewer(t1, t2) == TimeIsNewer(t1, t2) /\ t1 # t2

\* Word w of the mask of direction d, and that word replaced by v.
InWord(w)         == {s \in Sessions : WordOf[s] = w}
ReadWord(d, w)    == mask[d] \cap InWord(w)
WriteWord(d, w, v) == [mask EXCEPT ![d] = (@ \ InWord(w)) \cup v]

\* Threads that use select work on sessions that are not in blocking mode.
Selects(a) == \A p \in Uses[a] : p[1] \notin Blocking

\* Mutant of Sleeping: the scheduler signals only an armed wait point, and
\* its own check has just disarmed it.
SleepingIfArmed(p) == {a \in Apps : pc[a] = "sleep" /\ cur[a] = p /\ wp[p].wakeup}

Sleeping(p) == {a \in Apps : pc[a] = "sleep" /\ cur[a] = p}
-----------------------------------------------------------------------------
(***************************************************************************)
(* The scheduler thread: rtp_scheduler_schedule.                           *)
(***************************************************************************)
SchedLock ==
  /\ spc = "lock" /\ schedLock = NoThread
  /\ schedLock' = SchedThread
  /\ todo' = Round
  /\ spc' = "process"
  /\ UNCHANGED <<time, mask, wp, wpLock, scur, stmp, appVars>>

\* Mutant of wait_point_check: any armed wait point fires.
wait_point_check_flag(p) == wp[p].wakeup

wait_point_check(p) == wp[p].wakeup /\ TimeIsNewer(time, wp[p].time)

\* rtp_session_process, first half: wait_point_lock and wait_point_check.
SchedCheck == LET p == Head(todo) IN
  /\ spc = "process" /\ todo # <<>>
  /\ wpLock[p] = NoThread
  /\ todo' = Tail(todo)
  /\ IF wait_point_check(p)
     THEN /\ wp' = [wp EXCEPT ![p].wakeup = FALSE]
          /\ wpLock' = [wpLock EXCEPT ![p] = SchedThread]
          /\ scur' = p
          /\ stmp' = ReadWord(p[2], WordOf[p[1]])
          /\ spc' = "set"
     ELSE UNCHANGED <<wp, wpLock, scur, stmp, spc>>
  /\ UNCHANGED <<time, schedLock, mask, appVars>>

\* Second half: session_set_set, wait_point_wakeup (one sleeper is signalled)
\* and wait_point_unlock.
SchedSet ==
  /\ spc = "set"
  /\ mask' = WriteWord(scur[2], WordOf[scur[1]], stmp \cup {scur[1]})
  /\ wpLock' = [wpLock EXCEPT ![scur] = NoThread]
  /\ IF Sleeping(scur) = {} THEN pc' = pc
     ELSE \E a \in Sleeping(scur) : pc' = [pc EXCEPT ![a] = "woken"]
  /\ spc' = "process" /\ stmp' = {}
  /\ UNCHANGED <<time, schedLock, wp, todo, scur, cur, tmp, ready,
                 words, scan, found, due, started>>

\* The end of the round: broadcast unblock_select_cond, unlock.
SchedBroadcast ==
  /\ spc = "process" /\ todo = <<>>
  /\ pc' = [a \in Apps |-> IF pc[a] = "selSleep" THEN "selWoken" ELSE pc[a]]
  /\ schedLock' = NoThread
  /\ spc' = "timer"
  /\ UNCHANGED <<time, mask, wp, wpLock, todo, scur, stmp, cur, tmp, ready,
                 words, scan, found, due, started>>

\* Mutant of SchedTimer: time_ does not wrap.
SchedTimerWide ==
  /\ spc = "timer"
  /\ time' = time + 1
  /\ spc' = "lock"
  /\ UNCHANGED <<schedLock, mask, wp, wpLock, todo, scur, stmp, appVars>>

\* timer_do, then time_ += timer_inc without the lock.
SchedTimer ==
  /\ spc = "timer"
  /\ time' = (time + 1) % TimeSpace
  /\ spc' = "lock"
  /\ UNCHANGED <<schedLock, mask, wp, wpLock, todo, scur, stmp, appVars>>

SchedNext == SchedLock \/ SchedCheck \/ SchedSet
               \/ SchedBroadcast \/ SchedTimer
-----------------------------------------------------------------------------
(***************************************************************************)
(* An application thread in the scheduled part of                          *)
(* rtp_session_recvm_with_ts or __rtp_session_sendm_with_ts.  The first    *)
(* call of a point takes the present time as its origin.                   *)
(***************************************************************************)
PacketTime(p) == IF p \in started THEN due[p] ELSE time

Call(a) == \E p \in ready[a] :
  /\ pc[a] = "idle" /\ wpLock[p] = NoThread
  /\ ready' = [ready EXCEPT ![a] = @ \ {p}]
  /\ cur' = [cur EXCEPT ![a] = p]
  /\ started' = started \cup {p}
  /\ due' = [due EXCEPT ![p] = (PacketTime(p) + Period) % TimeSpace]
  /\ IF TimeIsStrictlyNewer(PacketTime(p), time)
     THEN /\ wp' = [wp EXCEPT ![p] = [time |-> PacketTime(p), wakeup |-> TRUE]]
          /\ IF p[1] \in Blocking        \* wait_point_wakeup_at
             THEN wpLock' = wpLock /\ pc' = [pc EXCEPT ![a] = "sleep"]
             ELSE /\ wpLock' = [wpLock EXCEPT ![p] = a]
                  /\ pc' = [pc EXCEPT ![a] = "clr"]
     ELSE /\ wpLock' = [wpLock EXCEPT ![p] = a]
          /\ pc' = [pc EXCEPT ![a] = "set"]
          /\ wp' = wp
  /\ UNCHANGED <<time, schedLock, mask, schedVars, tmp, words, scan, found>>

\* pthread_cond_wait returns when its mutex is free again.
Awake(a) ==
  /\ pc[a] = "woken" \/ (Spurious /\ pc[a] = "sleep")
  /\ wpLock[cur[a]] = NoThread
  /\ wpLock' = [wpLock EXCEPT ![cur[a]] = a]
  /\ pc' = [pc EXCEPT ![a] = "clr"]
  /\ UNCHANGED <<time, schedLock, mask, wp, schedVars, cur, tmp, ready, words, scan,
                 found, due, started>>

\* session_set_clr or session_set_set: read the word ...
ReadMask(a) ==
  /\ pc[a] \in {"clr", "set"}
  /\ tmp' = [tmp EXCEPT ![a] = ReadWord(cur[a][2], WordOf[cur[a][1]])]
  /\ pc' = [pc EXCEPT ![a] = IF @ = "clr" THEN "clrWrite" ELSE "setWrite"]
  /\ UNCHANGED <<time, schedLock, mask, wp, wpLock, schedVars, cur, ready,
                 words, scan, found, due, started>>

\* Mutants of NewWord: the bit is always cleared; it is never cleared.
NewWordCleared(a) == tmp[a] \ {cur[a][1]}
NewWordSet(a)     == tmp[a] \cup {cur[a][1]}

NewWord(a) == IF pc[a] = "clrWrite" THEN tmp[a] \ {cur[a][1]}
                                    ELSE tmp[a] \cup {cur[a][1]}

\* ... and write it back; wait_point_unlock; the call returns.
WriteMask(a) ==
  /\ pc[a] \in {"clrWrite", "setWrite"}
  /\ mask' = WriteWord(cur[a][2], WordOf[cur[a][1]], NewWord(a))
  /\ wpLock' = [wpLock EXCEPT ![cur[a]] = NoThread]
  /\ pc' = [pc EXCEPT ![a] = "idle"]
  /\ tmp' = [tmp EXCEPT ![a] = {}]
  /\ UNCHANGED <<time, schedLock, wp, schedVars, cur, ready, words, scan,
                 found, due, started>>

\* A thread that does not select calls its points again, one after the other.
Again(a) ==
  /\ pc[a] = "idle" /\ ready[a] = {} /\ ~Selects(a)
  /\ ready' = [ready EXCEPT ![a] = Uses[a]]
  /\ UNCHANGED <<time, schedLock, mask, wp, wpLock, schedVars, pc, cur, tmp,
                 words, scan, found, due, started>>
-----------------------------------------------------------------------------
(***************************************************************************)
(* session_set_select on all the points of a thread.                       *)
(***************************************************************************)
SelLock(a) ==
  /\ \/ pc[a] = "idle" /\ ready[a] = {} /\ Selects(a)
     \/ pc[a] = "selWoken" \/ (Spurious /\ pc[a] = "selSleep")
  /\ schedLock = NoThread
  /\ schedLock' = a
  /\ words' = [words EXCEPT ![a] = {p[2] : p \in Uses[a]} \X Words]
  /\ found' = [found EXCEPT ![a] = {}]
  /\ pc' = [pc EXCEPT ![a] = "selRead"]
  /\ UNCHANGED <<time, mask, wp, wpLock, schedVars, cur, tmp, ready, scan, due,
                 started>>

\* session_set_and on the next word, receive mask first: read ...
SelRead(a) == \E dw \in words[a] :
  /\ pc[a] = "selRead"
  /\ dw[1] = "snd" => \A w \in Words : <<"rcv", w>> \notin words[a]
  /\ tmp' = [tmp EXCEPT ![a] = ReadWord(dw[1], dw[2])]
  /\ scan' = [scan EXCEPT ![a] = dw]
  /\ pc' = [pc EXCEPT ![a] = "selWrite"]
  /\ UNCHANGED <<time, schedLock, mask, wp, wpLock, schedVars, cur, ready, words,
                 found, due, started>>

\* ... and write it back without the events the user asked for, which are
\* then counted.  count_power_items_fast takes them as an int and shifts it
\* right until it is 0: with the sign bit it never is, and the thread stays
\* there with the scheduler's lock.
Hits(a) == {p \in Uses[a] : p[2] = scan[a][1] /\ p[1] \in tmp[a]}

SelWrite(a) ==
  /\ pc[a] = "selWrite"
  /\ mask' = WriteWord(scan[a][1], scan[a][2], tmp[a] \ {p[1] : p \in Hits(a)})
  /\ found' = [found EXCEPT ![a] = @ \cup Hits(a)]
  /\ words' = [words EXCEPT ![a] = @ \ {scan[a]}]
  /\ pc' = [pc EXCEPT ![a] = IF \E p \in Hits(a) : p[1] \in SignBit THEN "selLoop"
                            ELSE IF words'[a] = {} THEN "selEnd" ELSE "selRead"]
  /\ tmp' = [tmp EXCEPT ![a] = {}]
  /\ UNCHANGED <<time, schedLock, wp, wpLock, schedVars, cur, ready, scan,
                 due, started>>

\* Mutants of SelResult: the sets are not changed; the set of senders comes
\* back empty.
SelResultAll(a) == Uses[a]
SelResultRecvs(a) == {p \in found[a] : p[2] = "rcv"}

(***************************************************************************)
(* The result is copied to the user's set of receivers if ret > 0 after    *)
(* the receive mask, to the set of senders if ret > 0 after both; a set    *)
(* that is not copied keeps what the user put in.                          *)
(***************************************************************************)
SelResult(a) ==
  LET on(S, d) == {p \in S : p[2] = d}
      recvs == IF on(found[a], "rcv") # {} THEN on(found[a], "rcv")
                                           ELSE on(Uses[a], "rcv")
  IN  recvs \cup on(found[a], "snd")

SelEnd(a) ==
  /\ pc[a] = "selEnd"
  /\ schedLock' = NoThread       \* unlock, or pthread_cond_wait
  /\ IF found[a] # {}
     THEN /\ ready' = [ready EXCEPT ![a] = SelResult(a)]
          /\ pc' = [pc EXCEPT ![a] = "idle"]
     ELSE /\ ready' = ready
          /\ pc' = [pc EXCEPT ![a] = "selSleep"]
  /\ found' = [found EXCEPT ![a] = {}]
  /\ UNCHANGED <<time, mask, wp, wpLock, schedVars, cur, tmp, words, scan, due,
                 started>>

\* session_set_timedselect: the rounds of its timeout are over.  It does not
\* look at the masks again: what the last round set stays there.
SelTimeout(a) ==
  /\ pc[a] = "selWoken" \/ (Spurious /\ pc[a] = "selSleep")
  /\ schedLock = NoThread
  /\ pc' = [pc EXCEPT ![a] = "idle"]
  /\ UNCHANGED <<time, schedLock, mask, wp, wpLock, schedVars, cur, tmp, ready,
                 words, scan, found, due, started>>

CallNext(a) == Call(a) \/ Awake(a) \/ ReadMask(a) \/ WriteMask(a) \/ Again(a)

SelectNext(a) == SelLock(a) \/ SelRead(a) \/ SelWrite(a) \/ SelEnd(a) \/ SelTimeout(a)

AppNext(a) == CallNext(a) \/ SelectNext(a)
-----------------------------------------------------------------------------
AnyPoint == CHOOSE p \in Points : TRUE

\* rtp_scheduler_add_session: a session that has not started is "not
\* blockable", its bits are set.
SystemInit ==
  /\ time = 0 /\ schedLock = NoThread
  /\ mask = [d \in Dirs |-> Sessions]
  /\ wp = [p \in Points |-> [time |-> 0, wakeup |-> FALSE]]
  /\ wpLock = [p \in Points |-> NoThread]
  /\ spc = "lock" /\ todo = <<>> /\ stmp = {}
  /\ scur = AnyPoint
  /\ pc = [a \in Apps |-> "idle"]
  /\ cur = [a \in Apps |-> AnyPoint]
  /\ tmp = [a \in Apps |-> {}] /\ ready = [a \in Apps |-> {}]
  /\ words = [a \in Apps |-> {}] /\ found = [a \in Apps |-> {}]
  /\ scan = [a \in Apps |-> <<"rcv", WordOf[AnyPoint[1]]>>]
  /\ due = [p \in Points |-> 0] /\ started = {}

SystemNext ==
  \/ SchedNext
  \/ \E a \in Apps : CallNext(a)
  \/ \E a \in {b \in Apps : Selects(b)} : SelectNext(a)

SystemSpec == SystemInit /\ [][SystemNext]_systemVars

\* A thread that can take a lock infinitely often gets it: the scheduler
\* sleeps in timer_do without a lock, and calls hold one for a few lines.
Fairness == SF_systemVars(SchedNext) /\ \A a \in Apps : SF_systemVars(AppNext(a))
FairSpec == SystemSpec /\ Fairness
-----------------------------------------------------------------------------
(***************************************************************************)
(* Properties                                                              *)
(***************************************************************************)
AppStates == {"idle", "sleep", "woken", "clr", "set", "clrWrite", "setWrite",
              "selRead", "selWrite", "selEnd", "selLoop", "selSleep", "selWoken"}

TypeOK ==
  /\ time \in Times
  /\ schedLock \in Threads \cup {NoThread}
  /\ mask \in [Dirs -> SUBSET Sessions]
  /\ wp \in [Points -> [time : Times, wakeup : BOOLEAN]]
  /\ wpLock \in [Points -> Threads \cup {NoThread}]
  /\ spc \in {"lock", "process", "set", "timer"}
  /\ todo \in Seq(Points) /\ scur \in Points /\ stmp \subseteq Sessions
  /\ pc \in [Apps -> AppStates] /\ cur \in [Apps -> Points]
  /\ tmp \in [Apps -> SUBSET Sessions]
  /\ ready \in [Apps -> SUBSET Points] /\ found \in [Apps -> SUBSET Points]
  /\ words \in [Apps -> SUBSET (Dirs \X Words)]
  /\ scan \in [Apps -> Dirs \X Words]
  /\ due \in [Points -> Times] /\ started \subseteq Points

\* A thread asleep in wait_point_wakeup_at will be signalled: its wait point
\* is armed, or the scheduler has disarmed it and is about to signal.
NoLostWakeup ==
  \A a \in Apps : pc[a] = "sleep" =>
     wp[cur[a]].wakeup \/ (spc = "set" /\ scur = cur[a])

\* In blocking mode a call returns only when it is time for its packet
\* (rtp_session_set_blocking_mode: "will block until it is time for the
\* packet to be received, according to the timestamp").
WakesOnTime ==
  [][\A a \in Apps : (pc[a] = "sleep" /\ pc'[a] # "sleep") =>
        TimeIsNewer(time, wp[cur[a]].time)]_systemVars

InCall(a, p)   == pc[a] \in {"clr", "set", "clrWrite", "setWrite"} /\ cur[a] = p
InSelect(a, p) == \/ pc[a] \in {"selRead", "selWrite", "selEnd", "selLoop"} /\ p \in found[a]
                  \/ pc[a] = "selWrite" /\ p \in Hits(a) /\ WordOf[p[1]] = scan[a][2]

\* An event of a selected session is never lost: its wait point is armed, or
\* its bit is set, or its event is on its way to or with the application.
\* (session_set_select: events are "the last receive operation ... would have
\* finished if it were in blocking mode".)
EventNotLost ==
  \A a \in Apps : \A p \in Uses[a] : Selects(a) =>
     \/ wp[p].wakeup \/ p[1] \in mask[p[2]] \/ p \in ready[a]
     \/ (spc = "set" /\ scur = p) \/ InCall(a, p) \/ InSelect(a, p)

SelectReturned(a) == pc[a] = "selEnd" /\ pc'[a] = "idle"
GivesSenders(a)   == \E p \in Uses[a] : p[2] = "snd"

\* A session that select returns in its set of senders, or in its set of
\* receivers when it is given no other, had an event: the last call on it has
\* finished or would have (its wait point is no longer armed), whatever the
\* scheduler and the other calls did to the masks meanwhile.
SelectIsOnTime ==
  [][\A a \in Apps : SelectReturned(a) =>
        \A p \in ready'[a] : p[2] = "snd" \/ ~GivesSenders(a) => ~wp[p].wakeup]_systemVars

\* The same of both sets: "sets are changed to indicate the sessions where
\* events happened".
SelectReportsEvents ==
  [][\A a \in Apps : SelectReturned(a) => \A p \in ready'[a] : ~wp[p].wakeup]_systemVars

\* "When some events arrived on some of sets, then the function returns".
SelectReturns == \A a \in Apps : found[a] # {} ~> pc[a] = "idle"

\* Every stream goes on: each thread gets through each of its send and
\* receive calls again and again, so nobody sleeps forever.
StreamsGoOn ==
  \A a \in Apps : \A p \in Uses[a] :
     []<>(pc[a] \in {"clr", "set"} /\ cur[a] = p)
=============================================================================
