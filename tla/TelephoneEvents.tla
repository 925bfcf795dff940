-------------------------- MODULE TelephoneEvents --------------------------
(***************************************************************************)
(* Keys of a telephone, sent as RTP packets of their own between those of  *)
(* the sound, and what the other session reports of them.                  *)
(*   sender    MSRtpSend (sender_process, send_dtmf), or an application    *)
(*             that calls rtp_session_send_dtmf2 itself                    *)
(*   receiver  rtp_session_rtp_parse, the queue tev_rq, and                *)
(*             rtp_session_check_telephone_events                          *)
(* The network (external) loses and duplicates packets, and those that are *)
(* read from the socket in one call come in any order.  A packet that is   *)
(* overtaken from one call to the next is a step of its own (Overtaken),   *)
(* which networks that keep the order do not take.                         *)
(*                                                                         *)
(* One thread sends on a session: __rtp_session_sendm_with_ts changes      *)
(* snd_seq without a lock, so two senders would mix up the numbers of any  *)
(* packets.  In that thread nothing comes between the five packets of      *)
(* rtp_session_send_dtmf2, or between those of a frame.                    *)
(*                                                                         *)
(* The unit of time and of timestamps is a frame, which is also the tick.  *)
(* id is a history field: the number of the press a packet stands for.     *)
(***************************************************************************)
EXTENDS RtpQueue, SequencesExt

CONSTANTS
  GoodKeys, BadKeys, \* keys with an event type, and others
  Durations,       \* values of dtmf_duration, the first one included
  Duration0,       \* dtmf_duration of a new filter
  Tolerance,       \* rate / 5 of get_cur_timestamp, in frames
  TevQSize,        \* max_rq_size
  MaxPress,        \* bound: keys pressed
  MaxQuiet,        \* bound: frames in a row without a tone
  MaxRead,         \* bound: packets that a call finds in the socket
  Budgets          \* bound: sets of budgets to begin with, [loss, dup: packets
                   \* lost and duplicated, change: of dtmf_duration and
                   \* mute_mic, idle: ticks without a frame, late: times
                   \* a packet is overtaken, air: packets on their way at
                   \* a time]

ASSUME ToneAssumption ==
  /\ Duration0 \in Durations /\ Durations \subseteq 1..(TsSpace \div 2 - 1)
  /\ GoodKeys \cap BadKeys = {}
  /\ {Tolerance, MaxQuiet} \subseteq Nat
  /\ Budgets \subseteq [loss : Nat, dup : Nat, change : Nat, idle : Nat,
                         late : Nat, air : Nat]
  /\ {TevQSize, MaxPress, MaxRead} \subseteq Nat \ {0}

MaxDuration == Max(Durations)

(***************************************************************************)
(* A press takes a number for each frame of its tone, the first one and    *)
(* that of its end included, one for the sound that follows the end, and   *)
(* those of the quiet frames after it.                                     *)
(***************************************************************************)
NumbersOfPress == MaxDuration + 2 + MaxQuiet

\* A packet may stay on its way for as long as the bounds let the sender go
\* on: that is for less than half of the numbers and half of the clock.
ASSUME StreamAssumption ==
  /\ 2 * (MaxQuiet + NumbersOfPress * MaxPress) =< SeqSpace
  /\ \A b \in Budgets : 2 * (b.idle + MaxDuration) < TsSpace

VARIABLES
  scene,     \* [supported, direct, ordered]: the profile knows telephone
             \* events; the application sends the keys itself; the network
             \* keeps the order of the packets from call to call
  quiet,     \* frames since the last tone, for the bound
  time,      \* ticker->time
  lastSent,  \* d->last_sent_time: <<>> is -1
  lastNet,   \* d->last_ts + d->tsoff, the last timestamp on the network
  dtmf,      \* d->dtmf, <<key, id>>, or <<>>
  skip,      \* d->skip
  skipUntil, \* d->skip_until
  duration,  \* d->dtmf_duration
  mute,      \* d->mute_mic
  sndSeq,    \* rtp.snd_seq of the sender
  wire,      \* history: what was sent last, in one go
  pressed,   \* history: number of keys pressed
  net,       \* packets on their way, oldest first
  tevQ,      \* rtp.tev_rq
  curTev,    \* current_tev, or <<>>
  reported,  \* history: ids reported to the application
  budget     \* what is left of the budgets

tone == <<dtmf, skip, skipUntil, quiet>>
clock == <<time, lastSent, lastNet>>
snd  == <<tone, clock, duration, mute, sndSeq, wire, pressed>>
rcv  == <<tevQ, curTev, reported>>
vars == <<scene, snd, rcv, net, budget>>

Ts(n)  == n % TsSpace
Seq1(n) == n % SeqSpace

\* A packet: telephone event or sound.
Tev(id, s, t, mark, end) ==
  [tev |-> TRUE, id |-> id, seq |-> s, ts |-> t, mark |-> mark, end |-> end]
Sound(s) ==
  [tev |-> FALSE, id |-> 0, seq |-> s, ts |-> 0, mark |-> FALSE, end |-> FALSE]
-----------------------------------------------------------------------------
(***************************************************************************)
(* The network.  Packets of sound are not told apart at the receiver here, *)
(* so only the telephone events are put on their way: n of them arrive.    *)
(***************************************************************************)
Increasing(n, m) == {f \in [1..n -> 1..m] : \A i, j \in 1..n : i < j => f[i] < f[j]}

Transmit(tevs, allowed) ==
  \E n \in 0..Len(tevs) : \E kept \in Increasing(n, Len(tevs)) :
    /\ Len(tevs) - n =< allowed.loss
    /\ Len(net) + n =< budget.air
    /\ net' = net \o [i \in 1..n |-> tevs[kept[i]]]
    /\ budget' = [allowed EXCEPT !.loss = @ - (Len(tevs) - n)]

\* The packet at i is overtaken by those that follow it up to j.
Overtaken ==
  /\ ~scene.ordered /\ budget.late > 0
  /\ \E i, j \in DOMAIN net :
       /\ i < j
       /\ net' = SubSeq(net, 1, i - 1) \o SubSeq(net, i + 1, j) \o <<net[i]>>
                   \o SubSeq(net, j + 1, Len(net))
  /\ budget' = [budget EXCEPT !.late = @ - 1]
  /\ UNCHANGED <<scene, snd, rcv>>
-----------------------------------------------------------------------------
(***************************************************************************)
(* The application of the sender.                                          *)
(***************************************************************************)
\* sender_send_dtmf: "already sending a dtmf"; but a key that still waits for
\* the next frame is replaced, and is never sent.
Press(k) ==
  /\ ~scene.direct /\ pressed < MaxPress
  /\ ~skip
  /\ pressed' = pressed + 1
  /\ dtmf' = <<k, pressed + 1>>
  /\ UNCHANGED <<scene, clock, skip, skipUntil, quiet, duration, mute,
                 sndSeq, wire, rcv, net, budget>>

\* sender_mute_mic, sender_unmute_mic
Mute(b) ==
  /\ mute # b /\ budget.change > 0
  /\ mute' = b
  /\ budget' = [budget EXCEPT !.change = @ - 1]
  /\ UNCHANGED <<scene, tone, clock, duration, sndSeq, wire, pressed, rcv, net>>

\* sender_set_dtmf_duration, which takes no lock
SetDuration(n) ==
  /\ budget.change > 0 /\ n # duration /\ ~scene.direct
  /\ duration' = n
  /\ budget' = [budget EXCEPT !.change = @ - 1]
  /\ UNCHANGED <<scene, tone, clock, mute, sndSeq, wire, pressed, rcv, net>>

(***************************************************************************)
(* __rtp_session_sendm_with_ts numbers a telephone event with snd_seq and  *)
(* increments it; the end of a tone is sent three times, and snd_seq       *)
(* decremented after the first two.                                        *)
(***************************************************************************)
Thrice(p) == <<p, p, p>>

\* Mutant of SeqAfter: snd_seq is decremented after the third copy too.
SeqAfterThree(ps) == IF Last(ps).end THEN Last(ps).seq ELSE Seq1(Last(ps).seq + 1)

\* snd_seq when ps are sent.
SeqAfter(ps) == Seq1(Last(ps).seq + 1)

\* rtp_session_send_dtmf2: three packets, the last one sent three times.
SendDtmf2 ==
  LET t == time
      id == pressed + 1
      ps == <<Tev(id, sndSeq, t, TRUE, FALSE),
              Tev(id, Seq1(sndSeq + 1), t, FALSE, FALSE)>>
            \o Thrice(Tev(id, Seq1(sndSeq + 2), t, FALSE, TRUE))
  IN
  /\ scene.direct /\ pressed < MaxPress
  /\ wire # <<>> /\ ~Last(wire).tev        \* one key at a time
  /\ pressed' = id
  /\ sndSeq' = SeqAfter(ps)
  /\ wire' = ps
  /\ Transmit(ps, budget)
  /\ quiet' = 0
  /\ UNCHANGED <<scene, dtmf, skip, skipUntil, clock, duration, mute, rcv>>
-----------------------------------------------------------------------------
(***************************************************************************)
(* The ticker: sender_process for a tick without a frame, and with one.    *)
(***************************************************************************)
Idle(t) == IF lastSent = <<>> THEN 0 ELSE Ts(t - lastSent[1])

\* No frame is ready: send_dtmf is not called.
TickWithoutFrame ==
  /\ lastSent # <<>> /\ budget.idle > 0
  /\ budget' = [budget EXCEPT !.idle = @ - 1]
  /\ time' = Ts(time + 1)
  /\ UNCHANGED <<scene, tone, lastSent, lastNet, duration, mute, sndSeq, wire,
                 pressed, rcv, net>>

(***************************************************************************)
(* get_cur_timestamp: the frames have timestamps of their own, one apart;  *)
(* their offset to the clock is set anew when they stood still for longer  *)
(* than they say.                                                          *)
(***************************************************************************)
NetTs(t) == IF lastSent = <<>> \/ Idle(t) - 1 > Tolerance
            THEN t ELSE Ts(lastNet + 1)

\* RTP_TIMESTAMP_IS_NEWER_THAN(timestamp, d->skip_until)
Over(t, until) == TsIsNewer(t, until)

(***************************************************************************)
(* send_dtmf: the packet of this tick.  A key without an event type and a  *)
(* session whose profile has no telephone events send none.                *)
(***************************************************************************)
TonePackets(key, id, start, mark, over) ==
  IF key \notin GoodKeys \/ ~scene.supported THEN <<>>
  ELSE LET p == Tev(id, sndSeq, start, mark, over) IN
       IF over THEN Thrice(p) ELSE <<p>>

\* Mutant of Finished: a tone whose end could not be sent goes on.
FinishedIfSent(over, tevs) == over /\ tevs # <<>>

\* What send_dtmf returns does not matter.
Finished(over, tevs) == over

(***************************************************************************)
(* dtmf_duration is read twice, for skip_until and for the timestamp of    *)
(* the tone: d is what the second read finds.                              *)
(***************************************************************************)
Frame ==
  LET t      == Ts(time + 1)                 \* the time of this tick
      now    == NetTs(t)                     \* the timestamp of the frame
      begins == dtmf # <<>> /\ ~skip
      on     == begins \/ skip
      until  == IF begins THEN Ts(now + duration) ELSE skipUntil
      over   == on /\ Over(now, until)
  IN
  \E d \in IF begins /\ budget.change > 0 THEN Durations ELSE {duration} :
  LET tevs == IF ~on THEN <<>>
              ELSE TonePackets(dtmf[1], dtmf[2], Ts(until - d), begins, over)
      talk == (~on \/ Finished(over, tevs)) /\ ~mute
      seq2 == IF tevs = <<>> THEN sndSeq ELSE SeqAfter(tevs)
      ps   == tevs \o (IF talk THEN <<Sound(seq2)>> ELSE <<>>)
  IN
  /\ time' = t /\ lastSent' = <<t>> /\ lastNet' = now
  /\ duration' = d
  /\ skip' = (on /\ ~Finished(over, tevs))
  /\ dtmf' = IF Finished(over, tevs) THEN <<>> ELSE dtmf
  /\ on \/ quiet < MaxQuiet
  /\ quiet' = IF on THEN 0 ELSE quiet + 1
  /\ skipUntil' = until
  /\ sndSeq' = IF talk THEN Seq1(seq2 + 1) ELSE seq2
  /\ wire' = IF ps = <<>> THEN wire ELSE ps
  /\ Transmit(tevs, IF d = duration THEN budget
                    ELSE [budget EXCEPT !.change = @ - 1])
  /\ UNCHANGED <<scene, mute, pressed, rcv>>
-----------------------------------------------------------------------------
(***************************************************************************)
(* The receiver.  rtp_session_rtp_parse puts a telephone event into        *)
(* tev_rq, in the order of the numbers and once; a call of                 *)
(* rtp_session_recvm_with_ts reads the socket if its timestamp is new, and *)
(* takes one packet out.                                                   *)
(***************************************************************************)
\* Mutant of Queued: the packets stay in the order in which they are read.
QueuedAsRead(q, order) == q \o order

Queued(q, order) ==
  LET after[i \in 0..Len(order)] ==
        IF i = 0 THEN q ELSE queue_packet(after[i - 1], TevQSize, order[i])
  IN  after[Len(order)]

\* Mutant of Check: an end without its beginning is not reported.
CheckNeedsStart(m) ==
  LET other == m.mark \/ curTev = <<>> \/ curTev[1].ts # m.ts
      new   == m.end /\ ~other /\ ~curTev[1].end
  IN  /\ curTev' = IF other \/ new THEN <<m>> ELSE curTev
      /\ reported' = IF new THEN Append(reported, m.id) ELSE reported

(***************************************************************************)
(* rtp_session_check_telephone_events for a packet with one event: a       *)
(* packet that begins a tone, or belongs to another one than the stored    *)
(* events, replaces them; an end that is not noted yet is reported.        *)
(***************************************************************************)
Check(m) ==
  LET other == m.mark \/ curTev = <<>> \/ curTev[1].ts # m.ts
      new   == m.end /\ (other \/ ~curTev[1].end)
  IN  /\ curTev' = IF other THEN <<m>>
                   ELSE IF new THEN <<[curTev[1] EXCEPT !.end = TRUE]>>
                   ELSE curTev
      /\ reported' = IF new THEN Append(reported, m.id) ELSE reported

TakeOut(q) ==
  IF q = <<>> THEN tevQ' = q /\ UNCHANGED <<curTev, reported>>
  ELSE tevQ' = Tail(q) /\ Check(Head(q))

(***************************************************************************)
(* A call with a new timestamp finds the first n packets in the socket, in *)
(* any order; a second copy of the last one may follow.                    *)
(***************************************************************************)
Recv ==
  \E n \in 1..MaxRead \cap DOMAIN net, again \in IF budget.dup > 0 THEN {0, 1} ELSE {0} :
  \E order \in SetToSeqs(Range(SubSeq(net, 1, n))) :
    /\ TakeOut(Queued(tevQ, order))
    /\ net' = SubSeq(net, n + 1 - again, Len(net))
    /\ budget' = [budget EXCEPT !.dup = @ - again]
    /\ UNCHANGED <<scene, snd>>

\* A call that finds nothing, or has the timestamp of the one before, as the
\* calls that follow one that returned sound.
RecvAgain ==
  /\ tevQ # <<>>
  /\ TakeOut(tevQ)
  /\ UNCHANGED <<scene, snd, net, budget>>
-----------------------------------------------------------------------------
Init ==
  /\ scene \in [supported : BOOLEAN, direct : BOOLEAN, ordered : BOOLEAN]
  /\ scene.direct => scene.supported
  /\ quiet = 0
  /\ time = TsSpace - 2 /\ lastSent = <<>> /\ lastNet = 0
  /\ dtmf = <<>> /\ skip = FALSE /\ skipUntil = 0
  /\ duration = Duration0 /\ mute = FALSE
  /\ sndSeq = SeqSpace - 2 /\ wire = <<>> /\ pressed = 0
  /\ net = <<>> /\ tevQ = <<>> /\ curTev = <<>> /\ reported = <<>>
  /\ budget \in Budgets /\ scene.ordered = (budget.late = 0)

Next ==
  \/ \E k \in GoodKeys \cup BadKeys : Press(k)
  \/ \E b \in BOOLEAN : Mute(b)
  \/ \E n \in Durations : SetDuration(n)
  \/ SendDtmf2 \/ TickWithoutFrame \/ Frame \/ Overtaken
  \/ Recv \/ RecvAgain

(***************************************************************************)
(* The ticker of the sender goes on and is given frames; what is not lost  *)
(* arrives; the ticker of the receiver goes on.                            *)
(***************************************************************************)
Spec == /\ Init /\ [][Next]_vars
        /\ WF_vars(Frame) /\ WF_vars(Recv) /\ WF_vars(RecvAgain)
-----------------------------------------------------------------------------
\* What the application hears of a network that keeps the order from call to
\* call: every key once and in the order in which the keys were pressed,
\* although the end of a tone is sent three times, packets are lost and
\* duplicated, and those read together are in any order.  (A start overtaken by
\* the first copy of its end, reported already, is taken for "a start of new
\* events", and the next copy is reported again.)
InOrder == \A i \in 1..Len(reported) - 1 : reported[i] < reported[i + 1]
KeysReportedOnce == scene.ordered => InOrder

\* The numbers on the wire follow each other through sound and tones: only
\* the copies of the end of a tone share one, and no number is left out (the
\* other session would take it for a loss and ask for it again).
NumbersFollow ==
  [][LET w == <<Last(wire)>> \o wire' IN
     wire # <<>> /\ wire' # wire =>
       \A i \in 1..Len(w) - 1 :
         \/ w[i + 1].seq = Seq1(w[i].seq + 1)
         \/ w[i + 1] = w[i] /\ w[i].end]_vars

\* The end of a tone that arrives is reported, even when all the packets
\* before it were lost.
EndsReported ==
  \A i \in 1..MaxPress :
    (\E p \in Range(net) \cup Range(tevQ) : p.id = i /\ p.end)
      ~> (\E j \in DOMAIN reported : reported[j] = i)

\* A tone comes to its end and the sound goes on, whatever key was pressed,
\* whether or not the session can send it, over wraps of the clock and
\* changes of the duration; a muted sender goes on in silence.
ToneEnds == skip ~> ~skip
=============================================================================
