----------------------------- MODULE RtpReceive -----------------------------
(***************************************************************************)
(* What an RTP session does with an incoming packet before it queues it    *)
(* (rtp_session_rtp_parse, ortp/rtpparse.c), and what it reports about the *)
(* packets in RTCP (report_block_init, ortp/rtcp.c): the lock on one       *)
(* source (SSRC), the extended sequence number, the count of lost packets, *)
(* and the check for timestamps that are too old or jump.                  *)
(*                                                                         *)
(* Packet n of source s carries the sequence number n and the timestamp    *)
(* n + shift[s], modulo their width; shift changes when the clock of the   *)
(* source jumps.  The sources and the network are external.  All packets   *)
(* are valid, of the stream's payload type and not telephone events.       *)
(***************************************************************************)
EXTENDS RtpQueue

CONSTANTS
  Ssrcs,         \* the sources
  LoopWindow,    \* 200 in the code
  Threshold,     \* ssrc_changed_thres
  TsJump,        \* ts_jump
  MaxRqSize,     \* max_rq_size
  Resyncs,       \* rtp_session_resync is connected to "timestamp_jump"
  Scenes         \* the scenes to play, which also hold every bound

(***************************************************************************)
(* A scene: which sources send, the number of their first packet and the   *)
(* greatest one; how many packets are lost in a row at most, and how far   *)
(* one may be behind a later one; how many packets are received; whether   *)
(* the application reads; and how often a report is made, the session is   *)
(* reset and the clock of a source jumps.                                  *)
(***************************************************************************)
Scene == [sources : SUBSET Ssrcs, base : 0..SeqSpace - 1, final : Nat,
          burst : Nat, late : Nat, packets : Nat, reads : BOOLEAN,
          reports : Nat, resets : Nat, jumps : Nat]

ASSUME ReceiveAssumption ==
  /\ "none" \notin Ssrcs /\ IsFiniteSet(Ssrcs)
  /\ LoopWindow \in Nat /\ 2 * LoopWindow =< SeqSpace
  /\ Threshold \in Nat /\ TsJump \in 1..(TsSpace \div 2) - 1
  /\ MaxRqSize \in Nat /\ Resyncs \in BOOLEAN
  /\ Scenes # {} /\ \A z \in Scenes : z \in Scene

VARIABLES
  ssrc_set, ssrc,       \* ssrc_set, rcv.ssrc
  cand, count,          \* inc_ssrc_candidate, inc_same_ssrc_count
  lo, hi,               \* the two halves of hwrcv_extseq
  recv,                 \* stats.packet_recv
  since, atLast,        \* hwrcv_since_last_SR, hwrcv_seq_at_last_SR
  cum, fraction,        \* stats.cum_packet_loss; fraction of the last report
  started, lastTs,      \* RTP_SESSION_FIRST_PACKET_DELIVERED, rcv_last_ts
  sync,                 \* RTP_SESSION_RECV_SYNC
  rq,                   \* rtp.rq
  next, shift,          \* the sources: number after the last packet; clock
  scene,                \* the scene that is played
  todo,                 \* what is left of it: [reports, resets, jumps]
  first,                \* history: number of the first packet accepted
  taken,                \* history: recvm has changed the source
  last, run,            \* history: source of the last packets, how many in a row
  got,                  \* history: packets accepted, as <<source, number>>
  deaf                  \* history: packets in a row that were too old

None == "none"

lockVars == <<ssrc_set, ssrc, cand, count>>
statVars == <<lo, hi, recv, since, atLast, cum, fraction>>
timeVars == <<started, lastTs, sync, rq>>
envVars  == <<next, shift, scene, todo>>
histVars == <<taken, first, last, run, got, deaf>>
vars == <<lockVars, statVars, timeVars, envVars, histVars>>

SeqNrOf(n) == n % SeqSpace
TsOf(s, n) == (n + shift[s]) % TsSpace
-----------------------------------------------------------------------------
(***************************************************************************)
(* The lock on an SSRC.                                                    *)
(***************************************************************************)
SameCount(s) == IF cand = s THEN count + 1 ELSE 0

\* Mutant of Changes: one more packet is needed.
ChangesLater(s) == ssrc_set /\ s # ssrc /\ SameCount(s) > Threshold

\* The packets from another source have reached the threshold.
Changes(s) == ssrc_set /\ s # ssrc /\ SameCount(s) >= Threshold
Accepted(s) == ssrc_set /\ s # ssrc => Changes(s)

\* Mutant of NewCount: a packet of the current source does not reset it.
NewCountKept(s) == IF ssrc_set /\ s # ssrc THEN SameCount(s) ELSE count

NewCount(s) == IF ~ssrc_set THEN count ELSE IF s = ssrc THEN 0 ELSE SameCount(s)

Lock(s) ==
  /\ ssrc_set' = TRUE
  /\ ssrc' = IF Accepted(s) THEN s ELSE ssrc
  /\ cand' = IF ssrc_set /\ s # ssrc THEN s ELSE cand
  /\ count' = NewCount(s)
-----------------------------------------------------------------------------
(***************************************************************************)
(* The extended sequence number.                                           *)
(***************************************************************************)
\* Mutant of Loops: no check for looping.
LoopsNever(q) == FALSE

Loops(q) == q =< lo /\ q < LoopWindow /\ lo > SeqSpace - LoopWindow

\* Every valid packet is counted; those of a foreign source go no further.
Count(s, n) ==
  LET q == SeqNrOf(n) IN
  /\ recv' = recv + 1 /\ since' = since + 1
  /\ IF ~Accepted(s) THEN UNCHANGED <<lo, hi, atLast>>
     ELSE /\ lo' = IF q > lo \/ Loops(q) THEN q ELSE lo
          /\ hi' = IF Loops(q) THEN (hi + 1) % SeqSpace ELSE hi
          /\ atLast' = IF recv' = 1 THEN q ELSE atLast
  /\ UNCHANGED <<cum, fraction>>
-----------------------------------------------------------------------------
(***************************************************************************)
(* Timestamps, relative to l, that of the last packet delivered (or of the *)
(* first packet of the new source, when the source changes).               *)
(***************************************************************************)
JumpsAhead(l, t) == started /\ TsIsNewer(t, l + TsJump)
TooOld(l, t) == started /\ ~JumpsAhead(l, t) /\ TsIsStrictlyNewer(l, t)

\* Mutant of JumpsBack: jumps back are not looked for.
JumpsBackNever(l, t) == FALSE

JumpsBack(l, t) == TooOld(l, t) /\ TsIsStrictlyNewer(l, (t + TsJump) % TsSpace)

CheckTime(s, n) ==
  LET t == TsOf(s, n)
      l == IF Changes(s) THEN t ELSE lastTs
      resync == Resyncs /\ (JumpsAhead(l, t) \/ JumpsBack(l, t))
      kept == IF resync THEN <<>> ELSE rq
  IN  IF ~Accepted(s) THEN UNCHANGED <<timeVars, deaf>>
      ELSE /\ lastTs' = l
           /\ started' = (started /\ ~resync) /\ sync' = (sync \/ resync)
           /\ rq' = IF TooOld(l, t) THEN kept
                    ELSE queue_packet(kept, MaxRqSize, [seq |-> SeqNrOf(n), ts |-> t, ssrc |-> s])
           /\ deaf' = IF TooOld(l, t) THEN deaf + 1 ELSE 0

\* rtp_session_rtp_parse: the next packet, one after a burst of losses, or
\* one that comes late.
Receive(s) == \E n \in (next[s] - 1 - scene.late..next[s] + scene.burst) \ {next[s] - 1} :
  /\ scene.base =< n /\ n =< scene.final /\ recv < scene.packets
  /\ <<s, n>> \notin got
  /\ Lock(s) /\ Count(s, n) /\ CheckTime(s, n)
  /\ next' = [next EXCEPT ![s] = IF n < @ THEN @ ELSE n + 1]
  /\ first' = IF recv = 0 THEN n ELSE first
  /\ last' = s /\ run' = IF s = last THEN run + 1 ELSE 1
  /\ got' = IF Accepted(s) THEN got \cup {<<s, n>>} ELSE got
  /\ UNCHANGED <<shift, scene, todo, taken>>
-----------------------------------------------------------------------------
\* rtp_session_recvm_with_ts, as far as it matters here, for a timestamp of the
\* user's: the first time it takes the source from the packet at the head.
Deliver == \E t \in 0..TsSpace - 1 :
  LET found == rtp_getq(rq, t) IN
  /\ scene.reads /\ rq # <<>>
  /\ ssrc' = IF sync THEN Head(rq).ssrc ELSE ssrc
  /\ sync' = FALSE
  /\ taken' = (taken \/ ssrc' # ssrc)
  /\ rq' = found.rest
  /\ lastTs' = IF found.ret = <<>> THEN lastTs ELSE found.ret[1].ts
  /\ started' = (started \/ found.ret # <<>>)
  /\ UNCHANGED <<ssrc_set, cand, count, statVars, envVars, first, last, run, got, deaf>>

ExtSeq == hi * SeqSpace + lo

\* Mutant of PacketLoss: both ends of the interval are counted.
PacketLossInclusive == LET l == ExtSeq - atLast + 1 - since IN IF l < 0 THEN 0 ELSE l

\* Packets lost since the last report, as the code counts them.
PacketLoss == LET l == ExtSeq - atLast - since IN IF l < 0 THEN 0 ELSE l

\* report_block_init, called for a report once a packet has been received.
Report ==
  /\ recv > 0 /\ todo.reports > 0
  /\ cum' = IF since = 0 THEN cum ELSE cum + PacketLoss
  /\ fraction' = IF since = 0 THEN 0 ELSE ((256 * PacketLoss) \div since) % 256
  /\ since' = 0 /\ atLast' = ExtSeq
  /\ todo' = [todo EXCEPT !.reports = @ - 1]
  /\ UNCHANGED <<lockVars, lo, hi, recv, timeVars, next, shift, scene, histVars>>

\* rtp_session_reset, which calls rtp_session_resync.
Reset ==
  /\ todo.resets > 0
  /\ ssrc_set' = FALSE
  /\ lo' = 0 /\ hi' = 0 /\ since' = 0
  /\ recv' = 0 /\ cum' = 0
  /\ lastTs' = 0 /\ started' = FALSE /\ sync' = TRUE /\ rq' = <<>>
  /\ todo' = [todo EXCEPT !.resets = @ - 1]
  /\ taken' = FALSE /\ first' = 0 /\ last' = None /\ run' = 0 /\ got' = {} /\ deaf' = 0
  /\ UNCHANGED <<ssrc, cand, count, atLast, fraction, next, shift, scene>>

\* The clock of a source jumps.
Jump(s) == \E d \in 1..TsSpace - 1 :
  /\ todo.jumps > 0
  /\ shift' = [shift EXCEPT ![s] = (@ + d) % TsSpace]
  /\ todo' = [todo EXCEPT !.jumps = @ - 1]
  /\ deaf' = 0
  /\ UNCHANGED <<lockVars, statVars, timeVars, next, scene, taken, first, last, run, got>>

Init ==
  /\ scene \in Scenes
  /\ ssrc_set = FALSE /\ ssrc = None /\ cand = None /\ count = 0
  /\ lo = 0 /\ hi = 0 /\ recv = 0 /\ since = 0 /\ atLast = 0
  /\ cum = 0 /\ fraction = 0
  /\ started = FALSE /\ sync = TRUE /\ lastTs = 0 /\ rq = <<>>
  /\ next = [s \in Ssrcs |-> scene.base] /\ shift = [s \in Ssrcs |-> 0]
  /\ todo = [reports |-> scene.reports, resets |-> scene.resets, jumps |-> scene.jumps]
  /\ taken = FALSE /\ first = 0 /\ last = None /\ run = 0 /\ got = {} /\ deaf = 0

Next == (\E s \in scene.sources : Receive(s) \/ Jump(s)) \/ Deliver \/ Report \/ Reset

Spec == Init /\ [][Next]_vars
-----------------------------------------------------------------------------
(***************************************************************************)
(* Properties                                                              *)
(***************************************************************************)
NeverReset == todo.resets = scene.resets

\* A session that was never reset (a reset keeps the candidate and its count)
\* only leaves its source after as many packets of another one, and of no
\* third and not of its own in between, as the threshold says.  (Unless recvm
\* has changed the source: the first read takes it from the queue.)
LockChangesOnRun ==
  [][ssrc_set /\ ssrc' # ssrc /\ ~taken' /\ NeverReset'
        => last' = ssrc' /\ run' >= Threshold]_vars

\* And it does: no source is turned down for longer than the threshold.
LockFollows ==
  ssrc_set /\ last # ssrc /\ ~taken /\ NeverReset => run =< Threshold

OneSource == Cardinality(scene.sources) = 1

Numbers == {p[2] : p \in got}

\* The extended number is that of the newest packet received of the source (if
\* it is the only one): the number of cycles since the first packet is right.
ExtSeqIsNewest ==
  recv > 0 /\ OneSource => first - SeqNrOf(first) + ExtSeq = Max(Numbers)

Lost == Max(Numbers) - Min(Numbers) + 1 - Cardinality(Numbers)

\* In a stream that is not reordered, the reports never invent a loss, and
\* hide at most one.
LossIsNearlyTrue ==
  recv > 0 /\ since = 0 /\ OneSource /\ scene.late = 0 => cum \in {Lost, Lost - 1}

\* How much later the newest packet of the jitter buffer is than the one that
\* was delivered last, at most, as long as the clock does not jump.
Slack(z) == Max({TsJump - 1, (MaxRqSize - 1) * (z.burst + 1)})

\* When the session resynchronizes on timestamp jumps, a source whose clock
\* jumps once (and whose packets are not reordered) is not turned down for
\* longer than the jump allowed, and the packets of the old clock that may still
\* be delivered meanwhile.
DeafnessEnds ==
  Resyncs /\ OneSource /\ scene.late = 0 /\ scene.jumps =< 1 => deaf =< TsJump + Slack(scene)
=============================================================================
