------------------------------- MODULE RtpRtx -------------------------------
(***************************************************************************)
(* Selective retransmission (rtx) between two RTP sessions.  The sender    *)
(* keeps what it sent for rtx_send_cache_time; the receiver holds what it  *)
(* takes out of its jitter buffer for rtx_recv_cache_time more, puts a     *)
(* placeholder into every gap, asks for the missing packet with a RTCP APP *)
(* packet named "DPZH", and replaces the placeholder when the packet comes *)
(* again, marked with the version number 0.                                *)
(*   sender    __rtp_session_sendm_with_ts and process_rtcp_packet          *)
(*   receiver  rtp_session_recvm_with_ts and rtp_session_rtp_parse          *)
(* The network (external) may lose, duplicate and reorder both flows.      *)
(*                                                                         *)
(* Packet number n carries the sequence number Seq0 + n and the timestamp  *)
(* Ts0 + n, both modulo their width: one packet per frame, the frame is    *)
(* the unit of time.                                                       *)
(***************************************************************************)
EXTENDS RtxGaps

CONSTANTS
  Seq0, Ts0,       \* first sequence number and timestamp of the stream
  MediaPt,         \* payload type of the stream
  RetryLimit,      \* rtx_retry_limit: becomes the paytype of placeholders
  ProfilePts,      \* payload types the receiver's profile knows
  SendCache,       \* rtx_send_cache_time, in timestamp units
  RecvCache,       \* rtx_recv_cache_time, in timestamp units
  JittComp,        \* jitt_comp_ts of the (not adaptive) jitter control
  MaxRqSize,       \* max_rq_size of the jitter buffer
  MaxPackets,      \* bound: packets the sending application produces
  MaxUserTs,       \* bound: last timestamp the receiving application asks
  LastArrival,     \* bound: userTs after which no datagram arrives any more
  LossBudget,      \* bound: datagrams (RTP or RTCP) the network loses
  DupBudget        \* bound: RTP datagrams the network duplicates

ASSUME RtxAssumption ==
  /\ Seq0 \in 0..SeqSpace - 1 /\ Ts0 \in 0..TsSpace - 1
  /\ MediaPt \in ProfilePts /\ RetryLimit \in Nat /\ RetryLimit # MediaPt
  /\ SendCache \in Nat \ {0} /\ RecvCache \in Nat \ {0}
  /\ JittComp \in Nat /\ MaxRqSize \in Nat \ {0}
  /\ {MaxPackets, MaxUserTs, LastArrival, LossBudget, DupBudget} \subseteq Nat

VARIABLES
  sent,        \* number of packets the sending application has produced
  sendQ,       \* sender: rtx_send_queue
  net,         \* RTP datagrams in flight: [seq, ts, ver, copy]
  rtcpNet,     \* requested sequence numbers in flight towards the sender
  sock,        \* datagrams waiting in the receiver's socket
  userTs,      \* receiver: rcv_last_app_ts, -1 before the first call
  lastNull,    \* the last rtp_session_recvm_with_ts returned NULL
  synced,      \* the receiver's RTP_SESSION_RECV_SYNC flag is off
  slide,       \* jittctl.slide: <<>> before the first packet, then <<value>>
  rq,          \* receiver: rtp.rq, the jitter buffer
  rtxQ,        \* receiver: rtx_recv_queue
  lastTs,      \* receiver: rcv_last_ts; <<>> until the first delivery
  rcvPt,       \* receiver: rcv.pt
  out,         \* history: what recvm returned, oldest first
  requests,    \* history: the sequence numbers requested, oldest first
  ptSignals,   \* history: "payload_type_changed" was emitted
  budget       \* what the network may still do: [loss, dup]

sndVars == <<sent, sendQ>>
netVars == <<net, rtcpNet, budget>>
rcvVars == <<sock, userTs, lastNull, synced, slide, rq, rtxQ, lastTs, rcvPt,
             out, requests, ptSignals>>
vars    == <<sndVars, netVars, rcvVars>>

SeqOfPkt(n) == (Seq0 + n) % SeqSpace
TsOfPkt(n) == (Ts0 + n) % TsSpace

Media(n) == [seq |-> SeqOfPkt(n), ts |-> TsOfPkt(n), hole |-> FALSE]

-----------------------------------------------------------------------------
(***************************************************************************)
(* The network: a datagram handed to it is lost, put in flight, or put in  *)
(* flight twice; one more copy of a datagram in flight is not told apart.  *)
(***************************************************************************)
RtpToNet(ds) ==
  \E lost \in SUBSET ds, twice \in SUBSET ds :
    /\ lost \cap twice = {}
    /\ Cardinality(lost) =< budget.loss /\ Cardinality(twice) =< budget.dup
    /\ net' = net \cup (ds \ lost) \cup {[d EXCEPT !.copy = 2] : d \in twice}
    /\ budget' = [loss |-> budget.loss - Cardinality(lost),
                  dup  |-> budget.dup - Cardinality(twice)]

RtcpToNet(ss) ==
  \E lost \in SUBSET ss :
    /\ Cardinality(lost) =< budget.loss
    /\ rtcpNet' = rtcpNet \cup (ss \ lost)
    /\ budget' = [budget EXCEPT !.loss = @ - Cardinality(lost)]

\* A datagram reaches the receiver's socket, in any order.
Arrive == \E d \in net :
  /\ userTs =< LastArrival
  /\ net' = net \ {d}
  /\ sock' = Append(sock, d)
  /\ UNCHANGED <<sndVars, rtcpNet, budget, userTs, lastNull, synced, slide,
                 rq, rtxQ, lastTs, rcvPt, out, requests, ptSignals>>
-----------------------------------------------------------------------------
(***************************************************************************)
(* The sender.  A copy of every packet goes to the send cache.             *)
(***************************************************************************)
\* Mutant of Pruned: a packet of just that age stays.
PrunedLate(q, ts) ==
  LET fresh == {i \in DOMAIN q : (ts - q[i].ts) % TsSpace =< SendCache}
  IN  SubSeq(q, Min(fresh), Len(q))

\* Packets leave the cache from the top when they are rtx_send_cache_time old.
Pruned(q, ts) ==
  LET fresh == {i \in DOMAIN q : (ts - q[i].ts) % TsSpace < SendCache}
  IN  SubSeq(q, Min(fresh), Len(q))

\* __rtp_session_sendm_with_ts, with rtx_mode set
Send ==
  LET p == Media(sent) IN
  /\ sent < MaxPackets
  /\ sent' = sent + 1
  /\ sendQ' = Pruned(rtp_putq(sendQ, p), p.ts)
  /\ RtpToNet({[seq |-> p.seq, ts |-> p.ts, ver |-> 2, copy |-> 1]})
  /\ UNCHANGED <<rtcpNet, rcvVars>>

(***************************************************************************)
(* process_rtcp_packet on an APP packet "DPZH": look the packet up in the  *)
(* cache and send a copy of it with version 0.  rtp_session_rtcp_recv runs *)
(* in the sending session's own rtp_session_recvm_with_ts; each turn of    *)
(* its loop takes one datagram.                                            *)
(***************************************************************************)
AnswerRequest == \E s \in rtcpNet :
  LET found == {i \in DOMAIN sendQ : sendQ[i].seq = s} IN
  /\ rtcpNet' = rtcpNet \ {s}
  /\ RtpToNet({[seq |-> s, ts |-> sendQ[i].ts, ver |-> 0, copy |-> 1] :
                 i \in found})
  /\ UNCHANGED <<sndVars, rcvVars>>
-----------------------------------------------------------------------------
(***************************************************************************)
(* The receiver: rtp_session_rtp_parse on one datagram d.  r is the part   *)
(* of the session it works on: [rq, rtxQ, slide].                          *)
(***************************************************************************)
\* Mutant of WaitingFor: only the head of the queue is looked at.
WaitingAtHead(q, s) == {i \in DOMAIN q : i = 1 /\ q[i].seq = s}

WaitingFor(q, s) == {i \in DOMAIN q : q[i].seq = s}

Retransmitted(r, d) ==
  LET same == WaitingFor(r.rtxQ, d.seq) IN
  IF d.ver = 0 /\ rcvPt = MediaPt /\ same # {}
  THEN [r EXCEPT !.rtxQ = rtp_putq(RemoveAt(@, Max(same)),
                            [seq |-> d.seq, ts |-> d.ts, hole |-> FALSE])]
  ELSE r       \* not waited for, or version # 2: freed

\* Mutant of TooOld: late packets are queued.
NeverTooOld(d) == FALSE

TooOld(d) == lastTs # <<>> /\ TsIsStrictlyNewer(lastTs[1], d.ts)

\* The jitter control locks its slide on the first packet after a resync.
parse(r, d, ts) ==
  IF d.ver = 0 THEN Retransmitted(r, d)
  ELSE LET jc == IF r.slide = <<>> THEN <<d.ts - ts>> ELSE r.slide
       IN  [r EXCEPT !.slide = jc,
              !.rq = IF TooOld(d) THEN @
                     ELSE queue_packet(@, MaxRqSize, [seq |-> d.seq,
                                       ts |-> d.ts, hole |-> FALSE])]

\* rtp_session_rtp_recv: parse every datagram of the socket
RtpRecv(r, ds, ts) ==
  LET f[i \in 0..Len(ds)] == IF i = 0 THEN r ELSE parse(f[i - 1], ds[i], ts)
  IN  f[Len(ds)]

CompensatedTs(sl, ts) == (ts + (IF sl = <<>> THEN 0 ELSE sl[1]) - JittComp)
                           % TsSpace

\* The end of rtp_session_recvm_with_ts: the packet returned (<<>> is NULL)
\* updates rcv_last_ts and, if its payload type is new, rcv.pt.
Return(got) ==
  /\ out' = out \o got
  /\ lastNull' = (got = <<>>)
  /\ lastTs' = IF got = <<>> THEN lastTs ELSE <<got[1].ts>>
  /\ LET pt == IF got[1].hole THEN RetryLimit ELSE MediaPt IN
       IF got # <<>> /\ pt # rcvPt /\ pt \in ProfilePts
       THEN rcvPt' = pt /\ ptSignals' = TRUE
       ELSE UNCHANGED <<rcvPt, ptSignals>>

(***************************************************************************)
(* rtp_session_recvm_with_ts(session, ts), called by receiver_process of   *)
(* MSRtpRecv: with a new timestamp at each tick, then again with the same  *)
(* one as long as a packet came out; only the first of these calls reads   *)
(* the sockets.                                                            *)
(***************************************************************************)
Recvm(ts) ==
  LET before == [rq |-> rq, rtxQ |-> rtxQ, slide |-> slide] IN
  \E r \in {IF ts = userTs THEN before ELSE RtpRecv(before, sock, ts)} :
  \E t \in {CompensatedTs(r.slide, ts)} :
  \E g \in {rtp_getq(r.rq, t)} :
  \E q \in {IF g.ret = <<>> THEN r.rtxQ
            ELSE FillGaps(rtp_putq(r.rtxQ, g.ret[1]))} :
  \E d \in {rtp_getq_permissive(q, (t - RecvCache) % TsSpace)} :
    /\ sock'   = IF ts = userTs THEN sock ELSE <<>>
    /\ userTs' = ts
    /\ slide'  = r.slide
    /\ IF synced \/ r.rq # <<>>
       THEN /\ synced'   = TRUE
            /\ rq'       = g.rest
            /\ rtxQ'     = d.rest
            /\ requests' = requests \o Asked(r.rtxQ, q)
            /\ RtcpToNet(Range(Asked(r.rtxQ, q)))
            /\ Return(d.ret)
       ELSE /\ rq' = r.rq /\ rtxQ' = r.rtxQ
            /\ UNCHANGED <<synced, requests, rtcpNet, budget>>
            /\ Return(<<>>)
    /\ UNCHANGED <<sndVars, net>>

RecvTick  == lastNull /\ userTs < MaxUserTs /\ Recvm(userTs + 1)
RecvAgain == ~lastNull /\ Recvm(userTs)
-----------------------------------------------------------------------------
Init ==
  /\ sent = 0 /\ sendQ = <<>>
  /\ net = {} /\ rtcpNet = {} /\ sock = <<>>
  /\ budget = [loss |-> LossBudget, dup |-> DupBudget]
  /\ userTs = -1 /\ lastNull = TRUE /\ synced = FALSE
  /\ slide = <<>> /\ rq = <<>> /\ rtxQ = <<>>
  /\ lastTs = <<>> /\ rcvPt = MediaPt
  /\ out = <<>> /\ requests = <<>> /\ ptSignals = FALSE

Next == Send \/ Arrive \/ AnswerRequest \/ RecvTick \/ RecvAgain

SafeSpec == Init /\ [][Next]_vars

\* The ticker thread of the receiving filter goes on calling.
Spec == SafeSpec /\ WF_vars(RecvTick) /\ WF_vars(RecvAgain)
-----------------------------------------------------------------------------
(***************************************************************************)
(* Properties                                                              *)
(***************************************************************************)
Successor(s) == (s + 1) % SeqSpace

\* Between two calls rtx_recv_queue has no gap: the numbers in it follow each
\* other, whatever was lost, late, duplicated or retransmitted.  (A gap the
\* walk of rtp_session_recvm_with_ts leaves would never be asked for again.)
RtxQueueContiguous ==
  \A i \in 1..Len(rtxQ) - 1 : rtxQ[i + 1].seq = Successor(rtxQ[i].seq)

\* The send cache answers every request younger than rtx_send_cache_time: it
\* holds exactly the packets sent since.
SendCacheIsTheWindow ==
  {sendQ[i].seq : i \in DOMAIN sendQ} =
     {SeqOfPkt(n) : n \in {k \in 0..sent - 1 : sent - 1 - k < SendCache}}

\* A retransmission read from the socket while its placeholder waits takes
\* the placeholder's place, as long as rcv.pt is the payload type of the
\* stream: a placeholder that was given to the application may have changed
\* it (PayloadTypeSignalIsTrue), and until a packet of the stream comes out
\* rtp_session_rtp_parse frees the retransmissions it reads.
RetransmissionFillsHole ==
  [][\A i \in DOMAIN sock, j \in DOMAIN rtxQ :
       (sock' = <<>> /\ sock[i].ver = 0 /\ rcvPt = MediaPt /\ rtxQ[j].hole
          /\ rtxQ[j].seq = sock[i].seq)
       => \A k \in DOMAIN rtxQ' : rtxQ'[k].seq = sock[i].seq => ~rtxQ'[k].hole]_vars

\* Every packet held back is handed over in the end, even if no other packet
\* comes: rtx_recv_queue and the jitter buffer drain once the stream stops.
Drains == <>[](rtxQ = <<>> /\ rq = <<>>)

\* The stream only ever has the payload type MediaPt, so the application is
\* never told "payload_type_changed: the payload type of the incoming stream
\* has changed" (rtp_session_signal_connect).
PayloadTypeSignalIsTrue == ~ptSignals

\* What the application sees is the stream of RtpChannel: numbers are asked for
\* once, what it is given does not go back, and a number it was given a
\* placeholder for is settled, although the original, the retransmission and
\* the placeholder race (the packet with the timestamp of its successor makes
\* rtp_session_rtp_parse drop the original).
NumberOf(s) == (s - Seq0) % SeqSpace

Channel == INSTANCE RtpChannel WITH
  produced <- sent,
  asked <- [i \in DOMAIN requests |-> NumberOf(requests[i])],
  given <- [i \in DOMAIN out |->
              [n |-> NumberOf(out[i].seq), hole |-> out[i].hole]]

ImplementsChannel == Channel!ChannelSpec
=============================================================================
