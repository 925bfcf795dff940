------------------------------ MODULE RtpQueue ------------------------------
(***************************************************************************)
(* The packet queues of an RTP session: the order on sequence numbers and  *)
(* on timestamps, and the operations rtp_putq, rtp_getq and                *)
(* rtp_getq_permissive (ortp/rtpsession.c) and queue_packet                *)
(* (ortp/rtpparse.c).  A queue_t is a sequence whose head is the oldest    *)
(* packet (qfirst) and whose last element is the newest one (qlast); a     *)
(* packet is any record with the fields seq and ts.                        *)
(***************************************************************************)
EXTENDS Integers, Sequences, FiniteSetsExt

CONSTANTS
  SeqSpace,   \* 2^16 in the code: sequence numbers are uint16_t
  TsSpace     \* 2^32 in the code: timestamps are uint32_t

ASSUME SpaceAssumption ==
  /\ SeqSpace \in Nat \ {0} /\ SeqSpace % 2 = 0
  /\ TsSpace \in Nat \ {0} /\ TsSpace % 2 = 0

\* RTP_SEQ_IS_GREATER: true for equal numbers too.
SeqIsGreater(s1, s2) == (s1 - s2) % SeqSpace < SeqSpace \div 2

\* RTP_TIMESTAMP_IS_NEWER_THAN: true for equal timestamps too.
TsIsNewer(t1, t2) == (t1 - t2) % TsSpace < TsSpace \div 2

\* RTP_TIMESTAMP_IS_STRICTLY_NEWER_THAN
TsIsStrictlyNewer(t1, t2) == TsIsNewer(t1, t2) /\ t1 # t2

(***************************************************************************)
(* rtp_putq looks at the queue from the bottom to the top and stops at the *)
(* first packet that is a duplicate of p (p is then freed) or older than p *)
(* (p is then inserted right behind it).  With no such packet p is the     *)
(* oldest and goes to the top.                                             *)
(***************************************************************************)
rtp_putq(q, p) ==
  LET stops == {i \in DOMAIN q : SeqIsGreater(p.seq, q[i].seq)}
      last  == Max(stops)
  IN  IF stops = {} THEN <<p>> \o q
      ELSE IF q[last].seq = p.seq THEN q
      ELSE SubSeq(q, 1, last) \o <<p>> \o SubSeq(q, last + 1, Len(q))

(***************************************************************************)
(* rtp_getq dequeues the packets that are not newer than t, until it meets *)
(* a second packet with the timestamp it has just dequeued; it returns the *)
(* last one and frees ("rejected") the ones before.                        *)
(***************************************************************************)
rtp_getq(q, t) ==
  LET mayTake(k) == \A i \in 1..k : /\ TsIsNewer(t, q[i].ts)
                                    /\ i > 1 => q[i].ts # q[i - 1].ts
      taken == Max({k \in 0..Len(q) : mayTake(k)})
  IN  [ret      |-> IF taken = 0 THEN <<>> ELSE <<q[taken]>>,  \* <<>> is NULL
       rejected |-> SubSeq(q, 1, taken - 1),
       rest     |-> SubSeq(q, taken + 1, Len(q))]

\* Mutant of rtp_getq_permissive: the last packet of the queue stays.
rtp_getq_permissive_keeps(q, t) ==
  IF Len(q) > 1 /\ TsIsNewer(t, Head(q).ts)
  THEN [ret |-> <<Head(q)>>, rest |-> Tail(q)]
  ELSE [ret |-> <<>>, rest |-> q]

\* rtp_getq_permissive dequeues the head if it is not newer than t.
rtp_getq_permissive(q, t) ==
  IF q # <<>> /\ TsIsNewer(t, Head(q).ts)
  THEN [ret |-> <<Head(q)>>, rest |-> Tail(q)]
  ELSE [ret |-> <<>>, rest |-> q]

\* queue_packet: rtp_putq, then the oldest packets go while there are more
\* than maxrqsz.  (A packet without payload never reaches the queue; the
\* modules that use this operator send packets that have one.)
queue_packet(q, maxrqsz, p) ==
  LET r    == rtp_putq(q, p)
      over == Len(r) - maxrqsz
  IN  IF over > 0 THEN SubSeq(r, over + 1, Len(r)) ELSE r
=============================================================================
