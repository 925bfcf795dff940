------------------------------ MODULE RtxGaps ------------------------------
(***************************************************************************)
(* The gaps of rtx_recv_queue and what the walk over it in                 *)
(* rtp_session_recvm_with_ts (ortp/rtpsession.c) does about them.  RtpRtx  *)
(* uses FillGaps and Asked for the whole walk; RtxWalk takes its turns one *)
(* by one.                                                                 *)
(***************************************************************************)
EXTENDS RtpQueue, SequencesExt

Placeholder(s, t) == [seq |-> s, ts |-> t, hole |-> TRUE]

(***************************************************************************)
(* What the walk makes of it: behind every packet whose successor in the   *)
(* queue does not carry the next number, a placeholder for each number     *)
(* in between, with the timestamp of that successor.                       *)
(***************************************************************************)
NumberAt(q, k) == (q[1].seq + k) % SeqSpace
EntriesAt(q, k) == {i \in DOMAIN q : q[i].seq = NumberAt(q, k)}

GapTs(q, k) == q[Min({i \in DOMAIN q : (q[i].seq - q[1].seq) % SeqSpace > k})].ts

\* Mutant of FillGaps: one placeholder for a gap of any width.
FillGapsOnce(q) ==
  FlattenSeq([i \in DOMAIN q |->
    IF i = Len(q) \/ q[i + 1].seq = (q[i].seq + 1) % SeqSpace THEN <<q[i]>>
    ELSE <<q[i], Placeholder((q[i].seq + 1) % SeqSpace, q[i + 1].ts)>>])

FillGaps(q) ==
  IF q = <<>> THEN q
  ELSE [n \in 1..((Last(q).seq - q[1].seq) % SeqSpace) + 1 |->
          IF EntriesAt(q, n - 1) # {} THEN q[Min(EntriesAt(q, n - 1))]
          ELSE Placeholder(NumberAt(q, n - 1), GapTs(q, n - 1))]

Holes(q) == {q[i].seq : i \in {j \in DOMAIN q : q[j].hole}}

\* The walk sends a RTCP APP request for each placeholder it makes.
Asked(before, after) ==
  LET f[i \in 0..Len(after)] ==
        IF i = 0 THEN <<>>
        ELSE IF after[i].hole /\ after[i].seq \notin Holes(before)
        THEN Append(f[i - 1], after[i].seq) ELSE f[i - 1]
  IN  f[Len(after)]
=============================================================================
