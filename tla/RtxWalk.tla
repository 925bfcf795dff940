------------------------------- MODULE RtxWalk -------------------------------
(***************************************************************************)
(* The loop of rtp_session_recvm_with_ts that walks over rtx_recv_queue    *)
(* with the cursor curr, one turn per step: it compares the number of a    *)
(* packet with that of its successor and, if a number is missing, makes a  *)
(* placeholder for the first missing one, sends the request and calls      *)
(* rtp_putq.  The cursor then moves to the next packet, which may be the   *)
(* placeholder it has just queued.  RtpRtx uses FillGaps for the whole     *)
(* loop; this module checks the two against each other.                    *)
(***************************************************************************)
EXTENDS RtxGaps

CONSTANTS
  FirstSeq,    \* number and timestamp of the first packet
  MaxSpan      \* bound: width of the queues the walk starts from

WalkAssumption ==
  FirstSeq \in 0..SeqSpace - 1 /\ MaxSpan \in 1..(SeqSpace \div 2) - 1

VARIABLES queue0,    \* rtx_recv_queue when the loop starts
          queue,     \* rtx_recv_queue
          curr,      \* position of the cursor in it
          asked      \* numbers requested so far, in the order of the requests

walkVars == <<queue0, queue, curr, asked>>

\* Queues the loop can meet: of MaxSpan + 1 numbers each is that of a packet,
\* of an older placeholder or missing; the timestamps follow the numbers.
StartQueues ==
  LET entry(n, hole) == [seq |-> (FirstSeq + n - 1) % SeqSpace,
                         ts |-> (FirstSeq + n - 1) % TsSpace, hole |-> hole]
      upTo[n \in 0..MaxSpan + 1] ==
        IF n = 0 THEN {<<>>}
        ELSE upTo[n - 1] \cup
               {Append(s, entry(n, hole)) : s \in upTo[n - 1], hole \in BOOLEAN}
  IN  upTo[MaxSpan + 1]

WalkInit ==
  /\ queue0 \in StartQueues
  /\ queue = queue0 /\ curr = 1 /\ asked = <<>>

\* Mutant of NextSeq: the sum is an int, not a uint16_t.
NextSeqPromoted(s) == s + 1

NextSeq(s) == (s + 1) % SeqSpace

Walk ==
  /\ curr < Len(queue)
  /\ LET missing == NextSeq(queue[curr].seq) IN
       IF missing # queue[curr + 1].seq
       THEN /\ queue' = rtp_putq(queue, Placeholder(missing, queue[curr + 1].ts))
            /\ asked' = Append(asked, missing)
       ELSE UNCHANGED <<queue, asked>>
  /\ curr' = curr + 1
  /\ UNCHANGED queue0

WalkSpec == WalkInit /\ [][Walk]_walkVars

\* When the loop ends the queue is the one FillGaps describes, and a request
\* was sent for each placeholder the loop made, in the order of the queue; on
\* the way there the queue never gets longer than that.
WalkFillsGaps ==
  /\ Len(queue) =< Len(FillGaps(queue0))
  /\ curr >= Len(queue) => queue = FillGaps(queue0) /\ asked = Asked(queue0, queue)
=============================================================================
