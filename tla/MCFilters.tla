------------------------------ MODULE MCFilters -----------------------------
(***************************************************************************)
(* Filters that the ticker keeps going, checked in one run, for they share *)
(* no state: the first state chooses the part that moves.                  *)
(*   playback  the filter that plays sound (SoundPlayback)                 *)
(*   tones     tones between a sending and a receiving filter              *)
(*             (TelephoneEvents)                                           *)
(*   rtx       the queues of a receiving filter with retransmission        *)
(*             (RtpRtx)                                                    *)
(*   walk      its walk over rtx_recv_queue, turn by turn (RtxWalk)        *)
(***************************************************************************)
EXTENDS RtxWalk, TelephoneEvents

VARIABLES
  part,                                       \* which part moves
  isRunning, isSleeping, stock, writer, stopper, missed,  \* SoundPlayback
  sent, sendQ, rtxNet, rtcpNet, sock, userTs, lastNull, synced, slide, rq,
  rtxQ, lastTs, rcvPt, out, requests, ptSignals, rtxBudget  \* RtpRtx

playbackVars == <<isRunning, isSleeping, stock, writer, stopper, missed>>
rtxVars == <<sent, sendQ, rtxNet, rtcpNet, sock, userTs, lastNull, synced, slide,
  rq, rtxQ, lastTs, rcvPt, out, requests, ptSignals, rtxBudget>>
allVars == <<part, playbackVars, vars, rtxVars, walkVars>>

Playback == INSTANCE SoundPlayback WITH
  MaxSize <- 2, LateSize <- 4, FrameSizes <- {1, 3}, Ceiling <- 6

Nothing == [loss |-> 0, dup |-> 0, change |-> 0, idle |-> 0, late |-> 0, air |-> 5]

\* A network with faults; a sender with a change and gaps that nobody hears.
AllBudgets == {[Nothing EXCEPT !.loss = 2], [Nothing EXCEPT !.dup = 2],
            [Nothing EXCEPT !.loss = 1, !.late = 1],
            [Nothing EXCEPT !.change = 1, !.idle = 2, !.loss = 12, !.air = 0]}

Rtx == INSTANCE RtpRtx WITH
  net <- rtxNet, budget <- rtxBudget,
  Seq0 <- 30, Ts0 <- 30, MediaPt <- 113, RetryLimit <- 1, ProfilePts <- {1, 113},
  SendCache <- 3, RecvCache <- 2, JittComp <- 1, MaxRqSize <- 3,
  MaxPackets <- 3, MaxUserTs <- 10, LastArrival <- 3, LossBudget <- 2,
  DupBudget <- 0

ASSUME WalkAssumption /\ Playback!PlaybackAssumption /\ Rtx!RtxAssumption
-----------------------------------------------------------------------------
AllInit ==
  /\ part \in {"playback", "tones", "rtx", "walk"}
  /\ WalkInit /\ (part # "walk" => queue0 = <<>>)
  /\ Playback!Init /\ Rtx!Init
  /\ Init /\ (part # "tones" => budget.air = 0 /\ scene.supported /\ scene.direct)

InPlayback == part = "playback" /\ UNCHANGED <<part, vars, rtxVars, walkVars>>
InTones    == part = "tones" /\ UNCHANGED <<part, playbackVars, rtxVars, walkVars>>
InRtx      == part = "rtx" /\ UNCHANGED <<part, playbackVars, vars, walkVars>>
InWalk     == part = "walk" /\ UNCHANGED <<part, playbackVars, vars, rtxVars>>

AllNext ==
  \/ InPlayback /\ Playback!Next
  \/ InTones /\ Next
  \/ InRtx /\ Rtx!Next
  \/ InWalk /\ Walk

\* The fairness of the parts; the walk has none, it is a loop without waits.
AllSpec ==
  /\ AllInit /\ [][AllNext]_allVars
  /\ WF_allVars(InPlayback /\ Playback!Thread)
  /\ WF_allVars(InPlayback /\ Playback!Frames)
  /\ WF_allVars(InPlayback /\ Playback!StopOn)
  /\ WF_allVars(InTones /\ Frame)
  /\ WF_allVars(InTones /\ Recv) /\ WF_allVars(InTones /\ RecvAgain)
  /\ WF_allVars(InRtx /\ Rtx!RecvTick) /\ WF_allVars(InRtx /\ Rtx!RecvAgain)
-----------------------------------------------------------------------------
\* While frames come in, sound that suffices for a write does not stay.
StockGoesDown == Playback!StockGoesDown

\* A stop of the playback comes back, unless its signal came too early.
SeenStopReturns == Playback!SeenStopReturns

\* What a receiver with retransmission holds back comes out in the end.
Drains == Rtx!Drains
=============================================================================
