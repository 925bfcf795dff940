---------------------------- MODULE MCRtpReceive ----------------------------
(***************************************************************************)
(* Small instances of RtpReceive: the scenes, with their bounds.           *)
(***************************************************************************)
EXTENDS RtpReceive

CONSTANTS s1, s2, s3

Nothing ==
  [sources |-> {s1}, base |-> 0, final |-> 0, burst |-> 0, late |-> 0,
   packets |-> 20, reads |-> FALSE, reports |-> 0, resets |-> 0, jumps |-> 0]

\* Three sources that interleave, to an application that reads; their numbers
\* wrap.
Sources == [Nothing EXCEPT !.sources = {s1, s2, s3}, !.base = 60, !.final = 69,
                           !.packets = 9, !.reads = TRUE]

\* One source that loses packets, with reports at any time and a reset; its
\* numbers may wrap in the first burst.
Losses == [Nothing EXCEPT !.base = 62, !.final = 73, !.burst = 2, !.reports = 3,
                          !.resets = 1]

\* One source whose clock jumps.
ClockJump == [Nothing EXCEPT !.base = 58, !.final = 70, !.reads = TRUE, !.jumps = 1]

AllScenes == {Sources, Losses, ClockJump}

\* As Losses, but a packet may be late by one.
LateScenes == {[Losses EXCEPT !.late = 1]}
=============================================================================
