----------------------------- MODULE MCSessions -----------------------------
(***************************************************************************)
(* Sessions with retransmission and a thread that selects on sessions.     *)
(* They share no state and are checked in one run: the first state chooses *)
(* the part that moves.                                                    *)
(*   rtx     a sending and a receiving session (RtpRtx)                    *)
(*   select  calls that do not block, and select (RtpScheduler)            *)
(***************************************************************************)
EXTENDS RtpRtx, MCRtpScheduler

VARIABLE part  \* the part that moves

allVars == <<part, vars, systemVars>>
-----------------------------------------------------------------------------
SessionsInit == part \in {"rtx", "select"} /\ Init /\ SystemInit

InRtx == part = "rtx" /\ UNCHANGED <<part, systemVars>>
InSel == part = "select" /\ UNCHANGED <<part, vars>>

\* A stream may be over, a thread that selects is never stuck.
SessionsNext ==
  \/ InRtx /\ (Next \/ UNCHANGED vars)
  \/ InSel /\ SystemNext

SessionsSpec == SessionsInit /\ [][SessionsNext]_allVars
=============================================================================
