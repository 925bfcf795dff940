--------------------------- MODULE MCRtpScheduler ---------------------------
(***************************************************************************)
(* Small instances of RtpScheduler: which threads work on which sessions.  *)
(***************************************************************************)
EXTENDS RtpScheduler, TLC

CONSTANTS s1, s2, a1, a2

\* Two threads in blocking mode: one receives on a session, the other sends
\* on it.
BlockingUses == a1 :> {<<s1, "rcv">>} @@ a2 :> {<<s1, "snd">>}

\* One thread selects on the receiving side of two sessions.
SelectUses == a1 :> {<<s1, "rcv">>, <<s2, "rcv">>}

\* One thread selects on the receiving side of one session and on the sending
\* side of another, of the same one.
SetsUses == a1 :> {<<s1, "rcv">>, <<s2, "snd">>}
BothUses == a1 :> {<<s1, "rcv">>, <<s1, "snd">>}

\* One thread selects on the receiving side of a session.
SignUses == a1 :> {<<s1, "rcv">>}

Both == <<s1, s2>>
One  == <<s1>>

OneWord   == s1 :> 0 @@ s2 :> 0
TwoWords  == s1 :> 0 @@ s2 :> 1
Alone     == s1 :> 0
=============================================================================
