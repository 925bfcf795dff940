---------------------------- MODULE SchedRegistry ----------------------------
(***************************************************************************)
(* Which sessions the scheduler manages (ortp/scheduler.c): the list its   *)
(* thread goes through and the places of the sessions in the masks of      *)
(* session_set_select, from the creation of a session to its end           *)
(* (ortp/rtpsession.c).  A session is used by one thread; list and masks   *)
(* are changed under the lock of the scheduler.  What the masks of events  *)
(* hold is left to RtpScheduler.                                           *)
(***************************************************************************)
EXTENDS Naturals, Sequences, SequencesExt, FiniteSetsExt

CONSTANTS
  RtpSessions,
  MaxSessions  \* sched->max_sessions, 1024 in the code

ASSUME RegistryAssumption == MaxSessions \in Nat \ {0}

VARIABLES
  life,         \* of a session: "none", "alive" or "freed"
  scheduled,    \* RTP_SESSION_SCHEDULED
  inScheduler,  \* RTP_SESSION_IN_SCHEDULER
  list,         \* sched->list
  maskPos,
  allSessions,  \* the bits of sched->all_sessions
  allMax,
  overfull,     \* history: there was a session without a place of its own
  switchedOff   \* history: sessions whose scheduling was switched off

registryVars == <<life, scheduled, inScheduler, list, maskPos, allSessions,
                  allMax, overfull, switchedOff>>

Listed == ToSet(list)
-----------------------------------------------------------------------------
\* rtp_session_new.  The memory of a session may have been used before; a
\* session that is listed is not in use again.
Create(s) ==
  /\ life[s] \in {"none", "freed"} /\ s \notin Listed
  /\ life' = [life EXCEPT ![s] = "alive"]
  /\ scheduled' = [scheduled EXCEPT ![s] = FALSE]
  /\ inScheduler' = [inScheduler EXCEPT ![s] = FALSE]
  /\ maskPos' = [maskPos EXCEPT ![s] = 0]
  /\ switchedOff' = switchedOff \ {s}
  /\ UNCHANGED <<list, allSessions, allMax, overfull>>

Free == (0..MaxSessions - 1) \ allSessions

\* rtp_session_set_scheduling_mode(s, TRUE), rtp_scheduler_add_session.
\* Without a free place the session keeps the position it has.
SwitchOn(s) ==
  /\ life[s] = "alive"
  /\ scheduled' = [scheduled EXCEPT ![s] = TRUE]
  /\ IF inScheduler[s]
     THEN UNCHANGED <<inScheduler, list, maskPos, allSessions, allMax, overfull>>
     ELSE /\ list' = <<s>> \o list
          /\ inScheduler' = [inScheduler EXCEPT ![s] = TRUE]
          /\ IF Free = {}
             THEN overfull' = TRUE /\ UNCHANGED <<maskPos, allSessions, allMax>>
             ELSE /\ maskPos' = [maskPos EXCEPT ![s] = Min(Free)]
                  /\ allSessions' = allSessions \cup {Min(Free)}
                  /\ allMax' = Max({allMax, Min(Free)})
                  /\ overfull' = overfull
  /\ UNCHANGED <<life, switchedOff>>

\* rtp_session_set_scheduling_mode(s, FALSE).
SwitchOff(s) ==
  /\ life[s] = "alive"
  /\ scheduled' = [scheduled EXCEPT ![s] = FALSE]
  /\ switchedOff' = IF scheduled[s] THEN switchedOff \cup {s} ELSE switchedOff
  /\ UNCHANGED <<life, inScheduler, list, maskPos, allSessions, allMax, overfull>>

\* Mutant of Unlink: only the head of the list is found.
UnlinkHead(s) == IF list # <<>> /\ Head(list) = s THEN Tail(list) ELSE list

Position(s) == CHOOSE i \in DOMAIN list : list[i] = s
Unlink(s) == RemoveAt(list, Position(s))

\* Mutant of Cleared: the place stays taken.
ClearedNot(s) == allSessions

Cleared(s) == allSessions \ {maskPos[s]}

\* rtp_session_destroy: rtp_session_uninit and rtp_scheduler_remove_session.
Destroy(s) ==
  /\ life[s] = "alive"
  /\ life' = [life EXCEPT ![s] = "freed"]
  /\ IF scheduled[s] /\ inScheduler[s]
     THEN /\ list' = Unlink(s)
          /\ inScheduler' = [inScheduler EXCEPT ![s] = FALSE]
          /\ allSessions' = Cleared(s)
     ELSE UNCHANGED <<list, inScheduler, allSessions>>
  /\ UNCHANGED <<scheduled, maskPos, allMax, overfull, switchedOff>>
-----------------------------------------------------------------------------
RegistryInit ==
  /\ life = [s \in RtpSessions |-> "none"]
  /\ scheduled = [s \in RtpSessions |-> FALSE] /\ inScheduler = scheduled
  /\ list = <<>> /\ maskPos = [s \in RtpSessions |-> 0]
  /\ allSessions = {} /\ allMax = 0
  /\ overfull = FALSE /\ switchedOff = {}

RegistryNext == \E s \in RtpSessions : Create(s) \/ SwitchOn(s) \/ SwitchOff(s) \/ Destroy(s)

RegistrySpec == RegistryInit /\ [][RegistryNext]_registryVars
-----------------------------------------------------------------------------
\* As long as the table was never full, every session in the list has a place
\* of its own, no other place is taken and the select looks at all of them.
PlacesAreTheirs ==
  ~overfull =>
    /\ \A s, t \in Listed : maskPos[s] = maskPos[t] => s = t
    /\ allSessions = {maskPos[s] : s \in Listed}
    /\ \A p \in allSessions : p =< allMax

\* The thread of the scheduler never comes to the memory of a session that is
\* gone, unless its scheduling was switched off before it went.
FreedIsUnlisted ==
  \A s \in Listed : life[s] = "freed" => s \in switchedOff
=============================================================================
