------------------------------- MODULE NatType -------------------------------
(***************************************************************************)
(* Finding out behind what kind of NAT the program runs: stunNatType       *)
(* (ortp/stun.c), called by ice_get_nat_type (mediastreamer/ice.c), with   *)
(* the answers of a server as stunServerProcessMsg forms them.  The NAT    *)
(* and the network are external.                                           *)
(*                                                                         *)
(* A test is sent again at every timeout of the select until it is         *)
(* answered.  Messages are named by their test: 1, 2 (answer from the      *)
(* other address), 3 (from the other port), 10 (as 1, sent to the other    *)
(* address), 11 (to the own mapped address).  The limit of 5 seconds is    *)
(* not reached: there are at most six timeouts of half a second.  A        *)
(* failing select or send, which ends the search, is left out.             *)
(***************************************************************************)
EXTENDS NatKinds, FiniteSets

CONSTANT MaxNatLost  \* bound: requests or answers that are lost

NatAssumption == MaxNatLost \in Nat

Tests == {1, 2, 3, 10, 11}

VARIABLES
  prompt,    \* external: answers take less than the timeout of the select
  nat,       \* external: what the NAT really is
  hairpins,  \* external: it sends back what is for its own addresses
  natCount,  \* count
  answered,  \* respTestI, respTestII, ...: the tests that are true
  mappedIpSame,
  way,       \* external: answers on their way
  here,      \* answers in the sockets
  holes,     \* external: per socket, the addresses of the server it sent to
  natLost,   \* external: how much was lost
  answer     \* what stunNatType returned, 0 before

natVars == <<prompt, nat, hairpins, natCount, answered, mappedIpSame, way, here, holes,
             natLost, answer>>
-----------------------------------------------------------------------------
\* Mutant of Socket: one socket is used for all tests.
SocketOne(t) == 1

\* The socket a test is sent with: myFd1 or myFd2.
Socket(t) == IF t \in {2, 3} THEN 2 ELSE 1

\* The address of the server a test is sent to, and that its answer is from:
\* a test that asks for the other address or port of the server gets it.
SentTo(t) == IF t = 10 THEN "alt" ELSE "main"
AnsweredFrom(t) == IF t \in {2, 10} THEN "alt" ELSE "main"

\* External: whether the answer to a test comes in, after the tests of h.
Comes(t, h) ==
  IF t = 11 THEN hairpins
  ELSE CASE nat = Blocked -> FALSE
         [] nat \in {Open, Cone} -> TRUE
         [] nat = Restricted -> AnsweredFrom(t) \in h[Socket(t)]
         [] OTHER -> t \in {1, 10}

\* The tests sent at a timeout.
ToSend ==
  (IF 1 \in answered THEN Tests ELSE {1, 2, 3}) \ answered

\* while (count < 3 && second_elapsed < 5)
Looping == answer = 0 /\ natCount < 3

\* select returns 0: with a count of 0 it does not wait.
Timeout ==
  /\ Looping /\ here = {}
  /\ natCount > 0 /\ prompt => way = {}
  /\ natCount' = natCount + 1
  /\ LET To(s) == {SentTo(t) : t \in {u \in ToSend \ {11} : Socket(u) = s}}
         h == [s \in 1..2 |-> holes[s] \cup To(s)]
         answers == {t \in ToSend : Comes(t, h)}
     IN \E arriving \in SUBSET answers :
          /\ holes' = h /\ way' = way \cup arriving
          /\ natLost' = natLost + Cardinality(answers \ arriving)
          /\ natLost' =< MaxNatLost
  /\ UNCHANGED <<prompt, nat, hairpins, answered, mappedIpSame, here, answer>>

\* External: an answer arrives.
Arrive(t) ==
  /\ answer = 0 /\ t \in way
  /\ way' = way \ {t} /\ here' = here \cup {t}
  /\ UNCHANGED <<prompt, nat, hairpins, natCount, answered, mappedIpSame, holes,
                natLost, answer>>

SameMapping(new) == IF 10 \in new THEN nat # Sym ELSE mappedIpSame

\* select finds answers: one of each socket is read.
Data ==
  /\ Looping /\ here # {}
  /\ \E got \in SUBSET here :
       /\ \A t, u \in got : Socket(t) = Socket(u) => t = u
       /\ \A t \in here : \E u \in got : Socket(t) = Socket(u)
       /\ LET new == got \ answered IN
          /\ answered' = answered \cup got
          /\ natCount' = IF 1 \in new THEN 0 ELSE natCount
          /\ mappedIpSame' = SameMapping(new)
       /\ here' = here \ got
  /\ UNCHANGED <<prompt, nat, hairpins, way, holes, natLost, answer>>

\* isNat: the mapped address cannot be bound.  Without an answer to test 1
\* it is 0.0.0.0, which can; the type does not depend on it then.
IsNat == nat \notin {Open, SymFirewall}

FlowChart ==
  IF 1 \notin answered THEN Blocked
  ELSE IF ~IsNat THEN IF 2 \in answered THEN Open ELSE SymFirewall
  ELSE IF 2 \in answered THEN Cone
  ELSE IF ~mappedIpSame THEN Sym
  ELSE IF 3 \in answered THEN Restricted ELSE PortRestricted

Conclude ==
  /\ answer = 0 /\ natCount = 3
  /\ answer' = FlowChart
  /\ UNCHANGED <<prompt, nat, hairpins, natCount, answered, mappedIpSame, way, here,
                holes, natLost>>

\* A socket cannot be opened.
OpenFails ==
  /\ answer = 0 /\ natCount = 0 /\ holes = [s \in 1..2 |-> {}]
  /\ answer' = Failed
  /\ UNCHANGED <<prompt, nat, hairpins, natCount, answered, mappedIpSame, way, here,
                holes, natLost>>
-----------------------------------------------------------------------------
NatInit ==
  /\ prompt \in BOOLEAN /\ nat \in Open..Blocked /\ hairpins \in BOOLEAN
  /\ natCount = 0 /\ answered = {} /\ mappedIpSame = TRUE
  /\ way = {} /\ here = {} /\ holes = [s \in 1..2 |-> {}] /\ natLost = 0
  /\ answer = 0

NatNext == Timeout \/ Data \/ Conclude \/ OpenFails \/ \E t \in Tests : Arrive(t)

NatSpec == NatInit /\ [][NatNext]_natVars
-----------------------------------------------------------------------------
\* When nothing is lost or late the type is the true one.  Otherwise the NAT
\* is taken for less open than it is, never for more, except that a symmetric
\* one passes for port restricted when its test 10 was not answered.
TypeIsTrue ==
  answer \notin {0, Failed} =>
    /\ prompt /\ natLost = 0 => answer = nat
    /\ \/ answer >= nat
       \/ nat = Sym /\ answer = PortRestricted /\ 10 \notin answered
=============================================================================
