------------------------------ MODULE P2pCheck ------------------------------
(***************************************************************************)
(* The connectivity check over a server (mediastreamer/ice.c, from         *)
(* ice_connectivity_check): each of two agents tries a handshake of 0, 1,  *)
(* 3 with the other, directly when the types of their NATs promise that it *)
(* works, and over the relay when that did not succeed in time.            *)
(*                                                                         *)
(* The agents run at the same time, each in a call that reads one message  *)
(* per channel and turn and waits 50 ms between turns; a turn is a step.   *)
(* get_time divides the microseconds by 1000000, so that the time of a     *)
(* call counts the seconds that begin on the wall clock: the first of them *)
(* may begin right after the call did (hasty agents), the others pass for  *)
(* both agents at the same pace.                                           *)
(* A check list has one session with its two channels.                     *)
(***************************************************************************)
EXTENDS NatKinds, FiniteSets, Bags

CONSTANTS
  Agents, Chans,
  Settings   \* records: same (both behind one NAT), nat (what the NAT of an
           \* agent is), type (what it was taken for), loss (bound: messages
           \* that are lost), hasty (agents for which the first second may
           \* begin while messages are on their way)

Types == Cone..Sym
Paths == {"direct", "relay"}

ASSUME P2pAssumption ==
  /\ IsFiniteSet(Agents) /\ Cardinality(Agents) = 2
  /\ IsFiniteSet(Chans) /\ Chans # {}
  /\ Settings \subseteq [same : BOOLEAN, nat : [Agents -> Types],
                       type : [Agents -> Types], loss : Nat,
                       hasty : SUBSET Agents]

VARIABLES
  setting,
  phase,        \* where the call of an agent is
  connectable, isEnd,
  link,         \* remote->session[0].*.link: the path to the other agent
  second,       \* get_time(0) / 1000
  timeOut,      \* time_out / 200
  result,       \* ice_connectivity_check > 0
  net,          \* external: messages on their way, a bag
  sent,         \* external: the NAT of the agent has let something out
  registered,   \* external: the relay knows the agent
  lost,         \* external: messages lost so far
  ticked,       \* external: agents that have seen this second begin
  heard,        \* history: the paths over which an agent was heard
  together      \* history: both calls began in the same second

p2pVars == <<setting, phase, connectable, isEnd, link, second, timeOut, result,
             net, sent, registered, lost, ticked, heard, together>>

Other(a) == CHOOSE b \in Agents : b # a
Running(a) == phase[a] \in Paths
-----------------------------------------------------------------------------
\* External.  The NAT of m.to lets m in.  One between a symmetric NAT and a
\* server admits the server only, and shows every destination another port.
Admits(m) ==
  LET a == m.to b == Other(m.to) IN
  IF m.path = "relay" THEN registered[a][m.ch] /\ registered[b][m.ch]
  ELSE \/ setting.same \/ setting.nat[a] = Cone
       \/ setting.nat[a] = Restricted /\ sent[a][m.ch]
       \/ /\ setting.nat[a] = PortRestricted /\ sent[a][m.ch]
          /\ setting.nat[b] # Sym

Receivable(m) == Running(m.to) /\ Admits(m)

\* Of each message of in one is taken off, of each of out one is sent.
Exchange(in, out) == (net (-) SetToBag(in)) (+) SetToBag(out)

Message(a, c, st, path) == [to |-> Other(a), ch |-> c, st |-> st, path |-> path]

\* External: a message is lost, or comes where nothing lets it in.
Lose(m) ==
  /\ IF Receivable(m) THEN lost < setting.loss /\ lost' = lost + 1
                      ELSE lost' = lost
  /\ net' = Exchange({m}, {})
  /\ UNCHANGED <<setting, phase, connectable, isEnd, link, second, timeOut,
                 result, sent, registered, ticked, heard, together>>

\* External: the relay gets a request, or it is lost.
Register(a, chans) ==
  \E arrived \in SUBSET chans :
    /\ lost + Cardinality(chans \ arrived) =< setting.loss
    /\ lost' = lost + Cardinality(chans \ arrived)
    /\ registered' = [registered EXCEPT ![a] =
                        [c \in Chans |-> @[c] \/ c \in arrived]]

TryDirect ==
  LET t == setting.type IN
  \/ setting.same
  \/ \A a \in Agents : t[a] = PortRestricted
  \/ \E a \in Agents : t[a] < PortRestricted

\* The path that both agents begin with.
StartPath == IF TryDirect THEN "direct" ELSE "relay"

\* External: a second begins for an agent.  A whole one is longer than a message
\* takes, and an agent takes 20 turns in it; the relay is tried at the beginning
\* of a second, so that the first one there is whole.
Second(a) ==
  /\ Running(a) /\ a \notin ticked
  /\ \A x \in Agents : Running(x) => second[x] < 2
  /\ \/ a \in setting.hasty /\ second[a] = 0 /\ phase[a] = StartPath
     \/ net = EmptyBag /\ \A x \in Agents : Running(x) => timeOut[x] >= 5 * second[x]
  /\ second' = [second EXCEPT ![a] = @ + 1]
  /\ ticked' = IF {x \in Agents : Running(x)} \subseteq ticked \cup {a}
               THEN {} ELSE ticked \cup {a}
  /\ UNCHANGED <<setting, phase, connectable, isEnd, link, timeOut, result,
                 net, sent, registered, lost, heard, together>>
-----------------------------------------------------------------------------
\* ice_check_p2p_connectiviy or ice_check_turn_connectiviy begins: 0 is sent
\* on all channels.
Begin(a, path) ==
  /\ phase' = [phase EXCEPT ![a] = path]
  /\ connectable' = [connectable EXCEPT ![a] = [c \in Chans |-> FALSE]]
  /\ isEnd' = [isEnd EXCEPT ![a] = [c \in Chans |-> FALSE]]
  /\ second' = [second EXCEPT ![a] = 0] /\ timeOut' = [timeOut EXCEPT ![a] = 1]
  /\ IF path = "relay"
     THEN Register(a, Chans) /\ UNCHANGED sent
     ELSE /\ sent' = [sent EXCEPT ![a] = [c \in Chans |-> TRUE]]
          /\ UNCHANGED <<registered, lost>>

Start(a) ==
  /\ phase[a] = "wait"
  /\ Begin(a, StartPath)
  /\ net' = Exchange({}, {Message(a, c, 0, StartPath) : c \in Chans})
  /\ together' = \/ phase[Other(a)] = "wait"
                 \/ second[Other(a)] = 0 /\ phase[Other(a)] = StartPath
  /\ UNCHANGED <<setting, link, result, ticked, heard>>

\* Mutant of Answer: nothing answers the last message.
AnswerNoEnd(st) == CASE st = 0 -> {1} [] st = 1 -> {3} [] OTHER -> {}

\* What is sent back for a message.
Answer(st) == IF st = 0 THEN {1} ELSE {3}

\* Mutant of Ends: the cases of the switch fall through to the last one.
EndsAny(st) == TRUE

\* The message that ends the handshake on its channel, and those that show
\* that the path works.
Ends(st) == st = 3
Connects(st) == st \in {1, 3}

\* Mutant of TimeUp: the time is up when it reaches the limit.
TimeUpAtLimit(s) == s >= 1

\* get_time(0) > 1000, after so many seconds have begun.
TimeUp(s) == s > 1

\* At most one message is read per channel, and none where all is over.
Readable(a) ==
  {got \in SUBSET {m \in BagToSet(net) : m.to = a /\ Receivable(m) /\ ~isEnd[a][m.ch]} :
     \A c \in Chans : Cardinality({m \in got : m.ch = c}) =< 1}

\* What an agent does with the messages it reads in a turn.
Read(a, got) ==
  LET path == phase[a]
      On(c) == {m \in got : m.ch = c}
      conn == [c \in Chans |-> connectable[a][c] \/ \E m \in On(c) : Connects(m.st)]
      ends == [c \in Chans |-> isEnd[a][c] \/ \E m \in On(c) : Ends(m.st)]
      all == \A c \in Chans : ends[c]
      again == ~all /\ 5 * second[a] > timeOut[a]
      mute == IF again THEN {c \in Chans : ~conn[c]} ELSE {}
      over == TimeUp(second[a])
      answers == UNION {{Message(a, m.ch, st, path) : st \in Answer(m.st)}
                          : m \in got}
      retries == {Message(a, c, 0, path) : c \in mute}
      newLink == [c \in Chans |->
                    IF \E m \in On(c) : Connects(m.st)
                    THEN (CHOOSE m \in On(c) : TRUE).path
                    ELSE link[a][c]]
  IN
  /\ got # {} \/ again \/ over
  /\ heard' = [heard EXCEPT ![Other(a)] =
                 [c \in Chans |-> @[c] \cup {m.path : m \in On(c)}]]
  /\ IF all \/ over
     THEN IF all \/ path = "relay"
          THEN \* the call returns and closes its sockets
               /\ phase' = [phase EXCEPT ![a] = "done"]
               /\ connectable' = [connectable EXCEPT ![a] = conn]
               /\ isEnd' = [isEnd EXCEPT ![a] = ends]
               /\ result' = [result EXCEPT ![a] = all]
               /\ link' = [link EXCEPT ![a] = newLink]
               /\ net' = Exchange(got, answers \cup retries)
               /\ ticked' = ticked \ {a}
               /\ IF path = "relay" THEN Register(a, mute)
                                    ELSE UNCHANGED <<registered, lost>>
               /\ UNCHANGED <<second, timeOut, sent>>
          ELSE \* over the relay then
               /\ Begin(a, "relay")
               /\ link' = [link EXCEPT ![a] = [c \in Chans |-> "none"]]
               /\ net' = Exchange(got, answers \cup retries
                           \cup {Message(a, c, 0, "relay") : c \in Chans})
               /\ UNCHANGED <<result, ticked>>
     ELSE /\ connectable' = [connectable EXCEPT ![a] = conn]
          /\ isEnd' = [isEnd EXCEPT ![a] = ends]
          /\ link' = [link EXCEPT ![a] = newLink]
          /\ net' = Exchange(got, answers \cup retries)
          /\ timeOut' = [timeOut EXCEPT ![a] = IF again THEN @ + 1 ELSE @]
          /\ IF path = "relay" THEN Register(a, mute)
                               ELSE UNCHANGED <<registered, lost>>
          /\ UNCHANGED <<phase, result, second, sent, ticked>>
  /\ UNCHANGED <<setting, together>>

Turn(a) ==
  /\ Running(a) /\ ~(\A c \in Chans : isEnd[a][c])
  /\ \E got \in Readable(a) : Read(a, got)
-----------------------------------------------------------------------------
P2pInit ==
  /\ setting \in Settings
  /\ phase = [a \in Agents |-> "wait"]
  /\ connectable = [a \in Agents |-> [c \in Chans |-> FALSE]]
  /\ isEnd = connectable /\ sent = connectable /\ registered = connectable
  /\ link = [a \in Agents |-> [c \in Chans |-> "none"]]
  /\ second = [a \in Agents |-> 0] /\ timeOut = [a \in Agents |-> 1]
  /\ result = [a \in Agents |-> FALSE]
  /\ net = EmptyBag /\ lost = 0 /\ ticked = {}
  /\ heard = [a \in Agents |-> [c \in Chans |-> {}]]
  /\ together = FALSE

P2pNext ==
  \/ \E a \in Agents : Start(a) \/ Turn(a) \/ Second(a)
  \/ \E m \in BagToSet(net) : Lose(m)

P2pSpec == P2pInit /\ [][P2pNext]_p2pVars
-----------------------------------------------------------------------------
Finished == \A a \in Agents : phase[a] = "done"

\* The NATs let the handshake through: what each answers comes in.
DirectWorks ==
  \/ setting.same
  \/ /\ TryDirect
     /\ \A a \in Agents : setting.nat[a] # Sym

\* Without loss, two calls that begin together succeed both, over the same
\* path, which is the direct one when it works.
TogetherTheyConnect ==
  Finished /\ together /\ setting.loss = 0 =>
    \A a \in Agents, c \in Chans :
      result[a] /\ link[a][c] = (IF DirectWorks THEN "direct" ELSE "relay")

\* A call that succeeds has proof of both directions: the other agent was
\* heard and has heard.
SuccessIsMutual ==
  \A a \in Agents, c \in Chans : result[a] =>
    link[a][c] # "none" /\ heard[a][c] # {} /\ link[a][c] \in heard[Other(a)][c]
=============================================================================
