--------------------------- MODULE P2pCheckProofs ---------------------------
(***************************************************************************)
(* What the connectivity check (P2pCheck) and the search for the type of   *)
(* the NAT (NatType) find out, whatever the NATs, the number of channels   *)
(* and the messages that are lost: a call succeeds only over paths that    *)
(* work both ways, calls that began together succeed together or not at    *)
(* all, and a NAT is not taken for a more open one.  And of the messages   *)
(* they are found out with (StunCodec): each is read back as it was sent,  *)
(* and its integrity is checked over what was signed.                      *)
(*                                                                         *)
(* The first invariant, CheckInv, follows the handshake: a message other   *)
(* than the first is on its way only to an agent that was heard, and a     *)
(* channel whose handshake has ended has a path over which the other agent *)
(* was heard.  TogetherInv, NatInv and CodecInv are explained where they   *)
(* begin.                                                                  *)
(***************************************************************************)
EXTENDS P2pCheck, NatType, StunCodec, FiniteSetTheorems, TLAPS

Heard(a, c) == heard[a][c] # {}

CheckTypes ==
  /\ phase \in [Agents -> Paths \cup {"wait", "done"}]
  /\ isEnd \in [Agents -> [Chans -> BOOLEAN]]
  /\ link \in [Agents -> [Chans -> Paths \cup {"none"}]]
  /\ heard \in [Agents -> [Chans -> SUBSET Paths]]
  /\ result \in [Agents -> BOOLEAN]

PathMessages == [to : Agents, ch : Chans, st : {0, 1, 3}, path : Paths]

AnswersFollow ==
  /\ BagToSet(net) \subseteq PathMessages
  /\ \A m \in BagToSet(net) : m.st # 0 => Heard(m.to, m.ch)

Proven(a, c) ==
  link[a][c] # "none" /\ link[a][c] \in heard[Other(a)][c] /\ Heard(a, c)

EndsAreProven == \A a \in Agents, c \in Chans : isEnd[a][c] => Proven(a, c)

ResultsAreProven ==
  \A a \in Agents : result[a] => phase[a] = "done" /\ \A c \in Chans : Proven(a, c)

CheckInv == CheckTypes /\ AnswersFollow /\ EndsAreProven /\ ResultsAreProven
-----------------------------------------------------------------------------
LEMMA OtherIsAgent ==
  ASSUME NEW a \in Agents
  PROVE  Other(a) \in Agents /\ Other(a) # a
<1>1. \E b \in Agents : b # a
  <2>1. SUFFICES ASSUME \A b \in Agents : b = a  PROVE FALSE
    OBVIOUS
  <2>2. Agents = {a}
    BY <2>1
  <2>3. Cardinality({a}) = 1
    BY FS_Singleton, Zenon
  <2>. QED  BY <2>2, <2>3, P2pAssumption DEF P2pAssumption
<1>. QED  BY <1>1 DEF Other

\* What is on its way after an exchange was there before or was sent in it.
LEMMA ExchangeIn ==
  ASSUME NEW in, NEW out, net' = Exchange(in, out)
  PROVE  \A m \in BagToSet(net') : m \in BagToSet(net) \/ m \in out
  BY DEF Exchange, BagToSet, SetToBag, (+), (-)

LEMMA CheckStarts == P2pInit => CheckInv
<1>. SUFFICES ASSUME P2pInit PROVE CheckInv
  OBVIOUS
<1>1. BagToSet(net) = {}
  BY DEF P2pInit, BagToSet, EmptyBag, SetToBag
<1>2. CheckTypes
  BY DEF P2pInit, CheckTypes, Paths
<1>3. AnswersFollow
  BY <1>1 DEF AnswersFollow
<1>4. EndsAreProven /\ ResultsAreProven
  BY DEF P2pInit, EndsAreProven, ResultsAreProven
<1>. QED  BY <1>2, <1>3, <1>4 DEF CheckInv

\* A message that an agent sends is one of the handshake, to the other.
LEMMA MessageType ==
  ASSUME NEW a \in Agents, NEW c \in Chans, NEW st \in {0, 1, 3}, NEW path \in Paths
  PROVE  /\ Message(a, c, st, path) \in PathMessages
         /\ Message(a, c, st, path).to = Other(a)
         /\ Message(a, c, st, path).ch = c /\ Message(a, c, st, path).st = st
  BY OtherIsAgent DEF Message, PathMessages

LEMMA StartKeeps ==
  ASSUME CheckInv, NEW a \in Agents, Start(a)
  PROVE  CheckInv'
<1>. USE DEF CheckInv
<1>1. PICK path \in Paths :
        /\ Begin(a, path)
        /\ net' = Exchange({}, {Message(a, c, 0, path) : c \in Chans})
  <2>1. StartPath \in Paths
    BY DEF StartPath, Paths
  <2>. QED  BY <2>1, Zenon DEF Start
<1>2. /\ phase' = [phase EXCEPT ![a] = path]
      /\ isEnd' = [isEnd EXCEPT ![a] = [c \in Chans |-> FALSE]]
      /\ UNCHANGED <<link, result, heard>> /\ phase[a] = "wait"
  BY <1>1 DEF Begin, Start
<1>3. CheckTypes'
  BY <1>2 DEF CheckTypes
<1>4. AnswersFollow'
  <2>1. \A m \in BagToSet(net') : \/ m \in BagToSet(net)
                                  \/ m \in PathMessages /\ m.st = 0
    <3>1. ASSUME NEW c \in Chans
          PROVE  Message(a, c, 0, path) \in PathMessages /\ Message(a, c, 0, path).st = 0
      BY MessageType
    <3>2. \A m \in BagToSet(net') : m \in BagToSet(net)
                 \/ m \in {Message(a, c, 0, path) : c \in Chans}
      BY <1>1, ExchangeIn, Zenon
    <3>. QED  BY <3>1, <3>2
  <2>2. heard' = heard
    BY <1>2
  <2>3. ASSUME NEW m \in BagToSet(net')
        PROVE  m \in PathMessages /\ (m.st # 0 => Heard(m.to, m.ch)')
    BY <2>1, <2>2 DEF AnswersFollow, Heard
  <2>. QED  BY <2>3 DEF AnswersFollow
<1>5. EndsAreProven'
  BY <1>2 DEF EndsAreProven, Proven, Heard, CheckTypes
<1>6. ResultsAreProven'
  BY <1>2 DEF ResultsAreProven, Proven, Heard, CheckTypes
<1>. QED  BY <1>3, <1>4, <1>5, <1>6

LEMMA LoseKeeps ==
  ASSUME CheckInv, NEW m \in BagToSet(net), Lose(m)
  PROVE  CheckInv'
<1>1. UNCHANGED <<phase, isEnd, link, result, heard>> /\ net' = Exchange({m}, {})
  BY DEF Lose
<1>2. BagToSet(net') \subseteq BagToSet(net)
  BY <1>1, ExchangeIn
<1>3. CheckTypes' /\ EndsAreProven' /\ ResultsAreProven'
  BY <1>1 DEF CheckInv, CheckTypes, EndsAreProven, ResultsAreProven, Proven, Heard
<1>4. AnswersFollow'
  BY <1>1, <1>2 DEF CheckInv, AnswersFollow, Heard
<1>. QED  BY <1>3, <1>4 DEF CheckInv

LEMMA SecondKeeps ==
  ASSUME CheckInv, NEW a \in Agents, Second(a)
  PROVE  CheckInv'
  BY DEF CheckInv, Second, CheckTypes, EndsAreProven, ResultsAreProven, Proven, Heard,
         AnswersFollow

\* Whoever is heard stays so.
LEMMA HeardGrows ==
  ASSUME CheckTypes, NEW a \in Agents, NEW more \in [Chans -> SUBSET Paths],
         heard' = [heard EXCEPT ![Other(a)] = [c \in Chans |-> @[c] \cup more[c]]]
  PROVE  /\ heard' \in [Agents -> [Chans -> SUBSET Paths]]
         /\ \A b \in Agents, c \in Chans : heard[b][c] \subseteq heard'[b][c]
         /\ \A c \in Chans : more[c] \subseteq heard'[Other(a)][c]
  BY OtherIsAgent DEF CheckTypes

\* A turn, as far as the invariant looks at it: the messages read in it are
\* answered over the path of the agent, its links follow them, and it goes on,
\* returns, or begins again over the relay.
TurnDoes(a, got, new, ends) ==
  /\ \A m \in got : m.to = a
  /\ heard' = [heard EXCEPT ![Other(a)] =
                 [c \in Chans |-> @[c] \cup {m.path : m \in {x \in got : x.ch = c}}]]
  /\ \A c \in Chans : \/ new[c] = link[a][c] /\ ends[c] = isEnd[a][c]
                      \/ \E m, x \in got : /\ m.ch = c /\ m.st # 0
                                           /\ x.ch = c /\ new[c] = x.path
  /\ \/ /\ link' = [link EXCEPT ![a] = new]
        /\ isEnd' = [isEnd EXCEPT ![a] = ends]
        /\ \/ UNCHANGED <<phase, result>>
           \/ /\ phase' = [phase EXCEPT ![a] = "done"]
              /\ result' = [result EXCEPT ![a] = \A c \in Chans : ends[c]]
     \/ /\ isEnd' = [isEnd EXCEPT ![a] = [c \in Chans |-> FALSE]]
        /\ link' = [link EXCEPT ![a] = [c \in Chans |-> "none"]]
        /\ phase' = [phase EXCEPT ![a] = "relay"] /\ UNCHANGED result
  /\ \A m \in BagToSet(net') :
       \/ m \in BagToSet(net)
       \/ m \in PathMessages /\ m.st = 0
       \/ /\ m \in PathMessages
          /\ \E x \in got : m.to = Other(a) /\ m.ch = x.ch

LEMMA TurnIs ==
  ASSUME CheckInv, NEW a \in Agents, Turn(a)
  PROVE  \E got \in SUBSET BagToSet(net), new \in [Chans -> Paths \cup {"none"}],
            ends \in [Chans -> BOOLEAN] : TurnDoes(a, got, new, ends)
<1>1. PICK got \in Readable(a) : Read(a, got)
  BY DEF Turn
<1>2. got \in SUBSET BagToSet(net) /\ got \subseteq PathMessages /\ \A m \in got : m.to = a
  BY DEF Readable, CheckInv, AnswersFollow
<1>3. phase[a] \in Paths
  BY DEF Turn, Running
<1>. DEFINE path == phase[a]
            On(c) == {m \in got : m.ch = c}
            conn == [c \in Chans |-> connectable[a][c] \/ \E m \in On(c) : Connects(m.st)]
            ends == [c \in Chans |-> isEnd[a][c] \/ \E m \in On(c) : Ends(m.st)]
            all == \A c \in Chans : ends[c]
            again == ~all /\ 5 * second[a] > timeOut[a]
            mute == IF again THEN {c \in Chans : ~conn[c]} ELSE {}
            over == second[a] > 1
            answers == UNION {{Message(a, m.ch, st, path) : st \in Answer(m.st)} : m \in got}
            retries == {Message(a, c, 0, path) : c \in mute}
            new == [c \in Chans |-> IF \E m \in On(c) : Connects(m.st)
                                    THEN (CHOOSE m \in On(c) : TRUE).path
                                    ELSE link[a][c]]
<1>4. /\ heard' = [heard EXCEPT ![Other(a)] =
                     [c \in Chans |-> @[c] \cup {m.path : m \in {x \in got : x.ch = c}}]]
      /\ \/ /\ link' = [link EXCEPT ![a] = new]
            /\ isEnd' = [isEnd EXCEPT ![a] = ends]
            /\ net' = Exchange(got, answers \cup retries)
            /\ \/ UNCHANGED <<phase, result>>
               \/ /\ phase' = [phase EXCEPT ![a] = "done"]
                  /\ result' = [result EXCEPT ![a] = all]
         \/ /\ isEnd' = [isEnd EXCEPT ![a] = [c \in Chans |-> FALSE]]
            /\ link' = [link EXCEPT ![a] = [c \in Chans |-> "none"]]
            /\ phase' = [phase EXCEPT ![a] = "relay"] /\ UNCHANGED result
            /\ net' = Exchange(got, answers \cup retries
                                    \cup {Message(a, c, 0, "relay") : c \in Chans})
  BY <1>1, Zenon DEF Read, Begin, TimeUp
<1>5. new \in [Chans -> Paths \cup {"none"}] /\ ends \in [Chans -> BOOLEAN]
  <2>1. ASSUME NEW c \in Chans  PROVE new[c] \in Paths \cup {"none"}
    <3>1. CASE \E m \in On(c) : Connects(m.st)
      <4>1. (CHOOSE m \in On(c) : TRUE) \in On(c)
        BY <3>1
      <4>2. (CHOOSE m \in On(c) : TRUE) \in PathMessages
        BY <4>1, <1>2
      <4>. QED  BY <3>1, <4>2 DEF PathMessages
    <3>2. CASE ~(\E m \in On(c) : Connects(m.st))
      BY <3>2 DEF CheckInv, CheckTypes
    <3>. QED  BY <3>1, <3>2
  <2>2. ASSUME NEW c \in Chans  PROVE ends[c] \in BOOLEAN
    BY DEF CheckInv, CheckTypes
  <2>. QED  BY <2>1, <2>2
<1>6. ASSUME NEW c \in Chans
      PROVE  \/ new[c] = link[a][c] /\ ends[c] = isEnd[a][c]
             \/ \E m, x \in got : m.ch = c /\ m.st # 0 /\ x.ch = c /\ new[c] = x.path
  <2>1. CASE \E m \in On(c) : Connects(m.st)
    <3>1. PICK m \in On(c) : Connects(m.st)
      BY <2>1
    <3>2. m.st # 0
      BY <3>1 DEF Connects
    <3>3. (CHOOSE x \in On(c) : TRUE) \in On(c)
      BY <2>1
    <3>4. new[c] = (CHOOSE x \in On(c) : TRUE).path
      BY <2>1
    <3>. QED  BY <3>1, <3>2, <3>3, <3>4
  <2>2. CASE ~(\E m \in On(c) : Connects(m.st))
    <3>1. ~(\E m \in On(c) : Ends(m.st))
      BY <2>2 DEF Connects, Ends
    <3>. QED  BY <2>2, <3>1 DEF CheckInv, CheckTypes
  <2>. QED  BY <2>1, <2>2
<1>7. ASSUME NEW m \in answers
      PROVE  m \in PathMessages /\ \E x \in got : m.to = Other(a) /\ m.ch = x.ch
  <2>1. PICK x \in got : \E st \in Answer(x.st) : m = Message(a, x.ch, st, path)
    OBVIOUS
  <2>2. PICK st \in {0, 1, 3} : m = Message(a, x.ch, st, path)
    BY <2>1 DEF Answer
  <2>3. x.ch \in Chans
    BY <1>2 DEF PathMessages
  <2>. QED  BY <2>1, <2>2, <2>3, <1>3, MessageType
<1>8. ASSUME NEW m \in retries \cup {Message(a, c, 0, "relay") : c \in Chans}
      PROVE  m \in PathMessages /\ m.st = 0
  <2>1. PICK c \in Chans, p \in Paths : m = Message(a, c, 0, p)
    BY <1>3 DEF Paths
  <2>. QED  BY <2>1, MessageType
<1>9. \A m \in BagToSet(net') :
         m \in BagToSet(net) \/ m \in answers \cup retries
                                  \cup {Message(a, c, 0, "relay") : c \in Chans}
  BY <1>4, ExchangeIn, Zenon
<1>. HIDE DEF new, ends, answers, retries
<1>10. ASSUME NEW m \in BagToSet(net')
       PROVE  \/ m \in BagToSet(net)
              \/ m \in PathMessages /\ m.st = 0
              \/ /\ m \in PathMessages
                 /\ \E x \in got : m.to = Other(a) /\ m.ch = x.ch
  BY <1>7, <1>8, <1>9
<1>11. \/ /\ link' = [link EXCEPT ![a] = new]
          /\ isEnd' = [isEnd EXCEPT ![a] = ends]
          /\ \/ UNCHANGED <<phase, result>>
             \/ /\ phase' = [phase EXCEPT ![a] = "done"]
                /\ result' = [result EXCEPT ![a] = \A c \in Chans : ends[c]]
       \/ /\ isEnd' = [isEnd EXCEPT ![a] = [c \in Chans |-> FALSE]]
          /\ link' = [link EXCEPT ![a] = [c \in Chans |-> "none"]]
          /\ phase' = [phase EXCEPT ![a] = "relay"] /\ UNCHANGED result
  BY <1>4, Zenon
<1>12. heard' = [heard EXCEPT ![Other(a)] =
                   [c \in Chans |-> @[c] \cup {m.path : m \in {x \in got : x.ch = c}}]]
  BY <1>4, Zenon
<1>13. TurnDoes(a, got, new, ends)
  <2>1. \A c \in Chans : \/ new[c] = link[a][c] /\ ends[c] = isEnd[a][c]
                         \/ \E m, x \in got : /\ m.ch = c /\ m.st # 0
                                              /\ x.ch = c /\ new[c] = x.path
    BY <1>6
  <2>2. \A m \in BagToSet(net') :
                \/ m \in BagToSet(net)
                \/ m \in PathMessages /\ m.st = 0
                \/ /\ m \in PathMessages
                   /\ \E x \in got : m.to = Other(a) /\ m.ch = x.ch
    BY <1>10
  <2>. HIDE DEF all
  <2>. QED  BY <1>2, <1>11, <1>12, <2>1, <2>2 DEF TurnDoes
<1>14. got \in SUBSET BagToSet(net)
  BY <1>2
<1>. QED  BY <1>5, <1>13, <1>14, Zenon

LEMMA TurnKeeps ==
  ASSUME CheckInv, NEW a \in Agents, Turn(a)
  PROVE  CheckInv'
<1>. USE DEF CheckInv
<1>1. PICK got \in SUBSET BagToSet(net), new \in [Chans -> Paths \cup {"none"}],
            ends \in [Chans -> BOOLEAN] : TurnDoes(a, got, new, ends)
  BY TurnIs, Zenon
<1>b. \/ isEnd' = [isEnd EXCEPT ![a] = ends]
      \/ isEnd' = [isEnd EXCEPT ![a] = [c \in Chans |-> FALSE]]
  BY <1>1, Zenon DEF TurnDoes
<1>c. \/ result' = result
      \/ result' = [result EXCEPT ![a] = \A c \in Chans : ends[c]]
  BY <1>1, Zenon DEF TurnDoes
<1>. DEFINE more == [c \in Chans |-> {m.path : m \in {x \in got : x.ch = c}}]
<1>2. got \subseteq PathMessages /\ \A m \in got : m.st # 0 => Heard(m.to, m.ch)
  BY <1>1 DEF TurnDoes, AnswersFollow
<1>3. more \in [Chans -> SUBSET Paths]
  BY <1>2 DEF PathMessages
<1>4. /\ heard' \in [Agents -> [Chans -> SUBSET Paths]]
      /\ \A b \in Agents, c \in Chans : heard[b][c] \subseteq heard'[b][c]
      /\ \A c \in Chans : more[c] \subseteq heard'[Other(a)][c]
  <2>1. heard' = [heard EXCEPT ![Other(a)] = [c \in Chans |-> @[c] \cup more[c]]]
    BY <1>1 DEF TurnDoes
  <2>. HIDE DEF more
  <2>. QED  BY <2>1, <1>3, HeardGrows
<1>5. \A x \in got : x.ch \in Chans /\ x.path \in heard'[Other(a)][x.ch]
  BY <1>2, <1>4 DEF PathMessages
<1>. HIDE DEF more
<1>6. \A b \in Agents, c \in Chans : Heard(b, c) => Heard(b, c)'
  BY <1>4 DEF Heard
<1>a. a \in Agents /\ Running(a) /\ phase[a] \in Paths
  BY DEF Turn, Running
<1>7. CheckTypes'
  <2>1. link' \in [Agents -> [Chans -> Paths \cup {"none"}]]
    BY <1>1 DEF TurnDoes, CheckTypes
  <2>2. isEnd' \in [Agents -> [Chans -> BOOLEAN]]
    <3>1. isEnd \in [Agents -> [Chans -> BOOLEAN]]
      BY DEF CheckTypes
    <3>2. [c \in Chans |-> FALSE] \in [Chans -> BOOLEAN]
      OBVIOUS
    <3>. QED  BY <1>b, <3>1, <3>2, Zenon
  <2>3. phase' \in [Agents -> Paths \cup {"wait", "done"}]
    BY <1>1 DEF TurnDoes, CheckTypes, Paths
  <2>4. result' \in [Agents -> BOOLEAN]
    <3>1. result \in [Agents -> BOOLEAN]
      BY DEF CheckTypes
    <3>2. (\A c \in Chans : ends[c]) \in BOOLEAN
      OBVIOUS
    <3>. QED  BY <1>c, <3>1, <3>2, Zenon
  <2>. QED  BY <2>1, <2>2, <2>3, <2>4, <1>4 DEF CheckTypes
<1>8. AnswersFollow'
  <2>1. ASSUME NEW m \in BagToSet(net')
        PROVE  m \in PathMessages /\ (m.st # 0 => Heard(m.to, m.ch)')
    <3>1. CASE m \in BagToSet(net)
      BY <3>1, <1>6 DEF AnswersFollow, PathMessages
    <3>2. CASE m \in PathMessages /\ m.st = 0
      BY <3>2
    <3>3. CASE m \in PathMessages /\ \E x \in got : m.to = Other(a) /\ m.ch = x.ch
      BY <3>3, <1>5 DEF Heard
    <3>. QED  BY <1>1, <3>1, <3>2, <3>3 DEF TurnDoes
  <2>. QED  BY <2>1 DEF AnswersFollow
\* What was proven stays so as long as its link does.
<1>9. ASSUME NEW b \in Agents, NEW c \in Chans, Proven(b, c), link'[b][c] = link[b][c]
      PROVE  Proven(b, c)'
  BY <1>9, <1>4, <1>6, OtherIsAgent DEF Proven
<1>10. ASSUME link' = [link EXCEPT ![a] = new], NEW c \in Chans, ends[c]
       PROVE  Proven(a, c)'
  <2>0. link'[a][c] = new[c]
    BY <1>10 DEF CheckTypes
  <2>1. CASE new[c] = link[a][c] /\ ends[c] = isEnd[a][c]
    BY <2>0, <2>1, <1>9, <1>10 DEF EndsAreProven
  <2>2. CASE \E m, x \in got : m.ch = c /\ m.st # 0 /\ x.ch = c /\ new[c] = x.path
    <3>1. PICK m \in got, x \in got : m.ch = c /\ m.st # 0 /\ x.ch = c /\ new[c] = x.path
      BY <2>2
    <3>2. new[c] \in Paths /\ new[c] \in heard'[Other(a)][c]
      BY <3>1, <1>2, <1>5 DEF PathMessages
    <3>3. Heard(a, c)'
      BY <3>1, <1>1, <1>2, <1>6 DEF TurnDoes
    <3>. QED  BY <2>0, <3>2, <3>3 DEF Proven, Paths
  <2>. QED  BY <1>1, <2>1, <2>2 DEF TurnDoes
<1>11. \A b \in Agents : b # a => /\ isEnd'[b] = isEnd[b] /\ link'[b] = link[b]
                                  /\ phase'[b] = phase[b] /\ result'[b] = result[b]
  BY <1>1 DEF TurnDoes, CheckTypes
<1>12. EndsAreProven'
  <2>1. ASSUME NEW b \in Agents, NEW c \in Chans, isEnd'[b][c]  PROVE Proven(b, c)'
    <3>1. CASE b # a
      BY <2>1, <3>1, <1>9, <1>11 DEF EndsAreProven
    <3>2. CASE b = a
      <4>1. link' = [link EXCEPT ![a] = new] /\ ends[c]
        BY <2>1, <3>2, <1>1 DEF TurnDoes, CheckTypes
      <4>. QED  BY <3>2, <4>1, <1>10
    <3>. QED  BY <3>1, <3>2
  <2>. QED  BY <2>1 DEF EndsAreProven
<1>13. ResultsAreProven'
  <2>1. ASSUME NEW b \in Agents, result'[b]
        PROVE  phase'[b] = "done" /\ \A c \in Chans : Proven(b, c)'
    <3>1. CASE b # a
      BY <2>1, <3>1, <1>9, <1>11 DEF ResultsAreProven
    <3>2. CASE b = a
      <4>1. ~result[a]
        BY <1>a DEF ResultsAreProven, Paths
      <4>2. /\ link' = [link EXCEPT ![a] = new] /\ phase'[a] = "done"
            /\ \A c \in Chans : ends[c]
        BY <2>1, <3>2, <4>1, <1>1 DEF TurnDoes, CheckTypes
      <4>. QED  BY <3>2, <4>2, <1>10
    <3>. QED  BY <3>1, <3>2
  <2>. QED  BY <2>1 DEF ResultsAreProven
<1>. QED  BY <1>7, <1>8, <1>12, <1>13

LEMMA CheckKeeps == CheckInv /\ [P2pNext]_p2pVars => CheckInv'
<1>. SUFFICES ASSUME CheckInv, [P2pNext]_p2pVars PROVE CheckInv'
  OBVIOUS
<1>1. ASSUME NEW a \in Agents, Start(a) \/ Turn(a) \/ Second(a)  PROVE CheckInv'
  BY <1>1, StartKeeps, TurnKeeps, SecondKeeps
<1>2. ASSUME NEW m \in BagToSet(net), Lose(m)  PROVE CheckInv'
  BY <1>2, LoseKeeps
<1>3. CASE UNCHANGED p2pVars
  BY <1>3 DEF p2pVars, CheckInv, CheckTypes, AnswersFollow, EndsAreProven, ResultsAreProven,
              Proven, Heard
<1>. QED  BY <1>1, <1>2, <1>3 DEF P2pNext
-----------------------------------------------------------------------------
\* Whatever the network loses and the NATs let in: an agent whose call succeeds
\* was heard by the other one and has heard it over the path it will use
\* (ice_check_p2p_connectiviy, ice_check_turn_connectiviy).
THEOREM SuccessProvesBothWays == P2pSpec => []SuccessIsMutual
<1>1. CheckInv => SuccessIsMutual
  BY DEF CheckInv, ResultsAreProven, Proven, Heard, SuccessIsMutual
<1>. QED  BY CheckStarts, CheckKeeps, <1>1, PTL DEF P2pSpec
-----------------------------------------------------------------------------
(***************************************************************************)
(* Two calls that begin together.  Without loss, from when both agents are *)
(* on the path where they meet, a message of every channel whose handshake *)
(* is not over is on its way to an agent that will read it; as a second    *)
(* does not begin before all messages have come, other than the first one of *)
(* a hasty agent, no time runs out there.                                  *)
(* Before that, when the direct way was tried and does not work, nothing   *)
(* but first messages come, and the agents' seconds stay together until    *)
(* each has gone over to the relay.                                        *)
(***************************************************************************)
Meeting == IF DirectWorks THEN "direct" ELSE "relay"

Msgs == BagToSet(net)
Waits(a) == phase[a] = "wait"
NoneEnded(a) == \A c \in Chans : ~isEnd[a][c]

TogetherTypes ==
  /\ IsABag(net)
  /\ second \in [Agents -> 0..2] /\ ticked \subseteq Agents
  /\ sent \in [Agents -> [Chans -> BOOLEAN]]
  /\ registered \in [Agents -> [Chans -> BOOLEAN]]
  /\ lost \in Nat /\ lost =< setting.loss /\ setting \in Settings

\* Where a message comes from, and what the NATs and the relay know of an agent
\* on its path.
PathOf(m) == /\ m.path = "direct" => TryDirect
             /\ m.path = "relay" => phase[Other(m.to)] \in {"relay", "done"}
             /\ ~Waits(Other(m.to))
             /\ Waits(m.to) => m.st = 0
PathsAreTaken == \A m \in Msgs : PathOf(m)

KnownOf(a) ==
  /\ phase[a] = "direct" => TryDirect /\ \A c \in Chans : sent[a][c]
  /\ phase[a] \in {"direct", "wait"} => \A c \in Chans : ~registered[a][c]
  /\ phase[a] = "relay" /\ setting.loss = 0 => \A c \in Chans : registered[a][c]
PathsAreKnown == \A a \in Agents : KnownOf(a)

\* While one agent waits nothing has ended and no second has been counted.
WaitOf(a) ==
  Waits(a) => /\ NoneEnded(a) /\ ~result[a] /\ second[a] = 0 /\ ticked = {}
              /\ NoneEnded(Other(a)) /\ ~result[Other(a)]
WaitsAreFresh == \A a \in Agents : WaitOf(a)

\* Off the path where they meet, only first messages come in.
StrayOf(m) ==
  m.path # Meeting =>
    /\ Meeting = "relay"
    /\ m.st # 0 => ~setting.same /\ setting.nat[m.to] = Sym
Stray == \A m \in Msgs : StrayOf(m)

\* A message that brings the handshake of channel c on.
Token(m, c) == /\ m.ch = c /\ m.path = Meeting /\ ~isEnd[m.to][c]
               /\ isEnd[Other(m.to)][c] => m.st = 3

MetOf(a) ==
  /\ phase[a] \in {Meeting, "done"}
  /\ phase[a] # "done" => second[a] \in {0, 1} /\ \E c \in Chans : ~isEnd[a][c]
  /\ phase[a] = "done" => result[a] /\ \A c \in Chans : isEnd[a][c]
  /\ \A c \in Chans : isEnd[a][c] => link[a][c] = Meeting
  /\ \A c \in Chans : IF Meeting = "relay" THEN registered[a][c] ELSE sent[a][c]
Carried(c) == (\A a \in Agents : isEnd[a][c]) \/ \E m \in Msgs : Token(m, c)
Met == (\A a \in Agents : MetOf(a)) /\ \A c \in Chans : Carried(c)

\* Both are on the direct path in vain, or a has gone over to the relay.
BothDirect(a) ==
  LET b == Other(a) IN
  /\ phase[a] = "direct" /\ phase[b] = "direct"
  /\ \/ second[a] = second[b] /\ second[a] < 2 /\ ticked = {}
     \/ second[a] = second[b] + 1 /\ ticked = {a}
GoneOver(a) ==
  LET b == Other(a) IN
  /\ phase[a] = "relay" /\ phase[b] = "direct" /\ second[a] = 0
  /\ \/ second[b] = 1 /\ ticked = {a}
     \/ second[b] = 2 /\ ticked = {}
Apart == /\ Meeting = "relay"
         /\ \A a \in Agents : NoneEnded(a) /\ ~result[a]
         /\ \E a \in Agents : BothDirect(a) \/ GoneOver(a)

AreTogether == setting.loss = 0 /\ together /\ \A a \in Agents : ~Waits(a)
TogetherInv ==
  /\ TogetherTypes /\ PathsAreTaken /\ PathsAreKnown /\ WaitsAreFresh
  /\ AreTogether => Stray /\ (Met \/ Apart)
-----------------------------------------------------------------------------
LEMMA TwoAgents ==
  ASSUME NEW a \in Agents
  PROVE  Other(Other(a)) = a /\ Agents = {a, Other(a)}
<1>1. Other(a) \in Agents /\ Other(a) # a
  BY OtherIsAgent
<1>2. Cardinality(Agents \ {a}) = 1 /\ IsFiniteSet(Agents \ {a})
  BY FS_RemoveElement, P2pAssumption DEF P2pAssumption
<1>3. PICK b : Agents \ {a} = {b}
  BY <1>2, FS_Singleton
<1>4. Agents = {a, Other(a)}
  BY <1>1, <1>3
<1>5. Other(Other(a)) \in Agents /\ Other(Other(a)) # Other(a)
  BY <1>1, OtherIsAgent
<1>. QED  BY <1>4, <1>5

LEMMA MessagesAreFinite == IsFiniteSet(PathMessages)
<1>. DEFINE S == (Agents \X Chans) \X ({0, 1, 3} \X Paths)
            f == [m \in PathMessages |-> <<<<m.to, m.ch>>, <<m.st, m.path>>>>]
<1>1. IsFiniteSet({0, 1, 3}) /\ IsFiniteSet(Paths)
  <2>1. \A x, y : IsFiniteSet({x} \cup {y})
    BY FS_Singleton, FS_Union
  <2>2. IsFiniteSet({0, 1} \cup {3})
    <3>1. IsFiniteSet({0} \cup {1}) /\ {0} \cup {1} = {0, 1}
      BY <2>1
    <3>. QED  BY <3>1, FS_Singleton, FS_Union
  <2>3. {0, 1} \cup {3} = {0, 1, 3} /\ Paths = {"direct"} \cup {"relay"}
    BY DEF Paths
  <2>. QED  BY <2>1, <2>2, <2>3
<1>2. IsFiniteSet(S)
  BY <1>1, FS_Product, P2pAssumption DEF P2pAssumption
<1>3. f \in Injection(PathMessages, S)
  <2>1. f \in [PathMessages -> S]
    BY DEF PathMessages
  <2>2. ASSUME NEW m \in PathMessages, NEW n \in PathMessages, f[m] = f[n]  PROVE m = n
    <3>1. m.to = n.to /\ m.ch = n.ch /\ m.st = n.st /\ m.path = n.path
      BY <2>2
    <3>. QED  BY <3>1 DEF PathMessages
  <2>. QED  BY <2>1, <2>2 DEF Injection, IsInjective
<1>. HIDE DEF S, f
<1>. QED  BY <1>2, <1>3, FS_Injection

\* What an exchange leaves and what it adds.
LEMMA ExchangeKeeps ==
  ASSUME IsABag(net), NEW in, NEW out, net' = Exchange(in, out)
  PROVE  /\ IsABag(net')
         /\ \A m \in Msgs : m \notin in => m \in Msgs'
         /\ \A m \in out : m \in Msgs'
<1>. DEFINE taken == net (-) SetToBag(in)
<1>1. /\ BagToSet(taken) \subseteq Msgs
      /\ \A m \in Msgs : m \notin in => m \in BagToSet(taken)
      /\ \A m \in BagToSet(taken) : taken[m] \in Nat /\ taken[m] > 0
  BY DEF IsABag, (-), SetToBag, BagToSet, Msgs
<1>2. net' = taken (+) SetToBag(out)
  BY DEF Exchange
<1>. HIDE DEF taken
<1>3. /\ DOMAIN net' = DOMAIN taken \cup out
      /\ \A m \in DOMAIN net' : net'[m] \in Nat /\ net'[m] > 0
      /\ net' = [m \in DOMAIN net' |-> net'[m]]
  BY <1>1, <1>2 DEF (+), SetToBag, BagToSet
<1>. QED  BY <1>1, <1>3 DEF IsABag, BagToSet, Msgs

LEMMA RegisterAll ==
  ASSUME TogetherTypes, NEW a \in Agents, NEW chans \in SUBSET Chans, Register(a, chans)
  PROVE  /\ registered' \in [Agents -> [Chans -> BOOLEAN]]
         /\ lost' \in Nat /\ lost' =< setting.loss
         /\ \A b \in Agents : b # a => registered'[b] = registered[b]
         /\ \A c \in Chans : registered[a][c] => registered'[a][c]
         /\ setting.loss = 0 => \A c \in chans : registered'[a][c]
<1>1. PICK arrived \in SUBSET chans :
        /\ lost + Cardinality(chans \ arrived) =< setting.loss
        /\ lost' = lost + Cardinality(chans \ arrived)
        /\ registered' = [registered EXCEPT ![a] =
                            [c \in Chans |-> @[c] \/ c \in arrived]]
  BY DEF Register
<1>2. IsFiniteSet(chans \ arrived)
  BY FS_Subset, P2pAssumption DEF P2pAssumption
<1>3. Cardinality(chans \ arrived) \in Nat
  BY <1>2, FS_CardinalityType
<1>4. setting.loss = 0 => chans \ arrived = {}
  <2>1. setting.loss = 0 => Cardinality(chans \ arrived) = 0
    BY <1>1, <1>3 DEF TogetherTypes
  <2>. QED  BY <1>2, <2>1, FS_EmptySet
<1>5. /\ registered' \in [Agents -> [Chans -> BOOLEAN]]
      /\ \A b \in Agents : b # a => registered'[b] = registered[b]
      /\ \A c \in Chans : registered'[a][c] <=> (registered[a][c] \/ c \in arrived)
  BY <1>1 DEF TogetherTypes
<1>. QED  BY <1>1, <1>3, <1>4, <1>5 DEF TogetherTypes

LEMMA TogetherStarts == P2pInit => TogetherInv
<1>. SUFFICES ASSUME P2pInit PROVE TogetherInv
  OBVIOUS
<1>1. PICK a : a \in Agents
  <2>1. Cardinality(Agents) # Cardinality({})
    BY FS_EmptySet, P2pAssumption DEF P2pAssumption
  <2>2. Agents # {}
    BY <2>1
  <2>. QED  BY <2>2
<1>2. Msgs = {} /\ IsABag(net)
  BY DEF P2pInit, Msgs, BagToSet, EmptyBag, SetToBag, IsABag
<1>3. setting.loss \in Nat
  BY P2pAssumption DEF P2pAssumption, P2pInit
<1>4. TogetherTypes
  BY <1>2, <1>3 DEF TogetherTypes, P2pInit
<1>5. PathsAreTaken
  BY <1>2 DEF PathsAreTaken
<1>6. PathsAreKnown /\ WaitsAreFresh
  BY OtherIsAgent DEF P2pInit, PathsAreKnown, KnownOf, WaitsAreFresh, WaitOf, NoneEnded
<1>7. ~AreTogether
  BY <1>1 DEF P2pInit, AreTogether, Waits
<1>. QED  BY <1>4, <1>5, <1>6, <1>7 DEF TogetherInv

LEMMA NatOfSetting ==
  ASSUME TogetherTypes, NEW a \in Agents
  PROVE  setting.nat[a] \in Types /\ setting.type[a] \in Types
  BY P2pAssumption DEF P2pAssumption, TogetherTypes

\* A message that brings a handshake on will be read.
LEMMA TokenComes ==
  ASSUME CheckInv, TogetherTypes, \A a \in Agents : MetOf(a),
         NEW m \in Msgs, NEW c \in Chans, Token(m, c)
  PROVE  Receivable(m)
<1>. DEFINE a == m.to
            b == Other(m.to)
<1>1. m \in PathMessages /\ a \in Agents /\ b \in Agents
  BY OtherIsAgent DEF CheckInv, AnswersFollow, Msgs, PathMessages
<1>2. phase[a] = Meeting
  BY <1>1 DEF Token, MetOf
<1>3. Running(a)
  BY <1>2 DEF Running, Meeting, Paths
<1>4. CASE Meeting = "relay"
  BY <1>1, <1>3, <1>4 DEF Admits, Receivable, Token, MetOf
<1>5. CASE Meeting = "direct"
  <2>1. DirectWorks
    BY <1>5 DEF Meeting
  <2>2. sent[a][c]
    BY <1>1, <1>5 DEF MetOf
  <2>3. setting.same \/ (setting.nat[a] # Sym /\ setting.nat[b] # Sym)
    BY <1>1, <2>1 DEF DirectWorks
  <2>4. setting.nat[a] \in Types
    BY <1>1, NatOfSetting
  <2>. QED
    BY <1>1, <1>3, <1>5, <2>2, <2>3, <2>4 DEF Admits, Receivable, Token, Types, Cone,
       Restricted, PortRestricted, Sym
<1>. QED  BY <1>4, <1>5 DEF Meeting

LEMMA LoseTogether ==
  ASSUME CheckInv, TogetherInv, NEW m \in Msgs, Lose(m)
  PROVE  TogetherInv'
<1>. USE DEF TogetherInv
<1>1. /\ UNCHANGED <<setting, phase, isEnd, link, result, second, ticked, sent,
                     registered, together>>
      /\ net' = Exchange({m}, {})
  BY DEF Lose
<1>2. /\ IsABag(net') /\ Msgs' \subseteq Msgs
      /\ \A x \in Msgs : x # m => x \in Msgs'
  <2>1. IsABag(net)
    BY DEF TogetherTypes
  <2>0. net' = Exchange({m}, {})
    BY <1>1
  <2>2. IsABag(net') /\ \A x \in Msgs : x \notin {m} => x \in Msgs'
    BY <2>0, <2>1, ExchangeKeeps
  <2>3. \A x \in BagToSet(net') : x \in BagToSet(net) \/ x \in {}
    BY <2>0, ExchangeIn
  <2>. QED  BY <2>2, <2>3 DEF Msgs
<1>3. TogetherTypes'
  <2>1. setting.loss \in Nat
    BY P2pAssumption DEF P2pAssumption, TogetherTypes
  <2>2. lost' \in Nat /\ lost' =< setting.loss
    BY <2>1 DEF Lose, TogetherTypes
  <2>. QED  BY <1>1, <1>2, <2>2 DEF TogetherTypes
<1>4. PathsAreTaken'
  BY <1>1, <1>2 DEF PathsAreTaken, PathOf, TryDirect, Waits
<1>5. PathsAreKnown' /\ WaitsAreFresh'
  BY <1>1 DEF PathsAreKnown, KnownOf, WaitsAreFresh, WaitOf, Waits, NoneEnded, TryDirect
<1>6. Meeting' = Meeting
  BY <1>1 DEF Meeting, DirectWorks, TryDirect
<1>7. ASSUME AreTogether'  PROVE Stray' /\ (Met' \/ Apart')
  <2>1. AreTogether /\ setting.loss = 0
    BY <1>1, <1>7 DEF AreTogether, Waits
  <2>2. Stray'
    BY <1>1, <1>2, <1>6, <2>1 DEF Stray, StrayOf
  <2>3. CASE Met
    <3>1. \A a \in Agents : MetOf(a) /\ MetOf(a)'
      BY <1>1, <1>6, <2>3 DEF Met, MetOf
    <3>2. ASSUME NEW c \in Chans, NEW x \in Msgs, Token(x, c)  PROVE x \in Msgs' /\ Token(x, c)'
      <4>1. Receivable(x)
        BY <3>1, <3>2, TokenComes
      <4>2. x # m
        BY <2>1, <4>1 DEF Lose, TogetherTypes
      <4>. QED  BY <1>1, <1>2, <1>6, <3>2, <4>2 DEF Token
    <3>3. ASSUME NEW c \in Chans  PROVE Carried(c)'
      <4>1. Carried(c)
        BY <2>3 DEF Met
      <4>. QED  BY <1>1, <3>2, <4>1 DEF Carried
    <3>. QED  BY <2>2, <3>1, <3>3 DEF Met
  <2>4. CASE Apart
    BY <1>1, <1>6, <2>2, <2>4 DEF Apart, NoneEnded, BothDirect, GoneOver
  <2>. QED  BY <2>1, <2>3, <2>4
<1>. QED  BY <1>3, <1>4, <1>5, <1>7

LEMMA SecondTogether ==
  ASSUME CheckInv, TogetherInv, NEW a \in Agents, Second(a)
  PROVE  TogetherInv'
<1>. USE DEF TogetherInv
<1>1. /\ UNCHANGED <<setting, phase, isEnd, link, result, net, sent, registered, lost,
                     together>>
      /\ second' = [second EXCEPT ![a] = @ + 1]
      /\ Running(a) /\ second[a] < 2 /\ a \notin ticked
      /\ net = EmptyBag \/ (second[a] = 0 /\ phase[a] = StartPath)
      /\ \A x \in Agents : Running(x) => second[x] < 2
      /\ ticked' = IF {x \in Agents : Running(x)} \subseteq ticked \cup {a}
                   THEN {} ELSE ticked \cup {a}
  BY DEF Second
<1>. DEFINE b == Other(a)
<1>2. b \in Agents /\ b # a /\ b = Other(a) /\ Other(b) = a /\ Agents = {a, b}
  BY OtherIsAgent, TwoAgents
<1>3. /\ second[a] \in 0..2 /\ second[b] \in 0..2
      /\ second'[a] = second[a] + 1 /\ second'[b] = second[b]
  BY <1>1, <1>2 DEF TogetherTypes
<1>. HIDE DEF b
<1>4. TogetherTypes'
  <2>1. second' \in [Agents -> 0..2]
    <3>1. second[a] + 1 \in 0..2
      BY <1>1, <1>3
    <3>. QED  BY <1>1, <3>1 DEF TogetherTypes
  <2>. QED  BY <1>1, <2>1 DEF TogetherTypes
<1>5. PathsAreTaken' /\ PathsAreKnown'
  BY <1>1 DEF PathsAreTaken, PathOf, Msgs, PathsAreKnown, KnownOf, Waits, TryDirect
<1>6. WaitsAreFresh'
  <2>1. ASSUME NEW x \in Agents, Waits(x)'  PROVE WaitOf(x)'
    <3>1. Waits(x) /\ WaitOf(x)
      BY <1>1, <2>1 DEF Waits, WaitsAreFresh
    <3>2. x = b
      BY <1>1, <1>2, <3>1 DEF Waits, Running, Paths
    <3>3. {y \in Agents : Running(y)} \subseteq ticked \cup {a}
      BY <1>2, <3>1, <3>2 DEF Waits, Running, Paths
    <3>. QED  BY <1>1, <1>3, <3>1, <3>2, <3>3 DEF WaitOf, Waits, NoneEnded
  <2>. QED  BY <2>1 DEF WaitsAreFresh, WaitOf
<1>7. Meeting' = Meeting
  BY <1>1 DEF Meeting, DirectWorks, TryDirect
<1>8. ASSUME AreTogether'  PROVE Stray' /\ (Met' \/ Apart')
  <2>1. AreTogether
    BY <1>1, <1>8 DEF AreTogether, Waits
  <2>2. Stray'
    BY <1>1, <1>7, <2>1 DEF Stray, StrayOf, Msgs
  <2>3. CASE Met
    <3>1. MetOf(a) /\ phase[a] # "done" /\ MetOf(b) /\ \A c \in Chans : Carried(c)
      BY <1>1, <1>2, <2>3 DEF Met, Running, Paths
    <3>2. second[a] = 0
      <4>1. CASE net = EmptyBag
        <5>1. Msgs = {}
          BY <4>1 DEF Msgs, BagToSet, EmptyBag, SetToBag
        <5>2. PICK c \in Chans : ~isEnd[a][c]
          BY <3>1 DEF MetOf
        <5>. QED  BY <3>1, <5>1, <5>2 DEF Carried
      <4>. QED  BY <1>1, <4>1
    <3>3. MetOf(a)'
      BY <1>1, <1>3, <1>7, <3>1, <3>2 DEF MetOf
    <3>4. MetOf(b)'
      BY <1>1, <1>3, <1>7, <3>1 DEF MetOf
    <3>5. \A c \in Chans : Carried(c)'
      BY <1>1, <1>7, <3>1 DEF Carried, Token, Msgs
    <3>. QED  BY <1>2, <2>2, <3>3, <3>4, <3>5 DEF Met
  <2>4. CASE Apart
    <3>1. PICK x \in Agents : BothDirect(x) \/ GoneOver(x)
      BY <2>4 DEF Apart
    <3>2. Running(a) /\ Running(b)
      BY <1>2, <3>1 DEF BothDirect, GoneOver, Running, Paths
    <3>3. /\ second[b] < 2
          /\ ticked' = IF b \in ticked THEN {} ELSE ticked \cup {a}
      BY <1>1, <1>2, <3>2
    <3>4. \/ BothDirect(a)' \/ BothDirect(b)' \/ GoneOver(b)'
      <4>1. CASE x = a /\ BothDirect(x)
        BY <1>1, <1>2, <1>3, <3>3, <4>1 DEF BothDirect
      <4>2. CASE x = b /\ BothDirect(x)
        BY <1>1, <1>2, <1>3, <3>3, <4>2 DEF BothDirect
      <4>3. CASE x = a /\ GoneOver(x)
        BY <1>1, <1>2, <1>3, <3>3, <4>3 DEF GoneOver
      <4>4. CASE x = b /\ GoneOver(x)
        BY <1>1, <1>2, <1>3, <3>3, <4>4 DEF GoneOver
      <4>. QED  BY <1>2, <3>1, <4>1, <4>2, <4>3, <4>4
    <3>5. Apart'
      BY <1>1, <1>2, <1>7, <2>4, <3>4 DEF Apart, NoneEnded
    <3>. QED  BY <2>2, <3>5
  <2>. QED  BY <2>1, <2>3, <2>4
<1>. QED  BY <1>4, <1>5, <1>6, <1>8

\* What an agent begins with when it begins on a path.
LEMMA BeginDoes ==
  ASSUME CheckInv, TogetherTypes, NEW a \in Agents, NEW path \in Paths, Begin(a, path)
  PROVE  /\ second' \in [Agents -> 0..2] /\ second'[a] = 0
         /\ sent' \in [Agents -> [Chans -> BOOLEAN]]
         /\ registered' \in [Agents -> [Chans -> BOOLEAN]]
         /\ lost' \in Nat /\ lost' =< setting.loss
         /\ phase'[a] = path /\ \A c \in Chans : ~isEnd'[a][c]
         /\ \A b \in Agents : b # a =>
               /\ phase'[b] = phase[b] /\ isEnd'[b] = isEnd[b] /\ second'[b] = second[b]
               /\ sent'[b] = sent[b] /\ registered'[b] = registered[b]
         /\ path = "direct" => registered' = registered /\ \A c \in Chans : sent'[a][c]
         /\ path = "relay" => /\ sent' = sent
                              /\ setting.loss = 0 => \A c \in Chans : registered'[a][c]
<1>1. /\ phase' = [phase EXCEPT ![a] = path]
      /\ isEnd' = [isEnd EXCEPT ![a] = [c \in Chans |-> FALSE]]
      /\ second' = [second EXCEPT ![a] = 0]
  BY DEF Begin
<1>2. /\ second' \in [Agents -> 0..2] /\ second'[a] = 0
      /\ phase'[a] = path /\ \A c \in Chans : ~isEnd'[a][c]
      /\ \A b \in Agents : b # a =>
            phase'[b] = phase[b] /\ isEnd'[b] = isEnd[b] /\ second'[b] = second[b]
  BY <1>1 DEF CheckInv, CheckTypes, TogetherTypes
<1>3. CASE path = "direct"
  <2>1. /\ sent' = [sent EXCEPT ![a] = [c \in Chans |-> TRUE]]
        /\ UNCHANGED <<registered, lost>>
    BY <1>3 DEF Begin
  <2>. QED  BY <1>2, <1>3, <2>1 DEF TogetherTypes
<1>4. CASE path = "relay"
  <2>1. Register(a, Chans) /\ sent' = sent
    BY <1>4 DEF Begin
  <2>2. /\ registered' \in [Agents -> [Chans -> BOOLEAN]]
        /\ lost' \in Nat /\ lost' =< setting.loss
        /\ \A b \in Agents : b # a => registered'[b] = registered[b]
        /\ setting.loss = 0 => \A c \in Chans : registered'[a][c]
    BY <2>1, RegisterAll
  <2>. QED  BY <1>2, <1>4, <2>1, <2>2 DEF TogetherTypes
<1>. QED  BY <1>3, <1>4 DEF Paths

LEMMA StartTogether ==
  ASSUME CheckInv, TogetherInv, NEW a \in Agents, Start(a)
  PROVE  TogetherInv'
<1>. USE DEF TogetherInv
<1>. DEFINE b == Other(a)
            new == {Message(a, c, 0, StartPath) : c \in Chans}
<1>1. /\ Waits(a) /\ Begin(a, StartPath) /\ net' = Exchange({}, new)
      /\ UNCHANGED <<setting, link, result, ticked, heard>>
      /\ together' = \/ phase[b] = "wait"
                     \/ second[b] = 0 /\ phase[b] = StartPath
  BY Zenon DEF Start, Waits, StartPath
<1>2. b \in Agents /\ b # a /\ b = Other(a) /\ Other(b) = a /\ Agents = {a, b}
  BY OtherIsAgent, TwoAgents
<1>. StartPath \in Paths
  BY DEF StartPath, Paths
<1>3. /\ TogetherTypes
      /\ second' \in [Agents -> 0..2] /\ second'[a] = 0
      /\ sent' \in [Agents -> [Chans -> BOOLEAN]]
      /\ registered' \in [Agents -> [Chans -> BOOLEAN]]
      /\ lost' \in Nat /\ lost' =< setting.loss
      /\ phase'[a] = StartPath /\ \A c \in Chans : ~isEnd'[a][c]
      /\ phase'[b] = phase[b] /\ isEnd'[b] = isEnd[b] /\ second'[b] = second[b]
      /\ sent'[b] = sent[b] /\ registered'[b] = registered[b]
      /\ StartPath = "direct" => registered' = registered /\ \A c \in Chans : sent'[a][c]
      /\ StartPath = "relay" /\ setting.loss = 0 => \A c \in Chans : registered'[a][c]
  BY <1>1, <1>2, BeginDoes
<1>4. \A c \in Chans : /\ Message(a, c, 0, StartPath) \in PathMessages
                       /\ Message(a, c, 0, StartPath).to = b
                       /\ Message(a, c, 0, StartPath).ch = c
                       /\ Message(a, c, 0, StartPath).st = 0
                       /\ Message(a, c, 0, StartPath).path = StartPath
  BY MessageType DEF Message
<1>5. /\ IsABag(net') /\ \A m \in new : m \in Msgs'
      /\ \A m \in Msgs' : m \in Msgs \/ m \in new
  <2>1. IsABag(net)
    BY DEF TogetherTypes
  <2>2. net' = Exchange({}, new)
    BY <1>1
  <2>. HIDE DEF new
  <2>3. IsABag(net') /\ \A m \in new : m \in Msgs'
    BY <2>1, <2>2, ExchangeKeeps
  <2>4. \A m \in BagToSet(net') : m \in BagToSet(net) \/ m \in new
    BY <2>2, ExchangeIn
  <2>. QED  BY <2>3, <2>4 DEF Msgs
<1>6. \A m \in new : /\ m \in PathMessages /\ m.to = b /\ m.st = 0 /\ m.path = StartPath
  BY <1>4
<1>. HIDE DEF b, new
\* What has been sent so far has been sent to the agent that starts.
<1>7. \A m \in Msgs : PathOf(m) /\ m.to = a /\ m.st = 0
  BY <1>1, <1>2 DEF PathsAreTaken, PathOf, CheckInv, AnswersFollow, PathMessages, Msgs
<1>8. /\ NoneEnded(a) /\ ~result[a] /\ ticked = {} /\ NoneEnded(b) /\ ~result[b]
      /\ \A c \in Chans : ~registered[a][c]
      /\ KnownOf(b) /\ WaitOf(b)
  BY <1>1, <1>2 DEF WaitsAreFresh, WaitOf, PathsAreKnown, KnownOf, Waits
<1>9. StartPath = "direct" <=> TryDirect
  BY DEF StartPath
<1>10. TogetherTypes'
  BY <1>1, <1>3, <1>5 DEF TogetherTypes
<1>11. PathsAreTaken'
  <2>1. ASSUME NEW m \in Msgs  PROVE PathOf(m)'
    BY <1>1, <1>2, <1>3, <1>7 DEF PathOf, Waits, TryDirect
  <2>2. ASSUME NEW m \in new  PROVE PathOf(m)'
    BY <1>1, <1>2, <1>3, <1>6, <1>9 DEF PathOf, Waits, TryDirect, Paths
  <2>. QED  BY <1>5, <2>1, <2>2 DEF PathsAreTaken
<1>12. PathsAreKnown'
  <2>1. KnownOf(a)'
    BY <1>1, <1>3, <1>8, <1>9 DEF KnownOf, TryDirect, Paths
  <2>2. KnownOf(b)'
    BY <1>1, <1>3, <1>8 DEF KnownOf, TryDirect
  <2>. QED  BY <1>2, <2>1, <2>2 DEF PathsAreKnown
<1>13. WaitsAreFresh'
  <2>1. WaitOf(a)'
    BY <1>3 DEF WaitOf, Waits, Paths
  <2>2. WaitOf(b)'
    BY <1>1, <1>2, <1>3, <1>8 DEF WaitOf, Waits, NoneEnded
  <2>. QED  BY <1>2, <2>1, <2>2 DEF WaitsAreFresh
<1>14. Meeting' = Meeting
  BY <1>1 DEF Meeting, DirectWorks, TryDirect
<1>15. Meeting = "direct" => StartPath = "direct"
  BY DEF Meeting, StartPath, DirectWorks, TryDirect
<1>16. ASSUME AreTogether'  PROVE Stray' /\ (Met' \/ Apart')
  <2>1. /\ setting.loss = 0 /\ phase[b] = StartPath /\ second[b] = 0
    BY <1>1, <1>2, <1>3, <1>16 DEF AreTogether, Waits
  <2>2. Stray'
    <3>1. ASSUME NEW m \in Msgs'
          PROVE  m.st = 0 /\ m.path \in Paths /\ (StartPath = "direct" => m.path = "direct")
      <4>1. CASE m \in Msgs
        <5>1. m.st = 0 /\ PathOf(m) /\ Other(m.to) = b
          BY <1>2, <1>7, <4>1
        <5>2. m.path \in Paths
          BY <4>1 DEF CheckInv, AnswersFollow, PathMessages, Msgs
        <5>. QED  BY <2>1, <5>1, <5>2 DEF PathOf, Paths
      <4>2. CASE m \in new
        BY <1>6, <4>2
      <4>. QED  BY <1>5, <4>1, <4>2
    <3>. QED  BY <1>14, <1>15, <3>1 DEF Stray, StrayOf, Meeting
  <2>3. CASE StartPath = Meeting
    <3>1. MetOf(a)'
      BY <1>3, <1>14, <2>1, <2>3, P2pAssumption DEF MetOf, P2pAssumption, Paths
    <3>2. MetOf(b)'
      <4>1. \A c \in Chans : IF Meeting = "relay" THEN registered[b][c] ELSE sent[b][c]
        BY <1>8, <2>1, <2>3 DEF KnownOf, Paths
      <4>. QED
        BY <1>3, <1>8, <1>14, <2>1, <2>3, <4>1, P2pAssumption DEF MetOf, P2pAssumption,
           NoneEnded, Paths
    <3>3. ASSUME NEW c \in Chans  PROVE Carried(c)'
      <4>1. PICK m \in Msgs' : m.to = b /\ m.ch = c /\ m.path = StartPath
        BY <1>4, <1>5 DEF new
      <4>2. Token(m, c)'
        BY <1>2, <1>3, <1>8, <1>14, <2>3, <4>1 DEF Token, NoneEnded
      <4>. QED  BY <4>1, <4>2 DEF Carried
    <3>. QED  BY <1>2, <2>2, <3>1, <3>2, <3>3 DEF Met
  <2>4. CASE StartPath # Meeting
    <3>1. StartPath = "direct" /\ Meeting = "relay"
      BY <1>15, <2>4 DEF StartPath, Meeting
    <3>2. BothDirect(a)'
      BY <1>1, <1>2, <1>3, <1>8, <2>1, <3>1 DEF BothDirect
    <3>3. Apart'
      BY <1>1, <1>2, <1>3, <1>8, <1>14, <3>1, <3>2 DEF Apart, NoneEnded
    <3>. QED  BY <2>2, <3>3
  <2>. QED  BY <2>3, <2>4
<1>. QED  BY <1>10, <1>11, <1>12, <1>13, <1>16

\* A turn of agent a that reads the messages got, channel by channel.
Ending(a, got, c) == isEnd[a][c] \/ \E m \in got : m.ch = c /\ m.st = 3
AllEnding(a, got) == \A c \in Chans : Ending(a, got, c)
Reply(st) == IF st = 0 THEN 1 ELSE 3

Follows(a, got) ==
  /\ \A c \in Chans : isEnd'[a][c] <=> Ending(a, got, c)
  /\ \A c \in Chans : (\A m \in got : m.ch # c) => link'[a][c] = link[a][c]
  /\ \A m \in got : m.st # 0 => link'[a][m.ch] = m.path

\* An agent on the relay asks for it again.
MayRegister(a) ==
  \/ UNCHANGED <<registered, lost>>
  \/ phase[a] = "relay" /\ \E mute \in SUBSET Chans : Register(a, mute)

Returns(a, got) ==
  /\ AllEnding(a, got) \/ (second[a] > 1 /\ phase[a] = "relay")
  /\ phase'[a] = "done" /\ (result'[a] <=> AllEnding(a, got))
  /\ Follows(a, got) /\ ticked' = ticked \ {a}
  /\ MayRegister(a) /\ UNCHANGED <<second, sent>>

FallsBack(a, got) ==
  /\ ~AllEnding(a, got) /\ second[a] > 1 /\ phase[a] = "direct"
  /\ Begin(a, "relay") /\ UNCHANGED <<result, ticked>>
  /\ \A c \in Chans : Message(a, c, 0, "relay") \in Msgs'

GoesOn(a, got) ==
  /\ ~AllEnding(a, got) /\ ~(second[a] > 1)
  /\ Follows(a, got)
  /\ MayRegister(a) /\ UNCHANGED <<phase, result, second, sent, ticked>>

Sends(a, got, m) ==
  /\ m \in PathMessages /\ m.to = Other(a) /\ (m.st # 0 => got # {})
  /\ \/ m.path = phase[a]
     \/ m.path = "relay" /\ phase'[a] = "relay"

TurnReads(a, got) ==
  /\ got \subseteq Msgs
  /\ \A m \in got : m.to = a /\ Receivable(m) /\ ~isEnd[a][m.ch]
  /\ IsABag(net') /\ \A m \in Msgs : m \notin got => m \in Msgs'
  /\ \A m \in got : Message(a, m.ch, Reply(m.st), phase[a]) \in Msgs'
  /\ \A m \in Msgs' : m \in Msgs \/ Sends(a, got, m)
  /\ \A b \in Agents : b # a =>
       phase'[b] = phase[b] /\ isEnd'[b] = isEnd[b] /\ link'[b] = link[b]
         /\ result'[b] = result[b]
  /\ Returns(a, got) \/ FallsBack(a, got) \/ GoesOn(a, got)
  /\ UNCHANGED <<setting, together>>

\* Of one channel at most one message is read.
LEMMA ReadsOne ==
  ASSUME CheckInv, NEW a \in Agents, NEW got \in Readable(a),
         NEW m \in got, NEW x \in got, m.ch = x.ch
  PROVE  m = x
<1>. DEFINE On == {y \in got : y.ch = m.ch}
<1>1. got \subseteq PathMessages /\ m.ch \in Chans
  BY DEF Readable, CheckInv, AnswersFollow, PathMessages
<1>2. IsFiniteSet(On)
  <2>1. On \in SUBSET PathMessages
    BY <1>1
  <2>. QED  BY <2>1, MessagesAreFinite, FS_Subset
<1>3. Cardinality(On) =< 1
  BY <1>1 DEF Readable
<1>4. m \in On /\ x \in On
  OBVIOUS
<1>. HIDE DEF On
<1>5. Cardinality(On) \in Nat /\ Cardinality(On) # 0
  BY <1>2, <1>4, FS_EmptySet, FS_CardinalityType
<1>6. PICK y : On = {y}
  <2>1. Cardinality(On) = 1
    BY <1>3, <1>5
  <2>. QED  BY <1>2, <2>1, FS_Singleton
<1>. QED  BY <1>4, <1>6

LEMMA TurnIsRead ==
  ASSUME CheckInv, TogetherTypes, NEW a \in Agents, Turn(a)
  PROVE  \E got \in SUBSET Msgs : TurnReads(a, got)
<1>1. PICK got \in Readable(a) : Read(a, got)
  BY DEF Turn
<1>2. /\ got \subseteq Msgs /\ got \subseteq PathMessages
      /\ \A m \in got : m.to = a /\ Receivable(m) /\ ~isEnd[a][m.ch]
  BY DEF Readable, CheckInv, AnswersFollow, Msgs
<1>3. phase[a] \in Paths
  BY DEF Turn, Running
<1>. DEFINE path == phase[a]
            On(c) == {m \in got : m.ch = c}
            conn == [c \in Chans |-> connectable[a][c] \/ \E m \in On(c) : Connects(m.st)]
            ends == [c \in Chans |-> isEnd[a][c] \/ \E m \in On(c) : Ends(m.st)]
            all == \A c \in Chans : ends[c]
            again == ~all /\ 5 * second[a] > timeOut[a]
            mute == IF again THEN {c \in Chans : ~conn[c]} ELSE {}
            over == second[a] > 1
            answers == UNION {{Message(a, m.ch, st, path) : st \in Answer(m.st)} : m \in got}
            retries == {Message(a, c, 0, path) : c \in mute}
            first == {Message(a, c, 0, "relay") : c \in Chans}
            new == [c \in Chans |-> IF \E m \in On(c) : Connects(m.st)
                                    THEN (CHOOSE m \in On(c) : TRUE).path
                                    ELSE link[a][c]]
<1>4. \/ /\ all \/ (over /\ path = "relay")
         /\ phase' = [phase EXCEPT ![a] = "done"]
         /\ isEnd' = [isEnd EXCEPT ![a] = ends]
         /\ result' = [result EXCEPT ![a] = all]
         /\ link' = [link EXCEPT ![a] = new]
         /\ net' = Exchange(got, answers \cup retries)
         /\ ticked' = ticked \ {a}
         /\ IF path = "relay" THEN Register(a, mute)
                              ELSE UNCHANGED <<registered, lost>>
         /\ UNCHANGED <<second, sent>>
      \/ /\ ~all /\ over /\ path # "relay"
         /\ Begin(a, "relay")
         /\ link' = [link EXCEPT ![a] = [c \in Chans |-> "none"]]
         /\ net' = Exchange(got, answers \cup retries \cup first)
         /\ UNCHANGED <<result, ticked>>
      \/ /\ ~all /\ ~over
         /\ isEnd' = [isEnd EXCEPT ![a] = ends]
         /\ link' = [link EXCEPT ![a] = new]
         /\ net' = Exchange(got, answers \cup retries)
         /\ IF path = "relay" THEN Register(a, mute)
                              ELSE UNCHANGED <<registered, lost>>
         /\ UNCHANGED <<phase, result, second, sent, ticked>>
  BY <1>1, Zenon DEF Read, TimeUp
<1>5. UNCHANGED <<setting, together>>
  BY <1>1, Zenon DEF Read, TimeUp
\* What the definitions say of each channel and of each message.
<1>6. ASSUME NEW c \in Chans  PROVE ends[c] <=> Ending(a, got, c)
  BY DEF Ending, Ends
<1>7. all <=> AllEnding(a, got)
  BY <1>6 DEF AllEnding
<1>8. ASSUME NEW c \in Chans, \A m \in got : m.ch # c  PROVE new[c] = link[a][c]
  BY <1>8
<1>9. ASSUME NEW m \in got, m.st # 0  PROVE new[m.ch] = m.path
  <2>1. m.ch \in Chans /\ Connects(m.st)
    BY <1>2, <1>9 DEF PathMessages, Connects
  <2>2. \A x \in On(m.ch) : x = m
    BY ReadsOne
  <2>3. m \in On(m.ch)
    OBVIOUS
  <2>4. (CHOOSE x \in On(m.ch) : TRUE) = m
    BY <2>2, <2>3
  <2>. QED  BY <2>1, <2>3, <2>4
<1>10. ASSUME NEW m \in got
       PROVE  Message(a, m.ch, Reply(m.st), path) \in answers
  <2>1. Reply(m.st) \in Answer(m.st)
    BY DEF Reply, Answer
  <2>. QED  BY <2>1
<1>11. ASSUME NEW m \in answers
       PROVE  m \in PathMessages /\ m.to = Other(a) /\ got # {} /\ m.path = path
  <2>1. PICK x \in got : \E st \in Answer(x.st) : m = Message(a, x.ch, st, path)
    OBVIOUS
  <2>2. PICK st \in {0, 1, 3} : m = Message(a, x.ch, st, path)
    BY <2>1 DEF Answer
  <2>3. x.ch \in Chans
    BY <1>2 DEF PathMessages
  <2>. QED  BY <2>1, <2>2, <2>3, <1>3, MessageType DEF Message
<1>12. ASSUME NEW m \in retries
       PROVE  m \in PathMessages /\ m.to = Other(a) /\ m.st = 0 /\ m.path = path
  <2>1. PICK c \in Chans : m = Message(a, c, 0, path)
    OBVIOUS
  <2>. QED  BY <2>1, <1>3, MessageType DEF Message
<1>13. ASSUME NEW m \in first
       PROVE  m \in PathMessages /\ m.to = Other(a) /\ m.st = 0 /\ m.path = "relay"
  <2>1. PICK c \in Chans : m = Message(a, c, 0, "relay")
    OBVIOUS
  <2>2. "relay" \in Paths
    BY DEF Paths
  <2>. QED  BY <2>1, <2>2, MessageType DEF Message
<1>14. mute \in SUBSET Chans /\ \A c \in Chans : Message(a, c, 0, "relay") \in first
  OBVIOUS
<1>15. ends = [c \in Chans |-> ends[c]] /\ new = [c \in Chans |-> new[c]]
  OBVIOUS
<1>. HIDE DEF ends, new, all, answers, retries, first, mute
<1>. isEnd \in [Agents -> [Chans -> BOOLEAN]] /\ link \in [Agents -> [Chans -> Paths \cup {"none"}]]
     /\ phase \in [Agents -> Paths \cup {"wait", "done"}] /\ result \in [Agents -> BOOLEAN]
  BY DEF CheckInv, CheckTypes
<1>16. PICK more : /\ net' = Exchange(got, more)
                   /\ answers \subseteq more
                   /\ \A m \in more : \/ m \in answers \cup retries
                                      \/ m \in first /\ phase'[a] = "relay"
                   /\ (~all /\ over /\ path # "relay") => first \subseteq more
  <2>1. CASE net' = Exchange(got, answers \cup retries) /\ ~(~all /\ over /\ path # "relay")
    BY <2>1
  <2>2. CASE /\ net' = Exchange(got, answers \cup retries \cup first)
             /\ Begin(a, "relay")
    <3>1. phase'[a] = "relay"
      BY <2>2 DEF Begin
    <3>. QED  BY <2>2, <3>1
  <2>. QED  BY <1>4, <2>1, <2>2
<1>17. /\ IsABag(net') /\ \A m \in Msgs : m \notin got => m \in Msgs'
       /\ \A m \in more : m \in Msgs'
       /\ \A m \in Msgs' : m \in Msgs \/ m \in more
  <2>1. IsABag(net) /\ net' = Exchange(got, more)
    BY <1>16 DEF TogetherTypes
  <2>2. /\ IsABag(net') /\ \A m \in Msgs : m \notin got => m \in Msgs'
        /\ \A m \in more : m \in Msgs'
    BY <2>1, ExchangeKeeps
  <2>3. \A m \in BagToSet(net') : m \in BagToSet(net) \/ m \in more
    BY <2>1, ExchangeIn
  <2>. QED  BY <2>2, <2>3 DEF Msgs
<1>18. ASSUME NEW m \in Msgs'  PROVE m \in Msgs \/ Sends(a, got, m)
  BY <1>11, <1>12, <1>13, <1>16, <1>17 DEF Sends
<1>19. \A m \in got : Message(a, m.ch, Reply(m.st), phase[a]) \in Msgs'
  BY <1>10, <1>16, <1>17
<1>20. ASSUME isEnd' = [isEnd EXCEPT ![a] = ends], link' = [link EXCEPT ![a] = new]
       PROVE  Follows(a, got)
  <2>1. isEnd'[a] = ends /\ link'[a] = new
    BY <1>20
  <2>. QED  BY <2>1, <1>6, <1>8, <1>9 DEF Follows
<1>21. Returns(a, got) \/ FallsBack(a, got) \/ GoesOn(a, got)
  <2>1. CASE /\ all \/ (over /\ path = "relay")
             /\ phase' = [phase EXCEPT ![a] = "done"]
             /\ isEnd' = [isEnd EXCEPT ![a] = ends]
             /\ result' = [result EXCEPT ![a] = all]
             /\ link' = [link EXCEPT ![a] = new]
             /\ ticked' = ticked \ {a}
             /\ IF path = "relay" THEN Register(a, mute)
                                  ELSE UNCHANGED <<registered, lost>>
             /\ UNCHANGED <<second, sent>>
    <3>1. phase'[a] = "done" /\ result'[a] = all
      BY <2>1
    <3>2. MayRegister(a)
      BY <1>14, <2>1 DEF MayRegister
    <3>. QED  BY <2>1, <3>1, <3>2, <1>7, <1>20 DEF Returns
  <2>2. CASE /\ ~all /\ over /\ path # "relay"
             /\ Begin(a, "relay") /\ UNCHANGED <<result, ticked>>
    <3>1. \A c \in Chans : Message(a, c, 0, "relay") \in Msgs'
      BY <1>14, <1>16, <1>17, <2>2
    <3>. QED  BY <2>2, <3>1, <1>3, <1>7 DEF FallsBack, Paths
  <2>3. CASE /\ ~all /\ ~over
             /\ isEnd' = [isEnd EXCEPT ![a] = ends]
             /\ link' = [link EXCEPT ![a] = new]
             /\ IF path = "relay" THEN Register(a, mute)
                                  ELSE UNCHANGED <<registered, lost>>
             /\ UNCHANGED <<phase, result, second, sent, ticked>>
    <3>1. MayRegister(a)
      BY <1>14, <2>3 DEF MayRegister
    <3>. QED  BY <2>3, <3>1, <1>7, <1>20 DEF GoesOn
  <2>. QED  BY <1>4, <2>1, <2>2, <2>3
<1>22. \A b \in Agents : b # a =>
          phase'[b] = phase[b] /\ isEnd'[b] = isEnd[b] /\ link'[b] = link[b]
            /\ result'[b] = result[b]
  <2>1. CASE Begin(a, "relay") /\ link' = [link EXCEPT ![a] = [c \in Chans |-> "none"]]
             /\ UNCHANGED <<result, ticked>>
    BY <2>1 DEF Begin
  <2>2. CASE /\ phase' = [phase EXCEPT ![a] = "done"]
             /\ isEnd' = [isEnd EXCEPT ![a] = ends]
             /\ result' = [result EXCEPT ![a] = all]
             /\ link' = [link EXCEPT ![a] = new]
    BY <2>2
  <2>3. CASE /\ isEnd' = [isEnd EXCEPT ![a] = ends]
             /\ link' = [link EXCEPT ![a] = new]
             /\ UNCHANGED <<phase, result, second, sent, ticked>>
    BY <2>3
  <2>. QED  BY <1>4, <2>1, <2>2, <2>3
<1>23. TurnReads(a, got)
  BY <1>2, <1>5, <1>17, <1>18, <1>19, <1>21, <1>22 DEF TurnReads
<1>. QED  BY <1>2, <1>23

\* Nothing comes off the path where the agents meet but first messages, and
\* over the relay only when it knows both.
LEMMA ComesIn ==
  ASSUME CheckInv, TogetherTypes, PathsAreTaken, NEW m \in Msgs, Receivable(m)
  PROVE  /\ m.path = "relay" => registered[m.to][m.ch] /\ registered[Other(m.to)][m.ch]
         /\ m.path = "direct" /\ ~setting.same => setting.nat[m.to] # Sym
         /\ StrayOf(m) /\ m.st # 0 => m.path = Meeting
<1>1. m \in PathMessages /\ m.to \in Agents
  BY DEF CheckInv, AnswersFollow, Msgs, PathMessages
<1>2. Admits(m)
  BY DEF Receivable
<1>3. m.path = "relay" => registered[m.to][m.ch] /\ registered[Other(m.to)][m.ch]
  BY <1>2 DEF Admits
<1>4. (m.path = "direct" /\ ~setting.same) => setting.nat[m.to] # Sym
  BY <1>2 DEF Admits, Cone, Restricted, PortRestricted, Sym
<1>5. m.path \in Paths
  BY <1>1 DEF PathMessages
<1>. QED  BY <1>3, <1>4, <1>5 DEF StrayOf, Paths

LEMMA TurnTypes ==
  ASSUME CheckInv, TogetherInv, NEW a \in Agents, NEW got, TurnReads(a, got)
  PROVE  /\ TogetherTypes'
         /\ \A b \in Agents : b # a => /\ second'[b] = second[b] /\ sent'[b] = sent[b]
                                       /\ registered'[b] = registered[b]
<1>. USE DEF TogetherInv
<1>1. IsABag(net') /\ UNCHANGED <<setting, together>>
  BY DEF TurnReads
<1>2. ASSUME MayRegister(a)
      PROVE  /\ registered' \in [Agents -> [Chans -> BOOLEAN]]
             /\ lost' \in Nat /\ lost' =< setting.loss
             /\ \A b \in Agents : b # a => registered'[b] = registered[b]
  <2>1. CASE UNCHANGED <<registered, lost>>
    BY <2>1 DEF TogetherTypes
  <2>2. CASE \E mute \in SUBSET Chans : Register(a, mute)
    BY <2>2, RegisterAll
  <2>. QED  BY <1>2, <2>1, <2>2 DEF MayRegister
<1>3. CASE FallsBack(a, got)
  <2>1. Begin(a, "relay") /\ ticked' = ticked /\ "relay" \in Paths
    BY <1>3 DEF FallsBack, Paths
  <2>2. /\ second' \in [Agents -> 0..2]
        /\ sent' \in [Agents -> [Chans -> BOOLEAN]]
        /\ registered' \in [Agents -> [Chans -> BOOLEAN]]
        /\ lost' \in Nat /\ lost' =< setting.loss
        /\ \A b \in Agents : b # a => /\ second'[b] = second[b] /\ sent'[b] = sent[b]
                                      /\ registered'[b] = registered[b]
    BY <2>1, BeginDoes
  <2>. QED  BY <1>1, <2>1, <2>2 DEF TogetherTypes
<1>4. CASE Returns(a, got) \/ GoesOn(a, got)
  <2>1. MayRegister(a) /\ UNCHANGED <<second, sent>> /\ ticked' \subseteq Agents
    BY <1>4 DEF Returns, GoesOn, TogetherTypes
  <2>. QED  BY <1>1, <1>2, <2>1 DEF TogetherTypes
<1>. QED  BY <1>3, <1>4 DEF TurnReads

\* How a turn changes the state of its own agent.
LEMMA TurnOfOne ==
  ASSUME CheckInv, TogetherInv, NEW a \in Agents, NEW got, TurnReads(a, got),
         phase[a] \in Paths
  PROVE  /\ phase'[a] \in {phase[a], "relay", "done"}
         /\ phase[a] = "relay" => phase'[a] \in {"relay", "done"}
         /\ phase'[a] = "direct" => registered' = registered /\ sent' = sent
         /\ \A c \in Chans : registered[a][c] /\ phase'[a] \in {phase[a], "done"}
               => registered'[a][c]
         /\ phase'[a] = "relay" /\ phase[a] = "direct" /\ setting.loss = 0
               => \A c \in Chans : registered'[a][c]
         /\ got # {} => ~Waits(Other(a))
<1>. USE DEF TogetherInv
<1>1. got # {} => ~Waits(Other(a))
  BY DEF TurnReads, PathsAreTaken, PathOf
<1>2. ASSUME MayRegister(a)
      PROVE  /\ \A c \in Chans : registered[a][c] => registered'[a][c]
             /\ phase[a] = "direct" => registered' = registered
  <2>1. CASE UNCHANGED <<registered, lost>>
    BY <2>1
  <2>2. CASE phase[a] = "relay" /\ \E mute \in SUBSET Chans : Register(a, mute)
    <3>1. \A c \in Chans : registered[a][c] => registered'[a][c]
      BY <2>2, RegisterAll
    <3>. QED  BY <2>2, <3>1
  <2>. QED  BY <1>2, <2>1, <2>2 DEF MayRegister
<1>3. CASE FallsBack(a, got)
  <2>1. Begin(a, "relay") /\ phase[a] = "direct" /\ "relay" \in Paths
    BY <1>3 DEF FallsBack, Paths
  <2>2. /\ phase'[a] = "relay"
        /\ setting.loss = 0 => \A c \in Chans : registered'[a][c]
    BY <2>1, BeginDoes
  <2>. QED  BY <1>1, <2>1, <2>2
<1>4. CASE GoesOn(a, got)
  <2>1. phase'[a] = phase[a] /\ sent' = sent /\ MayRegister(a)
    BY <1>4 DEF GoesOn
  <2>. QED  BY <1>1, <1>2, <2>1, Zenon DEF Paths
<1>5. CASE Returns(a, got)
  <2>1. phase'[a] = "done" /\ sent' = sent /\ MayRegister(a)
    BY <1>5 DEF Returns
  <2>. QED  BY <1>1, <1>2, <2>1 DEF Paths
<1>. QED  BY <1>3, <1>4, <1>5 DEF TurnReads

LEMMA TurnKeepsPaths ==
  ASSUME CheckInv, TogetherInv, NEW a \in Agents, NEW got, TurnReads(a, got),
         phase[a] \in Paths
  PROVE  PathsAreTaken' /\ PathsAreKnown' /\ WaitsAreFresh'
<1>. USE DEF TogetherInv
<1>. DEFINE b == Other(a)
<1>1. b \in Agents /\ b # a /\ b = Other(a) /\ Other(b) = a /\ Agents = {a, b}
  BY OtherIsAgent, TwoAgents
<1>2. /\ phase'[a] \in {phase[a], "relay", "done"}
      /\ phase[a] = "relay" => phase'[a] \in {"relay", "done"}
      /\ phase'[a] = "direct" => registered' = registered /\ sent' = sent
      /\ \A c \in Chans : registered[a][c] /\ phase'[a] \in {phase[a], "done"}
            => registered'[a][c]
      /\ phase'[a] = "relay" /\ phase[a] = "direct" /\ setting.loss = 0
            => \A c \in Chans : registered'[a][c]
      /\ got # {} => ~Waits(b)
  BY TurnOfOne
<1>3. /\ phase'[b] = phase[b] /\ isEnd'[b] = isEnd[b] /\ result'[b] = result[b]
      /\ UNCHANGED <<setting, together>>
      /\ \A m \in Msgs' : m \in Msgs \/ Sends(a, got, m)
  BY <1>1 DEF TurnReads
<1>4. second'[b] = second[b] /\ sent'[b] = sent[b] /\ registered'[b] = registered[b]
  BY <1>1, TurnTypes
<1>. HIDE DEF b
<1>5. ~Waits(a) /\ ~Waits(a)'
  BY <1>2 DEF Waits, Paths
<1>6. KnownOf(a) /\ KnownOf(b) /\ WaitOf(b)
  BY <1>1 DEF PathsAreKnown, WaitsAreFresh
<1>7. PathsAreTaken'
  <2>1. ASSUME NEW m \in Msgs, m.to \in Agents, PathOf(m)  PROVE PathOf(m)'
    <3>1. \/ m.to = a /\ Other(m.to) = b
          \/ m.to = b /\ Other(m.to) = a
      BY <1>1, <2>1
    <3>. QED  BY <1>2, <1>3, <1>5, <2>1, <3>1 DEF PathOf, Waits, TryDirect
  <2>2. ASSUME NEW m \in Msgs', Sends(a, got, m)  PROVE PathOf(m)'
    <3>1. /\ m.to = b /\ Other(m.to) = a /\ (m.st # 0 => got # {})
          /\ \/ m.path = phase[a]
             \/ m.path = "relay" /\ phase'[a] = "relay"
      BY <1>1, <2>2 DEF Sends
    <3>2. /\ m.path = "direct" => TryDirect'
          /\ m.path = "relay" => phase'[a] \in {"relay", "done"}
      BY <1>2, <1>3, <1>6, <3>1 DEF KnownOf, TryDirect
    <3>. QED  BY <1>2, <1>3, <1>5, <3>1, <3>2 DEF PathOf, Waits
  <2>3. \A m \in Msgs : m.to \in Agents /\ PathOf(m)
    BY DEF PathsAreTaken, CheckInv, AnswersFollow, PathMessages, Msgs
  <2>. QED  BY <1>3, <2>1, <2>2, <2>3 DEF PathsAreTaken
<1>8. KnownOf(a)'
  <2>1. CASE phase'[a] = "direct"
    BY <1>2, <1>3, <1>6, <2>1 DEF KnownOf, TryDirect, Paths
  <2>2. CASE phase'[a] = "relay"
    BY <1>2, <1>3, <1>6, <2>2 DEF KnownOf, TryDirect, Paths
  <2>3. CASE phase'[a] = "done"
    BY <2>3 DEF KnownOf
  <2>. QED  BY <1>2, <2>1, <2>2, <2>3 DEF Paths
<1>9. KnownOf(b)'
  BY <1>3, <1>4, <1>6 DEF KnownOf, TryDirect
<1>10. WaitOf(b)'
  <2>1. ASSUME Waits(b)'
        PROVE  /\ NoneEnded(b)' /\ ~result'[b] /\ second'[b] = 0 /\ ticked' = {}
               /\ NoneEnded(a)' /\ ~result'[a]
    <3>1. Waits(b) /\ got = {}
      BY <1>2, <1>3, <2>1 DEF Waits
    <3>2. /\ NoneEnded(b) /\ ~result[b] /\ second[b] = 0 /\ ticked = {}
          /\ NoneEnded(a) /\ ~result[a]
      BY <1>1, <1>6, <3>1 DEF WaitOf
    <3>3. (\A c \in Chans : ~Ending(a, got, c)) /\ ~AllEnding(a, got)
      BY <3>1, <3>2, P2pAssumption DEF Ending, NoneEnded, AllEnding, P2pAssumption
    <3>4. ticked' = {} /\ NoneEnded(a)' /\ ~result'[a]
      <4>1. CASE Returns(a, got)
        BY <3>2, <3>3, <4>1 DEF Returns, Follows, NoneEnded
      <4>2. CASE FallsBack(a, got)
        <5>1. \A c \in Chans : ~isEnd'[a][c]
          BY <4>2, BeginDoes DEF FallsBack, Paths
        <5>. QED  BY <3>2, <4>2, <5>1 DEF FallsBack, NoneEnded
      <4>3. CASE GoesOn(a, got)
        BY <3>2, <3>3, <4>3 DEF GoesOn, Follows, NoneEnded
      <4>. QED  BY <4>1, <4>2, <4>3 DEF TurnReads
    <3>. QED  BY <1>3, <1>4, <3>2, <3>4 DEF NoneEnded
  <2>. QED  BY <1>1, <2>1 DEF WaitOf
<1>11. WaitOf(a)'
  BY <1>5 DEF WaitOf
<1>. QED  BY <1>1, <1>7, <1>8, <1>9, <1>10, <1>11 DEF PathsAreKnown, WaitsAreFresh

LEMMA TurnOfMet ==
  ASSUME CheckInv, TogetherInv, Stray, Met,
         NEW a \in Agents, NEW got, TurnReads(a, got), phase[a] \in Paths
  PROVE  Stray' /\ Met'
<1>. USE DEF TogetherInv
<1>. DEFINE b == Other(a)
<1>1. b \in Agents /\ b # a /\ b = Other(a) /\ Other(b) = a /\ Agents = {a, b}
  BY OtherIsAgent, TwoAgents
<1>. HIDE DEF b
<1>2. /\ phase'[b] = phase[b] /\ isEnd'[b] = isEnd[b] /\ result'[b] = result[b]
      /\ link'[b] = link[b] /\ UNCHANGED <<setting, together>>
      /\ second'[b] = second[b] /\ sent'[b] = sent[b] /\ registered'[b] = registered[b]
  BY <1>1, TurnTypes DEF TurnReads
<1>3. /\ MetOf(a) /\ MetOf(b) /\ phase[a] = Meeting /\ second[a] \in {0, 1}
      /\ Meeting \in Paths
  <2>1. MetOf(a) /\ MetOf(b)
    BY <1>1 DEF Met
  <2>. QED  BY <2>1 DEF MetOf, Paths
<1>4. Meeting' = Meeting
  BY <1>2 DEF Meeting, DirectWorks, TryDirect
<1>5. Follows(a, got)
  BY <1>3 DEF TurnReads, Returns, FallsBack, GoesOn
<1>6. ASSUME NEW m \in got
      PROVE  /\ m \in Msgs /\ m \in PathMessages /\ m.to = a /\ ~isEnd[a][m.ch]
             /\ m.st # 0 => m.path = Meeting
  <2>1. m \in Msgs /\ m \in PathMessages /\ Receivable(m) /\ m.to = a /\ ~isEnd[a][m.ch]
    BY DEF TurnReads, CheckInv, AnswersFollow, Msgs
  <2>2. StrayOf(m)
    BY <2>1 DEF Stray
  <2>3. m.st # 0 => m.path = Meeting
    BY <2>1, <2>2, ComesIn
  <2>. QED  BY <2>1, <2>3
<1>7. \A c \in Chans : isEnd'[a][c] => link'[a][c] = Meeting
  <2>1. ASSUME NEW c \in Chans, isEnd'[a][c]  PROVE link'[a][c] = Meeting
    <3>1. CASE isEnd[a][c]
      <4>1. \A m \in got : m.ch # c
        BY <1>6, <3>1
      <4>. QED  BY <1>3, <1>5, <3>1, <4>1 DEF Follows, MetOf
    <3>2. CASE ~isEnd[a][c]
      <4>1. PICK m \in got : m.ch = c /\ m.st = 3
        BY <1>5, <2>1, <3>2 DEF Follows, Ending
      <4>. QED  BY <1>5, <1>6, <4>1 DEF Follows
    <3>. QED  BY <3>1, <3>2
  <2>. QED  BY <2>1
<1>8. \A c \in Chans : IF Meeting = "relay" THEN registered'[a][c] ELSE sent'[a][c]
  <2>1. \A c \in Chans : IF Meeting = "relay" THEN registered[a][c] ELSE sent[a][c]
    BY <1>3 DEF MetOf
  <2>2. CASE Returns(a, got)
    BY <2>1, <2>2, TurnOfOne DEF Returns
  <2>3. CASE GoesOn(a, got)
    BY <2>1, <2>3, TurnOfOne DEF GoesOn
  <2>. QED  BY <1>3, <2>2, <2>3 DEF TurnReads, FallsBack
<1>9. MetOf(a)'
  <2>1. CASE Returns(a, got)
    <3>1. AllEnding(a, got)
      BY <1>3, <2>1 DEF Returns
    <3>2. phase'[a] = "done" /\ result'[a] /\ \A c \in Chans : isEnd'[a][c]
      BY <1>5, <2>1, <3>1 DEF Returns, Follows, AllEnding
    <3>. QED  BY <1>4, <1>7, <1>8, <3>2 DEF MetOf
  <2>2. CASE GoesOn(a, got)
    <3>1. phase' = phase /\ second' = second /\ \E c \in Chans : ~isEnd'[a][c]
      BY <1>5, <2>2 DEF GoesOn, Follows, AllEnding
    <3>. QED  BY <1>3, <1>4, <1>7, <1>8, <3>1 DEF MetOf, Paths
  <2>. QED  BY <1>3, <2>1, <2>2 DEF TurnReads, FallsBack
<1>10. MetOf(b)'
  BY <1>2, <1>3, <1>4 DEF MetOf
\* What answers the message that brings a channel on brings it on in turn.
<1>11. ASSUME NEW c \in Chans  PROVE Carried(c)'
  <2>1. \A m \in got : \E r \in Msgs' : /\ r.to = b /\ r.ch = m.ch /\ r.path = Meeting
                                        /\ r.st = Reply(m.st)
    BY <1>1, <1>3 DEF TurnReads, Message
  <2>2. CASE Ending(a, got, c) /\ isEnd[b][c]
    BY <1>1, <1>2, <1>5, <2>2 DEF Carried, Follows
  <2>3. CASE Ending(a, got, c) /\ ~isEnd[b][c] /\ ~isEnd[a][c]
    <3>1. PICK m \in got : m.ch = c /\ m.st = 3
      BY <2>3 DEF Ending
    <3>2. PICK r \in Msgs' : r.to = b /\ r.ch = c /\ r.path = Meeting /\ r.st = 3
      BY <2>1, <3>1 DEF Reply
    <3>3. Token(r, c)'
      BY <1>1, <1>2, <1>4, <2>3, <3>2 DEF Token
    <3>. QED  BY <3>3 DEF Carried
  <2>4. CASE (isEnd[a][c] \/ ~Ending(a, got, c)) /\ ~(isEnd[a][c] /\ isEnd[b][c])
    <3>1. isEnd'[a][c] <=> isEnd[a][c]
      BY <1>5, <2>4 DEF Follows, Ending
    <3>2. PICK m \in Msgs : Token(m, c)
      BY <1>1, <2>4 DEF Met, Carried
    <3>3. m.to \in {a, b} /\ Other(m.to) \in {a, b}
      BY <1>1, <3>2 DEF CheckInv, AnswersFollow, Msgs, PathMessages
    <3>4. CASE m \notin got
      <4>1. m \in Msgs'
        BY <3>4 DEF TurnReads
      <4>2. Token(m, c)'
        BY <1>2, <1>4, <3>1, <3>2, <3>3 DEF Token
      <4>. QED  BY <4>1, <4>2 DEF Carried
    <3>5. CASE m \in got
      <4>1. m.to = a /\ m.ch = c /\ ~isEnd[a][c]
        BY <1>6, <3>2, <3>5 DEF Token
      <4>2. ~isEnd[b][c]
        BY <1>1, <2>4, <3>2, <3>5, <4>1 DEF Token, Ending
      <4>3. PICK r \in Msgs' : r.to = b /\ r.ch = c /\ r.path = Meeting
        BY <2>1, <3>5, <4>1
      <4>4. Token(r, c)'
        BY <1>1, <1>2, <1>4, <3>1, <4>1, <4>2, <4>3 DEF Token
      <4>. QED  BY <4>4 DEF Carried
    <3>. QED  BY <3>4, <3>5
  <2>5. isEnd[a][c] => Ending(a, got, c)
    BY DEF Ending
  <2>. QED  BY <2>2, <2>3, <2>4, <2>5
<1>12. Stray'
  <2>1. ASSUME NEW m \in Msgs', Sends(a, got, m)  PROVE m.path = Meeting
    <3>1. phase'[a] = "relay" => phase[a] = "relay"
      BY <1>3 DEF TurnReads, Returns, FallsBack, GoesOn
    <3>. QED  BY <1>3, <2>1, <3>1 DEF Sends
  <2>2. \A m \in Msgs' : m \in Msgs \/ Sends(a, got, m)
    BY DEF TurnReads
  <2>. QED  BY <1>2, <1>4, <2>1, <2>2 DEF Stray, StrayOf
<1>. QED  BY <1>1, <1>9, <1>10, <1>11, <1>12 DEF Met

LEMMA TurnOfApart ==
  ASSUME CheckInv, TogetherInv, Stray, Apart, setting.loss = 0,
         NEW a \in Agents, NEW got, TurnReads(a, got), phase[a] \in Paths
  PROVE  Stray' /\ (Met' \/ Apart')
<1>. USE DEF TogetherInv
<1>. DEFINE b == Other(a)
<1>1. b \in Agents /\ b # a /\ b = Other(a) /\ Other(b) = a /\ Agents = {a, b}
  BY OtherIsAgent, TwoAgents
<1>. HIDE DEF b
<1>2. /\ phase'[b] = phase[b] /\ isEnd'[b] = isEnd[b] /\ result'[b] = result[b]
      /\ link'[b] = link[b] /\ UNCHANGED <<setting, together>>
      /\ second'[b] = second[b] /\ sent'[b] = sent[b] /\ registered'[b] = registered[b]
  BY <1>1, TurnTypes DEF TurnReads
<1>3. /\ Meeting = "relay" /\ Meeting' = Meeting
      /\ NoneEnded(a) /\ ~result[a] /\ NoneEnded(b) /\ ~result[b]
  <2>1. Meeting' = Meeting
    BY <1>2 DEF Meeting, DirectWorks, TryDirect
  <2>. QED  BY <1>1, <2>1 DEF Apart
<1>4. BothDirect(a) \/ BothDirect(b) \/ GoneOver(a) \/ GoneOver(b)
  BY <1>1 DEF Apart
<1>5. /\ phase[a] = "direct" \/ phase[b] = "direct"
      /\ KnownOf(a) /\ KnownOf(b) /\ TryDirect
  <2>1. phase[a] = "direct" \/ phase[b] = "direct"
    BY <1>1, <1>4 DEF BothDirect, GoneOver
  <2>2. KnownOf(a) /\ KnownOf(b)
    BY <1>1 DEF PathsAreKnown
  <2>. QED  BY <2>1, <2>2 DEF KnownOf
<1>6. /\ ~setting.same
      /\ setting.nat[a] = Sym \/ setting.nat[b] = Sym
  BY <1>1, <1>3, <1>5 DEF Meeting, DirectWorks
\* Only first messages are read, over the direct path.
<1>7. ASSUME NEW m \in got
      PROVE  m.st = 0 /\ m.path = "direct" /\ setting.nat[a] # Sym
  <2>1. m \in Msgs /\ m \in PathMessages /\ Receivable(m) /\ m.to = a
    BY DEF TurnReads, CheckInv, AnswersFollow, Msgs
  <2>2. StrayOf(m)
    BY <2>1 DEF Stray
  <2>3. m.path # "relay"
    <3>1. m.path = "relay" => registered[a][m.ch] /\ registered[b][m.ch]
      BY <1>1, <2>1, ComesIn
    <3>2. m.ch \in Chans
      BY <2>1 DEF PathMessages
    <3>. QED  BY <1>5, <3>1, <3>2 DEF KnownOf
  <2>4. m.path = "direct"
    BY <2>1, <2>3 DEF PathMessages, Paths
  <2>. QED  BY <1>3, <1>6, <2>1, <2>2, <2>4, ComesIn
<1>8. (\A c \in Chans : ~Ending(a, got, c)) /\ ~AllEnding(a, got)
  BY <1>3, <1>7, P2pAssumption DEF Ending, NoneEnded, AllEnding, P2pAssumption
<1>9. Stray'
  <2>1. ASSUME NEW m \in Msgs', Sends(a, got, m)  PROVE StrayOf(m)'
    <3>1. m.st # 0 => setting.nat[m.to] = Sym
      BY <1>1, <1>6, <1>7, <2>1 DEF Sends
    <3>. QED  BY <1>2, <1>3, <1>6, <3>1 DEF StrayOf
  <2>2. ASSUME NEW m \in Msgs  PROVE StrayOf(m)'
    BY <1>2, <1>3 DEF Stray, StrayOf
  <2>3. \A m \in Msgs' : m \in Msgs \/ Sends(a, got, m)
    BY DEF TurnReads
  <2>. QED  BY <2>1, <2>2, <2>3 DEF Stray
<1>10. ~Returns(a, got)
  BY <1>1, <1>4, <1>8 DEF Returns, BothDirect, GoneOver
<1>11. CASE GoesOn(a, got)
  <2>1. NoneEnded(a)' /\ UNCHANGED <<phase, result, second, ticked>>
    BY <1>8, <1>11 DEF GoesOn, Follows, NoneEnded
  <2>2. Apart'
    BY <1>1, <1>2, <1>3, <1>4, <2>1 DEF Apart, NoneEnded, BothDirect, GoneOver
  <2>. QED  BY <1>9, <2>2
<1>12. CASE FallsBack(a, got)
  <2>1. /\ phase'[a] = "relay" /\ second'[a] = 0 /\ NoneEnded(a)'
        /\ \A c \in Chans : registered'[a][c]
    <3>1. Begin(a, "relay") /\ "relay" \in Paths
      BY <1>12 DEF FallsBack, Paths
    <3>. QED  BY <3>1, BeginDoes DEF NoneEnded
  <2>2. second[a] = 2 /\ phase[a] = "direct" /\ UNCHANGED <<result, ticked>>
    BY <1>12 DEF FallsBack, TogetherTypes
  <2>3. second[b] \in 0..2
    BY <1>1 DEF TogetherTypes
  <2>4. CASE phase[b] = "direct"
    <3>1. second[b] = 1 /\ ticked = {a}
      BY <1>1, <1>4, <2>2, <2>3, <2>4 DEF BothDirect, GoneOver
    <3>2. GoneOver(a)'
      BY <1>1, <1>2, <2>1, <2>2, <2>4, <3>1 DEF GoneOver
    <3>3. Apart'
      BY <1>1, <1>2, <1>3, <2>1, <2>2, <3>2 DEF Apart, NoneEnded
    <3>. QED  BY <1>9, <3>3
  <2>5. CASE phase[b] = "relay"
    <3>1. second[b] = 0
      BY <1>1, <1>4, <2>2, <2>5 DEF BothDirect, GoneOver
    <3>2. MetOf(a)'
      BY <1>3, <2>1, P2pAssumption DEF MetOf, NoneEnded, P2pAssumption
    <3>3. MetOf(b)'
      BY <1>2, <1>3, <1>5, <2>5, <3>1, P2pAssumption DEF MetOf, NoneEnded, KnownOf,
         P2pAssumption
    <3>4. ASSUME NEW c \in Chans  PROVE Carried(c)'
      <4>1. PICK r \in Msgs' : r.to = b /\ r.ch = c /\ r.path = "relay"
        BY <1>1, <1>12 DEF FallsBack, Message
      <4>2. Token(r, c)'
        BY <1>1, <1>2, <1>3, <2>1, <4>1 DEF Token, NoneEnded
      <4>. QED  BY <4>2 DEF Carried
    <3>5. Met'
      BY <1>1, <3>2, <3>3, <3>4 DEF Met
    <3>. QED  BY <1>9, <3>5
  <2>. QED  BY <1>1, <1>4, <2>2, <2>4, <2>5 DEF BothDirect, GoneOver
<1>. QED  BY <1>10, <1>11, <1>12 DEF TurnReads

LEMMA TurnTogether ==
  ASSUME CheckInv, TogetherInv, NEW a \in Agents, Turn(a)
  PROVE  TogetherInv'
<1>1. TogetherTypes
  BY DEF TogetherInv
<1>2. PICK got \in SUBSET Msgs : TurnReads(a, got)
  BY <1>1, TurnIsRead
<1>3. phase[a] \in Paths
  BY DEF Turn, Running
<1>4. TogetherTypes' /\ PathsAreTaken' /\ PathsAreKnown' /\ WaitsAreFresh'
  BY <1>2, <1>3, TurnTypes, TurnKeepsPaths
<1>5. ASSUME AreTogether'  PROVE Stray' /\ (Met' \/ Apart')
  <2>1. UNCHANGED <<setting, together>> /\ \A b \in Agents : b # a => phase'[b] = phase[b]
    BY <1>2 DEF TurnReads
  <2>2. AreTogether /\ setting.loss = 0
    BY <1>3, <1>5, <2>1 DEF AreTogether, Waits, Paths
  <2>. QED  BY <1>2, <1>3, <2>2, TurnOfMet, TurnOfApart DEF TogetherInv
<1>. QED  BY <1>4, <1>5 DEF TogetherInv

LEMMA TogetherKeeps == CheckInv /\ TogetherInv /\ [P2pNext]_p2pVars => TogetherInv'
<1>. SUFFICES ASSUME CheckInv, TogetherInv, [P2pNext]_p2pVars PROVE TogetherInv'
  OBVIOUS
<1>1. ASSUME NEW a \in Agents, Start(a) \/ Turn(a) \/ Second(a)  PROVE TogetherInv'
  BY <1>1, StartTogether, TurnTogether, SecondTogether
<1>2. ASSUME NEW m \in BagToSet(net), Lose(m)  PROVE TogetherInv'
  <2>1. m \in Msgs
    BY DEF Msgs
  <2>. QED  BY <1>2, <2>1, LoseTogether
<1>3. CASE UNCHANGED p2pVars
  <2>1. /\ TogetherTypes' /\ PathsAreTaken' /\ PathsAreKnown' /\ WaitsAreFresh'
        /\ (AreTogether' <=> AreTogether) /\ (Stray' <=> Stray)
    BY <1>3 DEF p2pVars, TogetherInv, TogetherTypes, PathsAreTaken, PathOf, PathsAreKnown,
       KnownOf, WaitsAreFresh, WaitOf, Waits, NoneEnded, AreTogether, Stray, StrayOf, Msgs,
       Meeting, DirectWorks, TryDirect
  <2>2. (Met' <=> Met) /\ (Apart' <=> Apart)
    BY <1>3 DEF p2pVars, Met, MetOf, Carried, Token, Msgs, Apart, BothDirect, GoneOver,
       NoneEnded, Meeting, DirectWorks, TryDirect
  <2>. QED  BY <2>1, <2>2 DEF TogetherInv
<1>. QED  BY <1>1, <1>2, <1>3 DEF P2pNext

\* Two calls of ice_connectivity_check that begin in the same second, between
\* agents whose messages are not lost, succeed both and over the same path: the
\* direct one when the NATs let it through, and the relay when they do not, be
\* it because they were taken for what they are not.
THEOREM TogetherBothSucceed == P2pSpec => []TogetherTheyConnect
<1>1. CheckInv /\ TogetherInv => TogetherTheyConnect
  <2>. SUFFICES ASSUME CheckInv, TogetherInv, Finished, together, setting.loss = 0,
                       NEW a \in Agents, NEW c \in Chans
                PROVE  result[a] /\ link[a][c] = (IF DirectWorks THEN "direct" ELSE "relay")
    BY DEF TogetherTheyConnect
  <2>1. AreTogether
    BY DEF AreTogether, Waits, Finished
  <2>2. ~Apart
    BY OtherIsAgent DEF Apart, BothDirect, GoneOver, Finished
  <2>3. MetOf(a) /\ phase[a] = "done"
    BY <2>1, <2>2 DEF TogetherInv, Met, Finished
  <2>. QED  BY <2>3 DEF MetOf, Meeting
<1>. QED  BY CheckStarts, CheckKeeps, TogetherStarts, TogetherKeeps, <1>1, PTL DEF P2pSpec
-----------------------------------------------------------------------------
(***************************************************************************)
(* The type of a NAT (NatType).  The invariant knows which tests a NAT     *)
(* answers: an answer that is on its way, in a socket or noted is to such  *)
(* a test.  Without loss and delay all answers there can be are known      *)
(* after one turn, and none is left to come when a second one is over.     *)
(***************************************************************************)
Sure(t) ==
  \/ t \in {1, 10} /\ nat # Blocked
  \/ t = 2 /\ nat \in {Open, Cone}
  \/ t = 3 /\ nat \in {Open, Cone, Restricted}
  \/ t = 11 /\ hairpins

Known == answered \cup way \cup here

NatTypes ==
  /\ prompt \in BOOLEAN /\ nat \in Open..Blocked /\ hairpins \in BOOLEAN
  /\ natCount \in 0..3 /\ answered \subseteq Tests
  /\ way \subseteq Tests /\ here \subseteq Tests
  /\ mappedIpSame \in BOOLEAN /\ (mappedIpSame <=> ~(10 \in answered /\ nat = Sym))
  /\ holes \in [1..2 -> SUBSET {"main", "alt"}] /\ "alt" \notin holes[2]
  /\ natLost \in Nat

OnlySure == \A t \in Known : Sure(t)

Undisturbed == prompt /\ natLost = 0

AllIn ==
  /\ (natCount >= 1 \/ Known # {}) => \A t \in {1, 2, 3} : Sure(t) => t \in Known
  /\ natCount >= 1 /\ 1 \in answered => \A t \in {10, 11} : Sure(t) => t \in Known
  /\ natCount >= 2 => way = {} /\ here = {}

Says == answer \notin {0, Failed} => answer = FlowChart /\ natCount = 3

NatInv == NatTypes /\ OnlySure /\ (Undisturbed => AllIn) /\ Says
-----------------------------------------------------------------------------
LEMMA NatStarts == NatInit => NatInv
  BY DEF NatInit, NatInv, NatTypes, OnlySure, Undisturbed, AllIn, Says, Known, Tests, Sym,
     Open, Blocked

\* A test that is sent is answered exactly when the NAT is one that lets the
\* answer through; the address of test 10 is never sent to from socket 2.
LEMMA AnswersAreSure ==
  ASSUME NatTypes, NEW h,
         h = [s \in 1..2 |-> holes[s] \cup
               {SentTo(t) : t \in {u \in ToSend \ {11} : Socket(u) = s}}]
  PROVE  /\ \A t \in ToSend : Comes(t, h) <=> Sure(t)
         /\ h \in [1..2 -> SUBSET {"main", "alt"}] /\ "alt" \notin h[2]
<1>1. h \in [1..2 -> SUBSET {"main", "alt"}]
  BY DEF NatTypes, SentTo
<1>2. "alt" \notin h[2]
  BY DEF NatTypes, SentTo, Socket
<1>3. ASSUME NEW t \in ToSend  PROVE Comes(t, h) <=> Sure(t)
  <2>1. t \in {1, 2, 3, 10, 11}
    BY DEF ToSend, Tests
  <2>2. t # 11 => SentTo(t) \in h[Socket(t)]
    BY DEF Socket
  <2>3. nat \in Open..Blocked
    BY DEF NatTypes
  <2>4. CASE t = 11
    BY <2>4 DEF Comes, Sure
  <2>5. CASE t = 2
    <3>1. "alt" \notin h[Socket(t)]
      BY <1>2, <2>5 DEF Socket
    <3>. QED  BY <2>3, <2>5, <3>1 DEF Comes, Sure, AnsweredFrom, Open, Cone, Restricted,
              Blocked
  <2>6. CASE t = 3
    <3>1. "main" \in h[Socket(t)]
      BY <2>2, <2>6 DEF SentTo
    <3>. QED  BY <2>3, <2>6, <3>1 DEF Comes, Sure, AnsweredFrom, Open, Cone, Restricted,
              Blocked
  <2>7. CASE t \in {1, 10}
    <3>1. AnsweredFrom(t) \in h[Socket(t)]
      BY <2>2, <2>7 DEF SentTo, AnsweredFrom
    <3>. QED  BY <2>3, <2>7, <3>1 DEF Comes, Sure, Open, Cone, Restricted, Blocked
  <2>. QED  BY <2>1, <2>4, <2>5, <2>6, <2>7
<1>. QED  BY <1>1, <1>2, <1>3

LEMMA TimeoutKeeps == NatInv /\ Timeout => NatInv'
<1>. SUFFICES ASSUME NatInv, Timeout  PROVE NatInv'
  OBVIOUS
<1>. DEFINE h == [s \in 1..2 |-> holes[s] \cup
                   {SentTo(t) : t \in {u \in ToSend \ {11} : Socket(u) = s}}]
            answers == {t \in ToSend : Comes(t, h)}
<1>1. PICK arriving \in SUBSET answers :
        /\ holes' = h /\ way' = way \cup arriving
        /\ natLost' = natLost + Cardinality(answers \ arriving)
  BY Zenon DEF Timeout
<1>2. /\ answer = 0 /\ natCount < 3 /\ here = {} /\ natCount' = natCount + 1
      /\ UNCHANGED <<prompt, nat, hairpins, answered, mappedIpSame, here, answer>>
      /\ natCount > 0 /\ prompt => way = {}
  BY DEF Timeout, Looping
<1>3. /\ \A t \in ToSend : Comes(t, h) <=> Sure(t)
      /\ h \in [1..2 -> SUBSET {"main", "alt"}] /\ "alt" \notin h[2]
  <2>. HIDE DEF h
  <2>1. h = [s \in 1..2 |-> holes[s] \cup
               {SentTo(t) : t \in {u \in ToSend \ {11} : Socket(u) = s}}]
    BY DEF h
  <2>2. NatTypes
    BY DEF NatInv
  <2>. QED  BY <2>1, <2>2, AnswersAreSure
<1>. HIDE DEF h
<1>4. /\ ToSend \subseteq Tests \ answered /\ {1, 2, 3} \subseteq ToSend \cup answered
      /\ 1 \in answered => ToSend = Tests \ answered
  BY DEF ToSend, Tests
<1>5. answers = {t \in ToSend : Sure(t)}
  BY <1>3
<1>. HIDE DEF answers
<1>6. IsFiniteSet(answers \ arriving)
  <2>1. IsFiniteSet(Tests)
    <3>1. Tests = {1, 2, 3} \cup {10, 11}
      BY DEF Tests
    <3>2. IsFiniteSet({1}) /\ IsFiniteSet({2}) /\ IsFiniteSet({3}) /\ IsFiniteSet({10})
          /\ IsFiniteSet({11})
      BY FS_Singleton
    <3>3. IsFiniteSet({1} \cup {2}) /\ IsFiniteSet({10} \cup {11})
      BY <3>2, FS_Union
    <3>4. IsFiniteSet(({1} \cup {2}) \cup {3})
      BY <3>2, <3>3, FS_Union
    <3>5. IsFiniteSet((({1} \cup {2}) \cup {3}) \cup ({10} \cup {11}))
      BY <3>3, <3>4, FS_Union
    <3>6. Tests = (({1} \cup {2}) \cup {3}) \cup ({10} \cup {11})
      BY <3>1
    <3>. QED  BY <3>5, <3>6
  <2>2. answers \ arriving \subseteq Tests
    BY <1>4, <1>5
  <2>. QED  BY <2>1, <2>2, FS_Subset
<1>7. /\ Cardinality(answers \ arriving) \in Nat
      /\ Cardinality(answers \ arriving) = 0 => answers \subseteq arriving
  BY <1>6, FS_CardinalityType, FS_EmptySet
<1>8. NatTypes'
  BY <1>1, <1>2, <1>3, <1>4, <1>5, <1>7 DEF NatInv, NatTypes
<1>9. OnlySure'
  <2>1. SUFFICES ASSUME NEW t \in Known'  PROVE Sure(t)'
    BY DEF OnlySure
  <2>2. t \in Known \/ t \in arriving
    BY <1>1, <1>2 DEF Known
  <2>3. Sure(t)
    BY <2>2, <1>5 DEF NatInv, OnlySure
  <2>. QED  BY <2>3, <1>2 DEF Sure
<1>10. ASSUME Undisturbed'  PROVE AllIn'
  <2>1. Undisturbed /\ arriving = answers
    <3>1. natLost \in Nat /\ natLost' = 0
      BY <1>10 DEF Undisturbed, NatInv, NatTypes
    <3>2. natLost = 0 /\ Cardinality(answers \ arriving) = 0
      BY <1>1, <1>7, <3>1
    <3>3. arriving = answers
      BY <1>7, <3>2
    <3>. QED  BY <1>2, <1>10, <3>2, <3>3, Zenon DEF Undisturbed
  <2>2. AllIn
    BY <2>1 DEF NatInv
  <2>3. \A t : Sure(t)' = Sure(t)
    BY <1>2 DEF Sure
  <2>4. Known' = Known \cup answers
    BY <1>1, <1>2, <2>1 DEF Known
  <2>5. \A t \in {1, 2, 3} : Sure(t) => t \in Known'
    BY <1>4, <1>5, <2>4 DEF Known
  <2>6. 1 \in answered => \A t \in {10, 11} : Sure(t) => t \in Known'
    BY <1>4, <1>5, <2>4 DEF Known, Tests
  <2>7. ASSUME natCount' >= 2  PROVE way' = {} /\ here' = {}
    <3>1. natCount >= 1 /\ way = {} /\ here = {}
      BY <1>2, <2>1, <2>7 DEF NatInv, NatTypes, Undisturbed
    <3>2. Known = answered
      BY <3>1 DEF Known
    <3>3. ASSUME NEW t \in answers  PROVE FALSE
      <4>1. t \in ToSend /\ t \notin answered /\ t \in {1, 2, 3, 10, 11} /\ Sure(t)
        BY <3>3, <1>4, <1>5 DEF Tests
      <4>2. t \in {10, 11} => 1 \in answered
        BY <4>1 DEF ToSend
      <4>. QED  BY <2>2, <3>1, <3>2, <4>1, <4>2 DEF AllIn
    <3>4. answers = {}
      BY <3>3
    <3>. QED  BY <1>1, <1>2, <2>1, <3>1, <3>4
  <2>. QED  BY <1>2, <2>3, <2>5, <2>6, <2>7 DEF AllIn
<1>11. Says'
  BY <1>2 DEF Says
<1>. QED  BY <1>8, <1>9, <1>10, <1>11 DEF NatInv

LEMMA ArriveKeeps == ASSUME NEW t \in Tests  PROVE NatInv /\ Arrive(t) => NatInv'
<1>. SUFFICES ASSUME NatInv, Arrive(t)  PROVE NatInv'
  OBVIOUS
<1>1. /\ answer = 0 /\ t \in way /\ way' = way \ {t} /\ here' = here \cup {t}
      /\ UNCHANGED <<prompt, nat, hairpins, natCount, answered, mappedIpSame, holes, natLost,
                     answer>>
  BY DEF Arrive
<1>2. Known' = Known
  BY <1>1 DEF Known
<1>3. \A u : Sure(u)' = Sure(u)
  BY <1>1 DEF Sure
<1>4. NatTypes'
  BY <1>1 DEF NatInv, NatTypes
<1>5. OnlySure'
  BY <1>2, <1>3 DEF NatInv, OnlySure
<1>6. (Undisturbed => AllIn)'
  BY <1>1, <1>2, <1>3 DEF NatInv, Undisturbed, AllIn
<1>7. Says'
  BY <1>1 DEF Says
<1>. QED  BY <1>4, <1>5, <1>6, <1>7 DEF NatInv

LEMMA DataKeeps == NatInv /\ Data => NatInv'
<1>. SUFFICES ASSUME NatInv, Data  PROVE NatInv'
  OBVIOUS
<1>1. PICK got \in SUBSET here :
        /\ answered' = answered \cup got
        /\ natCount' = IF 1 \in got \ answered THEN 0 ELSE natCount
        /\ mappedIpSame' = SameMapping(got \ answered)
        /\ here' = here \ got
  BY DEF Data
<1>2. /\ answer = 0 /\ here # {}
      /\ UNCHANGED <<prompt, nat, hairpins, way, holes, natLost, answer>>
  BY DEF Data, Looping
<1>3. Known' = Known
  BY <1>1, <1>2 DEF Known
<1>4. \A u : Sure(u)' = Sure(u)
  BY <1>2 DEF Sure
<1>5. NatTypes'
  <2>1. natCount' \in 0..3
    BY <1>1 DEF NatInv, NatTypes
  <2>2. mappedIpSame' \in BOOLEAN /\ (mappedIpSame' <=> ~(10 \in answered' /\ nat' = Sym))
    BY <1>1, <1>2 DEF NatInv, NatTypes, SameMapping
  <2>. QED  BY <1>1, <1>2, <2>1, <2>2 DEF NatInv, NatTypes
<1>6. OnlySure'
  BY <1>3, <1>4 DEF NatInv, OnlySure
<1>7. ASSUME Undisturbed'  PROVE AllIn'
  <2>1. AllIn
    BY <1>2, <1>7 DEF NatInv, Undisturbed
  <2>2. Known # {}
    BY <1>2 DEF Known
  <2>3. natCount' >= 1 => natCount' = natCount /\ (1 \in answered' => 1 \in answered)
    BY <1>1
  <2>4. natCount \in 0..3 /\ natCount' \in 0..3
    BY <1>5 DEF NatInv, NatTypes
  <2>5. ~(natCount' >= 2)
    BY <2>1, <2>3, <2>4, <1>2 DEF AllIn
  <2>. QED  BY <2>1, <2>2, <2>3, <2>5, <1>3, <1>4 DEF AllIn
<1>8. Says'
  BY <1>2 DEF Says
<1>. QED  BY <1>5, <1>6, <1>7, <1>8 DEF NatInv

LEMMA NatStepKeeps == NatInv /\ [NatNext]_natVars => NatInv'
<1>. SUFFICES ASSUME NatInv, [NatNext]_natVars  PROVE NatInv'
  OBVIOUS
<1>. USE DEF NatInv, NatTypes, OnlySure, Undisturbed, AllIn, Says, Known, Sure, FlowChart,
         IsNat
<1>1. CASE Timeout
  BY <1>1, TimeoutKeeps DEF NatInv
<1>2. CASE Data
  BY <1>2, DataKeeps
<1>3. CASE Conclude
  BY <1>3 DEF Conclude
<1>4. CASE OpenFails
  BY <1>4 DEF OpenFails
<1>5. ASSUME NEW t \in Tests, Arrive(t)  PROVE NatInv'
  BY <1>5, ArriveKeeps
<1>6. CASE UNCHANGED natVars
  BY <1>6 DEF natVars
<1>. QED  BY <1>1, <1>2, <1>3, <1>4, <1>5, <1>6 DEF NatNext

\* Whatever is lost or late: a NAT is never taken for a more open one, except
\* that a symmetric one passes for port restricted when test 10 was not
\* answered; and it is taken for what it is when nothing is lost and answers
\* take less than half a second (stunNatType).
THEOREM TypeIsRight == NatSpec => []TypeIsTrue
<1>1. NatInv => TypeIsTrue
  <2>1. SUFFICES ASSUME NatInv, answer \notin {0, Failed}
                 PROVE  /\ Undisturbed => answer = nat
                        /\ \/ answer >= nat
                           \/ nat = Sym /\ answer = PortRestricted /\ 10 \notin answered
    BY DEF TypeIsTrue, Undisturbed
  <2>2. answer = FlowChart /\ natCount = 3 /\ nat \in Open..Blocked
    BY <2>1 DEF NatInv, Says, NatTypes
  <2>3. /\ 1 \in answered => nat # Blocked
        /\ 2 \in answered => nat \in {Open, Cone}
        /\ 3 \in answered => nat \in {Open, Cone, Restricted}
    BY <2>1 DEF NatInv, OnlySure, Known, Sure
  <2>4. mappedIpSame <=> ~(10 \in answered /\ nat = Sym)
    BY <2>1 DEF NatInv, NatTypes
  <2>5. \/ answer >= nat
        \/ nat = Sym /\ answer = PortRestricted /\ 10 \notin answered
    BY <2>2, <2>3, <2>4 DEF FlowChart, IsNat, Open, Cone, Restricted, PortRestricted, Sym,
       SymFirewall, Blocked
  <2>6. ASSUME Undisturbed  PROVE answer = nat
    <3>1. AllIn /\ Known = answered
      BY <2>1, <2>2, <2>6 DEF NatInv, AllIn, Known
    <3>2. /\ nat # Blocked => 1 \in answered
          /\ nat \in {Open, Cone} => 2 \in answered
          /\ nat \in {Open, Cone, Restricted} => 3 \in answered
      BY <2>2, <3>1 DEF AllIn, Sure
    <3>3. 1 \in answered /\ nat = Sym => 10 \in answered
      BY <2>2, <3>1 DEF AllIn, Sure, Sym, Blocked
    <3>. QED  BY <2>2, <2>3, <2>4, <3>2, <3>3 DEF FlowChart, IsNat, Open, Cone, Restricted,
              PortRestricted, Sym, SymFirewall, Blocked
  <2>. QED  BY <2>5, <2>6
<1>. QED  BY <1>1, NatStarts, NatStepKeeps, PTL DEF NatSpec
-----------------------------------------------------------------------------
(***************************************************************************)
(* STUN messages (StunCodec).  While a message is written, its attributes  *)
(* lie one behind the other, each as long as its header says and padded;   *)
(* every kind whose turn has passed and that the message has is among      *)
(* them.  What was signed is the text before the integrity, which is the   *)
(* last attribute but for a fingerprint.  While it is read, the bytes left *)
(* begin with one of the attributes, and those before it have been read as *)
(* they were.                                                              *)
(***************************************************************************)
Plain == {"transport", "dontFragment", "mapped", "response", "changeRequest",
  "source", "changed", "reflected", "xorMapped", "priority", "useCandidate",
  "controlled", "controlling", "integrity", "fingerprint"}

MessageKinds == Plain \cup Strings \cup {"data", "errorCode"}

ValueSizes(k) ==
  CASE k \in Strings \cup {"data"} -> 1..255 [] k = "errorCode" -> 0..127 [] OTHER -> {0}

WellSized(m) ==
  /\ m = [k \in DOMAIN m |-> m[k]]
  /\ DOMAIN m \subseteq MessageKinds
  /\ \A k \in DOMAIN m : m[k] \in ValueSizes(k)

EndOf(e) == e.at + 4 + e.bytes

WireTypes ==
  /\ wire \in Seq([kind : MessageKinds, at : Nat, claim : Nat, bytes : Nat])
  /\ position \in 1..24

AsSent ==
  \A i \in 1..Len(wire) :
    /\ wire[i].kind \in DOMAIN msg
    /\ wire[i].claim = Claim(wire[i].kind, msg[wire[i].kind])
    /\ wire[i].bytes = wire[i].claim + Pad(wire[i].claim)

InOneRow ==
  /\ wire # <<>> => wire[1].at = Header
  /\ \A i \in 1..Len(wire) : i + 1 \in 1..Len(wire) => wire[i + 1].at = EndOf(wire[i])
  /\ \A i, j \in 1..Len(wire) : i < j => EndOf(wire[i]) =< wire[j].at

NoneMissing ==
  \A p \in 1..23 :
    p < position /\ Order[p] \in DOMAIN msg => \E i \in 1..Len(wire) : wire[i].kind = Order[p]

\* What the check of a message will find that has come so far.
After(n) == [bytes |-> Text - 24 - n, length |-> Text - Header - n]

SignedBefore ==
  "integrity" \in DOMAIN msg =>
    /\ position = 23 => signed = After(0)
    /\ position = 24 => signed = After(IF "fingerprint" \in DOMAIN msg THEN 8 ELSE 0)

ReadSoFar(i) == [k \in {wire[j].kind : j \in 1..(i - 1)} |-> msg[k]]

InMidst ==
  \E i \in 1..(Len(wire) + 1) :
    /\ size = IF i =< Len(wire) THEN Text - wire[i].at ELSE 0
    /\ attributes = ReadSoFar(i)

Stages ==
  /\ codecStage \in {"encoding", "parsing", "read"}
  /\ codecStage = "encoding" => attributes = One({})
  /\ codecStage # "encoding" => position = 24 /\ length = Text - Header
  /\ codecStage = "parsing" => InMidst
  /\ codecStage = "read" => attributes = msg

CodecInv ==
  /\ WellSized(msg) /\ WireTypes /\ AsSent /\ InOneRow /\ NoneMissing /\ SignedBefore
  /\ Stages
-----------------------------------------------------------------------------
LEMMA OneIsWellSized ==
  ASSUME NEW kinds \in SUBSET Plain
  PROVE  WellSized(One(kinds))
<1>1. \A k \in Plain : k \in MessageKinds /\ ValueSizes(k) = {0}
  BY DEF Plain, MessageKinds, ValueSizes, Strings
<1>. QED  BY <1>1 DEF WellSized, One

LEMMA WithIsWellSized ==
  ASSUME NEW m, WellSized(m), NEW k \in MessageKinds, NEW n \in ValueSizes(k)
  PROVE  WellSized(With(m, k, n))
<1>1. DOMAIN With(m, k, n) = DOMAIN m \cup {k}
  BY DEF With
<1>2. \A j \in DOMAIN m \cup {k} :
        With(m, k, n)[j] = (IF j = k THEN n ELSE m[j])
  BY DEF With
<1>3. With(m, k, n) = [j \in DOMAIN m \cup {k} |-> With(m, k, n)[j]]
  BY DEF With
<1>. QED  BY <1>1, <1>2, <1>3 DEF WellSized

LEMMA StringSizes ==
  ASSUME NEW n \in Sizes
  PROVE  /\ n \in 1..255
         /\ \A k \in Strings \cup {"data"} : k \in MessageKinds /\ n \in ValueSizes(k)
         /\ "errorCode" \in MessageKinds
         /\ n < 128 => n \in ValueSizes("errorCode")
<1>1. n \in 1..255
  BY CodecAssumption DEF CodecAssumption
<1>2. \A k \in Strings \cup {"data"} : ValueSizes(k) = 1..255
  BY DEF ValueSizes, Strings
<1>3. ValueSizes("errorCode") = 0..127
  BY DEF ValueSizes, Strings
<1>. QED  BY <1>1, <1>2, <1>3 DEF MessageKinds

\* Whatever the program sends has attributes of the sizes that the readers take.
LEMMA MessagesAreWellSized ==
  ASSUME NEW m \in Messages
  PROVE  WellSized(m)
<1>1. ASSUME NEW n \in Sizes, NEW use \in BOOLEAN, NEW role \in {"controlled", "controlling"}
      PROVE  WellSized(Check(n, use, role))
  <2>1. ({"priority", role, "integrity", "fingerprint"}
             \cup IF use THEN {"useCandidate"} ELSE {}) \in SUBSET Plain
    BY DEF Plain
  <2>2. "username" \in MessageKinds /\ n \in ValueSizes("username")
    BY StringSizes DEF Strings
  <2>. QED  BY <2>1, <2>2, OneIsWellSized, WithIsWellSized DEF Check
<1>2. ASSUME NEW n \in Sizes, NEW sw \in Sizes, NEW signs \in BOOLEAN
      PROVE  WellSized(CheckAnswer(n, sw, signs))
  <2>1. ({"xorMapped", "fingerprint"}
                  \cup IF signs THEN {"integrity"} ELSE {}) \in SUBSET Plain
    BY DEF Plain
  <2>2. "username" \in MessageKinds /\ n \in ValueSizes("username")
    BY StringSizes DEF Strings
  <2>3. "software" \in MessageKinds /\ sw \in ValueSizes("software")
    BY StringSizes DEF Strings
  <2>. QED  BY <2>1, <2>2, <2>3, OneIsWellSized, WithIsWellSized DEF CheckAnswer
<1>3. ASSUME NEW n \in Sizes, n < 128
      PROVE  WellSized(ErrorAnswer(n))
  <2>1. {"fingerprint"} \in SUBSET Plain
    BY DEF Plain
  <2>2. "errorCode" \in MessageKinds /\ n \in ValueSizes("errorCode")
    BY <1>3, StringSizes
  <2>. QED  BY <2>1, <2>2, OneIsWellSized, WithIsWellSized DEF ErrorAnswer
<1>4. ASSUME NEW sw \in Sizes
      PROVE  WellSized(ServerAnswer(sw)) /\ WellSized(Allocate(sw))
  <2>1. /\ ServerKinds \in SUBSET Plain
        /\ {"transport", "dontFragment"} \in SUBSET Plain
    BY DEF Plain, ServerKinds
  <2>2. "software" \in MessageKinds /\ sw \in ValueSizes("software")
    BY StringSizes DEF Strings
  <2>. QED  BY <2>1, <2>2, OneIsWellSized, WithIsWellSized DEF ServerAnswer, Allocate
<1>5. ASSUME NEW n \in Sizes, NEW nonce \in Sizes, NEW realm \in Sizes, NEW sw \in Sizes
      PROVE  WellSized(AllocateAgain(n, nonce, realm, sw))
  <2>1. /\ "username" \in MessageKinds /\ n \in ValueSizes("username")
        /\ "nonce" \in MessageKinds /\ nonce \in ValueSizes("nonce")
        /\ "realm" \in MessageKinds /\ realm \in ValueSizes("realm")
    BY StringSizes DEF Strings
  <2>2. "integrity" \in MessageKinds /\ 0 \in ValueSizes("integrity")
    BY DEF MessageKinds, Plain, ValueSizes, Strings
  <2>3. WellSized(With(With(Allocate(sw), "username", n), "nonce", nonce))
    BY <1>4, <2>1, WithIsWellSized
  <2>4. WellSized(With(With(With(Allocate(sw), "username", n), "nonce", nonce), "realm", realm))
    BY <2>1, <2>3, WithIsWellSized
  <2>. QED  BY <2>2, <2>4, WithIsWellSized DEF AllocateAgain
<1>6. ASSUME NEW n \in Sizes
      PROVE  WellSized(With(One({}), "data", n))
  <2>1. "data" \in MessageKinds /\ n \in ValueSizes("data")
    BY StringSizes
  <2>. QED  BY <2>1, OneIsWellSized, WithIsWellSized
<1>7. WellSized(One({})) /\ WellSized(One({"changeRequest"})) /\ WellSized(One({"fingerprint"}))
  BY OneIsWellSized DEF Plain
<1>8. ASSUME NEW n \in Sizes, NEW sw \in Sizes
      PROVE  WellSized(ServerAnswerTo(n, sw))
  <2>1. (ServerKinds \cup IF n > 64 THEN {"reflected"} ELSE {}) \in SUBSET Plain
    BY DEF Plain, ServerKinds
  <2>2. "username" \in MessageKinds /\ n \in ValueSizes("username")
    BY StringSizes DEF Strings
  <2>3. "software" \in MessageKinds /\ sw \in ValueSizes("software")
    BY StringSizes DEF Strings
  <2>. QED  BY <2>1, <2>2, <2>3, OneIsWellSized, WithIsWellSized DEF ServerAnswerTo
<1>9. WellSized(ServerError)
  <2>1. "errorCode" \in MessageKinds /\ 0 \in ValueSizes("errorCode")
    BY DEF MessageKinds, ValueSizes, Strings
  <2>2. WellSized(One({}))
    BY <1>7
  <2>. QED  BY <2>1, <2>2, WithIsWellSized DEF ServerError
<1>. QED  BY <1>1, <1>2, <1>3, <1>4, <1>5, <1>6, <1>7, <1>8, <1>9 DEF Messages
-----------------------------------------------------------------------------
\* A reader takes what was written of a value, and keeps its size.
LEMMA ReadersTakeIt ==
  ASSUME NEW k \in MessageKinds, NEW n \in ValueSizes(k)
  PROVE  /\ Claim(k, n) \in Nat /\ Pad(Claim(k, n)) \in Nat
         /\ Written(k, n) = Claim(k, n) + Pad(Claim(k, n))
         /\ Takes(k, Claim(k, n))
         /\ Kept(k, Claim(k, n)) = n
<1>1. /\ Claim(k, n) \in Nat /\ Takes(k, Claim(k, n)) /\ Kept(k, Claim(k, n)) = n
  <2>1. CASE k \in Strings
    BY <2>1 DEF Claim, Takes, Kept, ValueSizes, Strings, Addresses
  <2>2. CASE k = "data"
    BY <2>2 DEF Claim, Takes, Kept, ValueSizes, Strings, Addresses
  <2>3. CASE k = "errorCode"
    BY <2>3 DEF Claim, Takes, Kept, ValueSizes, Strings, Addresses
  <2>4. CASE k \in Plain
    <3>1. n = 0
      BY <2>4 DEF ValueSizes, Strings, Plain
    <3>. QED  BY <2>4, <3>1 DEF Claim, Takes, Kept, Strings, Addresses, Plain
  <2>. QED  BY <2>1, <2>2, <2>3, <2>4 DEF MessageKinds
<1>2. k # "unknown"
  BY DEF MessageKinds, Plain, Strings
<1>3. Pad(Claim(k, n)) \in Nat
  BY <1>1 DEF Pad
<1>. QED  BY <1>1, <1>2, <1>3 DEF Written

LEMMA Lengths ==
  /\ \A n : Claim("integrity", n) = 20 /\ Written("integrity", n) = 20
  /\ \A n : Claim("fingerprint", n) = 4 /\ Written("fingerprint", n) = 4
<1>1. \A n : Claim("integrity", n) = 20 /\ Claim("fingerprint", n) = 4
  BY DEF Claim, Strings, Addresses
<1>2. Pad(20) = 0 /\ Pad(4) = 0
  BY DEF Pad
<1>. QED  BY <1>1, <1>2 DEF Written

\* The order of the attributes.
LEMMA OrderOfKinds ==
  /\ Len(Order) = 23
  /\ \A k \in MessageKinds : \E p \in 1..23 : Order[p] = k
  /\ \A p \in 1..23 : Order[p] = "integrity" <=> p = 22
  /\ \A p \in 1..23 : Order[p] = "fingerprint" <=> p = 23
<1>1. Len(Order) = 23
  BY DEF Order
<1>2. /\ Order[1] = "transport" /\ Order[2] = "lifetime" /\ Order[3] = "dontFragment"
      /\ Order[4] = "data" /\ Order[5] = "mapped" /\ Order[6] = "response"
      /\ Order[7] = "changeRequest" /\ Order[8] = "source" /\ Order[9] = "changed"
      /\ Order[10] = "username" /\ Order[11] = "errorCode" /\ Order[12] = "unknown"
  BY DEF Order
<1>3. /\ Order[13] = "reflected" /\ Order[14] = "nonce" /\ Order[15] = "realm"
      /\ Order[16] = "xorMapped" /\ Order[17] = "priority" /\ Order[18] = "useCandidate"
      /\ Order[19] = "controlled" /\ Order[20] = "controlling" /\ Order[21] = "software"
      /\ Order[22] = "integrity" /\ Order[23] = "fingerprint"
  BY DEF Order
<1>4. \A k \in MessageKinds : \E p \in 1..23 : Order[p] = k
  BY <1>2, <1>3 DEF MessageKinds, Plain, Strings
<1>5. \A p \in 1..23 : p \in 1..11 \/ p \in 12..21 \/ p = 22 \/ p = 23
  OBVIOUS
<1>6. \A p \in 1..11 : Order[p] # "integrity" /\ Order[p] # "fingerprint"
  <2>1. \A p \in 1..11 : p = 1 \/ p = 2 \/ p = 3 \/ p = 4 \/ p = 5 \/ p = 6 \/ p = 7
                         \/ p = 8 \/ p = 9 \/ p = 10 \/ p = 11
    OBVIOUS
  <2>. QED  BY <1>2, <2>1
<1>7. \A p \in 12..21 : Order[p] # "integrity" /\ Order[p] # "fingerprint"
  <2>1. \A p \in 12..21 : p = 12 \/ p = 13 \/ p = 14 \/ p = 15 \/ p = 16 \/ p = 17
                          \/ p = 18 \/ p = 19 \/ p = 20 \/ p = 21
    OBVIOUS
  <2>. QED  BY <1>2, <1>3, <2>1
<1>. QED  BY <1>1, <1>3, <1>4, <1>5, <1>6, <1>7
-----------------------------------------------------------------------------
LEMMA CodecStarts == CodecInit => CodecInv
<1>. SUFFICES ASSUME CodecInit  PROVE CodecInv
  OBVIOUS
<1>. USE DEF CodecInit
<1>2. WellSized(msg)
  BY MessagesAreWellSized
<1>3. wire = <<>> /\ Len(wire) = 0
  OBVIOUS
<1>4. WireTypes
  BY <1>3 DEF WireTypes
<1>5. AsSent /\ InOneRow
  BY <1>3 DEF AsSent, InOneRow
<1>6. NoneMissing /\ SignedBefore
  BY DEF NoneMissing, SignedBefore
<1>7. Stages
  BY DEF Stages
<1>. QED  BY <1>2, <1>4, <1>5, <1>6, <1>7 DEF CodecInv

LEMMA EntriesAre ==
  ASSUME WireTypes, NEW j \in 1..Len(wire)
  PROVE  /\ wire[j].kind \in MessageKinds
         /\ wire[j].at \in Nat /\ wire[j].bytes \in Nat
         /\ wire # <<>> /\ Len(wire) \in 1..Len(wire)
<1>. DEFINE Entries == [kind : MessageKinds, at : Nat, claim : Nat, bytes : Nat]
<1>1. wire \in Seq(Entries)
  BY DEF WireTypes
<1>2. wire[j] \in Entries /\ wire # <<>> /\ Len(wire) \in 1..Len(wire)
  <2>. HIDE DEF Entries
  <2>. QED  BY <1>1
<1>. QED  BY <1>2

\* Where the next attribute goes.
LEMMA TextIs ==
  ASSUME WireTypes
  PROVE  /\ wire = <<>> => Text = Header
         /\ wire # <<>> => Text = EndOf(wire[Len(wire)])
         /\ Text \in Nat
<1>1. wire # <<>> => Last(wire) = wire[Len(wire)] /\ Len(wire) \in 1..Len(wire)
  BY DEF WireTypes, Last
<1>2. wire # <<>> => wire[Len(wire)].at \in Nat /\ wire[Len(wire)].bytes \in Nat
  BY <1>1, EntriesAre
<1>. QED  BY <1>1, <1>2 DEF Text, EndOf, Header

\* What is written lies before the end of the text.
LEMMA InTheText ==
  ASSUME WireTypes, InOneRow, NEW i \in 1..Len(wire)
  PROVE  EndOf(wire[i]) =< Text /\ wire[i].at < EndOf(wire[i]) /\ wire[i].at \in Nat
         /\ EndOf(wire[i]) \in Nat
<1>1. \A j \in 1..Len(wire) : wire[j].at \in Nat /\ wire[j].bytes \in Nat
  BY EntriesAre
<1>2. wire # <<>> /\ Len(wire) \in 1..Len(wire)
  BY EntriesAre
<1>3. ASSUME NEW j \in 1..Len(wire)
      PROVE  wire[j].at < EndOf(wire[j]) /\ EndOf(wire[j]) \in Nat
  BY <1>1 DEF EndOf
<1>4. CASE i = Len(wire)
  BY <1>1, <1>2, <1>3, <1>4, TextIs
<1>5. CASE i < Len(wire)
  <2>1. EndOf(wire[i]) =< wire[Len(wire)].at
    BY <1>2, <1>5 DEF InOneRow
  <2>. QED  BY <2>1, <1>1, <1>2, <1>3, TextIs
<1>6. Len(wire) \in Nat
  BY DEF WireTypes
<1>. QED  BY <1>4, <1>5, <1>6

\* One attribute is put behind the others.
LEMMA WritesOne ==
  ASSUME CodecInv, position \in 1..23, NEW k \in DOMAIN msg, k = Order[position],
         wire' = Append(wire, [kind |-> k, at |-> Text, claim |-> Claim(k, msg[k]),
                               bytes |-> Written(k, msg[k])]),
         position' = position + 1, UNCHANGED msg
  PROVE  /\ WireTypes' /\ AsSent' /\ InOneRow' /\ NoneMissing'
         /\ Text' = Text + 4 + Written(k, msg[k])
<1>1. k \in MessageKinds /\ msg[k] \in ValueSizes(k)
  BY DEF CodecInv, WellSized
<1>2. /\ Claim(k, msg[k]) \in Nat /\ Pad(Claim(k, msg[k])) \in Nat
      /\ Written(k, msg[k]) = Claim(k, msg[k]) + Pad(Claim(k, msg[k]))
  BY <1>1, ReadersTakeIt
<1>3. WireTypes /\ InOneRow /\ AsSent /\ NoneMissing
  BY DEF CodecInv
<1>4. Text \in Nat
  BY <1>3, TextIs
<1>. DEFINE e == [kind |-> k, at |-> Text, claim |-> Claim(k, msg[k]),
                  bytes |-> Written(k, msg[k])]
            Entries == [kind : MessageKinds, at : Nat, claim : Nat, bytes : Nat]
<1>5. e \in Entries
  BY <1>1, <1>2, <1>4
<1>6. wire \in Seq(Entries) /\ wire' = Append(wire, e)
  BY <1>3 DEF WireTypes
<1>7. /\ wire' \in Seq(Entries) /\ wire' # <<>> /\ Len(wire') = Len(wire) + 1
      /\ Len(wire) \in Nat
      /\ \A i \in 1..Len(wire) : wire'[i] = wire[i]
      /\ wire'[Len(wire) + 1] = e
  <2>. HIDE DEF e, Entries
  <2>. QED  BY <1>5, <1>6
<1>8. WireTypes'
  BY <1>7 DEF WireTypes
<1>9. e.kind = k /\ e.at = Text /\ e.claim = Claim(k, msg[k]) /\ e.bytes = Written(k, msg[k])
  OBVIOUS
<1>. HIDE DEF e, Entries
<1>10. Text' = Text + 4 + Written(k, msg[k])
  <2>1. Last(wire') = e
    BY <1>7, <1>8 DEF Last, WireTypes
  <2>. QED  BY <2>1, <1>7, <1>9 DEF Text
<1>11. \A i \in 1..Len(wire') : i \in 1..Len(wire) \/ i = Len(wire) + 1
  BY <1>7
<1>12. AsSent'
  <2>1. SUFFICES ASSUME NEW i \in 1..Len(wire')
                 PROVE  /\ wire'[i].kind \in DOMAIN msg
                        /\ wire'[i].claim = Claim(wire'[i].kind, msg[wire'[i].kind])
                        /\ wire'[i].bytes = wire'[i].claim + Pad(wire'[i].claim)
    BY DEF AsSent
  <2>2. CASE i \in 1..Len(wire)
    BY <2>2, <1>3, <1>7 DEF AsSent
  <2>3. CASE i = Len(wire) + 1
    BY <2>3, <1>2, <1>7, <1>9
  <2>. QED  BY <2>2, <2>3, <1>11
<1>13. InOneRow'
  <2>1. wire'[1].at = Header
    <3>1. CASE wire = <<>>
      <4>1. Len(wire) = 0 /\ Text = Header
        BY <3>1, <1>3, TextIs
      <4>. QED  BY <4>1, <1>7, <1>9
    <3>2. CASE wire # <<>>
      <4>1. 1 \in 1..Len(wire)
        BY <3>2, <1>6, <1>7
      <4>. QED  BY <3>2, <4>1, <1>3, <1>7 DEF InOneRow
    <3>. QED  BY <3>1, <3>2
  <2>2. ASSUME NEW i \in 1..Len(wire'), i + 1 \in 1..Len(wire')
        PROVE  wire'[i + 1].at = EndOf(wire'[i])
    <3>1. i \in 1..Len(wire)
      BY <2>2, <1>7
    <3>2. CASE i + 1 \in 1..Len(wire)
      BY <3>1, <3>2, <1>3, <1>7 DEF InOneRow
    <3>3. CASE i = Len(wire)
      <4>1. wire # <<>>
        BY <3>1
      <4>2. Text = EndOf(wire[i])
        BY <4>1, <3>3, <1>3, TextIs
      <4>. QED  BY <4>2, <3>1, <3>3, <1>7, <1>9
    <3>. QED  BY <3>1, <3>2, <3>3, <1>7
  <2>3. ASSUME NEW i \in 1..Len(wire'), NEW j \in 1..Len(wire'), i < j
        PROVE  EndOf(wire'[i]) =< wire'[j].at
    <3>1. i \in 1..Len(wire)
      BY <2>3, <1>7
    <3>2. CASE j \in 1..Len(wire)
      BY <2>3, <3>1, <3>2, <1>3, <1>7 DEF InOneRow
    <3>3. CASE j = Len(wire) + 1
      BY <3>1, <3>3, <1>3, <1>7, <1>9, InTheText
    <3>. QED  BY <3>2, <3>3, <1>11
  <2>4. \A i \in 1..Len(wire') : i + 1 \in 1..Len(wire') => wire'[i + 1].at = EndOf(wire'[i])
    BY <2>2
  <2>5. \A i, j \in 1..Len(wire') : i < j => EndOf(wire'[i]) =< wire'[j].at
    BY <2>3
  <2>6. \A x : EndOf(x)' = EndOf(x)
    BY DEF EndOf
  <2>. QED  BY <2>1, <2>4, <2>5 DEF InOneRow, Header, EndOf
<1>14. NoneMissing'
  <2>1. SUFFICES ASSUME NEW p \in 1..23, p < position + 1, Order[p] \in DOMAIN msg
                 PROVE  \E i \in 1..Len(wire') : wire'[i].kind = Order[p]
    BY DEF NoneMissing, Order
  <2>2. CASE p < position
    <3>1. PICK i \in 1..Len(wire) : wire[i].kind = Order[p]
      BY <2>1, <2>2, <1>3 DEF NoneMissing
    <3>. QED  BY <3>1, <1>7
  <2>3. CASE p = position
    BY <2>3, <1>7, <1>9
  <2>. QED  BY <2>1, <2>2, <2>3
<1>. QED  BY <1>8, <1>10, <1>12, <1>13, <1>14
-----------------------------------------------------------------------------
LEMMA EncodeKeeps ==
  ASSUME CodecInv, Encode
  PROVE  CodecInv'
<1>. USE DEF Encode
<1>1. /\ UNCHANGED msg /\ UNCHANGED attributes /\ codecStage = "encoding"
      /\ attributes = One({}) /\ WellSized(msg)' /\ Len(Order) = 23 /\ position \in 1..24
  BY OrderOfKinds DEF CodecInv, Stages, WireTypes, WellSized, ValueSizes, MessageKinds,
     Plain, Strings
<1>2. CASE position > Len(Order)
  <2>1. /\ codecStage' = "parsing" /\ length' = Text - Header /\ size' = Text - Header
        /\ UNCHANGED <<position, wire, signed>> /\ position = 24
    BY <1>1, <1>2
  <2>2. WireTypes' /\ AsSent' /\ InOneRow' /\ NoneMissing' /\ Text' = Text
    BY <1>1, <2>1 DEF CodecInv, WireTypes, AsSent, InOneRow, NoneMissing, Text, EndOf,
       Claim, Pad, Header, Order
  <2>3. SignedBefore'
    BY <1>1, <2>1, <2>2 DEF CodecInv, SignedBefore, After, Header
  <2>4. InMidst'
    <3>1. WireTypes /\ InOneRow
      BY DEF CodecInv
    <3>2. 1 \in 1..(Len(wire) + 1) /\ ReadSoFar(1) = One({})
      BY <3>1 DEF WireTypes, ReadSoFar, One
    <3>3. size' = IF 1 =< Len(wire) THEN Text - wire[1].at ELSE 0
      <4>1. CASE wire = <<>>
        BY <4>1, <3>1, <2>1, TextIs DEF Header
      <4>2. CASE wire # <<>>
        <5>1. 1 =< Len(wire) /\ wire[1].at = Header
          BY <4>2, <3>1 DEF WireTypes, InOneRow
        <5>. QED  BY <5>1, <2>1
      <4>. QED  BY <4>1, <4>2
    <3>4. ReadSoFar(1)' = ReadSoFar(1)
      BY <1>1, <2>1 DEF ReadSoFar
    <3>. QED  BY <3>2, <3>3, <3>4, <2>1, <2>2, <1>1 DEF InMidst
  <2>5. Stages'
    BY <2>1, <2>2, <2>4 DEF Stages, Header
  <2>. QED  BY <1>1, <2>2, <2>3, <2>5 DEF CodecInv
<1>3. CASE position =< Len(Order)
  <2>. DEFINE k == Order[position]
  <2>1. /\ position \in 1..23 /\ position' = position + 1 /\ UNCHANGED codecStage
        /\ IF k \in DOMAIN msg
           THEN wire' = Append(wire, [kind |-> k, at |-> Text, claim |-> Claim(k, msg[k]),
                                      bytes |-> Written(k, msg[k])])
           ELSE wire' = wire
        /\ signed' = IF k \in DOMAIN msg /\ k = "integrity"
                     THEN [bytes |-> Text, length |-> LengthFor(k, Text)]
                     ELSE signed
    BY <1>1, <1>3
  <2>2. Stages'
    BY <1>1, <2>1 DEF Stages
  <2>3. /\ k = "integrity" <=> position = 22
        /\ k = "fingerprint" <=> position = 23
    BY <2>1, OrderOfKinds
  <2>. HIDE DEF k
  <2>4. CASE k \in DOMAIN msg
    <3>1. /\ WireTypes' /\ AsSent' /\ InOneRow' /\ NoneMissing'
          /\ Text' = Text + 4 + Written(k, msg[k]) /\ Text \in Nat
      BY <1>1, <2>1, <2>4, WritesOne, TextIs DEF CodecInv, k
    <3>2. SignedBefore'
      <4>1. SUFFICES ASSUME "integrity" \in DOMAIN msg
                     PROVE  /\ position' = 23 => signed' = After(0)'
                            /\ position' = 24 => signed' = After(IF "fingerprint" \in DOMAIN msg
                                                                 THEN 8 ELSE 0)'
        BY <1>1 DEF SignedBefore, After
      <4>2. CASE position' = 23
        <5>1. k = "integrity" /\ signed' = [bytes |-> Text, length |-> LengthFor(k, Text)]
          BY <2>1, <2>3, <2>4, <4>2
        <5>2. Text' = Text + 24 /\ LengthFor(k, Text) = Text - 20 + 24
          BY <3>1, <5>1, Lengths DEF LengthFor, Header
        <5>. QED  BY <3>1, <4>2, <5>1, <5>2 DEF After, Header
      <4>3. CASE position' = 24
        <5>1. k = "fingerprint" /\ position = 23 /\ signed' = signed
          BY <2>1, <2>3, <4>3
        <5>2. Text' = Text + 8
          BY <3>1, <5>1, Lengths
        <5>3. signed = After(0)
          BY <4>1, <5>1 DEF CodecInv, SignedBefore
        <5>. QED  BY <2>4, <3>1, <4>3, <5>1, <5>2, <5>3 DEF After, Header
      <4>. QED  BY <4>2, <4>3
    <3>. QED  BY <1>1, <2>2, <3>1, <3>2 DEF CodecInv
  <2>5. CASE k \notin DOMAIN msg
    <3>1. wire' = wire /\ signed' = signed /\ position' = position + 1 /\ position \in 1..23
      BY <2>1, <2>5
    <3>2. WireTypes' /\ AsSent' /\ InOneRow' /\ Text' = Text
      BY <1>1, <3>1 DEF CodecInv, WireTypes, AsSent, InOneRow, Text, EndOf,
         Claim, Pad, Header
    <3>3. NoneMissing'
      <4>1. SUFFICES ASSUME NEW p \in 1..23, p < position + 1, Order[p] \in DOMAIN msg
                     PROVE  \E i \in 1..Len(wire) : wire[i].kind = Order[p]
        BY <1>1, <3>1 DEF NoneMissing, Order
      <4>2. p # position
        BY <4>1, <2>5 DEF k
      <4>3. p < position
        BY <4>1, <4>2, <3>1
      <4>4. NoneMissing
        BY DEF CodecInv
      <4>. QED  BY <4>1, <4>3, <4>4 DEF NoneMissing
    <3>4. SignedBefore'
      <4>1. SUFFICES ASSUME "integrity" \in DOMAIN msg
                     PROVE  /\ position' = 23 => signed' = After(0)'
                            /\ position' = 24 => signed' = After(IF "fingerprint" \in DOMAIN msg
                                                                 THEN 8 ELSE 0)'
        BY <1>1 DEF SignedBefore, After
      <4>2. position' # 23
        BY <4>1, <3>1, <2>3, <2>5
      <4>3. CASE position' = 24
        <5>1. k = "fingerprint" /\ position = 23 /\ "fingerprint" \notin DOMAIN msg
          BY <3>1, <2>3, <4>3, <2>5
        <5>2. signed = After(0)
          BY <4>1, <5>1 DEF CodecInv, SignedBefore
        <5>. QED  BY <3>1, <3>2, <4>3, <5>1, <5>2 DEF After, Header
      <4>. QED  BY <4>2, <4>3
    <3>. QED  BY <1>1, <2>2, <3>2, <3>3, <3>4 DEF CodecInv
  <2>. QED  BY <2>4, <2>5
<1>. QED  BY <1>1, <1>2, <1>3
-----------------------------------------------------------------------------
\* Nothing of the message changes while it is parsed.
LEMMA TheRestStays ==
  ASSUME CodecInv, UNCHANGED <<msg, position, wire, length, signed>>
  PROVE  /\ WellSized(msg)' /\ WireTypes' /\ AsSent' /\ InOneRow' /\ NoneMissing'
         /\ SignedBefore' /\ Text' = Text
<1>1. WellSized(msg)'
  BY DEF CodecInv, WellSized, ValueSizes, MessageKinds, Plain, Strings
<1>2. WireTypes' /\ AsSent' /\ InOneRow' /\ NoneMissing' /\ Text' = Text
  BY DEF CodecInv, WireTypes, AsSent, InOneRow, NoneMissing, Text, EndOf,
     Claim, Pad, Header, Order
<1>3. SignedBefore'
  BY <1>2 DEF CodecInv, SignedBefore, After, Header
<1>. QED  BY <1>1, <1>2, <1>3

LEMMA ParseKeeps ==
  ASSUME CodecInv, Parse
  PROVE  CodecInv'
<1>1. /\ codecStage = "parsing" /\ size > 0
      /\ UNCHANGED <<msg, position, wire, length, signed>>
      /\ position = 24 /\ length = Text - Header
      /\ WellSized(msg) /\ WireTypes /\ AsSent /\ InOneRow
  BY DEF Parse, CodecInv, Stages
<1>2. PICK i \in 1..(Len(wire) + 1) :
        /\ size = IF i =< Len(wire) THEN Text - wire[i].at ELSE 0
        /\ attributes = ReadSoFar(i)
  BY <1>1 DEF CodecInv, Stages, InMidst
<1>3. i \in 1..Len(wire) /\ Len(wire) \in Nat /\ DOMAIN wire = 1..Len(wire)
      /\ size = Text - wire[i].at
  BY <1>1, <1>2 DEF WireTypes
<1>4. /\ EndOf(wire[i]) =< Text /\ wire[i].at \in Nat /\ EndOf(wire[i]) \in Nat
      /\ Text \in Nat
  BY <1>1, <1>3, InTheText, TextIs
<1>5. ASSUME NEW j \in At(size)
      PROVE  j = i
  <2>1. j \in 1..Len(wire) /\ wire[j].at = wire[i].at
    <3>1. j \in 1..Len(wire) /\ wire[j].at = Text - (Text - wire[i].at)
      BY <1>3 DEF At
    <3>. QED  BY <3>1, <1>4
  <2>2. ASSUME NEW a \in 1..Len(wire), NEW b \in 1..Len(wire), a < b
        PROVE  wire[a].at < wire[b].at
    <3>1. EndOf(wire[a]) =< wire[b].at
      BY <1>1, <2>2 DEF InOneRow
    <3>2. wire[a].at < EndOf(wire[a]) /\ wire[a].at \in Nat /\ EndOf(wire[a]) \in Nat
          /\ wire[b].at \in Nat
      BY <1>1, InTheText
    <3>. QED  BY <3>1, <3>2
  <2>3. ~(i < j) /\ ~(j < i)
    <3>1. wire[i].at \in Nat
      BY <1>4
    <3>2. i < j => wire[i].at < wire[j].at
      BY <1>3, <2>1, <2>2
    <3>3. j < i => wire[j].at < wire[i].at
      BY <1>3, <2>1, <2>2
    <3>. QED  BY <2>1, <3>1, <3>2, <3>3
  <2>. QED  BY <1>3, <2>1, <2>3
<1>6. i \in At(size)
  BY <1>3, <1>4 DEF At
<1>7. (CHOOSE j \in At(size) : TRUE) = i
  BY <1>5, <1>6
<1>8. /\ wire[i].kind \in DOMAIN msg
      /\ wire[i].claim = Claim(wire[i].kind, msg[wire[i].kind])
      /\ wire[i].bytes = wire[i].claim + Pad(wire[i].claim)
  BY <1>1, <1>3 DEF AsSent
<1>. DEFINE k == wire[i].kind
<1>9. k \in MessageKinds /\ msg[k] \in ValueSizes(k)
  BY <1>1, <1>8 DEF WellSized
<1>10. /\ wire[i].claim \in Nat /\ Pad(wire[i].claim) \in Nat
       /\ Takes(k, wire[i].claim) /\ Kept(k, wire[i].claim) = msg[k]
  BY <1>8, <1>9, ReadersTakeIt
<1>11. /\ size - 4 - wire[i].claim - Pad(wire[i].claim) = Text - EndOf(wire[i])
       /\ wire[i].claim + 4 =< size
       /\ wire[i].claim \in Int /\ size \in Int
  <2>1. EndOf(wire[i]) = wire[i].at + 4 + (wire[i].claim + Pad(wire[i].claim))
    BY <1>8 DEF EndOf
  <2>2. size = Text - wire[i].at
    BY <1>3
  <2>3. /\ wire[i].claim \in Nat /\ Pad(wire[i].claim) \in Nat
        /\ wire[i].at \in Nat /\ Text \in Nat /\ EndOf(wire[i]) =< Text
    BY <1>4, <1>10
  <2>. DEFINE at == wire[i].at
              claim == wire[i].claim
              pad == Pad(wire[i].claim)
              end == EndOf(wire[i])
  <2>4. /\ end = at + 4 + (claim + pad) /\ size = Text - at /\ end =< Text
        /\ claim \in Nat /\ pad \in Nat /\ at \in Nat /\ Text \in Nat
    BY <2>1, <2>2, <2>3
  <2>. HIDE DEF at, claim, pad, end
  <2>5. /\ size - 4 - claim - pad = Text - end
        /\ claim + 4 =< size /\ claim \in Int /\ size \in Int
    BY <2>4
  <2>. QED  BY <2>5 DEF claim, pad, end
<1>12. /\ size' = size - 4 - wire[i].claim - Pad(wire[i].claim)
       /\ attributes' = With(attributes, k, Kept(k, wire[i].claim))
       /\ codecStage' = "parsing"
  <2>1. ~(length # Text - Header \/ At(size) = {})
    BY <1>1, <1>6
  <2>2. ~(wire[i].claim + 4 > size \/ ~Takes(k, wire[i].claim))
    BY <1>10, <1>11
  <2>. QED  BY <1>1, <1>7, <2>1, <2>2 DEF Parse
<1>13. size' = Text - EndOf(wire[i]) /\ attributes' = With(ReadSoFar(i), k, msg[k])
  BY <1>2, <1>10, <1>11, <1>12
<1>14. With(ReadSoFar(i), k, msg[k]) = ReadSoFar(i + 1)
  <2>1. {wire[j].kind : j \in 1..((i + 1) - 1)} = {wire[j].kind : j \in 1..(i - 1)} \cup {k}
    BY <1>3
  <2>2. DOMAIN ReadSoFar(i) = {wire[j].kind : j \in 1..(i - 1)}
    BY DEF ReadSoFar
  <2>3. \A n \in DOMAIN ReadSoFar(i) : ReadSoFar(i)[n] = msg[n]
    BY DEF ReadSoFar
  <2>. QED  BY <2>1, <2>2, <2>3 DEF With, ReadSoFar
<1>15. Text - EndOf(wire[i]) = IF i + 1 =< Len(wire) THEN Text - wire[i + 1].at ELSE 0
  <2>1. CASE i + 1 =< Len(wire)
    BY <2>1, <1>1, <1>3 DEF InOneRow
  <2>2. CASE i = Len(wire)
    <3>1. Text = EndOf(wire[i])
      BY <2>2, <1>1, <1>3, TextIs
    <3>. QED  BY <3>1, <2>2, <1>3, <1>4
  <2>3. i + 1 =< Len(wire) \/ i = Len(wire)
    BY <1>3
  <2>. QED  BY <2>1, <2>2, <2>3
<1>16. WellSized(msg)' /\ WireTypes' /\ AsSent' /\ InOneRow' /\ NoneMissing'
         /\ SignedBefore' /\ Text' = Text
  BY <1>1, TheRestStays
<1>17. InMidst'
  <2>1. i + 1 \in 1..(Len(wire) + 1) /\ ReadSoFar(i + 1)' = ReadSoFar(i + 1)
    BY <1>1, <1>3 DEF ReadSoFar
  <2>2. /\ size' = IF i + 1 =< Len(wire) THEN Text - wire[i + 1].at ELSE 0
        /\ attributes' = ReadSoFar(i + 1)
    BY <1>13, <1>14, <1>15
  <2>. QED  BY <1>1, <1>16, <2>1, <2>2 DEF InMidst
<1>18. Stages'
  BY <1>1, <1>12, <1>16, <1>17 DEF Stages, Header
<1>. QED  BY <1>16, <1>18 DEF CodecInv

LEMMA ParseEndsKeeps ==
  ASSUME CodecInv, ParseEnds
  PROVE  CodecInv'
<1>1. /\ codecStage = "parsing" /\ size = 0
      /\ UNCHANGED <<msg, position, wire, length, signed, size, attributes>>
      /\ position = 24 /\ length = Text - Header
      /\ WellSized(msg) /\ WireTypes /\ AsSent /\ InOneRow /\ NoneMissing
      /\ codecStage' = "read"
  BY DEF ParseEnds, CodecInv, Stages
<1>2. PICK i \in 1..(Len(wire) + 1) :
        /\ size = IF i =< Len(wire) THEN Text - wire[i].at ELSE 0
        /\ attributes = ReadSoFar(i)
  BY <1>1 DEF CodecInv, Stages, InMidst
<1>3. i = Len(wire) + 1 /\ Len(wire) \in Nat
  <2>1. Len(wire) \in Nat
    BY <1>1 DEF WireTypes
  <2>2. ASSUME i \in 1..Len(wire)
        PROVE  FALSE
    <3>1. EndOf(wire[i]) =< Text /\ wire[i].at < EndOf(wire[i]) /\ wire[i].at \in Nat
          /\ EndOf(wire[i]) \in Nat /\ Text \in Nat
      BY <1>1, <2>2, InTheText, TextIs
    <3>2. size = Text - wire[i].at
      BY <1>2, <2>1, <2>2
    <3>. QED  BY <1>1, <3>1, <3>2
  <2>. QED  BY <2>1, <2>2
<1>4. {wire[j].kind : j \in 1..(i - 1)} = DOMAIN msg
  <2>1. 1..(i - 1) = 1..Len(wire)
    BY <1>3
  <2>2. \A j \in 1..Len(wire) : wire[j].kind \in DOMAIN msg
    BY <1>1 DEF AsSent
  <2>3. ASSUME NEW k \in DOMAIN msg
        PROVE  \E j \in 1..Len(wire) : wire[j].kind = k
    <3>1. PICK p \in 1..23 : Order[p] = k
      BY <1>1, OrderOfKinds DEF WellSized
    <3>2. p < position /\ NoneMissing
      BY <1>1
    <3>. QED  BY <3>1, <3>2 DEF NoneMissing
  <2>. QED  BY <2>1, <2>2, <2>3
<1>5. ReadSoFar(i) = msg
  BY <1>1, <1>4 DEF ReadSoFar, WellSized
<1>6. WellSized(msg)' /\ WireTypes' /\ AsSent' /\ InOneRow' /\ NoneMissing'
         /\ SignedBefore' /\ Text' = Text
  BY <1>1, TheRestStays
<1>7. Stages'
  BY <1>1, <1>2, <1>5, <1>6 DEF Stages, Header
<1>. QED  BY <1>6, <1>7 DEF CodecInv

LEMMA CodecInvariance == CodecSpec => []CodecInv
<1>1. CodecInv /\ [CodecNext]_codecVars => CodecInv'
  <2>1. SUFFICES ASSUME CodecInv, [CodecNext]_codecVars
                 PROVE  CodecInv'
    OBVIOUS
  <2>2. CASE Encode
    BY <2>1, <2>2, EncodeKeeps
  <2>3. CASE Parse
    BY <2>1, <2>3, ParseKeeps
  <2>4. CASE ParseEnds
    BY <2>1, <2>4, ParseEndsKeeps
  <2>5. CASE UNCHANGED codecVars
    <3>1. UNCHANGED <<msg, position, wire, length, signed>>
          /\ UNCHANGED <<codecStage, size, attributes>>
      BY <2>5 DEF codecVars
    <3>2. WellSized(msg)' /\ WireTypes' /\ AsSent' /\ InOneRow' /\ NoneMissing'
          /\ SignedBefore' /\ Text' = Text
      BY <2>1, <3>1, TheRestStays
    <3>3. \A i : ReadSoFar(i)' = ReadSoFar(i)
      BY <3>1 DEF ReadSoFar
    <3>4. InMidst' <=> InMidst
      BY <3>1, <3>2, <3>3 DEF InMidst
    <3>5. Stages'
      BY <2>1, <3>1, <3>2, <3>4 DEF CodecInv, Stages, Header, One
    <3>. QED  BY <3>2, <3>5 DEF CodecInv
  <2>. QED  BY <2>1, <2>2, <2>3, <2>4, <2>5 DEF CodecNext
<1>. QED  BY <1>1, CodecStarts, PTL DEF CodecSpec

\* Whatever the sizes of its strings, a message that the program sends is
\* read back as it was: stunParseMessage refuses none of its attributes, and
\* loses and cuts none.
THEOREM EveryMessageIsReadBack == CodecSpec => []MessagesAreReadBack
<1>1. CodecInv => MessagesAreReadBack
  BY DEF CodecInv, Stages, MessagesAreReadBack
<1>. QED  BY <1>1, CodecInvariance, PTL

\* Who checks the integrity of a message computes it over the bytes that were
\* signed, and the length in the header is then what it was when they were.
THEOREM WhatIsSignedIsCovered == CodecSpec => []SignedIsCovered
<1>1. CodecInv => SignedIsCovered
  <2>1. SUFFICES ASSUME CodecInv, codecStage = "read", "integrity" \in DOMAIN attributes
                 PROVE  Covered = signed
    BY DEF SignedIsCovered
  <2>2. /\ attributes = msg /\ position = 24 /\ length = Text - Header
        /\ "integrity" \in DOMAIN msg /\ WireTypes
    BY <2>1 DEF CodecInv, Stages
  <2>3. signed = After(IF "fingerprint" \in DOMAIN msg THEN 8 ELSE 0)
    BY <2>1, <2>2 DEF CodecInv, SignedBefore
  <2>4. Text \in Nat
    BY <2>2, TextIs
  <2>. QED  BY <2>2, <2>3, <2>4 DEF Covered, After, Header
<1>. QED  BY <1>1, CodecInvariance, PTL
=============================================================================
