----------------------------- MODULE IceChecks ------------------------------
(***************************************************************************)
(* The ICE connectivity checks of two agents (mediastreamer/ice.c): each   *)
(* has a list of pairs of a local and a remote address, sends a STUN       *)
(* request on each pair, answers the requests of the other, nominates a    *)
(* pair that works and sends its media there.  The agents settle who is    *)
(* the controlling one if both begin in the same role.                     *)
(*                                                                         *)
(* Transport addresses are model values.  The network is external: which   *)
(* address reaches the other agent, and under which address the sender is  *)
(* seen there (NATs), is part of a scene.  All STUN messages are well      *)
(* formed and carry the right password.  Keepalive indications are left    *)
(* out: the receiver ignores them.                                         *)
(***************************************************************************)
EXTENDS Integers, SequencesExt, TLC

CONSTANTS
  Agents,        \* the two agents
  Addrs,         \* transport addresses
  MaxPairs,      \* MAX_ICE_CANDIDATES
  MaxTries,      \* 7: retransmissions before a check that is due has failed
  Scenes         \* the scenes to play, which also hold every bound

NoAddr == "none"
Other(a) == CHOOSE b \in Agents : b # a

Types == {"host", "srflx", "prflx"}
Prio(type) == CASE type = "host" -> 3 [] type = "prflx" -> 2 [] type = "srflx" -> 1
Candidates == [addr : Addrs, type : Types, base : Addrs, prio : 0..3]

States == {"pruned", "frozen", "waiting", "progress", "succeeded", "failed"}
Pairs == [local : Candidates, remote : Candidates, state : States,
          nominated : BOOLEAN, controlled : BOOLEAN, tid : Nat, tries : Nat]

\* Pairs that were never checked, as the application makes them.
NewPairs == {p \in Pairs : p.state = "frozen" /\ ~p.nominated /\ p.tid = 0}

(***************************************************************************)
(* A scene: the pairs of each agent as the application gives them, who is  *)
(* controlled (rem_controlling), tiebreak_value, and for each agent and    *)
(* destination the address it is seen under, if the other is reached; the  *)
(* number of messages lost, of messages overtaken, of timers that expire   *)
(* before the answer has come, how often an agent is given candidates, and *)
(* the room: with so many messages on their way an agent sends no check.   *)
(***************************************************************************)
Scene == [pairs : [Agents -> Seq(NewPairs)], controlled : [Agents -> BOOLEAN],
          tiebreak : [Agents -> Nat], seen : [Agents -> [Addrs -> Addrs \cup {NoAddr}]],
          lost : Nat, overtaken : Nat, early : Nat, starts : Nat,
          room : Nat]

ASSUME IceAssumption ==
  /\ IsFiniteSet(Agents) /\ Cardinality(Agents) = 2 /\ NoAddr \notin Addrs
  /\ MaxPairs \in Nat \ {0} /\ MaxTries \in Nat
  /\ Scenes # {} /\ \A z \in Scenes : z \in Scene

VARIABLES
  agent,   \* agent[a]: the check list of agent a, see CheckList
  inq,     \* inq[a]: messages on their way to agent a
  scene,   \* the scene that is played
  todo     \* what is left of it: [lost, overtaken, early]

vars == <<agent, inq, scene, todo>>

\* index is nominated_pair_index, from 1, or 0 for -1 (it is beyond the table
\* when a learned pair has pushed the nominated one out); dest is the address the
\* session sends to (rtp.rem_addr) once ICE has concluded; started counts the
\* calls of ice_restart; switched (history) the changes of the role, up to 2; out and
\* send hold the message it sends and the pair to check while the agent works.
CheckList == [pairs : Seq(Pairs), index : Nat, controlled : BOOLEAN,
              tiebreak : Nat, dest : Addrs \cup {NoAddr}, started : Nat, switched : 0..2,
              out : {<<>>}, send : {0}]

Message == [kind : {"request", "success", "conflict"}, tid : Nat, use : BOOLEAN,
            controlled : BOOLEAN, tiebreak : Nat, src : Addrs, mapped : Addrs]

First(S) == IF S = {} THEN 0 ELSE Min(S)

\* (MIN(G,D))<<32 | (MAX(G,D))<<1 | (G>D?1:0)
PairPriority(controlled, p) ==
  LET G == IF controlled THEN p.remote.prio ELSE p.local.prio
      D == IF controlled THEN p.local.prio ELSE p.remote.prio
  IN  100 * Min({G, D}) + 10 * Max({G, D}) + IF G > D THEN 1 ELSE 0
-----------------------------------------------------------------------------
(***************************************************************************)
(* ice_process_stun_message.  c is the agent's check list while it works,  *)
(* c.out what it sends: <<>> or an answer, with the address it goes to.    *)
(***************************************************************************)
Reset(ps) == [i \in DOMAIN ps |->
  IF ps[i].state = "pruned" THEN ps[i]
  ELSE [ps[i] EXCEPT !.state = "waiting", !.tid = 0, !.tries = 0]]

SwitchTo(c, controlled) == 
  [c EXCEPT !.controlled = controlled, !.pairs = Reset(@), !.switched = Min({@ + 1, 2})]

\* Mutant of Insert: nominated_pair_index does not move.
InsertOnly(c, p) ==
  LET i == First({j \in DOMAIN c.pairs : /\ j < MaxPairs
                    /\ PairPriority(c.controlled, p) > PairPriority(c.controlled, c.pairs[j])})
  IN  IF i = 0 THEN c
      ELSE [c EXCEPT !.pairs = SubSeq(InsertAt(@, i, p), 1, Min({Len(@) + 1, MaxPairs}))]

\* A new pair goes in front of the first one of a lower priority, if there is
\* one and it is not the last row of the table; otherwise it is forgotten.
Insert(c, p) ==
  LET i == First({j \in DOMAIN c.pairs : /\ j < MaxPairs
                    /\ PairPriority(c.controlled, p) > PairPriority(c.controlled, c.pairs[j])})
  IN  IF i = 0 THEN c
      ELSE [c EXCEPT !.pairs = SubSeq(InsertAt(@, i, p), 1, Min({Len(@) + 1, MaxPairs})),
                     !.index = IF @ >= i THEN @ + 1 ELSE @]

NewPair(local, remote, nominated) ==
  [local |-> local, remote |-> remote, state |-> "waiting", nominated |-> nominated,
   controlled |-> FALSE, tid |-> 0, tries |-> 0]

Answer(c, m, kind) == [c EXCEPT !.out =
  <<[to |-> m.src, msg |-> [kind |-> kind, tid |-> m.tid, use |-> FALSE, controlled |-> FALSE,
                            tiebreak |-> 0, src |-> m.src, mapped |-> m.src]]>>]

\* Mutant of Wins: each agent believes that it wins.
WinsAlways(c, m) == TRUE

Wins(c, m) == c.tiebreak >= m.tiebreak

\* A check from the address m.src: the first pair with it is tried (again).
Triggered(c, m) ==
  LET i    == First({j \in DOMAIN c.pairs : c.pairs[j].remote.addr = m.src})
      p    == c.pairs[i]
      use  == m.use /\ ~c.controlled
      prfx == [addr |-> m.src, type |-> "prflx", base |-> m.src, prio |-> Prio("prflx")]
  IN  IF i = 0 THEN Insert(c, NewPair(c.pairs[1].local, prfx, use))
      ELSE IF p.state \in {"frozen", "progress", "failed"}
      THEN [c EXCEPT !.pairs[i] = [p EXCEPT !.state = "waiting", !.nominated = @ \/ use]]
      ELSE IF p.state = "succeeded" /\ use
      THEN [c EXCEPT !.pairs[i].nominated = TRUE, !.dest = m.src]
      ELSE c

\* A request: 487 Role Conflict, or the agent gives in, if both have one role.
Request(c, m) ==
  LET both   == c.controlled = m.controlled
      yields == IF c.controlled THEN Wins(c, m) ELSE ~Wins(c, m)
  IN  IF both /\ ~yields THEN Answer(c, m, "conflict")
      ELSE Answer(Triggered(IF both THEN SwitchTo(c, ~c.controlled) ELSE c, m), m, "success")

\* Mutant of Confirmed: any answer will do.
ConfirmedAnyhow(p, m) == TRUE

\* The request was seen under the address it was meant to have.
Confirmed(p, m) == m.mapped = p.local.addr

\* An answer that says under which address the request was seen.
Success(c, m) ==
  LET i    == First({j \in DOMAIN c.pairs : c.pairs[j].tid = m.tid})
      p    == c.pairs[i]
      k    == First({j \in DOMAIN c.pairs : /\ c.pairs[j].local.addr = m.mapped
                                            /\ c.pairs[j].remote.addr = p.remote.addr})
      to(s) == [c EXCEPT !.pairs[i].state = s,
                         !.dest = IF p.nominated THEN m.src ELSE @]
      prfx == [addr |-> m.mapped, type |-> "prflx", base |-> p.local.addr, prio |-> 0]
      far  == [p.remote EXCEPT !.prio = Prio("prflx")]
  IN  IF i = 0 THEN c
      ELSE IF m.src # p.remote.addr THEN [c EXCEPT !.pairs[i].state = "failed"]
      ELSE IF p.state = "succeeded" THEN c
      ELSE IF Confirmed(p, m) THEN to("succeeded")
      ELSE IF k = 0 THEN Insert(to("failed"), NewPair(prfx, far, FALSE))
      ELSE IF c.pairs[k].state \in {"pruned", "frozen", "failed", "progress"}
      THEN [to("failed") EXCEPT !.pairs[k].state = "waiting"]
      ELSE to("failed")

\* 487: the agent takes the role it did not have when it sent the request.
Conflict(c, m) ==
  LET i == First({j \in DOMAIN c.pairs : c.pairs[j].tid = m.tid})
  IN  IF i = 0 THEN c 
      ELSE SwitchTo([c EXCEPT !.pairs[i].state = "failed"], ~c.pairs[i].controlled)

Handle(c, m) == IF c.started = 0 THEN c         \* ice is not configured
                ELSE CASE m.kind = "request"  -> Request(c, m)
                       [] m.kind = "success"  -> Success(c, m)
                       [] m.kind = "conflict" -> Conflict(c, m)
-----------------------------------------------------------------------------
(***************************************************************************)
(* ice_sound_send_stun_request: at most one check is sent.  c.send is the  *)
(* pair it is sent on, or 0.                                               *)
(***************************************************************************)
InState(c, S) == {i \in DOMAIN c.pairs : c.pairs[i].state \in S}

Check(c, i) ==
  [c EXCEPT !.pairs[i] = [@ EXCEPT !.state = "progress", !.tries = 0,
                                   !.controlled = c.controlled], !.send = i]

\* A pair to a host is nominated at once, another one when none that is better
\* is still tested.
MayNominate(c, i) ==
  /\ c.index = 0 /\ i # 0
  /\ c.pairs[i].remote.type = "host" \/ \A j \in InState(c, {"waiting", "progress"}) : j > i

\* Checks that are due: the first is sent again, those before it have failed.
Retransmit(c, due) ==
  LET ready == {i \in InState(c, {"progress"}) : c.pairs[i].tid \in due}
      over  == {i \in ready : c.pairs[i].tries > MaxTries}
      i     == First(ready \ over)
      d     == [c EXCEPT !.pairs = [j \in DOMAIN @ |->
                  IF j \in over /\ (i = 0 \/ j < i) THEN [@[j] EXCEPT !.state = "failed"]
                                                   ELSE @[j]]]
  IN  IF i = 0 THEN d ELSE [d EXCEPT !.pairs[i].tries = @ + 1, !.send = i]

Send(c, due) ==
  LET w == First(InState(c, {"waiting"}))
      s == First(InState(c, {"succeeded"}))
  IN  IF c.started = 0 THEN c
      ELSE IF w # 0 THEN Check(c, w)
      ELSE IF MayNominate(c, s)
      THEN [Check(c, s) EXCEPT !.index = s, !.pairs[s].nominated = TRUE]
      ELSE Retransmit(c, due)
-----------------------------------------------------------------------------
(***************************************************************************)
(* The agents and the network.                                             *)
(***************************************************************************)
Tids(ps) == {ps[i].tid : i \in DOMAIN ps}
InFlight == UNION {Tids(inq[a]) : a \in Agents}

\* A transaction id that is not in use.
NewTid(ps, b) == LET used == InFlight \cup Tids(ps) \cup Tids(agent[b].pairs)
                 IN  Min(1..Cardinality(used) + 1 \ used)

\* ice_sendtest on the pair c.send.
WithRequest(c, b) ==
  IF c.send = 0 THEN c
  ELSE LET p == c.pairs[c.send]
           t == NewTid(c.pairs, b)
       IN  [c EXCEPT !.pairs[c.send].tid = t, !.out =
              <<[to |-> p.remote.addr, msg |-> [kind |-> "request", tid |-> t,
                 use |-> p.nominated, controlled |-> p.controlled, tiebreak |-> c.tiebreak,
                 src |-> p.local.addr, mapped |-> p.remote.addr]]>>]

\* What arrives of what a sends, and from where.
Routed(a, out) ==
  IF out = <<>> \/ scene.seen[a][out[1].to] = NoAddr THEN <<>>
  ELSE <<[out[1].msg EXCEPT !.src = scene.seen[a][out[1].to]]>>

\* The checks in progress, and those of them whose timer expires for certain:
\* neither the request nor its answer is on its way.
Checked(a) == {p.tid : p \in {q \in ToSet(agent[a].pairs) : q.state = "progress"}}
Overdue(a) == Checked(a) \ InFlight

(***************************************************************************)
(* ice_process handles the messages that are there one after the other and *)
(* then sends: it is one or more steps Receive followed by a step Tick.    *)
(***************************************************************************)
Receive(a) ==
  /\ inq[a] # <<>>
  /\ \E c \in {Handle(agent[a], Head(inq[a]))} :
       /\ agent' = [agent EXCEPT ![a] = [c EXCEPT !.out = <<>>]]
       /\ inq' = [inq EXCEPT ![a] = Tail(@), ![Other(a)] = @ \o Routed(a, c.out)]
  /\ UNCHANGED <<scene, todo>>

Sends(a, due) ==
  /\ Len(inq[Other(a)]) < scene.room
  /\ \E c \in {Send(agent[a], due)} : \E d \in {WithRequest(c, Other(a))} :
       /\ agent' = [agent EXCEPT ![a] = [d EXCEPT !.out = <<>>, !.send = 0]]
       /\ inq' = [inq EXCEPT ![Other(a)] = @ \o Routed(a, d.out)]
  /\ UNCHANGED scene

Tick(a) == \E due \in SUBSET Checked(a) :
  /\ Sends(a, due)
  /\ IF due \subseteq Overdue(a) THEN UNCHANGED todo
     ELSE todo.early > 0 /\ todo' = [todo EXCEPT !.early = @ - 1]

Expire(a) == Sends(a, Overdue(a)) /\ UNCHANGED todo

\* A pair whose local address is a reflexive one of the base of an earlier pair
\* to the same address.
Useless(ps, i) == ps[i].local.type = "srflx" /\ \E j \in 1..i - 1 :
  ps[j].local.addr = ps[i].local.base /\ ps[j].remote.addr = ps[i].remote.addr

\* ice_set_sdpcandidates, which calls ice_restart and prunes the useless pairs.
Restart(a) ==
  LET ps == agent[a].pairs
      restarted(i) == IF Useless(ps, i) THEN "pruned"
                      ELSE IF ps[i].state = "frozen" THEN "waiting" ELSE ps[i].state
  IN  /\ agent[a].started < scene.starts
      /\ agent' = [agent EXCEPT ![a].started = @ + 1, ![a].index = 0,
           ![a].pairs = [i \in DOMAIN @ |-> [@[i] EXCEPT !.state = restarted(i)]]]
      /\ UNCHANGED <<inq, scene, todo>>

Lose(a) ==
  /\ todo.lost > 0 /\ inq[a] # <<>>
  /\ inq' = [inq EXCEPT ![a] = Tail(@)]
  /\ todo' = [todo EXCEPT !.lost = @ - 1]
  /\ UNCHANGED <<agent, scene>>

\* The second message on the way overtakes the first.
Overtake(a) ==
  /\ todo.overtaken > 0 /\ Len(inq[a]) > 1
  /\ inq' = [inq EXCEPT ![a] = <<@[2], @[1]>> \o SubSeq(@, 3, Len(@))]
  /\ todo' = [todo EXCEPT !.overtaken = @ - 1]
  /\ UNCHANGED <<agent, scene>>

Init ==
  /\ scene \in Scenes
  /\ todo = [lost |-> scene.lost, overtaken |-> scene.overtaken, early |-> scene.early]
  /\ inq = [a \in Agents |-> <<>>]
  /\ agent = [a \in Agents |->
       [pairs |-> scene.pairs[a], index |-> 0, controlled |-> scene.controlled[a],
        tiebreak |-> scene.tiebreak[a], dest |-> NoAddr, started |-> 0, switched |-> 0,
        out |-> <<>>, send |-> 0]]

Next == \E a \in Agents : Receive(a) \/ Tick(a) \/ Restart(a) \/ Lose(a) \/ Overtake(a)

Spec == Init /\ [][Next]_vars

\* The ticker runs the filter again and again; a message that is not lost
\* arrives; the application gives each agent its candidates.
Fairness == \A a \in Agents :
  /\ WF_vars(Receive(a)) /\ WF_vars(Expire(a))
  /\ WF_vars(Restart(a) /\ agent[a].started = 0)
FairSpec == Spec /\ Fairness
-----------------------------------------------------------------------------
(***************************************************************************)
(* Properties                                                              *)
(***************************************************************************)
\* The nominated pair is known by its place in the table, which moves when a
\* pair is learned and put before it.  (A pair that is pushed out of a full
\* table leaves a place behind the end, where nobody looks.)
IndexIsNominated == \A a \in Agents :
  agent[a].index \in DOMAIN agent[a].pairs => agent[a].pairs[agent[a].index].nominated

Conflicting == \A a, b \in Agents : scene.controlled[a] = scene.controlled[b]
Distinct    == \A a, b \in Agents : a # b => scene.tiebreak[a] # scene.tiebreak[b]

\* A conflict of roles is repaired by a single change, however the requests and
\* the answers of the two agents cross, and no role changes without a conflict.
SwitchesOnce == Distinct =>
  \A a \in Agents : agent[a].switched + agent[Other(a)].switched
                       =< IF Conflicting THEN 1 ELSE 0

\* A pair has succeeded only if its addresses are what each agent is seen
\* under by the other, whatever transactions and rows were mixed up before.
SucceededPairWorks == \A a \in Agents : \A p \in ToSet(agent[a].pairs) :
  p.state = "succeeded" => /\ scene.seen[a][p.remote.addr] = p.local.addr
                           /\ scene.seen[Other(a)][p.local.addr] = p.remote.addr

\* A host pair that has succeeded is accepted: the agent concludes.
HostIsAccepted == \A a \in Agents :
  (\E p \in ToSet(agent[a].pairs) : p.state = "succeeded" /\ p.remote.type = "host")
     ~> agent[a].dest # NoAddr

\* The agents end up in different roles and stay there.
RolesSettle == <>[](\A a \in Agents : agent[a].controlled # agent[Other(a)].controlled)
=============================================================================
