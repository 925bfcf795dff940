------------------------------- MODULE MCParts -------------------------------
(***************************************************************************)
(* Parts of the program that share no state, checked in one run: the first *)
(* state chooses the part that moves.                                      *)
(*   recv      what a session does with what comes in (RtpReceive)         *)
(*   registry  which sessions the scheduler manages (SchedRegistry)        *)
(*   nat       the type of the NAT (NatType)                               *)
(*   p2p       the handshake that chooses the path, over two channels      *)
(*             (P2pCheck)                                                  *)
(*   hasty     the same over one channel, when the calls begin at any      *)
(*             point of a second of the wall clock                         *)
(*   codec     STUN messages written and read (StunCodec)                  *)
(***************************************************************************)
EXTENDS MCRtpReceive, SchedRegistry, NatType, P2pCheck, StunCodec

VARIABLE part  \* the part that moves

allVars == <<part, vars, registryVars, natVars, p2pVars, codecVars>>
-----------------------------------------------------------------------------
\* What the NATs of A and B are and were taken for (2 cone, 3 restricted,
\* 4 port restricted, 5 symmetric), and the messages lost.
Behind(natA, natB, typeA, typeB, loss, hasty) ==
  [same |-> FALSE, nat |-> [a \in {"A", "B"} |-> IF a = "A" THEN natA ELSE natB],
   type |-> [a \in {"A", "B"} |-> IF a = "A" THEN typeA ELSE typeB],
   loss |-> loss, hasty |-> hasty]

\* Two NATs that the direct way gets through; one that it does not; a
\* symmetric one that was taken for port restricted, with and without loss.
\* The seconds begin together for both agents.
EvenSettings == {Behind(2, 4, 2, 4, 0, {}), Behind(3, 5, 3, 5, 0, {}),
                 Behind(5, 4, 4, 4, 0, {}), Behind(5, 4, 4, 4, 1, {})}

\* The first second of both may end while messages are on their way.
HastySettings == {Behind(2, 4, 2, 4, 0, Agents), Behind(3, 5, 3, 5, 0, Agents),
                  Behind(5, 4, 4, 4, 0, Agents), Behind(5, 5, 5, 5, 0, Agents)}

AllSettings == EvenSettings \cup HastySettings

\* The two channels take the same steps: what is stated of one is stated of both.
Pair == INSTANCE P2pCheck WITH Chans <- {"rtp", "rtcp"}

ASSUME NatAssumption
-----------------------------------------------------------------------------
PartsInit ==
  /\ part \in {"recv", "registry", "nat", "p2p", "hasty", "codec"}
  /\ Init              /\ (part # "recv" => scene = ClockJump)
  /\ RegistryInit
  /\ NatInit           /\ (part # "nat" => prompt /\ nat = 1 /\ hairpins)
  /\ IF part = "p2p" THEN Pair!P2pInit ELSE P2pInit
  /\ setting \in (IF part = "p2p" THEN EvenSettings ELSE HastySettings)
  /\ part \notin {"p2p", "hasty"} => setting = Behind(5, 5, 5, 5, 0, Agents)
  /\ CodecInit         /\ (part # "codec" => msg = CHOOSE m \in Messages : TRUE)

InRecv     == part = "recv" /\ UNCHANGED <<part, registryVars, natVars, p2pVars, codecVars>>
InRegistry == part = "registry" /\ UNCHANGED <<part, vars, natVars, p2pVars, codecVars>>
InNat      == part = "nat" /\ UNCHANGED <<part, vars, registryVars, p2pVars, codecVars>>
InP2p(p)   == part = p /\ UNCHANGED <<part, vars, registryVars, natVars, codecVars>>
InCodec    == part = "codec" /\ UNCHANGED <<part, vars, registryVars, natVars, p2pVars>>

PartsNext ==
  \/ InRecv /\ Next
  \/ InRegistry /\ RegistryNext
  \/ InNat /\ NatNext
  \/ InP2p("p2p") /\ Pair!P2pNext
  \/ InP2p("hasty") /\ P2pNext
  \/ InCodec /\ CodecNext

PartsSpec == PartsInit /\ [][PartsNext]_allVars
=============================================================================
