---------------------------- MODULE MCIceChecks -----------------------------
(***************************************************************************)
(* Small instances of IceChecks: the scenes, with their bounds.            *)
(***************************************************************************)
EXTENDS IceChecks

CONSTANTS A, B,
  hA, hB,     \* host addresses
  gB,         \* another address of B
  rA, gA,     \* what STUN servers see of A
  mA          \* what B sees of A when A sends to gB

Host(x)     == [addr |-> x, type |-> "host", base |-> x, prio |-> Prio("host")]
Srflx(x, y) == [addr |-> x, type |-> "srflx", base |-> y, prio |-> Prio("srflx")]
Pair(l, r)  == [local |-> l, remote |-> r, state |-> "frozen", nominated |-> FALSE,
                controlled |-> FALSE, tid |-> 0, tries |-> 0]

Base == [controlled |-> A :> FALSE @@ B :> FALSE, tiebreak |-> A :> 2 @@ B :> 1,
         lost |-> 0, overtaken |-> 0, early |-> 0, starts |-> 1, room |-> 2]
Pairs2(pa, pb) == [pairs |-> A :> pa @@ B :> pb]

\* sees(x, y): what the other sees of A's and of B's messages to an address.
Sees(fa, fb) == [seen |-> A :> [d \in Addrs |-> IF d \in DOMAIN fa THEN fa[d] ELSE NoAddr]
                       @@ B :> [d \in Addrs |-> IF d \in DOMAIN fb THEN fb[d] ELSE NoAddr]]

\* One network: each agent sees the other under its own address.
Direct == Sees(hB :> hA, hA :> hB)

\* Both agents begin as the controlling one; checks are lost, overtaken.
Bare == Base @@ Direct @@ Pairs2(<<Pair(Host(hA), Host(hB))>>, <<Pair(Host(hB), Host(hA))>>)

\* B is in the internet, A behind a NAT that keeps one address for A.
Cone == [Base EXCEPT !.controlled[B] = TRUE] @@ Sees(hB :> rA, rA :> hB)
  @@ Pairs2(<<Pair(Host(hA), Host(hB)), Pair(Srflx(rA, hA), Host(hB))>>,
            <<Pair(Host(hB), Srflx(rA, hA))>>)

\* The NAT gives A another address for each of the two addresses of B, and B's
\* table is full.
Full == [Base EXCEPT !.controlled[B] = TRUE, !.room = 1] @@ Sees(hB :> rA @@ gB :> mA, rA :> hB @@ mA :> hB)
  @@ Pairs2(<<Pair(Host(hA), Host(hB)), Pair(Host(hA), Host(gB))>>,
            <<Pair(Host(hB), Srflx(rA, hA)), Pair(Host(hB), Srflx(gA, hA))>>)

AllScenes == {[Bare EXCEPT !.lost = 1], [Bare EXCEPT !.overtaken = 1], [Bare EXCEPT !.early = 1],
              [Bare EXCEPT !.starts = 2], Cone, Full}
BareScenes == {Bare}
=============================================================================
