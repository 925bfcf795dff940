----------------------------- MODULE RtpChannel -----------------------------
(***************************************************************************)
(* What a stream with retransmission promises to the application that      *)
(* receives it, whatever the network does to the packets and the requests: *)
(* numbers come out in their order, each as the packet or as a placeholder *)
(* and never as both; a placeholder comes out only for a packet that was   *)
(* asked for, and a packet is asked for once, after it was sent and before *)
(* anything of its age came out.  The packet that came out last may come   *)
(* out again, when the network has duplicated it.  RtpRtx implements this. *)
(***************************************************************************)
EXTENDS Naturals, Sequences

VARIABLES
  produced,  \* number of packets sent: they are 0, 1, ...
  asked,     \* the packets asked for, oldest request first
  given      \* what came out: [n, hole]

channelVars == <<produced, asked, given>>

ChannelInit == produced = 0 /\ asked = <<>> /\ given = <<>>

Ahead(n) == \A i \in DOMAIN given : given[i].n < n
Fresh(ns) == /\ \A i \in DOMAIN ns : /\ ns[i] < produced /\ Ahead(ns[i])
                                     /\ \A j \in DOMAIN asked : asked[j] # ns[i]
             /\ \A i, j \in DOMAIN ns : i < j => ns[i] < ns[j]

Produce == produced' = produced + 1 /\ UNCHANGED <<asked, given>>

\* The network has duplicated the packet n.
Repeated(n) == given # <<>> /\ given[Len(given)] = [n |-> n, hole |-> FALSE]

Receive ==
  /\ \E k \in Len(asked)..Len(asked') :
       /\ SubSeq(asked', 1, Len(asked)) = asked
       /\ Fresh(SubSeq(asked', Len(asked) + 1, Len(asked')))
  /\ \/ given' = given
     \/ \E n \in 0..produced - 1, hole \in BOOLEAN :
          /\ given' = Append(given, [n |-> n, hole |-> hole])
          /\ Ahead(n) \/ (Repeated(n) /\ ~hole)
          /\ hole => \E i \in DOMAIN asked' : asked'[i] = n
  /\ UNCHANGED produced

ChannelSpec == ChannelInit /\ [][Produce \/ Receive]_channelVars
=============================================================================
