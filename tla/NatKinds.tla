------------------------------ MODULE NatKinds ------------------------------
(***************************************************************************)
(* The kinds of NAT, in the order of the enumeration NatType               *)
(* (ortp/stun.h): from the most to the least open.  stunNatType (NatType)  *)
(* finds one of them, ice_connectivity_check (P2pCheck) goes by it.        *)
(***************************************************************************)
EXTENDS Integers

Open == 1
Cone == 2
Restricted == 3
PortRestricted == 4
Sym == 5
SymFirewall == 6
Blocked == 7
Failed == 8      \* stands for StunTypeFailure
=============================================================================
