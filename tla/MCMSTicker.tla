----------------------------- MODULE MCMSTicker -----------------------------
(***************************************************************************)
(* Small instances of MSTicker: the graphs.                                *)
(***************************************************************************)
EXTENDS MSTicker, TLC

CONSTANTS src1, src2, enc, join, sink, recv, mix, eq

\* Two graphs: two sources that meet in a filter, one of them through a
\* longer way; and a source that leads to two filters which feed each other.
TwoGraphs ==
  src1 :> <<join>> @@ src2 :> <<enc>> @@ enc :> <<join>> @@ join :> <<sink>>
    @@ sink :> <<>> @@ recv :> <<mix>> @@ mix :> <<eq>> @@ eq :> <<mix>>
=============================================================================
