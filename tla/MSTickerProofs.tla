--------------------------- MODULE MSTickerProofs ---------------------------
(***************************************************************************)
(* Theorems about MSTicker, for any set of filters and any links between   *)
(* them: the types, and that process is only ever called on a filter       *)
(* between its preprocess and its postprocess.                             *)
(***************************************************************************)
EXTENDS MSTicker, FiniteSetTheorems, TLAPS

-----------------------------------------------------------------------------
(***************************************************************************)
(* Graphs: what ms_filter_find_neighbours finds from any filter of a graph *)
(* is that graph.                                                          *)
(***************************************************************************)
\* A link joins two filters.
LEMMA LinkType == \A l \in Links : l[1] \in Filters /\ l[2] \in Filters
  BY DEF Links

\* A filter belongs to its graph, which is a set of filters.
LEMMA OwnNeighbour == ASSUME NEW f \in Filters
                      PROVE  f \in Neighbours(f) /\ Neighbours(f) \subseteq Filters
  BY DEF Neighbours

\* No link leaves what find_neighbours finds.
LEMMA NeighboursClosed == ASSUME NEW f \in Filters PROVE Closed(Neighbours(f))
  <1>1. SUFFICES ASSUME NEW l \in Links
                 PROVE  l[1] \in Neighbours(f) <=> l[2] \in Neighbours(f)
    BY DEF Closed
  <1>2. ASSUME NEW S \in SUBSET Filters, Closed(S)
        PROVE  l[1] \in S <=> l[2] \in S
    BY <1>2 DEF Closed
  <1>3. QED
    BY <1>2, LinkType DEF Neighbours

\* The search finds the same filters from each of them.
LEMMA SameNeighbours ==
  ASSUME NEW f \in Filters, NEW g \in Neighbours(f)
  PROVE  Neighbours(g) = Neighbours(f)
  <1>1. g \in Filters
    BY OwnNeighbour
  <1>2. Neighbours(g) \subseteq Neighbours(f)
    BY <1>1, OwnNeighbour, NeighboursClosed DEF Neighbours
  <1>3. f \in Neighbours(g)
    <2>1. SUFFICES ASSUME f \notin Neighbours(g) PROVE FALSE
      OBVIOUS
    <2> DEFINE T == Filters \ Neighbours(g)
    <2>2. Closed(T)
      BY <1>1, NeighboursClosed, LinkType DEF Closed
    <2>3. f \in T /\ T \in SUBSET Filters
      BY <2>1
    <2>4. g \in T
      BY <2>2, <2>3 DEF Neighbours
    <2>5. QED
      BY <2>4, <1>1, OwnNeighbour
  <1>4. Neighbours(f) \subseteq Neighbours(g)
    BY <1>1, <1>3, OwnNeighbour, NeighboursClosed DEF Neighbours
  <1>5. QED
    BY <1>2, <1>4

\* A graph is what is found from any of its filters.
LEMMA GraphIsNeighbours ==
  ASSUME NEW g \in Graphs, NEW f \in g
  PROVE  g \subseteq Filters /\ Neighbours(f) = g
  <1>1. PICK h \in Filters : g = Neighbours(h)
    BY DEF Graphs
  <1>2. QED
    BY <1>1, SameNeighbours, OwnNeighbour

\* Two graphs that share a filter are one.
LEMMA GraphsDisjoint ==
  ASSUME NEW g \in Graphs, NEW h \in Graphs, g \cap h # {}
  PROVE  g = h
  <1>1. PICK f \in g : f \in h
    OBVIOUS
  <1>2. QED
    BY <1>1, GraphIsNeighbours

\* The graph of a filter's outputs is its own.
LEMMA OutputsNeighbours ==
  ASSUME NEW f \in Filters
  PROVE  /\ Outputs[f] \in Seq(Filters)
         /\ \A h \in ToSet(Outputs[f]) : h \in Filters /\ Neighbours(h) = Neighbours(f)
  <1>1. Outputs[f] \in Seq(Filters)
    BY TickerAssumption
  <1>2. ASSUME NEW h \in ToSet(Outputs[f])
        PROVE  h \in Filters /\ Neighbours(h) = Neighbours(f)
    <2>1. PICK i \in DOMAIN Outputs[f] : Outputs[f][i] = h
      BY DEF ToSet
    <2>2. h \in Filters
      BY <1>1, <2>1
    <2>3. <<f, h>> \in Links
      BY <2>1, <2>2 DEF Links
    <2>4. <<f, h>>[1] \in Neighbours(f) <=> <<f, h>>[2] \in Neighbours(f)
      BY <2>3, NeighboursClosed DEF Closed
    <2>5. h \in Neighbours(f)
      BY <2>4, OwnNeighbour
    <2>6. QED
      BY <2>2, <2>5, SameNeighbours
  <1>3. QED
    BY <1>1, <1>2
-----------------------------------------------------------------------------
(***************************************************************************)
(* Sequences as sets.                                                      *)
(***************************************************************************)
LEMMA ToSetConcat ==
  ASSUME NEW s \in Seq(Filters), NEW t \in Seq(Filters)
  PROVE  s \o t \in Seq(Filters) /\ ToSet(s \o t) = ToSet(s) \cup ToSet(t)
  <1>1. s \o t \in Seq(Filters)
    OBVIOUS
  <1>2. ToSet(s \o t) \subseteq ToSet(s) \cup ToSet(t)
    <2>1. SUFFICES ASSUME NEW i \in DOMAIN (s \o t)
                   PROVE  (s \o t)[i] \in ToSet(s) \cup ToSet(t)
      BY DEF ToSet
    <2>2. CASE i <= Len(s)
      BY <2>2 DEF ToSet
    <2>3. CASE i > Len(s)
      <3>1. i - Len(s) \in DOMAIN t /\ (s \o t)[i] = t[i - Len(s)]
        BY <2>3
      <3>2. QED
        BY <3>1 DEF ToSet
    <2>4. QED
      BY <2>2, <2>3
  <1>3. ASSUME NEW i \in DOMAIN s PROVE s[i] \in ToSet(s \o t)
    <2>1. i \in DOMAIN (s \o t) /\ (s \o t)[i] = s[i]
      OBVIOUS
    <2>2. QED
      BY <2>1 DEF ToSet
  <1>4. ASSUME NEW i \in DOMAIN t PROVE t[i] \in ToSet(s \o t)
    <2>1. Len(s) + i \in DOMAIN (s \o t) /\ (s \o t)[Len(s) + i] = t[i]
      OBVIOUS
    <2>2. QED
      BY <2>1 DEF ToSet
  <1>5. QED
    BY <1>1, <1>2, <1>3, <1>4 DEF ToSet

LEMMA ShortSeq == <<>> \in Seq(Filters) /\ \A f \in Filters : <<f>> \in Seq(Filters)
  OBVIOUS

LEMMA HeadTail ==
  ASSUME NEW s \in Seq(Filters), s # <<>>
  PROVE  /\ Head(s) \in Filters /\ Tail(s) \in Seq(Filters)
         /\ Head(s) \in ToSet(s) /\ ToSet(Tail(s)) \subseteq ToSet(s)
  <1>1. 1 \in DOMAIN s /\ Head(s) = s[1]
    OBVIOUS
  <1>2. \A i \in DOMAIN Tail(s) : i + 1 \in DOMAIN s /\ Tail(s)[i] = s[i + 1]
    OBVIOUS
  <1>3. QED
    BY <1>1, <1>2 DEF ToSet

\* An order of a set of filters is a sequence of its elements.
LEMMA OrdersType ==
  ASSUME NEW S, S \subseteq Filters, NEW s \in Orders(S)
  PROVE  s \in Seq(Filters) /\ ToSet(s) \subseteq S
  <1>1. Cardinality(S) \in Nat
    BY TickerAssumption, FS_Subset, FS_CardinalityType
  <1>2. s \in [1..Cardinality(S) -> S]
    BY DEF Orders
  <1>3. QED
    BY <1>1, <1>2 DEF ToSet
-----------------------------------------------------------------------------
(***************************************************************************)
(* Types.                                                                  *)
(***************************************************************************)
\* Processing a filter leaves every queue within its bound.
LEMMA CallProcessType ==
  ASSUME queue \in [Links -> 0..MaxQueue], NEW f \in Filters, call_process(f)
  PROVE  queue' \in [Links -> 0..MaxQueue]
  <1> DEFINE ins  == {l \in Inputs(f) : queue[l] > 0}
             outs == {l \in Links : l[1] = f /\ queue[l] < MaxQueue}
  <1>1. CASE ins = {} /\ ~IsSource(f)
    BY <1>1 DEF call_process
  <1>2. CASE ~(ins = {} /\ ~IsSource(f))
    <2>1. PICK puts \in SUBSET outs :
            queue' = [l \in Links |-> IF l \in ins THEN IF l \in puts THEN 1 ELSE 0
                                      ELSE IF l \in puts THEN queue[l] + 1
                                      ELSE queue[l]]
      BY <1>2 DEF call_process
    <2>2. ASSUME NEW l \in Links
          PROVE  queue'[l] \in 0..MaxQueue
      <3>1. queue[l] \in 0..MaxQueue /\ MaxQueue \in Nat \ {0}
        BY TickerAssumption
      <3>2. l \in puts => queue[l] < MaxQueue
        OBVIOUS
      <3>3. QED
        BY <2>1, <3>1, <3>2
    <2>3. DOMAIN queue' = Links /\ queue' = [l \in Links |-> queue'[l]]
      BY <2>1
    <2>4. QED
      BY <2>2, <2>3
  <1>3. QED
    BY <1>1, <1>2

LEMMA TypeStep == TypeOK /\ [Next]_vars => TypeOK'
  <1> SUFFICES ASSUME TypeOK, [Next]_vars PROVE TypeOK'
    OBVIOUS
  <1> USE DEF TypeOK, tickVars, appVars
  <1>1. CASE TickStart
    BY <1>1, ShortSeq DEF TickStart
  <1>2. CASE Visit
    <2> DEFINE f == Head(agenda)
    <2>1. agenda # <<>> /\ f \in Filters /\ Tail(agenda) \in Seq(Filters)
      BY <1>2, HeadTail DEF Visit
    <2>2. UNCHANGED <<run, tpc, list, force, attached, apc, todo>>
      BY <1>2 DEF Visit
    <2>3. agenda' \in Seq(Filters)
      <3>1. agenda' \in {agenda, Tail(agenda), Outputs[f] \o Tail(agenda)}
        BY <1>2 DEF Visit
      <3>2. Outputs[f] \o Tail(agenda) \in Seq(Filters)
        BY <2>1, OutputsNeighbours, ToSetConcat
      <3>3. QED
        BY <2>1, <3>1, <3>2
    <2>4. unsched' \in Seq(Filters)
      <3>1. unsched' \in {unsched, <<f>> \o unsched}
        BY <1>2 DEF Visit, Unschedulable
      <3>2. <<f>> \o unsched \in Seq(Filters)
        BY <2>1, ShortSeq, ToSetConcat
      <3>3. QED
        BY <3>1, <3>2
    <2>5. done' \subseteq Filters
      BY <1>2, <2>1 DEF Visit
    <2>6. queue' \in [Links -> 0..MaxQueue]
      BY <1>2, <2>1, CallProcessType DEF Visit
    <2>7. QED
      BY <2>2, <2>3, <2>4, <2>5, <2>6
  <1>3. CASE RunUnschedulable
    BY <1>3 DEF RunUnschedulable
  <1>4. CASE TickEnd
    BY <1>4 DEF TickEnd
  <1>5. CASE Stop
    BY <1>5 DEF Stop
  <1>6. ASSUME NEW g \in Graphs, Attach(g) PROVE TypeOK'
    <2>1. \A f \in g : Neighbours(f) \subseteq Filters
      BY GraphIsNeighbours, OwnNeighbour
    <2>2. QED
      BY <1>6, <2>1 DEF Attach
  <1>7. ASSUME NEW g \in Graphs, Preprocess(g) PROVE TypeOK'
    BY <1>7 DEF Preprocess
  <1>8. ASSUME NEW g \in Graphs, AttachSources(g) PROVE TypeOK'
    <2>1. PICK srcs \in Orders(Sources(g)) : list' = list \o srcs
      BY <1>8 DEF AttachSources
    <2>2. Sources(g) \subseteq Filters
      BY GraphIsNeighbours DEF Sources
    <2>3. list' \in Seq(Filters)
      BY <2>1, <2>2, OrdersType, ToSetConcat
    <2>4. QED
      BY <1>8, <2>3 DEF AttachSources
  <1>9. ASSUME NEW g \in Graphs, Detach(g) PROVE TypeOK'
    <2>1. PICK f \in g, l \in Orders(Rest(g)) :
            list' = l /\ todo' = [todo EXCEPT ![g] = Neighbours(f)]
      BY <1>9 DEF Detach
    <2>2. Rest(g) \subseteq Filters
      BY DEF Rest, ToSet
    <2>3. list' \in Seq(Filters) /\ Neighbours(f) \subseteq Filters
      BY <2>1, <2>2, OrdersType, GraphIsNeighbours, OwnNeighbour
    <2>4. QED
      BY <1>9, <2>1, <2>3 DEF Detach
  <1>10. ASSUME NEW g \in Graphs, Postprocess(g) PROVE TypeOK'
    BY <1>10 DEF Postprocess
  <1>11. CASE UNCHANGED vars
    BY <1>11 DEF vars
  <1>12. QED
    BY <1>1, <1>2, <1>3, <1>4, <1>5, <1>6, <1>7, <1>8, <1>9, <1>10, <1>11
       DEF Next, TickerNext, AppNext

LEMMA TypeInit == Init => TypeOK
  <1> SUFFICES ASSUME Init PROVE TypeOK
    OBVIOUS
  <1>1. queue \in [Links -> 0..MaxQueue]
    BY TickerAssumption DEF Init
  <1>2. QED
    BY <1>1, ShortSeq DEF Init, TypeOK

\* Every variable keeps its type.
THEOREM TypeCorrect == Spec => []TypeOK
  BY TypeInit, TypeStep, PTL DEF Spec
-----------------------------------------------------------------------------
(***************************************************************************)
(* The graphs and the execution list.                                      *)
(***************************************************************************)
\* What a thread has still to do is in its graph; what it has prepared has a
\* ticker.
PrepInv == \A g \in Graphs :
  /\ todo[g] \subseteq g
  /\ apc[g] = "preprocess" => g \ todo[g] \subseteq attached

\* Only sources are in the list, those of a graph only while no thread
\* prepares or undoes it, and then all its filters have a ticker.
ListInv ==
  /\ \A f \in ToSet(list) : IsSource(f)
  /\ \A g \in Graphs : ToSet(list) \cap g # {} => apc[g] = "idle" /\ g \subseteq attached

\* The ticker thread only visits filters of graphs in the list.
VisitInv == tpc = "visit" =>
  \A f \in ToSet(agenda) \cup ToSet(unsched) : ToSet(list) \cap Neighbours(f) # {}

TickerInv == TypeOK /\ PrepInv /\ ListInv /\ VisitInv

LEMMA TickerInvInit == Init => TickerInv
  <1> SUFFICES ASSUME Init PROVE TickerInv
    OBVIOUS
  <1>1. TypeOK
    BY TypeInit
  <1>2. QED
    BY <1>1 DEF Init, TickerInv, PrepInv, ListInv, VisitInv, ToSet

LEMMA TickerInvStep == TickerInv /\ [Next]_vars => TickerInv'
  <1> SUFFICES ASSUME TickerInv, [Next]_vars PROVE TickerInv'
    OBVIOUS
  <1>0. TypeOK /\ TypeOK' /\ PrepInv /\ ListInv /\ VisitInv
    BY TypeStep DEF TickerInv
  <1> SUFFICES PrepInv' /\ ListInv' /\ VisitInv'
    BY <1>0 DEF TickerInv
  <1>1. CASE TickStart
    <2>1. UNCHANGED <<list, attached, apc, todo>>
      BY <1>1 DEF TickStart, appVars
    <2>2. PrepInv' /\ ListInv'
      BY <1>0, <2>1 DEF PrepInv, ListInv, ToSet
    <2>3. VisitInv'
      <3>1. SUFFICES ASSUME tpc' = "visit",
                            NEW f \in (ToSet(agenda) \cup ToSet(unsched))'
                     PROVE  (ToSet(list) \cap Neighbours(f) # {})'
        BY DEF VisitInv
      <3>2. agenda' = list /\ unsched' = <<>> /\ list' = list
        BY <1>1, <3>1 DEF TickStart
      <3>3. f \in ToSet(list) /\ ToSet(list)' = ToSet(list)
        BY <3>1, <3>2 DEF ToSet
      <3>4. f \in Filters
        BY <1>0, <3>3 DEF TypeOK, ToSet
      <3>5. QED
        BY <3>3, <3>4, OwnNeighbour
    <2>4. QED
      BY <2>2, <2>3
  <1>2. CASE Visit
    <2> DEFINE f == Head(agenda)
    <2>1. UNCHANGED <<list, attached, apc, todo>>
      BY <1>2 DEF Visit, appVars
    <2>2. PrepInv' /\ ListInv'
      BY <1>0, <2>1 DEF PrepInv, ListInv, ToSet
    <2>3. /\ tpc = "visit" /\ agenda # <<>> /\ agenda \in Seq(Filters)
          /\ f \in Filters /\ f \in ToSet(agenda)
          /\ Tail(agenda) \in Seq(Filters) /\ ToSet(Tail(agenda)) \subseteq ToSet(agenda)
      BY <1>0, <1>2, HeadTail DEF Visit, TypeOK
    <2>4. ToSet(list) \cap Neighbours(f) # {}
      BY <1>0, <2>3 DEF VisitInv
    <2>5. \A h \in ToSet(agenda') : \/ h \in ToSet(agenda)
                                    \/ h \in ToSet(Outputs[f])
      <3>1. agenda' = Tail(agenda) \/ agenda' = Outputs[f] \o Tail(agenda)
        BY <1>2 DEF Visit
      <3>2. QED
        <4>1. Outputs[f] \in Seq(Filters)
          BY <2>3, OutputsNeighbours
        <4>2. ToSet(Outputs[f] \o Tail(agenda)) = ToSet(Outputs[f]) \cup ToSet(Tail(agenda))
          BY <2>3, <4>1, ToSetConcat
        <4>3. QED
          BY <2>3, <3>1, <4>2
    <2>6. \A h \in ToSet(unsched') : h \in ToSet(unsched) \/ h = f
      <3>1. unsched' = unsched \/ unsched' = <<f>> \o unsched
        BY <1>2 DEF Visit, Unschedulable
      <3>2. <<f>> \in Seq(Filters) /\ unsched \in Seq(Filters) /\ ToSet(<<f>>) = {f}
        BY <1>0, <2>3 DEF TypeOK, ToSet
      <3>3. QED
        BY <3>1, <3>2, ToSetConcat
    <2>7. \A h \in ToSet(agenda') \cup ToSet(unsched') : ToSet(list) \cap Neighbours(h) # {}
      BY <1>0, <2>3, <2>4, <2>5, <2>6, OutputsNeighbours DEF VisitInv
    <2>8. VisitInv'
      BY <2>1, <2>7 DEF VisitInv, ToSet
    <2>9. QED
      BY <2>2, <2>8
  <1>3. CASE RunUnschedulable
    <2>1. UNCHANGED <<tpc, list, attached, apc, todo>> /\ agenda' = unsched /\ unsched' = <<>>
      BY <1>3 DEF RunUnschedulable, appVars
    <2>2. PrepInv' /\ ListInv'
      BY <1>0, <2>1 DEF PrepInv, ListInv, ToSet
    <2>3. VisitInv'
      BY <1>0, <2>1 DEF VisitInv, ToSet
    <2>4. QED
      BY <2>2, <2>3
  <1>4. CASE TickEnd
    <2>1. UNCHANGED <<list, attached, apc, todo>> /\ tpc' = "lock"
      BY <1>4 DEF TickEnd, appVars
    <2>2. QED
      BY <1>0, <2>1 DEF PrepInv, ListInv, VisitInv, ToSet
  <1>5. CASE Stop
    BY <1>0, <1>5 DEF Stop, tickVars, appVars, PrepInv, ListInv, VisitInv, ToSet
  <1>6. ASSUME NEW g \in Graphs, Attach(g) PROVE PrepInv' /\ ListInv' /\ VisitInv'
    <2>1. PICK f \in g : /\ apc[g] = "idle" /\ f \notin attached
                         /\ apc' = [apc EXCEPT ![g] = "preprocess"]
                         /\ todo' = [todo EXCEPT ![g] = Neighbours(f)]
                         /\ UNCHANGED <<tpc, list, agenda, unsched, attached>>
      BY <1>6 DEF Attach, tickVars
    <2>2. PrepInv'
      <3>1. Neighbours(f) = g
        BY GraphIsNeighbours
      <3>2. QED
        BY <1>0, <2>1, <3>1 DEF PrepInv, TypeOK
    <2>3. ListInv'
      <3>1. ToSet(list) \cap g = {}
        BY <1>0, <2>1 DEF ListInv
      <3>2. QED
        BY <1>0, <2>1, <3>1 DEF ListInv, TypeOK, ToSet
    <2>4. VisitInv'
      BY <1>0, <2>1 DEF VisitInv, ToSet
    <2>5. QED
      BY <2>2, <2>3, <2>4
  <1>7. ASSUME NEW g \in Graphs, Preprocess(g) PROVE PrepInv' /\ ListInv' /\ VisitInv'
    <2>1. PICK f \in todo[g] : /\ apc[g] = "preprocess"
                               /\ attached' = attached \cup {f}
                               /\ todo' = [todo EXCEPT ![g] = @ \ {f}]
                               /\ UNCHANGED <<tpc, list, agenda, unsched, apc>>
      BY <1>7 DEF Preprocess, tickVars
    <2>2. PrepInv'
      BY <1>0, <2>1 DEF PrepInv, TypeOK
    <2>3. ListInv' /\ VisitInv'
      BY <1>0, <2>1 DEF ListInv, VisitInv, ToSet
    <2>4. QED
      BY <2>2, <2>3
  <1>8. ASSUME NEW g \in Graphs, AttachSources(g) PROVE PrepInv' /\ ListInv' /\ VisitInv'
    <2>1. PICK srcs \in Orders(Sources(g)) :
            /\ apc[g] = "preprocess" /\ todo[g] = {} /\ tpc # "visit"
            /\ list' = list \o srcs
            /\ apc' = [apc EXCEPT ![g] = "idle"]
            /\ UNCHANGED <<tpc, attached, todo>>
      BY <1>8 DEF AttachSources, LockFree
    <2>2. Sources(g) \subseteq Filters /\ Sources(g) \subseteq g
      BY GraphIsNeighbours DEF Sources
    <2>3. srcs \in Seq(Filters) /\ ToSet(srcs) \subseteq Sources(g)
      BY <2>2, OrdersType
    <2>4. ToSet(list)' \subseteq ToSet(list) \cup Sources(g)
      <3>1. list \in Seq(Filters) /\ ToSet(list') = ToSet(list) \cup ToSet(srcs)
        BY <1>0, <2>1, <2>3, ToSetConcat DEF TypeOK
      <3>2. ToSet(list)' = ToSet(list')
        BY DEF ToSet
      <3>3. QED
        BY <2>3, <3>1, <3>2
    <2>5. PrepInv'
      BY <1>0, <2>1 DEF PrepInv, TypeOK
    <2>6. ASSUME NEW f \in ToSet(list)' PROVE IsSource(f)
      BY <1>0, <2>4, <2>6 DEF ListInv, Sources
    <2>7. ASSUME NEW h \in Graphs, ToSet(list)' \cap h # {}
          PROVE  apc'[h] = "idle" /\ h \subseteq attached'
      <3>1. CASE h = g
        <4>1. g \subseteq attached
          BY <1>0, <2>1 DEF PrepInv
        <4>2. QED
          BY <1>0, <2>1, <3>1, <4>1 DEF TypeOK
      <3>2. CASE h # g
        <4>1. g \cap h = {}
          BY <3>2, GraphsDisjoint
        <4>2. ToSet(list) \cap h # {}
          BY <2>2, <2>4, <2>7, <4>1
        <4>3. QED
          BY <1>0, <2>1, <3>2, <4>2 DEF ListInv, TypeOK
      <3>3. QED
        BY <3>1, <3>2
    <2>8. ListInv'
      BY <2>6, <2>7 DEF ListInv
    <2>9. VisitInv'
      BY <2>1 DEF VisitInv
    <2>10. QED
      BY <2>5, <2>8, <2>9
  <1>9. ASSUME NEW g \in Graphs, Detach(g) PROVE PrepInv' /\ ListInv' /\ VisitInv'
    <2>1. PICK f \in g, l \in Orders(Rest(g)) :
            /\ apc[g] = "idle" /\ tpc # "visit" /\ list' = l
            /\ todo' = [todo EXCEPT ![g] = Neighbours(f)]
            /\ apc' = [apc EXCEPT ![g] = "postprocess"]
            /\ UNCHANGED <<tpc, attached>>
      BY <1>9 DEF Detach, LockFree
    <2>2. ToSet(list)' \subseteq ToSet(list) \ Sources(g)
      <3>1. Rest(g) \subseteq Filters
        BY <1>0 DEF Rest, ToSet, TypeOK
      <3>2. ToSet(l) \subseteq Rest(g)
        BY <3>1, OrdersType
      <3>3. QED
        BY <2>1, <3>2 DEF Rest, ToSet
    <2>3. PrepInv'
      <3>1. Neighbours(f) = g
        BY GraphIsNeighbours
      <3>2. QED
        BY <1>0, <2>1, <3>1 DEF PrepInv, TypeOK
    <2>4. ToSet(list)' \cap g = {}
      BY <1>0, <2>2 DEF ListInv, Sources
    <2>5. ListInv'
      BY <1>0, <2>1, <2>2, <2>4 DEF ListInv, TypeOK
    <2>6. VisitInv'
      BY <2>1 DEF VisitInv
    <2>7. QED
      BY <2>3, <2>5, <2>6
  <1>10. ASSUME NEW g \in Graphs, Postprocess(g) PROVE PrepInv' /\ ListInv' /\ VisitInv'
    <2>1. PICK f \in todo[g] :
            /\ apc[g] = "postprocess" /\ attached' = attached \ {f}
            /\ todo' = [todo EXCEPT ![g] = @ \ {f}]
            /\ apc' = [apc EXCEPT ![g] = IF todo'[g] = {} THEN "idle" ELSE @]
            /\ UNCHANGED <<tpc, list, agenda, unsched>>
      BY <1>10 DEF Postprocess, tickVars
    <2>2. ToSet(list) \cap g = {}
      BY <1>0, <2>1 DEF ListInv
    <2>3. f \in g
      BY <1>0 DEF PrepInv
    <2>4. \A h \in Graphs : h # g => /\ f \notin h /\ apc'[h] = apc[h]
                                     /\ todo'[h] = todo[h]
      BY <1>0, <2>1, <2>3, GraphsDisjoint DEF TypeOK
    <2>5. todo'[g] = todo[g] \ {f} /\ apc'[g] \in {"idle", "postprocess"}
      BY <1>0, <2>1 DEF TypeOK
    <2>6. PrepInv'
      BY <1>0, <2>1, <2>4, <2>5 DEF PrepInv
    <2>7. ListInv' /\ VisitInv'
      BY <1>0, <2>1, <2>2, <2>4 DEF ListInv, VisitInv, ToSet
    <2>8. QED
      BY <2>6, <2>7
  <1>11. CASE UNCHANGED vars
    BY <1>0, <1>11 DEF vars, tickVars, appVars, PrepInv, ListInv, VisitInv, ToSet
  <1>12. QED
    BY <1>1, <1>2, <1>3, <1>4, <1>5, <1>6, <1>7, <1>8, <1>9, <1>10, <1>11
       DEF Next, TickerNext, AppNext
-----------------------------------------------------------------------------
\* The step form of ProcessesAttached.
LEMMA ProcessStep ==
  TickerInv /\ [Next]_vars =>
    [\A f \in Filters : tpc = "visit" /\ f \in done' \ done =>
        f \in attached /\ f \in attached']_vars
  <1> SUFFICES ASSUME TickerInv, Next, NEW f \in Filters, tpc = "visit", f \in done' \ done
               PROVE  f \in attached /\ f \in attached'
    OBVIOUS
  <1>1. CASE Visit
    <2>1. f = Head(agenda) /\ agenda # <<>> /\ UNCHANGED attached
      BY <1>1 DEF Visit, appVars
    <2>2. f \in ToSet(agenda)
      BY <2>1, HeadTail DEF TickerInv, TypeOK
    <2>3. ToSet(list) \cap Neighbours(f) # {} /\ Neighbours(f) \in Graphs
      BY <2>2 DEF TickerInv, VisitInv, Graphs
    <2>4. Neighbours(f) \subseteq attached
      BY <2>3 DEF TickerInv, ListInv
    <2>5. QED
      BY <2>1, <2>4, OwnNeighbour
  <1>2. CASE TickStart \/ RunUnschedulable \/ TickEnd \/ Stop
    BY <1>2 DEF TickStart, RunUnschedulable, TickEnd, Stop
  <1>3. ASSUME NEW g \in Graphs, AppNext(g) PROVE FALSE
    BY <1>3 DEF AppNext, Attach, Preprocess, AttachSources, Detach, Postprocess
  <1>4. QED
    BY <1>1, <1>2, <1>3 DEF Next, TickerNext

\* process is called only between the preprocess and the postprocess of the
\* filter, although attach and detach run these without the ticker's lock.
THEOREM ProcessesOnlyAttached == Spec => ProcessesAttached
  BY TickerInvInit, TickerInvStep, ProcessStep, PTL DEF Spec, ProcessesAttached
-----------------------------------------------------------------------------
(***************************************************************************)
(* What a tick does.                                                       *)
(***************************************************************************)
\* The graph of f is being run.
Runs(f) == ToSet(list) \cap Neighbours(f) # {}

\* Filters the tick has run or will come back to.
Seen == done \cup ToSet(agenda) \cup ToSet(unsched)

\* A graph is in the list with all its sources or not at all.
SourcesInv == \A g \in Graphs : ToSet(list) \cap g # {} => Sources(g) \subseteq ToSet(list)

\* Nothing that is reached gets lost between the agenda, the filters put off
\* and those that have run.
CoverInv == tpc = "visit" =>
  /\ \A f \in done : Runs(f)
  /\ ToSet(list) \subseteq Seen
  /\ \A l \in Links : l[1] \in done => l[2] \in Seen

\* A filter whose inputs have all run is not left among those put off: it is
\* visited again.
ReadyInv == tpc = "visit" =>
  \A f \in Filters : Runs(f) /\ filter_can_process(f) => f \in done \cup ToSet(agenda)

\* Without loops nothing is forced, so the filters run in the order of their
\* links and a packet only waits in front of one that has not run yet.
OrderInv == tpc = "visit" => \A g \in Graphs : NoLoop(g) =>
  /\ force /\ ToSet(list) \cap g # {} => g \subseteq done
  /\ \A l \in Links : l[1] \in g /\ l[2] \in done => l[1] \in done
  /\ \A l \in Links : l[1] \in g /\ queue[l] > 0 => l[1] \in done /\ l[2] \notin done

TickInv == /\ TickerInv /\ SourcesInv /\ CoverInv /\ ReadyInv /\ OrderInv
           /\ NothingIsLeft

\* An order of a set of filters has all of its elements.
LEMMA OrdersComplete ==
  ASSUME NEW S, S \subseteq Filters, NEW s \in Orders(S)
  PROVE  ToSet(s) = S
  <1>1. IsFiniteSet(S) /\ Cardinality(S) \in Nat
    BY TickerAssumption, FS_Subset, FS_CardinalityType
  <1>2. s \in [1..Cardinality(S) -> S] /\ DOMAIN s = 1..Cardinality(S)
    BY DEF Orders
  <1>3. s \in Injection(1..Cardinality(S), S)
    BY <1>2 DEF Orders, Injection, IsInjective
  <1>4. Cardinality(1..Cardinality(S)) = Cardinality(S)
    BY <1>1, FS_Interval
  <1>5. s \in Surjection(1..Cardinality(S), S)
    BY <1>1, <1>3, <1>4, FS_Injection
  <1>6. QED
    BY <1>2, <1>5 DEF Surjection, ToSet

\* The ends of a link are in one graph.
LEMMA LinkInGraph ==
  ASSUME NEW l \in Links, NEW g \in Graphs
  PROVE  l[1] \in g <=> l[2] \in g
  <1>1. PICK f \in Filters : g = Neighbours(f)
    BY DEF Graphs
  <1>2. QED
    BY <1>1, NeighboursClosed DEF Closed

\* The graph of a filter is run if it is in the list.
LEMMA RunsGraph ==
  ASSUME NEW g \in Graphs, NEW f \in g
  PROVE  Runs(f) <=> ToSet(list) \cap g # {}
  BY GraphIsNeighbours DEF Runs

\* After process of f a packet can only wait on an output of f, or where one
\* waited before and that is not an input of f.
LEMMA ProcessQueue ==
  ASSUME queue \in [Links -> 0..MaxQueue], NEW f \in Filters, call_process(f),
         NEW l \in Links, queue'[l] > 0
  PROVE  l[1] = f \/ (queue[l] > 0 /\ l[2] # f)
  <1> DEFINE ins  == {k \in Inputs(f) : queue[k] > 0}
             outs == {k \in Links : k[1] = f /\ queue[k] < MaxQueue}
  <1>1. CASE ins = {} /\ ~IsSource(f)
    <2>1. queue' = queue
      BY <1>1 DEF call_process
    <2>2. l \notin ins
      BY <1>1
    <2>3. QED
      BY <2>1, <2>2 DEF Inputs
  <1>2. CASE ~(ins = {} /\ ~IsSource(f))
    <2>1. PICK puts \in SUBSET outs :
            queue' = [k \in Links |-> IF k \in ins THEN IF k \in puts THEN 1 ELSE 0
                                      ELSE IF k \in puts THEN queue[k] + 1
                                      ELSE queue[k]]
      BY <1>2 DEF call_process
    <2>2. CASE l \in puts
      BY <2>2
    <2>3. CASE l \notin puts
      <3>1. l \notin ins /\ queue'[l] = queue[l]
        BY <2>1, <2>3
      <3>2. QED
        BY <3>1 DEF Inputs
    <2>4. QED
      BY <2>2, <2>3
  <1>3. QED
    BY <1>1, <1>2

\* In a graph without loops no filter feeds itself.
LEMMA NoSelfLink ==
  ASSUME NEW g \in Graphs, NoLoop(g), NEW l \in Links, l[1] \in g
  PROVE  l[1] # l[2]
  <1>1. SUFFICES ASSUME l[1] = l[2] PROVE FALSE
    OBVIOUS
  <1>2. {l[1]} \in SUBSET g /\ {l[1]} # {}
    OBVIOUS
  <1>3. \A k \in Inputs(l[1]) : k[1] \notin {l[1]}
    BY <1>2 DEF NoLoop
  <1>4. l \in Inputs(l[1])
    BY <1>1 DEF Inputs
  <1>5. QED
    BY <1>3, <1>4

\* When the agenda is empty a graph without loops has run completely.
LEMMA AgendaEmpty ==
  ASSUME TickInv, tpc = "visit", agenda = <<>>,
         NEW g \in Graphs, NoLoop(g), ToSet(list) \cap g # {}
  PROVE  g \subseteq done
  <1>1. SUFFICES ASSUME g \ done # {} PROVE FALSE
    OBVIOUS
  <1>2. PICK f \in g \ done : \A l \in Inputs(f) : l[1] \notin g \ done
    BY <1>1 DEF NoLoop
  <1>3. f \in Filters /\ g \subseteq Filters
    BY <1>2, GraphIsNeighbours
  <1>4. filter_can_process(f)
    BY <1>2, LinkInGraph DEF filter_can_process, Inputs
  <1>5. Runs(f)
    BY <1>2, RunsGraph
  <1>6. ToSet(agenda) = {}
    BY DEF ToSet
  <1>7. QED
    BY <1>2, <1>3, <1>4, <1>5, <1>6 DEF TickInv, ReadyInv

\* Steps that do not touch what the tick works on.
LEMMA TickUntouched ==
  ASSUME TickInv, TickerInv', UNCHANGED <<tpc, list, done, tickVars>>
  PROVE  TickInv'
  <1>1. UNCHANGED <<tpc, list, done, agenda, unsched, force, queue>>
    BY DEF tickVars
  <1>2. SourcesInv'
    BY <1>1 DEF TickInv, SourcesInv, ToSet
  <1>3. CoverInv'
    BY <1>1 DEF TickInv, CoverInv, Runs, Seen, ToSet
  <1>4. ReadyInv'
    BY <1>1 DEF TickInv, ReadyInv, Runs, ToSet, filter_can_process
  <1>5. OrderInv' /\ NothingIsLeft'
    BY <1>1 DEF TickInv, OrderInv, NothingIsLeft, LockFree, ToSet
  <1>6. QED
    BY <1>2, <1>3, <1>4, <1>5 DEF TickInv

LEMMA TickStartStep ==
  ASSUME TickInv, TickerInv', TickStart
  PROVE  TickInv'
  <1>1. UNCHANGED <<list, queue>> /\ tpc = "lock"
    BY DEF TickStart
  <1>2. SourcesInv'
    BY <1>1 DEF TickInv, SourcesInv, ToSet
  <1>3. CASE run
    <2>1. tpc' = "visit" /\ agenda' = list /\ unsched' = <<>> /\ force' = FALSE /\ done' = {}
      BY <1>3 DEF TickStart
    <2>2. ToSet(agenda)' = ToSet(list) /\ ToSet(list)' = ToSet(list)
      BY <1>1, <2>1 DEF ToSet
    <2>3. CoverInv'
      BY <2>1, <2>2 DEF CoverInv, Seen
    <2>4. ReadyInv'
      <3>1. SUFFICES ASSUME NEW f \in Filters, Runs(f)', filter_can_process(f)'
                     PROVE  f \in ToSet(list)
        BY <2>2 DEF ReadyInv
      <3>2. Inputs(f) = {}
        BY <2>1, <3>1 DEF filter_can_process
      <3>3. Neighbours(f) \in Graphs /\ f \in Neighbours(f)
        BY OwnNeighbour DEF Graphs
      <3>4. ToSet(list) \cap Neighbours(f) # {}
        BY <2>2, <3>1 DEF Runs
      <3>5. f \in Sources(Neighbours(f))
        BY <3>2, <3>3 DEF Sources, IsSource
      <3>6. QED
        BY <3>3, <3>4, <3>5 DEF TickInv, SourcesInv
    <2>5. OrderInv'
      BY <1>1, <2>1 DEF TickInv, OrderInv, NothingIsLeft, LockFree, TickerInv, TypeOK
    <2>6. NothingIsLeft'
      BY <2>1 DEF NothingIsLeft, LockFree
    <2>7. QED
      BY <1>2, <2>3, <2>4, <2>5, <2>6 DEF TickInv
  <1>4. CASE ~run
    <2>1. tpc' = "exited"
      BY <1>4 DEF TickStart
    <2>2. NothingIsLeft'
      BY <1>1, <2>1 DEF TickInv, NothingIsLeft, LockFree
    <2>3. QED
      BY <1>2, <2>1, <2>2 DEF TickInv, CoverInv, ReadyInv, OrderInv
  <1>5. QED
    BY <1>3, <1>4

LEMMA RunUnschedulableStep ==
  ASSUME TickInv, TickerInv', RunUnschedulable
  PROVE  TickInv'
  <1>1. /\ tpc = "visit" /\ tpc' = "visit" /\ agenda = <<>>
        /\ agenda' = unsched /\ unsched' = <<>> /\ force'
        /\ UNCHANGED <<list, done, queue>>
    BY DEF RunUnschedulable
  <1>2. /\ ToSet(agenda) = {} /\ ToSet(agenda)' = ToSet(unsched)
        /\ ToSet(unsched)' = {} /\ ToSet(list)' = ToSet(list)
    BY <1>1 DEF ToSet
  <1>3. Seen' = Seen /\ \A f : Runs(f)' = Runs(f)
    BY <1>1, <1>2 DEF Seen, Runs
  <1>4. SourcesInv' /\ CoverInv' /\ NothingIsLeft'
    BY <1>1, <1>2, <1>3 DEF TickInv, SourcesInv, CoverInv, NothingIsLeft, LockFree
  <1>5. ReadyInv'
    BY <1>1, <1>2, <1>3 DEF TickInv, ReadyInv, filter_can_process
  <1>6. OrderInv'
    <2>1. ASSUME NEW g \in Graphs, NoLoop(g), ToSet(list) \cap g # {}
          PROVE  g \subseteq done
      BY <1>1, <2>1, AgendaEmpty
    <2>2. QED
      BY <1>1, <1>2, <2>1 DEF TickInv, OrderInv
  <1>7. QED
    BY <1>4, <1>5, <1>6 DEF TickInv

LEMMA TickEndStep ==
  ASSUME TickInv, TickerInv', TickEnd
  PROVE  TickInv'
  <1>1. /\ tpc = "visit" /\ tpc' = "lock" /\ agenda = <<>>
        /\ UNCHANGED <<list, queue>>
    BY DEF TickEnd, tickVars
  <1>2. SourcesInv'
    BY <1>1 DEF TickInv, SourcesInv, ToSet
  <1>3. NothingIsLeft'
    <2>1. SUFFICES ASSUME NEW g \in Graphs, NoLoop(g), NEW l \in Links, l[1] \in g
                   PROVE  queue[l] = 0
      BY <1>1 DEF NothingIsLeft
    <2>2. SUFFICES ASSUME queue[l] > 0 PROVE FALSE
      <3>1. queue[l] \in Nat
        BY TickerAssumption DEF TickInv, TickerInv, TypeOK
      <3>2. QED
        BY <2>2, <3>1
    <2>3. l[1] \in done /\ l[2] \notin done
      BY <1>1, <2>1, <2>2 DEF TickInv, OrderInv
    <2>4. ToSet(list) \cap g # {}
      BY <1>1, <2>1, <2>3, RunsGraph DEF TickInv, CoverInv
    <2>5. g \subseteq done
      BY <1>1, <2>1, <2>4, AgendaEmpty
    <2>6. QED
      BY <2>1, <2>3, <2>5, LinkInGraph
  <1>4. QED
    BY <1>1, <1>2, <1>3 DEF TickInv, CoverInv, ReadyInv, OrderInv

\* Preparing a filter makes it look as if it had not run; the graphs that are
\* being run have been prepared.
LEMMA PreprocessStep ==
  ASSUME TickInv, TickerInv', NEW g \in Graphs, Preprocess(g)
  PROVE  TickInv'
  <1>1. PICK f \in todo[g] : /\ apc[g] = "preprocess"
                             /\ done' = done \ {f}
                             /\ UNCHANGED <<tpc, list, agenda, unsched, force, queue>>
    BY DEF Preprocess, tickVars
  <1>2. f \in g
    BY <1>1 DEF TickInv, TickerInv, PrepInv
  <1>3. ToSet(list) \cap g = {}
    BY <1>1 DEF TickInv, TickerInv, ListInv
  <1>4. CASE tpc # "visit"
    BY <1>1, <1>4 DEF TickInv, SourcesInv, CoverInv, ReadyInv, OrderInv,
                      NothingIsLeft, LockFree, ToSet
  <1>5. CASE tpc = "visit"
    <2>1. f \notin done
      BY <1>2, <1>3, <1>5, RunsGraph DEF TickInv, CoverInv
    <2>2. done' = done
      BY <1>1, <2>1
    <2>3. QED
      BY <1>1, <2>2, TickUntouched DEF tickVars
  <1>6. QED
    BY <1>4, <1>5

LEMMA ListStep ==
  ASSUME TickInv, TickerInv', NEW g \in Graphs, AttachSources(g) \/ Detach(g)
  PROVE  TickInv'
  <1>1. tpc # "visit" /\ UNCHANGED <<tpc, queue>>
    BY DEF AttachSources, Detach, LockFree, tickVars
  <1>2. ASSUME AttachSources(g) PROVE SourcesInv'
    <2>1. PICK srcs \in Orders(Sources(g)) : list' = list \o srcs
      BY <1>2 DEF AttachSources
    <2>2. Sources(g) \subseteq g /\ g \subseteq Filters
      BY GraphIsNeighbours DEF Sources
    <2>3. srcs \in Seq(Filters) /\ ToSet(srcs) = Sources(g)
      BY <2>2, OrdersType, OrdersComplete
    <2>4. ToSet(list)' = ToSet(list) \cup Sources(g)
      <3>1. ToSet(list') = ToSet(list) \cup ToSet(srcs)
        BY <2>1, <2>3, ToSetConcat DEF TickInv, TickerInv, TypeOK
      <3>2. QED
        BY <2>3, <3>1 DEF ToSet
    <2>5. ASSUME NEW h \in Graphs, ToSet(list)' \cap h # {}
          PROVE  Sources(h) \subseteq ToSet(list)'
      <3>1. CASE h = g
        BY <2>4, <3>1
      <3>2. CASE h # g
        <4>1. g \cap h = {}
          BY <3>2, GraphsDisjoint
        <4>2. ToSet(list) \cap h # {}
          BY <2>2, <2>4, <2>5, <4>1
        <4>3. QED
          BY <2>4, <4>2 DEF TickInv, SourcesInv
      <3>3. QED
        BY <3>1, <3>2
    <2>6. QED
      BY <2>5 DEF SourcesInv
  <1>3. ASSUME Detach(g) PROVE SourcesInv'
    <2>1. PICK l \in Orders(Rest(g)) : list' = l
      BY <1>3 DEF Detach
    <2>2. Rest(g) \subseteq Filters
      BY DEF Rest, ToSet, TickInv, TickerInv, TypeOK
    <2>3. ToSet(list)' = ToSet(list) \ Sources(g)
      <3>1. ToSet(list') = ToSet(list) \ Sources(g)
        BY <2>1, <2>2, OrdersComplete DEF Rest
      <3>2. QED
        BY <3>1 DEF ToSet
    <2>4. ASSUME NEW h \in Graphs, ToSet(list)' \cap h # {}
          PROVE  Sources(h) \subseteq ToSet(list)'
      <3>1. CASE h = g
        BY <2>3, <2>4, <3>1 DEF TickInv, TickerInv, ListInv, Sources
      <3>2. CASE h # g
        <4>1. g \cap h = {}
          BY <3>2, GraphsDisjoint
        <4>2. QED
          BY <2>3, <2>4, <4>1 DEF TickInv, SourcesInv, Sources
      <3>3. QED
        BY <3>1, <3>2
    <2>5. QED
      BY <2>4 DEF SourcesInv
  <1>4. SourcesInv'
    BY <1>2, <1>3
  <1>5. NothingIsLeft'
    BY <1>1 DEF TickInv, NothingIsLeft, LockFree
  <1>6. QED
    BY <1>1, <1>4, <1>5 DEF TickInv, CoverInv, ReadyInv, OrderInv

\* A step of the run over the graphs.
LEMMA VisitStep ==
  ASSUME TickInv, TickerInv', Visit
  PROVE  TickInv'
  <1> DEFINE f == Head(agenda)
  <1>1. /\ tpc = "visit" /\ agenda # <<>>
        /\ UNCHANGED <<tpc, list, force>>
    BY DEF Visit
  <1>2. /\ agenda \in Seq(Filters) /\ unsched \in Seq(Filters) /\ done \subseteq Filters
        /\ queue \in [Links -> 0..MaxQueue]
    BY DEF TickInv, TickerInv, TypeOK
  <1>3. /\ f \in Filters /\ f \in ToSet(agenda) /\ Tail(agenda) \in Seq(Filters)
        /\ ToSet(agenda) = {f} \cup ToSet(Tail(agenda))
    <2>1. /\ f \in Filters /\ f \in ToSet(agenda) /\ Tail(agenda) \in Seq(Filters)
          /\ ToSet(Tail(agenda)) \subseteq ToSet(agenda)
      BY <1>1, <1>2, HeadTail
    <2>2. ASSUME NEW i \in DOMAIN agenda PROVE agenda[i] \in {f} \cup ToSet(Tail(agenda))
      <3>1. CASE i = 1
        BY <1>2, <3>1
      <3>2. CASE i # 1
        <4>1. i - 1 \in DOMAIN Tail(agenda) /\ Tail(agenda)[i - 1] = agenda[i]
          BY <1>1, <1>2, <3>2
        <4>2. QED
          BY <4>1 DEF ToSet
      <3>3. QED
        BY <3>1, <3>2
    <2>3. QED
      BY <2>1, <2>2 DEF ToSet
  <1>4. Neighbours(f) \in Graphs /\ f \in Neighbours(f) /\ Runs(f)
    BY <1>1, <1>3, OwnNeighbour DEF TickInv, TickerInv, VisitInv, Runs, Graphs
  <1>5. ToSet(list)' = ToSet(list) /\ \A h : Runs(h)' = Runs(h)
    BY <1>1 DEF ToSet, Runs
  <1>6. SourcesInv' /\ NothingIsLeft'
    BY <1>1, <1>5 DEF TickInv, SourcesInv, NothingIsLeft, LockFree
  <1> HIDE DEF f
  <1>7. ASSUME agenda' = Tail(agenda), unsched' = unsched, done' = done,
               queue' = queue, f \in done
        PROVE  CoverInv' /\ ReadyInv' /\ OrderInv'
    <2>1. ToSet(agenda)' = ToSet(Tail(agenda)) /\ ToSet(unsched)' = ToSet(unsched)
      BY <1>7 DEF ToSet
    <2>2. Seen' = Seen
      BY <1>3, <1>7, <2>1 DEF Seen
    <2>3. QED
      BY <1>1, <1>3, <1>5, <1>7, <2>1, <2>2
         DEF TickInv, CoverInv, ReadyInv, OrderInv, filter_can_process
  <1>8. ASSUME agenda' = Tail(agenda), unsched' = <<f>> \o unsched, done' = done,
               queue' = queue, ~filter_can_process(f)
        PROVE  CoverInv' /\ ReadyInv' /\ OrderInv'
    <2>1. ToSet(agenda)' = ToSet(Tail(agenda)) /\ ToSet(unsched)' = {f} \cup ToSet(unsched)
      <3>1. <<f>> \in Seq(Filters) /\ ToSet(<<f>>) = {f}
        BY <1>3 DEF ToSet
      <3>2. ToSet(<<f>> \o unsched) = {f} \cup ToSet(unsched)
        BY <1>2, <3>1, ToSetConcat
      <3>3. QED
        BY <1>8, <3>2 DEF ToSet
    <2>2. Seen' = Seen
      BY <1>3, <1>8, <2>1 DEF Seen
    <2>3. QED
      BY <1>1, <1>3, <1>5, <1>8, <2>1, <2>2
         DEF TickInv, CoverInv, ReadyInv, OrderInv, filter_can_process
  <1>9. ASSUME agenda' = Outputs[f] \o Tail(agenda), unsched' = unsched,
               done' = done \cup {f}, call_process(f), f \notin done,
               filter_can_process(f) \/ force
        PROVE  CoverInv' /\ ReadyInv' /\ OrderInv'
    <2>1. /\ ToSet(agenda)' = ToSet(Outputs[f]) \cup ToSet(Tail(agenda))
          /\ ToSet(unsched)' = ToSet(unsched)
      <3>1. Outputs[f] \in Seq(Filters)
        BY <1>3, OutputsNeighbours
      <3>2. ToSet(Outputs[f] \o Tail(agenda)) = ToSet(Outputs[f]) \cup ToSet(Tail(agenda))
        BY <1>3, <3>1, ToSetConcat
      <3>3. QED
        BY <1>9, <3>2 DEF ToSet
    <2>2. \A l \in Links : l[1] = f => l[2] \in ToSet(Outputs[f])
      BY DEF Links, ToSet
    <2>3. Seen' = Seen \cup ToSet(Outputs[f])
      BY <1>3, <1>9, <2>1 DEF Seen
    <2>4. CoverInv'
      BY <1>1, <1>4, <1>5, <1>9, <2>2, <2>3 DEF TickInv, CoverInv
    <2>5. ReadyInv'
      <3>1. SUFFICES ASSUME NEW h \in Filters, Runs(h), filter_can_process(h)'
                     PROVE  h \in (done \cup ToSet(agenda))'
        BY <1>5 DEF ReadyInv
      <3>2. CASE filter_can_process(h)
        BY <1>1, <1>3, <1>9, <2>1, <3>1, <3>2 DEF TickInv, ReadyInv
      <3>3. CASE ~filter_can_process(h)
        <4>1. PICK l \in Inputs(h) : l[1] \notin done /\ l[1] \in done'
          BY <3>1, <3>3 DEF filter_can_process
        <4>2. l \in Links /\ l[1] = f /\ l[2] = h
          BY <1>9, <4>1 DEF Inputs
        <4>3. QED
          BY <2>1, <2>2, <4>2
      <3>4. QED
        BY <3>2, <3>3
    <2>6. OrderInv'
      <3>1. SUFFICES ASSUME NEW g \in Graphs, NoLoop(g)
                     PROVE  /\ force /\ ToSet(list) \cap g # {} => g \subseteq done'
                            /\ \A l \in Links : l[1] \in g /\ l[2] \in done' => l[1] \in done'
                            /\ \A l \in Links : l[1] \in g /\ queue'[l] > 0
                                                  => l[1] \in done' /\ l[2] \notin done'
        BY <1>1, <1>5 DEF OrderInv
      <3>2. /\ force /\ ToSet(list) \cap g # {} => g \subseteq done
            /\ \A l \in Links : l[1] \in g /\ l[2] \in done => l[1] \in done
            /\ \A l \in Links : l[1] \in g /\ queue[l] > 0 => l[1] \in done /\ l[2] \notin done
        BY <1>1, <3>1 DEF TickInv, OrderInv
      <3>3. f \in g => filter_can_process(f)
        BY <1>4, <1>9, <3>2, RunsGraph
      <3>4. ASSUME NEW l \in Links, l[1] \in g, l[2] \in done'
            PROVE  l[1] \in done'
        <4>1. CASE l[2] \in done
          BY <1>9, <3>2, <3>4, <4>1
        <4>2. CASE l[2] = f
          <5>1. filter_can_process(f)
            BY <3>3, <3>4, <4>2, LinkInGraph
          <5>2. l \in Inputs(f)
            BY <4>2 DEF Inputs
          <5>3. QED
            BY <1>9, <5>1, <5>2 DEF filter_can_process
        <4>3. QED
          BY <1>9, <3>4, <4>1, <4>2
      <3>5. ASSUME NEW l \in Links, l[1] \in g, queue'[l] > 0
            PROVE  l[1] \in done' /\ l[2] \notin done'
        <4>1. CASE l[1] = f
          <5>1. l[2] # f
            BY <3>1, <3>5, <4>1, NoSelfLink
          <5>2. l[2] \notin done
            BY <1>9, <3>2, <3>5, <4>1
          <5>3. QED
            BY <1>9, <4>1, <5>1, <5>2
        <4>2. CASE queue[l] > 0 /\ l[2] # f
          BY <1>9, <3>2, <3>5, <4>2
        <4>3. QED
          BY <1>2, <1>3, <1>9, <3>5, <4>1, <4>2, ProcessQueue
      <3>6. QED
        BY <1>9, <3>2, <3>4, <3>5
    <2>7. QED
      BY <2>4, <2>5, <2>6
  <1>10. \/ /\ agenda' = Tail(agenda) /\ unsched' = unsched /\ done' = done
            /\ queue' = queue /\ f \in done
         \/ /\ agenda' = Tail(agenda) /\ unsched' = <<f>> \o unsched /\ done' = done
            /\ queue' = queue /\ ~filter_can_process(f)
         \/ /\ agenda' = Outputs[f] \o Tail(agenda) /\ unsched' = unsched
            /\ done' = done \cup {f} /\ call_process(f) /\ f \notin done
            /\ (filter_can_process(f) \/ force)
    BY DEF Visit, Unschedulable, f
  <1>11. CoverInv' /\ ReadyInv' /\ OrderInv'
    BY <1>7, <1>8, <1>9, <1>10
  <1>12. QED
    BY <1>6, <1>11 DEF TickInv

LEMMA TickInvStep == TickInv /\ [Next]_vars => TickInv'
  <1> SUFFICES ASSUME TickInv, [Next]_vars PROVE TickInv'
    OBVIOUS
  <1>1. TickerInv'
    BY TickerInvStep DEF TickInv
  <1>2. CASE TickerNext
    BY <1>1, <1>2, TickStartStep, VisitStep, RunUnschedulableStep, TickEndStep DEF TickerNext
  <1>3. CASE Stop \/ UNCHANGED vars
    BY <1>1, <1>3, TickUntouched DEF Stop, vars
  <1>4. ASSUME NEW g \in Graphs, AppNext(g) PROVE TickInv'
    <2>1. CASE Attach(g) \/ Postprocess(g)
      BY <1>1, <2>1, TickUntouched DEF Attach, Postprocess
    <2>2. CASE Preprocess(g)
      BY <1>1, <2>2, PreprocessStep
    <2>3. CASE AttachSources(g) \/ Detach(g)
      BY <1>1, <2>3, ListStep
    <2>4. QED
      BY <1>4, <2>1, <2>2, <2>3 DEF AppNext
  <1>5. QED
    BY <1>2, <1>3, <1>4 DEF Next

LEMMA TickInvInit == Init => TickInv
  <1> SUFFICES ASSUME Init PROVE TickInv
    OBVIOUS
  <1>1. ToSet(list) = {} /\ tpc = "lock"
    BY DEF Init, ToSet
  <1>2. NothingIsLeft
    BY DEF Init, NothingIsLeft
  <1>3. QED
    BY <1>1, <1>2, TickerInvInit DEF TickInv, SourcesInv, CoverInv, ReadyInv, OrderInv

\* A tick runs every filter that is reached from the sources of the attached
\* graphs, whatever loops there are (run_graphs and its list of filters that
\* were visited too early).
THEOREM EveryFilterRuns == Spec => []TickRunsAll
  <1>1. TickInv => TickRunsAll
    <2>1. SUFFICES ASSUME TickInv, TickOver
                   PROVE  Downstream(ToSet(list)) \subseteq done
      BY DEF TickRunsAll
    <2>2. Seen = done /\ tpc = "visit"
      BY <2>1 DEF TickOver, Seen, ToSet
    <2>3. ToSet(list) \subseteq done /\ \A l \in Links : l[1] \in done => l[2] \in done
      BY <2>1, <2>2 DEF TickInv, CoverInv
    <2>4. done \in SUBSET Filters
      BY <2>1 DEF TickInv, TickerInv, TypeOK
    <2>5. QED
      BY <2>3, <2>4 DEF Downstream
  <1>2. QED
    BY <1>1, TickInvInit, TickInvStep, PTL DEF Spec

\* Outside a tick no packet waits in a graph without loops: a graph that is
\* detached and attached again does not start with old packets.
THEOREM QueuesRunEmpty == Spec => []NothingIsLeft
  <1>1. TickInv => NothingIsLeft
    BY DEF TickInv
  <1>2. QED
    BY <1>1, TickInvInit, TickInvStep, PTL DEF Spec
=============================================================================
