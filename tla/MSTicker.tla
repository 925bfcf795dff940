------------------------------ MODULE MSTicker ------------------------------
(***************************************************************************)
(* A ticker (mediastreamer/msticker.c) and the filter graphs               *)
(* (mediastreamer/msfilter.c) it runs: at every tick its thread calls the  *)
(* process method of each filter of the graphs that are attached, sources  *)
(* first, while other threads attach and detach graphs.                    *)
(*                                                                         *)
(* The thread holds the ticker's lock during a tick.  ms_ticker_attach and *)
(* ms_ticker_detach hold it only while they change the execution list:     *)
(* preprocess and postprocess of the filters run outside.                  *)
(***************************************************************************)
EXTENDS Integers, Sequences, FiniteSets

CONSTANTS
  Filters,      \* the filters, all graphs together
  Outputs,      \* Outputs[f]: the filters f's output pins lead to, in order
  MaxQueue      \* bound: packets on a link

Links == {l \in Filters \X Filters : l[2] \in {Outputs[l[1]][i] : i \in DOMAIN Outputs[l[1]]}}
Inputs(f) == {l \in Links : l[2] = f}
IsSource(f) == Inputs(f) = {}           \* desc->ninputs is 0

\* ms_filter_find_neighbours: the filters connected to f, in both directions.
Closed(S) == \A l \in Links : l[1] \in S <=> l[2] \in S
Neighbours(f) == {g \in Filters : \A S \in SUBSET Filters : f \in S /\ Closed(S) => g \in S}
Sources(g) == {f \in g : IsSource(f)}
Graphs == {Neighbours(f) : f \in Filters}

\* The sequences of all the elements of S.
Orders(S) == {s \in [1..Cardinality(S) -> S] :
                \A i, j \in DOMAIN s : i # j => s[i] # s[j]}
ToSet(s) == {s[i] : i \in DOMAIN s}

ASSUME TickerAssumption ==
  /\ IsFiniteSet(Filters)
  /\ Outputs \in [Filters -> Seq(Filters)]
  /\ MaxQueue \in Nat \ {0}
  /\ \A g \in Graphs : Sources(g) # {}

VARIABLES
  run,        \* ticker->run
  tpc,        \* control of the ticker thread
  list,       \* execution_list: the sources of the attached graphs
  agenda,     \* run_graph: filters it has still to visit, depth first
  unsched,    \* filters visited too early ("unschedulable")
  force,      \* force_schedule
  done,       \* filters with last_tick = ticks
  queue,      \* queue[l]: number of packets on link l
  attached,   \* filters with ticker # NULL
  apc,        \* apc[g]: control of the thread that attaches and detaches g
  todo        \* todo[g]: filters it has still to preprocess or postprocess

tickVars == <<agenda, unsched, force, queue>>
appVars  == <<attached, apc, todo>>
vars     == <<run, tpc, list, done, tickVars, appVars>>

\* Mutant of LockFree: the application does not take the lock.
NoLock == TRUE

LockFree == tpc # "visit"     \* the other holders release it in the same step
-----------------------------------------------------------------------------
(***************************************************************************)
(* The ticker thread.                                                      *)
(***************************************************************************)
\* The top of the loop of ms_ticker_run: ticks++ makes every last_tick old.
TickStart ==
  /\ tpc = "lock"
  /\ IF run THEN /\ tpc' = "visit" /\ agenda' = list
                 /\ unsched' = <<>> /\ force' = FALSE /\ done' = {}
            ELSE /\ tpc' = "exited"
                 /\ UNCHANGED <<agenda, unsched, force, done>>
  /\ UNCHANGED <<run, list, queue, appVars>>

\* Mutant of filter_can_process: a filter does not wait for the others.
filter_can_process_always(f) == TRUE

filter_can_process(f) == \A l \in Inputs(f) : l[1] \in done

\* call_process: a source runs once, the others until their inputs are empty.
\* Every run may put a packet on each output.
call_process(f) ==
  LET ins  == {l \in Inputs(f) : queue[l] > 0}
      outs == {l \in Links : l[1] = f /\ queue[l] < MaxQueue}
  IN  IF ins = {} /\ ~IsSource(f) THEN queue' = queue
      ELSE \E puts \in SUBSET outs :
             queue' = [l \in Links |-> IF l \in ins THEN IF l \in puts THEN 1 ELSE 0
                                       ELSE IF l \in puts THEN queue[l] + 1
                                       ELSE queue[l]]

\* Mutant of Unschedulable: the filter is forgotten.
UnschedulableLost(f) == unsched

\* A filter that cannot be processed is put in front of the list.
Unschedulable(f) == <<f>> \o unsched

\* run_graph on the next filter; it calls itself on the outputs in their order.
Visit == LET f == Head(agenda) IN
  /\ tpc = "visit" /\ agenda # <<>>
  /\ IF f \in done
     THEN agenda' = Tail(agenda) /\ UNCHANGED <<queue, done, unsched>>
     ELSE IF filter_can_process(f) \/ force
     THEN /\ done' = done \cup {f}
          /\ call_process(f)
          /\ agenda' = Outputs[f] \o Tail(agenda)
          /\ unsched' = unsched
     ELSE /\ agenda' = Tail(agenda)
          /\ unsched' = Unschedulable(f)
          /\ UNCHANGED <<queue, done>>
  /\ UNCHANGED <<run, tpc, list, force, appVars>>

\* Mutant of RunUnschedulable: the list is not emptied.
RunUnschedulableAgain ==
  /\ tpc = "visit" /\ agenda = <<>> /\ unsched # <<>>
  /\ agenda' = unsched /\ unsched' = unsched /\ force' = TRUE
  /\ UNCHANGED <<run, tpc, list, done, queue, appVars>>

\* The recursive call of run_graphs on the unschedulable filters.
RunUnschedulable ==
  /\ tpc = "visit" /\ agenda = <<>> /\ unsched # <<>>
  /\ agenda' = unsched /\ unsched' = <<>> /\ force' = TRUE
  /\ UNCHANGED <<run, tpc, list, done, queue, appVars>>

\* run_graphs has returned: unlock, sleep until the next tick.
TickEnd ==
  /\ tpc = "visit" /\ agenda = <<>> /\ unsched = <<>>
  /\ tpc' = "lock"
  /\ UNCHANGED <<run, list, done, tickVars, appVars>>

TickerNext == TickStart \/ Visit \/ RunUnschedulable \/ TickEnd
-----------------------------------------------------------------------------
(***************************************************************************)
(* The application: one thread per graph, which may name any filter of it. *)
(***************************************************************************)
\* ms_ticker_attach: nothing to do if the filter is being scheduled.
Attach(g) == \E f \in g :
  /\ apc[g] = "idle" /\ f \notin attached
  /\ apc' = [apc EXCEPT ![g] = "preprocess"]
  /\ todo' = [todo EXCEPT ![g] = Neighbours(f)]
  /\ UNCHANGED <<run, tpc, list, done, tickVars, attached>>

\* ms_filter_preprocess on the next filter: last_tick = 0, ticker is set.
Preprocess(g) == \E f \in todo[g] :
  /\ apc[g] = "preprocess"
  /\ done' = done \ {f}
  /\ attached' = attached \cup {f}
  /\ todo' = [todo EXCEPT ![g] = @ \ {f}]
  /\ UNCHANGED <<run, tpc, list, tickVars, apc>>

\* Mutant of AttachSources: ms_list_append for ms_list_concat.
AttachSourcesAppended(g) == \E srcs \in Orders(Sources(g)) :
  /\ apc[g] = "preprocess" /\ todo[g] = {} /\ LockFree
  /\ list' = Append(list, srcs)
  /\ apc' = [apc EXCEPT ![g] = "idle"]
  /\ UNCHANGED <<run, tpc, done, tickVars, attached, todo>>

\* Lock, append the sources (in the order find_neighbours met them), unlock.
AttachSources(g) == \E srcs \in Orders(Sources(g)) :
  /\ apc[g] = "preprocess" /\ todo[g] = {} /\ LockFree
  /\ list' = list \o srcs
  /\ apc' = [apc EXCEPT ![g] = "idle"]
  /\ UNCHANGED <<run, tpc, done, tickVars, attached, todo>>

\* Mutant of Rest: one of the sources is not taken off.
RestButOne(g) == ToSet(list) \ {CHOOSE f \in g : IsSource(f)}

Rest(g) == ToSet(list) \ Sources(g)

\* ms_ticker_detach: lock, find the sources and take them off, unlock.  The
\* others stay in their order.
Detach(g) == \E f \in g, l \in Orders(Rest(g)) :
  /\ apc[g] = "idle" /\ f \in attached /\ LockFree
  /\ \A i, j \in DOMAIN l : i < j =>
       \E m, n \in DOMAIN list : m < n /\ list[m] = l[i] /\ list[n] = l[j]
  /\ list' = l
  /\ todo' = [todo EXCEPT ![g] = Neighbours(f)]
  /\ apc' = [apc EXCEPT ![g] = "postprocess"]
  /\ UNCHANGED <<run, tpc, done, tickVars, attached>>

\* ms_filter_postprocess on the next filter: its ticker is NULL again.
Postprocess(g) == \E f \in todo[g] :
  /\ apc[g] = "postprocess"
  /\ attached' = attached \ {f}
  /\ todo' = [todo EXCEPT ![g] = @ \ {f}]
  /\ apc' = [apc EXCEPT ![g] = IF todo'[g] = {} THEN "idle" ELSE @]
  /\ UNCHANGED <<run, tpc, list, done, tickVars>>

\* ms_ticker_stop; ms_ticker_destroy then joins the thread.
Stop ==
  /\ run /\ LockFree
  /\ run' = FALSE
  /\ UNCHANGED <<tpc, list, done, tickVars, appVars>>

AppNext(g) == Attach(g) \/ Preprocess(g) \/ AttachSources(g) \/ Detach(g)
                \/ Postprocess(g)
-----------------------------------------------------------------------------
\* ms_ticker_new
Init ==
  /\ run = TRUE /\ tpc = "lock" /\ list = <<>>
  /\ agenda = <<>> /\ unsched = <<>> /\ force = FALSE /\ done = {}
  /\ queue = [l \in Links |-> 0]
  /\ attached = {} /\ apc = [g \in Graphs |-> "idle"]
  /\ todo = [g \in Graphs |-> {}]

Next == TickerNext \/ Stop \/ \E g \in Graphs : AppNext(g)

Spec == Init /\ [][Next]_vars

\* A thread that has begun to attach or detach gets on; the lock is free
\* again and again, and a thread that waits for it gets it at last.
Fairness ==
  /\ WF_vars(TickerNext)
  /\ \A g \in Graphs : /\ WF_vars(Preprocess(g)) /\ WF_vars(Postprocess(g))
                       /\ SF_vars(AttachSources(g))
FairSpec == Spec /\ Fairness
-----------------------------------------------------------------------------
(***************************************************************************)
(* Properties                                                              *)
(***************************************************************************)
TypeOK ==
  /\ run \in BOOLEAN /\ tpc \in {"lock", "visit", "exited"}
  /\ list \in Seq(Filters) /\ agenda \in Seq(Filters) /\ unsched \in Seq(Filters)
  /\ force \in BOOLEAN /\ done \subseteq Filters
  /\ queue \in [Links -> 0..MaxQueue]
  /\ attached \subseteq Filters
  /\ apc \in [Graphs -> {"idle", "preprocess", "postprocess"}]
  /\ todo \in [Graphs -> SUBSET Filters]

\* The thread only ever calls process on filters between their preprocess and
\* their postprocess, although these run without the lock.
ProcessesAttached ==
  [][\A f \in Filters : tpc = "visit" /\ f \in done' \ done =>
        f \in attached /\ f \in attached']_vars

\* Filters that are reached from the sources of the attached graphs.
Downstream(S) == {f \in Filters : \A T \in SUBSET Filters :
                    (S \subseteq T /\ \A l \in Links : l[1] \in T => l[2] \in T) => f \in T}

TickOver == tpc = "visit" /\ agenda = <<>> /\ unsched = <<>>

\* A tick runs every filter of the attached graphs, those of a loop included
\* ("we resolve this by simply assuming that they must be called anyway").
TickRunsAll == TickOver => Downstream(ToSet(list)) \subseteq done

\* Every set of filters of g has one that no filter of the set feeds.
NoLoop(g) == \A S \in SUBSET g : S # {} =>
               \E f \in S : \A l \in Inputs(f) : l[1] \notin S

\* What a source emits goes all the way down in the same tick: outside a tick
\* there is no packet on any link of a graph without loops, so a graph that
\* is detached and attached again does not start with old packets.
NothingIsLeft == LockFree =>
  \A g \in {h \in Graphs : NoLoop(h)} : \A l \in Links : l[1] \in g => queue[l] = 0

\* A graph that stays attached runs again and again, until the ticker stops.
GraphsRun ==
  \A g \in Graphs : <>[](run /\ ToSet(list) \cap Sources(g) # {})
                      => []<>(g \subseteq done)

\* Every tick ends, loops or not: those who wait for the lock (attach, detach,
\* ms_ticker_stop) find it free again.
TicksEnd == tpc = "visit" ~> LockFree
=============================================================================
