-------------------------- MODULE IceChecksProofs ---------------------------
(***************************************************************************)
(* Theorems about IceChecks, for any addresses, networks and tables of     *)
(* pairs, any number of losses, of overtaken messages, of early timers and *)
(* of restarts.                                                            *)
(***************************************************************************)
EXTENDS IceChecks, NaturalsInduction, FiniteSetTheorems, SequenceTheorems, TLAPS

-----------------------------------------------------------------------------
(***************************************************************************)
(* Types.                                                                  *)
(***************************************************************************)
\* What an agent may have to send, and its check list while it works.
Outs == {<<>>} \cup {<<o>> : o \in [to : Addrs, msg : Message]}

Working == [pairs : Seq(Pairs), index : Nat, controlled : BOOLEAN,
            tiebreak : Nat, dest : Addrs \cup {NoAddr}, started : Nat, switched : 0..2,
            out : Outs, send : Nat]

IceTypes ==
  /\ scene \in Scene
  /\ agent \in [Agents -> CheckList]
  /\ inq \in [Agents -> Seq(Message)]
  /\ \A a \in Agents : \A m \in ToSet(inq[a]) : m.tid # 0

LEMMA OtherAgent ==
  ASSUME NEW a \in Agents
  PROVE  /\ Other(a) \in Agents /\ Other(a) # a /\ Other(Other(a)) = a
         /\ Agents = {a, Other(a)}
<1>1. IsFiniteSet(Agents) /\ Cardinality(Agents) = 2
  BY IceAssumption DEF IceAssumption
<1>2. IsFiniteSet(Agents \ {a}) /\ Cardinality(Agents \ {a}) = 1
  BY <1>1, FS_RemoveElement
<1>3. PICK b : Agents \ {a} = {b}
  BY <1>2, FS_Singleton
<1>4. Agents = {a, b} /\ b # a
  BY <1>3
<1>5. Other(a) = b /\ Other(b) = a
  BY <1>4 DEF Other
<1>. QED  BY <1>4, <1>5

LEMMA FirstIsLeast ==
  ASSUME NEW S \in SUBSET (Nat \ {0})
  PROVE  /\ First(S) \in Nat
         /\ First(S) = 0 <=> S = {}
         /\ S # {} => First(S) \in S /\ \A y \in S : First(S) =< y
<1>1. CASE S = {}
  BY <1>1 DEF First
<1>2. CASE S # {}
  <2>. DEFINE Less == {p \in Nat \X Nat : p[1] < p[2]}
  <2>0. \A i, j \in Nat : <<i, j>> \in Less <=> i < j
    OBVIOUS
  <2>1. IsWellFoundedOn(Less, Nat)
    BY NatLessThanWellFounded DEF OpToRel
  <2>. HIDE DEF Less
  <2>2. S \in SUBSET Nat
    OBVIOUS
  <2>3. \E n \in S : \A k \in S : ~(<<k, n>> \in Less)
    BY <1>2, <2>1, <2>2, WFMin, Zenon
  <2>4. PICK n \in S : \A k \in S : ~(<<k, n>> \in Less)
    BY <2>3
  <2>5. ASSUME NEW y \in S  PROVE n =< y
    <3>1. y \in Nat /\ n \in Nat /\ ~(y < n)
      BY <2>0, <2>2, <2>4
    <3>. QED  BY <3>1
  <2>6. Min(S) \in S /\ \A y \in S : Min(S) =< y
    BY <2>5 DEF Min
  <2>. QED  BY <1>2, <2>6 DEF First
<1>. QED  BY <1>1, <1>2

LEMMA LesserOfTwo ==
  ASSUME NEW x \in Nat, NEW y \in Nat
  PROVE  Min({x, y}) = IF x =< y THEN x ELSE y
<1>1. ASSUME x =< y  PROVE Min({x, y}) = x
  BY <1>1 DEF Min
<1>2. ASSUME ~(x =< y)  PROVE Min({x, y}) = y
  BY <1>2 DEF Min
<1>. QED  BY <1>1, <1>2

LEMMA ElementInserted ==
  ASSUME NEW s \in Seq(Pairs), NEW x \in Pairs, NEW i \in 1..Len(s)
  PROVE  /\ InsertAt(s, i, x) \in Seq(Pairs) /\ Len(InsertAt(s, i, x)) = Len(s) + 1
         /\ \A j \in 1..Len(s) + 1 :
              InsertAt(s, i, x)[j] = IF j < i THEN s[j] ELSE IF j = i THEN x ELSE s[j - 1]
<1>. DEFINE u == SubSeq(s, 1, i - 1)
            v == SubSeq(s, i, Len(s))
            w == u \o <<x>>
            r == w \o v
<1>1. u \in Seq(Pairs) /\ Len(u) = i - 1 /\ \A j \in 1..i - 1 : u[j] = s[j]
  OBVIOUS
<1>2. /\ v \in Seq(Pairs) /\ Len(v) = Len(s) - i + 1
      /\ \A j \in 1..Len(s) - i + 1 : v[j] = s[i + j - 1]
  OBVIOUS
<1>. HIDE DEF u, v
<1>3. w \in Seq(Pairs) /\ Len(w) = i /\ \A j \in 1..i : w[j] = IF j < i THEN s[j] ELSE x
  BY <1>1
<1>. HIDE DEF w
<1>4. r \in Seq(Pairs) /\ Len(r) = Len(s) + 1
  <2>1. r \in Seq(Pairs) /\ Len(r) = Len(w) + Len(v)
    BY <1>2, <1>3, ConcatProperties
  <2>2. i + (Len(s) - i + 1) = Len(s) + 1
    OBVIOUS
  <2>. QED  BY <1>2, <1>3, <2>1, <2>2
<1>5. ASSUME NEW j \in 1..Len(s) + 1
      PROVE  r[j] = IF j < i THEN s[j] ELSE IF j = i THEN x ELSE s[j - 1]
  <2>1. r[j] = IF j =< i THEN w[j] ELSE v[j - i]
    BY <1>2, <1>3
  <2>2. CASE j =< i
    BY <1>3, <2>1, <2>2
  <2>3. CASE j > i
    <3>1. j - i \in 1..Len(s) - i + 1 /\ i + (j - i) - 1 = j - 1
      BY <2>3
    <3>2. v[j - i] = s[i + (j - i) - 1]
      BY <1>2, <3>1
    <3>3. ~(j =< i) /\ ~(j < i) /\ j # i
      BY <2>3
    <3>. QED  BY <2>1, <3>1, <3>2, <3>3
  <2>4. j =< i \/ j > i
    OBVIOUS
  <2>. QED  BY <2>4, <2>2, <2>3
<1>6. InsertAt(s, i, x) = r
  BY DEF InsertAt, u, v, w
<1>. HIDE DEF r
<1>. QED  BY <1>4, <1>5, <1>6
-----------------------------------------------------------------------------
(***************************************************************************)
(* What the operators do to a check list.  A row p comes from a row q when *)
(* the message m is handled: its addresses are the same, it goes with the  *)
(* same check, or with none, and it succeeds only if m proves it.          *)
(***************************************************************************)
Proves(m, p, q) ==
  /\ m.kind = "success" /\ q.tid = m.tid
  /\ m.mapped = p.local.addr /\ m.src = p.remote.addr

From(p, q, m) ==
  /\ p.local = q.local /\ p.remote = q.remote /\ p.controlled = q.controlled
  /\ p.tid = q.tid \/ p.tid = 0
  /\ q.nominated => p.nominated
  /\ p.state = "succeeded" => q.state = "succeeded" \/ Proves(m, p, q)
  /\ p.state = "progress" => q.state = "progress" /\ p.tid = q.tid

\* The rows of d come from those of c, one by one.
Kept(c, d, m) ==
  /\ Len(d.pairs) = Len(c.pairs) /\ d.index = c.index
  /\ \A i \in 1..Len(c.pairs) : From(d.pairs[i], c.pairs[i], m)

LEMMA WorkingUpdate ==
  ASSUME NEW c \in Working, NEW ps \in Seq(Pairs), NEW n \in Nat, NEW b \in BOOLEAN,
         NEW s \in 0..2, NEW x \in Addrs \cup {NoAddr}, NEW o \in Outs, NEW k \in Nat, NEW d,
         d = [c EXCEPT !.pairs = ps, !.index = n, !.controlled = b, !.switched = s,
                       !.dest = x, !.out = o, !.send = k]
  PROVE  /\ d \in Working
         /\ d.pairs = ps /\ d.index = n /\ d.controlled = b /\ d.switched = s
         /\ d.dest = x /\ d.out = o /\ d.send = k
         /\ d.tiebreak = c.tiebreak /\ d.started = c.started
BY DEF Working

\* One row was put in, and perhaps one was pushed out at the end.
Inserted(c, d) ==
  \E i \in 1..Len(c.pairs), p \in Pairs :
    /\ p.state = "waiting" /\ p.tid = 0
    /\ Len(d.pairs) = IF Len(c.pairs) < MaxPairs THEN Len(c.pairs) + 1 ELSE MaxPairs
    /\ \A j \in 1..Len(d.pairs) :
         d.pairs[j] = IF j < i THEN c.pairs[j] ELSE IF j = i THEN p ELSE c.pairs[j - 1]
    /\ d.index = IF c.index >= i THEN c.index + 1 ELSE c.index

Grown(c, d) == \/ d.pairs = c.pairs /\ d.index = c.index
               \/ Inserted(c, d)

\* Everything but the rows and the index.
Rest(c) == <<c.controlled, c.tiebreak, c.started, c.switched, c.send>>

LEMMA ResetRows ==
  ASSUME NEW ps \in Seq(Pairs), NEW m
  PROVE  /\ Reset(ps) \in Seq(Pairs) /\ Len(Reset(ps)) = Len(ps)
         /\ \A i \in 1..Len(ps) :
              /\ From(Reset(ps)[i], ps[i], m)
              /\ Reset(ps)[i].tid = 0 \/ ps[i].state = "pruned"
<1>1. DOMAIN ps = 1..Len(ps) /\ \A i \in 1..Len(ps) : ps[i] \in Pairs
  OBVIOUS
<1>2. \A i \in 1..Len(ps) : Reset(ps)[i] \in Pairs
  BY <1>1 DEF Reset, Pairs, States
<1>3. Reset(ps) = [i \in 1..Len(ps) |-> Reset(ps)[i]]
  BY <1>1 DEF Reset
<1>4. Reset(ps) \in Seq(Pairs) /\ Len(Reset(ps)) = Len(ps)
  BY <1>2, <1>3
<1>5. \A i \in 1..Len(ps) :
        /\ From(Reset(ps)[i], ps[i], m)
        /\ Reset(ps)[i].tid = 0 \/ ps[i].state = "pruned"
  BY <1>1 DEF Reset, From, Pairs
<1>. QED  BY <1>4, <1>5

LEMMA SwitchRows ==
  ASSUME NEW c \in Working, NEW b \in BOOLEAN, NEW m
  PROVE  LET d == SwitchTo(c, b) IN
         /\ d \in Working /\ Kept(c, d, m) /\ d.pairs = Reset(c.pairs)
         /\ d.controlled = b /\ d.switched = IF c.switched = 0 THEN 1 ELSE 2
         /\ d.tiebreak = c.tiebreak /\ d.started = c.started /\ d.send = c.send
         /\ d.dest = c.dest /\ d.out = c.out
<1>. DEFINE d == SwitchTo(c, b)
<1>1. c.pairs \in Seq(Pairs) /\ c.switched \in 0..2
  BY DEF Working
<1>2. d = [c EXCEPT !.controlled = b, !.pairs = Reset(c.pairs),
                    !.switched = Min({c.switched + 1, 2})]
  BY DEF SwitchTo
<1>3. Min({c.switched + 1, 2}) = IF c.switched = 0 THEN 1 ELSE 2
  BY <1>1, LesserOfTwo
<1>4. d \in Working /\ d.pairs = Reset(c.pairs)
  <2>1. Reset(c.pairs) \in Seq(Pairs)
    BY <1>1, ResetRows, Zenon
  <2>2. Min({c.switched + 1, 2}) \in 0..2
    BY <1>1, <1>3
  <2>. HIDE DEF d
  <2>. QED  BY <1>2, <2>1, <2>2 DEF Working
<1>5. Kept(c, d, m)
  BY <1>1, <1>2, <1>4, ResetRows DEF Kept, Working
<1>. QED  BY <1>2, <1>3, <1>4, <1>5 DEF Working

\* d is c after something is done to its rows, without new ones or with one.
KeptBy(c, d, m) == d \in Working /\ Kept(c, d, m) /\ Rest(d) = Rest(c) /\ d.out = c.out

GrownBy(c, d, m) ==
  /\ d \in Working /\ Rest(d) = Rest(c) /\ d.out = c.out
  /\ \E e \in Working : Kept(c, e, m) /\ Grown(e, d)

LEMMA KeptKept ==
  ASSUME NEW c, NEW e, NEW d, NEW m, m.tid # 0
  PROVE  /\ Kept(c, e, m) /\ Kept(e, d, m) => Kept(c, d, m)
         /\ KeptBy(c, e, m) /\ KeptBy(e, d, m) => KeptBy(c, d, m)
<1>1. Kept(c, e, m) /\ Kept(e, d, m) => Kept(c, d, m)
  BY DEF Kept, From, Proves
<1>. QED  BY <1>1 DEF KeptBy

LEMMA KeptSame ==
  ASSUME NEW c, NEW m
  PROVE  Kept(c, c, m) /\ (c \in Working => KeptBy(c, c, m))
BY DEF Kept, From, KeptBy

LEMMA KeptIsGrown ==
  ASSUME NEW c, NEW d, NEW m, KeptBy(c, d, m)
  PROVE  GrownBy(c, d, m)
BY DEF KeptBy, GrownBy, Grown

LEMMA KeptThenGrown ==
  ASSUME NEW c, NEW e, NEW d, NEW m, m.tid # 0
  PROVE  KeptBy(c, e, m) /\ GrownBy(e, d, m) => GrownBy(c, d, m)
<1>. SUFFICES ASSUME KeptBy(c, e, m), GrownBy(e, d, m)  PROVE GrownBy(c, d, m)
  OBVIOUS
<1>1. PICK f \in Working : Kept(e, f, m) /\ Grown(f, d)
  BY DEF GrownBy
<1>2. Kept(c, f, m)
  BY <1>1, KeptKept DEF KeptBy
<1>. QED  BY <1>1, <1>2 DEF KeptBy, GrownBy

\* One row changes, and perhaps the address the session sends to.
With(c, i, q, x) == [c EXCEPT !.pairs = [c.pairs EXCEPT ![i] = q], !.dest = x]

LEMMA RowUpdate ==
  ASSUME NEW c \in Working, NEW i \in 1..Len(c.pairs), NEW q \in Pairs, NEW m,
         From(q, c.pairs[i], m), NEW x \in Addrs \cup {NoAddr}
  PROVE  KeptBy(c, With(c, i, q, x), m)
<1>. DEFINE d == With(c, i, q, x)
            ps == c.pairs
            qs == [c.pairs EXCEPT ![i] = q]
<1>1. ps \in Seq(Pairs) /\ i \in 1..Len(ps) /\ qs = [ps EXCEPT ![i] = q]
  BY DEF Working
<1>. HIDE DEF ps, qs
<1>2. /\ qs \in Seq(Pairs) /\ Len(qs) = Len(ps)
      /\ \A j \in 1..Len(ps) : qs[j] = IF j = i THEN q ELSE ps[j]
  BY <1>1
<1>3. d = [c EXCEPT !.pairs = qs, !.dest = x]
  BY DEF qs, With
<1>. HIDE DEF d
<1>4. d \in Working /\ Rest(d) = Rest(c) /\ d.out = c.out /\ d.pairs = qs /\ d.index = c.index
  BY <1>2, <1>3 DEF Working, Rest
<1>5. \A j \in 1..Len(ps) : From(ps[j], ps[j], m)
  BY DEF From
<1>6. From(q, ps[i], m)
  BY DEF ps
<1>7. \A j \in 1..Len(ps) : From(qs[j], ps[j], m)
  BY <1>2, <1>5, <1>6
<1>8. Kept(c, d, m)
  BY <1>2, <1>4, <1>7 DEF Kept, ps
<1>. QED  BY <1>4, <1>8 DEF d, KeptBy
-----------------------------------------------------------------------------
(***************************************************************************)
(* Handle, one kind of message after the other.                            *)
(***************************************************************************)
LEMMA FirstRow ==
  ASSUME NEW ps \in Seq(Pairs), NEW S \in SUBSET DOMAIN ps
  PROVE  /\ First(S) = 0 <=> S = {}
         /\ First(S) # 0 => First(S) \in S /\ First(S) \in 1..Len(ps)
<1>1. S \in SUBSET (Nat \ {0}) /\ S \subseteq 1..Len(ps)
  OBVIOUS
<1>. QED  BY <1>1, FirstIsLeast, Zenon

LEMMA RowTypes ==
  ASSUME NEW c \in Working, NEW i \in 1..Len(c.pairs)
  PROVE  /\ c.pairs[i] \in Pairs
         /\ c.pairs[i].local \in Candidates /\ c.pairs[i].remote \in Candidates
         /\ c.pairs[i].local.addr \in Addrs /\ c.pairs[i].remote.addr \in Addrs
         /\ c.pairs[i].nominated \in BOOLEAN /\ c.pairs[i].controlled \in BOOLEAN
         /\ c.pairs[i].tid \in Nat /\ c.pairs[i].state \in States
<1>1. c.pairs[i] \in Pairs
  BY DEF Working
<1>. QED  BY <1>1 DEF Pairs, Candidates

LEMMA NewPairType ==
  ASSUME NEW l \in Candidates, NEW r \in Candidates, NEW b \in BOOLEAN
  PROVE  /\ NewPair(l, r, b) \in Pairs
         /\ NewPair(l, r, b).state = "waiting" /\ NewPair(l, r, b).tid = 0
BY DEF NewPair, Pairs, States

LEMMA InsertRows ==
  ASSUME NEW c \in Working, NEW p \in Pairs, p.state = "waiting", p.tid = 0, NEW m
  PROVE  GrownBy(c, Insert(c, p), m)
<1>. DEFINE S == {j \in DOMAIN c.pairs : /\ j < MaxPairs
                    /\ PairPriority(c.controlled, p) > PairPriority(c.controlled, c.pairs[j])}
            i == First(S)
            d == Insert(c, p)
            n == IF Len(c.pairs) < MaxPairs THEN Len(c.pairs) + 1 ELSE MaxPairs
            r == InsertAt(c.pairs, i, p)
            qs == SubSeq(r, 1, n)
<1>1. c.pairs \in Seq(Pairs) /\ Len(c.pairs) \in Nat /\ MaxPairs \in Nat \ {0}
  BY IceAssumption DEF Working, IceAssumption
<1>2. S \in SUBSET (Nat \ {0}) /\ S \subseteq 1..Len(c.pairs)
  BY <1>1
<1>3. i \in Nat /\ (i # 0 => i \in 1..Len(c.pairs) /\ i < MaxPairs)
  BY <1>2, FirstIsLeast, Zenon
<1>4. CASE i = 0
  BY <1>4, KeptSame, KeptIsGrown DEF Insert
<1>5. CASE i # 0
  <2>1. Min({Len(c.pairs) + 1, MaxPairs}) = n
    BY <1>1, LesserOfTwo
  <2>2. d = [c EXCEPT !.pairs = qs, !.index = IF @ >= i THEN @ + 1 ELSE @]
    BY <1>5, <2>1 DEF Insert
  <2>. HIDE DEF S, i, d
  <2>3. /\ r \in Seq(Pairs) /\ Len(r) = Len(c.pairs) + 1
        /\ \A j \in 1..Len(c.pairs) + 1 :
             r[j] = IF j < i THEN c.pairs[j] ELSE IF j = i THEN p ELSE c.pairs[j - 1]
    <3>1. i \in 1..Len(c.pairs)
      BY <1>3, <1>5
    <3>. DEFINE cs == c.pairs
    <3>2. cs \in Seq(Pairs) /\ i \in 1..Len(cs) /\ p \in Pairs
      BY <1>1, <3>1
    <3>. DEFINE Rows(s, x, k) ==
           /\ InsertAt(s, k, x) \in Seq(Pairs) /\ Len(InsertAt(s, k, x)) = Len(s) + 1
           /\ \A j \in 1..Len(s) + 1 :
                InsertAt(s, k, x)[j] = IF j < k THEN s[j] ELSE IF j = k THEN x ELSE s[j - 1]
    <3>3. \A s \in Seq(Pairs), x \in Pairs : \A k \in 1..Len(s) : Rows(s, x, k)
      BY ElementInserted, Zenon
    <3>. HIDE DEF cs, Rows
    <3>4. Rows(cs, p, i)
      BY <3>2, <3>3, Zenon
    <3>. QED  BY <3>4 DEF cs, Rows, r
  <2>. HIDE DEF r
  <2>4. n \in 1..Len(c.pairs) + 1
    BY <1>1, <1>3, <1>5
  <2>5. /\ qs \in Seq(Pairs) /\ Len(qs) = n
        /\ \A j \in 1..n : qs[j] = r[j]
    BY <2>3, <2>4
  <2>. HIDE DEF qs, n
  <2>6. d \in Working /\ d.pairs = qs /\ d.index = (IF c.index >= i THEN c.index + 1 ELSE c.index)
        /\ Rest(d) = Rest(c) /\ d.dest = c.dest /\ d.out = c.out
    <3>. DEFINE k == IF c.index >= i THEN c.index + 1 ELSE c.index
    <3>1. k \in Nat
      BY <1>3 DEF Working
    <3>2. d = [c EXCEPT !.pairs = qs, !.index = k]
      BY <2>2
    <3>. HIDE DEF k
    <3>3. d \in Working /\ d.pairs = qs /\ d.index = k
      BY <2>5, <3>1, <3>2 DEF Working
    <3>4. Rest(d) = Rest(c) /\ d.dest = c.dest /\ d.out = c.out
      BY <3>2 DEF Working, Rest
    <3>. QED  BY <3>3, <3>4 DEF k
  <2>7. Inserted(c, d)
    <3>1. i \in 1..Len(c.pairs)
      BY <1>3, <1>5
    <3>2. \A j \in 1..Len(d.pairs) :
            d.pairs[j] = IF j < i THEN c.pairs[j] ELSE IF j = i THEN p ELSE c.pairs[j - 1]
      BY <2>3, <2>4, <2>5, <2>6
    <3>3. Len(d.pairs) = IF Len(c.pairs) < MaxPairs THEN Len(c.pairs) + 1 ELSE MaxPairs
      BY <2>5, <2>6 DEF n
    <3>. QED  BY <3>1, <3>2, <3>3, <2>6 DEF Inserted
  <2>. QED  BY <2>6, <2>7, KeptSame DEF GrownBy, Grown, d
<1>. QED  BY <1>4, <1>5

LEMMA TriggeredRows ==
  ASSUME NEW c \in Working, NEW m \in Message
  PROVE  GrownBy(c, Triggered(c, m), m)
<1>. DEFINE S == {j \in DOMAIN c.pairs : c.pairs[j].remote.addr = m.src}
            i == First(S)
            p == c.pairs[i]
            use == m.use /\ ~c.controlled
            prfx == [addr |-> m.src, type |-> "prflx", base |-> m.src, prio |-> Prio("prflx")]
            new == NewPair(c.pairs[1].local, prfx, use)
            d == Triggered(c, m)
<1>1. c.pairs \in Seq(Pairs) /\ m.src \in Addrs /\ use \in BOOLEAN /\ c.dest \in Addrs \cup {NoAddr}
  BY DEF Working, Message
<1>2. S \in SUBSET DOMAIN c.pairs
  OBVIOUS
<1>3. i # 0 => i \in 1..Len(c.pairs)
  BY <1>1, <1>2, FirstRow, Zenon
<1>4. CASE i = 0
  <2>1. d = Insert(c, new)
    BY <1>4 DEF Triggered
  <2>2. CASE c.pairs = <<>>
    <3>1. {j \in DOMAIN c.pairs : /\ j < MaxPairs
                    /\ PairPriority(c.controlled, new) > PairPriority(c.controlled, c.pairs[j])} = {}
      BY <2>2
    <3>2. d = c
      BY <2>1, <3>1 DEF Insert, First
    <3>. QED  BY <3>2, KeptSame, KeptIsGrown
  <2>3. CASE c.pairs # <<>>
    <3>1. 1 \in 1..Len(c.pairs)
      BY <1>1, <2>3
    <3>2. prfx \in Candidates
      BY <1>1 DEF Candidates, Types, Prio
    <3>3. new \in Pairs /\ new.state = "waiting" /\ new.tid = 0
      BY <1>1, <3>1, <3>2, RowTypes, NewPairType
    <3>. HIDE DEF new
    <3>. QED  BY <2>1, <3>3, InsertRows
  <2>. QED  BY <2>2, <2>3
<1>5. CASE i # 0 /\ p.state \in {"frozen", "progress", "failed"}
  <2>. DEFINE q == [p EXCEPT !.state = "waiting", !.nominated = @ \/ use]
  <2>1. p \in Pairs
    BY <1>3, <1>5, RowTypes
  <2>2. q \in Pairs /\ From(q, p, m)
    BY <1>1, <2>1 DEF Pairs, States, From
  <2>3. d = [c EXCEPT !.pairs[i] = q]
    BY <1>5 DEF Triggered
  <2>. HIDE DEF i, q
  <2>4. d = With(c, i, q, c.dest)
    BY <2>3 DEF Working, With
  <2>. QED  BY <1>1, <1>3, <1>5, <2>2, <2>4, RowUpdate, KeptIsGrown
<1>6. CASE i # 0 /\ p.state = "succeeded" /\ use
  <2>. DEFINE q == [p EXCEPT !.nominated = TRUE]
  <2>1. p \in Pairs
    BY <1>3, <1>6, RowTypes
  <2>2. q \in Pairs /\ From(q, p, m)
    BY <1>1, <2>1 DEF Pairs, States, From
  <2>3. d = [c EXCEPT !.pairs[i].nominated = TRUE, !.dest = m.src]
    BY <1>6 DEF Triggered
  <2>. HIDE DEF i
  <2>4. d = With(c, i, q, m.src)
    BY <2>3 DEF Working, With
  <2>. HIDE DEF q
  <2>. QED  BY <1>1, <1>3, <1>6, <2>2, <2>4, RowUpdate, KeptIsGrown
<1>7. CASE i # 0 /\ ~(p.state \in {"frozen", "progress", "failed"}) /\ ~(p.state = "succeeded" /\ use)
  <2>1. d = c
    BY <1>7 DEF Triggered
  <2>. QED  BY <2>1, KeptSame, KeptIsGrown
<1>. QED  BY <1>4, <1>5, <1>6, <1>7

LEMMA SuccessRows ==
  ASSUME NEW c \in Working, NEW m \in Message, m.kind = "success", m.tid # 0
  PROVE  GrownBy(c, Success(c, m), m)
<1>. DEFINE S == {j \in DOMAIN c.pairs : c.pairs[j].tid = m.tid}
            i == First(S)
            p == c.pairs[i]
            K == {j \in DOMAIN c.pairs : /\ c.pairs[j].local.addr = m.mapped
                                         /\ c.pairs[j].remote.addr = p.remote.addr}
            k == First(K)
            to(s) == [c EXCEPT !.pairs[i].state = s,
                               !.dest = IF p.nominated THEN m.src ELSE @]
            prfx == [addr |-> m.mapped, type |-> "prflx", base |-> p.local.addr, prio |-> 0]
            far == [p.remote EXCEPT !.prio = Prio("prflx")]
            new == NewPair(prfx, far, FALSE)
            x == IF p.nominated THEN m.src ELSE c.dest
            q(s) == [p EXCEPT !.state = s]
            d == Success(c, m)
<1>1. /\ c.pairs \in Seq(Pairs) /\ m.src \in Addrs /\ m.mapped \in Addrs
      /\ c.dest \in Addrs \cup {NoAddr} /\ x \in Addrs \cup {NoAddr}
  BY DEF Working, Message
<1>2. S \in SUBSET DOMAIN c.pairs /\ K \in SUBSET DOMAIN c.pairs
  OBVIOUS
<1>3. i # 0 => i \in S /\ i \in 1..Len(c.pairs)
  BY <1>1, <1>2, FirstRow, Zenon
<1>4. k # 0 => k \in 1..Len(c.pairs)
  BY <1>1, <1>2, FirstRow, Zenon
<1>5. CASE i = 0
  BY <1>5, KeptSame, KeptIsGrown DEF Success
<1>6. CASE i # 0
  <2>1. /\ p \in Pairs /\ p.tid = m.tid /\ p.local.addr \in Addrs /\ p.remote \in Candidates
    BY <1>3, <1>6, RowTypes
  <2>2. ASSUME NEW s \in {"failed", "succeeded"}, s = "failed" \/ (Confirmed(p, m) /\ m.src = p.remote.addr)
        PROVE  KeptBy(c, to(s), m)
    <3>1. q(s) \in Pairs
      BY <2>1, <2>2 DEF Pairs, States
    <3>2. From(q(s), p, m)
      BY <2>1, <2>2 DEF Pairs, From, Proves, Confirmed
    <3>. HIDE DEF i, x
    <3>3. to(s) = With(c, i, q(s), x)
      BY DEF With, x
    <3>. HIDE DEF q, to
    <3>. QED  BY <1>1, <1>3, <1>6, <3>1, <3>2, <3>3, RowUpdate
  <2>3. CASE m.src # p.remote.addr
    <3>1. q("failed") \in Pairs
      BY <2>1 DEF Pairs, States
    <3>2. From(q("failed"), p, m)
      BY <2>1 DEF Pairs, From
    <3>3. d = [c EXCEPT !.pairs[i].state = "failed"]
      BY <1>6, <2>3 DEF Success
    <3>. HIDE DEF i
    <3>4. d = With(c, i, q("failed"), c.dest)
      BY <3>3 DEF With, Working
    <3>. HIDE DEF q
    <3>. QED  BY <1>1, <1>3, <1>6, <3>1, <3>2, <3>4, RowUpdate, KeptIsGrown
  <2>4. CASE m.src = p.remote.addr /\ p.state = "succeeded"
    BY <1>6, <2>4, KeptSame, KeptIsGrown DEF Success
  <2>5. CASE m.src = p.remote.addr /\ p.state # "succeeded" /\ Confirmed(p, m)
    <3>1. d = to("succeeded")
      BY <1>6, <2>5 DEF Success
    <3>. HIDE DEF to, d, p
    <3>. QED  BY <2>2, <2>5, <3>1, KeptIsGrown DEF d
  <2>6. CASE m.src = p.remote.addr /\ p.state # "succeeded" /\ ~Confirmed(p, m)
    <3>1. KeptBy(c, to("failed"), m)
      BY <2>2
    <3>2. CASE k = 0
      <4>1. d = Insert(to("failed"), new)
        BY <1>6, <2>6, <3>2 DEF Success
      <4>2. prfx \in Candidates
        BY <1>1, <2>1 DEF Candidates, Types
      <4>3. far \in Candidates
        <5>1. Prio("prflx") = 2
          BY DEF Prio
        <5>2. \A r \in Candidates : [r EXCEPT !.prio = 2] \in Candidates
          BY DEF Candidates
        <5>. QED  BY <2>1, <5>1, <5>2
      <4>4. new \in Pairs /\ new.state = "waiting" /\ new.tid = 0
        BY <4>2, <4>3, NewPairType
      <4>. HIDE DEF new, to, d
      <4>5. to("failed") \in Working
        BY <3>1 DEF KeptBy
      <4>6. GrownBy(to("failed"), Insert(to("failed"), new), m)
        BY <4>4, <4>5, InsertRows
      <4>. QED  BY <3>1, <4>1, <4>6, KeptThenGrown DEF d
    <3>3. CASE k # 0 /\ c.pairs[k].state \in {"pruned", "frozen", "failed", "progress"}
      <4>. DEFINE e == to("failed")
                  r == [e.pairs[k] EXCEPT !.state = "waiting"]
      <4>1. d = [e EXCEPT !.pairs[k].state = "waiting"]
        BY <1>6, <2>6, <3>3 DEF Success
      <4>. HIDE DEF e, d, k
      <4>2. e \in Working /\ Len(e.pairs) = Len(c.pairs)
        BY <3>1 DEF KeptBy, Kept, e
      <4>3. k \in 1..Len(e.pairs)
        BY <1>4, <3>3, <4>2
      <4>4. e.pairs[k] \in Pairs
        BY <4>2, <4>3, RowTypes
      <4>5. r \in Pairs /\ From(r, e.pairs[k], m) /\ e.dest \in Addrs \cup {NoAddr}
        BY <4>2, <4>4 DEF Pairs, States, From, Working
      <4>6. d = With(e, k, r, e.dest)
        BY <4>1, <4>2 DEF With, Working
      <4>. HIDE DEF r
      <4>7. KeptBy(e, d, m)
        BY <4>2, <4>3, <4>5, <4>6, RowUpdate
      <4>. QED  BY <3>1, <4>7, KeptKept, KeptIsGrown DEF e, d
    <3>4. CASE k # 0 /\ ~(c.pairs[k].state \in {"pruned", "frozen", "failed", "progress"})
      <4>1. d = to("failed")
        BY <1>6, <2>6, <3>4 DEF Success
      <4>. HIDE DEF to, d
      <4>. QED  BY <3>1, <4>1, KeptIsGrown DEF d
    <3>. QED  BY <3>2, <3>3, <3>4
  <2>. QED  BY <2>3, <2>4, <2>5, <2>6
<1>. QED  BY <1>5, <1>6

\* The role of c is changed by m: it gives in, or m is the answer to a check.
Yielding(c, m) ==
  /\ m.kind = "request" /\ c.controlled = m.controlled
  /\ IF c.controlled THEN Wins(c, m) ELSE ~Wins(c, m)

Refused(c, m) == m.kind = "conflict" /\ \E i \in 1..Len(c.pairs) : c.pairs[i].tid = m.tid

PrunedUnchecked(c) == \A i \in 1..Len(c.pairs) : c.pairs[i].state = "pruned" => c.pairs[i].tid = 0
Unchecked(c) == \A i \in 1..Len(c.pairs) : c.pairs[i].tid = 0

\* What the agent sends in answer to m.
Reply(m, kind) ==
  [to |-> m.src, msg |-> [kind |-> kind, tid |-> m.tid, use |-> FALSE, controlled |-> FALSE,
                          tiebreak |-> 0, src |-> m.src, mapped |-> m.src]]

Handled(c, d, m) ==
  /\ d \in Working
  /\ d.tiebreak = c.tiebreak /\ d.started = c.started /\ d.send = c.send
  /\ \E e \in Working : Kept(c, e, m) /\ Grown(e, d)
  /\ IF Yielding(c, m) \/ Refused(c, m)
     THEN /\ d.switched = IF c.switched = 0 THEN 1 ELSE 2
          /\ PrunedUnchecked(c) => Unchecked(d)
     ELSE d.controlled = c.controlled /\ d.switched = c.switched
  /\ Yielding(c, m) => d.controlled = ~c.controlled
  /\ Refused(c, m) => \E i \in 1..Len(c.pairs) :
                        c.pairs[i].tid = m.tid /\ d.controlled = ~c.pairs[i].controlled
  /\ m.kind = "conflict" /\ ~Refused(c, m) => d = c

LEMMA GrownUnchecked ==
  ASSUME NEW c \in Working, NEW d \in Working, NEW m, GrownBy(c, d, m), Unchecked(c)
  PROVE  Unchecked(d)
<1>1. PICK e \in Working : Kept(c, e, m) /\ Grown(e, d)
  BY DEF GrownBy
<1>2. Len(e.pairs) \in Nat /\ Len(d.pairs) \in Nat
  BY DEF Working
<1>3. \A i \in 1..Len(e.pairs) : e.pairs[i].tid = 0
  BY <1>1 DEF Unchecked, Kept, From
<1>4. ASSUME NEW j \in 1..Len(d.pairs), Inserted(e, d)  PROVE d.pairs[j].tid = 0
  <2>1. PICK i \in 1..Len(e.pairs), p \in Pairs :
          /\ p.tid = 0
          /\ Len(d.pairs) = IF Len(e.pairs) < MaxPairs THEN Len(e.pairs) + 1 ELSE MaxPairs
          /\ d.pairs[j] = IF j < i THEN e.pairs[j] ELSE IF j = i THEN p ELSE e.pairs[j - 1]
    BY <1>4 DEF Inserted
  <2>2. Len(d.pairs) =< Len(e.pairs) + 1
    BY <1>2, <2>1, IceAssumption DEF IceAssumption
  <2>3. CASE j < i
    BY <1>2, <1>3, <2>1, <2>3
  <2>4. CASE j = i
    BY <2>1, <2>4
  <2>5. CASE j > i
    <3>1. j - 1 \in 1..Len(e.pairs) /\ d.pairs[j] = e.pairs[j - 1]
      BY <1>2, <2>1, <2>2, <2>5
    <3>. QED  BY <1>3, <3>1
  <2>. QED  BY <1>2, <2>3, <2>4, <2>5
<1>. QED  BY <1>1, <1>3, <1>4 DEF Grown, Unchecked

LEMMA SwitchUnchecked ==
  ASSUME NEW c \in Working, NEW b \in BOOLEAN, PrunedUnchecked(c)
  PROVE  Unchecked(SwitchTo(c, b))
<1>. DEFINE ps == c.pairs
            d == SwitchTo(c, b)
<1>1. ps \in Seq(Pairs)
  BY DEF Working
<1>2. d.pairs = Reset(ps)
  BY SwitchRows
<1>. HIDE DEF ps, d
<1>3. /\ Len(Reset(ps)) = Len(ps)
      /\ \A i \in 1..Len(ps) : From(Reset(ps)[i], ps[i], 0) /\ (Reset(ps)[i].tid = 0 \/ ps[i].state = "pruned")
  BY <1>1, ResetRows, Zenon
<1>4. \A i \in 1..Len(ps) : ps[i].state = "pruned" => ps[i].tid = 0
  BY DEF PrunedUnchecked, ps
<1>5. \A i \in 1..Len(ps) : Reset(ps)[i].tid = 0
  BY <1>3, <1>4 DEF From
<1>. QED  BY <1>2, <1>3, <1>5 DEF Unchecked, d

LEMMA AnswerRows ==
  ASSUME NEW c \in Working, NEW m \in Message, NEW kind \in {"success", "conflict"}
  PROVE  LET d == Answer(c, m, kind) IN
         /\ d \in Working /\ Rest(d) = Rest(c) /\ d.pairs = c.pairs /\ d.index = c.index
         /\ d.out = <<Reply(m, kind)>>
<1>. DEFINE d == Answer(c, m, kind)
            o == <<Reply(m, kind)>>
<1>1. Reply(m, kind) \in [to : Addrs, msg : Message]
  BY DEF Message, Reply
<1>2. o \in Outs
  BY <1>1 DEF Outs
<1>3. d = [c EXCEPT !.out = o]
  BY DEF Answer, Reply
<1>. HIDE DEF d, o
<1>4. /\ d \in Working /\ Rest(d) = Rest(c) /\ d.pairs = c.pairs /\ d.index = c.index
      /\ d.out = o
  BY <1>2, <1>3 DEF Working, Rest
<1>. QED  BY <1>4 DEF d, o

LEMMA AnswerRest ==
  ASSUME NEW c \in Working, NEW m \in Message, NEW kind \in {"success", "conflict"}
  PROVE  LET d == Answer(c, m, kind) IN
         /\ d.controlled = c.controlled /\ d.tiebreak = c.tiebreak /\ d.started = c.started
         /\ d.switched = c.switched /\ d.send = c.send
BY DEF Answer, Working

LEMMA GrownRest ==
  ASSUME NEW c, NEW d, NEW m, GrownBy(c, d, m)
  PROVE  /\ d \in Working /\ d.controlled = c.controlled /\ d.tiebreak = c.tiebreak
         /\ d.started = c.started /\ d.switched = c.switched /\ d.send = c.send
BY DEF GrownBy, Rest

LEMMA RequestHandled ==
  ASSUME NEW c \in Working, NEW m \in Message, m.kind = "request", m.tid # 0
  PROVE  /\ Handled(c, Request(c, m), m)
         /\ Request(c, m).out = <<Reply(m, IF c.controlled = m.controlled /\ ~Yielding(c, m)
                                           THEN "conflict" ELSE "success")>>
<1>. DEFINE d == Request(c, m)
            b == ~c.controlled
            s == SwitchTo(c, b)
<1>1. ~Refused(c, m) /\ b \in BOOLEAN
  BY DEF Refused
<1>2. CASE c.controlled = m.controlled /\ ~Yielding(c, m)
  <2>1. d = Answer(c, m, "conflict")
    BY <1>2 DEF Request, Yielding
  <2>2. d \in Working /\ d.pairs = c.pairs /\ d.index = c.index /\ d.out = <<Reply(m, "conflict")>>
    BY <2>1, AnswerRows
  <2>3. /\ d.controlled = c.controlled /\ d.tiebreak = c.tiebreak /\ d.started = c.started
        /\ d.switched = c.switched /\ d.send = c.send
    BY <2>1, AnswerRest
  <2>4. Kept(c, c, m) /\ Grown(c, d)
    BY <2>2, KeptSame DEF Grown
  <2>. HIDE DEF d
  <2>. QED  BY <1>1, <1>2, <2>2, <2>3, <2>4 DEF Handled, d
<1>3. CASE Yielding(c, m)
  <2>. DEFINE t == Triggered(s, m)
  <2>1. d = Answer(t, m, "success")
    BY <1>3 DEF Request, Yielding
  <2>2. /\ s \in Working /\ Kept(c, s, m)
        /\ s.controlled = b /\ s.switched = IF c.switched = 0 THEN 1 ELSE 2
        /\ s.tiebreak = c.tiebreak /\ s.started = c.started /\ s.send = c.send
    BY SwitchRows
  <2>3. PrunedUnchecked(c) => Unchecked(s)
    BY SwitchUnchecked
  <2>. HIDE DEF s, d
  <2>4. GrownBy(s, t, m)
    BY <2>2, TriggeredRows
  <2>. HIDE DEF t
  <2>5. /\ t \in Working /\ t.controlled = s.controlled /\ t.tiebreak = s.tiebreak
        /\ t.started = s.started /\ t.switched = s.switched /\ t.send = s.send
    BY <2>4, GrownRest
  <2>6. d \in Working /\ d.pairs = t.pairs /\ d.index = t.index /\ d.out = <<Reply(m, "success")>>
    BY <2>1, <2>5, AnswerRows
  <2>7. /\ d.controlled = t.controlled /\ d.tiebreak = t.tiebreak /\ d.started = t.started
        /\ d.switched = t.switched /\ d.send = t.send
    BY <2>1, <2>5, AnswerRest
  <2>8. \E e \in Working : Kept(c, e, m) /\ Grown(e, d)
    <3>1. PICK e \in Working : Kept(s, e, m) /\ Grown(e, t)
      BY <2>4 DEF GrownBy
    <3>2. Kept(c, e, m)
      BY <2>2, <3>1, KeptKept
    <3>3. Grown(e, d)
      BY <2>6, <3>1 DEF Grown, Inserted
    <3>. QED  BY <3>2, <3>3
  <2>9. PrunedUnchecked(c) => Unchecked(d)
    BY <2>2, <2>3, <2>4, <2>5, <2>6, GrownUnchecked DEF Unchecked
  <2>10. Handled(c, d, m)
    BY <1>1, <1>3, <2>2, <2>5, <2>6, <2>7, <2>8, <2>9 DEF Handled, Yielding
  <2>. QED  BY <1>3, <2>6, <2>10 DEF d
<1>4. CASE c.controlled # m.controlled
  <2>. DEFINE t == Triggered(c, m)
  <2>1. d = Answer(t, m, "success") /\ ~Yielding(c, m)
    BY <1>4 DEF Request, Yielding
  <2>. HIDE DEF d
  <2>2. GrownBy(c, t, m)
    BY TriggeredRows
  <2>. HIDE DEF t
  <2>3. /\ t \in Working /\ t.controlled = c.controlled /\ t.tiebreak = c.tiebreak
        /\ t.started = c.started /\ t.switched = c.switched /\ t.send = c.send
    BY <2>2, GrownRest
  <2>4. d \in Working /\ d.pairs = t.pairs /\ d.index = t.index /\ d.out = <<Reply(m, "success")>>
    BY <2>1, <2>3, AnswerRows
  <2>5. /\ d.controlled = t.controlled /\ d.tiebreak = t.tiebreak /\ d.started = t.started
        /\ d.switched = t.switched /\ d.send = t.send
    BY <2>1, <2>3, AnswerRest
  <2>6. \E e \in Working : Kept(c, e, m) /\ Grown(e, d)
    <3>1. PICK e \in Working : Kept(c, e, m) /\ Grown(e, t)
      BY <2>2 DEF GrownBy
    <3>2. Grown(e, d)
      BY <2>4, <3>1 DEF Grown, Inserted
    <3>. QED  BY <3>1, <3>2
  <2>7. Handled(c, d, m)
    BY <1>1, <2>1, <2>3, <2>4, <2>5, <2>6 DEF Handled
  <2>. QED  BY <1>4, <2>4, <2>7 DEF d
<1>5. Yielding(c, m) => c.controlled = m.controlled
  BY DEF Yielding
<1>. QED  BY <1>2, <1>3, <1>4, <1>5

LEMMA SuccessHandled ==
  ASSUME NEW c \in Working, NEW m \in Message, m.kind = "success", m.tid # 0
  PROVE  Handled(c, Success(c, m), m) /\ Success(c, m).out = c.out
<1>. DEFINE d == Success(c, m)
<1>1. GrownBy(c, d, m)
  BY SuccessRows
<1>2. ~Yielding(c, m) /\ ~Refused(c, m)
  BY DEF Yielding, Refused
<1>. HIDE DEF d
<1>3. Handled(c, d, m)
  BY <1>1, <1>2, GrownRest DEF Handled, GrownBy
<1>. QED  BY <1>1, <1>3 DEF GrownBy, d

LEMMA ConflictHandled ==
  ASSUME NEW c \in Working, NEW m \in Message, m.kind = "conflict", m.tid # 0
  PROVE  Handled(c, Conflict(c, m), m) /\ Conflict(c, m).out = c.out
<1>. DEFINE S == {j \in DOMAIN c.pairs : c.pairs[j].tid = m.tid}
            i == First(S)
            p == c.pairs[i]
            q == [p EXCEPT !.state = "failed"]
            f == With(c, i, q, c.dest)
            b == ~p.controlled
            d == Conflict(c, m)
<1>1. c.pairs \in Seq(Pairs) /\ S \in SUBSET DOMAIN c.pairs /\ c.dest \in Addrs \cup {NoAddr}
  BY DEF Working
<1>2. /\ i = 0 <=> S = {}
      /\ i # 0 => i \in S /\ i \in 1..Len(c.pairs)
  BY <1>1, FirstRow, Zenon
<1>3. ~Yielding(c, m) /\ (Refused(c, m) <=> i # 0)
  BY <1>1, <1>2 DEF Yielding, Refused
<1>4. CASE i = 0
  <2>1. d = c
    BY <1>4 DEF Conflict
  <2>. QED  BY <1>3, <1>4, <2>1, KeptSame DEF Handled, Grown
<1>5. CASE i # 0
  <2>1. p \in Pairs /\ b \in BOOLEAN /\ p.tid = m.tid
    BY <1>2, <1>5, RowTypes
  <2>2. q \in Pairs /\ From(q, p, m)
    BY <2>1 DEF Pairs, States, From
  <2>3. [c EXCEPT !.pairs[i].state = "failed"] = f
    BY DEF With, Working
  <2>4. d = SwitchTo(f, b)
    BY <1>5, <2>3 DEF Conflict
  <2>. HIDE DEF i, q
  <2>5. KeptBy(c, f, m)
    BY <1>1, <1>2, <1>5, <2>2, RowUpdate
  <2>6. f.pairs = [c.pairs EXCEPT ![i] = q] /\ f.switched = c.switched
        /\ f.tiebreak = c.tiebreak /\ f.started = c.started /\ f.send = c.send
    BY DEF With, Working
  <2>. HIDE DEF f, d
  <2>7. f \in Working
    BY <2>5 DEF KeptBy
  <2>8. /\ d \in Working /\ Kept(f, d, m)
        /\ d.controlled = b /\ d.switched = IF f.switched = 0 THEN 1 ELSE 2
        /\ d.tiebreak = f.tiebreak /\ d.started = f.started /\ d.send = f.send
        /\ d.out = f.out
    BY <2>1, <2>4, <2>7, SwitchRows
  <2>9. Kept(c, d, m)
    BY <2>5, <2>8, KeptKept DEF KeptBy
  <2>10. PrunedUnchecked(c) => PrunedUnchecked(f)
    <3>1. \A j \in 1..Len(c.pairs) : f.pairs[j] = IF j = i THEN q ELSE c.pairs[j]
      BY <1>1, <1>2, <1>5, <2>6
    <3>2. Len(f.pairs) = Len(c.pairs) /\ q.state = "failed"
      BY <1>1, <2>1, <2>6 DEF q, Pairs
    <3>. QED  BY <3>1, <3>2 DEF PrunedUnchecked
  <2>11. PrunedUnchecked(c) => Unchecked(d)
    BY <2>1, <2>4, <2>7, <2>10, SwitchUnchecked
  <2>12. Handled(c, d, m)
    BY <1>2, <1>3, <1>5, <2>1, <2>6, <2>8, <2>9, <2>11 DEF Handled, Grown
  <2>. QED  BY <2>5, <2>8, <2>12 DEF KeptBy, d
<1>. QED  BY <1>4, <1>5

LEMMA HandleHandled ==
  ASSUME NEW c \in Working, NEW m \in Message, m.tid # 0, c.started # 0
  PROVE  /\ Handled(c, Handle(c, m), m)
         /\ Handle(c, m).out =
              IF m.kind # "request" THEN c.out
              ELSE <<Reply(m, IF c.controlled = m.controlled /\ ~Yielding(c, m)
                              THEN "conflict" ELSE "success")>>
<1>1. m.kind \in {"request", "success", "conflict"}
  BY DEF Message
<1>2. CASE m.kind = "request"
  <2>1. Handle(c, m) = Request(c, m)
    BY <1>2 DEF Handle
  <2>. QED  BY <1>2, <2>1, RequestHandled
<1>3. CASE m.kind = "success"
  <2>1. Handle(c, m) = Success(c, m)
    BY <1>3 DEF Handle
  <2>. QED  BY <1>3, <2>1, SuccessHandled
<1>4. CASE m.kind = "conflict"
  <2>1. Handle(c, m) = Conflict(c, m)
    BY <1>4 DEF Handle
  <2>. QED  BY <1>4, <2>1, ConflictHandled
<1>. QED  BY <1>1, <1>2, <1>3, <1>4

\* Every row after the message is new, or comes from one that was there.
LEMMA HandledRow ==
  ASSUME NEW c \in Working, NEW d \in Working, NEW m, Handled(c, d, m),
         NEW j \in 1..Len(d.pairs)
  PROVE  \/ d.pairs[j].state = "waiting" /\ d.pairs[j].tid = 0
         \/ \E i \in 1..Len(c.pairs) : From(d.pairs[j], c.pairs[i], m)
<1>1. PICK e \in Working : Kept(c, e, m) /\ Grown(e, d)
  BY DEF Handled
<1>2. Len(e.pairs) \in Nat /\ Len(d.pairs) \in Nat /\ Len(e.pairs) = Len(c.pairs)
  BY <1>1 DEF Working, Kept
<1>3. \A i \in 1..Len(e.pairs) : From(e.pairs[i], c.pairs[i], m)
  BY <1>1, <1>2 DEF Kept
<1>4. CASE d.pairs = e.pairs
  BY <1>2, <1>3, <1>4
<1>5. CASE Inserted(e, d)
  <2>1. PICK i \in 1..Len(e.pairs), p \in Pairs :
          /\ p.tid = 0 /\ p.state = "waiting"
          /\ Len(d.pairs) = IF Len(e.pairs) < MaxPairs THEN Len(e.pairs) + 1 ELSE MaxPairs
          /\ d.pairs[j] = IF j < i THEN e.pairs[j] ELSE IF j = i THEN p ELSE e.pairs[j - 1]
    BY <1>5 DEF Inserted
  <2>2. Len(d.pairs) =< Len(e.pairs) + 1
    BY <1>2, <2>1, IceAssumption DEF IceAssumption
  <2>3. CASE j < i
    BY <1>2, <1>3, <2>1, <2>3
  <2>4. CASE j = i
    BY <2>1, <2>4
  <2>5. CASE j > i
    <3>1. j - 1 \in 1..Len(e.pairs) /\ d.pairs[j] = e.pairs[j - 1]
      BY <1>2, <2>1, <2>2, <2>5
    <3>. QED  BY <1>2, <1>3, <3>1
  <2>. QED  BY <1>2, <2>3, <2>4, <2>5
<1>. QED  BY <1>1, <1>4, <1>5 DEF Grown

\* The nominated pair keeps its place, or the place moves with it.
LEMMA HandledIndex ==
  ASSUME NEW c \in Working, NEW d \in Working, NEW m, Handled(c, d, m),
         c.index \in 1..Len(c.pairs) => c.pairs[c.index].nominated,
         c.index # 0 /\ c.index \notin 1..Len(c.pairs) => c.index > MaxPairs
  PROVE  /\ d.index \in 1..Len(d.pairs) => d.pairs[d.index].nominated
         /\ d.index # 0 /\ d.index \notin 1..Len(d.pairs) => d.index > MaxPairs
<1>1. PICK e \in Working : Kept(c, e, m) /\ Grown(e, d)
  BY DEF Handled
<1>2. /\ Len(e.pairs) \in Nat /\ Len(d.pairs) \in Nat /\ Len(e.pairs) = Len(c.pairs)
      /\ e.index = c.index /\ e.index \in Nat /\ d.index \in Nat /\ MaxPairs \in Nat \ {0}
  BY <1>1, IceAssumption DEF Working, Kept, IceAssumption
<1>3. e.index \in 1..Len(e.pairs) => e.pairs[e.index].nominated
  BY <1>1, <1>2 DEF Kept, From
<1>4. CASE d.pairs = e.pairs /\ d.index = e.index
  BY <1>2, <1>3, <1>4
<1>5. CASE Inserted(e, d)
  <2>1. PICK i \in 1..Len(e.pairs), p \in Pairs :
          /\ Len(d.pairs) = IF Len(e.pairs) < MaxPairs THEN Len(e.pairs) + 1 ELSE MaxPairs
          /\ \A j \in 1..Len(d.pairs) :
               d.pairs[j] = IF j < i THEN e.pairs[j] ELSE IF j = i THEN p ELSE e.pairs[j - 1]
          /\ d.index = IF e.index >= i THEN e.index + 1 ELSE e.index
    BY <1>5 DEF Inserted
  <2>2. CASE e.index >= i
    <3>1. d.index = e.index + 1 /\ d.index > i /\ d.index - 1 = e.index
      BY <1>2, <2>1, <2>2
    <3>2. d.index \in 1..Len(d.pairs) => d.pairs[d.index] = e.pairs[e.index]
      BY <1>2, <2>1, <3>1
    <3>3. d.index \in 1..Len(d.pairs) => e.index \in 1..Len(e.pairs)
      BY <1>2, <2>1, <3>1
    <3>4. d.index \notin 1..Len(d.pairs) => d.index > MaxPairs
      BY <1>2, <2>1, <3>1
    <3>. QED  BY <1>3, <3>2, <3>3, <3>4
  <2>3. CASE e.index < i
    <3>1. d.index = e.index
      BY <1>2, <2>1, <2>3
    <3>2. d.index \in 1..Len(d.pairs) => d.pairs[d.index] = e.pairs[e.index] /\ e.index \in 1..Len(e.pairs)
      BY <1>2, <2>1, <2>3, <3>1
    <3>3. d.index # 0 /\ d.index \notin 1..Len(d.pairs) => d.index > MaxPairs
      BY <1>2, <2>1, <2>3, <3>1
    <3>. QED  BY <1>3, <3>2, <3>3
  <2>. QED  BY <1>2, <2>2, <2>3
<1>. QED  BY <1>1, <1>4, <1>5 DEF Grown
-----------------------------------------------------------------------------
(***************************************************************************)
(* Send and WithRequest: d is c when the pair d.send is to be checked.     *)
(***************************************************************************)
\* Row i: only the pair that is checked may begin a check and take the role.
Tested(c, d, i) ==
  LET p == d.pairs[i]
      q == c.pairs[i]
  IN  /\ p.local = q.local /\ p.remote = q.remote /\ p.tid = q.tid
      /\ q.nominated => p.nominated
      /\ p.state = "succeeded" => q.state = "succeeded"
      /\ p.state = "pruned" <=> q.state = "pruned"
      /\ i # d.send => /\ p.controlled = q.controlled
                       /\ p.state = "progress" => q.state = "progress"
      /\ i = d.send => /\ p.state = "progress"
                       /\ \/ p.controlled = c.controlled
                          \/ p.controlled = q.controlled /\ q.state = "progress"

Sent(c, d) ==
  /\ d \in Working /\ Len(d.pairs) = Len(c.pairs) /\ d.send \in 0..Len(c.pairs)
  /\ d.controlled = c.controlled /\ d.tiebreak = c.tiebreak /\ d.started = c.started
  /\ d.switched = c.switched /\ d.out = c.out
  /\ \/ d.index = c.index
     \/ d.index \in 1..Len(d.pairs) /\ d.pairs[d.index].nominated
  /\ \A i \in 1..Len(c.pairs) : Tested(c, d, i)

LEMMA SentNothing ==
  ASSUME NEW c \in Working, c.send = 0
  PROVE  Sent(c, c)
<1>1. Len(c.pairs) \in Nat
  BY DEF Working
<1>2. \A i \in 1..Len(c.pairs) : Tested(c, c, i)
  BY <1>1 DEF Tested
<1>. QED  BY <1>1, <1>2 DEF Sent

\* Row i becomes q and is the one that is checked; the nominated pair is k.
Sending(c, i, q, k) ==
  [c EXCEPT !.pairs = [c.pairs EXCEPT ![i] = q], !.send = i, !.index = k]

LEMMA SendingRow ==
  ASSUME NEW c \in Working, NEW i \in 1..Len(c.pairs), NEW q \in Pairs, NEW k \in Nat,
         k = c.index \/ (k = i /\ q.nominated),
         q.local = c.pairs[i].local, q.remote = c.pairs[i].remote, q.tid = c.pairs[i].tid,
         c.pairs[i].nominated => q.nominated, q.state = "progress",
         c.pairs[i].state # "pruned",
         \/ q.controlled = c.controlled
         \/ q.controlled = c.pairs[i].controlled /\ c.pairs[i].state = "progress"
  PROVE  Sent(c, Sending(c, i, q, k))
<1>. DEFINE d == Sending(c, i, q, k)
            ps == c.pairs
            qs == [c.pairs EXCEPT ![i] = q]
<1>1. ps \in Seq(Pairs) /\ i \in 1..Len(ps) /\ qs = [ps EXCEPT ![i] = q] /\ i \in Nat
  BY DEF Working
<1>. HIDE DEF ps, qs
<1>2. /\ qs \in Seq(Pairs) /\ Len(qs) = Len(ps)
      /\ \A j \in 1..Len(ps) : qs[j] = IF j = i THEN q ELSE ps[j]
  BY <1>1
<1>3. d = [c EXCEPT !.pairs = qs, !.send = i, !.index = k]
  BY DEF qs, Sending
<1>. HIDE DEF d
<1>4. /\ d \in Working /\ d.pairs = qs /\ d.send = i /\ d.index = k
      /\ d.controlled = c.controlled /\ d.tiebreak = c.tiebreak /\ d.started = c.started
      /\ d.switched = c.switched /\ d.out = c.out
  BY <1>1, <1>2, <1>3 DEF Working
<1>5. ASSUME NEW j \in 1..Len(c.pairs)  PROVE Tested(c, d, j)
  <2>1. CASE j = i
    BY <1>2, <1>4, <1>5, <2>1 DEF Tested, ps
  <2>2. CASE j # i
    <3>1. d.pairs[j] = c.pairs[j] /\ j # d.send
      BY <1>2, <1>4, <1>5, <2>2 DEF ps
    <3>. QED  BY <3>1 DEF Tested
  <2>. QED  BY <2>1, <2>2
<1>6. d.index = c.index \/ (d.index \in 1..Len(d.pairs) /\ d.pairs[d.index].nominated)
  BY <1>1, <1>2, <1>4
<1>7. Len(d.pairs) = Len(c.pairs) /\ d.send \in 0..Len(c.pairs)
  BY <1>1, <1>2, <1>4 DEF ps
<1>. QED  BY <1>4, <1>5, <1>6, <1>7 DEF Sent, d

LEMMA CheckSent ==
  ASSUME NEW c \in Working, NEW i \in 1..Len(c.pairs), c.pairs[i].state # "pruned"
  PROVE  /\ Sent(c, Check(c, i))
         /\ Sent(c, [Check(c, i) EXCEPT !.index = i, !.pairs[i].nominated = TRUE])
<1>. DEFINE p == c.pairs[i]
            q == [p EXCEPT !.state = "progress", !.tries = 0, !.controlled = c.controlled]
            r == [p EXCEPT !.state = "progress", !.tries = 0, !.controlled = c.controlled,
                           !.nominated = TRUE]
            e == Check(c, i)
            d == [e EXCEPT !.index = i, !.pairs[i].nominated = TRUE]
<1>1. p \in Pairs /\ c.controlled \in BOOLEAN /\ c.pairs \in Seq(Pairs)
  BY RowTypes DEF Working
<1>2. /\ q \in Pairs /\ q.local = p.local /\ q.remote = p.remote /\ q.tid = p.tid
      /\ q.nominated = p.nominated /\ q.state = "progress" /\ q.controlled = c.controlled
  BY <1>1 DEF Pairs, States
<1>3. /\ r \in Pairs /\ r.local = p.local /\ r.remote = p.remote /\ r.tid = p.tid
      /\ r.nominated /\ r.state = "progress" /\ r.controlled = c.controlled
      /\ r = [q EXCEPT !.nominated = TRUE]
  BY <1>1 DEF Pairs, States
<1>4. e = [c EXCEPT !.pairs = [c.pairs EXCEPT ![i] = q], !.send = i]
  BY DEF Check
<1>. HIDE DEF q, r, e
<1>5. e = Sending(c, i, q, c.index)
  BY <1>4 DEF Sending, Working
<1>6. d = Sending(c, i, r, i)
  <2>1. e.pairs = [c.pairs EXCEPT ![i] = q] /\ e.pairs[i] = q
    BY <1>1, <1>4 DEF Working
  <2>2. [e.pairs EXCEPT ![i] = r] = [c.pairs EXCEPT ![i] = r]
    BY <1>1, <2>1
  <2>3. d = [e EXCEPT !.index = i, !.pairs = [e.pairs EXCEPT ![i] = r]]
    BY <1>3, <2>1
  <2>. HIDE DEF d
  <2>4. d = [e EXCEPT !.index = i, !.pairs = [c.pairs EXCEPT ![i] = r]]
    BY <2>2, <2>3
  <2>5. d = [c EXCEPT !.pairs = [c.pairs EXCEPT ![i] = r], !.send = i, !.index = i]
    BY <1>4, <2>4 DEF Working
  <2>. QED  BY <2>5 DEF Sending
<1>7. c.index \in Nat /\ i \in Nat
  BY <1>1 DEF Working
<1>. HIDE DEF d
<1>8. Sent(c, Sending(c, i, q, c.index))
  BY <1>2, <1>7, SendingRow
<1>9. Sent(c, Sending(c, i, r, i))
  BY <1>3, <1>7, SendingRow
<1>. QED  BY <1>5, <1>6, <1>8, <1>9 DEF d, e

LEMMA SentSent ==
  ASSUME NEW c \in Working, NEW d, NEW f, Sent(c, d), d.send = 0, Sent(d, f)
  PROVE  Sent(c, f)
<1>1. d \in Working /\ f \in Working /\ Len(f.pairs) = Len(d.pairs) /\ Len(d.pairs) = Len(c.pairs)
  BY DEF Sent
<1>2. Len(c.pairs) \in Nat
  BY DEF Working
<1>3. ASSUME NEW i \in 1..Len(c.pairs)  PROVE Tested(c, f, i)
  <2>1. Tested(c, d, i) /\ Tested(d, f, i) /\ i # d.send /\ d.controlled = c.controlled
    BY <1>1, <1>2 DEF Sent
  <2>. QED  BY <2>1 DEF Tested
<1>4. f.index = c.index \/ (f.index \in 1..Len(f.pairs) /\ f.pairs[f.index].nominated)
  <2>1. CASE f.index = d.index /\ d.index \in 1..Len(d.pairs) /\ d.pairs[d.index].nominated
    BY <1>1, <1>2, <2>1 DEF Sent, Tested
  <2>. QED  BY <1>1, <2>1 DEF Sent
<1>. QED  BY <1>1, <1>3, <1>4 DEF Sent

LEMMA RetransmitSent ==
  ASSUME NEW c \in Working, c.send = 0, NEW due
  PROVE  Sent(c, Retransmit(c, due))
<1>. DEFINE ready == {j \in InState(c, {"progress"}) : c.pairs[j].tid \in due}
            over == {j \in ready : c.pairs[j].tries > MaxTries}
            i == First(ready \ over)
            ps == c.pairs
            qs == [j \in DOMAIN ps |-> IF j \in over /\ (i = 0 \/ j < i)
                                       THEN [ps[j] EXCEPT !.state = "failed"] ELSE ps[j]]
            d == [c EXCEPT !.pairs = qs]
<1>1. /\ c.pairs \in Seq(Pairs) /\ ready \ over \in SUBSET DOMAIN c.pairs
      /\ over \in SUBSET DOMAIN c.pairs /\ ps \in Seq(Pairs)
      /\ \A j \in ready : c.pairs[j].state = "progress"
  BY DEF Working, InState
<1>2. i # 0 => i \in ready \ over /\ i \in 1..Len(c.pairs)
  BY <1>1, FirstRow, Zenon
<1>3. Retransmit(c, due) = IF i = 0 THEN d ELSE [d EXCEPT !.pairs[i].tries = @ + 1, !.send = i]
  BY DEF Retransmit
<1>4. \A j \in over : ps[j].state = "progress"
  BY <1>1
<1>5. i # 0 => i \notin over /\ c.pairs[i].state = "progress"
  BY <1>1, <1>2
<1>. HIDE DEF ready, over, i
<1>6. Sent(c, d) /\ d.send = 0 /\ d.pairs = qs
  <2>. HIDE DEF ps
  <2>1. DOMAIN ps = 1..Len(ps) /\ \A j \in 1..Len(ps) : ps[j] \in Pairs
    BY <1>1
  <2>2. \A j \in 1..Len(ps) : qs[j] \in Pairs
    BY <2>1 DEF Pairs, States
  <2>3. qs \in Seq(Pairs) /\ Len(qs) = Len(ps)
    BY <2>1, <2>2
  <2>4. ASSUME NEW j \in 1..Len(ps)
        PROVE  LET p == qs[j]
                   q == ps[j]
               IN  /\ p.local = q.local /\ p.remote = q.remote /\ p.tid = q.tid
                   /\ p.nominated = q.nominated /\ p.controlled = q.controlled
                   /\ p.state = q.state \/ (q.state = "progress" /\ p.state = "failed")
    BY <1>4, <2>1 DEF Pairs
  <2>. HIDE DEF qs
  <2>5. /\ d \in Working /\ d.pairs = qs /\ d.send = 0 /\ d.index = c.index
        /\ d.controlled = c.controlled /\ d.tiebreak = c.tiebreak /\ d.started = c.started
        /\ d.switched = c.switched /\ d.out = c.out
    BY <2>3 DEF Working
  <2>. HIDE DEF d
  <2>6. Len(d.pairs) = Len(c.pairs) /\ Len(c.pairs) \in Nat
    BY <1>1, <2>3, <2>5 DEF ps
  <2>7. \A j \in 1..Len(c.pairs) : Tested(c, d, j)
    BY <2>4, <2>5, <2>6 DEF Tested, ps
  <2>. QED  BY <2>5, <2>6, <2>7 DEF Sent
<1>7. CASE i = 0
  BY <1>3, <1>6, <1>7
<1>8. CASE i # 0
  <2>. DEFINE p == c.pairs[i]
              q == [p EXCEPT !.tries = @ + 1]
              f == Sending(d, i, q, d.index)
  <2>1. p \in Pairs
    BY <1>2, <1>8, RowTypes
  <2>2. /\ q \in Pairs /\ q.local = p.local /\ q.remote = p.remote /\ q.tid = p.tid
        /\ q.nominated = p.nominated /\ q.state = p.state /\ q.controlled = p.controlled
    BY <2>1 DEF Pairs
  <2>3. qs[i] = p
    BY <1>1, <1>2, <1>5, <1>8
  <2>. HIDE DEF qs, d
  <2>4. d \in Working /\ Len(d.pairs) = Len(c.pairs) /\ d.pairs[i] = p /\ d.index \in Nat
    BY <1>6, <2>3 DEF Sent, Working
  <2>5. Retransmit(c, due) = [d EXCEPT !.pairs = [d.pairs EXCEPT ![i] = q], !.send = i]
    BY <1>3, <1>8, <2>4
  <2>6. Retransmit(c, due) = f
    BY <2>4, <2>5 DEF Sending, Working
  <2>. HIDE DEF q, f
  <2>7. Sent(d, Sending(d, i, q, d.index))
    BY <1>2, <1>5, <1>8, <2>2, <2>4, SendingRow
  <2>. QED  BY <1>6, <2>6, <2>7, SentSent DEF f
<1>. QED  BY <1>7, <1>8

LEMMA SendSent ==
  ASSUME NEW c \in Working, c.send = 0, NEW due
  PROVE  Sent(c, Send(c, due))
<1>. DEFINE w == First(InState(c, {"waiting"}))
            s == First(InState(c, {"succeeded"}))
<1>1. /\ c.pairs \in Seq(Pairs)
      /\ InState(c, {"waiting"}) \in SUBSET DOMAIN c.pairs
      /\ InState(c, {"succeeded"}) \in SUBSET DOMAIN c.pairs
  BY DEF Working, InState
<1>2. /\ w # 0 => w \in InState(c, {"waiting"}) /\ w \in 1..Len(c.pairs)
      /\ s # 0 => s \in InState(c, {"succeeded"}) /\ s \in 1..Len(c.pairs)
  BY <1>1, FirstRow, Zenon
<1>3. /\ w # 0 => c.pairs[w].state # "pruned"
      /\ s # 0 => c.pairs[s].state # "pruned"
  BY <1>2 DEF InState
<1>4. CASE c.started = 0
  BY <1>4, SentNothing DEF Send
<1>5. CASE c.started # 0 /\ w # 0
  <2>1. Send(c, due) = Check(c, w)
    BY <1>5 DEF Send
  <2>. HIDE DEF w
  <2>. QED  BY <1>2, <1>3, <1>5, <2>1, CheckSent
<1>6. CASE c.started # 0 /\ w = 0 /\ MayNominate(c, s)
  <2>1. Send(c, due) = [Check(c, s) EXCEPT !.index = s, !.pairs[s].nominated = TRUE]
    BY <1>6 DEF Send
  <2>2. s # 0
    BY <1>6 DEF MayNominate
  <2>. HIDE DEF s
  <2>. QED  BY <1>2, <1>3, <2>1, <2>2, CheckSent
<1>7. CASE c.started # 0 /\ w = 0 /\ ~MayNominate(c, s)
  <2>1. Send(c, due) = Retransmit(c, due)
    BY <1>7 DEF Send
  <2>. QED  BY <2>1, RetransmitSent
<1>. QED  BY <1>4, <1>5, <1>6, <1>7
-----------------------------------------------------------------------------
(***************************************************************************)
(* What a step does to the two agents and to the messages.                 *)
(***************************************************************************)
LEMMA TidsAreFinite ==
  ASSUME NEW T, NEW s \in Seq(T)
  PROVE  IsFiniteSet(Tids(s))
<1>. DEFINE f == [i \in 1..Len(s) |-> s[i].tid]
<1>1. f \in Surjection(1..Len(s), Tids(s))
  BY DEF Surjection, Tids
<1>2. IsFiniteSet(1..Len(s))
  BY FS_Interval
<1>. QED  BY <1>1, <1>2, FS_Surjection

LEMMA NewTidIsNew ==
  ASSUME IceTypes, NEW a \in Agents, NEW b \in Agents, NEW ps \in Seq(Pairs)
  PROVE  LET t == NewTid(ps, b) IN
         /\ t \in Nat \ {0} /\ t \notin InFlight
         /\ t \notin Tids(ps) /\ t \notin Tids(agent[b].pairs)
<1>. DEFINE U == Tids(inq[a]) \cup Tids(inq[Other(a)])
            used == InFlight \cup Tids(ps) \cup Tids(agent[b].pairs)
            n == Cardinality(used)
            S == 1..n + 1 \ used
<1>1. /\ inq[a] \in Seq(Message) /\ inq[Other(a)] \in Seq(Message)
      /\ agent[b].pairs \in Seq(Pairs)
  BY OtherAgent DEF IceTypes, CheckList
<1>2. InFlight = U
  BY OtherAgent DEF InFlight
<1>3. IsFiniteSet(used)
  <2>1. IsFiniteSet(Tids(inq[a])) /\ IsFiniteSet(Tids(inq[Other(a)]))
    BY <1>1, TidsAreFinite
  <2>2. IsFiniteSet(Tids(ps)) /\ IsFiniteSet(Tids(agent[b].pairs))
    BY <1>1, TidsAreFinite
  <2>3. IsFiniteSet(U)
    BY <2>1, FS_Union
  <2>4. IsFiniteSet(U \cup Tids(ps))
    BY <2>2, <2>3, FS_Union
  <2>5. IsFiniteSet((U \cup Tids(ps)) \cup Tids(agent[b].pairs))
    BY <2>2, <2>4, FS_Union
  <2>. QED  BY <1>2, <2>5
<1>. HIDE DEF used
<1>4. n \in Nat
  BY <1>3, FS_CardinalityType
<1>5. S # {}
  <2>1. SUFFICES ASSUME 1..n + 1 \subseteq used  PROVE FALSE
    OBVIOUS
  <2>2. Cardinality(1..n + 1) =< n
    BY <1>3, <2>1, FS_Subset
  <2>3. Cardinality(1..n + 1) = n + 1
    BY <1>4, FS_Interval
  <2>. QED  BY <1>4, <2>2, <2>3
<1>6. S \in SUBSET (Nat \ {0})
  BY <1>4
<1>7. First(S) \in S
  BY <1>5, <1>6, FirstIsLeast
<1>8. NewTid(ps, b) = First(S)
  BY <1>5 DEF NewTid, First, used
<1>. QED  BY <1>6, <1>7, <1>8 DEF used

Probe(p, tiebreak, t) ==
  [kind |-> "request", tid |-> t, use |-> p.nominated, controlled |-> p.controlled,
   tiebreak |-> tiebreak, src |-> p.local.addr, mapped |-> p.remote.addr]

LEMMA RoutedIs ==
  ASSUME IceTypes, NEW a \in Agents, NEW o \in Outs
  PROVE  \/ Routed(a, o) = <<>>
         \/ /\ o # <<>>
            /\ Routed(a, o) = <<[o[1].msg EXCEPT !.src = scene.seen[a][o[1].to]]>>
            /\ [o[1].msg EXCEPT !.src = scene.seen[a][o[1].to]] \in Message
<1>1. CASE o = <<>>
  BY <1>1 DEF Routed
<1>2. CASE o # <<>>
  <2>1. PICK x \in [to : Addrs, msg : Message] : o = <<x>>
    BY <1>2 DEF Outs
  <2>2. o[1] = x /\ x.to \in Addrs /\ x.msg \in Message
    BY <2>1
  <2>3. scene.seen[a][x.to] \in Addrs \cup {NoAddr}
    BY <2>2 DEF IceTypes, Scene
  <2>4. scene.seen[a][x.to] # NoAddr => [x.msg EXCEPT !.src = scene.seen[a][x.to]] \in Message
    BY <2>2, <2>3 DEF Message
  <2>. QED  BY <1>2, <2>2, <2>4 DEF Routed
<1>. QED  BY <1>1, <1>2

\* What agent a has besides its rows.
Same(e, d) ==
  /\ e.index = d.index /\ e.controlled = d.controlled /\ e.tiebreak = d.tiebreak
  /\ e.started = d.started /\ e.switched = d.switched

ReceivedBy(a) == \E m \in ToSet(inq[a]), d \in Working :
  LET c == agent[a] IN
  /\ m \in Message /\ m.tid # 0
  /\ IF c.started = 0 THEN d = c ELSE Handled(c, d, m)
  /\ agent'[a].pairs = d.pairs /\ Same(agent'[a], d)
  /\ agent'[Other(a)] = agent[Other(a)] /\ scene' = scene
  /\ ToSet(inq'[a]) \subseteq ToSet(inq[a])
  /\ \A r \in ToSet(inq'[Other(a)]) :
       \/ r \in ToSet(inq[Other(a)])
       \/ /\ c.started # 0 /\ m.kind = "request" /\ r.tid = m.tid
          /\ r.kind = IF c.controlled = m.controlled /\ ~Yielding(c, m)
                      THEN "conflict" ELSE "success"
          /\ r.mapped = m.src /\ r.src = scene.seen[a][m.src]

SentBy(a) == \E d \in Working, t \in Nat \ {0} :
  LET c == agent[a]
      k == d.send
  IN
  /\ Sent(c, d) /\ (c.started = 0 => k = 0)
  /\ t \notin InFlight /\ t \notin Tids(c.pairs) /\ t \notin Tids(agent[Other(a)].pairs)
  /\ Same(agent'[a], d) /\ Len(agent'[a].pairs) = Len(d.pairs)
  /\ \A i \in 1..Len(d.pairs) :
       agent'[a].pairs[i] = IF i = k THEN [d.pairs[i] EXCEPT !.tid = t] ELSE d.pairs[i]
  /\ agent'[Other(a)] = agent[Other(a)] /\ scene' = scene /\ inq'[a] = inq[a]
  /\ \A r \in ToSet(inq'[Other(a)]) :
       \/ r \in ToSet(inq[Other(a)])
       \/ /\ k # 0 /\ r.kind = "request" /\ r.tid = t /\ r.tiebreak = c.tiebreak
          /\ r.controlled = d.pairs[k].controlled
          /\ r.src = scene.seen[a][d.pairs[k].remote.addr]

\* Messages are lost or change places.
Fewer == /\ agent' = agent /\ scene' = scene
         /\ \A a \in Agents : ToSet(inq'[a]) \subseteq ToSet(inq[a])

LEMMA Appended ==
  ASSUME NEW s \in Seq(Message), NEW x \in Message
  PROVE  /\ s \o <<x>> \in Seq(Message)
         /\ \A r \in ToSet(s \o <<x>>) : r \in ToSet(s) \/ r = x
<1>1. s \o <<x>> \in Seq(Message) /\ Len(s \o <<x>>) = Len(s) + 1
  OBVIOUS
<1>2. \A i \in 1..Len(s) + 1 : (s \o <<x>>)[i] = IF i =< Len(s) THEN s[i] ELSE x
  OBVIOUS
<1>. QED  BY <1>1, <1>2 DEF ToSet

LEMMA TailElements ==
  ASSUME NEW s \in Seq(Message), s # <<>>
  PROVE  /\ Tail(s) \in Seq(Message) /\ Head(s) \in ToSet(s)
         /\ ToSet(Tail(s)) \subseteq ToSet(s)
<1>1. Tail(s) \in Seq(Message) /\ Len(Tail(s)) = Len(s) - 1 /\ Len(s) # 0 /\ Head(s) = s[1]
  OBVIOUS
<1>2. \A i \in 1..Len(s) - 1 : Tail(s)[i] = s[i + 1] /\ i + 1 \in 1..Len(s)
  OBVIOUS
<1>3. 1 \in DOMAIN s
  BY <1>1
<1>. QED  BY <1>1, <1>2, <1>3 DEF ToSet

LEMMA AgentTypes ==
  ASSUME IceTypes, NEW a \in Agents
  PROVE  /\ agent[a] \in Working /\ agent[a].out = <<>> /\ agent[a].send = 0
         /\ inq[a] \in Seq(Message) /\ \A m \in ToSet(inq[a]) : m \in Message /\ m.tid # 0
<1>1. agent[a] \in CheckList /\ inq[a] \in Seq(Message)
  BY DEF IceTypes
<1>2. agent[a] \in Working /\ agent[a].out = <<>> /\ agent[a].send = 0
  BY <1>1 DEF CheckList, Working, Outs
<1>3. \A m \in ToSet(inq[a]) : m \in Message /\ m.tid # 0
  BY <1>1 DEF IceTypes, ToSet
<1>. QED  BY <1>1, <1>2, <1>3

LEMMA HandleWorks ==
  ASSUME NEW c \in Working, c.out = <<>>, NEW m \in Message, m.tid # 0
  PROVE  LET d == Handle(c, m) IN
         /\ d \in Working /\ d.send = c.send
         /\ IF c.started = 0 THEN d = c ELSE Handled(c, d, m)
         /\ d.out = IF c.started = 0 \/ m.kind # "request" THEN <<>>
                    ELSE <<Reply(m, IF c.controlled = m.controlled /\ ~Yielding(c, m)
                                    THEN "conflict" ELSE "success")>>
<1>1. CASE c.started = 0
  BY <1>1 DEF Handle
<1>2. CASE c.started # 0
  <2>. DEFINE d == Handle(c, m)
  <2>1. Handled(c, d, m)
        /\ d.out = IF m.kind # "request" THEN c.out
                   ELSE <<Reply(m, IF c.controlled = m.controlled /\ ~Yielding(c, m)
                                   THEN "conflict" ELSE "success")>>
    BY <1>2, HandleHandled
  <2>. HIDE DEF d
  <2>2. d \in Working /\ d.send = c.send
    BY <2>1 DEF Handled
  <2>. QED  BY <1>2, <2>1, <2>2 DEF d
<1>. QED  BY <1>1, <1>2

LEMMA ReceiveStep ==
  ASSUME IceTypes, NEW a \in Agents, Receive(a)
  PROVE  ReceivedBy(a) /\ IceTypes'
<1>. DEFINE b == Other(a)
            c == agent[a]
            m == Head(inq[a])
            d == Handle(c, m)
            e == [d EXCEPT !.out = <<>>]
            o == d.out
            kind == IF c.controlled = m.controlled /\ ~Yielding(c, m) THEN "conflict" ELSE "success"
<1>1. b \in Agents /\ b # a /\ Agents = {a, b}
  BY OtherAgent
<1>2. /\ inq[a] # <<>> /\ UNCHANGED scene
      /\ agent' = [agent EXCEPT ![a] = e]
      /\ inq' = [inq EXCEPT ![a] = Tail(inq[a]), ![b] = inq[b] \o Routed(a, o)]
  BY <1>1 DEF Receive
<1>3. /\ c \in Working /\ c.out = <<>> /\ c.send = 0 /\ inq[a] \in Seq(Message)
      /\ inq[b] \in Seq(Message)
      /\ \A x \in ToSet(inq[a]) : x \in Message /\ x.tid # 0
      /\ \A x \in ToSet(inq[b]) : x \in Message /\ x.tid # 0
  BY <1>1, AgentTypes
<1>4. /\ m \in ToSet(inq[a]) /\ m \in Message /\ m.tid # 0
      /\ Tail(inq[a]) \in Seq(Message) /\ ToSet(Tail(inq[a])) \subseteq ToSet(inq[a])
  BY <1>2, <1>3, TailElements
<1>5. /\ d \in Working /\ d.send = 0
      /\ IF c.started = 0 THEN d = c ELSE Handled(c, d, m)
      /\ o = IF c.started = 0 \/ m.kind # "request" THEN <<>> ELSE <<Reply(m, kind)>>
  BY <1>3, <1>4, HandleWorks
<1>. HIDE DEF d, m, kind
<1>6. e \in CheckList /\ e.pairs = d.pairs /\ Same(e, d)
  BY <1>5 DEF Working, CheckList, Same
<1>. HIDE DEF e
<1>7. agent'[a] = e /\ agent'[b] = agent[b] /\ inq'[a] = Tail(inq[a]) /\ inq'[b] = inq[b] \o Routed(a, o)
      /\ DOMAIN inq' = Agents
  BY <1>1, <1>2 DEF IceTypes
<1>8. o \in Outs
  BY <1>5 DEF Working
<1>9. /\ inq[b] \o Routed(a, o) \in Seq(Message)
      /\ \A r \in ToSet(inq[b] \o Routed(a, o)) :
            \/ r \in ToSet(inq[b])
            \/ /\ o # <<>> /\ r \in Message
               /\ r = [o[1].msg EXCEPT !.src = scene.seen[a][o[1].to]]
  <2>1. CASE Routed(a, o) = <<>>
    <3>1. inq[b] \o Routed(a, o) = inq[b]
      BY <1>3, <2>1
    <3>. QED  BY <1>3, <3>1
  <2>2. CASE Routed(a, o) # <<>>
    <3>. DEFINE x == [o[1].msg EXCEPT !.src = scene.seen[a][o[1].to]]
    <3>1. o # <<>> /\ x \in Message /\ Routed(a, o) = <<x>>
      BY <1>8, <2>2, RoutedIs
    <3>. HIDE DEF x
    <3>2. /\ inq[b] \o <<x>> \in Seq(Message)
          /\ \A r \in ToSet(inq[b] \o <<x>>) : r \in ToSet(inq[b]) \/ r = x
      BY <1>3, <3>1, Appended
    <3>. QED  BY <3>1, <3>2 DEF x
  <2>. QED  BY <2>1, <2>2
<1>10. ASSUME NEW r \in ToSet(inq'[b])
       PROVE  /\ r.tid # 0
              /\ \/ r \in ToSet(inq[b])
                 \/ /\ c.started # 0 /\ m.kind = "request" /\ r.tid = m.tid
                    /\ r.kind = kind /\ r.mapped = m.src /\ r.src = scene.seen[a][m.src]
  <2>1. CASE r \in ToSet(inq[b])
    BY <1>3, <2>1
  <2>2. CASE r \notin ToSet(inq[b])
    <3>1. o # <<>> /\ r = [o[1].msg EXCEPT !.src = scene.seen[a][o[1].to]]
      BY <1>7, <1>9, <1>10, <2>2
    <3>2. c.started # 0 /\ m.kind = "request" /\ o = <<Reply(m, kind)>>
      BY <1>5, <3>1
    <3>. DEFINE y == Reply(m, kind)
    <3>5. y.to = m.src /\ y.msg = Reply(m, kind).msg
      BY DEF Reply
    <3>3. o[1].to = m.src /\ o[1].msg = Reply(m, kind).msg
      <4>. HIDE DEF y, o
      <4>1. o = <<y>>
        BY <3>2 DEF y
      <4>. QED  BY <3>5, <4>1
    <3>4. r.tid = m.tid /\ r.kind = kind /\ r.mapped = m.src /\ r.src = scene.seen[a][m.src]
      BY <3>1, <3>3 DEF Reply
    <3>. QED  BY <1>4, <3>2, <3>4
  <2>. QED  BY <2>1, <2>2
<1>11. ReceivedBy(a)
  BY <1>2, <1>4, <1>5, <1>6, <1>7, <1>10 DEF ReceivedBy, kind
<1>12. IceTypes'
  <2>1. agent' \in [Agents -> CheckList]
    BY <1>2, <1>6 DEF IceTypes
  <2>2. inq' \in [Agents -> Seq(Message)]
    BY <1>1, <1>2, <1>4, <1>9 DEF IceTypes
  <2>3. \A x \in ToSet(inq'[a]) : x.tid # 0
    BY <1>3, <1>4, <1>7
  <2>4. \A x \in ToSet(inq'[b]) : x.tid # 0
    BY <1>10
  <2>5. scene' \in Scene
    BY <1>2 DEF IceTypes
  <2>. QED  BY <1>1, <2>1, <2>2, <2>3, <2>4, <2>5 DEF IceTypes
<1>. QED  BY <1>11, <1>12

LEMMA WithRequestRows ==
  ASSUME IceTypes, NEW b \in Agents, NEW a \in Agents, NEW d \in Working,
         d.out = <<>>, d.send \in 1..Len(d.pairs)
  PROVE  \E t \in Nat \ {0} :
           LET k == d.send
               e == WithRequest(d, b)
           IN  /\ t \notin InFlight /\ t \notin Tids(d.pairs) /\ t \notin Tids(agent[b].pairs)
               /\ e \in Working /\ Same(e, d) /\ Len(e.pairs) = Len(d.pairs)
               /\ \A i \in 1..Len(d.pairs) :
                    e.pairs[i] = IF i = k THEN [d.pairs[i] EXCEPT !.tid = t] ELSE d.pairs[i]
               /\ e.out = <<[to |-> d.pairs[k].remote.addr,
                             msg |-> Probe(d.pairs[k], d.tiebreak, t)]>>
<1>. DEFINE k == d.send
            ps == d.pairs
            p == d.pairs[k]
            t == NewTid(d.pairs, b)
            q == [p EXCEPT !.tid = t]
            qs == [ps EXCEPT ![k] = q]
            o == <<[to |-> p.remote.addr, msg |-> Probe(p, d.tiebreak, t)]>>
            e == WithRequest(d, b)
<1>1. ps \in Seq(Pairs) /\ k \in 1..Len(ps) /\ k # 0
  BY DEF Working
<1>2. t \in Nat \ {0} /\ t \notin InFlight /\ t \notin Tids(ps) /\ t \notin Tids(agent[b].pairs)
  BY <1>1, NewTidIsNew
<1>3. /\ p \in Pairs /\ p.local.addr \in Addrs /\ p.remote.addr \in Addrs
      /\ p.nominated \in BOOLEAN /\ p.controlled \in BOOLEAN
  BY <1>1, RowTypes
<1>. HIDE DEF t
<1>4. e = [d EXCEPT !.pairs = [d.pairs EXCEPT ![k] = q], !.out = o]
  BY <1>1 DEF WithRequest, Probe, t
<1>5. q \in Pairs
  BY <1>2, <1>3 DEF Pairs
<1>6. o \in Outs
  <2>1. Probe(p, d.tiebreak, t) \in Message
    BY <1>2, <1>3 DEF Probe, Message, Working
  <2>. QED  BY <1>3, <2>1 DEF Outs
<1>. HIDE DEF q, o, e
<1>7. e = [d EXCEPT !.pairs = qs, !.out = o]
  BY <1>4
<1>. HIDE DEF ps
<1>8. /\ qs \in Seq(Pairs) /\ Len(qs) = Len(ps)
      /\ \A j \in 1..Len(ps) : qs[j] = IF j = k THEN q ELSE ps[j]
  BY <1>1, <1>5
<1>. HIDE DEF qs
<1>9. e \in Working /\ Same(e, d) /\ e.pairs = qs /\ e.out = o
  BY <1>6, <1>7, <1>8 DEF Working, Same
<1>10. \A i \in 1..Len(ps) : e.pairs[i] = IF i = k THEN [ps[i] EXCEPT !.tid = t] ELSE ps[i]
  BY <1>8, <1>9 DEF q, ps
<1>. QED  BY <1>2, <1>8, <1>9, <1>10 DEF ps, o, e, p

LEMMA SendsStep ==
  ASSUME IceTypes, NEW a \in Agents, NEW due, Sends(a, due)
  PROVE  SentBy(a) /\ IceTypes'
<1>. DEFINE b == Other(a)
            c == agent[a]
            d == Send(c, due)
            w == WithRequest(d, b)
            e == [w EXCEPT !.out = <<>>, !.send = 0]
            k == d.send
            o == w.out
<1>1. b \in Agents /\ b # a /\ Agents = {a, b}
  BY OtherAgent
<1>2. /\ UNCHANGED scene
      /\ agent' = [agent EXCEPT ![a] = e]
      /\ inq' = [inq EXCEPT ![b] = inq[b] \o Routed(a, o)]
  BY <1>1 DEF Sends
<1>3. /\ c \in Working /\ c.out = <<>> /\ c.send = 0
      /\ inq[a] \in Seq(Message) /\ inq[b] \in Seq(Message)
      /\ \A x \in ToSet(inq[a]) : x \in Message /\ x.tid # 0
      /\ \A x \in ToSet(inq[b]) : x \in Message /\ x.tid # 0
  BY <1>1, AgentTypes
<1>4. Sent(c, d) /\ (c.started = 0 => k = 0)
  <2>1. c.started = 0 => d = c
    BY DEF Send
  <2>. QED  BY <1>3, <2>1, SendSent
<1>. HIDE DEF d
<1>5. d \in Working /\ d.out = <<>> /\ Len(d.pairs) = Len(c.pairs) /\ k \in 0..Len(d.pairs)
      /\ d.tiebreak = c.tiebreak
  BY <1>3, <1>4 DEF Sent
<1>6. Tids(d.pairs) = Tids(c.pairs)
  <2>1. /\ DOMAIN d.pairs = 1..Len(c.pairs) /\ DOMAIN c.pairs = 1..Len(c.pairs)
    BY <1>3, <1>5 DEF Working
  <2>2. \A i \in 1..Len(c.pairs) : d.pairs[i].tid = c.pairs[i].tid
    BY <1>4 DEF Sent, Tested
  <2>. QED  BY <2>1, <2>2 DEF Tids
<1>7. PICK t \in Nat \ {0} :
        /\ t \notin InFlight /\ t \notin Tids(c.pairs) /\ t \notin Tids(agent[b].pairs)
        /\ w \in Working /\ Same(w, d) /\ Len(w.pairs) = Len(d.pairs)
        /\ \A i \in 1..Len(d.pairs) :
             w.pairs[i] = IF i = k THEN [d.pairs[i] EXCEPT !.tid = t] ELSE d.pairs[i]
        /\ o = IF k = 0 THEN <<>>
               ELSE <<[to |-> d.pairs[k].remote.addr, msg |-> Probe(d.pairs[k], d.tiebreak, t)]>>
  <2>1. CASE k = 0
    <3>1. w = d
      BY <2>1 DEF WithRequest
    <3>. DEFINE t == NewTid(c.pairs, b)
    <3>2. t \in Nat \ {0} /\ t \notin InFlight /\ t \notin Tids(c.pairs) /\ t \notin Tids(agent[b].pairs)
      BY <1>1, <1>3, NewTidIsNew DEF Working
    <3>. HIDE DEF t
    <3>3. \A i \in 1..Len(d.pairs) : i # k
      BY <2>1
    <3>. QED  BY <1>5, <2>1, <3>1, <3>2, <3>3 DEF Same
  <2>2. CASE k # 0
    <3>1. k \in 1..Len(d.pairs)
      BY <1>5, <2>2
    <3>. QED  BY <1>1, <1>5, <1>6, <2>2, <3>1, WithRequestRows
  <2>. QED  BY <2>1, <2>2
<1>. HIDE DEF w
<1>8. e \in CheckList /\ e.pairs = w.pairs /\ Same(e, d)
  BY <1>7 DEF Working, CheckList, Same
<1>. HIDE DEF e
<1>9. agent'[a] = e /\ agent'[b] = agent[b] /\ inq'[a] = inq[a] /\ inq'[b] = inq[b] \o Routed(a, o)
  BY <1>1, <1>2 DEF IceTypes
<1>10. o \in Outs
  BY <1>7 DEF Working
<1>11. /\ inq[b] \o Routed(a, o) \in Seq(Message)
       /\ \A r \in ToSet(inq[b] \o Routed(a, o)) :
            \/ r \in ToSet(inq[b])
            \/ /\ o # <<>> /\ r \in Message
               /\ r = [o[1].msg EXCEPT !.src = scene.seen[a][o[1].to]]
  <2>1. CASE Routed(a, o) = <<>>
    <3>1. inq[b] \o Routed(a, o) = inq[b]
      BY <1>3, <2>1
    <3>. QED  BY <1>3, <3>1
  <2>2. CASE Routed(a, o) # <<>>
    <3>. DEFINE x == [o[1].msg EXCEPT !.src = scene.seen[a][o[1].to]]
    <3>1. o # <<>> /\ x \in Message /\ Routed(a, o) = <<x>>
      BY <1>10, <2>2, RoutedIs
    <3>. HIDE DEF x
    <3>2. /\ inq[b] \o <<x>> \in Seq(Message)
          /\ \A r \in ToSet(inq[b] \o <<x>>) : r \in ToSet(inq[b]) \/ r = x
      BY <1>3, <3>1, Appended
    <3>. QED  BY <3>1, <3>2 DEF x
  <2>. QED  BY <2>1, <2>2
<1>12. ASSUME NEW r \in ToSet(inq'[b])
       PROVE  /\ r.tid # 0
              /\ \/ r \in ToSet(inq[b])
                 \/ /\ k # 0 /\ r.kind = "request" /\ r.tid = t /\ r.tiebreak = c.tiebreak
                    /\ r.controlled = d.pairs[k].controlled
                    /\ r.src = scene.seen[a][d.pairs[k].remote.addr]
  <2>1. CASE r \in ToSet(inq[b])
    BY <1>3, <2>1
  <2>2. CASE r \notin ToSet(inq[b])
    <3>. DEFINE y == Probe(d.pairs[k], d.tiebreak, t)
                z == [to |-> d.pairs[k].remote.addr, msg |-> y]
    <3>1. o # <<>> /\ r = [o[1].msg EXCEPT !.src = scene.seen[a][o[1].to]]
      BY <1>9, <1>11, <1>12, <2>2
    <3>2. k # 0 /\ o = <<z>>
      BY <1>7, <3>1
    <3>3. z.to = d.pairs[k].remote.addr /\ z.msg = y
      OBVIOUS
    <3>. HIDE DEF o, z
    <3>4. o[1] = z
      BY <3>2
    <3>5. r = [y EXCEPT !.src = scene.seen[a][d.pairs[k].remote.addr]]
      BY <3>1, <3>3, <3>4
    <3>6. /\ r.kind = "request" /\ r.tid = t /\ r.tiebreak = d.tiebreak
          /\ r.controlled = d.pairs[k].controlled
          /\ r.src = scene.seen[a][d.pairs[k].remote.addr]
      BY <3>5 DEF Probe
    <3>. QED  BY <1>5, <3>2, <3>6
  <2>. QED  BY <2>1, <2>2
<1>13. SentBy(a)
  <2>1. Len(agent'[a].pairs) = Len(d.pairs) /\ Same(agent'[a], d)
    BY <1>7, <1>8, <1>9
  <2>2. \A i \in 1..Len(d.pairs) :
          agent'[a].pairs[i] = IF i = k THEN [d.pairs[i] EXCEPT !.tid = t] ELSE d.pairs[i]
    BY <1>7, <1>8, <1>9
  <2>3. \A r \in ToSet(inq'[b]) :
          \/ r \in ToSet(inq[b])
          \/ /\ k # 0 /\ r.kind = "request" /\ r.tid = t /\ r.tiebreak = c.tiebreak
             /\ r.controlled = d.pairs[k].controlled
             /\ r.src = scene.seen[a][d.pairs[k].remote.addr]
    BY <1>12
  <2>4. agent'[b] = agent[b] /\ scene' = scene /\ inq'[a] = inq[a]
    BY <1>2, <1>9
  <2>5. t \notin InFlight /\ t \notin Tids(c.pairs) /\ t \notin Tids(agent[b].pairs)
    BY <1>7
  <2>. HIDE DEF k
  <2>. QED  BY <1>4, <1>5, <2>1, <2>2, <2>3, <2>4, <2>5, Zenon DEF SentBy, k
<1>14. IceTypes'
  <2>1. agent' \in [Agents -> CheckList]
    BY <1>2, <1>8 DEF IceTypes
  <2>2. inq' \in [Agents -> Seq(Message)]
    BY <1>1, <1>2, <1>11 DEF IceTypes
  <2>3. \A x \in ToSet(inq'[a]) : x.tid # 0
    BY <1>3, <1>9
  <2>4. \A x \in ToSet(inq'[b]) : x.tid # 0
    BY <1>12
  <2>5. scene' \in Scene
    BY <1>2 DEF IceTypes
  <2>. QED  BY <1>1, <2>1, <2>2, <2>3, <2>4, <2>5 DEF IceTypes
<1>. QED  BY <1>13, <1>14

RestartedBy(a) ==
  LET c == agent[a]
      e == agent'[a]
  IN  /\ Len(e.pairs) = Len(c.pairs) /\ e.index = 0 /\ e.started # 0
      /\ e.controlled = c.controlled /\ e.tiebreak = c.tiebreak /\ e.switched = c.switched
      /\ \A i \in 1..Len(c.pairs) : \E s \in States :
           /\ e.pairs[i] = [c.pairs[i] EXCEPT !.state = s]
           /\ s = IF Useless(c.pairs, i) THEN "pruned"
                  ELSE IF c.pairs[i].state = "frozen" THEN "waiting" ELSE c.pairs[i].state
      /\ agent'[Other(a)] = agent[Other(a)] /\ inq' = inq /\ scene' = scene

LEMMA RestartStep ==
  ASSUME IceTypes, NEW a \in Agents, Restart(a)
  PROVE  RestartedBy(a) /\ IceTypes'
<1>. DEFINE c == agent[a]
            ps == c.pairs
            new(i) == IF Useless(ps, i) THEN "pruned"
                      ELSE IF ps[i].state = "frozen" THEN "waiting" ELSE ps[i].state
            qs == [i \in DOMAIN ps |-> [ps[i] EXCEPT !.state = new(i)]]
            e == [c EXCEPT !.started = c.started + 1, !.index = 0, !.pairs = qs]
<1>1. Other(a) \in Agents /\ Other(a) # a
  BY OtherAgent
<1>2. agent[a] \in CheckList /\ ps \in Seq(Pairs)
  BY DEF IceTypes, CheckList
<1>3. agent' = [agent EXCEPT ![a] = e] /\ UNCHANGED <<inq, scene, todo>>
  BY <1>2 DEF Restart, IceTypes, CheckList
<1>. HIDE DEF ps
<1>4. DOMAIN ps = 1..Len(ps) /\ \A i \in 1..Len(ps) : ps[i] \in Pairs /\ ps[i].state \in States
  <2>1. DOMAIN ps = 1..Len(ps) /\ \A i \in 1..Len(ps) : ps[i] \in Pairs
    BY <1>2
  <2>. QED  BY <2>1 DEF Pairs
<1>5. \A i \in 1..Len(ps) : new(i) \in States
  BY <1>4 DEF States
<1>. HIDE DEF new
<1>6. \A i \in 1..Len(ps) : [ps[i] EXCEPT !.state = new(i)] \in Pairs
  BY <1>4, <1>5 DEF Pairs
<1>7. /\ qs \in Seq(Pairs) /\ Len(qs) = Len(ps)
      /\ \A i \in 1..Len(ps) : qs[i] = [ps[i] EXCEPT !.state = new(i)]
  BY <1>4, <1>6
<1>. HIDE DEF qs
<1>8. /\ e \in CheckList /\ e.pairs = qs /\ e.index = 0 /\ e.started # 0
      /\ e.controlled = c.controlled /\ e.tiebreak = c.tiebreak /\ e.switched = c.switched
  <2>. DEFINE n == c.started + 1
  <2>1. c \in CheckList
    BY <1>2
  <2>. HIDE DEF c
  <2>2. n \in Nat /\ n # 0 /\ e = [c EXCEPT !.started = n, !.index = 0, !.pairs = qs]
    BY <2>1 DEF CheckList
  <2>. HIDE DEF n, e
  <2>. QED  BY <1>7, <2>1, <2>2 DEF CheckList
<1>. HIDE DEF e
<1>9. agent'[a] = e /\ agent'[Other(a)] = agent[Other(a)] /\ agent' \in [Agents -> CheckList]
  BY <1>1, <1>3, <1>8 DEF IceTypes
<1>10. RestartedBy(a)
  BY <1>3, <1>5, <1>7, <1>8, <1>9 DEF RestartedBy, new, ps
<1>. QED  BY <1>3, <1>9, <1>10 DEF IceTypes

LEMMA LoseStep ==
  ASSUME IceTypes, NEW a \in Agents, Lose(a)
  PROVE  Fewer /\ IceTypes'
<1>1. inq[a] \in Seq(Message) /\ inq[a] # <<>> /\ inq' = [inq EXCEPT ![a] = Tail(inq[a])]
      /\ UNCHANGED <<agent, scene>>
  BY DEF IceTypes, Lose
<1>2. Tail(inq[a]) \in Seq(Message) /\ ToSet(Tail(inq[a])) \subseteq ToSet(inq[a])
  BY <1>1, TailElements
<1>3. inq' \in [Agents -> Seq(Message)] /\ \A b \in Agents : ToSet(inq'[b]) \subseteq ToSet(inq[b])
  BY <1>1, <1>2 DEF IceTypes
<1>. QED  BY <1>1, <1>3 DEF IceTypes, Fewer

LEMMA OvertakeStep ==
  ASSUME IceTypes, NEW a \in Agents, Overtake(a)
  PROVE  Fewer /\ IceTypes'
<1>. DEFINE s == inq[a]
            t == SubSeq(s, 3, Len(s))
            r == <<s[2], s[1]>> \o t
<1>1. s \in Seq(Message) /\ Len(s) > 1 /\ inq' = [inq EXCEPT ![a] = r] /\ UNCHANGED <<agent, scene>>
  BY DEF IceTypes, Overtake
<1>. HIDE DEF s
<1>2. s[1] \in Message /\ s[2] \in Message /\ 1 \in DOMAIN s /\ 2 \in DOMAIN s
  BY <1>1
<1>3. /\ t \in Seq(Message) /\ Len(t) = Len(s) - 2
      /\ \A i \in 1..Len(t) : t[i] = s[i + 2] /\ i + 2 \in DOMAIN s
  BY <1>1
<1>. HIDE DEF t
<1>4. /\ r \in Seq(Message) /\ Len(r) = Len(t) + 2
      /\ \A i \in 1..Len(t) + 2 : r[i] = IF i = 1 THEN s[2] ELSE IF i = 2 THEN s[1] ELSE t[i - 2]
  BY <1>2, <1>3
<1>. HIDE DEF r
<1>5. ToSet(r) \subseteq ToSet(s)
  <2>1. ASSUME NEW i \in 1..Len(t) + 2  PROVE r[i] \in ToSet(s)
    <3>1. CASE i = 1 \/ i = 2
      BY <1>2, <1>3, <1>4, <3>1 DEF ToSet
    <3>2. CASE i > 2
      <4>1. Len(t) \in Nat
        BY <1>3
      <4>2. i - 2 \in 1..Len(t) /\ r[i] = t[i - 2]
        BY <1>4, <3>2, <4>1
      <4>. QED  BY <1>3, <4>2 DEF ToSet
    <3>. QED  BY <1>3, <3>1, <3>2
  <2>. QED  BY <1>4, <2>1 DEF ToSet
<1>6. inq' \in [Agents -> Seq(Message)] /\ \A b \in Agents : ToSet(inq'[b]) \subseteq ToSet(inq[b])
  BY <1>1, <1>4, <1>5 DEF IceTypes, s
<1>. QED  BY <1>1, <1>6 DEF IceTypes, Fewer

Step == \/ \E a \in Agents : ReceivedBy(a) \/ SentBy(a) \/ RestartedBy(a)
        \/ Fewer

LEMMA NextStep ==
  ASSUME IceTypes, [Next]_vars
  PROVE  Step /\ IceTypes'
<1>1. ASSUME NEW a \in Agents, Receive(a)  PROVE Step /\ IceTypes'
  BY <1>1, ReceiveStep DEF Step
<1>2. ASSUME NEW a \in Agents, Tick(a)  PROVE Step /\ IceTypes'
  <2>1. PICK due : Sends(a, due)
    BY <1>2 DEF Tick
  <2>. QED  BY <2>1, SendsStep DEF Step
<1>3. ASSUME NEW a \in Agents, Restart(a)  PROVE Step /\ IceTypes'
  BY <1>3, RestartStep DEF Step
<1>4. ASSUME NEW a \in Agents, Lose(a)  PROVE Step /\ IceTypes'
  BY <1>4, LoseStep DEF Step
<1>5. ASSUME NEW a \in Agents, Overtake(a)  PROVE Step /\ IceTypes'
  BY <1>5, OvertakeStep DEF Step
<1>6. CASE UNCHANGED vars
  BY <1>6 DEF vars, Step, Fewer, IceTypes
<1>. QED  BY <1>1, <1>2, <1>3, <1>4, <1>5, <1>6 DEF Next
-----------------------------------------------------------------------------
(***************************************************************************)
(* The nominated pair keeps its place.  A place behind the end of the      *)
(* table is behind every table there will be.                              *)
(***************************************************************************)
IndexInv == \A a \in Agents :
  LET c == agent[a] IN
  /\ c.index \in 1..Len(c.pairs) => c.pairs[c.index].nominated
  /\ c.index # 0 /\ c.index \notin 1..Len(c.pairs) => c.index > MaxPairs

LEMMA IndexStep ==
  ASSUME IceTypes, IceTypes', IndexInv, Step
  PROVE  IndexInv'
<1>. DEFINE Ok(c) == /\ c.index \in 1..Len(c.pairs) => c.pairs[c.index].nominated
                     /\ c.index # 0 /\ c.index \notin 1..Len(c.pairs) => c.index > MaxPairs
<1>1. \A a \in Agents : Ok(agent[a])
  BY DEF IndexInv
<1>2. SUFFICES \A a \in Agents : Ok(agent'[a])
  BY DEF IndexInv
<1>3. ASSUME NEW a \in Agents, ReceivedBy(a)  PROVE \A b \in Agents : Ok(agent'[b])
  <2>1. PICK m \in ToSet(inq[a]), d \in Working :
          /\ IF agent[a].started = 0 THEN d = agent[a] ELSE Handled(agent[a], d, m)
          /\ agent'[a].pairs = d.pairs /\ agent'[a].index = d.index
          /\ agent'[Other(a)] = agent[Other(a)]
    BY <1>3 DEF ReceivedBy, Same
  <2>2. agent[a] \in Working
    BY AgentTypes
  <2>3. Ok(d)
    BY <1>1, <2>1, <2>2, HandledIndex
  <2>. QED  BY <1>1, <2>1, <2>3, OtherAgent
<1>4. ASSUME NEW a \in Agents, SentBy(a)  PROVE \A b \in Agents : Ok(agent'[b])
  <2>1. PICK d \in Working, t \in Nat \ {0} :
          /\ Sent(agent[a], d)
          /\ agent'[a].index = d.index /\ Len(agent'[a].pairs) = Len(d.pairs)
          /\ \A i \in 1..Len(d.pairs) :
               agent'[a].pairs[i] = IF i = d.send THEN [d.pairs[i] EXCEPT !.tid = t] ELSE d.pairs[i]
          /\ agent'[Other(a)] = agent[Other(a)]
    BY <1>4 DEF SentBy, Same
  <2>2. \A i \in 1..Len(d.pairs) : agent'[a].pairs[i].nominated = d.pairs[i].nominated
    <3>1. \A i \in 1..Len(d.pairs) : d.pairs[i] \in Pairs
      BY RowTypes
    <3>. QED  BY <2>1, <3>1 DEF Pairs
  <2>3. Ok(d)
    <3>1. Len(d.pairs) = Len(agent[a].pairs)
          /\ \A i \in 1..Len(d.pairs) : agent[a].pairs[i].nominated => d.pairs[i].nominated
      BY <2>1 DEF Sent, Tested
    <3>. QED  BY <1>1, <2>1, <3>1 DEF Sent
  <2>. QED  BY <1>1, <2>1, <2>2, <2>3, OtherAgent
<1>5. ASSUME NEW a \in Agents, RestartedBy(a)  PROVE \A b \in Agents : Ok(agent'[b])
  <2>1. agent'[a].index = 0 /\ agent'[Other(a)] = agent[Other(a)]
    BY <1>5 DEF RestartedBy
  <2>. QED  BY <1>1, <2>1, OtherAgent
<1>6. CASE Fewer
  BY <1>1, <1>6 DEF Fewer
<1>. QED  BY <1>3, <1>4, <1>5, <1>6 DEF Step
-----------------------------------------------------------------------------
(***************************************************************************)
(* What messages say of the path of a check: a request on its way shows    *)
(* the address its sender is seen under, and its answer too.               *)
(***************************************************************************)
PathOk(seen, a, sent, got, p) ==
  /\ p.state = "progress" => p.tid # 0
  /\ p.state = "succeeded" => /\ seen[a][p.remote.addr] = p.local.addr
                              /\ seen[Other(a)][p.local.addr] = p.remote.addr
  /\ \A m \in sent : m.kind = "request" /\ m.tid = p.tid => m.src = seen[a][p.remote.addr]
  /\ \A m \in got : m.kind = "success" /\ m.tid = p.tid =>
       m.mapped = seen[a][p.remote.addr] /\ m.src = seen[Other(a)][m.mapped]

PathInv == \A a \in Agents : \A i \in 1..Len(agent[a].pairs) :
  PathOk(scene.seen, a, ToSet(inq[Other(a)]), ToSet(inq[a]), agent[a].pairs[i])

LEMMA TidsOf ==
  ASSUME IceTypes, NEW a \in Agents
  PROVE  /\ \A i \in 1..Len(agent[a].pairs) : agent[a].pairs[i].tid \in Tids(agent[a].pairs)
         /\ \A m \in ToSet(inq[a]) : m.tid \in InFlight
<1>1. agent[a].pairs \in Seq(Pairs) /\ inq[a] \in Seq(Message)
  BY DEF IceTypes, CheckList
<1>. QED  BY <1>1 DEF Tids, InFlight, ToSet

LEMMA PathStep ==
  ASSUME IceTypes, IceTypes', PathInv, Step
  PROVE  PathInv'
<1>. DEFINE Ok(a, p) == PathOk(scene.seen, a, ToSet(inq[Other(a)]), ToSet(inq[a]), p)
            Works(a, p) == /\ scene.seen[a][p.remote.addr] = p.local.addr
                           /\ scene.seen[Other(a)][p.local.addr] = p.remote.addr
            New(a, p) == PathOk(scene.seen, a, ToSet(inq'[Other(a)]), ToSet(inq'[a]), p)
<1>1. \A a \in Agents : \A i \in 1..Len(agent[a].pairs) : Ok(a, agent[a].pairs[i])
  BY DEF PathInv
<1>2. SUFFICES \A a \in Agents : \A i \in 1..Len(agent'[a].pairs) : New(a, agent'[a].pairs[i])
  <2>1. scene' = scene
    BY DEF Step, ReceivedBy, SentBy, RestartedBy, Fewer
  <2>. QED  BY <2>1 DEF PathInv
<1>3. ASSUME NEW a \in Agents, ReceivedBy(a)
      PROVE  \A b \in Agents : \A i \in 1..Len(agent'[b].pairs) : New(b, agent'[b].pairs[i])
  <2>. DEFINE b == Other(a)
              c == agent[a]
  <2>1. PICK m \in ToSet(inq[a]), d \in Working :
          /\ m \in Message /\ m.tid # 0
          /\ IF c.started = 0 THEN d = c ELSE Handled(c, d, m)
          /\ agent'[a].pairs = d.pairs
          /\ agent'[b] = agent[b] /\ scene' = scene
          /\ ToSet(inq'[a]) \subseteq ToSet(inq[a])
          /\ \A r \in ToSet(inq'[b]) :
               \/ r \in ToSet(inq[b])
               \/ /\ m.kind = "request" /\ r.tid = m.tid /\ r.kind \in {"conflict", "success"}
                  /\ r.mapped = m.src /\ r.src = scene.seen[a][m.src]
    BY <1>3 DEF ReceivedBy
  <2>2. b \in Agents /\ Other(b) = a /\ Agents = {a, b}
    BY OtherAgent
  <2>3. c \in Working /\ \A x \in ToSet(inq[a]) \cup ToSet(inq[b]) : x.tid # 0
    BY <2>2, AgentTypes
  <2>4. ASSUME NEW j \in 1..Len(agent'[a].pairs)  PROVE New(a, agent'[a].pairs[j])
    <3>. DEFINE p == d.pairs[j]
    <3>1. \/ p.state = "waiting" /\ p.tid = 0
          \/ \E i \in 1..Len(c.pairs) : From(p, c.pairs[i], m)
      <4>1. CASE c.started = 0
        BY <2>1, <2>4, <4>1 DEF From
      <4>2. CASE c.started # 0
        BY <2>1, <2>3, <2>4, <4>2, HandledRow
      <4>. QED  BY <4>1, <4>2
    <3>. HIDE DEF p
    <3>2. CASE p.state = "waiting" /\ p.tid = 0
      <4>1. \A r \in ToSet(inq'[b]) \cup ToSet(inq'[a]) : r.tid # 0
        BY <2>1, <2>3
      <4>. QED  BY <2>1, <3>2, <4>1 DEF p, PathOk
    <3>3. ASSUME NEW i \in 1..Len(c.pairs), From(p, c.pairs[i], m)
          PROVE  New(a, agent'[a].pairs[j])
      <4>. DEFINE q == c.pairs[i]
      <4>1. Ok(a, q)
        BY <1>1
      <4>2. /\ p.local = q.local /\ p.remote = q.remote
            /\ p.tid = q.tid \/ p.tid = 0
            /\ p.state = "succeeded" => q.state = "succeeded" \/ Proves(m, p, q)
            /\ p.state = "progress" => q.state = "progress" /\ p.tid = q.tid
        BY <3>3 DEF From
      <4>. HIDE DEF q
      <4>3. p.state = "succeeded" => Works(a, p)
        BY <2>1, <4>1, <4>2 DEF Proves, PathOk
      <4>4. \A r \in ToSet(inq'[b]) : r.kind = "request" => r \in ToSet(inq[b])
        BY <2>1
      <4>5. \A r \in ToSet(inq[b]) \cup ToSet(inq[a]) : r.tid = p.tid => r.tid = q.tid
        BY <2>3, <4>2
      <4>6. /\ \A r \in ToSet(inq'[b]) : r.kind = "request" /\ r.tid = p.tid =>
                  r.src = scene.seen[a][p.remote.addr]
            /\ \A r \in ToSet(inq'[a]) : r.kind = "success" /\ r.tid = p.tid =>
                  r.mapped = scene.seen[a][p.remote.addr] /\ r.src = scene.seen[b][r.mapped]
        BY <2>1, <4>1, <4>2, <4>4, <4>5 DEF PathOk
      <4>7. p.state = "progress" => p.tid # 0
        BY <4>1, <4>2 DEF PathOk
      <4>. QED  BY <2>1, <4>3, <4>6, <4>7 DEF p, PathOk
    <3>. QED  BY <3>1, <3>2, <3>3
  <2>5. ASSUME NEW j \in 1..Len(agent'[b].pairs)  PROVE New(b, agent'[b].pairs[j])
    <3>. DEFINE p == agent[b].pairs[j]
    <3>1. agent'[b].pairs[j] = p /\ Ok(b, p)
      BY <1>1, <2>1, <2>2, <2>5
    <3>. HIDE DEF p
    <3>2. m.kind = "request" /\ m.tid = p.tid => m.src = scene.seen[b][p.remote.addr]
      BY <2>1, <2>2, <3>1 DEF PathOk
    <3>3. \A r \in ToSet(inq'[b]) : r.kind = "success" /\ r.tid = p.tid =>
            r.mapped = scene.seen[b][p.remote.addr] /\ r.src = scene.seen[a][r.mapped]
      BY <2>1, <2>2, <3>1, <3>2 DEF PathOk
    <3>4. \A r \in ToSet(inq'[a]) : r.kind = "request" /\ r.tid = p.tid =>
            r.src = scene.seen[b][p.remote.addr]
      BY <2>1, <2>2, <3>1 DEF PathOk
    <3>. QED  BY <2>1, <2>2, <3>1, <3>3, <3>4 DEF PathOk
  <2>. QED  BY <2>2, <2>4, <2>5
<1>4. ASSUME NEW a \in Agents, SentBy(a)
      PROVE  \A b \in Agents : \A i \in 1..Len(agent'[b].pairs) : New(b, agent'[b].pairs[i])
  <2>. DEFINE b == Other(a)
              c == agent[a]
  <2>1. PICK d \in Working, t \in Nat \ {0} :
          /\ Sent(c, d)
          /\ t \notin InFlight /\ t \notin Tids(c.pairs) /\ t \notin Tids(agent[b].pairs)
          /\ Len(agent'[a].pairs) = Len(d.pairs)
          /\ \A i \in 1..Len(d.pairs) :
               agent'[a].pairs[i] = IF i = d.send THEN [d.pairs[i] EXCEPT !.tid = t] ELSE d.pairs[i]
          /\ agent'[b] = agent[b] /\ scene' = scene /\ inq'[a] = inq[a]
          /\ \A r \in ToSet(inq'[b]) :
               \/ r \in ToSet(inq[b])
               \/ /\ d.send # 0 /\ r.kind = "request" /\ r.tid = t
                  /\ r.src = scene.seen[a][d.pairs[d.send].remote.addr]
    BY <1>4 DEF SentBy
  <2>2. b \in Agents /\ Other(b) = a /\ Agents = {a, b}
    BY OtherAgent
  <2>3. /\ \A x \in ToSet(inq[a]) \cup ToSet(inq[b]) : x.tid # t /\ x.tid # 0
        /\ \A i \in 1..Len(c.pairs) : c.pairs[i].tid # t
    BY <2>1, <2>2, AgentTypes, TidsOf
  <2>4. ASSUME NEW j \in 1..Len(agent'[a].pairs)  PROVE New(a, agent'[a].pairs[j])
    <3>. DEFINE p == agent'[a].pairs[j]
                q == c.pairs[j]
                k == d.send
    <3>1. j \in 1..Len(c.pairs) /\ d.pairs[j] \in Pairs /\ Tested(c, d, j)
      BY <2>1, <2>4, RowTypes DEF Sent
    <3>2. /\ p.local = q.local /\ p.remote = q.remote
          /\ p.tid = IF j = k THEN t ELSE q.tid
          /\ p.state = "succeeded" => q.state = "succeeded"
          /\ j # k /\ p.state = "progress" => q.state = "progress"
      <4>1. p = IF j = k THEN [d.pairs[j] EXCEPT !.tid = t] ELSE d.pairs[j]
        BY <2>1, <2>4
      <4>2. /\ p.local = d.pairs[j].local /\ p.remote = d.pairs[j].remote
            /\ p.state = d.pairs[j].state /\ p.tid = IF j = k THEN t ELSE d.pairs[j].tid
        BY <3>1, <4>1 DEF Pairs
      <4>. QED  BY <3>1, <4>2 DEF Tested
    <3>3. Ok(a, q)
      BY <1>1, <3>1
    <3>4. d.send # 0 /\ d.send = j => d.pairs[d.send].remote = q.remote
      BY <3>1 DEF Tested
    <3>. HIDE DEF p, q
    <3>5. \A r \in ToSet(inq'[b]) : r.kind = "request" /\ r.tid = p.tid =>
             r.src = scene.seen[a][p.remote.addr]
      <4>1. ASSUME NEW r \in ToSet(inq'[b]), r.kind = "request", r.tid = p.tid
            PROVE  r.src = scene.seen[a][p.remote.addr]
        <5>1. CASE r \in ToSet(inq[b])
          BY <2>3, <3>2, <3>3, <4>1, <5>1 DEF PathOk
        <5>2. CASE r \notin ToSet(inq[b])
          <6>1. r.tid = t /\ k # 0 /\ r.src = scene.seen[a][d.pairs[k].remote.addr]
            BY <2>1, <4>1, <5>2
          <6>2. j = k
            BY <2>3, <3>1, <3>2, <4>1, <6>1 DEF q
          <6>. QED  BY <3>2, <3>4, <6>1, <6>2
        <5>. QED  BY <5>1, <5>2
      <4>. QED  BY <4>1
    <3>6. \A r \in ToSet(inq'[a]) : r.kind = "success" /\ r.tid = p.tid =>
             r.mapped = scene.seen[a][p.remote.addr] /\ r.src = scene.seen[b][r.mapped]
      BY <2>1, <2>3, <3>2, <3>3 DEF PathOk
    <3>7. p.state = "progress" => p.tid # 0
      BY <3>2, <3>3 DEF PathOk
    <3>8. p.state = "succeeded" => Works(a, p)
      BY <3>2, <3>3 DEF PathOk
    <3>9. agent'[a].pairs[j] = p
      BY DEF p
    <3>. QED  BY <2>1, <3>5, <3>6, <3>7, <3>8, <3>9 DEF PathOk
  <2>5. ASSUME NEW j \in 1..Len(agent'[b].pairs)  PROVE New(b, agent'[b].pairs[j])
    <3>1. agent'[b].pairs[j] = agent[b].pairs[j] /\ Ok(b, agent[b].pairs[j])
      BY <1>1, <2>1, <2>2, <2>5
    <3>2. \A r \in ToSet(inq'[b]) : r.kind = "success" => r \in ToSet(inq[b])
      BY <2>1
    <3>. QED  BY <2>1, <2>2, <3>1, <3>2 DEF PathOk
  <2>. QED  BY <2>2, <2>4, <2>5
<1>5. ASSUME NEW a \in Agents, RestartedBy(a)
      PROVE  \A b \in Agents : \A i \in 1..Len(agent'[b].pairs) : New(b, agent'[b].pairs[i])
  <2>1. /\ Len(agent'[a].pairs) = Len(agent[a].pairs)
        /\ \A i \in 1..Len(agent[a].pairs) : \E s \in States :
             /\ agent'[a].pairs[i] = [agent[a].pairs[i] EXCEPT !.state = s]
             /\ s \in {"pruned", "waiting", agent[a].pairs[i].state}
        /\ agent'[Other(a)] = agent[Other(a)] /\ inq' = inq /\ scene' = scene
    BY <1>5 DEF RestartedBy
  <2>2. \A i \in 1..Len(agent[a].pairs) : agent[a].pairs[i] \in Pairs
    BY AgentTypes, RowTypes
  <2>3. ASSUME NEW i \in 1..Len(agent[a].pairs)
        PROVE  LET p == agent'[a].pairs[i]
                   q == agent[a].pairs[i]
               IN  /\ p.local = q.local /\ p.remote = q.remote /\ p.tid = q.tid
                   /\ p.state \in {"pruned", "waiting", q.state}
    BY <2>1, <2>2 DEF Pairs
  <2>4. ASSUME NEW b \in Agents, NEW i \in 1..Len(agent'[b].pairs)
        PROVE  New(b, agent'[b].pairs[i])
    <3>. DEFINE p == agent'[b].pairs[i]
                q == agent[b].pairs[i]
    <3>1. i \in 1..Len(agent[b].pairs)
      BY <2>1, <2>4, OtherAgent
    <3>2. /\ p.local = q.local /\ p.remote = q.remote /\ p.tid = q.tid
          /\ p.state \in {"pruned", "waiting", q.state}
      BY <2>1, <2>3, <3>1, OtherAgent
    <3>3. Ok(b, q)
      BY <1>1, <3>1
    <3>. QED  BY <2>1, <3>2, <3>3 DEF PathOk
  <2>. QED  BY <2>4
<1>6. CASE Fewer
  <2>1. \A a \in Agents : Other(a) \in Agents
    BY OtherAgent
  <2>2. ASSUME NEW a \in Agents, NEW i \in 1..Len(agent'[a].pairs)  PROVE New(a, agent'[a].pairs[i])
    <3>1. Ok(a, agent[a].pairs[i]) /\ agent' = agent
      BY <1>1, <1>6, <2>2 DEF Fewer
    <3>2. ToSet(inq'[a]) \subseteq ToSet(inq[a]) /\ ToSet(inq'[Other(a)]) \subseteq ToSet(inq[Other(a)])
      BY <1>6, <2>1 DEF Fewer
    <3>. QED  BY <3>1, <3>2 DEF PathOk
  <2>. QED  BY <2>2
<1>. QED  BY <1>3, <1>4, <1>5, <1>6 DEF Step
-----------------------------------------------------------------------------
(***************************************************************************)
(* Roles.  When both agents begin in one role, one of them yields, the one *)
(* whose tie-breaker says so; the other never changes its role.  As long   *)
(* as the one that yields has not, its table is the one it was given and   *)
(* pairs that were pruned have not been checked, so that no check is left  *)
(* when it yields: an answer that comes later finds none.                  *)
(***************************************************************************)
Yields(z, a) == /\ z.controlled[a] = z.controlled[Other(a)]
                /\ z.controlled[a] <=> z.tiebreak[a] >= z.tiebreak[Other(a)]

PrunedOk(z, a, c) ==
  /\ Len(c.pairs) = Len(z.pairs[a])
  /\ \A i \in 1..Len(c.pairs) :
       /\ c.pairs[i].local = z.pairs[a][i].local /\ c.pairs[i].remote = z.pairs[a][i].remote
       /\ c.pairs[i].state = "pruned" <=> c.started # 0 /\ Useless(z.pairs[a], i)
       /\ c.started = 0 \/ c.pairs[i].state = "pruned" => c.pairs[i].tid = 0

RoleOk(z, a, c, sent, got) ==
  /\ c.tiebreak = z.tiebreak[a]
  /\ \A m \in sent : m.kind = "request" => m.tiebreak = z.tiebreak[a]
  /\ \A i \in 1..Len(c.pairs) : c.pairs[i].tid # 0 => c.pairs[i].controlled = c.controlled
  /\ c.switched = 0 =>
       /\ c.controlled = z.controlled[a]
       /\ \A m \in sent : m.kind = "request" => m.controlled = z.controlled[a]
  /\ ~Yields(z, a) => c.switched = 0 /\ \A m \in got : m.kind # "conflict"
  /\ Yields(z, a) =>
       /\ c.switched # 0 => c.switched = 1 /\ c.controlled = ~z.controlled[a]
       /\ c.switched = 0 => PrunedOk(z, a, c) /\ \A m \in got : m.kind # "success"
       /\ \A i \in 1..Len(c.pairs) :
            /\ \A m \in sent : m.kind = "request" /\ m.tid = c.pairs[i].tid =>
                 c.pairs[i].controlled = m.controlled
            /\ \A m \in got : m.kind = "conflict" /\ m.tid = c.pairs[i].tid =>
                 c.pairs[i].controlled = z.controlled[a]

RoleInv == \A a \in Agents :
  RoleOk(scene, a, agent[a], ToSet(inq[Other(a)]), ToSet(inq[a]))

LEMMA OneYields ==
  ASSUME IceTypes, Distinct, NEW a \in Agents
  PROVE  /\ Yields(scene, a) => ~Yields(scene, Other(a))
         /\ scene.controlled[a] = scene.controlled[Other(a)] =>
              Yields(scene, a) \/ Yields(scene, Other(a))
         /\ scene.controlled[a] \in BOOLEAN /\ scene.controlled[Other(a)] \in BOOLEAN
<1>1. Other(a) \in Agents /\ Other(a) # a /\ Other(Other(a)) = a
  BY OtherAgent
<1>2. /\ scene.tiebreak[a] \in Nat /\ scene.tiebreak[Other(a)] \in Nat
      /\ scene.controlled[a] \in BOOLEAN /\ scene.controlled[Other(a)] \in BOOLEAN
  BY <1>1 DEF IceTypes, Scene
<1>3. scene.tiebreak[a] # scene.tiebreak[Other(a)]
  BY <1>1 DEF Distinct
<1>. QED  BY <1>1, <1>2, <1>3 DEF Yields

\* Who gives in when a request of b reaches a, and who does not.
LEMMA WhoYields ==
  ASSUME IceTypes, Distinct, RoleInv, NEW a \in Agents,
         NEW m \in ToSet(inq[a]), m.kind = "request", m \in Message
  PROVE  /\ Yielding(agent[a], m) <=> Yields(scene, a) /\ agent[a].switched = 0
         /\ ~Yields(scene, a) => agent[a].controlled = scene.controlled[a]
         /\ agent[Other(a)].switched = 0 => m.controlled = scene.controlled[Other(a)]
<1>. DEFINE b == Other(a)
            c == agent[a]
<1>1. b \in Agents /\ Other(b) = a
  BY OtherAgent
<1>2. RoleOk(scene, a, c, ToSet(inq[b]), ToSet(inq[a]))
  BY DEF RoleInv
<1>3. RoleOk(scene, b, agent[b], ToSet(inq[a]), ToSet(inq[b]))
  BY <1>1 DEF RoleInv
<1>4. /\ m.tiebreak = scene.tiebreak[b] /\ c.tiebreak = scene.tiebreak[a]
      /\ scene.tiebreak[a] \in Nat /\ scene.tiebreak[b] \in Nat
      /\ c.controlled \in BOOLEAN /\ m.controlled \in BOOLEAN
  BY <1>1, <1>2, <1>3 DEF RoleOk, IceTypes, Scene, CheckList, Message
<1>5. /\ agent[b].switched = 0 => m.controlled = scene.controlled[b]
      /\ c.switched = 0 => c.controlled = scene.controlled[a]
      /\ ~Yields(scene, b) => agent[b].switched = 0
      /\ ~Yields(scene, a) => c.switched = 0
      /\ Yields(scene, a) /\ c.switched # 0 => c.controlled = ~scene.controlled[a]
  BY <1>2, <1>3 DEF RoleOk
<1>6. /\ scene.controlled[a] \in BOOLEAN /\ scene.controlled[b] \in BOOLEAN
      /\ Yields(scene, a) => ~Yields(scene, b)
  BY OneYields
<1>7. Wins(c, m) <=> scene.tiebreak[a] >= scene.tiebreak[b]
  BY <1>4 DEF Wins
<1>8. ASSUME Yielding(c, m)  PROVE Yields(scene, a) /\ c.switched = 0
  <2>1. c.controlled = m.controlled /\ (c.controlled <=> Wins(c, m))
    BY <1>4, <1>8 DEF Yielding
  <2>2. CASE ~Yields(scene, a)
    <3>1. c.controlled = scene.controlled[a]
      BY <1>5, <2>2
    <3>2. scene.controlled[a] = scene.controlled[b]
      BY <1>1, <1>5, <2>1, <3>1 DEF Yields
    <3>. QED  BY <1>7, <2>1, <2>2, <3>1, <3>2 DEF Yields
  <2>3. CASE Yields(scene, a)
    <3>1. m.controlled = scene.controlled[a]
      BY <1>5, <1>6, <2>3 DEF Yields
    <3>. QED  BY <1>5, <1>6, <2>1, <2>3, <3>1
  <2>. QED  BY <2>2, <2>3
<1>9. ASSUME Yields(scene, a), c.switched = 0  PROVE Yielding(c, m)
  <2>1. m.controlled = scene.controlled[a] /\ c.controlled = scene.controlled[a]
    BY <1>5, <1>6, <1>9 DEF Yields
  <2>. QED  BY <1>7, <1>9, <2>1 DEF Yields, Yielding
<1>. QED  BY <1>5, <1>8, <1>9

LEMMA RoleReceive ==
  ASSUME IceTypes, Distinct, RoleInv, NEW a \in Agents, ReceivedBy(a)
  PROVE  /\ RoleOk(scene, a, agent'[a], ToSet(inq'[Other(a)]), ToSet(inq'[a]))
         /\ RoleOk(scene, Other(a), agent'[Other(a)], ToSet(inq'[a]), ToSet(inq'[Other(a)]))
<1>. DEFINE b == Other(a)
            c == agent[a]
            e == agent'[a]
            z == scene
<1>1. PICK m \in ToSet(inq[a]), d \in Working :
        /\ m \in Message /\ m.tid # 0
        /\ IF c.started = 0 THEN d = c ELSE Handled(c, d, m)
        /\ e.pairs = d.pairs /\ Same(e, d) /\ agent'[b] = agent[b]
        /\ ToSet(inq'[a]) \subseteq ToSet(inq[a])
        /\ \A r \in ToSet(inq'[b]) :
             \/ r \in ToSet(inq[b])
             \/ /\ c.started # 0 /\ m.kind = "request" /\ r.tid = m.tid
                /\ r.kind = IF c.controlled = m.controlled /\ ~Yielding(c, m)
                            THEN "conflict" ELSE "success"
  BY DEF ReceivedBy
<1>2. b \in Agents /\ Other(b) = a /\ c \in Working
  BY OtherAgent, AgentTypes
<1>3. RoleOk(z, a, c, ToSet(inq[b]), ToSet(inq[a]))
  BY DEF RoleInv
<1>4. RoleOk(z, b, agent[b], ToSet(inq[a]), ToSet(inq[b]))
  BY <1>2 DEF RoleInv
<1>5. /\ Yields(z, a) => ~Yields(z, b)
      /\ z.controlled[a] = z.controlled[b] => Yields(z, a) \/ Yields(z, b)
      /\ z.controlled[a] \in BOOLEAN /\ z.controlled[b] \in BOOLEAN
  BY OneYields
<1>6. m.kind = "request" =>
        /\ Yielding(c, m) <=> Yields(z, a) /\ c.switched = 0
        /\ ~Yields(z, a) => c.controlled = z.controlled[a]
        /\ agent[b].switched = 0 => m.controlled = z.controlled[b]
  BY <1>1, WhoYields
<1>7. \A r \in ToSet(inq'[b]) : r.kind = "request" => r \in ToSet(inq[b])
  BY <1>1
<1>8. CASE c.started = 0
  <2>1. d = c /\ ToSet(inq'[b]) \subseteq ToSet(inq[b])
    BY <1>1, <1>8
  <2>2. RoleOk(z, a, e, ToSet(inq'[b]), ToSet(inq'[a]))
    BY <1>1, <1>3, <2>1 DEF RoleOk, PrunedOk, Same
  <2>3. RoleOk(z, b, agent'[b], ToSet(inq'[a]), ToSet(inq'[b]))
    BY <1>1, <1>4, <2>1 DEF RoleOk
  <2>. QED  BY <2>2, <2>3
<1>9. CASE c.started # 0
  <2>1. Handled(c, d, m)
    BY <1>1, <1>9
  <2>2. RoleOk(z, a, d, ToSet(inq'[b]), ToSet(inq'[a]))
    <3>1. d.tiebreak = z.tiebreak[a]
      BY <1>3, <2>1 DEF Handled, RoleOk
    <3>2. Refused(c, m) => Yields(z, a) /\ c.switched = 0
      <4>1. SUFFICES ASSUME Refused(c, m)  PROVE Yields(z, a) /\ c.switched = 0
        OBVIOUS
      <4>2. PICK i \in 1..Len(c.pairs) : m.kind = "conflict" /\ c.pairs[i].tid = m.tid
        BY <4>1 DEF Refused
      <4>3. Yields(z, a)
        BY <1>1, <1>3, <4>2 DEF RoleOk
      <4>4. c.pairs[i].controlled = c.controlled /\ c.pairs[i].controlled = z.controlled[a]
        BY <1>1, <1>3, <4>2, <4>3 DEF RoleOk
      <4>5. c.switched # 0 => c.controlled = ~z.controlled[a]
        BY <1>3, <4>3 DEF RoleOk
      <4>. QED  BY <1>5, <4>3, <4>4, <4>5
    <3>3. Yielding(c, m) => Yields(z, a) /\ c.switched = 0
      BY <1>6 DEF Yielding
    <3>4. ASSUME Yielding(c, m) \/ Refused(c, m)
          PROVE  /\ d.switched = 1 /\ Unchecked(d) /\ Yields(z, a)
                 /\ d.controlled = ~z.controlled[a]
      <4>1. Yields(z, a) /\ c.switched = 0 /\ c.controlled = z.controlled[a] /\ PrunedOk(z, a, c)
        BY <1>3, <3>2, <3>3, <3>4 DEF RoleOk
      <4>2. PrunedUnchecked(c)
        BY <4>1 DEF PrunedOk, PrunedUnchecked
      <4>3. d.switched = 1 /\ Unchecked(d)
        BY <2>1, <3>4, <4>1, <4>2 DEF Handled
      <4>4. CASE Yielding(c, m)
        BY <2>1, <4>1, <4>3, <4>4 DEF Handled
      <4>5. CASE Refused(c, m)
        <5>1. PICK i \in 1..Len(c.pairs) :
                c.pairs[i].tid = m.tid /\ d.controlled = ~c.pairs[i].controlled
          BY <2>1, <4>5 DEF Handled
        <5>2. c.pairs[i].controlled = z.controlled[a]
          BY <1>1, <1>3, <4>1, <4>5, <5>1 DEF RoleOk, Refused
        <5>. QED  BY <4>1, <4>3, <5>1, <5>2
      <4>. QED  BY <3>4, <4>4, <4>5
    <3>5. CASE Yielding(c, m) \/ Refused(c, m)
      <4>1. \A r \in ToSet(inq[a]) \cup ToSet(inq[b]) : r.tid # 0
        BY <1>2, AgentTypes
      <4>2. \A j \in 1..Len(d.pairs) : d.pairs[j].tid = 0
        BY <3>4, <3>5 DEF Unchecked
      <4>3. \A r \in ToSet(inq'[b]) : r.kind = "request" => r.tiebreak = z.tiebreak[a] /\ r.tid # 0
        BY <1>3, <1>7, <4>1 DEF RoleOk
      <4>4. \A r \in ToSet(inq'[a]) : r.tid # 0
        BY <1>1, <4>1
      <4>. QED  BY <3>1, <3>4, <3>5, <4>2, <4>3, <4>4 DEF RoleOk
    <3>6. CASE ~(Yielding(c, m) \/ Refused(c, m))
      <4>1. d.controlled = c.controlled /\ d.switched = c.switched /\ d.started = c.started
        BY <2>1, <3>6 DEF Handled
      <4>2. ASSUME NEW j \in 1..Len(d.pairs), d.pairs[j].tid # 0
            PROVE  \E i \in 1..Len(c.pairs) :
                     d.pairs[j].tid = c.pairs[i].tid /\ d.pairs[j].controlled = c.pairs[i].controlled
        BY <1>2, <2>1, <4>2, HandledRow DEF From
      <4>3. \A j \in 1..Len(d.pairs) : d.pairs[j].tid # 0 => d.pairs[j].controlled = d.controlled
        BY <1>3, <4>1, <4>2 DEF RoleOk
      <4>4. ASSUME Yields(z, a), NEW j \in 1..Len(d.pairs)
            PROVE  /\ \A r \in ToSet(inq'[b]) : r.kind = "request" /\ r.tid = d.pairs[j].tid =>
                        d.pairs[j].controlled = r.controlled
                   /\ \A r \in ToSet(inq'[a]) : r.kind = "conflict" /\ r.tid = d.pairs[j].tid =>
                        d.pairs[j].controlled = z.controlled[a]
        <5>1. \A r \in ToSet(inq[a]) \cup ToSet(inq[b]) : r.tid # 0
          BY <1>2, AgentTypes
        <5>2. CASE d.pairs[j].tid = 0
          BY <1>1, <1>7, <5>1, <5>2
        <5>3. CASE d.pairs[j].tid # 0
          <6>1. PICK i \in 1..Len(c.pairs) :
                  d.pairs[j].tid = c.pairs[i].tid /\ d.pairs[j].controlled = c.pairs[i].controlled
            BY <4>2, <5>3
          <6>. QED  BY <1>1, <1>3, <1>7, <4>4, <6>1 DEF RoleOk
        <5>. QED  BY <5>2, <5>3
      <4>5. ASSUME Yields(z, a), d.switched = 0  PROVE d = c
        <5>1. m.kind # "request"
          BY <1>6, <3>6, <4>1, <4>5
        <5>2. m.kind # "success"
          BY <1>1, <1>3, <4>1, <4>5 DEF RoleOk
        <5>3. m.kind = "conflict"
          BY <1>1, <5>1, <5>2 DEF Message
        <5>. QED  BY <2>1, <3>6, <5>3 DEF Handled
      <4>6. Yields(z, a) =>
              /\ d.switched # 0 => d.switched = 1 /\ d.controlled = ~z.controlled[a]
              /\ d.switched = 0 => PrunedOk(z, a, d) /\ \A r \in ToSet(inq'[a]) : r.kind # "success"
        BY <1>1, <1>3, <4>1, <4>5 DEF RoleOk
      <4>7. ~Yields(z, a) => d.switched = 0 /\ \A r \in ToSet(inq'[a]) : r.kind # "conflict"
        BY <1>1, <1>3, <4>1 DEF RoleOk
      <4>8. d.switched = 0 =>
              /\ d.controlled = z.controlled[a]
              /\ \A r \in ToSet(inq'[b]) : r.kind = "request" => r.controlled = z.controlled[a]
        BY <1>3, <1>7, <4>1 DEF RoleOk
      <4>9. \A r \in ToSet(inq'[b]) : r.kind = "request" => r.tiebreak = z.tiebreak[a]
        BY <1>3, <1>7 DEF RoleOk
      <4>. QED  BY <3>1, <4>3, <4>4, <4>6, <4>7, <4>8, <4>9 DEF RoleOk
    <3>. QED  BY <3>5, <3>6
  <2>3. RoleOk(z, a, e, ToSet(inq'[b]), ToSet(inq'[a]))
    BY <1>1, <2>2 DEF RoleOk, PrunedOk, Same
  <2>4. RoleOk(z, b, agent'[b], ToSet(inq'[a]), ToSet(inq'[b]))
    <3>. DEFINE f == agent[b]
    <3>1. /\ agent'[b] = f
          /\ \A r \in ToSet(inq'[a]) : r \in ToSet(inq[a])
      BY <1>1
    <3>2. ASSUME NEW r \in ToSet(inq'[b]), r \notin ToSet(inq[b])
          PROVE  /\ m.kind = "request" /\ r.tid = m.tid
                 /\ ~Yields(z, b) => r.kind # "conflict"
                 /\ Yields(z, b) /\ r.kind = "conflict" =>
                      z.controlled[a] = m.controlled /\ z.controlled[a] = z.controlled[b]
                 /\ Yields(z, b) /\ f.switched = 0 => r.kind # "success"
      <4>1. /\ m.kind = "request" /\ r.tid = m.tid
            /\ r.kind = IF c.controlled = m.controlled /\ ~Yielding(c, m)
                        THEN "conflict" ELSE "success"
        BY <1>1, <3>2
      <4>2. CASE ~Yields(z, b)
        <5>1. f.switched = 0 /\ m.controlled = z.controlled[b]
          BY <1>4, <1>6, <4>1, <4>2 DEF RoleOk
        <5>2. c.controlled = m.controlled => Yielding(c, m)
          <6>1. CASE ~Yields(z, a)
            BY <1>5, <1>6, <4>1, <4>2, <5>1, <6>1
          <6>2. CASE Yields(z, a) /\ c.switched # 0
            BY <1>2, <1>3, <1>5, <5>1, <6>2 DEF RoleOk, Yields
          <6>3. CASE Yields(z, a) /\ c.switched = 0
            BY <1>6, <4>1, <6>3
          <6>. QED  BY <6>1, <6>2, <6>3
        <5>. QED  BY <4>1, <4>2, <5>2
      <4>3. CASE Yields(z, b)
        <5>1. ~Yields(z, a) /\ c.controlled = z.controlled[a] /\ ~Yielding(c, m)
          BY <1>5, <1>6, <4>1, <4>3
        <5>2. z.controlled[a] = z.controlled[b]
          BY <1>2, <4>3 DEF Yields
        <5>. QED  BY <1>6, <4>1, <4>3, <5>1, <5>2
      <4>. QED  BY <4>2, <4>3
    <3>3. /\ f.tiebreak = z.tiebreak[b]
          /\ \A r \in ToSet(inq'[a]) : r.kind = "request" => r.tiebreak = z.tiebreak[b]
          /\ \A i \in 1..Len(f.pairs) : f.pairs[i].tid # 0 => f.pairs[i].controlled = f.controlled
          /\ f.switched = 0 =>
               /\ f.controlled = z.controlled[b]
               /\ \A r \in ToSet(inq'[a]) : r.kind = "request" => r.controlled = z.controlled[b]
      BY <1>4, <3>1 DEF RoleOk
    <3>4. ~Yields(z, b) => f.switched = 0 /\ \A r \in ToSet(inq'[b]) : r.kind # "conflict"
      BY <1>4, <3>2 DEF RoleOk
    <3>5. ASSUME Yields(z, b)
          PROVE  /\ f.switched # 0 => f.switched = 1 /\ f.controlled = ~z.controlled[b]
                 /\ f.switched = 0 => PrunedOk(z, b, f) /\ \A r \in ToSet(inq'[b]) : r.kind # "success"
      BY <1>4, <3>2, <3>5 DEF RoleOk
    <3>6. ASSUME Yields(z, b), NEW i \in 1..Len(f.pairs)
          PROVE  /\ \A r \in ToSet(inq'[a]) : r.kind = "request" /\ r.tid = f.pairs[i].tid =>
                      f.pairs[i].controlled = r.controlled
                 /\ \A r \in ToSet(inq'[b]) : r.kind = "conflict" /\ r.tid = f.pairs[i].tid =>
                      f.pairs[i].controlled = z.controlled[b]
      <4>1. m.kind = "request" /\ m.tid = f.pairs[i].tid => f.pairs[i].controlled = m.controlled
        BY <1>1, <1>4, <3>6 DEF RoleOk
      <4>2. ASSUME NEW r \in ToSet(inq'[b]), r.kind = "conflict", r.tid = f.pairs[i].tid
            PROVE  f.pairs[i].controlled = z.controlled[b]
        <5>1. CASE r \in ToSet(inq[b])
          BY <1>4, <3>6, <4>2, <5>1 DEF RoleOk
        <5>2. CASE r \notin ToSet(inq[b])
          BY <3>2, <3>6, <4>1, <4>2, <5>2
        <5>. QED  BY <5>1, <5>2
      <4>3. \A r \in ToSet(inq'[a]) : r.kind = "request" /\ r.tid = f.pairs[i].tid =>
                      f.pairs[i].controlled = r.controlled
        BY <1>4, <3>1, <3>6 DEF RoleOk
      <4>. QED  BY <4>2, <4>3
    <3>. HIDE DEF f
    <3>7. RoleOk(z, b, f, ToSet(inq'[a]), ToSet(inq'[b]))
      BY <3>3, <3>4, <3>5, <3>6 DEF RoleOk
    <3>. QED  BY <3>1, <3>7
  <2>. QED  BY <2>3, <2>4
<1>. QED  BY <1>8, <1>9

LEMMA RoleSend ==
  ASSUME IceTypes, PathInv, RoleInv, NEW a \in Agents, SentBy(a)
  PROVE  /\ RoleOk(scene, a, agent'[a], ToSet(inq'[Other(a)]), ToSet(inq'[a]))
         /\ RoleOk(scene, Other(a), agent'[Other(a)], ToSet(inq'[a]), ToSet(inq'[Other(a)]))
<1>. DEFINE b == Other(a)
            c == agent[a]
            e == agent'[a]
            z == scene
<1>1. PICK d \in Working, t \in Nat \ {0} :
        /\ Sent(c, d) /\ (c.started = 0 => d.send = 0)
        /\ t \notin InFlight /\ t \notin Tids(c.pairs)
        /\ Same(e, d) /\ Len(e.pairs) = Len(d.pairs)
        /\ \A i \in 1..Len(d.pairs) :
             e.pairs[i] = IF i = d.send THEN [d.pairs[i] EXCEPT !.tid = t] ELSE d.pairs[i]
        /\ agent'[b] = agent[b] /\ inq'[a] = inq[a]
        /\ \A r \in ToSet(inq'[b]) :
             \/ r \in ToSet(inq[b])
             \/ /\ d.send # 0 /\ r.kind = "request" /\ r.tid = t /\ r.tiebreak = c.tiebreak
                /\ r.controlled = d.pairs[d.send].controlled
  BY DEF SentBy
<1>2. b \in Agents /\ Other(b) = a /\ c \in Working
  BY OtherAgent, AgentTypes
<1>3. RoleOk(z, a, c, ToSet(inq[b]), ToSet(inq[a]))
  BY DEF RoleInv
<1>4. RoleOk(z, b, agent[b], ToSet(inq[a]), ToSet(inq[b]))
  BY <1>2 DEF RoleInv
<1>5. /\ \A r \in ToSet(inq[a]) \cup ToSet(inq[b]) : r.tid # t
      /\ \A i \in 1..Len(c.pairs) : c.pairs[i].tid # t
  BY <1>1, <1>2, TidsOf
<1>6. /\ Len(e.pairs) = Len(c.pairs) /\ d.send \in 0..Len(c.pairs)
      /\ e.tiebreak = c.tiebreak /\ e.controlled = c.controlled /\ e.switched = c.switched
      /\ e.started = c.started
  BY <1>1 DEF Sent, Same
<1>7. ASSUME NEW i \in 1..Len(c.pairs)
      PROVE  LET p == e.pairs[i]
                 q == c.pairs[i]
             IN  /\ p.local = q.local /\ p.remote = q.remote
                 /\ p.tid = IF i = d.send THEN t ELSE q.tid
                 /\ p.controlled = d.pairs[i].controlled
                 /\ p.controlled = IF i = d.send THEN c.controlled ELSE q.controlled
                 /\ p.state = "pruned" <=> q.state = "pruned"
                 /\ i = d.send => p.state = "progress"
  <2>. DEFINE p == e.pairs[i]
              q == c.pairs[i]
              r == d.pairs[i]
  <2>1. i \in 1..Len(d.pairs) /\ r \in Pairs /\ Tested(c, d, i)
    BY <1>1, <1>6, RowTypes DEF Sent
  <2>2. p = IF i = d.send THEN [r EXCEPT !.tid = t] ELSE r
    BY <1>1, <2>1
  <2>3. /\ p.local = r.local /\ p.remote = r.remote /\ p.controlled = r.controlled
        /\ p.state = r.state /\ p.tid = IF i = d.send THEN t ELSE r.tid
    BY <2>1, <2>2 DEF Pairs
  <2>4. q.state = "progress" => q.tid # 0
    BY <1>7 DEF PathInv, PathOk
  <2>5. q.tid # 0 => q.controlled = c.controlled
    BY <1>3, <1>7 DEF RoleOk
  <2>. QED  BY <2>1, <2>3, <2>4, <2>5 DEF Tested
<1>8. ASSUME NEW r \in ToSet(inq'[b]), r \notin ToSet(inq[b])
      PROVE  /\ r.kind = "request" /\ r.tid = t /\ r.tiebreak = c.tiebreak
             /\ r.controlled = c.controlled /\ d.send # 0
  BY <1>1, <1>6, <1>7, <1>8
<1>9. RoleOk(z, a, e, ToSet(inq'[b]), ToSet(inq'[a]))
  <2>1. /\ e.tiebreak = z.tiebreak[a]
        /\ \A r \in ToSet(inq'[b]) : r.kind = "request" => r.tiebreak = z.tiebreak[a]
    BY <1>3, <1>6, <1>8 DEF RoleOk
  <2>2. \A i \in 1..Len(e.pairs) : e.pairs[i].tid # 0 => e.pairs[i].controlled = e.controlled
    BY <1>3, <1>6, <1>7 DEF RoleOk
  <2>3. e.switched = 0 =>
          /\ e.controlled = z.controlled[a]
          /\ \A r \in ToSet(inq'[b]) : r.kind = "request" => r.controlled = z.controlled[a]
    BY <1>3, <1>6, <1>8 DEF RoleOk
  <2>4. ~Yields(z, a) => e.switched = 0 /\ \A r \in ToSet(inq'[a]) : r.kind # "conflict"
    BY <1>1, <1>3, <1>6 DEF RoleOk
  <2>5. ASSUME PrunedOk(z, a, c)  PROVE PrunedOk(z, a, e)
    <3>1. \A i \in 1..Len(c.pairs) :
            /\ c.pairs[i].state = "pruned" \/ c.started = 0 => i # d.send
            /\ c.started = 0 \/ c.pairs[i].state = "pruned" => c.pairs[i].tid = 0
      BY <1>1, <1>7, <2>5 DEF PrunedOk
    <3>2. ASSUME NEW i \in 1..Len(c.pairs)
          PROVE  /\ e.pairs[i].local = z.pairs[a][i].local
                 /\ e.pairs[i].remote = z.pairs[a][i].remote
                 /\ e.pairs[i].state = "pruned" <=> c.started # 0 /\ Useless(z.pairs[a], i)
                 /\ c.started = 0 \/ e.pairs[i].state = "pruned" => e.pairs[i].tid = 0
      BY <1>7, <2>5, <3>1 DEF PrunedOk
    <3>. QED  BY <1>6, <2>5, <3>2 DEF PrunedOk
  <2>6. ASSUME Yields(z, a)
        PROVE  /\ e.switched # 0 => e.switched = 1 /\ e.controlled = ~z.controlled[a]
               /\ e.switched = 0 => PrunedOk(z, a, e) /\ \A r \in ToSet(inq'[a]) : r.kind # "success"
    BY <1>1, <1>3, <1>6, <2>5, <2>6 DEF RoleOk
  <2>7. ASSUME Yields(z, a), NEW i \in 1..Len(e.pairs)
        PROVE  /\ \A r \in ToSet(inq'[b]) : r.kind = "request" /\ r.tid = e.pairs[i].tid =>
                    e.pairs[i].controlled = r.controlled
               /\ \A r \in ToSet(inq'[a]) : r.kind = "conflict" /\ r.tid = e.pairs[i].tid =>
                    e.pairs[i].controlled = z.controlled[a]
    <3>1. ASSUME NEW r \in ToSet(inq'[b]), r.kind = "request", r.tid = e.pairs[i].tid
          PROVE  e.pairs[i].controlled = r.controlled
      <4>1. CASE r \in ToSet(inq[b])
        <5>1. i # d.send
          BY <1>5, <1>6, <1>7, <3>1, <4>1
        <5>. QED  BY <1>3, <1>6, <1>7, <2>7, <3>1, <4>1, <5>1 DEF RoleOk
      <4>2. CASE r \notin ToSet(inq[b])
        <5>1. r.tid = t /\ r.controlled = c.controlled
          BY <1>8, <4>2
        <5>0. i \in 1..Len(c.pairs)
          BY <1>6, <2>7
        <5>2. i = d.send
          <6>1. SUFFICES ASSUME i # d.send  PROVE FALSE
            OBVIOUS
          <6>2. e.pairs[i].tid = c.pairs[i].tid
            BY <1>7, <5>0, <6>1
          <6>3. c.pairs[i].tid # t
            BY <1>5, <5>0
          <6>. QED  BY <3>1, <5>1, <6>2, <6>3
        <5>. QED  BY <1>6, <1>7, <5>1, <5>2
      <4>. QED  BY <4>1, <4>2
    <3>2. ASSUME NEW r \in ToSet(inq'[a]), r.kind = "conflict", r.tid = e.pairs[i].tid
          PROVE  e.pairs[i].controlled = z.controlled[a]
      <4>1. i # d.send /\ r \in ToSet(inq[a])
        BY <1>1, <1>5, <1>6, <1>7, <3>2
      <4>. QED  BY <1>3, <1>6, <1>7, <2>7, <3>2, <4>1 DEF RoleOk
    <3>. QED  BY <3>1, <3>2
  <2>. HIDE DEF e
  <2>. QED  BY <2>1, <2>2, <2>3, <2>4, <2>6, <2>7 DEF RoleOk
<1>10. RoleOk(z, b, agent'[b], ToSet(inq'[a]), ToSet(inq'[b]))
  <2>1. \A r \in ToSet(inq'[b]) : r.kind \in {"success", "conflict"} => r \in ToSet(inq[b])
    BY <1>8
  <2>2. agent'[b] = agent[b] /\ inq'[a] = inq[a]
    BY <1>1
  <2>. QED  BY <1>4, <2>1, <2>2 DEF RoleOk
<1>. QED  BY <1>9, <1>10

LEMMA RoleRestart ==
  ASSUME IceTypes, RoleInv, NEW a \in Agents, RestartedBy(a)
  PROVE  RoleOk(scene, a, agent'[a], ToSet(inq[Other(a)]), ToSet(inq[a]))
<1>. DEFINE c == agent[a]
            e == agent'[a]
            z == scene
<1>1. /\ Len(e.pairs) = Len(c.pairs) /\ e.started # 0
      /\ e.controlled = c.controlled /\ e.tiebreak = c.tiebreak /\ e.switched = c.switched
      /\ \A i \in 1..Len(c.pairs) : \E s \in States :
           /\ e.pairs[i] = [c.pairs[i] EXCEPT !.state = s]
           /\ s = IF Useless(c.pairs, i) THEN "pruned"
                  ELSE IF c.pairs[i].state = "frozen" THEN "waiting" ELSE c.pairs[i].state
  BY DEF RestartedBy
<1>2. RoleOk(z, a, c, ToSet(inq[Other(a)]), ToSet(inq[a]))
  BY DEF RoleInv
<1>3. c \in Working
  BY AgentTypes
<1>4. ASSUME NEW i \in 1..Len(c.pairs)
      PROVE  LET p == e.pairs[i]
                 q == c.pairs[i]
             IN  /\ p.local = q.local /\ p.remote = q.remote /\ p.tid = q.tid
                 /\ p.controlled = q.controlled
                 /\ p.state = "pruned" <=> q.state = "pruned" \/ Useless(c.pairs, i)
  <2>1. c.pairs[i] \in Pairs
    BY <1>3, RowTypes
  <2>2. PICK s \in States :
           /\ e.pairs[i] = [c.pairs[i] EXCEPT !.state = s]
           /\ s = IF Useless(c.pairs, i) THEN "pruned"
                  ELSE IF c.pairs[i].state = "frozen" THEN "waiting" ELSE c.pairs[i].state
    BY <1>1
  <2>. QED  BY <2>1, <2>2 DEF Pairs
<1>5. ASSUME PrunedOk(z, a, c)  PROVE PrunedOk(z, a, e)
  <2>1. Len(c.pairs) \in Nat
    BY <1>3 DEF Working
  <2>. DEFINE ps == c.pairs
              qs == z.pairs[a]
  <2>4. \A j \in 1..Len(ps) : ps[j].local = qs[j].local /\ ps[j].remote = qs[j].remote
    BY <1>5 DEF PrunedOk
  <2>5. \A i \in 1..Len(ps) : Useless(ps, i) <=> Useless(qs, i)
    <3>1. Len(ps) \in Nat
      BY <2>1
    <3>. HIDE DEF ps, qs
    <3>2. ASSUME NEW i \in 1..Len(ps)  PROVE Useless(ps, i) <=> Useless(qs, i)
      <4>1. ps[i].local = qs[i].local /\ ps[i].remote = qs[i].remote
        BY <2>4
      <4>2. \A j \in 1..i - 1 : ps[j].local = qs[j].local /\ ps[j].remote = qs[j].remote
        BY <2>4, <3>1
      <4>. QED  BY <4>1, <4>2 DEF Useless
    <3>. QED  BY <3>2
  <2>2. ASSUME NEW i \in 1..Len(c.pairs)
        PROVE  Useless(c.pairs, i) <=> Useless(z.pairs[a], i)
    BY <2>5
  <2>3. ASSUME NEW i \in 1..Len(c.pairs)
        PROVE  /\ e.pairs[i].local = z.pairs[a][i].local
               /\ e.pairs[i].remote = z.pairs[a][i].remote
               /\ e.pairs[i].state = "pruned" <=> Useless(z.pairs[a], i)
               /\ e.pairs[i].state = "pruned" => e.pairs[i].tid = 0
    BY <1>4, <1>5, <2>2 DEF PrunedOk
  <2>. QED  BY <1>1, <1>5, <2>3 DEF PrunedOk
<1>. HIDE DEF e
<1>. QED  BY <1>1, <1>2, <1>4, <1>5 DEF RoleOk, e

LEMMA RoleStep ==
  ASSUME IceTypes, Distinct, PathInv, RoleInv, Step
  PROVE  RoleInv'
<1>1. SUFFICES \A a \in Agents :
                 RoleOk(scene, a, agent'[a], ToSet(inq'[Other(a)]), ToSet(inq'[a]))
  <2>1. scene' = scene
    BY DEF Step, ReceivedBy, SentBy, RestartedBy, Fewer
  <2>. QED  BY <2>1 DEF RoleInv
<1>2. ASSUME NEW a \in Agents, ReceivedBy(a) \/ SentBy(a)
      PROVE  \A b \in Agents : RoleOk(scene, b, agent'[b], ToSet(inq'[Other(b)]), ToSet(inq'[b]))
  <2>1. /\ RoleOk(scene, a, agent'[a], ToSet(inq'[Other(a)]), ToSet(inq'[a]))
        /\ RoleOk(scene, Other(a), agent'[Other(a)], ToSet(inq'[a]), ToSet(inq'[Other(a)]))
    BY <1>2, RoleReceive, RoleSend
  <2>2. Agents = {a, Other(a)} /\ Other(Other(a)) = a
    BY OtherAgent
  <2>. QED  BY <2>1, <2>2
<1>3. ASSUME NEW a \in Agents, RestartedBy(a)
      PROVE  \A b \in Agents : RoleOk(scene, b, agent'[b], ToSet(inq'[Other(b)]), ToSet(inq'[b]))
  <2>1. RoleOk(scene, a, agent'[a], ToSet(inq[Other(a)]), ToSet(inq[a]))
    BY <1>3, RoleRestart
  <2>2. inq' = inq /\ agent'[Other(a)] = agent[Other(a)]
    BY <1>3 DEF RestartedBy
  <2>3. Agents = {a, Other(a)} /\ Other(Other(a)) = a
    BY OtherAgent
  <2>4. RoleOk(scene, Other(a), agent[Other(a)], ToSet(inq[a]), ToSet(inq[Other(a)]))
    BY <2>3 DEF RoleInv
  <2>. QED  BY <2>1, <2>2, <2>3, <2>4
<1>4. CASE Fewer
  <2>1. ASSUME NEW a \in Agents
        PROVE  RoleOk(scene, a, agent'[a], ToSet(inq'[Other(a)]), ToSet(inq'[a]))
    <3>1. RoleOk(scene, a, agent[a], ToSet(inq[Other(a)]), ToSet(inq[a])) /\ agent' = agent
      BY <1>4 DEF RoleInv, Fewer
    <3>2. ToSet(inq'[a]) \subseteq ToSet(inq[a]) /\ ToSet(inq'[Other(a)]) \subseteq ToSet(inq[Other(a)])
      BY <1>4, OtherAgent DEF Fewer
    <3>. QED  BY <3>1, <3>2 DEF RoleOk
  <2>. QED  BY <2>1
<1>. QED  BY <1>2, <1>3, <1>4 DEF Step
-----------------------------------------------------------------------------
(***************************************************************************)
(* The theorems.                                                           *)
(***************************************************************************)
IceInv == IceTypes /\ IndexInv /\ PathInv /\ (Distinct => RoleInv)

LEMMA IceInit ==
  ASSUME Init
  PROVE  IceInv
<1>1. scene \in Scene
  BY IceAssumption DEF Init, IceAssumption
<1>2. /\ scene.pairs \in [Agents -> Seq(NewPairs)] /\ scene.controlled \in [Agents -> BOOLEAN]
      /\ scene.tiebreak \in [Agents -> Nat]
  BY <1>1 DEF Scene
<1>3. NewPairs \subseteq Pairs
      /\ \A p \in NewPairs : p.state = "frozen" /\ p.tid = 0
  BY DEF NewPairs
<1>4. ASSUME NEW a \in Agents
      PROVE  /\ inq[a] = <<>> /\ agent[a].pairs = scene.pairs[a] /\ agent[a].index = 0
             /\ agent[a].controlled = scene.controlled[a]
             /\ agent[a].tiebreak = scene.tiebreak[a]
             /\ agent[a].started = 0 /\ agent[a].switched = 0
             /\ agent[a] \in CheckList
  <2>1. scene.pairs[a] \in Seq(Pairs)
    <3>. DEFINE ps == scene.pairs[a]
    <3>1. ps \in Seq(NewPairs)
      BY <1>2
    <3>. HIDE DEF ps
    <3>2. ps \in [1..Len(ps) -> Pairs] /\ Len(ps) \in Nat
      BY <1>3, <3>1
    <3>. QED  BY <3>2 DEF ps
  <2>. QED  BY <1>2, <2>1 DEF Init, CheckList
<1>5. ASSUME NEW a \in Agents
      PROVE  /\ ToSet(inq[a]) = {} /\ ToSet(inq[Other(a)]) = {} /\ Other(a) \in Agents
             /\ \A i \in 1..Len(agent[a].pairs) :
                  agent[a].pairs[i].state = "frozen" /\ agent[a].pairs[i].tid = 0
  <2>1. Other(a) \in Agents
    BY OtherAgent
  <2>2. inq[a] = <<>> /\ inq[Other(a)] = <<>>
    BY <1>4, <2>1
  <2>3. agent[a].pairs \in Seq(NewPairs)
    BY <1>2, <1>4
  <2>. QED  BY <1>3, <2>1, <2>2, <2>3 DEF ToSet
<1>6. IceTypes
  <2>1. agent \in [Agents -> CheckList]
    BY <1>4 DEF Init
  <2>2. inq \in [Agents -> Seq(Message)]
    BY DEF Init
  <2>. QED  BY <1>1, <1>5, <2>1, <2>2 DEF IceTypes
<1>7. IndexInv
  BY <1>4 DEF IndexInv, CheckList
<1>8. PathInv
  BY <1>5 DEF PathInv, PathOk
<1>9. RoleInv
  <2>1. ASSUME NEW a \in Agents
        PROVE  RoleOk(scene, a, agent[a], ToSet(inq[Other(a)]), ToSet(inq[a]))
    <3>1. PrunedOk(scene, a, agent[a])
      BY <1>4, <1>5 DEF PrunedOk
    <3>. QED  BY <1>4, <1>5, <3>1 DEF RoleOk
  <2>. QED  BY <2>1 DEF RoleInv
<1>. QED  BY <1>6, <1>7, <1>8, <1>9 DEF IceInv

LEMMA IceStep ==
  ASSUME IceInv, [Next]_vars
  PROVE  IceInv'
<1>1. Step /\ IceTypes /\ IceTypes'
  BY NextStep DEF IceInv
<1>2. Distinct' <=> Distinct
  <2>1. scene' = scene
    BY <1>1 DEF Step, ReceivedBy, SentBy, RestartedBy, Fewer
  <2>. QED  BY <2>1 DEF Distinct
<1>3. IndexInv' /\ PathInv'
  BY <1>1, IndexStep, PathStep DEF IceInv
<1>4. Distinct => RoleInv'
  BY <1>1, RoleStep DEF IceInv
<1>. QED  BY <1>1, <1>2, <1>3, <1>4, Zenon DEF IceInv

\* The inductive invariant: the types of the two check lists and of the
\* messages on their way, the place of the nominated pair, what the messages
\* say of the paths and, when the tie-breakers differ, of the roles.
THEOREM IceInvHolds == Spec => []IceInv
<1>1. Init => IceInv
  BY IceInit
<1>2. IceInv /\ [Next]_vars => IceInv'
  BY IceStep
<1>. QED  BY <1>1, <1>2, PTL DEF Spec

\* nominated_pair_index goes on pointing at the pair it was set for, while
\* learned pairs are put into the table before it (ice_add_prflx_candidate).
THEOREM NominatedPairIsKnown == Spec => []IndexIsNominated
<1>1. IceInv => IndexIsNominated
  <2>1. SUFFICES ASSUME IceInv, NEW a \in Agents, agent[a].index \in DOMAIN agent[a].pairs
                 PROVE  agent[a].pairs[agent[a].index].nominated
    BY DEF IndexIsNominated
  <2>. DEFINE ps == agent[a].pairs
  <2>2. ps \in Seq(Pairs)
    BY <2>1 DEF IceInv, IceTypes, CheckList
  <2>3. DOMAIN ps = 1..Len(ps)
    <3>. HIDE DEF ps
    <3>. QED  BY <2>2
  <2>. QED  BY <2>1, <2>3 DEF IceInv, IndexInv
<1>. QED  BY <1>1, IceInvHolds, PTL

\* ICE_PAIR_SUCCEEDED is only given to a pair of addresses under which the two
\* agents do see each other.
THEOREM SucceededPairsWork == Spec => []SucceededPairWorks
<1>1. IceInv => SucceededPairWorks
  <2>1. SUFFICES ASSUME IceInv, NEW a \in Agents, NEW p \in ToSet(agent[a].pairs),
                        p.state = "succeeded"
                 PROVE  /\ scene.seen[a][p.remote.addr] = p.local.addr
                        /\ scene.seen[Other(a)][p.local.addr] = p.remote.addr
    BY DEF SucceededPairWorks
  <2>2. agent[a].pairs \in Seq(Pairs)
    BY <2>1 DEF IceInv, IceTypes, CheckList
  <2>3. PICK i \in 1..Len(agent[a].pairs) : p = agent[a].pairs[i]
    BY <2>2 DEF ToSet
  <2>. QED  BY <2>1, <2>3 DEF IceInv, PathInv, PathOk
<1>. QED  BY <1>1, IceInvHolds, PTL

\* One change of a role repairs a conflict and nothing else changes a role:
\* ice_process_stun_message (487) and ice_handle_received_binding_request.
THEOREM RolesSwitchOnce == Spec => []SwitchesOnce
<1>1. IceInv => SwitchesOnce
  <2>1. SUFFICES ASSUME IceInv, Distinct, NEW a \in Agents
                 PROVE  agent[a].switched + agent[Other(a)].switched
                          =< IF Conflicting THEN 1 ELSE 0
    BY DEF SwitchesOnce
  <2>2. /\ Other(a) \in Agents /\ Other(Other(a)) = a /\ Agents = {a, Other(a)}
    BY OtherAgent
  <2>3. IceTypes /\ RoleInv
    BY <2>1 DEF IceInv
  <2>4. \A b \in Agents : /\ agent[b].switched \in 0..2
                          /\ ~Yields(scene, b) => agent[b].switched = 0
                          /\ Yields(scene, b) /\ agent[b].switched # 0 => agent[b].switched = 1
    BY <2>3 DEF IceTypes, CheckList, RoleInv, RoleOk
  <2>5. Yields(scene, a) => ~Yields(scene, Other(a))
    BY <2>1, <2>3, OneYields
  <2>6. (\E b \in Agents : Yields(scene, b)) => Conflicting
    BY <2>2 DEF Yields, Conflicting
  <2>. QED  BY <2>2, <2>4, <2>5, <2>6
<1>. QED  BY <1>1, IceInvHolds, PTL
=============================================================================
