----------------------------- MODULE SearchProofs -----------------------------
(***************************************************************************)
(* Theorems about the search engines of IteratedSearch, for every task,    *)
(* every portfolio and whatever the heuristics say.                        *)
(*                                                                         *)
(* First the search space: a cheaper way to a node, or the first one,      *)
(* keeps the parents sound and free of cycles (FindsSound, FindsForest).   *)
(* What an engine then needs is that the states it expands have been       *)
(* reached, which comes down to what its open list holds (Frontier).       *)
(*                                                                         *)
(* Then the plans: trace_path follows sound parents without cycles to the  *)
(* root, so what it returns is a plan; each plan file is cheaper than the  *)
(* one before because of the bound; hence the iterated search implements   *)
(* AnytimePlanner.                                                         *)
(***************************************************************************)
EXTENDS IteratedSearch, FiniteSetTheorems, TLAPS

-----------------------------------------------------------------------------
(* Open lists hold what has been inserted.                                 *)

\* The lists are well-formed, and their entries are in E.
Holds(lists, lst, E) ==
    /\ lst = [q |-> lst.q, prio |-> lst.prio]
    /\ lst.q = [i \in DOMAIN lists |-> lst.q[i]]
    /\ \A i \in DOMAIN lists :
          \E S : lst.q[i] \in Seq(S) /\ \A r \in S : r.entry \in E

LEMMA EmptyHolds ==
    ASSUME NEW lists, NEW E
    PROVE  Holds(lists, EmptyLists(lists), E)
  <1>1. <<>> \in Seq({})
    OBVIOUS
  <1>2. \A i \in DOMAIN lists : EmptyLists(lists).q[i] = <<>>
    BY DEF EmptyLists
  <1>3. EmptyLists(lists).q = [i \in DOMAIN lists |-> EmptyLists(lists).q[i]]
    BY DEF EmptyLists
  <1>4. EmptyLists(lists) = [q |-> EmptyLists(lists).q, prio |-> EmptyLists(lists).prio]
    BY DEF EmptyLists
  <1>5. \A i \in DOMAIN lists :
           \E S : EmptyLists(lists).q[i] \in Seq(S) /\ \A r \in S : r.entry \in E
    <2> SUFFICES ASSUME NEW i \in DOMAIN lists
                 PROVE  \E S : EmptyLists(lists).q[i] \in Seq(S)
                               /\ \A r \in S : r.entry \in E
      OBVIOUS
    <2>1. /\ EmptyLists(lists).q[i] \in Seq({})
          /\ \A r \in {} : r.entry \in E
      BY <1>1, <1>2
    <2> QED BY <2>1
  <1> QED BY <1>3, <1>4, <1>5 DEF Holds

LEMMA HoldsMore ==
    ASSUME NEW lists, NEW lst, NEW E, NEW F, E \subseteq F, Holds(lists, lst, E)
    PROVE  Holds(lists, lst, F)
  <1> SUFFICES ASSUME NEW i \in DOMAIN lists
               PROVE  \E S : lst.q[i] \in Seq(S) /\ \A r \in S : r.entry \in F
    BY DEF Holds
  <1>1. PICK S : lst.q[i] \in Seq(S) /\ \A r \in S : r.entry \in E
    BY DEF Holds
  <1> QED BY <1>1

LEMMA InsertHolds ==
    ASSUME NEW lists, NEW lst, NEW E, NEW ctx, NEW e \in E, Holds(lists, lst, E)
    PROVE  Holds(lists, Insert(lists, lst, ctx, e), E)
  <1> DEFINE R == Insert(lists, lst, ctx, e)
             Q(i) == IF ~IsDeadEnd(lists, ctx) /\ Accepts(lists[i], ctx)
                     THEN Append(lst.q[i], [entry |-> e, key |-> Key(lists[i], ctx)])
                     ELSE lst.q[i]
  <1>1. R = [q |-> [i \in DOMAIN lists |-> Q(i)], prio |-> lst.prio]
    <2>1. \A X : [lst EXCEPT !.q = X] = [q |-> X, prio |-> lst.prio]
      BY DEF Holds
    <2> QED BY <2>1 DEF Insert
  <1>2. ASSUME NEW i \in DOMAIN lists
        PROVE  \E S : Q(i) \in Seq(S) /\ \A r \in S : r.entry \in E
    <2>1. PICK S : lst.q[i] \in Seq(S) /\ \A r \in S : r.entry \in E
      BY DEF Holds
    <2> DEFINE new == [entry |-> e, key |-> Key(lists[i], ctx)]
    <2>2. new.entry \in E
      OBVIOUS
    <2> HIDE DEF new
    <2>3. Append(lst.q[i], new) \in Seq(S \cup {new})
      BY <2>1
    <2>4. Q(i) = Append(lst.q[i], new) \/ Q(i) = lst.q[i]
      BY DEF new
    <2> QED BY <2>1, <2>2, <2>3, <2>4
  <1> HIDE DEF Q
  <1>3. R.q = [i \in DOMAIN lists |-> R.q[i]] /\ R = [q |-> R.q, prio |-> R.prio]
    BY <1>1
  <1>4. \A i \in DOMAIN lists : R.q[i] = Q(i)
    BY <1>1
  <1> HIDE DEF R
  <1>5. Holds(lists, R, E)
    BY <1>2, <1>3, <1>4 DEF Holds
  <1> QED BY <1>5 DEF R

LEMMA RemoveHolds ==
    ASSUME NEW lists, NEW lst, NEW E, Holds(lists, lst, E),
           NEW pos \in MinPositions(lists, lst)
    PROVE  /\ EntryAt(lst, pos) \in E
           /\ Holds(lists, RemoveMin(lst, pos), E)
  <1>1. PICK i \in Turns(lst) :
                 \E k \in Removable(lists[i], lst.q[i]) : pos = <<i, k>>
    BY DEF MinPositions
  <1>1a. PICK k \in Removable(lists[i], lst.q[i]) : pos = <<i, k>>
    BY <1>1
  <1>2. i \in DOMAIN lists /\ k \in DOMAIN lst.q[i]
    BY <1>1, <1>1a DEF Turns, Removable, Holds
  <1>3. PICK S : lst.q[i] \in Seq(S) /\ \A r \in S : r.entry \in E
    BY <1>2 DEF Holds
  <1>4. EntryAt(lst, pos) \in E
    BY <1>1a, <1>2, <1>3 DEF EntryAt
  <1> DEFINE R == RemoveMin(lst, pos)
  <1>5. RemoveAt(lst.q[i], k) \in Seq(S)
    <2>1. k \in 1..Len(lst.q[i]) /\ Len(lst.q[i]) \in Nat
      BY <1>2, <1>3
    <2>2. /\ SubSeq(lst.q[i], 1, k - 1) \in Seq(S)
          /\ SubSeq(lst.q[i], k + 1, Len(lst.q[i])) \in Seq(S)
      BY <1>3, <2>1
    <2> QED BY <2>2 DEF RemoveAt
  <1>6. R = [q |-> [lst.q EXCEPT ![i] = RemoveAt(lst.q[i], k)], prio |-> R.prio]
    BY <1>1a DEF RemoveMin
  <1> HIDE DEF R
  <1>7. lst.q = [j \in DOMAIN lists |-> lst.q[j]]
    BY DEF Holds
  <1>8. /\ R.q = [lst.q EXCEPT ![i] = RemoveAt(lst.q[i], k)]
        /\ R = [q |-> R.q, prio |-> R.prio]
    BY <1>6
  <1>9. /\ R.q = [j \in DOMAIN lists |-> R.q[j]]
        /\ \A j \in DOMAIN lists : j # i => R.q[j] = lst.q[j]
        /\ R.q[i] = RemoveAt(lst.q[i], k)
    BY <1>2, <1>7, <1>8
  <1>10. ASSUME NEW j \in DOMAIN lists
         PROVE  \E T : R.q[j] \in Seq(T) /\ \A r \in T : r.entry \in E
    BY <1>3, <1>5, <1>9 DEF Holds
  <1>11. Holds(lists, R, E)
    BY <1>8, <1>9, <1>10 DEF Holds
  <1> QED BY <1>4, <1>11 DEF R

LEMMA BoostHolds ==
    ASSUME NEW lists, NEW lst, NEW E, NEW boost, Holds(lists, lst, E)
    PROVE  Holds(lists, boost_preferred(lists, lst, boost), E)
  <1> DEFINE R == boost_preferred(lists, lst, boost)
  <1>1. R = lst \/ (R.q = lst.q /\ R = [q |-> R.q, prio |-> R.prio])
    BY DEF Holds, boost_preferred
  <1> HIDE DEF R
  <1>2. Holds(lists, R, E)
    BY <1>1 DEF Holds
  <1> QED BY <1>2 DEF R

-----------------------------------------------------------------------------
(* The task.                                                               *)

CostType == {"normal", "one", "plusone"}

LEMMA AdjustedFacts ==
    ASSUME NEW ct \in CostType, NEW o \in Op
    PROVE  /\ Cost[o] \in Nat /\ AdjustedCost(ct, o) \in Nat
           /\ ct = "normal" => AdjustedCost(ct, o) = Cost[o]
  BY TaskAssumption DEF CostType, AdjustedCost

LEMMA SuccessorFacts ==
    ASSUME NEW s \in State, NEW o \in Applicable(s)
    PROVE  o \in Op /\ Successor(s, o) \in State /\ <<s, o, Successor(s, o)>> \in Transition
  BY DEF Applicable, Successor

-----------------------------------------------------------------------------
(* The search space, apart from the engines: ct is the cost type.          *)

\* A node to which a way is known.
HasWay(ct, n) ==
    /\ n.status # "new" /\ n.g \in Nat /\ n.real_g \in Nat
    /\ ct = "normal" => n.real_g = n.g

\* Only the initial state is reached without a parent.
Root(nodes, s) ==
    nodes[s].op = NoOp /\ (s = initial \/ nodes[s].g = -1)

Sound(ct, nodes) ==
    /\ nodes \in [State -> NodeType]
    /\ \A s \in State : nodes[s].status \in {"open", "closed"} => HasWay(ct, nodes[s])
    /\ \A s \in State : nodes[s].parent # NoState =>
          /\ HasWay(ct, nodes[s])
          /\ nodes[s].parent \in State /\ nodes[s].op \in Op
          /\ HasWay(ct, nodes[nodes[s].parent])
          /\ <<nodes[s].parent, nodes[s].op, s>> \in Transition
          /\ nodes[s].g >= nodes[nodes[s].parent].g + AdjustedCost(ct, nodes[s].op)
    /\ \A s \in State : nodes[s].parent = NoState => Root(nodes, s)

Parented(nodes) == {s \in State : nodes[s].parent # NoState}

Forest(nodes) ==
    \A S \in SUBSET Parented(nodes) : S # {} => \E s \in S : nodes[s].parent \notin S

\* Ways only get cheaper.
Cheapens(ct, m, n) ==
    \A s \in State : HasWay(ct, m[s]) =>
        HasWay(ct, n[s]) /\ n[s].g <= m[s].g

\* The node of s reached by o from a node p.
Way(ct, p, s, o, st) ==
    [status |-> st, g |-> p.g + AdjustedCost(ct, o), real_g |-> p.real_g + Cost[o],
     parent |-> s, op |-> o]

\* A first or cheaper way to t is found, from s.
Finds(ct, m, n, s, o, t) ==
    /\ s \in State /\ t \in State /\ <<s, o, t>> \in Transition
    /\ HasWay(ct, m[s])
    /\ \/ m[t].status = "new"
       \/ /\ m[t].status \in {"open", "closed"}
          /\ m[t].g > m[s].g + AdjustedCost(ct, o)
    /\ \E st \in {"open", "closed"} : n = [m EXCEPT ![t] = Way(ct, m[s], s, o, st)]

\* What that means.
Found(ct, m, n, s, o, t) ==
    /\ s \in State /\ t \in State /\ o \in Op /\ <<s, o, t>> \in Transition
    /\ n \in [State -> NodeType]
    /\ n[t].parent = s /\ n[t].op = o /\ n[t].status \in {"open", "closed"}
    /\ n[t].g = m[s].g + AdjustedCost(ct, o) /\ n[t].real_g = m[s].real_g + Cost[o]
    /\ HasWay(ct, n[t]) /\ HasWay(ct, m[s])
    /\ \A u \in State : u # t => n[u] = m[u]
    /\ m[t].status = "new" \/ (HasWay(ct, m[t]) /\ n[t].g < m[t].g)
    /\ s # t

LEMMA FindsFacts ==
    ASSUME NEW ct \in CostType, NEW m, NEW n, NEW s, NEW o, NEW t,
           Sound(ct, m), Finds(ct, m, n, s, o, t)
    PROVE  Found(ct, m, n, s, o, t)
  <1>1. s \in State /\ t \in State /\ o \in Op /\ <<s, o, t>> \in Transition
    BY TaskAssumption DEF Finds
  <1>2. PICK st \in {"open", "closed"} : n = [m EXCEPT ![t] = Way(ct, m[s], s, o, st)]
    BY DEF Finds
  <1>3. /\ Cost[o] \in Nat /\ AdjustedCost(ct, o) \in Nat
        /\ ct = "normal" => AdjustedCost(ct, o) = Cost[o]
    BY <1>1, AdjustedFacts
  <1>4. HasWay(ct, m[s])
    BY DEF Finds
  <1>5. m \in [State -> NodeType]
    BY DEF Sound
  <1>6. n[t] = Way(ct, m[s], s, o, st) /\ \A u \in State : u # t => n[u] = m[u]
    BY <1>1, <1>2, <1>5
  <1>7. /\ n[t].parent = s /\ n[t].op = o /\ n[t].status \in {"open", "closed"}
        /\ n[t].g = m[s].g + AdjustedCost(ct, o) /\ n[t].real_g = m[s].real_g + Cost[o]
    BY <1>6 DEF Way
  <1>8. m[s].g \in Nat /\ m[s].real_g \in Nat
    BY <1>4 DEF HasWay
  <1>9. Way(ct, m[s], s, o, st) \in NodeType
    BY <1>1, <1>3, <1>8 DEF Way, NodeType
  <1>10. n \in [State -> NodeType]
    BY <1>1, <1>2, <1>5, <1>9
  <1>11. HasWay(ct, n[t])
    BY <1>3, <1>4, <1>7, <1>8 DEF HasWay
  <1>12. m[t].status = "new" \/ (HasWay(ct, m[t]) /\ n[t].g < m[t].g)
    <2>1. CASE m[t].status # "new"
      <3>1. m[t].status \in {"open", "closed"} /\ m[t].g > m[s].g + AdjustedCost(ct, o)
        BY <2>1 DEF Finds
      <3>2. HasWay(ct, m[t])
        BY <3>1, <1>1 DEF Sound
      <3> QED BY <3>1, <3>2, <1>3, <1>7, <1>8 DEF HasWay
    <2> QED BY <2>1
  <1>13. s # t
    BY <1>3, <1>4, <1>7, <1>8, <1>12 DEF HasWay
  <1> QED BY <1>1, <1>4, <1>6, <1>7, <1>10, <1>11, <1>12, <1>13 DEF Found

LEMMA FindsCheapens ==
    ASSUME NEW ct \in CostType, NEW m, NEW n, NEW s, NEW o, NEW t,
           Sound(ct, m), Finds(ct, m, n, s, o, t)
    PROVE  Cheapens(ct, m, n)
  <1>f. Found(ct, m, n, s, o, t)
    BY FindsFacts
  <1> SUFFICES ASSUME NEW u \in State, HasWay(ct, m[u])
               PROVE  HasWay(ct, n[u]) /\ n[u].g <= m[u].g
    BY DEF Cheapens
  <1>0. m[u].g \in Nat /\ m[u].status # "new"
    BY DEF HasWay
  <1>1. CASE u # t
    <2>1. \A w \in State : w # t => n[w] = m[w]
      BY <1>f DEF Found
    <2>2. n[u] = m[u]
      BY <1>1, <2>1
    <2> QED BY <2>2, <1>0
  <1>2. CASE u = t
    <2>1. HasWay(ct, n[t]) /\ n[t].g < m[t].g
      BY <1>0, <1>2, <1>f DEF Found, HasWay
    <2>2. n[t].g \in Nat
      BY <2>1 DEF HasWay
    <2> QED BY <1>0, <1>2, <2>1, <2>2
  <1> QED BY <1>1, <1>2

LEMMA FindsSound ==
    ASSUME NEW ct \in CostType, NEW m, NEW n, NEW s, NEW o, NEW t,
           Sound(ct, m), Finds(ct, m, n, s, o, t)
    PROVE  Sound(ct, n)
  <1>f. Found(ct, m, n, s, o, t)
    BY FindsFacts
  <1>1. /\ s \in State /\ t \in State /\ o \in Op /\ <<s, o, t>> \in Transition
        /\ n \in [State -> NodeType]
        /\ n[t].parent = s /\ n[t].op = o
        /\ n[t].g = m[s].g + AdjustedCost(ct, o)
        /\ HasWay(ct, n[t])
        /\ \A u \in State : u # t => n[u] = m[u]
        /\ s # t
    BY <1>f DEF Found
  <1>2. Cheapens(ct, m, n)
    BY FindsCheapens
  <1>3. \A u \in State : n[u].status \in {"open", "closed"} => HasWay(ct, n[u])
    BY <1>1 DEF Sound
  <1>4. ASSUME NEW u \in State, n[u].parent # NoState
        PROVE  /\ HasWay(ct, n[u])
               /\ n[u].parent \in State /\ n[u].op \in Op
               /\ HasWay(ct, n[n[u].parent])
               /\ <<n[u].parent, n[u].op, u>> \in Transition
               /\ n[u].g >= n[n[u].parent].g + AdjustedCost(ct, n[u].op)
    <2>1. CASE u = t
      <3>1. n[s] = m[s] /\ HasWay(ct, m[s])
        BY <1>1 DEF Finds
      <3>2. n[t].g >= n[s].g + AdjustedCost(ct, o)
        BY <1>1, <3>1, AdjustedFacts DEF HasWay
      <3> QED BY <1>1, <2>1, <3>1, <3>2
    <2>2. CASE u # t
      <3>1. n[u] = m[u]
        BY <1>1, <2>2
      <3> DEFINE p == m[u].parent
      <3>2. /\ HasWay(ct, m[u])
            /\ p \in State /\ m[u].op \in Op
            /\ HasWay(ct, m[p])
            /\ <<p, m[u].op, u>> \in Transition
            /\ m[u].g >= m[p].g + AdjustedCost(ct, m[u].op)
        BY <1>4, <3>1 DEF Sound
      <3>3. HasWay(ct, n[p]) /\ n[p].g <= m[p].g
        BY <1>2, <3>2 DEF Cheapens
      <3>4. m[u].g \in Nat /\ m[p].g \in Nat /\ n[p].g \in Nat
            /\ AdjustedCost(ct, m[u].op) \in Nat
        BY <3>2, <3>3, AdjustedFacts DEF HasWay
      <3>5. m[u].g >= n[p].g + AdjustedCost(ct, m[u].op)
        BY <3>2, <3>3, <3>4
      <3> QED BY <3>1, <3>2, <3>3, <3>5
    <2> QED BY <2>1, <2>2
  <1>5. \A u \in State : n[u].parent = NoState => Root(n, u)
    BY <1>1, TaskAssumption DEF Sound, Root
  <1> QED BY <1>1, <1>3, <1>4, <1>5 DEF Sound

\* The way found closes no cycle: going round it, g would have to fall below
\* the g that t had.
LEMMA FindsForest ==
    ASSUME NEW ct \in CostType, NEW m, NEW n, NEW s, NEW o, NEW t,
           Sound(ct, m), Forest(m), Finds(ct, m, n, s, o, t)
    PROVE  Forest(n)
  <1>f. Found(ct, m, n, s, o, t)
    BY FindsFacts
  <1>1. /\ s \in State /\ t \in State /\ o \in Op
        /\ n[t].parent = s /\ n[t].g = m[s].g + AdjustedCost(ct, o)
        /\ HasWay(ct, m[s])
        /\ \A u \in State : u # t => n[u] = m[u]
        /\ s # t
    BY <1>f DEF Found
  <1>1a. m[t].status = "new" \/ (HasWay(ct, m[t]) /\ n[t].g < m[t].g)
    BY <1>f DEF Found
  <1> SUFFICES ASSUME NEW S \in SUBSET Parented(n), S # {},
                      \A u \in S : n[u].parent \in S
               PROVE  FALSE
    BY DEF Forest
  <1>2. S \subseteq State
    BY DEF Parented
  <1>3. S \ {t} \subseteq Parented(m)
    BY <1>1, <1>2 DEF Parented
  <1>4. t \in S
    <2> SUFFICES ASSUME t \notin S PROVE FALSE
      OBVIOUS
    <2>1. S \in SUBSET Parented(m)
      BY <1>3
    <2>2. PICK u \in S : m[u].parent \notin S
      BY <2>1 DEF Forest
    <2> QED BY <1>1, <1>2, <2>2
  <1>5. s \in S \ {t}
    BY <1>1, <1>4
  <1>6. CASE m[t].status = "new"
    <2>1. PICK u \in S \ {t} : m[u].parent \notin S \ {t}
      BY <1>3, <1>5 DEF Forest
    <2>2. n[u] = m[u] /\ m[u].parent \in S
      BY <1>1, <1>2, <2>1
    <2>3. m[u].parent = t
      BY <2>1, <2>2
    <2>4. HasWay(ct, m[t])
      BY <1>2, <1>3, <2>1, <2>3 DEF Sound, Parented
    <2> QED BY <1>6, <2>4 DEF HasWay
  <1>7. CASE HasWay(ct, m[t]) /\ n[t].g < m[t].g
    <2> DEFINE T == {u \in S : m[u].g < m[t].g}
    <2>1. m[t].g \in Nat /\ m[s].g \in Nat /\ AdjustedCost(ct, o) \in Nat
      BY <1>1, <1>7, AdjustedFacts DEF HasWay
    <2>2. t \notin T
      BY <2>1
    <2>3. s \in T
      BY <1>1, <1>5, <1>7, <2>1
    <2>4. T \in SUBSET Parented(m)
      BY <1>3, <2>2
    <2>5. PICK u \in T : m[u].parent \notin T
      BY <2>3, <2>4 DEF Forest
    <2> DEFINE p == m[u].parent
    <2>6. u \in S /\ u \in State /\ u # t /\ m[u].g < m[t].g
      BY <1>2, <2>2
    <2>7. n[u] = m[u]
      BY <1>1, <2>6
    <2>8. p \in S
      BY <2>6, <2>7
    <2>9. /\ HasWay(ct, m[u]) /\ HasWay(ct, m[p]) /\ m[u].op \in Op
          /\ m[u].g >= m[p].g + AdjustedCost(ct, m[u].op)
      BY <1>3, <2>6 DEF Sound, Parented
    <2>10. m[u].g \in Nat /\ m[p].g \in Nat /\ AdjustedCost(ct, m[u].op) \in Nat
      BY <2>9, AdjustedFacts DEF HasWay
    <2>11. m[p].g < m[t].g
      BY <2>1, <2>6, <2>9, <2>10
    <2> QED BY <2>5, <2>8, <2>11
  <1> QED BY <1>1a, <1>6, <1>7

\* A node is closed or marked as a dead end.
Marks(ct, m, n, s, st) ==
    /\ s \in State /\ st \in {"closed", "dead_end"}
    /\ st = "closed" => HasWay(ct, m[s])
    /\ n = [m EXCEPT ![s].status = st]

LEMMA MarksOK ==
    ASSUME NEW ct \in CostType, NEW m, NEW n, NEW s, NEW st,
           Sound(ct, m), Forest(m), Marks(ct, m, n, s, st)
    PROVE  /\ Sound(ct, n) /\ Forest(n) /\ Cheapens(ct, m, n)
           /\ \A u \in State : u # s => n[u] = m[u]
           /\ n[s].status = st
  <1>1. s \in State /\ st \in {"closed", "dead_end"} /\ m \in [State -> NodeType]
    BY DEF Marks, Sound
  <1>2. n = [m EXCEPT ![s] = [m[s] EXCEPT !.status = st]]
    BY DEF Marks
  <1>3. m[s] \in NodeType
    BY <1>1
  <1>4. /\ [m[s] EXCEPT !.status = st] \in NodeType
        /\ \A x : x = [m[s] EXCEPT !.status = st] =>
              /\ x.status = st /\ x.g = m[s].g /\ x.real_g = m[s].real_g
              /\ x.parent = m[s].parent /\ x.op = m[s].op
    BY <1>1, <1>3 DEF NodeType
  <1>5. n[s] = [m[s] EXCEPT !.status = st] /\ n \in [State -> NodeType]
        /\ \A u \in State : u # s => n[u] = m[u]
    BY <1>1, <1>2, <1>4
  <1>6. /\ n[s].status = st /\ n[s].g = m[s].g /\ n[s].real_g = m[s].real_g
        /\ n[s].parent = m[s].parent /\ n[s].op = m[s].op
    BY <1>4, <1>5
  <1>7. \A u \in State : /\ n[u].g = m[u].g /\ n[u].real_g = m[u].real_g
                         /\ n[u].parent = m[u].parent /\ n[u].op = m[u].op
    BY <1>5, <1>6
  <1>8. \A u \in State : HasWay(ct, m[u]) => HasWay(ct, n[u])
    BY <1>1, <1>5, <1>6 DEF HasWay
  <1>9. Cheapens(ct, m, n)
    BY <1>7, <1>8 DEF Cheapens, HasWay
  <1>10. Parented(n) = Parented(m)
    BY <1>7 DEF Parented
  <1>11. Forest(n)
    BY <1>7, <1>10 DEF Forest, Parented
  <1>12. \A u \in State : n[u].status \in {"open", "closed"} => HasWay(ct, n[u])
    <2> SUFFICES ASSUME NEW u \in State, n[u].status \in {"open", "closed"}
                 PROVE  HasWay(ct, m[u])
      BY <1>8
    <2>1. CASE u # s
      BY <1>5, <2>1 DEF Sound
    <2>2. CASE u = s
      BY <1>6, <2>2 DEF Marks
    <2> QED BY <2>1, <2>2
  <1>13. Sound(ct, n)
    <2>1. \A u \in State : n[u].parent = NoState => Root(n, u)
      BY <1>7 DEF Sound, Root
    <2> QED BY <1>5, <1>7, <1>8, <1>12, <2>1 DEF Sound
  <1> QED BY <1>5, <1>6, <1>9, <1>11, <1>13

\* The initial state gets its way of no operators.
LEMMA InitialOK ==
    ASSUME NEW ct \in CostType, NEW m, Sound(ct, m), Forest(m)
    PROVE  LET n == open_initial(m)
           IN /\ Sound(ct, n) /\ Forest(n) /\ Cheapens(ct, m, n)
              /\ n[initial].status = "open"
              /\ \A u \in State : u # initial => n[u] = m[u]
  <1> DEFINE n == open_initial(m)
             root == [status |-> "open", g |-> 0, real_g |-> 0,
                      parent |-> NoState, op |-> NoOp]
  <1>1. m \in [State -> NodeType] /\ initial \in State
    BY TaskAssumption DEF Sound
  <1>2. root \in NodeType /\ HasWay(ct, root) /\ root.g = 0 /\ root.parent = NoState
        /\ root.status = "open" /\ root.op = NoOp
    BY DEF NodeType, HasWay
  <1>3. n = [m EXCEPT ![initial] = root]
    BY DEF open_initial
  <1> HIDE DEF n, root
  <1>4. /\ n \in [State -> NodeType] /\ n[initial] = root
        /\ \A u \in State : u # initial => n[u] = m[u]
    BY <1>1, <1>2, <1>3
  <1>5. Cheapens(ct, m, n)
    BY <1>2, <1>4 DEF Cheapens, HasWay
  <1>6. Forest(n)
    <2>1. Parented(n) \subseteq Parented(m)
          /\ \A u \in Parented(n) : n[u].parent = m[u].parent
      BY <1>2, <1>4 DEF Parented
    <2> QED BY <2>1 DEF Forest
  <1>7. ASSUME NEW u \in State, n[u].parent # NoState
        PROVE  /\ HasWay(ct, n[u])
               /\ n[u].parent \in State /\ n[u].op \in Op
               /\ HasWay(ct, n[n[u].parent])
               /\ <<n[u].parent, n[u].op, u>> \in Transition
               /\ n[u].g >= n[n[u].parent].g + AdjustedCost(ct, n[u].op)
    <2>1. n[u] = m[u]
      BY <1>2, <1>4, <1>7
    <2> DEFINE p == m[u].parent
    <2>2. /\ HasWay(ct, m[u])
          /\ p \in State /\ m[u].op \in Op
          /\ HasWay(ct, m[p])
          /\ <<p, m[u].op, u>> \in Transition
          /\ m[u].g >= m[p].g + AdjustedCost(ct, m[u].op)
      BY <1>7, <2>1 DEF Sound
    <2>3. HasWay(ct, n[p]) /\ n[p].g <= m[p].g
      BY <1>5, <2>2 DEF Cheapens
    <2>4. m[u].g \in Nat /\ m[p].g \in Nat /\ n[p].g \in Nat
          /\ AdjustedCost(ct, m[u].op) \in Nat
      BY <2>2, <2>3, AdjustedFacts DEF HasWay
    <2>5. m[u].g >= n[p].g + AdjustedCost(ct, m[u].op)
      BY <2>2, <2>3, <2>4
    <2> QED BY <2>1, <2>2, <2>3, <2>5
  <1>8. \A u \in State : n[u].status \in {"open", "closed"} => HasWay(ct, n[u])
    BY <1>2, <1>4 DEF Sound
  <1>9. Sound(ct, n)
    <2>1. \A u \in State : n[u].parent = NoState => Root(n, u)
      BY <1>2, <1>4 DEF Sound, Root
    <2> QED BY <1>4, <1>7, <1>8, <2>1 DEF Sound
  <1> QED BY <1>2, <1>4, <1>5, <1>6, <1>9 DEF n

\* With normal costs all ways are below the bound.
Low(ct, nodes, b) ==
    ct = "normal" =>
        \A s \in State \ {initial} :
            nodes[s].status \in {"open", "closed"} => nodes[s].real_g < b

LEMMA EmptyOK ==
    ASSUME NEW ct, NEW b
    PROVE  LET n == [s \in State |-> NewNode]
           IN Sound(ct, n) /\ Forest(n) /\ Low(ct, n, b)
  <1> DEFINE n == [s \in State |-> NewNode]
  <1>1. NewNode \in NodeType /\ NewNode.status = "new" /\ NewNode.parent = NoState
        /\ NewNode.op = NoOp /\ NewNode.g = -1
    BY DEF NewNode, NodeType
  <1>2. n \in [State -> NodeType] /\ \A s \in State : n[s] = NewNode
    BY <1>1
  <1> HIDE DEF n
  <1>3. Sound(ct, n)
    BY <1>1, <1>2 DEF Sound, Root
  <1>4. Parented(n) = {}
    BY <1>1, <1>2 DEF Parented
  <1>5. Forest(n)
    BY <1>4 DEF Forest
  <1>6. Low(ct, n, b)
    BY <1>1, <1>2 DEF Low
  <1> QED BY <1>3, <1>5, <1>6 DEF n

-----------------------------------------------------------------------------
(* The invariant of the engines.                                           *)

SpaceOK ==
    /\ cfg.cost_type \in CostType
    /\ Sound(cfg.cost_type, node) /\ Forest(node)
    /\ bound \in Nat /\ Low(cfg.cost_type, node, bound)

Known(s) == HasWay(cfg.cost_type, node[s])

InBound(s, o) == cfg.cost_type = "normal" => node[s].real_g + Cost[o] < bound

\* What may be in the open list: states of an eager search, which a lazy
\* evaluator may have found to be dead ends, and edges from states that have
\* been reached of the others.  Lazy search inserts no edge beyond the bound.
OpenStates ==
    {s \in State : \/ node[s].status \in {"open", "closed"}
                   \/ cfg.lazy_evaluator /\ node[s].status = "dead_end"}

OpenEdges ==
    {e \in State \X Op :
        /\ Known(e[1]) /\ e[2] \in Applicable(e[1])
        /\ cfg.kind = "lazy" => InBound(e[1], e[2])}

Frontier ==
    /\ cfg.kind = "eager" => Holds(cfg.lists, open, OpenStates)
    /\ cfg.kind \in {"lazy", "ehc"} => Holds(cfg.lists, open, OpenEdges)

\* The state whose operators are in todo.
Expanded == IF cfg.kind = "ehc" THEN edge[1] ELSE cur

Expanding ==
    /\ cur \in State
    /\ todo # {} => Expanded \in State /\ Known(Expanded) /\ todo \subseteq Applicable(Expanded)
    /\ cfg.kind = "lazy" /\ edge # <<>> =>
          \/ edge = <<NoState, NoOp>> /\ cur = initial
          \/ edge \in OpenEdges /\ cur = Successor(edge[1], edge[2])

EngineInv == SpaceOK /\ Frontier /\ Expanding

LEMMA SearchSpaceGrows ==
    ASSUME SpaceOK, Cheapens(cfg.cost_type, node, node'), UNCHANGED <<cfg, bound>>
    PROVE  /\ \A s \in State : Known(s) => Known(s)'
           /\ OpenEdges \subseteq OpenEdges'
  <1>1. \A s \in State : Known(s) => Known(s)'
    BY DEF Cheapens, Known
  <1>2. ASSUME NEW s \in State, NEW o \in Op, Known(s), InBound(s, o)
        PROVE  InBound(s, o)'
    <2> SUFFICES ASSUME cfg.cost_type = "normal"
                 PROVE  node'[s].real_g + Cost[o] < bound
      BY DEF InBound
    <2>1. /\ node[s].real_g = node[s].g /\ node[s].g \in Nat
          /\ node'[s].real_g = node'[s].g /\ node'[s].g \in Nat
          /\ node'[s].g <= node[s].g
      BY <1>2 DEF Known, Cheapens, HasWay
    <2>2. node[s].real_g + Cost[o] < bound /\ bound \in Nat /\ Cost[o] \in Nat
      BY <1>2, TaskAssumption DEF InBound, SpaceOK
    <2> QED BY <2>1, <2>2
  <1> QED BY <1>1, <1>2 DEF OpenEdges

\* A step that leaves the engine where it is.
LEMMA KeepsExpanding ==
    ASSUME SpaceOK, Expanding, Cheapens(cfg.cost_type, node, node'),
           UNCHANGED <<cfg, bound, cur, edge, todo>>
    PROVE  Expanding'
  <1>1. /\ \A s \in State : Known(s) => Known(s)'
        /\ OpenEdges \subseteq OpenEdges'
    BY SearchSpaceGrows
  <1> QED BY <1>1 DEF Expanding, Expanded

LEMMA SameSpace ==
    ASSUME SpaceOK, UNCHANGED <<node, cfg, bound>>
    PROVE  /\ SpaceOK' /\ Cheapens(cfg.cost_type, node, node')
           /\ OpenStates' = OpenStates /\ OpenEdges' = OpenEdges
  BY DEF SpaceOK, Cheapens, OpenStates, OpenEdges, Known, HasWay, InBound

\* Ways that an engine finds.
LEMMA EngineFinds ==
    ASSUME SpaceOK, NEW s \in State, Known(s), NEW o \in Applicable(s),
           NEW t, t = Successor(s, o),
           \/ node[t].status = "new"
           \/ /\ node[t].status \in {"open", "closed"}
              /\ node[t].g > node[s].g + adj(o)
    PROVE  /\ Finds(cfg.cost_type, node, OpenNode(t, s, o), s, o, t)
           /\ Finds(cfg.cost_type, node, Close(OpenNode(t, s, o), t), s, o, t)
           /\ node[t].status # "new" =>
                 Finds(cfg.cost_type, node, update_parent(t, s, o), s, o, t)
  <1>1. t \in State /\ <<s, o, t>> \in Transition /\ o \in Op
    BY SuccessorFacts
  <1>2. node \in [State -> NodeType]
    BY DEF SpaceOK, Sound
  <1>3. \A st : Reached(s, o, st) = Way(cfg.cost_type, node[s], s, o, st)
    BY DEF Reached, Way, adj
  <1>4. OpenNode(t, s, o) = [node EXCEPT ![t] = Way(cfg.cost_type, node[s], s, o, "open")]
    BY <1>3 DEF OpenNode
  <1>5. Close(OpenNode(t, s, o), t)
           = [node EXCEPT ![t] = Way(cfg.cost_type, node[s], s, o, "closed")]
    <2>1. [Way(cfg.cost_type, node[s], s, o, "open") EXCEPT !.status = "closed"]
             = Way(cfg.cost_type, node[s], s, o, "closed")
      BY DEF Way
    <2> DEFINE w == Way(cfg.cost_type, node[s], s, o, "open")
    <2>2. Close(OpenNode(t, s, o), t)
             = [[node EXCEPT ![t] = w] EXCEPT ![t] = [w EXCEPT !.status = "closed"]]
      BY <1>1, <1>2, <1>4 DEF Close
    <2> HIDE DEF w
    <2>3. \A x : [[node EXCEPT ![t] = w] EXCEPT ![t] = x] = [node EXCEPT ![t] = x]
      BY <1>1, <1>2
    <2> QED BY <2>1, <2>2, <2>3 DEF w
  <1>6. update_parent(t, s, o)
           = [node EXCEPT ![t] = Way(cfg.cost_type, node[s], s, o, node[t].status)]
    BY <1>1, <1>2, <1>3 DEF update_parent
  <1>7. \/ node[t].status = "new"
        \/ /\ node[t].status \in {"open", "closed"}
           /\ node[t].g > node[s].g + AdjustedCost(cfg.cost_type, o)
    BY DEF adj
  <1> QED BY <1>1, <1>4, <1>5, <1>6, <1>7 DEF Finds, Known

LEMMA OpenHasWay ==
    ASSUME NEW ct, NEW m, Sound(ct, m), NEW s \in State, m[s].status \in {"open", "closed"}
    PROVE  HasWay(ct, m[s])
  BY DEF Sound

LEMMA FindsStep ==
    ASSUME SpaceOK, NEW s, NEW o, NEW t, UNCHANGED <<cfg, bound>>,
           Finds(cfg.cost_type, node, node', s, o, t), InBound(s, o)
    PROVE  /\ SpaceOK' /\ Cheapens(cfg.cost_type, node, node')
           /\ t \in State /\ node'[t].status \in {"open", "closed"}
           /\ \A u \in State : u # t => node'[u] = node[u]
  <1>1. Found(cfg.cost_type, node, node', s, o, t)
    BY FindsFacts DEF SpaceOK
  <1>2. Sound(cfg.cost_type, node') /\ Forest(node') /\ Cheapens(cfg.cost_type, node, node')
    BY FindsSound, FindsForest, FindsCheapens DEF SpaceOK
  <1>3. Low(cfg.cost_type, node', bound)
    BY <1>1 DEF Found, Low, SpaceOK, InBound
  <1> QED BY <1>1, <1>2, <1>3 DEF Found, SpaceOK

LEMMA MarksStep ==
    ASSUME SpaceOK, NEW s, NEW st, UNCHANGED <<cfg, bound>>,
           Marks(cfg.cost_type, node, node', s, st),
           st = "closed" => node[s].status \in {"open", "closed"}
    PROVE  /\ SpaceOK' /\ Cheapens(cfg.cost_type, node, node')
           /\ \A u \in State : u # s => node'[u] = node[u]
           /\ node'[s].status = st
  <1>1. /\ Sound(cfg.cost_type, node') /\ Forest(node')
        /\ Cheapens(cfg.cost_type, node, node')
        /\ \A u \in State : u # s => node'[u] = node[u]
        /\ node'[s].status = st
    BY MarksOK DEF SpaceOK
  <1>2. Low(cfg.cost_type, node', bound)
    <2> SUFFICES ASSUME cfg.cost_type = "normal", NEW u \in State \ {initial},
                        node'[u].status \in {"open", "closed"}
                 PROVE  node'[u].real_g < bound
      BY DEF Low
    <2>1. CASE u # s
      BY <1>1, <2>1 DEF SpaceOK, Low
    <2>2. CASE u = s
      <3>1. node[s].status \in {"open", "closed"} /\ s \in State
        BY <1>1, <2>2 DEF Marks
      <3>2. HasWay("normal", node[s]) /\ HasWay("normal", node'[s])
            /\ node'[s].g <= node[s].g
        BY <1>1, <3>1, OpenHasWay DEF SpaceOK, Cheapens
      <3>3. node[s].real_g < bound /\ bound \in Nat
        BY <2>2, <3>1 DEF SpaceOK, Low
      <3> QED BY <2>2, <3>2, <3>3 DEF HasWay
    <2> QED BY <2>1, <2>2
  <1> QED BY <1>1, <1>2 DEF SpaceOK

LEMMA InitialStep ==
    ASSUME SpaceOK, UNCHANGED <<cfg, bound>>, node' = open_initial(node)
    PROVE  /\ SpaceOK' /\ Cheapens(cfg.cost_type, node, node')
           /\ \A u \in State : u # initial => node'[u] = node[u]
           /\ node'[initial].status = "open"
  <1>1. /\ Sound(cfg.cost_type, node') /\ Forest(node')
        /\ Cheapens(cfg.cost_type, node, node')
        /\ \A u \in State : u # initial => node'[u] = node[u]
        /\ node'[initial].status = "open"
    BY InitialOK DEF SpaceOK
  <1>2. Low(cfg.cost_type, node', bound)
    BY <1>1 DEF Low, SpaceOK
  <1> QED BY <1>1, <1>2 DEF SpaceOK

LEMMA OpenIsKnown ==
    ASSUME SpaceOK
    PROVE  \A s \in State : node[s].status \in {"open", "closed"} => Known(s)
  BY OpenHasWay DEF SpaceOK, Known

LEMMA OpenBecomesKnown ==
    ASSUME SpaceOK', NEW s \in State, node'[s].status \in {"open", "closed"}
    PROVE  Known(s)'
  BY OpenHasWay DEF SpaceOK, Known

-----------------------------------------------------------------------------
(* Eager search.                                                           *)

LEMMA EagerInitializeKeeps ==
    ASSUME EngineInv, EagerInitialize
    PROVE  EngineInv'
  <1> DEFINE ctx == Eval(initial, 0, TRUE)
  <1>1. /\ cfg.kind = "eager" /\ UNCHANGED <<cfg, bound, cur, edge, todo>>
    BY DEF EagerInitialize
  <1>2. CASE UNCHANGED <<node, open>>
    BY <1>1, <1>2, SameSpace, KeepsExpanding DEF EngineInv, Frontier
  <1>3. CASE /\ node' = open_initial(node)
             /\ open' = Insert(cfg.lists, open, ctx, initial)
    <2>1. /\ SpaceOK' /\ Cheapens(cfg.cost_type, node, node')
          /\ \A u \in State : u # initial => node'[u] = node[u]
          /\ node'[initial].status = "open"
      BY <1>1, <1>3, InitialStep DEF EngineInv
    <2>2. OpenStates \subseteq OpenStates' /\ initial \in OpenStates'
      BY <1>1, <2>1, TaskAssumption DEF OpenStates
    <2>3. Holds(cfg.lists, open, OpenStates')
      BY <1>1, <2>2, HoldsMore DEF EngineInv, Frontier
    <2>4. Holds(cfg.lists, open', OpenStates')
      BY <1>3, <2>2, <2>3, InsertHolds
    <2> QED BY <1>1, <2>1, <2>4, KeepsExpanding DEF EngineInv, Frontier
  <1> QED BY <1>2, <1>3 DEF EagerInitialize

LEMMA EagerExhaustedKeeps ==
    ASSUME EngineInv, EagerExhausted
    PROVE  EngineInv'
  BY SameSpace, KeepsExpanding DEF EagerExhausted, EngineInv, Frontier

LEMMA EagerPopKeeps ==
    ASSUME EngineInv, EagerPop
    PROVE  EngineInv'
  <1>1. cfg.kind = "eager" /\ todo = {}
    BY DEF EagerPop, Popping
  <1>2. PICK pos \in MinPositions(cfg.lists, open) :
           PopStale(pos) \/ PopReevaluated(pos) \/ PopExpand(pos)
    BY DEF EagerPop
  <1>s. PICK s, rest : s = EntryAt(open, pos) /\ rest = RemoveMin(open, pos)
    OBVIOUS
  <1>3. s \in OpenStates /\ Holds(cfg.lists, rest, OpenStates)
    BY <1>1, <1>s, RemoveHolds DEF EngineInv, Frontier
  <1>4. s \in State
    BY <1>3 DEF OpenStates
  <1>5. CASE PopStale(pos)
    <2>1. open' = rest /\ UNCHANGED <<node, cfg, bound, cur, edge, todo>>
      BY <1>s, <1>5 DEF PopStale
    <2> QED BY <1>1, <1>3, <2>1, SameSpace, KeepsExpanding DEF EngineInv, Frontier
  <1>6. CASE PopReevaluated(pos)
    <2>1. PICK ctx : /\ cfg.lazy_evaluator
                     /\ UNCHANGED <<cfg, bound, cur, edge, todo>>
                     /\ \/ node' = mark_as_dead_end(s) /\ open' = rest
                        \/ node' = node /\ open' = Insert(cfg.lists, rest, ctx, s)
      BY <1>s, <1>6 DEF PopReevaluated, Reevaluated
    <2>2. CASE node' = mark_as_dead_end(s) /\ open' = rest
      <3>1. Marks(cfg.cost_type, node, node', s, "dead_end")
        BY <1>4, <2>2 DEF Marks, mark_as_dead_end
      <3>2. /\ SpaceOK' /\ Cheapens(cfg.cost_type, node, node')
            /\ \A u \in State : u # s => node'[u] = node[u]
            /\ node'[s].status = "dead_end"
        BY <2>1, <3>1, MarksStep DEF EngineInv
      <3>3. OpenStates \subseteq OpenStates'
        BY <2>1, <3>2 DEF OpenStates
      <3>4. Holds(cfg.lists, open', OpenStates')
        BY <1>3, <2>2, <3>3, HoldsMore
      <3> QED BY <1>1, <2>1, <3>2, <3>4, KeepsExpanding DEF EngineInv, Frontier
    <2>3. CASE node' = node /\ open' = Insert(cfg.lists, rest, ctx, s)
      <3>1. Holds(cfg.lists, open', OpenStates)
        BY <1>3, <2>3, InsertHolds
      <3> QED BY <1>1, <2>1, <2>3, <3>1, SameSpace, KeepsExpanding DEF EngineInv, Frontier
    <2> QED BY <2>1, <2>2, <2>3
  <1>7. CASE PopExpand(pos)
    <2>1. /\ ~Stale(s) /\ open' = rest /\ node' = Close(node, s) /\ cur' = s
          /\ UNCHANGED <<cfg, bound, edge>>
          /\ todo' = {} \/ todo' = Applicable(s)
      BY <1>s, <1>7 DEF PopExpand
    <2>2. node[s].status = "open"
      BY <1>3, <2>1 DEF Stale, OpenStates
    <2>3. Marks(cfg.cost_type, node, node', s, "closed")
      BY <1>4, <2>1, <2>2, OpenIsKnown DEF EngineInv, Marks, Close, Known
    <2>4. /\ SpaceOK' /\ Cheapens(cfg.cost_type, node, node')
          /\ \A u \in State : u # s => node'[u] = node[u]
          /\ node'[s].status = "closed"
      BY <2>1, <2>2, <2>3, MarksStep DEF EngineInv
    <2>5. OpenStates \subseteq OpenStates'
      BY <2>1, <2>4 DEF OpenStates
    <2>6. Holds(cfg.lists, open', OpenStates')
      BY <1>3, <2>1, <2>5, HoldsMore
    <2>7. Known(s)'
      BY <1>4, <2>4, OpenBecomesKnown
    <2>8. Expanded' = s /\ cfg'.kind = "eager" /\ cur' = s
      BY <1>1, <2>1 DEF Expanded
    <2>9. Known(Expanded)'
      BY <2>7, <2>8 DEF Known
    <2>10. Expanding'
      BY <1>4, <2>1, <2>8, <2>9 DEF Expanding
    <2> QED BY <1>1, <2>1, <2>4, <2>6, <2>10 DEF EngineInv, Frontier
  <1> QED BY <1>2, <1>5, <1>6, <1>7

LEMMA GenerateKeeps ==
    ASSUME EngineInv, Generate
    PROVE  EngineInv'
  <1>1. cfg.kind = "eager" /\ UNCHANGED <<cfg, bound, cur, edge>>
    BY DEF Generate
  <1>2. PICK o \in todo :
          /\ todo' = todo \ {o}
          /\ CASE NotGenerated(cur, o) \/ node[Successor(cur, o)].status = "dead_end" ->
                    UNCHANGED <<node, open, best_h, h>>
               [] ~NotGenerated(cur, o) /\ node[Successor(cur, o)].status = "new" ->
                    GenerateNew(cur, o, Successor(cur, o))
               [] ~NotGenerated(cur, o)
                     /\ node[Successor(cur, o)].status \in {"open", "closed"} ->
                    IF Cheaper(Successor(cur, o), cur, o)
                    THEN GenerateCheaper(cur, o, Successor(cur, o))
                    ELSE UNCHANGED <<node, open, best_h, h>>
    BY DEF Generate
  <1>t. PICK t : t = Successor(cur, o)
    OBVIOUS
  <1>2a. t \in State /\ node[t].status \in {"new", "open", "closed", "dead_end"}
    <2>1. t \in State
      BY <1>1, <1>2, <1>t, SuccessorFacts DEF EngineInv, Expanding, Expanded
    <2> QED BY <2>1 DEF EngineInv, SpaceOK, Sound, NodeType
  <1>2b. \/ UNCHANGED <<node, open>>
         \/ /\ ~NotGenerated(cur, o) /\ node[t].status = "new"
            /\ GenerateNew(cur, o, t)
         \/ /\ ~NotGenerated(cur, o)
            /\ node[t].status \in {"open", "closed"} /\ Cheaper(t, cur, o)
            /\ GenerateCheaper(cur, o, t)
    BY <1>2, <1>2a, <1>t
  <1>3. cur \in State /\ Known(cur) /\ o \in Applicable(cur) /\ todo' \subseteq todo
    BY <1>1, <1>2 DEF EngineInv, Expanding, Expanded
  <1>4. t \in State
    BY <1>2a
  <1>5. ASSUME Cheapens(cfg.cost_type, node, node') PROVE Expanding'
    <2>1. \A s \in State : Known(s) => Known(s)'
      BY <1>1, <1>5, SearchSpaceGrows DEF EngineInv
    <2> QED BY <1>1, <1>3, <2>1 DEF EngineInv, Expanding, Expanded, Known
  <1>6. ASSUME OpenStates \subseteq OpenStates' PROVE Holds(cfg.lists, open, OpenStates')
    BY <1>1, <1>6, HoldsMore DEF EngineInv, Frontier
  <1>7. CASE UNCHANGED <<node, open>>
    BY <1>1, <1>5, <1>7, SameSpace DEF EngineInv, Frontier
  <1>8. CASE node' = mark_as_dead_end(t) /\ open' = open /\ node[t].status = "new"
    <2>1. Marks(cfg.cost_type, node, node', t, "dead_end")
      BY <1>4, <1>8 DEF Marks, mark_as_dead_end
    <2>2. /\ SpaceOK' /\ Cheapens(cfg.cost_type, node, node')
          /\ \A u \in State : u # t => node'[u] = node[u]
      BY <1>1, <2>1, MarksStep DEF EngineInv
    <2>3. OpenStates \subseteq OpenStates'
      BY <1>1, <1>8, <2>2 DEF OpenStates
    <2> QED BY <1>1, <1>5, <1>6, <1>8, <2>2, <2>3 DEF EngineInv, Frontier
  <1>b. ASSUME ~NotGenerated(cur, o) PROVE InBound(cur, o)
    <2>1. node[cur].real_g \in Nat /\ Cost[o] \in Nat /\ bound \in Nat
      BY <1>3, SuccessorFacts, TaskAssumption DEF Known, HasWay, EngineInv, SpaceOK
    <2> QED BY <1>b, <2>1 DEF NotGenerated, InBound
  <1>9. ASSUME Finds(cfg.cost_type, node, node', cur, o, t), InBound(cur, o)
        PROVE  /\ SpaceOK' /\ Expanding' /\ t \in OpenStates'
               /\ Holds(cfg.lists, open, OpenStates')
    <2>1. /\ SpaceOK' /\ Cheapens(cfg.cost_type, node, node')
          /\ t \in State /\ node'[t].status \in {"open", "closed"}
          /\ \A u \in State : u # t => node'[u] = node[u]
      BY <1>1, <1>9, FindsStep DEF EngineInv
    <2>2. OpenStates \subseteq OpenStates' /\ t \in OpenStates'
      BY <1>1, <2>1 DEF OpenStates
    <2> QED BY <1>5, <1>6, <2>1, <2>2
  <1>10. CASE /\ ~NotGenerated(cur, o) /\ node[t].status = "new"
              /\ GenerateNew(cur, o, t)
    <2> DEFINE ctx == Eval(t, node[cur].g + adj(o), o \in preferred_operators(cur))
               more == Insert(cfg.lists, open, ctx, t)
    <2>1. CASE node' = OpenNode(t, cur, o) /\ open' = Rewarded(t, more)
      <3>1. Finds(cfg.cost_type, node, node', cur, o, t)
        BY <1>3, <1>t, <1>10, <2>1, EngineFinds DEF EngineInv
      <3>2. /\ SpaceOK' /\ Expanding' /\ t \in OpenStates'
            /\ Holds(cfg.lists, open, OpenStates')
        BY <1>b, <1>9, <1>10, <3>1
      <3>3. Holds(cfg.lists, more, OpenStates')
        BY <3>2, InsertHolds
      <3> HIDE DEF more
      <3>4. Holds(cfg.lists, open', OpenStates')
        BY <2>1, <3>3, BoostHolds DEF Rewarded
      <3> QED BY <1>1, <3>2, <3>4 DEF EngineInv, Frontier
    <2> QED BY <1>8, <1>10, <2>1 DEF GenerateNew
  <1>11. CASE /\ ~NotGenerated(cur, o)
              /\ node[t].status \in {"open", "closed"} /\ Cheaper(t, cur, o)
              /\ GenerateCheaper(cur, o, t)
    <2>1. PICK ctx :
             \/ node' = OpenNode(t, cur, o) /\ open' = Insert(cfg.lists, open, ctx, t)
             \/ node' = update_parent(t, cur, o) /\ open' = open
      BY <1>11 DEF GenerateCheaper
    <2>2. Finds(cfg.cost_type, node, node', cur, o, t)
      <3>1. node[t].g > node[cur].g + adj(o)
        BY <1>11 DEF Cheaper
      <3> QED BY <1>3, <1>t, <1>11, <2>1, <3>1, EngineFinds DEF EngineInv
    <2>3. /\ SpaceOK' /\ Expanding' /\ t \in OpenStates'
          /\ Holds(cfg.lists, open, OpenStates')
      BY <1>b, <1>9, <1>11, <2>2
    <2>4. Holds(cfg.lists, open', OpenStates')
      BY <2>1, <2>3, InsertHolds
    <2> QED BY <1>1, <2>3, <2>4 DEF EngineInv, Frontier
  <1> QED BY <1>2b, <1>7, <1>10, <1>11

-----------------------------------------------------------------------------
(* Lazy search.                                                            *)

\* An engine that has not been initialized expands nothing.
Fresh == status = "initialize" => todo = {}

LEMMA LazyWaits ==
    ASSUME EngineInv, Fresh,
           LazyInitialize \/ LazyKnown \/ LazyFetch \/ LazyExhausted
    PROVE  EngineInv'
  <1>1. cfg.kind = "lazy" /\ todo' = {} /\ UNCHANGED <<node, cfg, bound>>
    BY DEF LazyInitialize, LazyKnown, LazyFetch, LazyExhausted, Stepping, Fresh
  <1>2. SpaceOK' /\ OpenEdges' = OpenEdges
    BY <1>1, SameSpace DEF EngineInv
  <1>3. CASE LazyInitialize \/ LazyKnown \/ LazyExhausted
    <2>1. open' = open
      BY <1>3 DEF LazyInitialize, LazyKnown, LazyExhausted
    <2>2. /\ cur' \in State
          /\ edge' # <<>> => edge' = <<NoState, NoOp>> /\ cur' = initial
      BY <1>3, TaskAssumption
         DEF LazyInitialize, LazyKnown, LazyExhausted, Stepping, EngineInv, Expanding
    <2> QED BY <1>1, <1>2, <2>1, <2>2 DEF EngineInv, Frontier, Expanding
  <1>4. CASE LazyFetch
    <2>1. PICK pos \in MinPositions(cfg.lists, open) :
            /\ edge' = EntryAt(open, pos)
            /\ cur' = Successor(edge'[1], edge'[2])
            /\ open' = RemoveMin(open, pos)
      BY <1>4 DEF LazyFetch
    <2>2. edge' \in OpenEdges /\ Holds(cfg.lists, open', OpenEdges)
      BY <1>1, <2>1, RemoveHolds DEF EngineInv, Frontier
    <2>3. cur' \in State
      BY <2>1, <2>2, SuccessorFacts DEF OpenEdges
    <2> QED BY <1>1, <1>2, <2>1, <2>2, <2>3 DEF EngineInv, Frontier, Expanding
  <1> QED BY <1>3, <1>4

LEMMA LazyDeadEndKeeps ==
    ASSUME EngineInv, LazyDeadEnd
    PROVE  EngineInv'
  <1>1. /\ cfg.kind = "lazy" /\ todo' = {} /\ edge' = <<>>
        /\ UNCHANGED <<cfg, bound, open, cur>> /\ cur \in State
        /\ node' = mark_as_dead_end(cur)
    BY DEF LazyDeadEnd, Stepping, EngineInv, Expanding
  <1>2. Marks(cfg.cost_type, node, node', cur, "dead_end")
    BY <1>1 DEF Marks, mark_as_dead_end
  <1>3. SpaceOK' /\ OpenEdges \subseteq OpenEdges'
    BY <1>1, <1>2, MarksStep, SearchSpaceGrows DEF EngineInv
  <1>4. Holds(cfg.lists, open, OpenEdges')
    BY <1>1, <1>3, HoldsMore DEF EngineInv, Frontier
  <1> QED BY <1>1, <1>3, <1>4 DEF EngineInv, Frontier, Expanding

LEMMA LazyExpandKeeps ==
    ASSUME EngineInv, LazyExpand
    PROVE  EngineInv'
  <1>1. /\ cfg.kind = "lazy" /\ todo = {} /\ edge # <<>>
        /\ UNCHANGED <<cfg, bound, cur>> /\ cur \in State
        /\ node[cur].status = "new" \/ Reopens
    BY DEF LazyExpand, Stepping, EngineInv, Expanding
  <1>2. PICK opened : /\ opened = IF edge[1] = NoState THEN open_initial(node)
                                  ELSE OpenNode(cur, edge[1], edge[2])
                      /\ node' = Close(opened, cur)
    BY DEF LazyExpand
  <1>3. \/ UNCHANGED <<open, edge, todo>>
        \/ /\ open' = open \/ open' = Rewarded(cur, open)
           /\ todo' = Applicable(cur) /\ edge' = <<>>
    BY DEF LazyExpand
  <1>4. SpaceOK' /\ Cheapens(cfg.cost_type, node, node') /\ node'[cur].status = "closed"
    <2>1. CASE edge = <<NoState, NoOp>> /\ cur = initial
      <3>1. opened = open_initial(node)
        BY <1>2, <2>1
      <3>2. /\ Sound(cfg.cost_type, opened) /\ Forest(opened)
            /\ Cheapens(cfg.cost_type, node, opened)
            /\ opened[initial].status = "open"
            /\ \A u \in State : u # initial => opened[u] = node[u]
        BY <3>1, InitialOK DEF EngineInv, SpaceOK
      <3>3. HasWay(cfg.cost_type, opened[initial])
        BY <3>2, OpenHasWay, TaskAssumption
      <3>4. Marks(cfg.cost_type, opened, node', initial, "closed")
        BY <1>2, <2>1, <3>3, TaskAssumption DEF Marks, Close
      <3>5. /\ Sound(cfg.cost_type, node') /\ Forest(node')
            /\ Cheapens(cfg.cost_type, opened, node')
            /\ node'[initial].status = "closed"
            /\ \A u \in State : u # initial => node'[u] = opened[u]
        BY <3>2, <3>4, MarksOK DEF EngineInv, SpaceOK
      <3>6. Cheapens(cfg.cost_type, node, node')
        BY <3>2, <3>5 DEF Cheapens, HasWay
      <3>7. Low(cfg.cost_type, node', bound)
        BY <3>2, <3>5 DEF Low, EngineInv, SpaceOK
      <3> QED BY <1>1, <2>1, <3>5, <3>6, <3>7 DEF EngineInv, SpaceOK
    <2>2. CASE edge \in OpenEdges /\ cur = Successor(edge[1], edge[2])
      <3>1. /\ edge[1] \in State /\ Known(edge[1]) /\ edge[2] \in Applicable(edge[1])
            /\ edge[1] # NoState /\ InBound(edge[1], edge[2])
        BY <1>1, <2>2, TaskAssumption DEF OpenEdges
      <3>2. \/ node[cur].status = "new"
            \/ /\ node[cur].status \in {"open", "closed"}
               /\ node[cur].g > node[edge[1]].g + adj(edge[2])
        <4>1. CASE Reopens
          <5>1. HasWay(cfg.cost_type, node[cur])
            BY <1>1, <4>1, OpenHasWay DEF EngineInv, SpaceOK, Reopens
          <5>2. current_g < node[cur].g /\ node[cur].g \in Nat /\ node[edge[1]].g \in Nat
                /\ adj(edge[2]) \in Nat
            BY <3>1, <4>1, <5>1, SuccessorFacts, AdjustedFacts
               DEF Reopens, HasWay, Known, adj, EngineInv, SpaceOK
          <5> QED BY <3>1, <4>1, <5>2 DEF Reopens, current_g
        <4> QED BY <1>1, <4>1
      <3>3. Finds(cfg.cost_type, node, node', edge[1], edge[2], cur)
        <4>1. node' = Close(OpenNode(cur, edge[1], edge[2]), cur)
          BY <1>2, <3>1
        <4> QED BY <2>2, <3>1, <3>2, <4>1, EngineFinds DEF EngineInv
      <3>4. SpaceOK' /\ Cheapens(cfg.cost_type, node, node')
        BY <1>1, <3>1, <3>3, FindsStep DEF EngineInv
      <3>5. node'[cur].status = "closed"
        <4>1. node \in [State -> NodeType]
          BY DEF EngineInv, SpaceOK, Sound
        <4>2. opened = [node EXCEPT ![cur] = Reached(edge[1], edge[2], "open")]
          BY <1>2, <3>1 DEF OpenNode
        <4>3. opened[cur] = Reached(edge[1], edge[2], "open") /\ cur \in DOMAIN opened
          BY <1>1, <4>1, <4>2
        <4> QED BY <1>2, <4>3 DEF Close, Reached
      <3> QED BY <3>4, <3>5
    <2> QED BY <1>1, <2>1, <2>2 DEF EngineInv, Expanding
  <1>5. OpenEdges \subseteq OpenEdges'
    BY <1>1, <1>4, SearchSpaceGrows DEF EngineInv
  <1>6. Holds(cfg.lists, open, OpenEdges')
    BY <1>1, <1>5, HoldsMore DEF EngineInv, Frontier
  <1>7. Holds(cfg.lists, open', OpenEdges')
    BY <1>3, <1>6, BoostHolds DEF Rewarded
  <1>8. Known(cur)'
    BY <1>1, <1>4, OpenBecomesKnown DEF Known
  <1>9. Expanding'
    <2>1. Expanded' = cur /\ Known(Expanded)'
      BY <1>1, <1>8 DEF Expanded, Known
    <2>2. edge' # <<>> => edge' = edge
      BY <1>3
    <2>3. todo' \subseteq Applicable(cur)
      BY <1>1, <1>3
    <2> QED BY <1>1, <1>5, <2>1, <2>2, <2>3 DEF EngineInv, Expanding
  <1> QED BY <1>1, <1>4, <1>7, <1>9 DEF EngineInv, Frontier

LEMMA LazyGenerateKeeps ==
    ASSUME EngineInv, LazyGenerate
    PROVE  EngineInv'
  <1>1. cfg.kind = "lazy" /\ UNCHANGED <<node, cfg, bound, cur, edge>>
    BY DEF LazyGenerate
  <1>o. PICK o \in todo :
          /\ todo' = todo \ {o}
          /\ \/ open' = open
             \/ /\ node[cur].real_g + Cost[o] < bound
                /\ \E ctx : open' = Insert(cfg.lists, open, ctx, <<cur, o>>)
    BY DEF LazyGenerate
  <1>2. PICK ctx :
          /\ todo' = todo \ {o}
          /\ \/ open' = open
             \/ /\ node[cur].real_g + Cost[o] < bound
                /\ open' = Insert(cfg.lists, open, ctx, <<cur, o>>)
    BY <1>o
  <1>3. cur \in State /\ Known(cur) /\ todo \subseteq Applicable(cur)
    BY <1>1, <1>2 DEF EngineInv, Expanding, Expanded
  <1>4. SpaceOK' /\ OpenEdges' = OpenEdges
    BY <1>1, SameSpace DEF EngineInv
  <1>5. node[cur].real_g + Cost[o] < bound => <<cur, o>> \in OpenEdges
    BY <1>2, <1>3, SuccessorFacts DEF OpenEdges, InBound
  <1>6. Holds(cfg.lists, open', OpenEdges)
    BY <1>1, <1>2, <1>5, InsertHolds DEF EngineInv, Frontier
  <1>7. Expanding'
    BY <1>1, <1>2, <1>3, <1>4 DEF EngineInv, Expanding, Expanded, Known
  <1> QED BY <1>1, <1>4, <1>6, <1>7 DEF EngineInv, Frontier

-----------------------------------------------------------------------------
(* Enforced hill-climbing.                                                 *)

LEMMA HillInitializeKeeps ==
    ASSUME EngineInv, HillInitialize
    PROVE  EngineInv'
  <1>1. /\ cfg.kind = "ehc" /\ UNCHANGED <<cfg, bound, open, cur, edge, todo>>
        /\ node' = node \/ node' = open_initial(node)
    BY DEF HillInitialize
  <1>2. SpaceOK' /\ Cheapens(cfg.cost_type, node, node')
    BY <1>1, SameSpace, InitialStep DEF EngineInv
  <1>3. OpenEdges \subseteq OpenEdges'
    BY <1>1, <1>2, SearchSpaceGrows DEF EngineInv
  <1>4. Holds(cfg.lists, open, OpenEdges')
    BY <1>1, <1>3, HoldsMore DEF EngineInv, Frontier
  <1> QED BY <1>1, <1>2, <1>4, KeepsExpanding DEF EngineInv, Frontier

LEMMA SuccessorsApplicable ==
    ASSUME NEW s \in State
    PROVE  Successors(s) \subseteq Applicable(s)
  BY PreferredAssumption DEF Successors, preferred_operators

\* The state whose successors come next is the one that edge names.
LEMMA HillExpands ==
    ASSUME EngineInv, cfg.kind = "ehc", UNCHANGED <<cfg, bound>>, SpaceOK',
           NEW s \in State, node'[s].status \in {"open", "closed"},
           edge' = <<s>>, todo' \subseteq Applicable(s), cur' = cur
    PROVE  Expanding'
  <1>1. Known(s)'
    BY OpenBecomesKnown
  <1>2. Expanded' = s /\ Known(Expanded)'
    BY <1>1 DEF Expanded, Known
  <1> QED BY <1>2 DEF EngineInv, Expanding

LEMMA HillStepKeeps ==
    ASSUME EngineInv, HillStep
    PROVE  EngineInv'
  <1>1. /\ cfg.kind = "ehc" /\ UNCHANGED <<cfg, bound, open, cur>> /\ todo = {}
        /\ node[cur].status = "open" /\ cur \in State
    BY DEF HillStep, Climbing, EngineInv, Expanding
  <1>2. CASE UNCHANGED <<node, edge, todo>>
    BY <1>1, <1>2, SameSpace, KeepsExpanding DEF EngineInv, Frontier
  <1>3. CASE node' = Close(node, cur) /\ edge' = <<cur>> /\ todo' = Successors(cur)
    <2>1. Marks(cfg.cost_type, node, node', cur, "closed")
      BY <1>1, <1>3, OpenIsKnown DEF EngineInv, Marks, Close, Known
    <2>2. SpaceOK' /\ node'[cur].status = "closed" /\ OpenEdges \subseteq OpenEdges'
      BY <1>1, <2>1, MarksStep, SearchSpaceGrows DEF EngineInv
    <2>3. Holds(cfg.lists, open, OpenEdges')
      BY <1>1, <2>2, HoldsMore DEF EngineInv, Frontier
    <2>4. Expanding'
      BY <1>1, <1>3, <2>2, SuccessorsApplicable, HillExpands
    <2> QED BY <1>1, <2>2, <2>3, <2>4 DEF EngineInv, Frontier
  <1> QED BY <1>2, <1>3 DEF HillStep

LEMMA HillInsertKeeps ==
    ASSUME EngineInv, HillInsert
    PROVE  EngineInv'
  <1>1. cfg.kind = "ehc" /\ UNCHANGED <<node, cfg, bound, cur, edge>>
    BY DEF HillInsert
  <1>o. PICK o \in todo :
          /\ todo' = todo \ {o}
          /\ \E ctx : open' = Insert(cfg.lists, open, ctx, <<edge[1], o>>)
    BY DEF HillInsert
  <1>2. PICK ctx :
          /\ todo' = todo \ {o}
          /\ open' = Insert(cfg.lists, open, ctx, <<edge[1], o>>)
    BY <1>o
  <1>3. edge[1] \in State /\ Known(edge[1]) /\ todo \subseteq Applicable(edge[1])
    BY <1>1, <1>2 DEF EngineInv, Expanding, Expanded
  <1>4. SpaceOK' /\ OpenEdges' = OpenEdges
    BY <1>1, SameSpace DEF EngineInv
  <1>5. <<edge[1], o>> \in OpenEdges
    BY <1>1, <1>2, <1>3, SuccessorFacts DEF OpenEdges
  <1>6. Holds(cfg.lists, open', OpenEdges)
    BY <1>1, <1>2, <1>5, InsertHolds DEF EngineInv, Frontier
  <1>7. Expanding'
    BY <1>1, <1>2, <1>3, <1>4 DEF EngineInv, Expanding, Expanded, Known
  <1> QED BY <1>1, <1>4, <1>6, <1>7 DEF EngineInv, Frontier

LEMMA HillTakeKeeps ==
    ASSUME EngineInv, HillTake \/ HillImprove
    PROVE  EngineInv'
  <1>1. cfg.kind = "ehc" /\ todo = {} /\ UNCHANGED <<cfg, bound>> /\ cur \in State
    BY DEF HillTake, HillImprove, Climbing, EngineInv, Expanding
  <1>p. PICK pos \in MinPositions(cfg.lists, open) :
          \E e, t :
          /\ e = EntryAt(open, pos) /\ t = Successor(e[1], e[2])
          /\ \/ /\ HillSkip(e[1], e[2], t) \/ HillDeadEnd(e[1], e[2], t)
                   \/ HillExpand(e[1], e[2], t)
                /\ open' = RemoveMin(open, pos)
             \/ /\ node[e[1]].real_g + Cost[e[2]] < bound
                /\ node[t].status = "new" /\ node' = OpenNode(t, e[1], e[2])
                /\ open' = EmptyLists(cfg.lists) /\ cur' = t
                /\ UNCHANGED <<edge, todo>>
    BY DEF HillTake, HillImprove
  <1>2. PICK e, t :
          /\ e = EntryAt(open, pos) /\ t = Successor(e[1], e[2])
          /\ \/ /\ HillSkip(e[1], e[2], t) \/ HillDeadEnd(e[1], e[2], t)
                   \/ HillExpand(e[1], e[2], t)
                /\ open' = RemoveMin(open, pos)
             \/ /\ node[e[1]].real_g + Cost[e[2]] < bound
                /\ node[t].status = "new" /\ node' = OpenNode(t, e[1], e[2])
                /\ open' = EmptyLists(cfg.lists) /\ cur' = t
                /\ UNCHANGED <<edge, todo>>
    BY <1>p
  <1>3. e \in OpenEdges /\ Holds(cfg.lists, RemoveMin(open, pos), OpenEdges)
    BY <1>1, <1>2, RemoveHolds DEF EngineInv, Frontier
  <1>4. e[1] \in State /\ Known(e[1]) /\ e[2] \in Applicable(e[1]) /\ t \in State
    BY <1>2, <1>3, SuccessorFacts DEF OpenEdges
  <1>5. ASSUME open' = RemoveMin(open, pos), Cheapens(cfg.cost_type, node, node')
        PROVE  Holds(cfg.lists, open', OpenEdges')
    BY <1>1, <1>3, <1>5, SearchSpaceGrows, HoldsMore DEF EngineInv
  <1>6. CASE HillSkip(e[1], e[2], t) /\ open' = RemoveMin(open, pos)
    <2>1. UNCHANGED <<node, cur, edge, todo>>
      BY <1>6 DEF HillSkip
    <2> QED BY <1>1, <1>5, <1>6, <2>1, SameSpace, KeepsExpanding DEF EngineInv, Frontier
  <1>7. CASE HillDeadEnd(e[1], e[2], t) /\ open' = RemoveMin(open, pos)
    <2>1. node' = mark_as_dead_end(t) /\ UNCHANGED <<cur, edge, todo>>
      BY <1>7 DEF HillDeadEnd
    <2>2. Marks(cfg.cost_type, node, node', t, "dead_end")
      BY <1>4, <2>1 DEF Marks, mark_as_dead_end
    <2>3. SpaceOK' /\ Cheapens(cfg.cost_type, node, node')
      BY <1>1, <2>2, MarksStep DEF EngineInv
    <2> QED BY <1>1, <1>5, <1>7, <2>1, <2>3, KeepsExpanding DEF EngineInv, Frontier
  <1>8. CASE HillExpand(e[1], e[2], t) /\ open' = RemoveMin(open, pos)
    <2>1. /\ node[t].status = "new" /\ node' = Close(OpenNode(t, e[1], e[2]), t)
          /\ edge' = <<t>> /\ todo' = Successors(t) /\ cur' = cur
          /\ InBound(e[1], e[2])
      BY <1>8 DEF HillExpand, InBound
    <2>2. Finds(cfg.cost_type, node, node', e[1], e[2], t)
      BY <1>2, <1>4, <2>1, EngineFinds DEF EngineInv
    <2>3. /\ SpaceOK' /\ Cheapens(cfg.cost_type, node, node')
          /\ node'[t].status \in {"open", "closed"}
      BY <1>1, <2>1, <2>2, FindsStep DEF EngineInv
    <2>4. Expanding'
      BY <1>1, <1>4, <2>1, <2>3, SuccessorsApplicable, HillExpands
    <2> QED BY <1>1, <1>5, <1>8, <2>3, <2>4 DEF EngineInv, Frontier
  <1>9. CASE /\ node[e[1]].real_g + Cost[e[2]] < bound
             /\ node[t].status = "new" /\ node' = OpenNode(t, e[1], e[2])
             /\ open' = EmptyLists(cfg.lists) /\ cur' = t
             /\ UNCHANGED <<edge, todo>>
    <2>1. Finds(cfg.cost_type, node, node', e[1], e[2], t)
      BY <1>2, <1>4, <1>9, EngineFinds DEF EngineInv
    <2>2. SpaceOK'
      BY <1>1, <1>9, <2>1, FindsStep DEF EngineInv, InBound
    <2>3. Holds(cfg.lists, open', OpenEdges')
      BY <1>9, EmptyHolds
    <2>4. Expanding'
      BY <1>1, <1>4, <1>9 DEF Expanding
    <2> QED BY <1>1, <2>2, <2>3, <2>4 DEF EngineInv, Frontier
  <1> QED BY <1>2, <1>6, <1>7, <1>8, <1>9

LEMMA HillFailsKeeps ==
    ASSUME EngineInv, HillFails
    PROVE  EngineInv'
  BY SameSpace, KeepsExpanding DEF HillFails, EngineInv, Frontier

-----------------------------------------------------------------------------
(* The iterated search.                                                    *)

PortfolioOK == portfolio \in Portfolios /\ phase \in Nat /\ best_bound \in Nat

IInv == EngineInv /\ Fresh /\ PortfolioOK

LEMMA SearchKeeps ==
    ASSUME IInv, Search
    PROVE  IInv'
  <1>1. EngineInv'
    <2> USE DEF IInv
    <2>1. CASE EagerNext
      BY <2>1, EagerInitializeKeeps, EagerExhaustedKeeps, EagerPopKeeps, GenerateKeeps
         DEF EagerNext
    <2>2. CASE LazyNext
      BY <2>2, LazyWaits, LazyDeadEndKeeps, LazyExpandKeeps, LazyGenerateKeeps
         DEF LazyNext
    <2>3. CASE HillNext
      BY <2>3, HillInitializeKeeps, HillStepKeeps, HillInsertKeeps, HillTakeKeeps,
         HillFailsKeeps DEF HillNext
    <2> QED BY <2>1, <2>2, <2>3 DEF Search
  <1>2. status' # "initialize"
    <2>1. CASE EagerNext
      BY <2>1 DEF EagerNext, EagerInitialize, EagerExhausted, EagerPop, Popping,
         PopStale, PopReevaluated, PopExpand, Generate, StepReturns
    <2>2. CASE LazyNext
      BY <2>2 DEF LazyNext, LazyInitialize, LazyKnown, LazyDeadEnd, LazyExpand,
         LazyGenerate, LazyFetch, LazyExhausted, Stepping, StepReturns
    <2>3. CASE HillNext
      BY <2>3 DEF HillNext, HillInitialize, HillStep, HillInsert, HillTake,
         HillSkip, HillDeadEnd, HillExpand, HillImprove, HillFails, Climbing, StepReturns
    <2> QED BY <2>1, <2>2, <2>3 DEF Search
  <1>3. PortfolioOK'
    BY DEF Search, itVars, IInv, PortfolioOK
  <1> QED BY <1>1, <1>2, <1>3 DEF IInv, Fresh

LEMMA StartPhaseKeeps ==
    ASSUME IInv, StartPhase
    PROVE  IInv'
  <1>1. PICK b \in Nat : EngineStarts(current_phase, b)
    BY TaskAssumption DEF StartPhase, IInv, PortfolioOK
  <1>2. current_phase.cost_type \in CostType
    <2>1. /\ num_phases \in Nat \ {0} /\ phase \in Nat
          /\ \A i \in 1..num_phases : portfolio.engine_configs[i].cost_type \in CostType
      BY PortfolioAssumption DEF IInv, PortfolioOK, num_phases, CostType
    <2> DEFINE i == IF phase < num_phases THEN phase + 1 ELSE num_phases
    <2>2. i \in 1..num_phases
      BY <2>1
    <2>3. current_phase = portfolio.engine_configs[i]
      BY DEF current_phase
    <2> QED BY <2>1, <2>2, <2>3
  <1>3. /\ cfg' = current_phase /\ node' = [s \in State |-> NewNode]
        /\ open' = EmptyLists(cfg'.lists) /\ cur' = initial /\ edge' = <<>> /\ todo' = {}
        /\ bound' \in Nat
    BY <1>1 DEF EngineStarts
  <1>4. SpaceOK'
    BY <1>2, <1>3, EmptyOK DEF SpaceOK
  <1>5. Frontier'
    BY <1>3, EmptyHolds DEF Frontier
  <1>6. Expanding'
    BY <1>3, TaskAssumption DEF Expanding
  <1>7. PortfolioOK'
    BY DEF StartPhase, IInv, PortfolioOK
  <1> QED BY <1>3, <1>4, <1>5, <1>6, <1>7 DEF IInv, EngineInv, Fresh

LEMMA InitIInv == Init => IInv
  <1> SUFFICES ASSUME Init PROVE IInv
    OBVIOUS
  <1>1. portfolio \in Portfolios /\ phase = 0 /\ todo = {} /\ cur = initial /\ edge = <<>>
        /\ cfg = portfolio.engine_configs[1] /\ node = [s \in State |-> NewNode]
        /\ open = EmptyLists(cfg.lists) /\ bound \in Nat /\ best_bound \in Nat
    BY TaskAssumption, PortfolioAssumption DEF Init
  <1>2. cfg.cost_type \in CostType
    <2>1. 1 \in 1..Len(portfolio.engine_configs)
      BY <1>1, PortfolioAssumption
    <2> QED BY <1>1, <2>1, PortfolioAssumption DEF CostType
  <1>3. SpaceOK
    BY <1>1, <1>2, EmptyOK DEF SpaceOK
  <1>4. Frontier
    BY <1>1, EmptyHolds DEF Frontier
  <1> QED BY <1>1, <1>3, <1>4, TaskAssumption
          DEF IInv, EngineInv, Expanding, Fresh, PortfolioOK

\* What the other steps leave alone.
LEMMA UnchangedKeeps ==
    ASSUME IInv, UNCHANGED <<engineVars, portfolio, phase>>, best_bound' \in Nat
    PROVE  IInv'
  <1>1. UNCHANGED <<node, cfg, bound, open, status, cur, edge, todo, portfolio, phase>>
    BY DEF engineVars
  <1>2. SpaceOK' /\ OpenStates' = OpenStates /\ OpenEdges' = OpenEdges
        /\ Cheapens(cfg.cost_type, node, node')
    BY <1>1, SameSpace DEF IInv, EngineInv
  <1>3. Frontier'
    BY <1>1, <1>2 DEF IInv, EngineInv, Frontier
  <1>4. Expanding'
    BY <1>1, <1>2, KeepsExpanding DEF IInv, EngineInv
  <1> QED BY <1>1, <1>2, <1>3, <1>4 DEF IInv, EngineInv, Fresh, PortfolioOK

LEMMA IInvStep == IInv /\ [Next]_vars => IInv'
  <1> SUFFICES ASSUME IInv, [Next]_vars PROVE IInv'
    OBVIOUS
  <1>1. CASE StartPhase
    BY <1>1, StartPhaseKeeps
  <1>2. CASE Search
    BY <1>2, SearchKeeps
  <1>3. CASE NoPhaseLeft \/ Exit \/ PhaseEnds \/ SavePlan \/ StepReturned \/ Kill
    <2>1. UNCHANGED <<engineVars, portfolio, phase>> /\ best_bound' \in Nat
      BY <1>3 DEF NoPhaseLeft, Exit, PhaseEnds, SavePlan, StepReturned, Kill,
         IInv, PortfolioOK
    <2> QED BY <2>1, UnchangedKeeps
  <1>4. CASE UNCHANGED vars
    <2>1. UNCHANGED <<engineVars, portfolio, phase>> /\ best_bound' \in Nat
      BY <1>4 DEF vars, engineVars, IInv, PortfolioOK
    <2> QED BY <2>1, UnchangedKeeps
  <1> QED BY <1>1, <1>2, <1>3, <1>4 DEF Next, Steps

LEMMA Invariant == Spec => []IInv
  BY InitIInv, IInvStep, PTL DEF Spec

\* Whatever the engines reopen, update or give up, every parent is reached,
\* its operator leads to the node, and the node's g covers the way through it.
THEOREM ParentsSoundThm == Spec => []ParentsSound
  <1>1. IInv => ParentsSound
    BY DEF IInv, EngineInv, SpaceOK, Sound, ParentsSound, HasWay, Seen, adj
  <1> QED BY <1>1, Invariant, PTL

\* Tracing parents back always ends.
THEOREM ParentsAcyclicThm == Spec => []ParentsAcyclic
  <1>1. IInv => ParentsAcyclic
    BY DEF IInv, EngineInv, SpaceOK, Forest, Parented, ParentsAcyclic
  <1> QED BY <1>1, Invariant, PTL

\* With normal costs no engine reaches a node at or above its bound, neither
\* when it generates states nor when a lazy one expands a state long after
\* the edge to it was inserted.
THEOREM BoundKeptThm == Spec => []BoundKept
  <1>1. IInv => BoundKept
    BY DEF IInv, EngineInv, SpaceOK, Low, BoundKept
  <1> QED BY <1>1, Invariant, PTL

Stages ==
    /\ it_status \in {"in_progress", "solved", "failed", "timeout", "exit", "killed"}
    /\ stage \in {"step", "searching", "saving", "step_returns"}

LEMMA StagesInvariant == Spec => []Stages
  <1>1. Init => Stages
    BY DEF Init, Stages
  <1>2. Stages /\ [Next]_vars => Stages'
    BY DEF Stages, Next, Steps, vars, itVars, StartPhase, NoPhaseLeft, Search, Exit,
       PhaseEnds, SavePlan, StepReturned, step_return_value, Kill
  <1> QED BY <1>1, <1>2, PTL DEF Spec

\* Nodes, bounds and statuses have their types; an open or closed node has
\* its two g values; only operators of the task are expanded.
THEOREM TypeCorrect == Spec => []TypeOK
  <1>1. IInv => todo \subseteq Op
    BY TaskAssumption DEF IInv, EngineInv, Expanding, Applicable
  <1>2. IInv /\ Stages => TypeOK
    BY <1>1 DEF IInv, EngineInv, SpaceOK, Sound, HasWay, Expanding, PortfolioOK,
       CostType, Stages, TypeOK
  <1> QED BY <1>2, Invariant, StagesInvariant, PTL

-----------------------------------------------------------------------------
(* Induction.                                                              *)

\* A set with 0 and the successor of each of its numbers holds all numbers:
\* else its numbers up to a missing one, and the predecessors of the others,
\* would put m + 1 pigeons into m holes.
LEMMA Induction ==
    ASSUME NEW P, 0 \in P, \A n \in Nat : n \in P => n + 1 \in P
    PROVE  Nat \subseteq P
  <1> SUFFICES ASSUME NEW m \in Nat, m \notin P PROVE FALSE
    OBVIOUS
  <1> m > 0
    OBVIOUS
  <1> DEFINE hole == [i \in 0..m |-> IF i \in P THEN i ELSE i - 1]
  <1>1. hole \in [0..m -> 0..(m - 1)]
    OBVIOUS
  <1>2. \A i, j \in 0..m : i # j => hole[i] # hole[j]
    <2> SUFFICES ASSUME NEW i \in 0..m, NEW j \in 0..m, i # j, hole[i] = hole[j]
                 PROVE  FALSE
      OBVIOUS
    <2>1. CASE i \in P /\ j \notin P
      <3> j = i + 1
        BY <2>1
      <3> QED BY <2>1
    <2>2. CASE j \in P /\ i \notin P
      <3> i = j + 1
        BY <2>2
      <3> QED BY <2>2
    <2> QED BY <2>1, <2>2
  <1>3. /\ IsFiniteSet(0..m) /\ Cardinality(0..m) = m + 1
        /\ IsFiniteSet(0..(m - 1)) /\ Cardinality(0..(m - 1)) = m
    <2>1. 0 \in Int /\ m \in Int /\ m - 1 \in Int
      OBVIOUS
    <2> QED BY <2>1, FS_Interval
  <1> HIDE DEF hole
  <1>4. Cardinality(0..(m - 1)) < Cardinality(0..m)
    BY <1>3
  <1>5. \E i, j \in 0..m : i # j /\ hole[i] = hole[j]
    BY <1>1, <1>3, <1>4, FS_PigeonHole, Zenon
  <1> QED BY <1>2, <1>5

\* A set of numbers that is not empty has a least one.
LEMMA LeastNumber ==
    ASSUME NEW S, S \subseteq Nat, S # {}
    PROVE  \E m \in S : \A k \in S : m <= k
  <1> SUFFICES ASSUME \A m \in S : \E k \in S : ~(m <= k) PROVE FALSE
    OBVIOUS
  <1> DEFINE P == {n \in Nat : \A k \in S : n < k}
  <1>1. 0 \in P
    OBVIOUS
  <1>2. \A n \in Nat : n \in P => n + 1 \in P
    OBVIOUS
  <1> HIDE DEF P
  <1>3. Nat \subseteq P
    BY <1>1, <1>2, Induction
  <1>4. PICK k \in S : k \in Nat
    OBVIOUS
  <1> QED BY <1>3, <1>4 DEF P

\* f is the function on 0..n that is defined by recursion, with values in X:
\* step[i] is what leads from the value at i - 1 to the value at i.
Recursive(f, X, first, n, step) ==
    /\ f \in [0..n -> X]
    /\ f[0] = first /\ \A i \in 1..n : f[i] = step[i][f[i - 1]]

\* A function that is defined by recursion exists, and is what its equations say.
LEMMA Recursion ==
    ASSUME NEW X, NEW first \in X, NEW n \in Nat, NEW step \in [1..n -> [X -> X]]
    PROVE  \E f : Recursive(f, X, first, n, step)
  <1> DEFINE Upto(m, f) == f[0] = first /\ \A i \in 1..m : f[i] = step[i][f[i - 1]]
             P == {m \in Nat : m <= n => \E f \in [0..m -> X] : Upto(m, f)}
  <1>1. 0 \in P
    <2>1. [i \in 0..0 |-> first] \in [0..0 -> X] /\ Upto(0, [i \in 0..0 |-> first])
      OBVIOUS
    <2> QED BY <2>1
  <1>2. ASSUME NEW m \in Nat, m \in P PROVE m + 1 \in P
    <2> SUFFICES ASSUME m + 1 <= n PROVE \E f \in [0..(m + 1) -> X] : Upto(m + 1, f)
      OBVIOUS
    <2>1. PICK f \in [0..m -> X] : Upto(m, f)
      BY <1>2
    <2> DEFINE more == [i \in 0..(m + 1) |-> IF i <= m THEN f[i] ELSE step[m + 1][f[m]]]
    <2>2. m + 1 \in 1..n /\ f[m] \in X /\ step[m + 1] \in [X -> X]
      BY <2>1
    <2>3. step[m + 1][f[m]] \in X
      BY <2>2
    <2>4. more \in [0..(m + 1) -> X]
      BY <2>1, <2>3
    <2>5. \A i \in 0..m : more[i] = f[i]
      OBVIOUS
    <2>6. more[m + 1] = step[m + 1][f[m]]
      OBVIOUS
    <2> HIDE DEF more
    <2>7. Upto(m + 1, more)
      <3>1. more[0] = first
        BY <2>1, <2>5
      <3>2. ASSUME NEW i \in 1..(m + 1) PROVE more[i] = step[i][more[i - 1]]
        <4>1. CASE i \in 1..m
          BY <2>1, <2>5, <4>1
        <4>2. CASE i = m + 1
          BY <2>5, <2>6, <4>2
        <4> QED BY <4>1, <4>2
      <3> QED BY <3>1, <3>2
    <2> QED BY <2>4, <2>7
  <1> HIDE DEF P
  <1>3. n \in P
    BY <1>1, <1>2, Induction
  <1> QED BY <1>3 DEF P, Recursive

-----------------------------------------------------------------------------
(* The cost of a plan.                                                     *)

\* The costs of the first operators of p.
Sums(p) == CHOOSE f : f = [i \in 0..Len(p) |-> IF i = 0 THEN 0 ELSE f[i - 1] + Cost[p[i]]]

\* The costs of the prefixes of a plan.
LEMMA SumsFacts ==
    ASSUME NEW p \in Seq(Op)
    PROVE  /\ PlanCost(p) = Sums(p)[Len(p)]
           /\ Sums(p) \in [0..Len(p) -> Nat] /\ Sums(p)[0] = 0
           /\ \A i \in 1..Len(p) : Sums(p)[i] = Sums(p)[i - 1] + Cost[p[i]]
  <1> DEFINE n == Len(p)
             step == [i \in 1..n |-> [c \in Nat |-> c + Cost[p[i]]]]
  <1>1. n \in Nat /\ \A i \in 1..n : Cost[p[i]] \in Nat
    BY TaskAssumption
  <1>2. step \in [1..n -> [Nat -> Nat]]
    BY <1>1
  <1>3. \A i \in 1..n : \A c \in Nat : step[i][c] = c + Cost[p[i]]
    OBVIOUS
  <1> HIDE DEF step
  <1>4. PICK f : Recursive(f, Nat, 0, n, step)
    <2> HIDE DEF n
    <2>1. 0 \in Nat
      OBVIOUS
    <2> QED BY <1>1, <1>2, <2>1, Recursion, Zenon
  <1>5. f = [i \in 0..n |-> IF i = 0 THEN 0 ELSE f[i - 1] + Cost[p[i]]]
    <2>1. ASSUME NEW i \in 1..n PROVE f[i] = f[i - 1] + Cost[p[i]]
      <3>1. i - 1 \in 0..n
        BY <1>1
      <3> QED BY <1>3, <1>4, <3>1 DEF Recursive
    <2> QED BY <1>1, <1>4, <2>1 DEF Recursive
  <1>6. Sums(p) = [i \in 0..n |-> IF i = 0 THEN 0 ELSE Sums(p)[i - 1] + Cost[p[i]]]
    BY <1>5 DEF Sums
  <1>7. \A i \in 0..n : Sums(p)[i] = IF i = 0 THEN 0 ELSE Sums(p)[i - 1] + Cost[p[i]]
    BY <1>6
  <1>8. PlanCost(p) = Sums(p)[Len(p)]
    BY DEF PlanCost, Sums
  <1> DEFINE P == {i \in Nat : i <= n => Sums(p)[i] \in Nat}
  <1>9. 0 \in P
    BY <1>1, <1>7
  <1>10. ASSUME NEW i \in Nat, i \in P PROVE i + 1 \in P
    BY <1>1, <1>7, <1>10
  <1> HIDE DEF P
  <1>11. Nat \subseteq P
    BY <1>9, <1>10, Induction
  <1>12. \A i \in 0..n : Sums(p)[i] \in Nat
    BY <1>11 DEF P
  <1>13. Sums(p) \in [0..n -> Nat]
    BY <1>6, <1>12
  <1> QED BY <1>1, <1>7, <1>8, <1>13

\* The cost of a plan is a number.
LEMMA CostsAreNat ==
    ASSUME NEW p \in Seq(Op)
    PROVE  Len(p) \in Nat /\ PlanCost(p) \in Nat
  <1>1. Len(p) \in Nat /\ Len(p) \in 0..Len(p)
    OBVIOUS
  <1> QED BY <1>1, SumsFacts

\* The states of a plan.
At(p) == CHOOSE f : f = [i \in 0..Len(p) |-> IF i = 0 THEN initial ELSE After(f[i - 1], p[i])]

\* The states along a plan.
LEMMA AtFacts ==
    ASSUME NEW p \in Seq(Op)
    PROVE  /\ IsPlan(p) <=> At(p)[Len(p)] \in Goal
           /\ At(p) \in [0..Len(p) -> State \cup {NoState}] /\ At(p)[0] = initial
           /\ \A i \in 1..Len(p) : At(p)[i] = After(At(p)[i - 1], p[i])
  <1> DEFINE n == Len(p)
             X == State \cup {NoState}
             step == [i \in 1..n |-> [s \in X |-> After(s, p[i])]]
  <1>1. n \in Nat /\ initial \in X
    BY TaskAssumption
  <1>2. \A s, o : After(s, o) \in X
    BY DEF After, Successor, Applicable
  <1>3. step \in [1..n -> [X -> X]] /\ \A i \in 1..n : \A s \in X : step[i][s] = After(s, p[i])
    BY <1>2
  <1> HIDE DEF step
  <1>4. PICK f : Recursive(f, X, initial, n, step)
    <2> HIDE DEF n, X
    <2> QED BY <1>1, <1>3, Recursion, Zenon
  <1>5. f = [i \in 0..n |-> IF i = 0 THEN initial ELSE After(f[i - 1], p[i])]
    <2>1. ASSUME NEW i \in 1..n PROVE f[i] = After(f[i - 1], p[i])
      <3>1. i - 1 \in 0..n
        BY <1>1
      <3> QED BY <1>3, <1>4, <3>1 DEF Recursive
    <2> QED BY <1>1, <1>4, <2>1 DEF Recursive
  <1>6. At(p) = [i \in 0..n |-> IF i = 0 THEN initial ELSE After(At(p)[i - 1], p[i])]
    BY <1>5 DEF At
  <1>7. At(p) \in [0..n -> X]
    BY <1>1, <1>2, <1>6
  <1>8. IsPlan(p) <=> At(p)[Len(p)] \in Goal
    BY DEF IsPlan, At
  <1> QED BY <1>1, <1>6, <1>7, <1>8

\* p leads to s.
Leads(p, s) == p \in Seq(Op) /\ At(p)[Len(p)] = s

\* The empty plan leads to the initial state.
LEMMA LeadsNowhere == Leads(<<>>, initial) /\ PlanCost(<<>>) = 0
  <1>1. <<>> \in Seq(Op) /\ Len(<<>>) = 0
    OBVIOUS
  <1> QED BY <1>1, AtFacts, SumsFacts DEF Leads

\* A plan with another operator leads one state further.
LEMMA LeadsOn ==
    ASSUME NEW p, NEW s, Leads(p, s), NEW o, NEW t, <<s, o, t>> \in Transition
    PROVE  /\ Leads(Append(p, o), t) /\ Len(Append(p, o)) = Len(p) + 1
           /\ PlanCost(Append(p, o)) = PlanCost(p) + Cost[o]
  <1> DEFINE q == Append(p, o)
             n == Len(p)
  <1>1. s \in State /\ o \in Op /\ t \in State /\ Cost[o] \in Nat
    BY TaskAssumption
  <1>2. o \in Applicable(s) /\ Successor(s, o) = t
    <2>1. o \in Applicable(s)
      BY <1>1 DEF Applicable
    <2>2. <<s, o, Successor(s, o)>> \in Transition
      BY <1>1 DEF Successor
    <2> QED BY <2>1, <2>2, TaskAssumption
  <1>3. /\ p \in Seq(Op) /\ q \in Seq(Op) /\ n \in Nat /\ Len(q) = n + 1
        /\ q[n + 1] = o /\ \A i \in 1..n : q[i] = p[i]
    BY <1>1 DEF Leads
  <1> HIDE DEF q
  <1> DEFINE P == {i \in Nat : i <= n => At(q)[i] = At(p)[i] /\ Sums(q)[i] = Sums(p)[i]}
  <1>4. 0 \in P
    BY <1>3, AtFacts, SumsFacts
  <1>5. ASSUME NEW i \in Nat, i \in P PROVE i + 1 \in P
    <2> SUFFICES ASSUME i + 1 <= n
                 PROVE  At(q)[i + 1] = At(p)[i + 1] /\ Sums(q)[i + 1] = Sums(p)[i + 1]
      OBVIOUS
    <2>1. i + 1 \in 1..n /\ i + 1 \in 1..Len(q) /\ q[i + 1] = p[i + 1] /\ (i + 1) - 1 = i
      BY <1>3
    <2>2. At(q)[i] = At(p)[i] /\ Sums(q)[i] = Sums(p)[i]
      BY <1>5, <1>3
    <2>3. At(q)[i + 1] = After(At(q)[i], q[i + 1]) /\ At(p)[i + 1] = After(At(p)[i], p[i + 1])
      BY <1>3, <2>1, AtFacts
    <2>4. Sums(q)[i + 1] = Sums(q)[i] + Cost[q[i + 1]]
          /\ Sums(p)[i + 1] = Sums(p)[i] + Cost[p[i + 1]]
      BY <1>3, <2>1, SumsFacts
    <2> QED BY <2>1, <2>2, <2>3, <2>4
  <1> HIDE DEF P
  <1>6. Nat \subseteq P
    BY <1>4, <1>5, Induction
  <1>7. At(q)[n] = s /\ Sums(q)[n] = Sums(p)[n]
    BY <1>3, <1>6 DEF P, Leads
  <1>8. At(q)[n + 1] = t
    <2>1. n + 1 \in 1..Len(q) /\ (n + 1) - 1 = n
      BY <1>3
    <2>2. At(q)[n + 1] = After(At(q)[n], q[n + 1])
      BY <1>3, <2>1, AtFacts
    <2> QED BY <1>2, <1>3, <1>7, <2>2 DEF After
  <1>9. Sums(q)[n + 1] = Sums(p)[n] + Cost[o]
    BY <1>3, <1>7, SumsFacts
  <1> QED BY <1>3, <1>8, <1>9, SumsFacts DEF Leads, q

-----------------------------------------------------------------------------
(* The reference costs.                                                    *)

\* No plan without a cycle is longer.
N == Cardinality(State)

\* There are finitely many states.
LEMMA NFacts == N \in Nat
  BY TaskAssumption, FS_CardinalityType DEF N

\* Ways of at most i steps to the goal.
Ways == CHOOSE f : f = [i \in 0..N |-> IF i = 0 THEN {<<s, 0>> : s \in Goal}
                                        ELSE f[i - 1] \cup Prepended(f[i - 1])]

\* One step more, to the front of the ways there are.
LEMMA PrependedFacts ==
    ASSUME NEW W \in SUBSET (State \X Nat)
    PROVE  /\ Prepended(W) \in SUBSET (State \X Nat)
           /\ \A s, c : <<s, c>> \in Prepended(W) <=>
                 \E o \in Op, t \in State, k \in Nat :
                    /\ <<s, o, t>> \in Transition /\ <<t, k>> \in W /\ c = k + Cost[o]
  <1>1. ASSUME NEW x \in Prepended(W)
        PROVE  \E t \in Transition, w \in W : w[1] = t[3] /\ x = <<t[1], w[2] + Cost[t[2]]>>
    BY DEF Prepended
  <1>2. ASSUME NEW t \in Transition, NEW w \in W, w[1] = t[3]
        PROVE  <<t[1], w[2] + Cost[t[2]]>> \in Prepended(W)
    BY <1>2 DEF Prepended
  <1>3. \A t \in Transition :
           t = <<t[1], t[2], t[3]>> /\ t[1] \in State /\ t[2] \in Op /\ t[3] \in State
           /\ Cost[t[2]] \in Nat
    BY TaskAssumption
  <1>4. \A w \in W : w = <<w[1], w[2]>> /\ w[1] \in State /\ w[2] \in Nat
    OBVIOUS
  <1>5. ASSUME NEW x \in Prepended(W) PROVE x \in State \X Nat
    BY <1>1, <1>3, <1>4
  <1>6. ASSUME NEW s, NEW c
        PROVE  <<s, c>> \in Prepended(W) <=>
                  \E o \in Op, t \in State, k \in Nat :
                     <<s, o, t>> \in Transition /\ <<t, k>> \in W /\ c = k + Cost[o]
    <2>1. ASSUME NEW o \in Op, NEW t \in State, NEW k \in Nat,
                 <<s, o, t>> \in Transition /\ <<t, k>> \in W /\ c = k + Cost[o]
          PROVE  <<s, c>> \in Prepended(W)
      <3>1. PICK u, w : u = <<s, o, t>> /\ w = <<t, k>>
        OBVIOUS
      <3>2. u \in Transition /\ w \in W /\ w[1] = u[3]
            /\ <<u[1], w[2] + Cost[u[2]]>> = <<s, c>>
        BY <2>1, <3>1
      <3>3. <<u[1], w[2] + Cost[u[2]]>> \in Prepended(W)
        BY <1>2, <3>2, Zenon
      <3> QED BY <3>2, <3>3
    <2>2. ASSUME \E o \in Op, t \in State, k \in Nat :
                    <<s, o, t>> \in Transition /\ <<t, k>> \in W /\ c = k + Cost[o]
          PROVE  <<s, c>> \in Prepended(W)
      BY <2>1, <2>2
    <2>3. ASSUME <<s, c>> \in Prepended(W)
          PROVE  \E o \in Op, t \in State, k \in Nat :
                    <<s, o, t>> \in Transition /\ <<t, k>> \in W /\ c = k + Cost[o]
      <3>1. PICK t \in Transition, w \in W :
               w[1] = t[3] /\ <<s, c>> = <<t[1], w[2] + Cost[t[2]]>>
        BY <1>1, <2>3
      <3>2. /\ <<s, t[2], t[3]>> \in Transition /\ <<t[3], w[2]>> \in W
            /\ c = w[2] + Cost[t[2]]
        BY <1>3, <1>4, <3>1
      <3> QED BY <1>3, <1>4, <3>2
    <2> QED BY <2>2, <2>3
  <1> QED BY <1>5, <1>6

\* The ways to the goal of up to i steps.
LEMMA WaysFacts ==
    /\ WaysToGoal = Ways[N]
    /\ Ways \in [0..N -> SUBSET (State \X Nat)]
    /\ Ways[0] = {<<s, 0>> : s \in Goal}
    /\ \A i \in 1..N : Ways[i] = Ways[i - 1] \cup Prepended(Ways[i - 1])
  <1> DEFINE X == SUBSET (State \X Nat)
             first == {<<s, 0>> : s \in Goal}
             step == [i \in 1..N |-> [W \in X |-> W \cup Prepended(W)]]
  <1>1. N \in Nat /\ first \in X
    BY NFacts, TaskAssumption
  <1>2. \A W \in X : W \cup Prepended(W) \in X
    BY PrependedFacts
  <1>3. step \in [1..N -> [X -> X]]
        /\ \A i \in 1..N : \A W \in X : step[i][W] = W \cup Prepended(W)
    BY <1>2
  <1> HIDE DEF step
  <1>4. PICK f : Recursive(f, X, first, N, step)
    <2> HIDE DEF X, first
    <2> QED BY <1>1, <1>3, Recursion, Zenon
  <1> HIDE DEF X, first
  <1>5. f = [i \in 0..N |-> IF i = 0 THEN first ELSE f[i - 1] \cup Prepended(f[i - 1])]
    <2>1. ASSUME NEW i \in 1..N PROVE f[i] = f[i - 1] \cup Prepended(f[i - 1])
      <3>1. i - 1 \in 0..N
        BY <1>1
      <3> QED BY <1>3, <1>4, <3>1 DEF Recursive
    <2> QED BY <1>1, <1>4, <2>1 DEF Recursive
  <1>6. Ways = [i \in 0..N |-> IF i = 0 THEN first ELSE Ways[i - 1] \cup Prepended(Ways[i - 1])]
    BY <1>5 DEF Ways, first
  <1>7. \A i \in 0..N : Ways[i] = IF i = 0 THEN first ELSE Ways[i - 1] \cup Prepended(Ways[i - 1])
    BY <1>6
  <1> DEFINE P == {i \in Nat : i <= N => Ways[i] \in X}
  <1>8. 0 \in P
    <2>1. 0 \in 0..N
      BY <1>1
    <2>2. Ways[0] = first
      BY <1>7, <2>1
    <2> QED BY <1>1, <2>2
  <1>9. ASSUME NEW i \in Nat, i \in P PROVE i + 1 \in P
    <2> SUFFICES ASSUME i + 1 <= N PROVE Ways[i + 1] \in X
      OBVIOUS
    <2>1. i + 1 \in 0..N /\ i + 1 # 0 /\ (i + 1) - 1 = i /\ Ways[i] \in X
      BY <1>1, <1>9
    <2>2. Ways[i + 1] = Ways[i] \cup Prepended(Ways[i])
      BY <1>7, <2>1
    <2> QED BY <1>2, <2>1, <2>2
  <1> HIDE DEF P
  <1>10. Nat \subseteq P
    BY <1>8, <1>9, Induction
  <1>11. Ways \in [0..N -> X]
    <2>1. \A i \in 0..N : Ways[i] \in X
      BY <1>10 DEF P
    <2> QED BY <1>6, <2>1
  <1>12. WaysToGoal = Ways[N]
    BY DEF WaysToGoal, Ways, N
  <1> QED BY <1>1, <1>7, <1>11, <1>12 DEF first, X

\* HStar is the cost of a cheapest way to the goal.
LEMMA HStarFacts ==
    ASSUME NEW s \in State
    PROVE  /\ HStar[s] \in Nat
           /\ HStar[s] = INF \/ <<s, HStar[s]>> \in WaysToGoal
           /\ \A c : <<s, c>> \in WaysToGoal => HStar[s] <= c
  <1> DEFINE costs == {x[2] : x \in {y \in WaysToGoal : y[1] = s}}
  <1>1. WaysToGoal \in SUBSET (State \X Nat)
    BY WaysFacts, NFacts
  <1>2. \A c : c \in costs <=> <<s, c>> \in WaysToGoal
    <2>1. ASSUME NEW c \in costs PROVE <<s, c>> \in WaysToGoal
      <3>1. PICK x \in WaysToGoal : x[1] = s /\ c = x[2]
        OBVIOUS
      <3> QED BY <1>1, <3>1
    <2>2. ASSUME NEW c, <<s, c>> \in WaysToGoal PROVE c \in costs
      <3>1. PICK x : x = <<s, c>>
        OBVIOUS
      <3>2. x \in WaysToGoal /\ x[1] = s /\ x[2] = c
        BY <2>2, <3>1
      <3> QED BY <3>2
    <2> QED BY <2>1, <2>2
  <1>3. costs \subseteq Nat
    BY <1>1, <1>2
  <1>4. HStar[s] = IF costs = {} THEN INF ELSE CHOOSE c \in costs : \A k \in costs : c <= k
    BY DEF HStar
  <1> HIDE DEF costs
  <1>5. CASE costs = {}
    BY <1>2, <1>4, <1>5, TaskAssumption
  <1>6. CASE costs # {}
    <2>1. \E c \in costs : \A k \in costs : c <= k
      BY <1>3, <1>6, LeastNumber
    <2>2. HStar[s] \in costs /\ \A k \in costs : HStar[s] <= k
      BY <1>4, <1>6, <2>1
    <2> QED BY <1>2, <1>3, <2>2
  <1> QED BY <1>5, <1>6

\* The ways in Ways[i] are all ways with at most i steps.
LEMMA MoreWays ==
    ASSUME NEW i \in 0..N
    PROVE  Ways[i] \subseteq WaysToGoal
  <1> DEFINE P == {k \in Nat : i + k <= N => Ways[i] \subseteq Ways[i + k]}
  <1>1. i \in Nat /\ N \in Nat
    BY NFacts
  <1>2. 0 \in P
    BY <1>1
  <1>3. ASSUME NEW k \in Nat, k \in P PROVE k + 1 \in P
    <2> SUFFICES ASSUME i + (k + 1) <= N PROVE Ways[i] \subseteq Ways[i + (k + 1)]
      OBVIOUS
    <2>1. i + (k + 1) \in 1..N /\ (i + (k + 1)) - 1 = i + k /\ i + k <= N
      BY <1>1
    <2>2. Ways[i + k] \subseteq Ways[i + (k + 1)]
      BY <2>1, WaysFacts
    <2> QED BY <1>3, <2>1, <2>2
  <1> HIDE DEF P
  <1>4. Nat \subseteq P
    BY <1>2, <1>3, Induction
  <1>5. N - i \in Nat /\ i + (N - i) = N
    BY <1>1
  <1>6. N - i \in P
    BY <1>4, <1>5
  <1> QED BY <1>1, <1>5, <1>6, WaysFacts DEF P

\* No plan that traces parents is cheaper than the reference says.
LEMMA PlansCostEnough ==
    ASSUME NEW p, NEW s \in Goal, Leads(p, s), Len(p) <= N
    PROVE  HStar[initial] <= PlanCost(p)
  <1> DEFINE n == Len(p)
             rest(i) == Sums(p)[n] - Sums(p)[n - i]
             P == {i \in Nat : i <= n => <<At(p)[n - i], rest(i)>> \in Ways[i]}
  <1>1. /\ p \in Seq(Op) /\ n \in Nat /\ N \in Nat /\ n \in 0..N
        /\ At(p)[n] = s /\ \A i \in 0..n : Sums(p)[i] \in Nat
    BY NFacts, SumsFacts DEF Leads
  <1>2. 0 \in P
    <2>1. n - 0 = n /\ rest(0) = 0
      BY <1>1
    <2> QED BY <1>1, <2>1, WaysFacts
  <1>3. ASSUME NEW i \in Nat, i \in P PROVE i + 1 \in P
    <2> SUFFICES ASSUME i + 1 <= n
                 PROVE  <<At(p)[n - (i + 1)], rest(i + 1)>> \in Ways[i + 1]
      OBVIOUS
    <2> DEFINE j == n - i
               o == p[j]
    <2>1. /\ j \in 1..n /\ j - 1 = n - (i + 1) /\ j - 1 \in 0..n /\ o \in Op
          /\ i + 1 \in 1..N /\ (i + 1) - 1 = i /\ i \in 0..N
      BY <1>1
    <2>2. At(p)[j] = After(At(p)[j - 1], o) /\ Sums(p)[j] = Sums(p)[j - 1] + Cost[o]
      BY <1>1, <2>1, AtFacts, SumsFacts
    <2>3. <<At(p)[j], rest(i)>> \in Ways[i] /\ Ways[i] \in SUBSET (State \X Nat)
      BY <1>1, <1>3, <2>1, WaysFacts
    <2>4. At(p)[j] \in State /\ rest(i) \in Nat
      BY <2>3
    <2>5. o \in Applicable(At(p)[j - 1]) /\ At(p)[j] = Successor(At(p)[j - 1], o)
      BY <2>2, <2>4, TaskAssumption DEF After
    <2>6. <<At(p)[j - 1], o, At(p)[j]>> \in Transition
      BY <2>5 DEF Applicable, Successor
    <2>7. rest(i + 1) = rest(i) + Cost[o]
      <3>1. rest(i + 1) = Sums(p)[n] - Sums(p)[j - 1] /\ rest(i) = Sums(p)[n] - Sums(p)[j]
        BY <2>1
      <3>2. /\ Sums(p)[n] \in Nat /\ Sums(p)[j] \in Nat /\ Sums(p)[j - 1] \in Nat
            /\ Cost[o] \in Nat
        BY <1>1, <2>1, TaskAssumption
      <3> QED BY <2>2, <3>1, <3>2
    <2> HIDE DEF rest, j, o
    <2>8. <<At(p)[j - 1], rest(i + 1)>> \in Prepended(Ways[i])
      BY <2>1, <2>3, <2>4, <2>6, <2>7, PrependedFacts
    <2>9. <<At(p)[j - 1], rest(i + 1)>> \in Ways[i + 1]
      BY <2>1, <2>8, WaysFacts
    <2> QED BY <2>1, <2>9
  <1>4. P \subseteq Nat
    OBVIOUS
  <1> HIDE DEF P
  <1>5. n \in P
    BY <1>1, <1>2, <1>3, Induction
  <1>6. n - n = 0 /\ Sums(p)[0] = 0 /\ At(p)[0] = initial /\ rest(n) = PlanCost(p)
    BY <1>1, AtFacts, SumsFacts
  <1>7. <<initial, PlanCost(p)>> \in Ways[n]
    BY <1>5, <1>6 DEF P
  <1> QED BY <1>1, <1>7, MoreWays, HStarFacts, TaskAssumption

-----------------------------------------------------------------------------
(* trace_path.                                                             *)

\* The ways back to the initial state, cut off after k steps.
Back(nodes) ==
    CHOOSE f : f = [k \in 0..N |-> [t \in State |->
        IF nodes[t].op = NoOp THEN <<>>
        ELSE IF k = 0 THEN <<NoOp>>
        ELSE Append(f[k - 1][nodes[t].parent], nodes[t].op)]]

\* trace_path, step by step.
LEMMA BackFacts ==
    ASSUME NEW ct, NEW nodes, Sound(ct, nodes)
    PROVE  /\ \A s : trace_path(nodes, s) = Back(nodes)[N][s]
           /\ Back(nodes) \in [0..N -> [State -> Seq(Op \cup {NoOp})]]
           /\ \A t \in State :
                 /\ nodes[t].op = NoOp => \A k \in 0..N : Back(nodes)[k][t] = <<>>
                 /\ nodes[t].op # NoOp => Back(nodes)[0][t] = <<NoOp>>
                 /\ nodes[t].op # NoOp => \A k \in 1..N :
                       Back(nodes)[k][t]
                          = Append(Back(nodes)[k - 1][nodes[t].parent], nodes[t].op)
  <1> DEFINE X == [State -> Seq(Op \cup {NoOp})]
             Row(k, row) == [t \in State |->
                 IF nodes[t].op = NoOp THEN <<>>
                 ELSE IF k = 0 THEN <<NoOp>>
                 ELSE Append(row[nodes[t].parent], nodes[t].op)]
             first == Row(0, <<>>)
             step == [k \in 1..N |-> [row \in X |-> Row(k, row)]]
  <1>1. N \in Nat
    BY NFacts
  <1>2. \A t \in State : nodes[t].op # NoOp => nodes[t].parent \in State /\ nodes[t].op \in Op
    BY DEF Sound, Root
  <1>3. <<>> \in Seq(Op \cup {NoOp}) /\ <<NoOp>> \in Seq(Op \cup {NoOp})
    OBVIOUS
  <1>4. first \in X
    BY <1>3
  <1>5. ASSUME NEW k \in 1..N, NEW row \in X PROVE Row(k, row) \in X
    <2>1. \A t \in State : nodes[t].op # NoOp =>
             Append(row[nodes[t].parent], nodes[t].op) \in Seq(Op \cup {NoOp})
      BY <1>2
    <2> QED BY <1>3, <2>1
  <1> HIDE DEF Row, X
  <1>6. step \in [1..N -> [X -> X]] /\ \A k \in 1..N : \A row \in X : step[k][row] = Row(k, row)
    BY <1>5
  <1> HIDE DEF step, first
  <1>7. PICK f : Recursive(f, X, first, N, step)
    BY <1>1, <1>4, <1>6, Recursion, Zenon
  <1>8. \A row : Row(0, row) = first
    BY DEF Row, first
  <1>9. f = [k \in 0..N |-> Row(k, f[k - 1])]
    <2>1. ASSUME NEW k \in 1..N PROVE f[k] = Row(k, f[k - 1])
      <3>1. k - 1 \in 0..N
        BY <1>1
      <3> QED BY <1>6, <1>7, <3>1 DEF Recursive
    <2> QED BY <1>1, <1>7, <1>8, <2>1 DEF Recursive
  <1> DEFINE B == Back(nodes)
  <1>10. B = [k \in 0..N |-> Row(k, B[k - 1])]
    BY <1>9 DEF Back, Row
  <1>11. \A s : trace_path(nodes, s) = B[N][s]
    BY DEF trace_path, Back, N
  <1> HIDE DEF B
  <1>12. \A k \in 0..N : B[k] = Row(k, B[k - 1])
    BY <1>10
  <1> DEFINE P == {k \in Nat : k <= N => B[k] \in X}
  <1>13. 0 \in P
    BY <1>1, <1>4, <1>8, <1>12
  <1>14. ASSUME NEW k \in Nat, k \in P PROVE k + 1 \in P
    <2> SUFFICES ASSUME k + 1 <= N PROVE B[k + 1] \in X
      OBVIOUS
    <2>1. k + 1 \in 1..N /\ k + 1 \in 0..N /\ (k + 1) - 1 = k /\ B[k] \in X
      BY <1>1, <1>14
    <2>2. B[k + 1] = Row(k + 1, B[k])
      BY <1>12, <2>1
    <2> QED BY <1>5, <2>1, <2>2
  <1> HIDE DEF P
  <1>15. \A k \in 0..N : B[k] \in X
    <2>1. Nat \subseteq P
      BY <1>13, <1>14, Induction
    <2> QED BY <2>1 DEF P
  <1>16. B \in [0..N -> X]
    BY <1>10, <1>15
  <1>17. ASSUME NEW t \in State
         PROVE  /\ nodes[t].op = NoOp => \A k \in 0..N : B[k][t] = <<>>
                /\ nodes[t].op # NoOp => B[0][t] = <<NoOp>>
                /\ nodes[t].op # NoOp => \A k \in 1..N :
                      B[k][t] = Append(B[k - 1][nodes[t].parent], nodes[t].op)
    <2>1. ASSUME NEW k \in 0..N
          PROVE  B[k][t] = IF nodes[t].op = NoOp THEN <<>>
                           ELSE IF k = 0 THEN <<NoOp>>
                           ELSE Append(B[k - 1][nodes[t].parent], nodes[t].op)
      <3>1. B[k] = Row(k, B[k - 1])
        BY <1>12
      <3> QED BY <3>1 DEF Row
    <2>2. 0 \in 0..N /\ \A k \in 1..N : k \in 0..N /\ k # 0
      BY <1>1
    <2> QED BY <2>1, <2>2
  <1> QED BY <1>11, <1>16, <1>17 DEF B, X

\* The nodes traced back to the initial state within k steps.
Traced(ct, nodes, k) ==
    {t \in State : HasWay(ct, nodes[t]) /\ Back(nodes)[k][t] \in Seq(Op)}

\* A node with a way to it is the root, or has a parent with one.
LEMMA RootFacts ==
    ASSUME NEW ct, NEW nodes, Sound(ct, nodes), NEW t \in State, HasWay(ct, nodes[t])
    PROVE  \/ /\ nodes[t].op = NoOp /\ nodes[t].parent = NoState /\ t = initial
              /\ t \notin Parented(nodes)
           \/ /\ nodes[t].op # NoOp /\ nodes[t].op \in Op /\ nodes[t].parent \in State
              /\ HasWay(ct, nodes[nodes[t].parent])
              /\ <<nodes[t].parent, nodes[t].op, t>> \in Transition
              /\ t \in Parented(nodes)
  <1>1. CASE nodes[t].parent = NoState
    <2>1. nodes[t].g # -1
      BY DEF HasWay
    <2> QED BY <1>1, <2>1 DEF Sound, Root, Parented
  <1>2. CASE nodes[t].parent # NoState
    BY <1>2, TaskAssumption DEF Sound, Parented
  <1> QED BY <1>1, <1>2

\* One step of the way back.
LEMMA BackStep ==
    ASSUME NEW ct, NEW nodes, Sound(ct, nodes), NEW j \in Nat, j + 1 <= N, NEW u \in State,
           nodes[u].op # NoOp, nodes[u].parent \in State, Back(nodes)[j + 1][u] \in Seq(Op)
    PROVE  /\ Back(nodes)[j + 1][u] = Append(Back(nodes)[j][nodes[u].parent], nodes[u].op)
           /\ Back(nodes)[j][nodes[u].parent] \in Seq(Op)
  <1>1. j + 1 \in 1..N /\ (j + 1) - 1 = j /\ j \in 0..N
    BY NFacts
  <1>2. PICK a, b : a = Back(nodes)[j + 1][u] /\ b = Back(nodes)[j][nodes[u].parent]
    OBVIOUS
  <1>3. a = Append(b, nodes[u].op)
    <2>1. \A k \in 1..N :
             Back(nodes)[k][u] = Append(Back(nodes)[k - 1][nodes[u].parent], nodes[u].op)
      BY BackFacts
    <2> QED BY <1>1, <1>2, <2>1
  <1>4. b \in Seq(Op \cup {NoOp})
    <2>1. Back(nodes)[j] \in [State -> Seq(Op \cup {NoOp})]
      BY <1>1, BackFacts
    <2> QED BY <1>2, <2>1
  <1>5. b \in Seq(Op)
    <2>1. Len(b) \in Nat /\ Len(a) = Len(b) + 1
      BY <1>3, <1>4
    <2>2. \A i \in 1..Len(b) : a[i] = b[i] /\ a[i] \in Op
      BY <1>2, <1>3, <1>4, <2>1
    <2> QED BY <1>4, <2>1, <2>2
  <1> QED BY <1>2, <1>3, <1>5

\* A path that is traced to the root leads from there to its node.
LEMMA TracedLeads ==
    ASSUME NEW ct \in CostType, NEW nodes, Sound(ct, nodes), NEW k \in 0..N,
           NEW t \in Traced(ct, nodes, k)
    PROVE  /\ Leads(Back(nodes)[k][t], t) /\ Len(Back(nodes)[k][t]) <= k
           /\ ct = "normal" => PlanCost(Back(nodes)[k][t]) <= nodes[t].g
  <1> DEFINE B == Back(nodes)
             Good(j, u) == /\ Leads(B[j][u], u) /\ Len(B[j][u]) <= j
                           /\ ct = "normal" => PlanCost(B[j][u]) <= nodes[u].g
             P == {j \in Nat : j <= N => \A u \in Traced(ct, nodes, j) : Good(j, u)}
  <1>1. N \in Nat
    BY NFacts
  <1>2. \A j \in 0..N : \A u \in Traced(ct, nodes, j) :
           u \in State /\ HasWay(ct, nodes[u]) /\ nodes[u].g \in Nat /\ B[j][u] \in Seq(Op)
    BY DEF Traced, HasWay
  <1>3. ASSUME NEW j \in 0..N, NEW u \in Traced(ct, nodes, j), nodes[u].op = NoOp
        PROVE  Good(j, u)
    <2>1. u = initial
      BY <1>2, <1>3, RootFacts
    <2>2. B[j][u] = <<>> /\ Len(B[j][u]) = 0
      BY <1>2, <1>3, BackFacts
    <2> QED BY <1>2, <2>1, <2>2, LeadsNowhere
  <1>4. 0 \in P
    <2> SUFFICES ASSUME NEW u \in Traced(ct, nodes, 0) PROVE nodes[u].op = NoOp
      BY <1>1, <1>3
    <2>1. u \in State /\ B[0][u] \in Seq(Op)
      BY <1>1, <1>2
    <2>2. nodes[u].op # NoOp => B[0][u] = <<NoOp>>
      BY <2>1, BackFacts
    <2>3. <<NoOp>> \notin Seq(Op)
      <3> SUFFICES ASSUME <<NoOp>> \in Seq(Op) PROVE FALSE
        OBVIOUS
      <3>1. <<NoOp>>[1] \in Op
        OBVIOUS
      <3> QED BY <3>1, TaskAssumption
    <2> QED BY <2>1, <2>2, <2>3
  <1>5. ASSUME NEW j \in Nat, j \in P PROVE j + 1 \in P
    <2> SUFFICES ASSUME j + 1 <= N, NEW u \in Traced(ct, nodes, j + 1), nodes[u].op # NoOp
                 PROVE  Good(j + 1, u)
      BY <1>1, <1>3
    <2> DEFINE v == nodes[u].parent
               o == nodes[u].op
    <2>1. j + 1 \in 1..N /\ j + 1 \in 0..N /\ (j + 1) - 1 = j /\ j \in 0..N
      BY <1>1
    <2>2. u \in State /\ HasWay(ct, nodes[u]) /\ B[j + 1][u] \in Seq(Op) /\ nodes[u].g \in Nat
      BY <1>2, <2>1
    <2>3. v \in State /\ o \in Op /\ HasWay(ct, nodes[v]) /\ <<v, o, u>> \in Transition
          /\ nodes[v].g \in Nat
      BY <2>2, RootFacts DEF HasWay
    <2>4. B[j + 1][u] = Append(B[j][v], o) /\ B[j][v] \in Seq(Op)
      BY <2>2, <2>3, BackStep
    <2>6. v \in Traced(ct, nodes, j)
      BY <2>3, <2>4 DEF Traced
    <2>7. Good(j, v)
      BY <1>5, <2>1, <2>6
    <2>8. /\ Leads(B[j + 1][u], u) /\ Len(B[j + 1][u]) = Len(B[j][v]) + 1
          /\ PlanCost(B[j + 1][u]) = PlanCost(B[j][v]) + Cost[o]
      BY <2>3, <2>4, <2>7, LeadsOn
    <2>9. ct = "normal" => nodes[u].g >= nodes[v].g + Cost[o]
      BY <2>2, <2>3, AdjustedFacts, TaskAssumption DEF Sound
    <2>10. Len(B[j][v]) \in Nat /\ PlanCost(B[j][v]) \in Nat /\ Cost[o] \in Nat
      BY <2>3, <2>4, CostsAreNat, TaskAssumption
    <2>11. ct = "normal" => PlanCost(B[j + 1][u]) <= nodes[u].g
      BY <2>2, <2>3, <2>7, <2>8, <2>9, <2>10
    <2>12. Len(B[j + 1][u]) <= j + 1
      BY <2>7, <2>8, <2>10
    <2> QED BY <2>8, <2>11, <2>12
  <1> HIDE DEF P, Good
  <1>6. k \in P
    BY <1>1, <1>4, <1>5, Induction
  <1> QED BY <1>1, <1>6 DEF P, Good

\* Every node with a way is traced to the end: as long as one is missing,
\* one more step reaches another.
LEMMA AllTraced ==
    ASSUME NEW ct \in CostType, NEW nodes, Sound(ct, nodes), Forest(nodes),
           NEW t \in State, HasWay(ct, nodes[t])
    PROVE  t \in Traced(ct, nodes, N)
  <1> DEFINE All == {u \in State : HasWay(ct, nodes[u])}
             Z(k) == Traced(ct, nodes, k)
             B == Back(nodes)
  <1>1. N \in Nat /\ IsFiniteSet(State) /\ Cardinality(State) = N
    BY NFacts, TaskAssumption DEF N
  <1>2. \A k : Z(k) \subseteq All /\ Z(k) \subseteq State
    BY DEF Traced
  <1>3. \A k : IsFiniteSet(Z(k)) /\ Cardinality(Z(k)) \in Nat /\ Cardinality(Z(k)) <= N
    BY <1>1, <1>2, FS_Subset, FS_CardinalityType
  <1>4. ASSUME NEW u \in All, nodes[u].op = NoOp, NEW k \in 0..N PROVE u \in Z(k)
    <2>1. <<>> \in Seq(Op)
      OBVIOUS
    <2>2. B[k][u] = <<>>
      BY <1>4, BackFacts
    <2> QED BY <2>1, <2>2 DEF Traced
  <1>5. ASSUME NEW k \in Nat, k + 1 <= N, NEW u \in All, nodes[u].op # NoOp,
               nodes[u].parent \in Z(k)
        PROVE  u \in Z(k + 1)
    <2>1. nodes[u].op \in Op
      BY <1>5, RootFacts
    <2>2. k + 1 \in 1..N /\ (k + 1) - 1 = k
      BY <1>1, <1>5
    <2>3. B[k + 1][u] = Append(B[k][nodes[u].parent], nodes[u].op)
      BY <1>5, <2>2, BackFacts
    <2>4. B[k][nodes[u].parent] \in Seq(Op)
      BY <1>5 DEF Traced
    <2>5. B[k + 1][u] \in Seq(Op)
      BY <2>1, <2>3, <2>4
    <2> QED BY <2>5 DEF Traced
  <1>6. ASSUME NEW k \in Nat, k + 1 <= N, NEW u \in Z(k), nodes[u].op # NoOp,
               NEW j \in Nat, k = j + 1
        PROVE  nodes[u].parent \in Z(j)
    <2>1. u \in State /\ HasWay(ct, nodes[u]) /\ B[k][u] \in Seq(Op)
      BY DEF Traced
    <2>2. nodes[u].parent \in State /\ HasWay(ct, nodes[nodes[u].parent]) /\ nodes[u].op \in Op
      BY <1>6, <2>1, RootFacts
    <2>3. B[j][nodes[u].parent] \in Seq(Op)
      <3>1. j + 1 <= N /\ B[j + 1][u] \in Seq(Op)
        BY <1>1, <1>6, <2>1
      <3> QED BY <1>6, <2>1, <2>2, <3>1, BackStep
    <2> QED BY <2>2, <2>3 DEF Traced
  <1> HIDE DEF Z
  <1> DEFINE Q == {k \in Nat : k + 1 <= N => Z(k) \subseteq Z(k + 1)}
  <1>7. 0 \in Q
    <2> SUFFICES ASSUME 1 <= N, NEW u \in Z(0) PROVE u \in Z(1)
      OBVIOUS
    <2>1. u \in All /\ B[0][u] \in Seq(Op)
      BY <1>2 DEF Traced, Z
    <2>2. nodes[u].op = NoOp
      <3>1. <<NoOp>> \notin Seq(Op)
        <4> SUFFICES ASSUME <<NoOp>> \in Seq(Op) PROVE FALSE
          OBVIOUS
        <4>1. <<NoOp>>[1] \in Op
          OBVIOUS
        <4> QED BY <4>1, TaskAssumption
      <3>2. nodes[u].op # NoOp => B[0][u] = <<NoOp>>
        BY <2>1, BackFacts
      <3> QED BY <2>1, <3>1, <3>2
    <2> QED BY <1>1, <1>4, <2>1, <2>2
  <1>8. ASSUME NEW k \in Nat, k \in Q PROVE k + 1 \in Q
    <2> SUFFICES ASSUME (k + 1) + 1 <= N, NEW u \in Z(k + 1) PROVE u \in Z((k + 1) + 1)
      OBVIOUS
    <2>1. k + 1 \in Nat /\ (k + 1) + 1 \in 0..N /\ k + 1 <= N /\ u \in All
      BY <1>1, <1>2
    <2>2. CASE nodes[u].op = NoOp
      BY <1>4, <2>1, <2>2
    <2>3. CASE nodes[u].op # NoOp
      <3>1. nodes[u].parent \in Z(k)
        BY <1>6, <2>1, <2>3
      <3>2. nodes[u].parent \in Z(k + 1)
        BY <1>8, <2>1, <3>1
      <3> QED BY <1>5, <2>1, <2>3, <3>2
    <2> QED BY <2>2, <2>3
  <1>9. \A k \in Nat : k + 1 <= N => Z(k) \subseteq Z(k + 1)
    <2> HIDE DEF Q
    <2>1. Nat \subseteq Q
      BY <1>7, <1>8, Induction
    <2> QED BY <2>1 DEF Q
  <1>10. ASSUME NEW S \in SUBSET All, S # {}, \A u \in S : nodes[u].op # NoOp
         PROVE  \E u \in S : nodes[u].parent \in All \ S
    <2>1. S \subseteq Parented(nodes)
      BY <1>10, RootFacts
    <2>2. PICK u \in S : nodes[u].parent \notin S
      BY <1>10, <2>1 DEF Forest
    <2>3. nodes[u].parent \in All
      BY <1>10, RootFacts
    <2> QED BY <2>2, <2>3
  <1> DEFINE P == {k \in Nat : k <= N => All \subseteq Z(k) \/ Cardinality(Z(k)) > k}
  <1>11. 0 \in P
    <2>1. PICK u \in All : nodes[u].op = NoOp
      <3> SUFFICES ASSUME \A u \in All : nodes[u].op # NoOp PROVE FALSE
        OBVIOUS
      <3>1. t \in All
        OBVIOUS
      <3> QED BY <1>10, <3>1
    <2>2. u \in Z(0)
      BY <1>1, <1>4, <2>1
    <2>3. Cardinality(Z(0)) # 0
      BY <1>3, <2>2, FS_EmptySet
    <2> QED BY <1>3, <2>3
  <1>12. ASSUME NEW k \in Nat, k \in P PROVE k + 1 \in P
    <2> SUFFICES ASSUME k + 1 <= N, ~(All \subseteq Z(k + 1))
                 PROVE  Cardinality(Z(k + 1)) > k + 1
      OBVIOUS
    <2>1. Z(k) \subseteq Z(k + 1) /\ ~(All \subseteq Z(k)) /\ k \in 0..N
      BY <1>1, <1>9
    <2>2. Cardinality(Z(k)) > k
      BY <1>1, <1>12, <2>1
    <2> DEFINE S == All \ Z(k)
    <2>3. S \in SUBSET All /\ S # {} /\ \A u \in S : nodes[u].op # NoOp
      BY <1>4, <2>1
    <2>4. PICK u \in S : nodes[u].parent \in All \ S
      BY <1>10, <2>3
    <2>5. nodes[u].parent \in Z(k) /\ u \in All /\ u \notin Z(k) /\ nodes[u].op # NoOp
      BY <1>2, <2>3, <2>4
    <2>6. u \in Z(k + 1)
      BY <1>5, <2>5
    <2>7. Z(k) \cup {u} \subseteq Z(k + 1) /\ Cardinality(Z(k) \cup {u}) = Cardinality(Z(k)) + 1
      BY <1>3, <2>1, <2>5, <2>6, FS_AddElement
    <2>8. Cardinality(Z(k) \cup {u}) <= Cardinality(Z(k + 1))
      BY <1>3, <2>7, FS_Subset
    <2> QED BY <1>3, <2>2, <2>7, <2>8
  <1> HIDE DEF P
  <1>13. N \in P
    BY <1>1, <1>11, <1>12, Induction
  <1>14. All \subseteq Z(N)
    BY <1>1, <1>3, <1>13 DEF P
  <1> QED BY <1>14 DEF Z

\* What trace_path returns for a node with a way is a way: it leads to the
\* node, has no more steps than there are states and, with normal costs,
\* costs no more than the node's g.
LEMMA TraceLeads ==
    ASSUME NEW ct \in CostType, NEW nodes, Sound(ct, nodes), Forest(nodes),
           NEW t \in State, HasWay(ct, nodes[t])
    PROVE  /\ Leads(trace_path(nodes, t), t) /\ Len(trace_path(nodes, t)) <= N
           /\ ct = "normal" => PlanCost(trace_path(nodes, t)) <= nodes[t].g
  <1>1. t \in Traced(ct, nodes, N) /\ N \in 0..N
    BY AllTraced, NFacts
  <1> QED BY <1>1, TracedLeads, BackFacts

-----------------------------------------------------------------------------
(* What the engines return.                                                *)

\* A plan without cycles that leads to a goal.
GoodPlan(p) == Len(p) <= N /\ \E s \in Goal : Leads(p, s)

\* An engine that has a plan is done, and its plan is one.
Solved ==
    solution_found => status \notin {"initialize", "in_progress"} /\ GoodPlan(plan)

\* Such a plan is a plan of the task, and costs at least HStar.
LEMMA GoodPlanFacts ==
    ASSUME NEW p, GoodPlan(p)
    PROVE  p \in Seq(Op) /\ IsPlan(p) /\ PlanCost(p) \in Nat /\ HStar[initial] <= PlanCost(p)
  <1>1. PICK s \in Goal : Leads(p, s)
    BY DEF GoodPlan
  <1>2. p \in Seq(Op) /\ At(p)[Len(p)] \in Goal
    BY <1>1 DEF Leads
  <1> QED BY <1>1, <1>2, AtFacts, CostsAreNat, PlansCostEnough DEF GoodPlan

\* The goal check of an engine, with the nodes it traces back.
LEMMA GoalCheckSolves ==
    ASSUME NEW ct \in CostType, NEW nodes, Sound(ct, nodes), Forest(nodes),
           NEW s \in State, HasWay(ct, nodes[s]), check_goal_and_set_plan(s, nodes),
           ~solution_found, solution_found' => status' \notin {"initialize", "in_progress"}
    PROVE  Solved'
  <1>1. CASE IsGoal(s)
    <2>1. plan' = trace_path(nodes, s) /\ solution_found' = TRUE
      BY <1>1 DEF check_goal_and_set_plan
    <2>2. GoodPlan(plan')
      BY <1>1, <2>1, TraceLeads DEF GoodPlan, IsGoal
    <2> QED BY <2>1, <2>2 DEF Solved, GoodPlan
  <1>2. CASE ~IsGoal(s)
    BY <1>2 DEF check_goal_and_set_plan, Solved
  <1> QED BY <1>1, <1>2

\* Every step of an engine has it in progress.
LEMMA EnginesRun ==
    ASSUME Search
    PROVE  /\ status \in {"initialize", "in_progress"}
           /\ \/ UNCHANGED <<plan, solution_found>>
              \/ EagerPop \/ LazyExpand \/ HillStep
  <1>1. CASE EagerNext
    BY <1>1 DEF EagerNext, EagerInitialize, EagerExhausted, EagerPop, Popping, Generate
  <1>2. CASE LazyNext
    BY <1>2 DEF LazyNext, LazyInitialize, LazyKnown, LazyDeadEnd, LazyExpand,
       LazyGenerate, LazyFetch, LazyExhausted, Stepping
  <1>3. CASE HillNext
    BY <1>3 DEF HillNext, HillInitialize, HillStep, HillInsert, HillTake,
       HillImprove, HillFails, Climbing
  <1> QED BY <1>1, <1>2, <1>3 DEF Search

\* The state that eager search pops for expansion is open, and has a way.
LEMMA PoppedIsOpen ==
    ASSUME EngineInv, cfg.kind = "eager", NEW pos \in MinPositions(cfg.lists, open),
           ~Stale(EntryAt(open, pos))
    PROVE  /\ EntryAt(open, pos) \in State
           /\ node[EntryAt(open, pos)].status = "open" /\ Known(EntryAt(open, pos))
  <1>1. EntryAt(open, pos) \in OpenStates
    BY RemoveHolds DEF EngineInv, Frontier
  <1>2. EntryAt(open, pos) \in State /\ node[EntryAt(open, pos)].status = "open"
    BY <1>1 DEF OpenStates, Stale
  <1> QED BY <1>2, OpenIsKnown DEF EngineInv

\* Eager search returns a plan.
LEMMA EagerSolves ==
    ASSUME EngineInv, Solved, EagerPop
    PROVE  Solved'
  <1>1. cfg.kind = "eager" /\ status = "in_progress" /\ ~solution_found
    BY DEF EagerPop, Popping, Solved
  <1>2. PICK pos \in MinPositions(cfg.lists, open) :
           PopStale(pos) \/ PopReevaluated(pos) \/ PopExpand(pos)
    BY DEF EagerPop
  <1>3. CASE PopStale(pos) \/ PopReevaluated(pos)
    BY <1>1, <1>3 DEF PopStale, PopReevaluated, Solved
  <1>4. CASE PopExpand(pos)
    <2>1. PICK s : s = EntryAt(open, pos)
      OBVIOUS
    <2>2. /\ ~Stale(s) /\ check_goal_and_set_plan(s, node)
          /\ IsGoal(s) => StepReturns("solved")
      BY <1>4, <2>1 DEF PopExpand
    <2>3. solution_found' => status' \notin {"initialize", "in_progress"}
      BY <1>1, <2>2 DEF check_goal_and_set_plan, StepReturns
    <2>4. s \in State /\ Known(s)
      BY <1>1, <2>1, <2>2, PoppedIsOpen
    <2> QED BY <1>1, <2>2, <2>3, <2>4, GoalCheckSolves DEF EngineInv, SpaceOK, Known
  <1> QED BY <1>2, <1>3, <1>4

\* So does enforced hill-climbing.
LEMMA HillSolves ==
    ASSUME EngineInv, Solved, HillStep
    PROVE  Solved'
  <1>1. /\ status = "in_progress" /\ ~solution_found /\ cur \in State
        /\ node[cur].status = "open" /\ check_goal_and_set_plan(cur, node)
        /\ IsGoal(cur) => StepReturns("solved")
    BY DEF HillStep, Climbing, Solved, EngineInv, Expanding
  <1>2. solution_found' => status' \notin {"initialize", "in_progress"}
    BY <1>1 DEF check_goal_and_set_plan, StepReturns
  <1>3. HasWay(cfg.cost_type, node[cur])
    BY <1>1, OpenHasWay DEF EngineInv, SpaceOK
  <1> QED BY <1>1, <1>2, <1>3, GoalCheckSolves DEF EngineInv, SpaceOK

\* So does lazy search.
LEMMA LazySolves ==
    ASSUME EngineInv, Solved, LazyExpand
    PROVE  Solved'
  <1>1. /\ cfg.kind = "lazy" /\ status = "in_progress" /\ ~solution_found /\ edge # <<>>
        /\ cur \in State
        /\ node[cur].status = "new" \/ Reopens
    BY DEF LazyExpand, Stepping, Solved, EngineInv, Expanding
  <1>2. PICK opened : /\ opened = IF edge[1] = NoState THEN open_initial(node)
                                  ELSE OpenNode(cur, edge[1], edge[2])
                      /\ check_goal_and_set_plan(cur, opened)
    BY DEF LazyExpand
  <1>3. solution_found' => status' \notin {"initialize", "in_progress"}
    BY <1>1, <1>2 DEF check_goal_and_set_plan, StepReturns, LazyExpand
  <1>4. /\ Sound(cfg.cost_type, opened) /\ Forest(opened)
        /\ HasWay(cfg.cost_type, opened[cur])
    <2>1. CASE edge = <<NoState, NoOp>> /\ cur = initial
      <3>1. opened = open_initial(node)
        BY <1>2, <2>1
      <3> QED BY <2>1, <3>1, InitialOK, OpenHasWay, TaskAssumption DEF EngineInv, SpaceOK
    <2>2. CASE edge \in OpenEdges /\ cur = Successor(edge[1], edge[2])
      <3>1. /\ edge[1] \in State /\ Known(edge[1]) /\ edge[2] \in Applicable(edge[1])
            /\ edge[1] # NoState
        BY <2>2, TaskAssumption DEF OpenEdges
      <3>2. \/ node[cur].status = "new"
            \/ /\ node[cur].status \in {"open", "closed"}
               /\ node[cur].g > node[edge[1]].g + adj(edge[2])
        <4>1. CASE Reopens
          <5>1. node[cur].status \in {"open", "closed"} /\ current_g < node[cur].g
            BY <4>1 DEF Reopens
          <5>2. Known(cur)
            BY <1>1, <5>1, OpenIsKnown DEF EngineInv
          <5>3. node[cur].g \in Nat /\ node[edge[1]].g \in Nat /\ adj(edge[2]) \in Nat
            BY <3>1, <5>2, SuccessorFacts, AdjustedFacts
               DEF HasWay, Known, adj, EngineInv, SpaceOK
          <5> QED BY <3>1, <5>1, <5>3 DEF current_g
        <4> QED BY <1>1, <4>1
      <3>3. Finds(cfg.cost_type, node, opened, edge[1], edge[2], cur)
        <4>1. opened = OpenNode(cur, edge[1], edge[2])
          BY <1>2, <3>1
        <4> QED BY <2>2, <3>1, <3>2, <4>1, EngineFinds DEF EngineInv
      <3>4. Found(cfg.cost_type, node, opened, edge[1], edge[2], cur)
        BY <3>3, FindsFacts DEF EngineInv, SpaceOK
      <3> QED BY <3>3, <3>4, FindsSound, FindsForest DEF EngineInv, SpaceOK, Found
    <2> QED BY <1>1, <2>1, <2>2 DEF EngineInv, Expanding
  <1>5. cfg.cost_type \in CostType
    BY DEF EngineInv, SpaceOK
  <1> QED BY <1>1, <1>2, <1>3, <1>4, <1>5, GoalCheckSolves

\* Every step keeps the plan that was found.
LEMMA SolvedStep == IInv /\ Solved /\ [Next]_vars => Solved'
  <1> SUFFICES ASSUME IInv, Solved, [Next]_vars PROVE Solved'
    OBVIOUS
  <1>1. CASE Search
    <2>1. ~solution_found /\ EngineInv
      BY <1>1, EnginesRun DEF Solved, IInv
    <2>2. CASE UNCHANGED solution_found
      BY <2>1, <2>2 DEF Solved
    <2> QED BY <1>1, <2>1, <2>2, EnginesRun, EagerSolves, LazySolves, HillSolves
  <1>2. CASE StartPhase
    BY <1>2 DEF StartPhase, EngineStarts, Solved
  <1>3. CASE UNCHANGED engineVars
    BY <1>3 DEF engineVars, Solved, GoodPlan
  <1> QED BY <1>1, <1>2, <1>3 DEF Next, Steps, vars, engineVars, NoPhaseLeft, Exit,
             PhaseEnds, SavePlan, StepReturned, Kill

\* What has been found is a plan.
LEMMA PlansInvariant == Spec => [](IInv /\ Solved)
  <1>1. Init => Solved
    BY DEF Init, Solved
  <1> QED BY <1>1, InitIInv, IInvStep, SolvedStep, PTL DEF Spec

-----------------------------------------------------------------------------
(* The plan files.                                                         *)

\* A plan file that is whole.
PlanFile == {<<p>> : p \in Seq(Op)}

\* The list that files with the plans w show.
Shown(w) == [i \in DOMAIN w |-> w[i][1]]

\* A file that has been cut short does not count.
LEMMA WholeFacts ==
    ASSUME NEW w \in Seq(PlanFile)
    PROVE  whole(w) = w /\ whole(Append(w, <<>>)) = w
  <1>1. \A f \in PlanFile : f # <<>>
    <2> SUFFICES ASSUME NEW p \in Seq(Op) PROVE <<p>> # <<>>
      BY DEF PlanFile
    <2>1. Len(<<p>>) = 1 /\ Len(<<>>) = 0
      OBVIOUS
    <2> QED BY <2>1
  <1>2. whole(w) = w
    <2>1. CASE w = <<>>
      BY <2>1 DEF whole
    <2>2. CASE w # <<>>
      <3>1. Last(w) \in PlanFile
        BY <2>2 DEF Last
      <3> QED BY <1>1, <3>1 DEF whole
    <2> QED BY <2>1, <2>2
  <1>3. whole(Append(w, <<>>)) = w
    <2> DEFINE a == Append(w, <<>>)
    <2>1. /\ a \in Seq(PlanFile \cup {<<>>}) /\ Len(a) = Len(w) + 1 /\ Len(w) \in Nat
          /\ a[Len(w) + 1] = <<>> /\ \A i \in 1..Len(w) : a[i] = w[i]
      BY <1>1
    <2> HIDE DEF a
    <2>2. a # <<>> /\ Last(a) = <<>>
      BY <2>1 DEF Last
    <2>3. Front(a) = SubSeq(a, 1, Len(w))
      BY <2>1 DEF Front
    <2>4. SubSeq(a, 1, Len(w)) = w
      BY <2>1
    <2> QED BY <2>2, <2>3, <2>4 DEF whole, a
  <1> QED BY <1>2, <1>3

\* Publishing one more plan.
LEMMA ShownFacts ==
    ASSUME NEW w \in Seq(PlanFile), NEW p \in Seq(Op)
    PROVE  LET q == Shown(Append(w, <<p>>))
           IN /\ Append(w, <<p>>) \in Seq(PlanFile)
              /\ Len(q) = Len(Shown(w)) + 1
              /\ Shown(w) = Front(q) /\ Last(q) = p
              /\ Len(Shown(w)) = Len(w) /\ (Shown(w) = <<>> <=> w = <<>>)
              /\ w # <<>> => Last(Shown(w)) = w[Len(w)][1]
  <1> DEFINE a == Append(w, <<p>>)
             q == Shown(a)
  <1>1. <<p>> \in PlanFile /\ \A f \in PlanFile : f[1] \in Seq(Op)
    BY DEF PlanFile
  <1>2. /\ a \in Seq(PlanFile) /\ Len(a) = Len(w) + 1 /\ Len(w) \in Nat
        /\ a[Len(w) + 1] = <<p>> /\ \A i \in 1..Len(w) : a[i] = w[i]
    BY <1>1
  <1> HIDE DEF a
  <1>3. ASSUME NEW v \in Seq(PlanFile)
        PROVE  /\ Shown(v) \in Seq(Seq(Op)) /\ Len(Shown(v)) = Len(v)
               /\ \A i \in 1..Len(v) : Shown(v)[i] = v[i][1]
    <2>1. DOMAIN v = 1..Len(v) /\ Len(v) \in Nat /\ \A i \in 1..Len(v) : v[i][1] \in Seq(Op)
      BY <1>1
    <2>2. Shown(v) \in [1..Len(v) -> Seq(Op)]
      BY <2>1 DEF Shown
    <2>3. Shown(v) \in Seq(Seq(Op))
      BY <2>1, <2>2
    <2>4. \A i \in 1..Len(v) : Shown(v)[i] = v[i][1]
      BY <2>1 DEF Shown
    <2> QED BY <2>1, <2>2, <2>3, <2>4
  <1>4. /\ Len(q) = Len(Shown(w)) + 1 /\ Len(Shown(w)) = Len(w)
        /\ q[Len(w) + 1] = p /\ \A i \in 1..Len(w) : q[i] = Shown(w)[i]
        /\ q \in Seq(Seq(Op)) /\ Shown(w) \in Seq(Seq(Op))
    <2>1. /\ q \in Seq(Seq(Op)) /\ Len(q) = Len(a)
          /\ \A i \in 1..Len(a) : q[i] = a[i][1]
      BY <1>2, <1>3
    <2>2. /\ Shown(w) \in Seq(Seq(Op)) /\ Len(Shown(w)) = Len(w)
          /\ \A i \in 1..Len(w) : Shown(w)[i] = w[i][1]
      BY <1>3
    <2> HIDE DEF q
    <2>3. q[Len(w) + 1] = p
      <3>1. Len(w) + 1 \in 1..Len(a)
        BY <1>2
      <3>2. q[Len(w) + 1] = a[Len(w) + 1][1]
        BY <2>1, <3>1
      <3>3. <<p>>[1] = p
        OBVIOUS
      <3> QED BY <1>2, <3>2, <3>3
    <2>4. \A i \in 1..Len(w) : i \in 1..Len(a)
      BY <1>2
    <2> QED BY <1>2, <2>1, <2>2, <2>3, <2>4
  <1> HIDE DEF q
  <1>5. Last(q) = p
    BY <1>2, <1>4 DEF Last
  <1>6. Front(q) = Shown(w)
    <2>1. Front(q) = SubSeq(q, 1, Len(w))
      BY <1>2, <1>4 DEF Front
    <2> QED BY <1>2, <1>4, <2>1
  <1>7. Shown(w) = <<>> <=> w = <<>>
    BY <1>4
  <1>8. w # <<>> => Last(Shown(w)) = w[Len(w)][1]
    BY <1>2, <1>3, <1>4 DEF Last
  <1> QED BY <1>2, <1>4, <1>5, <1>6, <1>7, <1>8 DEF q, a

\* The files before the one that is being written are whole; the last plan
\* is the one the next has to beat, and it is remembered.
FilesOK ==
    /\ Whole \in Seq(PlanFile)
    /\ files = IF stage = "saving" THEN Append(Whole, <<>>) ELSE Whole
    /\ stage = "saving" => solution_found /\ Improves
    /\ it_plan = <<>> <=> Whole = <<>>
    /\ Whole # <<>> => PlanCost(Last(Shown(Whole))) = best_bound

\* The step that publishes.
LEMMA SavePublishes ==
    ASSUME IInv, Solved, FilesOK, SavePlan
    PROVE  /\ FilesOK'
           /\ GoodPlan(plan) /\ Whole' = Append(Whole, <<plan>>)
           /\ Whole # <<>> => PlanCost(plan) < PlanCost(Last(Shown(Whole)))
  <1>1. /\ stage = "saving" /\ files' = [files EXCEPT ![Len(files)] = <<plan>>]
        /\ best_bound' = PlanCost(plan) /\ it_plan' = <<plan>> /\ stage' = "step_returns"
    BY DEF SavePlan
  <1>2. /\ Whole \in Seq(PlanFile) /\ files = Append(Whole, <<>>)
        /\ GoodPlan(plan) /\ PlanCost(plan) < best_bound
    BY <1>1 DEF FilesOK, Improves, Solved
  <1>3. plan \in Seq(Op)
    BY <1>2, GoodPlanFacts
  <1>4. files' = Append(Whole, <<plan>>)
    <2> DEFINE n == Len(Whole) + 1
           F == PlanFile \cup {<<>>}
    <2>1. <<plan>> \in PlanFile
      BY <1>3 DEF PlanFile
    <2> HIDE DEF F
    <2>2. PlanFile \subseteq F /\ <<>> \in F /\ <<plan>> \in F /\ Whole \in Seq(F)
      BY <1>2, <2>1 DEF F
    <2>3. /\ files \in Seq(F) /\ Len(files) = n /\ Len(Whole) \in Nat
          /\ \A i \in 1..Len(Whole) : files[i] = Whole[i]
      BY <1>2, <2>2
    <2>4. /\ files' \in Seq(F) /\ Len(files') = n /\ files'[n] = <<plan>>
          /\ \A i \in 1..Len(Whole) : files'[i] = Whole[i]
      BY <1>1, <2>2, <2>3
    <2>5. /\ Append(Whole, <<plan>>) \in Seq(F) /\ Len(Append(Whole, <<plan>>)) = n
          /\ Append(Whole, <<plan>>)[n] = <<plan>>
          /\ \A i \in 1..Len(Whole) : Append(Whole, <<plan>>)[i] = Whole[i]
      BY <2>2, <2>3
    <2>6. \A i \in 1..n : i = n \/ i \in 1..Len(Whole)
      BY <2>3
    <2> QED BY <2>3, <2>4, <2>5, <2>6
  <1>5. Append(Whole, <<plan>>) \in Seq(PlanFile)
    BY <1>2, <1>3, ShownFacts
  <1>6. Whole' = Append(Whole, <<plan>>)
    BY <1>4, <1>5, WholeFacts DEF Whole
  <1>7. Last(Shown(Whole')) = plan /\ Whole' # <<>>
    BY <1>2, <1>3, <1>6, ShownFacts
  <1>8. FilesOK'
    BY <1>1, <1>4, <1>5, <1>6, <1>7 DEF FilesOK
  <1> QED BY <1>1, <1>2, <1>6, <1>8 DEF FilesOK

\* The other steps publish nothing.
LEMMA FilesStep ==
    ASSUME FilesOK, [Next]_vars, ~SavePlan
    PROVE  FilesOK' /\ Whole' = Whole
  <1>1. CASE PhaseEnds
    <2>1. /\ stage # "saving" /\ UNCHANGED <<plan, solution_found, best_bound, it_plan>>
          /\ \/ stage' = "saving" /\ files' = Append(files, <<>>) /\ solution_found /\ Improves
             \/ stage' = "step_returns" /\ files' = files
      BY <1>1 DEF PhaseEnds, engineVars
    <2>2. Whole \in Seq(PlanFile) /\ files = Whole
      BY <2>1 DEF FilesOK
    <2>3. Whole' = Whole
      BY <2>1, <2>2, WholeFacts DEF Whole
    <2> QED BY <2>1, <2>2, <2>3 DEF FilesOK, Improves
  <1>2. CASE StartPhase \/ Search
    <2>1. /\ stage # "saving" /\ stage' # "saving"
          /\ UNCHANGED <<files, best_bound, it_plan>>
      BY <1>2 DEF StartPhase, Search, itVars
    <2> QED BY <2>1 DEF FilesOK, Whole
  <1>3. CASE NoPhaseLeft \/ Exit \/ StepReturned \/ Kill \/ UNCHANGED vars
    <2>1. /\ UNCHANGED <<files, best_bound, it_plan, plan, solution_found>>
          /\ stage' = stage \/ (stage # "saving" /\ stage' # "saving")
      BY <1>3 DEF NoPhaseLeft, Exit, StepReturned, Kill, vars, engineVars
    <2> QED BY <2>1 DEF FilesOK, Whole, Improves
  <1> QED BY <1>1, <1>2, <1>3 DEF Next, Steps

\* The plan files are plans, each cheaper than the one before.
LEMMA FilesInvariant == Spec => [](IInv /\ Solved /\ FilesOK)
  <1>1. Init => FilesOK
    <2> SUFFICES ASSUME Init PROVE FilesOK
      OBVIOUS
    <2>1. files = <<>> /\ stage = "step" /\ it_plan = <<>>
      BY DEF Init
    <2>2. Whole = <<>>
      BY <2>1 DEF Whole, whole
    <2> QED BY <2>1, <2>2 DEF FilesOK
  <1>2. IInv /\ Solved /\ FilesOK /\ [Next]_vars => FilesOK'
    BY SavePublishes, FilesStep
  <1> QED BY <1>1, <1>2, PlansInvariant, PTL DEF Spec

\* The answer changes once, from none, and no plan is published then.
LEMMA AnswerStep ==
    ASSUME FilesOK, [Next]_vars, Whole' = Whole
    PROVE  \/ ExitCode' = ExitCode
           \/ /\ ExitCode = "none"
              /\ \/ ExitCode' = "solved" /\ Whole # <<>>
                 \/ ExitCode' = "failed" /\ Whole = <<>>
                 \/ ExitCode' \in {"exit", "killed"}
  <1>1. \/ UNCHANGED <<it_status, it_plan>>
        \/ /\ it_status = "in_progress"
           /\ it_status' \in {"in_progress", "solved", "failed", "timeout", "exit", "killed"}
           /\ UNCHANGED it_plan
        \/ SavePlan
    BY DEF Next, Steps, vars, StartPhase, NoPhaseLeft, Search, itVars, Exit, PhaseEnds,
       StepReturned, step_return_value, Kill
  <1>2. CASE UNCHANGED <<it_status, it_plan>>
    BY <1>2 DEF ExitCode
  <1>3. CASE SavePlan
    BY <1>3 DEF SavePlan, ExitCode
  <1>4. CASE /\ it_status = "in_progress"
             /\ it_status' \in {"in_progress", "solved", "failed", "timeout", "exit", "killed"}
             /\ UNCHANGED it_plan
    BY <1>4 DEF ExitCode, FilesOK
  <1> QED BY <1>1, <1>2, <1>3, <1>4

\* The abstract planner is about the same task.
LEMMA SameTask ==
    /\ \A p : Anytime!IsPlan(p) = IsPlan(p) /\ Anytime!PlanCost(p) = PlanCost(p)
    /\ \A s : Anytime!Last(s) = Last(s) /\ Anytime!Front(s) = Front(s)
  BY DEF Anytime!IsPlan, IsPlan, Anytime!PlanCost, PlanCost, Anytime!After, After,
     Anytime!Applicable, Applicable, Anytime!Successor, Successor, Anytime!Last, Last,
     Anytime!Front, Front

\* Whatever the portfolio, the list of plans the caller finds in the files
\* only grows, by a plan that is valid and cheaper than the last, and the
\* planner's answer agrees with it.
THEOREM ImplementsAnytimeThm == Spec => ImplementsAnytime
  <1> DEFINE published == [i \in DOMAIN Whole |-> Whole[i][1]]
  <1>1. Init => Anytime!Init
    BY DEF Init, Anytime!Init, Whole, whole, ExitCode
  <1>2. ASSUME IInv, Solved, FilesOK, [Next]_vars
        PROVE  [Anytime!Next]_<<published, ExitCode>>
    <2>1. published = Shown(Whole) /\ published' = Shown(Whole')
      BY DEF Shown
    <2> HIDE DEF published
    <2>2. CASE SavePlan
      <3>1. /\ GoodPlan(plan) /\ Whole' = Append(Whole, <<plan>>)
            /\ Whole # <<>> => PlanCost(plan) < PlanCost(Last(Shown(Whole)))
        BY <1>2, <2>2, SavePublishes
      <3>2. plan \in Seq(Op) /\ IsPlan(plan)
        BY <3>1, GoodPlanFacts
      <3>3. /\ Len(published') = Len(published) + 1 /\ published = Front(published')
            /\ Last(published') = plan /\ (published = <<>> <=> Whole = <<>>)
        BY <1>2, <2>1, <3>1, <3>2, ShownFacts DEF FilesOK
      <3>4. ExitCode = "none" /\ ExitCode' = "none"
        BY <2>2 DEF SavePlan, ExitCode
      <3>5. Anytime!Publish
        <4>1. /\ Anytime!IsPlan(plan)
              /\ Anytime!PlanCost(plan) = PlanCost(plan)
              /\ Anytime!PlanCost(Last(published)) = PlanCost(Last(published))
              /\ Anytime!Last(published') = Last(published')
              /\ Anytime!Last(published) = Last(published)
              /\ Anytime!Front(published') = Front(published')
          BY <3>2, SameTask
        <4>2. published # <<>> => Last(published) = Last(Shown(Whole))
          BY <2>1
        <4> QED BY <2>1, <3>1, <3>2, <3>3, <3>4, <4>1, <4>2 DEF Anytime!Publish, published
      <3> QED BY <3>5 DEF Anytime!Next
    <2>3. CASE ~SavePlan
      <3>1. Whole' = Whole
        BY <1>2, <2>3, FilesStep
      <3>2. published' = published /\ (published = <<>> <=> Whole = <<>>)
        <4>1. <<>> \in Seq(Op) /\ Whole \in Seq(PlanFile)
          BY <1>2 DEF FilesOK
        <4>2. Shown(Whole) = <<>> <=> Whole = <<>>
          BY <4>1, ShownFacts
        <4>3. published' = published
          BY <2>1, <3>1
        <4> QED BY <2>1, <4>2, <4>3
      <3>3. \/ ExitCode' = ExitCode
            \/ /\ ExitCode = "none"
               /\ \/ ExitCode' = "solved" /\ Whole # <<>>
                  \/ ExitCode' = "failed" /\ Whole = <<>>
                  \/ ExitCode' \in {"exit", "killed"}
        BY <1>2, <3>1, AnswerStep
      <3> QED BY <3>2, <3>3 DEF Anytime!Next, Anytime!Answer, published
    <2> QED BY <2>2, <2>3
  <1> QED BY <1>1, <1>2, FilesInvariant, PTL DEF Spec, ImplementsAnytime, Anytime!Spec
=============================================================================
