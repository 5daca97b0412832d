--------------------------- MODULE ExplorationProofs ---------------------------
(***************************************************************************)
(* What a best-first search misses, for every task, every portfolio and    *)
(* whatever the heuristics say: nothing, when it fails, and nothing that   *)
(* is cheaper, when it is A*.                                              *)
(*                                                                         *)
(* The invariant (Exploration) says of every operator of a closed node     *)
(* that it is settled, so that another operator would have to be the       *)
(* better way, or that it still waits: for this expansion, or in the open  *)
(* list.  Along a cheapest plan there is then a node that is open or waits *)
(* (WayOut); a search with an empty open list has none, and the entry that *)
(* A* takes has an f of at most that node's.                               *)
(***************************************************************************)
EXTENDS SearchProofs

-----------------------------------------------------------------------------
(* What waits in the open list.                                            *)

\* r is an entry of one of the lists.
In(lists, lst, r) ==
    \E i \in DOMAIN lists : \E k \in DOMAIN lst.q[i] : r = lst.q[i][k]

\* Nothing is in empty lists.
LEMMA EmptyIn ==
    ASSUME NEW lists, NEW lst, lst.q = [i \in DOMAIN lists |-> lst.q[i]]
    PROVE  /\ \A r : ~In(lists, EmptyLists(lists), r)
           /\ IsEmpty(lst) => \A r : ~In(lists, lst, r)
  BY DEF In, EmptyLists, IsEmpty

\* A boost takes nothing out and puts nothing in.
LEMMA BoostIn ==
    ASSUME NEW lists, NEW lst, NEW E, NEW boost, Holds(lists, lst, E)
    PROVE  \A r : In(lists, boost_preferred(lists, lst, boost), r) <=> In(lists, lst, r)
  <1>1. boost_preferred(lists, lst, boost).q = lst.q
    BY DEF Holds, boost_preferred
  <1> QED BY <1>1 DEF In

\* What is in the lists after an insertion.
LEMMA InsertIn ==
    ASSUME NEW lists, NEW lst, NEW E, NEW ctx, NEW e, Holds(lists, lst, E)
    PROVE  \A r : In(lists, Insert(lists, lst, ctx, e), r) <=>
                     \/ In(lists, lst, r)
                     \/ /\ ~IsDeadEnd(lists, ctx)
                        /\ \E i \in DOMAIN lists :
                              /\ Accepts(lists[i], ctx)
                              /\ r = [entry |-> e, key |-> Key(lists[i], ctx)]
  <1> DEFINE R == Insert(lists, lst, ctx, e)
             new(i) == [entry |-> e, key |-> Key(lists[i], ctx)]
             taken(i) == ~IsDeadEnd(lists, ctx) /\ Accepts(lists[i], ctx)
  <1>1. \A i \in DOMAIN lists : R.q[i] = IF taken(i) THEN Append(lst.q[i], new(i)) ELSE lst.q[i]
    <2>1. \A X : [lst EXCEPT !.q = X].q = X
      BY DEF Holds
    <2> QED BY <2>1 DEF Insert
  <1> HIDE DEF R, new, taken
  <1>2. ASSUME NEW i \in DOMAIN lists
        PROVE  \A r : (\E k \in DOMAIN R.q[i] : r = R.q[i][k]) <=>
                         \/ \E k \in DOMAIN lst.q[i] : r = lst.q[i][k]
                         \/ taken(i) /\ r = new(i)
    <2>1. PICK S : lst.q[i] \in Seq(S)
      BY DEF Holds
    <2>2. CASE ~taken(i)
      BY <1>1, <2>2
    <2>3. CASE taken(i)
      <3> DEFINE q == lst.q[i]
                 n == new(i)
      <3>1. R.q[i] = Append(q, n)
        BY <1>1, <2>3
      <3> HIDE DEF q, n
      <3>2. q \in Seq(S \cup {n}) /\ n \in S \cup {n}
        BY <2>1 DEF q
      <3>3. /\ DOMAIN Append(q, n) = 1..(Len(q) + 1) /\ DOMAIN q = 1..Len(q) /\ Len(q) \in Nat
            /\ Append(q, n)[Len(q) + 1] = n
            /\ \A k \in 1..Len(q) : Append(q, n)[k] = q[k]
        BY <3>2
      <3>4. \A k : k \in 1..(Len(q) + 1) <=> k \in 1..Len(q) \/ k = Len(q) + 1
        BY <3>3
      <3>5. \A r : (\E k \in DOMAIN Append(q, n) : r = Append(q, n)[k]) <=>
                      (\E k \in DOMAIN q : r = q[k]) \/ r = n
        BY <3>3, <3>4
      <3> QED BY <2>3, <3>1, <3>5 DEF q, n
    <2> QED BY <2>2, <2>3
  <1>3. \A r : In(lists, R, r) <=>
                  In(lists, lst, r) \/ \E i \in DOMAIN lists : taken(i) /\ r = new(i)
    <2> SUFFICES ASSUME NEW r
                 PROVE  In(lists, R, r) <=>
                           \/ In(lists, lst, r)
                           \/ \E i \in DOMAIN lists : taken(i) /\ r = new(i)
      OBVIOUS
    <2>1. \A i \in DOMAIN lists :
             (\E k \in DOMAIN R.q[i] : r = R.q[i][k]) <=>
                \/ \E k \in DOMAIN lst.q[i] : r = lst.q[i][k]
                \/ taken(i) /\ r = new(i)
      BY <1>2
    <2> QED BY <2>1, Zenon DEF In
  <1> QED BY <1>3 DEF R, new, taken

\* A concatenation.
LEMMA Concatenation ==
    ASSUME NEW S, NEW a \in Seq(S), NEW b \in Seq(S)
    PROVE  /\ a \o b \in Seq(S) /\ Len(a \o b) = Len(a) + Len(b)
           /\ \A k \in 1..(Len(a) + Len(b)) :
                 (a \o b)[k] = IF k <= Len(a) THEN a[k] ELSE b[k - Len(a)]
  <1>1. a \o b \in Seq(S)
    OBVIOUS
  <1>2. Len(a \o b) = Len(a) + Len(b)
    OBVIOUS
  <1>3. \A k \in 1..(Len(a) + Len(b)) :
           (a \o b)[k] = IF k <= Len(a) THEN a[k] ELSE b[k - Len(a)]
    OBVIOUS
  <1> QED BY <1>1, <1>2, <1>3

\* remove_min takes out an entry of its own state or edge only.
LEMMA RemoveIn ==
    ASSUME NEW lists, NEW lst, NEW E, Holds(lists, lst, E),
           NEW pos \in MinPositions(lists, lst)
    PROVE  /\ \A r : In(lists, RemoveMin(lst, pos), r) => In(lists, lst, r)
           /\ \A r : In(lists, lst, r) /\ r.entry # EntryAt(lst, pos) =>
                        In(lists, RemoveMin(lst, pos), r)
  <1>1. PICK i \in Turns(lst) :
                 \E k \in Removable(lists[i], lst.q[i]) : pos = <<i, k>>
    BY DEF MinPositions
  <1>2. PICK p \in Removable(lists[i], lst.q[i]) : pos = <<i, p>>
    BY <1>1
  <1>3. i \in DOMAIN lists /\ p \in DOMAIN lst.q[i]
    BY <1>1, <1>2 DEF Turns, Removable, Holds
  <1>4. PICK S : lst.q[i] \in Seq(S)
    BY <1>3 DEF Holds
  <1> DEFINE q == lst.q[i]
             R == RemoveMin(lst, pos)
  <1>5. EntryAt(lst, pos) = q[p].entry
    BY <1>2 DEF EntryAt
  <1>6. lst.q = [j \in DOMAIN lists |-> lst.q[j]]
    BY DEF Holds
  <1>7. /\ \A j \in DOMAIN lists : j # i => R.q[j] = lst.q[j]
        /\ R.q[i] = RemoveAt(q, p)
    BY <1>2, <1>3, <1>6 DEF RemoveMin
  <1> HIDE DEF R, q
  <1>8. /\ \A k \in DOMAIN RemoveAt(q, p) : \E l \in DOMAIN q : RemoveAt(q, p)[k] = q[l]
        /\ \A l \in DOMAIN q \ {p} : \E k \in DOMAIN RemoveAt(q, p) : RemoveAt(q, p)[k] = q[l]
    <2> DEFINE a == SubSeq(q, 1, p - 1)
               b == SubSeq(q, p + 1, Len(q))
    <2>1. q \in Seq(S) /\ Len(q) \in Nat /\ p \in 1..Len(q) /\ DOMAIN q = 1..Len(q)
      BY <1>3, <1>4 DEF q
    <2>2. /\ a \in Seq(S) /\ Len(a) = p - 1 /\ \A k \in 1..(p - 1) : a[k] = q[k]
          /\ b \in Seq(S) /\ Len(b) = Len(q) - p /\ \A k \in 1..(Len(q) - p) : b[k] = q[p + k]
      <3>1. p - 1 \in Int /\ p + 1 \in Int /\ 1..(p - 1) \subseteq 1..Len(q)
            /\ \A k \in 1..(Len(q) - p) : p + k \in 1..Len(q) /\ (p + 1) + k - 1 = p + k
        BY <2>1
      <3>2. a \in Seq(S) /\ Len(a) = p - 1
        BY <2>1
      <3>3. \A k \in 1..(p - 1) : a[k] = q[k]
        BY <2>1
      <3>4. b \in Seq(S) /\ Len(b) = Len(q) - p
        <4>1. CASE p = Len(q)
          <5>1. ~(p + 1 <= Len(q)) /\ p + 1 \in Int /\ Len(q) \in Int
            BY <2>1, <4>1
          <5>2. b = <<>>
            BY <5>1
          <5>3. Len(<<>>) = 0 /\ <<>> \in Seq(S) /\ Len(q) - p = 0
            BY <2>1, <4>1
          <5> HIDE DEF b
          <5> QED BY <5>2, <5>3
        <4>2. CASE p # Len(q)
          <5> DEFINE n == Len(q)
          <5>1. n \in Nat /\ p \in 1..n /\ p # n
            BY <2>1, <4>2
          <5> HIDE DEF n
          <5>2. /\ p + 1 \in 1..n /\ n \in 1..n /\ p + 1 <= n
                /\ n - (p + 1) + 1 = n - p
            BY <5>1
          <5> QED BY <2>1, <5>2 DEF n
        <4> QED BY <4>1, <4>2
      <3>5. \A k \in 1..(Len(q) - p) : b[k] = q[p + k]
        BY <2>1, <3>1
      <3> QED BY <3>2, <3>3, <3>4, <3>5
    <2> HIDE DEF a, b
    <2>3. /\ DOMAIN (a \o b) = 1..(Len(q) - 1)
          /\ \A k \in 1..(Len(q) - 1) : (a \o b)[k] = IF k < p THEN q[k] ELSE q[k + 1]
      <3>1. /\ a \o b \in Seq(S) /\ Len(a \o b) = Len(q) - 1
            /\ \A k \in 1..(Len(q) - 1) :
                  (a \o b)[k] = IF k <= p - 1 THEN a[k] ELSE b[k - (p - 1)]
        <4>0. a \in Seq(S) /\ b \in Seq(S)
          BY <2>2
        <4>1. a \o b \in Seq(S) /\ Len(a \o b) = Len(a) + Len(b)
          BY <4>0, Concatenation
        <4>2. \A k \in 1..(Len(a) + Len(b)) :
                 (a \o b)[k] = IF k <= Len(a) THEN a[k] ELSE b[k - Len(a)]
          BY <4>0, Concatenation, Zenon
        <4>3. Len(a) + Len(b) = Len(q) - 1
          BY <2>1, <2>2
        <4> QED BY <2>2, <4>1, <4>2, <4>3
      <3>2. ASSUME NEW k \in 1..(Len(q) - 1), k < p PROVE (a \o b)[k] = q[k]
        <4>1. k \in 1..(p - 1) /\ k <= p - 1
          BY <2>1, <3>2
        <4> QED BY <2>2, <3>1, <4>1
      <3>3. ASSUME NEW k \in 1..(Len(q) - 1), ~(k < p) PROVE (a \o b)[k] = q[k + 1]
        <4>1. k - (p - 1) \in 1..(Len(q) - p) /\ p + (k - (p - 1)) = k + 1 /\ ~(k <= p - 1)
          BY <2>1, <3>3
        <4>2. (a \o b)[k] = b[k - (p - 1)]
          BY <3>1, <4>1
        <4> QED BY <2>2, <4>1, <4>2
      <3>4. DOMAIN (a \o b) = 1..(Len(q) - 1)
        <4>1. DOMAIN (a \o b) = 1..Len(a \o b)
          BY <3>1
        <4> QED BY <3>1, <4>1
      <3> QED BY <3>2, <3>3, <3>4
    <2>4. RemoveAt(q, p) = a \o b
      BY DEF RemoveAt, a, b
    <2>5. \A k \in 1..(Len(q) - 1) : k \in 1..Len(q) /\ k + 1 \in 1..Len(q)
      BY <2>1
    <2>6. ASSUME NEW l \in DOMAIN q \ {p}
          PROVE  \E k \in 1..(Len(q) - 1) : (a \o b)[k] = q[l]
      <3>1. CASE l < p
        <4>1. l \in 1..(Len(q) - 1)
          BY <2>1, <3>1
        <4>2. (a \o b)[l] = q[l]
          BY <2>3, <3>1, <4>1
        <4> QED BY <4>1, <4>2
      <3>2. CASE l > p
        <4>1. l - 1 \in 1..(Len(q) - 1) /\ ~(l - 1 < p) /\ (l - 1) + 1 = l
          BY <2>1, <3>2
        <4>2. (a \o b)[l - 1] = q[l]
          BY <2>3, <4>1
        <4> QED BY <4>1, <4>2
      <3>3. l < p \/ l > p
        BY <2>1
      <3> QED BY <3>1, <3>2, <3>3
    <2> QED BY <2>1, <2>3, <2>4, <2>5, <2>6
  <1>9. ASSUME NEW r, In(lists, R, r) PROVE In(lists, lst, r)
    <2>1. PICK j \in DOMAIN lists : \E k \in DOMAIN R.q[j] : r = R.q[j][k]
      BY <1>9 DEF In
    <2>2. CASE j # i
      BY <1>7, <2>1, <2>2 DEF In
    <2>3. CASE j = i
      BY <1>3, <1>7, <1>8, <2>1, <2>3 DEF In, q
    <2> QED BY <2>2, <2>3
  <1>10. ASSUME NEW r, In(lists, lst, r), r.entry # EntryAt(lst, pos) PROVE In(lists, R, r)
    <2>1. PICK j \in DOMAIN lists : \E k \in DOMAIN lst.q[j] : r = lst.q[j][k]
      BY <1>10 DEF In
    <2>2. CASE j # i
      BY <1>7, <2>1, <2>2 DEF In
    <2>3. CASE j = i
      <3>1. PICK l \in DOMAIN q : r = q[l]
        BY <2>1, <2>3 DEF q
      <3>2. l # p
        BY <1>5, <1>10, <3>1
      <3> QED BY <1>3, <1>7, <1>8, <3>1, <3>2 DEF In
    <2> QED BY <2>2, <2>3
  <1> QED BY <1>9, <1>10 DEF R

\* A state that the lists take for a dead end has an infinite evaluator, and
\* otherwise one of them takes it.
LEMMA DeadEndFacts ==
    ASSUME NEW lists, ListsOK(lists), NEW ctx
    PROVE  /\ IsDeadEnd(lists, ctx) => \E e \in Evaluators(lists) : Value(e, ctx) = INF
           /\ ~IsDeadEnd(lists, ctx) => \E i \in DOMAIN lists : Accepts(lists[i], ctx)
  <1>1. 1 \in DOMAIN lists /\ \A i \in DOMAIN lists : 1 \in DOMAIN lists[i].evals
    BY DEF ListsOK
  <1>2. ASSUME NEW i \in DOMAIN lists, NEW k \in Infinite(lists[i], ctx)
        PROVE  \E e \in Evaluators(lists) : Value(e, ctx) = INF
    BY InfinityAssumption DEF Infinite, Evaluators
  <1>3. ASSUME IsDeadEnd(lists, ctx)
        PROVE  \E i \in DOMAIN lists : Infinite(lists[i], ctx) # {}
    BY <1>1, <1>3 DEF IsDeadEnd, is_dead_end, is_reliable_dead_end
  <1>4. ASSUME ~IsDeadEnd(lists, ctx) PROVE \E i \in DOMAIN lists : Accepts(lists[i], ctx)
    <2>1. PICK i \in DOMAIN lists : ~is_dead_end(lists[i], ctx)
      BY <1>4 DEF IsDeadEnd
    <2>2. PICK j \in DOMAIN lists :
             /\ ~lists[j].pref_only
             /\ lists[j].type = lists[i].type /\ lists[j].evals = lists[i].evals
             /\ lists[j].unsafe = lists[i].unsafe
      BY DEF ListsOK
    <2>4. ~is_dead_end(lists[j], ctx)
      BY <2>1, <2>2 DEF is_dead_end, is_reliable_dead_end, Infinite
    <2> QED BY <2>2, <2>4 DEF Accepts
  <1> QED BY <1>2, <1>3, <1>4

-----------------------------------------------------------------------------
(* The open list of A*.                                                    *)

\* The one list of A*: f = g + h first, h to break ties.
LEMMA AStarFacts ==
    ASSUME NEW ctx
    PROVE  /\ DOMAIN AStarLists = {1}
           /\ DOMAIN AStarLists[1].evals = 1..2
           /\ DOMAIN Key(AStarLists[1], ctx) = 1..2
           /\ AStarLists[1].type = "tiebreaking"
           /\ \A e \in Evaluators(AStarLists) : e.h = 1
           /\ ctx.h[1] = INF => IsDeadEnd(AStarLists, ctx)
           /\ ctx.h[1] # INF /\ ctx.g \in Nat /\ ctx.h[1] \in Nat =>
                 Key(AStarLists[1], ctx)[1] = ctx.g + ctx.h[1]
  <1> DEFINE F == [g |-> 1, w |-> 1, h |-> 1, pref |-> FALSE]
             H == [g |-> 0, w |-> 1, h |-> 1, pref |-> FALSE]
             L == [type |-> "tiebreaking", evals |-> <<F, H>>, pref_only |-> FALSE,
                   unsafe |-> FALSE]
  <1>1. AStarLists = <<L>>
    BY DEF AStarLists
  <1>2. DOMAIN AStarLists = {1} /\ AStarLists[1] = L
    BY <1>1
  <1>3. L.evals = <<F, H>> /\ L.type = "tiebreaking" /\ DOMAIN <<F, H>> = 1..2
    <2>1. L.evals = <<F, H>> /\ L.type = "tiebreaking"
      OBVIOUS
    <2> HIDE DEF F, H, L
    <2>2. DOMAIN <<F, H>> = 1..2
      OBVIOUS
    <2> QED BY <2>1, <2>2
  <1>4. <<F, H>>[1] = F /\ <<F, H>>[2] = H /\ \A k \in 1..2 : k = 1 \/ k = 2
    OBVIOUS
  <1>5. /\ Value(F, ctx) = IF ctx.h[1] = INF THEN INF ELSE 1 * ctx.g + 1 * ctx.h[1]
        /\ Value(H, ctx) = IF ctx.h[1] = INF THEN INF ELSE 0 * ctx.g + 1 * ctx.h[1]
    BY InfinityAssumption DEF Value
  <1>6. F.h = 1 /\ H.h = 1
    OBVIOUS
  <1> HIDE DEF F, H, L
  <1>7. \A e \in Evaluators(AStarLists) : e.h = 1
    BY <1>2, <1>3, <1>4, <1>6 DEF Evaluators
  <1>8. DOMAIN Key(AStarLists[1], ctx) = 1..2 /\ Key(AStarLists[1], ctx)[1] = Value(F, ctx)
    BY <1>2, <1>3, <1>4 DEF Key
  <1>9. ASSUME ctx.h[1] = INF PROVE IsDeadEnd(AStarLists, ctx)
    <2>1. \A k \in 1..2 : Value(L.evals[k], ctx) = Infinity
      BY <1>3, <1>4, <1>5, <1>9, InfinityAssumption
    <2>2. Infinite(L, ctx) = DOMAIN L.evals
      BY <1>3, <2>1 DEF Infinite
    <2> QED BY <1>2, <2>2 DEF IsDeadEnd, is_dead_end
  <1>10. ASSUME ctx.h[1] # INF, ctx.g \in Nat, ctx.h[1] \in Nat
         PROVE  Key(AStarLists[1], ctx)[1] = ctx.g + ctx.h[1]
    BY <1>5, <1>8, <1>10
  <1> QED BY <1>2, <1>3, <1>7, <1>8, <1>9, <1>10

\* A* takes an entry with the least f.
LEMMA AStarTakesLeast ==
    ASSUME NEW lst, NEW E, Holds(AStarLists, lst, E),
           \A r : In(AStarLists, lst, r) => r.key[1] \in Int /\ DOMAIN r.key = 1..2,
           NEW pos \in MinPositions(AStarLists, lst)
    PROVE  \E m : /\ In(AStarLists, lst, m) /\ EntryAt(lst, pos) = m.entry
                  /\ \A r : In(AStarLists, lst, r) => m.key[1] <= r.key[1]
  <1>1. PICK i \in Turns(lst) :
                 \E k \in Removable(AStarLists[i], lst.q[i]) : pos = <<i, k>>
    BY DEF MinPositions
  <1>2. PICK p \in Removable(AStarLists[i], lst.q[i]) : pos = <<i, p>>
    BY <1>1
  <1>3. i = 1 /\ DOMAIN AStarLists = {1} /\ AStarLists[1].type = "tiebreaking"
    BY <1>1, AStarFacts DEF Turns, Holds
  <1> DEFINE q == lst.q[1]
  <1>4. p \in FirstMin(q)
    BY <1>2, <1>3 DEF Removable
  <1>5. p \in DOMAIN q /\ In(AStarLists, lst, q[p])
    BY <1>3, <1>4 DEF FirstMin, In
  <1>6. ASSUME NEW r, In(AStarLists, lst, r) PROVE q[p].key[1] <= r.key[1]
    <2>1. PICK j \in DOMAIN q : r = q[j]
      BY <1>3, <1>6 DEF In
    <2>2. CASE j = p
      BY <1>5, <2>1, <2>2
    <2>3. CASE j # p
      <3>1. LexLess(q[p].key, q[j].key) \/ q[p].key = q[j].key
        BY <1>4, <2>3 DEF FirstMin
      <3>2. q[p].key[1] \in Int /\ r.key[1] \in Int /\ DOMAIN q[p].key = 1..2
        BY <1>5, <1>6
      <3>3. CASE LexLess(q[p].key, q[j].key)
        <4>1. PICK k \in 1..2 : /\ q[p].key[k] < q[j].key[k]
                                /\ \A l \in 1..(k - 1) : q[p].key[l] = q[j].key[l]
          BY <3>2, <3>3 DEF LexLess
        <4>2. k = 1 \/ 1 \in 1..(k - 1)
          OBVIOUS
        <4> QED BY <2>1, <3>2, <4>1, <4>2
      <3> QED BY <2>1, <3>1, <3>2, <3>3
    <2> QED BY <2>2, <2>3
  <1>7. EntryAt(lst, pos) = q[p].entry
    BY <1>2, <1>3 DEF EntryAt
  <1> QED BY <1>5, <1>6, <1>7

-----------------------------------------------------------------------------
(* What an exploration has settled.                                        *)

\* Closed nodes are opened again for a cheaper way, and ways are measured in
\* real costs.
Reopening == cfg.reopen_closed /\ cfg.cost_type = "normal"

\* A node with a way to it that may lead to the goal.
Opened(s) == node[s].status \in {"open", "closed"}

\* What is known about an operator of a closed node.
Settled(s, o) ==
    LET t == Successor(s, o)
    IN \/ node[t].status = "dead_end"
       \/ Opened(t) /\ (Reopening => node[t].g <= node[s].g + Cost[o])
       \/ Reopening /\ node[s].g + Cost[o] >= bound
       \/ HStar[s] >= INF

\* What is marked a dead end is one.
DeadEndsRight == \A s \in State : node[s].status = "dead_end" => HStar[s] >= INF

\* A goal is not expanded: the search ends there.
NoGoalClosed == \A s \in State : node[s].status = "closed" => s \notin Goal

\* When all operators of closed nodes are settled, a cheapest plan leads
\* through a node that is still open.
LEMMA WayOut ==
    ASSUME SpaceOK, bound \in 0..INF, Reopening \/ bound = INF, HStar[initial] < bound,
           Opened(initial), node[initial].g = 0, DeadEndsRight, NoGoalClosed,
           \A s \in State : node[s].status = "closed" =>
              \A o \in Applicable(s) : Settled(s, o)
    PROVE  \E s \in State :
              /\ node[s].status = "open" /\ HStar[s] <= HStar[initial]
              /\ Reopening => node[s].g + HStar[s] <= HStar[initial]
  <1> DEFINE B == HStar[initial]
             Stop(s, c) == /\ Opened(s) /\ c <= B
                           /\ Reopening => node[s].g + c <= B
             P == {i \in 0..N : \E s \in State, c \in Nat : <<s, c>> \in Ways[i] /\ Stop(s, c)}
  <1>1. B \in Nat /\ B < bound /\ bound \in Nat /\ B < INF /\ INF \in Nat /\ N \in Nat
        /\ initial \in State
    <2>1. initial \in State /\ INF \in Nat /\ N \in Nat
      BY NFacts, TaskAssumption
    <2>2. HStar[initial] \in Nat
      BY <2>1, HStarFacts
    <2> QED BY <2>1, <2>2
  <1>2. <<initial, B>> \in Ways[N]
    BY <1>1, HStarFacts, WaysFacts
  <1>3. N \in P
    <2>1. Stop(initial, B)
      BY <1>1
    <2> HIDE DEF Stop, B
    <2> QED BY <1>1, <1>2, <2>1
  <1>4. PICK i \in P : \A k \in P : i <= k
    <2>1. P \subseteq Nat /\ P # {}
      BY <1>1, <1>3
    <2> HIDE DEF P
    <2> QED BY <2>1, LeastNumber
  <1>5. i \in 0..N
    BY <1>4
  <1>6. PICK s \in State, c \in Nat : <<s, c>> \in Ways[i] /\ Stop(s, c)
    BY <1>4
  <1>7. i # 0 => i - 1 \in 0..N /\ i - 1 \notin P /\ i \in 1..N
    <2> HIDE DEF P
    <2> QED BY <1>1, <1>4, <1>5
  <1>8. \A t \in State : \A k : <<t, k>> \in Ways[i] => HStar[t] <= k
    BY <1>5, MoreWays, HStarFacts
  <1>9. CASE node[s].status = "open"
    <2>1. HStar[s] <= c /\ HStar[s] \in Nat
      BY <1>6, <1>8, HStarFacts
    <2>2. Reopening => node[s].g \in Nat
      BY <1>9, OpenHasWay DEF SpaceOK, HasWay
    <2>3. HStar[s] <= B
      BY <1>1, <1>6, <2>1
    <2>4. Reopening => node[s].g + HStar[s] <= B
      BY <1>1, <1>6, <2>1, <2>2
    <2> QED BY <1>9, <2>3, <2>4
  <1>10. CASE node[s].status = "closed"
    <2>1. i # 0
      <3>1. i = 0 => s \in Goal
        BY <1>6, WaysFacts
      <3> QED BY <1>10, <3>1 DEF NoGoalClosed
    <2>2. <<s, c>> \notin Ways[i - 1]
      <3> HIDE DEF Stop
      <3> QED BY <1>6, <1>7, <2>1
    <2>3. Ways[i - 1] \in SUBSET (State \X Nat) /\ <<s, c>> \in Prepended(Ways[i - 1])
      BY <1>6, <1>7, <2>1, <2>2, WaysFacts
    <2>4. PICK o \in Op, t \in State, k \in Nat :
             /\ <<s, o, t>> \in Transition /\ <<t, k>> \in Ways[i - 1]
             /\ c = k + Cost[o]
      <3>1. \A v, d : <<v, d>> \in Prepended(Ways[i - 1]) <=>
               \E o \in Op, t \in State, k \in Nat :
                  /\ <<v, o, t>> \in Transition /\ <<t, k>> \in Ways[i - 1]
                  /\ d = k + Cost[o]
        BY <2>3, PrependedFacts
      <3> QED BY <2>3, <3>1
    <2>5. o \in Applicable(s) /\ t = Successor(s, o)
      <3>1. o \in Applicable(s)
        BY <2>4 DEF Applicable
      <3>2. <<s, o, Successor(s, o)>> \in Transition
        BY <3>1, SuccessorFacts
      <3>3. PICK u, v : u = <<s, o, t>> /\ v = <<s, o, Successor(s, o)>>
        OBVIOUS
      <3>4. u \in Transition /\ v \in Transition /\ u[1] = v[1] /\ u[2] = v[2]
            /\ u[3] = t /\ v[3] = Successor(s, o)
        BY <2>4, <3>2, <3>3
      <3> QED BY <3>1, <3>4, TaskAssumption
    <2>6. Cost[o] \in Nat /\ (Reopening => node[s].g \in Nat) /\ (Opened(t) => node[t].g \in Nat)
      BY <1>10, OpenHasWay, TaskAssumption DEF SpaceOK, HasWay, Opened
    <2>7. k <= B /\ (Reopening => node[s].g + (k + Cost[o]) <= B)
      BY <1>1, <1>6, <2>4, <2>6
    <2>8. node[t].status # "dead_end"
      <3>1. HStar[t] <= k /\ HStar[t] \in Nat
        BY <1>7, <2>1, <2>4, MoreWays, HStarFacts
      <3> QED BY <1>1, <2>4, <2>7, <3>1 DEF DeadEndsRight
    <2>9. ~(Reopening /\ node[s].g + Cost[o] >= bound)
      BY <1>1, <2>4, <2>6, <2>7
    <2>13. ~(HStar[s] >= INF)
      <3>1. HStar[s] <= c /\ HStar[s] \in Nat /\ c <= B
        BY <1>6, <1>8, HStarFacts
      <3> QED BY <1>1, <3>1
    <2>10. Opened(t) /\ (Reopening => node[t].g <= node[s].g + Cost[o])
      BY <1>10, <2>5, <2>8, <2>9, <2>13 DEF Settled
    <2>11. Stop(t, k)
      BY <1>1, <2>4, <2>6, <2>7, <2>10
    <2>12. i - 1 \in P
      <3> HIDE DEF Stop
      <3> QED BY <1>7, <2>1, <2>4, <2>11
    <2> QED BY <1>7, <2>1, <2>12
  <1> QED BY <1>6, <1>9, <1>10 DEF Opened

-----------------------------------------------------------------------------
(* The exploration of a best-first search.                                 *)

\* The estimates that the lists look at are infinite only for dead ends.
Trusted ==
    \A e \in Evaluators(cfg.lists), s \in State :
        e.w # 0 /\ h[e.h][s] >= INF => HStar[s] >= INF

\* What the configuration and the estimates are.
Configured ==
    /\ ListsOK(cfg.lists)
    /\ \A e \in Evaluators(cfg.lists) : e.h \in DOMAIN h
    /\ \A i \in 1..Len(portfolio.engine_configs) :
          \A e \in Evaluators(portfolio.engine_configs[i].lists) : e.h \in DOMAIN h
    /\ h \in Seq([State -> Nat]) /\ 1 \in DOMAIN h
    /\ \A i \in DOMAIN h, s \in State : h[i][s] <= INF \/ h[i][s] <= HStar[s]
    /\ bound \in 0..INF /\ best_bound \in 0..INF

\* An entry for s whose f is at most that of s now.
Waits(s) ==
    \E r : /\ In(cfg.lists, open, r) /\ r.entry = s
           /\ IsAStar => r.key[1] <= node[s].g + h[1][s]

\* An operator of s that is still to be looked at.
Underway(s, o) ==
    \/ s = cur /\ o \in todo
    \/ cfg.kind = "lazy" /\ edge = <<s, o>>
    \/ cfg.kind = "lazy" /\ \E r : In(cfg.lists, open, r) /\ r.entry = <<s, o>>

\* The exploration has the initial state, or will have it.
Begun ==
    \/ status = "initialize"
    \/ HStar[initial] >= INF
    \/ Opened(initial) /\ node[initial].g = 0
    \/ cfg.kind = "lazy" /\ edge = <<NoState, NoOp>> /\ node[initial].status = "new"

\* The operators of a closed node are settled or underway.
OperatorsSettled ==
    \A s \in State : node[s].status = "closed" =>
        \A o \in Applicable(s) : Settled(s, o) \/ Underway(s, o)

\* An open node waits in the open list.
OpenWait ==
    \A s \in State : node[s].status = "open" =>
        cfg.kind = "eager" /\ (HStar[s] >= INF \/ Waits(s))

\* A search begins with an empty search space.
Untouched == status = "initialize" => \A s \in State : node[s].status = "new"

\* A search that fails has nothing left to do.
Exhausted ==
    status = "failed" =>
        /\ todo = {} /\ \A r : ~In(cfg.lists, open, r)
        /\ cfg.kind = "lazy" => edge = <<>>

\* The inductive invariant of an exploration.
Exploration ==
    /\ Begun /\ Untouched /\ DeadEndsRight /\ NoGoalClosed
    /\ OperatorsSettled /\ OpenWait /\ Exhausted

\* Nodes that have been reached are not lost.
Later ==
    \A t \in State :
        /\ node[t].status = "dead_end" => node'[t].status = "dead_end"
        /\ Opened(t) => \/ node'[t].status = "dead_end"
                        \/ Opened(t)' /\ node'[t].g <= node[t].g

\* What is settled stays settled as nodes get cheaper.
LEMMA SettledStays ==
    ASSUME SpaceOK, SpaceOK', Later, UNCHANGED <<cfg, bound>>,
           NEW s \in State, NEW o \in Applicable(s), Opened(s), Opened(s)',
           Reopening => node'[s].g = node[s].g, Settled(s, o)
    PROVE  Settled(s, o)'
  <1> DEFINE t == Successor(s, o)
  <1>1. t \in State /\ Cost[o] \in Nat /\ Reopening' = Reopening
    BY SuccessorFacts, TaskAssumption DEF Reopening
  <1>2. Opened(t) => node[t].g \in Nat
    BY <1>1, OpenHasWay DEF Opened, SpaceOK, HasWay
  <1>3. Opened(t)' => node'[t].g \in Nat
    BY <1>1, OpenHasWay DEF Opened, SpaceOK, HasWay
  <1>4. node[s].g \in Nat
    BY OpenHasWay DEF Opened, SpaceOK, HasWay
  <1>5. CASE node[t].status = "dead_end"
    BY <1>1, <1>5 DEF Later, Settled
  <1>6. CASE Opened(t) /\ (Reopening => node[t].g <= node[s].g + Cost[o])
    <2>1. node'[t].status = "dead_end" \/ (Opened(t)' /\ node'[t].g <= node[t].g)
      BY <1>1, <1>6 DEF Later
    <2>2. Opened(t)' /\ Reopening /\ node'[t].g <= node[t].g
             => node'[t].g <= node'[s].g + Cost[o]
      BY <1>1, <1>2, <1>3, <1>4, <1>6
    <2> HIDE DEF t
    <2>3. Settled(s, o)' <=>
             \/ node'[t].status = "dead_end"
             \/ Opened(t)' /\ (Reopening => node'[t].g <= node'[s].g + Cost[o])
             \/ Reopening /\ node'[s].g + Cost[o] >= bound
             \/ HStar[s] >= INF
      BY <1>1 DEF Settled, t
    <2> QED BY <2>1, <2>2, <2>3
  <1>7. CASE Reopening /\ node[s].g + Cost[o] >= bound
    BY <1>1, <1>7 DEF Settled
  <1>8. CASE HStar[s] >= INF
    BY <1>8 DEF Settled
  <1> QED BY <1>5, <1>6, <1>7, <1>8 DEF Settled

\* What a step has to show of a closed node.
ClosedStep(s) ==
    node'[s].status = "closed" =>
        \/ /\ node[s].status = "closed" /\ (Reopening => node'[s].g = node[s].g)
           /\ \A o \in Applicable(s) : Underway(s, o) => Settled(s, o)' \/ Underway(s, o)'
        \/ s \notin Goal /\ \A o \in Applicable(s) : Settled(s, o)' \/ Underway(s, o)'

\* The exploration goes on when all closed nodes do what ClosedStep asks.
LEMMA ExplorationStep ==
    ASSUME SpaceOK, SpaceOK', Exploration, UNCHANGED <<cfg, bound>>,
           status' \notin {"initialize", "failed"},
           Later, Begun', DeadEndsRight', \A s \in State : ClosedStep(s), OpenWait'
    PROVE  Exploration'
  <1>1. ASSUME NEW s \in State, node'[s].status = "closed"
        PROVE  s \notin Goal /\ \A o \in Applicable(s) : Settled(s, o)' \/ Underway(s, o)'
    <2>1. CASE /\ node[s].status = "closed" /\ (Reopening => node'[s].g = node[s].g)
               /\ \A o \in Applicable(s) : Underway(s, o) => Settled(s, o)' \/ Underway(s, o)'
      <3>1. s \notin Goal /\ \A o \in Applicable(s) : Settled(s, o) \/ Underway(s, o)
        BY <2>1 DEF Exploration, NoGoalClosed, OperatorsSettled
      <3>2. Opened(s) /\ Opened(s)'
        BY <1>1, <2>1 DEF Opened
      <3>3. \A o \in Applicable(s) : Settled(s, o) => Settled(s, o)'
        BY <2>1, <3>2, SettledStays
      <3> QED BY <2>1, <3>1, <3>3
    <2> QED BY <1>1, <2>1 DEF ClosedStep
  <1>2. NoGoalClosed' /\ OperatorsSettled'
    BY <1>1 DEF NoGoalClosed, OperatorsSettled
  <1> QED BY <1>2 DEF Exploration, Untouched, Exhausted

\* The initial node is not lost either.
LEMMA BegunStays ==
    ASSUME SpaceOK', Later, DeadEndsRight', Opened(initial) /\ node[initial].g = 0
    PROVE  Begun'
  <1>1. initial \in State
    BY TaskAssumption
  <1>2. Opened(initial)' => node'[initial].g \in Nat
    BY <1>1, OpenHasWay DEF Opened, SpaceOK, HasWay
  <1>3. node'[initial].status = "dead_end" \/ (Opened(initial)' /\ node'[initial].g <= 0)
    BY <1>1 DEF Later
  <1> QED BY <1>1, <1>2, <1>3 DEF Begun, DeadEndsRight

-----------------------------------------------------------------------------
(* What the operations of the search space do to nodes.                    *)

\* Marking a node and closing it.
LEMMA NodeFacts ==
    ASSUME NEW m \in [State -> NodeType], NEW s \in State
    PROVE  /\ LET n == [m EXCEPT ![s].status = "dead_end"]
              IN /\ n[s].status = "dead_end" /\ n[s].g = m[s].g
                 /\ \A u \in State : u # s => n[u] = m[u]
           /\ LET n == Close(m, s)
              IN /\ n[s].status = "closed" /\ n[s].g = m[s].g /\ n[s].real_g = m[s].real_g
                 /\ \A u \in State : u # s => n[u] = m[u]
  <1>1. \A st : [m EXCEPT ![s].status = st] = [m EXCEPT ![s] = [m[s] EXCEPT !.status = st]]
    OBVIOUS
  <1>2. \A st : LET n == [m[s] EXCEPT !.status = st]
                IN n.status = st /\ n.g = m[s].g /\ n.real_g = m[s].real_g
    BY DEF NodeType
  <1> QED BY <1>1, <1>2 DEF Close

\* Opening a node, giving it another parent, and opening it to close it at once.
LEMMA WayFacts ==
    ASSUME node \in [State -> NodeType], NEW s, NEW o, NEW t \in State
    PROVE  /\ LET n == OpenNode(t, s, o)
              IN /\ n[t].status = "open" /\ n[t].g = node[s].g + adj(o)
                 /\ \A u \in State : u # t => n[u] = node[u]
           /\ LET n == update_parent(t, s, o)
              IN /\ n[t].status = node[t].status /\ n[t].g = node[s].g + adj(o)
                 /\ \A u \in State : u # t => n[u] = node[u]
           /\ LET n == Close(OpenNode(t, s, o), t)
              IN /\ n[t].status = "closed" /\ n[t].g = node[s].g + adj(o)
                 /\ \A u \in State : u # t => n[u] = node[u]
  <1>1. \A st : Reached(s, o, st).status = st /\ Reached(s, o, st).g = node[s].g + adj(o)
    BY DEF Reached
  <1>2. /\ OpenNode(t, s, o)[t] = Reached(s, o, "open") /\ DOMAIN OpenNode(t, s, o) = State
        /\ \A u \in State : u # t => OpenNode(t, s, o)[u] = node[u]
    BY DEF OpenNode
  <1>3. /\ update_parent(t, s, o)[t] = Reached(s, o, node[t].status)
        /\ \A u \in State : u # t => update_parent(t, s, o)[u] = node[u]
    BY DEF update_parent
  <1>4. /\ Close(OpenNode(t, s, o), t)[t] = [Reached(s, o, "open") EXCEPT !.status = "closed"]
        /\ \A u \in State : u # t => Close(OpenNode(t, s, o), t)[u] = OpenNode(t, s, o)[u]
    BY <1>2 DEF Close
  <1>5. LET r == [Reached(s, o, "open") EXCEPT !.status = "closed"]
        IN r.status = "closed" /\ r.g = node[s].g + adj(o)
    BY DEF Reached
  <1> QED BY <1>1, <1>2, <1>3, <1>4, <1>5

\* Opening the initial node.
LEMMA InitialFacts ==
    ASSUME node \in [State -> NodeType]
    PROVE  LET n == open_initial(node)
           IN /\ n[initial].status = "open" /\ n[initial].g = 0
              /\ \A u \in State : u # initial => n[u] = node[u]
              /\ Close(n, initial)[initial].status = "closed" /\ Close(n, initial)[initial].g = 0
              /\ \A u \in State : u # initial => Close(n, initial)[u] = node[u]
  <1> DEFINE root == [status |-> "open", g |-> 0, real_g |-> 0,
                      parent |-> NoState, op |-> NoOp]
             n == open_initial(node)
  <1>1. initial \in State
    BY TaskAssumption
  <1>2. /\ n[initial] = root /\ DOMAIN n = State
        /\ \A u \in State : u # initial => n[u] = node[u]
    BY <1>1 DEF open_initial
  <1> HIDE DEF n
  <1>3. /\ Close(n, initial)[initial] = [root EXCEPT !.status = "closed"]
        /\ \A u \in State : u # initial => Close(n, initial)[u] = n[u]
    BY <1>1, <1>2 DEF Close
  <1>4. [root EXCEPT !.status = "closed"].status = "closed" /\ [root EXCEPT !.status = "closed"].g = 0
    OBVIOUS
  <1> QED BY <1>2, <1>3, <1>4 DEF n

-----------------------------------------------------------------------------
(* Estimates, and what they say.                                           *)

\* Only a lazy evaluator changes estimates, and it lets them grow.
Grown ==
    /\ DOMAIN h' = DOMAIN h
    /\ \A i \in DOMAIN h, s \in State : h[i][s] <= h'[i][s]

\* A second estimate of a state changes that estimate only, and upwards if at all.
LEMMA Reestimates ==
    ASSUME Configured, NEW s \in State, NEW v, Reevaluated(s, v)
    PROVE  /\ h' \in Seq([State -> Nat]) /\ 1 \in DOMAIN h' /\ Grown
           /\ \A i \in DOMAIN h', t \in State : h'[i][t] <= INF \/ h'[i][t] <= HStar[t]
           /\ [Estimates(s) EXCEPT ![1] = v] = Estimates(s)'
           /\ \A t \in State : t # s => h'[1][t] = h[1][t]
  <1>1. /\ h \in Seq([State -> Nat]) /\ 1 \in DOMAIN h
        /\ v = h[1][s] \/ v \in h[1][s]..HStar[s]
        /\ h' = [h EXCEPT ![1] = [h[1] EXCEPT ![s] = v]]
    BY DEF Configured, Reevaluated
  <1>2. h[1] \in [State -> Nat] /\ HStar[s] \in Nat
    <2>1. h[1] \in [State -> Nat]
      BY <1>1
    <2>2. HStar[s] \in Nat
      BY HStarFacts
    <2> QED BY <2>1, <2>2
  <1>3. v \in Nat /\ h[1][s] <= v /\ (v <= INF \/ v <= HStar[s])
    <2>1. h[1][s] \in Nat
      BY <1>2
    <2>2. h[1][s] <= INF \/ h[1][s] <= HStar[s]
      BY <1>1 DEF Configured
    <2> QED BY <1>1, <1>2, <2>1, <2>2
  <1> DEFINE f == [h[1] EXCEPT ![s] = v]
  <1>4. f \in [State -> Nat] /\ f[s] = v /\ \A t \in State : t # s => f[t] = h[1][t]
    BY <1>2, <1>3
  <1> HIDE DEF f
  <1>5. /\ DOMAIN h' = DOMAIN h /\ h'[1] = f /\ h' \in Seq([State -> Nat])
        /\ \A i \in DOMAIN h : i # 1 => h'[i] = h[i]
    <2>1. h' = [h EXCEPT ![1] = f]
      BY <1>1 DEF f
    <2> QED BY <1>1, <1>4, <2>1
  <1>6. \A i \in DOMAIN h : h[i] \in [State -> Nat]
    BY <1>1
  <1>7. \A i \in DOMAIN h, t \in State : h[i][t] <= h'[i][t]
    <2> SUFFICES ASSUME NEW i \in DOMAIN h, NEW t \in State PROVE h[i][t] <= h'[i][t]
      OBVIOUS
    <2>1. CASE i = 1
      <3>1. h[1][t] \in Nat
        BY <1>2
      <3> QED BY <1>3, <1>4, <1>5, <2>1, <3>1
    <2>2. CASE i # 1
      <3>1. h[i][t] \in Nat
        BY <1>6
      <3> QED BY <1>5, <2>2, <3>1
    <2> QED BY <2>1, <2>2
  <1>8. \A i \in DOMAIN h, t \in State : h'[i][t] <= INF \/ h'[i][t] <= HStar[t]
    <2> SUFFICES ASSUME NEW i \in DOMAIN h, NEW t \in State
                 PROVE  h'[i][t] <= INF \/ h'[i][t] <= HStar[t]
      OBVIOUS
    <2>1. CASE i = 1 /\ t = s
      BY <1>3, <1>4, <1>5, <2>1
    <2>2. CASE ~(i = 1 /\ t = s)
      <3>1. h'[i][t] = h[i][t]
        BY <1>4, <1>5, <2>2
      <3> QED BY <3>1 DEF Configured
    <2> QED BY <2>1, <2>2
  <1>9. [Estimates(s) EXCEPT ![1] = v] = Estimates(s)'
    <2>1. Estimates(s)' = [i \in DOMAIN h |-> h'[i][s]]
      BY <1>5 DEF Estimates
    <2>2. Estimates(s) = [i \in DOMAIN h |-> h[i][s]]
      BY DEF Estimates
    <2>3. \A i \in DOMAIN h : h'[i][s] = IF i = 1 THEN v ELSE h[i][s]
      BY <1>4, <1>5
    <2> QED BY <2>1, <2>2, <2>3
  <1>10. \A t \in State : t # s => h'[1][t] = h[1][t]
    BY <1>4, <1>5
  <1> QED BY <1>1, <1>5, <1>7, <1>8, <1>9, <1>10 DEF Grown

\* The evaluation context of the second estimate.
LEMMA NewContextFacts ==
    ASSUME Configured, Configured', NEW s \in State, NEW v, Reevaluated(s, v), NEW g, NEW pref
    PROVE  LET ctx == NewContext(s, v, g, pref)
           IN /\ ctx.g = g /\ ctx.h[1] = h'[1][s] /\ ctx.h[1] \in Nat
              /\ ctx = Context(g, Estimates(s)', pref)
  <1>1. NewContext(s, v, g, pref) = Context(g, Estimates(s)', pref)
    BY Reestimates DEF NewContext
  <1>2. h'[1] \in [State -> Nat] /\ 1 \in DOMAIN h'
    BY DEF Configured
  <1>3. Estimates(s)'[1] = h'[1][s] /\ h'[1][s] \in Nat
    BY <1>2 DEF Estimates
  <1> QED BY <1>1, <1>3 DEF Context

\* What every step of an engine leaves of the configuration.
LEMMA EstimatesStep ==
    ASSUME IInv, Configured, Search
    PROVE  Grown /\ Configured' /\ UNCHANGED <<cfg, bound>>
  <1>1. UNCHANGED <<cfg, bound, portfolio, best_bound>>
    BY DEF Search, itVars, EagerNext, EagerInitialize, EagerExhausted, EagerPop, PopStale,
       PopReevaluated, PopExpand, Generate, LazyNext, LazyInitialize, LazyKnown, LazyDeadEnd,
       LazyExpand, LazyGenerate, LazyFetch, LazyExhausted, HillNext, HillInitialize, HillStep,
       HillInsert, HillTake, HillImprove, HillFails
  <1>2. CASE UNCHANGED h
    <2>1. Grown
      <3>1. \A i \in DOMAIN h, s \in State : h[i][s] \in Nat
        BY DEF Configured
      <3> QED BY <1>2, <3>1 DEF Grown
    <2> QED BY <1>1, <1>2, <2>1 DEF Configured
  <1>3. CASE ~UNCHANGED h
    <2>1. \E t \in State : \E v : Reevaluated(t, v)
      <3>1. EagerPop \/ Generate
        BY <1>3 DEF Search, EagerNext, EagerInitialize, EagerExhausted, LazyNext,
           LazyInitialize, LazyKnown, LazyDeadEnd, LazyExpand, LazyGenerate, LazyFetch,
           LazyExhausted, HillNext, HillInitialize, HillStep, HillInsert, HillTake, HillImprove,
           HillFails
      <3>2. CASE EagerPop
        <4>1. PICK pos \in MinPositions(cfg.lists, open) :
                 PopStale(pos) \/ PopReevaluated(pos) \/ PopExpand(pos)
          BY <3>2 DEF EagerPop
        <4>2. PopReevaluated(pos)
          BY <1>3, <4>1 DEF PopStale, PopExpand
        <4>3. PICK v : ~Stale(EntryAt(open, pos)) /\ Reevaluated(EntryAt(open, pos), v)
          BY <4>2 DEF PopReevaluated
        <4>4. EntryAt(open, pos) \in State
          BY <3>2, <4>3, PoppedIsOpen DEF IInv, EagerPop, Popping
        <4> QED BY <4>3, <4>4
      <3>3. CASE Generate
        <4>1. /\ cur \in State /\ node \in [State -> NodeType]
              /\ \A o \in todo : o \in Applicable(cur)
          BY <3>3 DEF Generate, IInv, EngineInv, Expanding, Expanded, SpaceOK, Sound
        <4>2. \A o \in todo : node[Successor(cur, o)].status \in {"new", "open", "closed", "dead_end"}
          BY <4>1, SuccessorFacts DEF NodeType
        <4>3. PICK o \in todo : GenerateCheaper(cur, o, Successor(cur, o))
          BY <1>3, <3>3, <4>2 DEF Generate, GenerateNew
        <4>4. PICK v : Reevaluated(Successor(cur, o), v)
          BY <1>3, <4>3 DEF GenerateCheaper
        <4> QED BY <4>1, <4>4, SuccessorFacts
      <3> QED BY <3>1, <3>2, <3>3
    <2>2. PICK t \in State : \E v : Reevaluated(t, v)
      BY <2>1
    <2>3. PICK v : Reevaluated(t, v)
      BY <2>2
    <2>4. /\ h' \in Seq([State -> Nat]) /\ 1 \in DOMAIN h' /\ Grown
          /\ \A i \in DOMAIN h', u \in State : h'[i][u] <= INF \/ h'[i][u] <= HStar[u]
      BY <2>3, Reestimates
    <2> QED BY <1>1, <2>4 DEF Configured, Grown
  <1> QED BY <1>1, <1>2, <1>3

\* Estimates that are right about dead ends now were right before they grew.
LEMMA TrustedBefore ==
    ASSUME Configured, Configured', Grown, UNCHANGED cfg, Trusted'
    PROVE  Trusted
  <1> SUFFICES ASSUME NEW e \in Evaluators(cfg.lists), NEW s \in State,
                      e.w # 0, h[e.h][s] >= INF
               PROVE  HStar[s] >= INF
    BY DEF Trusted
  <1>1. h[e.h][s] <= h'[e.h][s] /\ h[e.h][s] \in Nat /\ h'[e.h][s] \in Nat /\ INF \in Nat
    <2>1. e.h \in DOMAIN h /\ e.h \in DOMAIN h' /\ INF \in Nat
      BY TaskAssumption DEF Configured, Grown
    <2>2. \A i \in DOMAIN h : h[i] \in [State -> Nat]
      BY DEF Configured
    <2>3. \A i \in DOMAIN h' : h'[i] \in [State -> Nat]
      BY DEF Configured
    <2>4. h[e.h][s] <= h'[e.h][s]
      BY <2>1 DEF Grown
    <2> QED BY <2>1, <2>2, <2>3, <2>4
  <1>2. h'[e.h][s] >= INF
    BY <1>1
  <1> QED BY <1>2 DEF Trusted

\* A state that the lists take for a dead end is one.
LEMMA DeadEndIsOne ==
    ASSUME NEW lists, ListsOK(lists), NEW ctx, NEW s, NEW hs, IsDeadEnd(lists, ctx),
           \A e \in Evaluators(lists) : Value(e, ctx) = INF => e.w # 0 /\ hs[e.h][s] = INF,
           \A e \in Evaluators(lists) : e.w # 0 /\ hs[e.h][s] >= INF => HStar[s] >= INF
    PROVE  HStar[s] >= INF
  <1>1. PICK e \in Evaluators(lists) : Value(e, ctx) = INF
    BY DeadEndFacts
  <1>2. INF >= INF
    BY TaskAssumption
  <1> QED BY <1>1, <1>2

\* A state that the open list calls a dead end is one.
LEMMA DeadEndNow ==
    ASSUME Configured, Trusted, NEW s \in State, NEW g, NEW pref \in BOOLEAN, Finite(s, g),
           IsDeadEnd(cfg.lists, Eval(s, g, pref))
    PROVE  HStar[s] >= INF
  BY DeadEndIsOne DEF Configured, Trusted, Finite

-----------------------------------------------------------------------------
(* Entries.                                                                *)

\* The entry that Insert adds.
LEMMA NewEntry ==
    ASSUME NEW lists, ListsOK(lists), NEW lst, NEW E, Holds(lists, lst, E), NEW ctx, NEW e,
           NEW astar, astar => lists = AStarLists,
           ctx.g \in Nat, ctx.h[1] \in Nat
    PROVE  /\ ~IsDeadEnd(lists, ctx) =>
                 \E r : /\ In(lists, Insert(lists, lst, ctx, e), r) /\ r.entry = e
                        /\ astar => r.key[1] = ctx.g + ctx.h[1]
           /\ \A r : In(lists, lst, r) => In(lists, Insert(lists, lst, ctx, e), r)
           /\ \A r : In(lists, Insert(lists, lst, ctx, e), r) =>
                 \/ In(lists, lst, r)
                 \/ /\ r.entry = e
                    /\ astar => DOMAIN r.key = 1..2 /\ r.key[1] = ctx.g + ctx.h[1]
  <1> DEFINE new(i) == [entry |-> e, key |-> Key(lists[i], ctx)]
             R == Insert(lists, lst, ctx, e)
  <1>1. \A r : In(lists, R, r) <=>
                  \/ In(lists, lst, r)
                  \/ /\ ~IsDeadEnd(lists, ctx)
                     /\ \E i \in DOMAIN lists : Accepts(lists[i], ctx) /\ r = new(i)
    BY InsertIn
  <1>2. ASSUME NEW i \in DOMAIN lists, ~IsDeadEnd(lists, ctx)
        PROVE  /\ new(i).entry = e
               /\ astar => DOMAIN new(i).key = 1..2 /\ new(i).key[1] = ctx.g + ctx.h[1]
    <2>1. new(i).entry = e /\ new(i).key = Key(lists[i], ctx)
      OBVIOUS
    <2> HIDE DEF new
    <2>2. CASE astar
      <3>1. lists = AStarLists /\ i = 1
        BY <2>2, AStarFacts
      <3>2. ctx.h[1] # INF
        BY <1>2, <3>1, AStarFacts
      <3>3. Key(AStarLists[1], ctx)[1] = ctx.g + ctx.h[1] /\ DOMAIN Key(AStarLists[1], ctx) = 1..2
        BY <3>2, AStarFacts
      <3> QED BY <2>1, <3>1, <3>3
    <2> QED BY <2>1, <2>2
  <1> HIDE DEF new, R
  <1>3. ASSUME ~IsDeadEnd(lists, ctx)
        PROVE  \E r : /\ In(lists, R, r) /\ r.entry = e
                      /\ astar => r.key[1] = ctx.g + ctx.h[1]
    <2>1. PICK i \in DOMAIN lists : Accepts(lists[i], ctx)
      BY <1>3, DeadEndFacts
    <2>2. In(lists, R, new(i))
      BY <1>1, <1>3, <2>1
    <2> QED BY <1>2, <1>3, <2>1, <2>2
  <1>4. \A r : In(lists, lst, r) => In(lists, R, r)
    BY <1>1
  <1>5. \A r : In(lists, R, r) =>
           \/ In(lists, lst, r)
           \/ /\ r.entry = e
              /\ astar => DOMAIN r.key = 1..2 /\ r.key[1] = ctx.g + ctx.h[1]
    BY <1>1, <1>2
  <1> QED BY <1>3, <1>4, <1>5 DEF R

\* The evaluation context has the g it was made with, and the estimates of its state.
LEMMA ContextFacts ==
    ASSUME Configured, NEW s \in State, NEW g, NEW pref
    PROVE  /\ Eval(s, g, pref).g = g /\ Eval(s, g, pref).h[1] = h[1][s] /\ h[1][s] \in Nat
  BY DEF Configured, Eval, Context, Estimates

-----------------------------------------------------------------------------
(* Eager search explores.                                                  *)

\* The search has not found a plan, and has not been stopped by its timer.
Exploring == status \in {"initialize", "in_progress", "failed"}

\* The first step of eager search.
LEMMA EagerInitializeExplores ==
    ASSUME IInv, IInv', Configured, NoOverflow, Trusted, Exploration, EagerInitialize
    PROVE  Exploration'
  <1> DEFINE ctx == Eval(initial, 0, TRUE)
  <1>1. /\ cfg.kind = "eager" /\ status = "initialize" /\ status' = "in_progress"
        /\ UNCHANGED <<cfg, bound, h, edge, todo, cur>> /\ initial \in State
        /\ \A s \in State : node[s].status = "new"
    BY TaskAssumption DEF EagerInitialize, Exploration, Untouched
  <1>2. CASE IsDeadEnd(cfg.lists, ctx)
    <2>1. HStar[initial] >= INF
      BY <1>1, <1>2, DeadEndNow DEF NoOverflow
    <2>2. node' = node
      BY <1>2 DEF EagerInitialize
    <2> QED BY <1>1, <2>1, <2>2 DEF Exploration, Begun, Untouched, DeadEndsRight,
              NoGoalClosed, OperatorsSettled, OpenWait, Exhausted
  <1>3. CASE ~IsDeadEnd(cfg.lists, ctx)
    <2>1. /\ node' = open_initial(node)
          /\ open' = Insert(cfg.lists, open, ctx, initial)
      BY <1>3 DEF EagerInitialize
    <2>2. /\ node'[initial].status = "open" /\ node'[initial].g = 0
          /\ \A u \in State : u # initial => node'[u].status = "new"
      BY <1>1, <2>1, InitialFacts DEF IInv, EngineInv, SpaceOK, Sound
    <2>3. ctx.g = 0 /\ ctx.h[1] = h[1][initial] /\ h[1][initial] \in Nat
      <3>1. h[1] \in [State -> Nat] /\ 1 \in DOMAIN h
        BY DEF Configured
      <3>2. ctx.g = 0 /\ ctx.h = Estimates(initial)
        BY DEF Eval, Context
      <3>3. Estimates(initial)[1] = h[1][initial]
        BY <3>1 DEF Estimates
      <3> QED BY <1>1, <3>1, <3>2, <3>3
    <2> HIDE DEF ctx
    <2>4. Waits(initial)'
      <3>1. Holds(cfg.lists, open, OpenStates)
        BY <1>1 DEF IInv, EngineInv, Frontier
      <3>2. \E r : /\ In(cfg.lists, open', r) /\ r.entry = initial
                   /\ IsAStar => r.key[1] = ctx.g + ctx.h[1]
        BY <1>3, <2>1, <2>3, <3>1, NewEntry DEF Configured, IsAStar
      <3> QED BY <1>1, <2>2, <2>3, <3>2 DEF Waits, IsAStar
    <2>5. OpenWait'
      BY <1>1, <2>2, <2>4 DEF OpenWait
    <2> QED BY <1>1, <2>2, <2>5 DEF Exploration, Begun, Opened, Untouched, DeadEndsRight,
              NoGoalClosed, OperatorsSettled, Exhausted
  <1> QED BY <1>2, <1>3

\* Eager search fails with an empty open list.
LEMMA EagerExhaustedExplores ==
    ASSUME IInv, Exploration, EagerExhausted
    PROVE  Exploration'
  <1>1. /\ UNCHANGED <<node, cfg, bound, h, open, cur, edge, todo>>
        /\ cfg.kind = "eager" /\ status = "in_progress" /\ todo = {} /\ IsEmpty(open)
        /\ status' \in {"failed", "timeout"}
    BY DEF EagerExhausted, Popping, StepReturns
  <1>2. open.q = [i \in DOMAIN cfg.lists |-> open.q[i]]
    BY <1>1 DEF IInv, EngineInv, Frontier, Holds
  <1>3. \A r : ~In(cfg.lists, open, r)
    BY <1>1, <1>2, EmptyIn
  <1>4. /\ Begun' /\ DeadEndsRight' /\ NoGoalClosed'
    BY <1>1 DEF Exploration, Begun, Opened, DeadEndsRight, NoGoalClosed
  <1>5. OperatorsSettled'
    BY <1>1 DEF Exploration, OperatorsSettled, Settled, Opened, Reopening, Underway
  <1>6. OpenWait'
    BY <1>1 DEF Exploration, OpenWait, Waits, IsAStar
  <1> QED BY <1>1, <1>3, <1>4, <1>5, <1>6 DEF Exploration, Untouched, Exhausted

\* What the three ways of taking an entry have in common.
LEMMA PopExplores ==
    ASSUME IInv, Exploration, EagerPop
    PROVE  /\ cfg.kind = "eager" /\ status = "in_progress" /\ todo = {}
           /\ UNCHANGED <<cfg, bound, edge>>
           /\ HStar[initial] >= INF \/ (Opened(initial) /\ node[initial].g = 0)
           /\ Holds(cfg.lists, open, OpenStates)
           /\ \A s \in State : \A o \in Applicable(s) : ~Underway(s, o)
           /\ IsAStar' = IsAStar /\ node \in [State -> NodeType]
  <1>1. cfg.kind = "eager" /\ status = "in_progress" /\ todo = {}
    BY DEF EagerPop, Popping
  <1>2. UNCHANGED <<cfg, bound, edge>>
    BY DEF EagerPop, PopStale, PopReevaluated, PopExpand
  <1> QED BY <1>1, <1>2 DEF IInv, EngineInv, SpaceOK, Sound, Frontier, Exploration, Begun,
             Underway, IsAStar

\* An entry of a closed node is dropped.
LEMMA PopStaleExplores ==
    ASSUME IInv, IInv', Exploration, EagerPop,
           NEW pos \in MinPositions(cfg.lists, open), PopStale(pos)
    PROVE  Exploration'
  <1>1. /\ cfg.kind = "eager" /\ status = "in_progress" /\ todo = {}
        /\ UNCHANGED <<cfg, bound, edge>>
        /\ HStar[initial] >= INF \/ (Opened(initial) /\ node[initial].g = 0)
        /\ Holds(cfg.lists, open, OpenStates)
        /\ \A s \in State : \A o \in Applicable(s) : ~Underway(s, o)
        /\ IsAStar' = IsAStar
    BY PopExplores
  <1>2. /\ Stale(EntryAt(open, pos)) /\ open' = RemoveMin(open, pos)
        /\ UNCHANGED <<node, h, status, cur, todo>>
    BY DEF PopStale
  <1>3. Later
    <2>1. \A t \in State : Opened(t) => node[t].g \in Nat
      BY OpenHasWay DEF Opened, IInv, EngineInv, SpaceOK, HasWay
    <2> QED BY <1>2, <2>1 DEF Later, Opened
  <1>4. Begun' /\ DeadEndsRight'
    BY <1>1, <1>2 DEF Exploration, Begun, Opened, DeadEndsRight
  <1>5. \A s \in State : ClosedStep(s)
    BY <1>1, <1>2 DEF ClosedStep
  <1>6. OpenWait'
    <2> SUFFICES ASSUME NEW s \in State, node'[s].status = "open"
                 PROVE  HStar[s] >= INF \/ Waits(s)'
      BY <1>1 DEF OpenWait
    <2>1. HStar[s] >= INF \/ Waits(s)
      BY <1>2 DEF Exploration, OpenWait
    <2>2. s # EntryAt(open, pos)
      BY <1>2 DEF Stale
    <2>3. \A r : In(cfg.lists, open, r) /\ r.entry = s => In(cfg.lists, open', r)
      BY <1>1, <1>2, <2>2, RemoveIn
    <2> QED BY <1>1, <1>2, <2>1, <2>3 DEF Waits
  <1> QED BY <1>1, <1>2, <1>3, <1>4, <1>5, <1>6, ExplorationStep DEF IInv, EngineInv

\* An entry whose estimate has grown goes back to the list, or is a dead end.
LEMMA PopReevaluatedExplores ==
    ASSUME IInv, IInv', Configured, Configured', NoOverflow', Trusted', Exploration, EagerPop,
           NEW pos \in MinPositions(cfg.lists, open), PopReevaluated(pos)
    PROVE  Exploration'
  <1>1. /\ cfg.kind = "eager" /\ status = "in_progress" /\ todo = {}
        /\ UNCHANGED <<cfg, bound, edge>>
        /\ HStar[initial] >= INF \/ (Opened(initial) /\ node[initial].g = 0)
        /\ Holds(cfg.lists, open, OpenStates)
        /\ \A s \in State : \A o \in Applicable(s) : ~Underway(s, o)
        /\ IsAStar' = IsAStar /\ node \in [State -> NodeType]
    BY PopExplores
  <1>p. PICK s, rest : s = EntryAt(open, pos) /\ rest = RemoveMin(open, pos)
    OBVIOUS
  <1>2. PICK v, ctx :
           /\ ~Stale(s) /\ Reevaluated(s, v)
           /\ ctx = Context(node[s].g, [Estimates(s) EXCEPT ![1] = v], FALSE)
           /\ \/ /\ IsDeadEnd(cfg.lists, ctx)
                 /\ node' = mark_as_dead_end(s) /\ open' = rest
              \/ /\ ~IsDeadEnd(cfg.lists, ctx)
                 /\ node' = node /\ open' = Insert(cfg.lists, rest, ctx, s)
           /\ UNCHANGED <<status, cur, todo>>
    BY <1>p DEF PopReevaluated, NewContext
  <1>3. s \in State /\ node[s].status = "open" /\ Known(s)
    BY <1>1, <1>p, <1>2, PoppedIsOpen DEF IInv
  <1>4. /\ Grown /\ [Estimates(s) EXCEPT ![1] = v] = Estimates(s)'
        /\ \A t \in State : t # s => h'[1][t] = h[1][t]
    BY <1>2, <1>3, Reestimates
  <1>6. /\ node'[s].g = node[s].g /\ node'[s].status \in {"open", "dead_end"}
        /\ \A u \in State : u # s => node'[u] = node[u]
    <2>1. CASE node' = mark_as_dead_end(s)
      BY <1>1, <1>3, <2>1, NodeFacts DEF mark_as_dead_end
    <2>2. CASE node' = node
      BY <1>3, <2>2
    <2> QED BY <1>2, <2>1, <2>2
  <1>5. ctx = Eval(s, node[s].g, FALSE)'
    <2>1. ctx = Context(node[s].g, Estimates(s)', FALSE)
      BY <1>2, <1>4
    <2> QED BY <1>6, <2>1 DEF Eval
  <1>7. Later
    <2>1. \A t \in State : Opened(t) => node[t].g \in Nat
      BY OpenHasWay DEF Opened, IInv, EngineInv, SpaceOK, HasWay
    <2> QED BY <1>3, <1>6, <2>1 DEF Later, Opened
  <1>8. DeadEndsRight'
    <2> SUFFICES ASSUME NEW u \in State, node'[u].status = "dead_end" PROVE HStar[u] >= INF
      BY DEF DeadEndsRight
    <2>1. CASE u # s
      BY <1>6, <2>1 DEF Exploration, DeadEndsRight
    <2>2. CASE u = s
      <3>1. IsDeadEnd(cfg.lists, ctx)
        BY <1>2, <1>3, <2>2
      <3>2. node'[s].g >= 0
        BY <1>3, <1>6 DEF Known, HasWay
      <3>3. Finite(s, node[s].g)'
        BY <1>3, <3>2 DEF NoOverflow
      <3>4. \A e \in Evaluators(cfg.lists) : Value(e, ctx) = INF => e.w # 0 /\ h'[e.h][s] = INF
        <4>1. FALSE \in BOOLEAN
          OBVIOUS
        <4>2. \A e \in Evaluators(cfg.lists), pref \in BOOLEAN :
                 Value(e, Eval(s, node[s].g, pref)') = INF => e.w # 0 /\ h'[e.h][s] = INF
          BY <1>1, <3>3 DEF Finite
        <4> QED BY <1>5, <4>1, <4>2
      <3>5. \A e \in Evaluators(cfg.lists) : e.w # 0 /\ h'[e.h][s] >= INF => HStar[s] >= INF
        BY <1>1, <1>3 DEF Trusted
      <3> QED BY <2>2, <3>1, <3>4, <3>5, DeadEndIsOne DEF Configured
    <2> QED BY <2>1, <2>2
  <1>9. Begun'
    BY <1>1, <1>7, <1>8, BegunStays DEF Begun, IInv, EngineInv
  <1>10. \A u \in State : ClosedStep(u)
    BY <1>1, <1>3, <1>6 DEF ClosedStep
  <1>11. OpenWait'
    <2> SUFFICES ASSUME NEW u \in State, node'[u].status = "open"
                 PROVE  HStar[u] >= INF \/ Waits(u)'
      BY <1>1 DEF OpenWait
    <2>1. Holds(cfg.lists, rest, OpenStates)
      BY <1>1, <1>p, RemoveHolds
    <2>2. ctx.g = node[s].g /\ ctx.h[1] = h'[1][s] /\ ctx.g \in Nat /\ ctx.h[1] \in Nat
      <3>1. h'[1] \in [State -> Nat]
        BY DEF Configured
      <3>2. 1 \in DOMAIN h'
        BY DEF Configured
      <3> QED BY <1>3, <1>5, <1>6, <3>1, <3>2 DEF Eval, Context, Estimates, Known, HasWay
    <2>3. CASE u # s
      <3>1. HStar[u] >= INF \/ Waits(u)
        BY <1>6, <2>3 DEF Exploration, OpenWait
      <3>2. \A r : In(cfg.lists, open, r) /\ r.entry = u => In(cfg.lists, rest, r)
        BY <1>1, <1>p, <2>3, RemoveIn
      <3>3. \A r : In(cfg.lists, rest, r) => In(cfg.lists, open', r)
        <4>1. CASE open' = rest
          BY <4>1
        <4>2. CASE open' = Insert(cfg.lists, rest, ctx, s)
          BY <2>1, <4>2, InsertIn
        <4> QED BY <1>2, <4>1, <4>2
      <3> QED BY <1>1, <1>4, <1>6, <2>3, <3>1, <3>2, <3>3 DEF Waits
    <2>4. CASE u = s
      <3>1. ~IsDeadEnd(cfg.lists, ctx) /\ open' = Insert(cfg.lists, rest, ctx, s)
        <4>1. node' = mark_as_dead_end(s) => node'[s].status = "dead_end"
          BY <1>1, <1>3, NodeFacts DEF mark_as_dead_end
        <4> QED BY <1>2, <2>4, <4>1
      <3>3. ListsOK(cfg.lists) /\ (IsAStar => cfg.lists = AStarLists)
        BY DEF Configured, IsAStar
      <3>2. \E r : /\ In(cfg.lists, open', r) /\ r.entry = s
                   /\ IsAStar => r.key[1] = ctx.g + ctx.h[1]
        BY <2>1, <2>2, <3>1, <3>3, NewEntry
      <3> QED BY <1>1, <1>6, <2>2, <2>4, <3>2 DEF Waits
    <2> QED BY <2>3, <2>4
  <1> QED BY <1>1, <1>2, <1>7, <1>8, <1>9, <1>10, <1>11, ExplorationStep DEF IInv, EngineInv

\* An entry is expanded: its operators are underway.
LEMMA PopExpandExplores ==
    ASSUME IInv, IInv', Exploration, EagerPop, Exploring',
           NEW pos \in MinPositions(cfg.lists, open), PopExpand(pos)
    PROVE  Exploration'
  <1>1. /\ cfg.kind = "eager" /\ status = "in_progress" /\ todo = {}
        /\ UNCHANGED <<cfg, bound, edge>>
        /\ HStar[initial] >= INF \/ (Opened(initial) /\ node[initial].g = 0)
        /\ Holds(cfg.lists, open, OpenStates)
        /\ \A s \in State : \A o \in Applicable(s) : ~Underway(s, o)
        /\ IsAStar' = IsAStar /\ node \in [State -> NodeType]
    BY PopExplores
  <1>p. PICK s : s = EntryAt(open, pos)
    OBVIOUS
  <1>2. /\ ~Stale(s) /\ open' = RemoveMin(open, pos) /\ node' = Close(node, s) /\ cur' = s
        /\ ~IsGoal(s) /\ todo' = Applicable(s) /\ status' = "in_progress" /\ h' = h
    BY <1>1, <1>p DEF PopExpand, StepReturns, Exploring
  <1>3. s \in State /\ node[s].status = "open" /\ Known(s)
    BY <1>1, <1>p, <1>2, PoppedIsOpen DEF IInv
  <1>4. /\ node'[s].g = node[s].g /\ node'[s].status = "closed"
        /\ \A u \in State : u # s => node'[u] = node[u]
    BY <1>1, <1>2, <1>3, NodeFacts
  <1>5. Later
    <2>1. \A t \in State : Opened(t) => node[t].g \in Nat
      BY OpenHasWay DEF Opened, IInv, EngineInv, SpaceOK, HasWay
    <2> QED BY <1>3, <1>4, <2>1 DEF Later, Opened
  <1>6. DeadEndsRight'
    BY <1>4 DEF Exploration, DeadEndsRight
  <1>7. Begun'
    BY <1>1, <1>5, <1>6, BegunStays DEF Begun, IInv, EngineInv
  <1>8. \A u \in State : ClosedStep(u)
    <2> SUFFICES ASSUME NEW u \in State PROVE ClosedStep(u)
      OBVIOUS
    <2>1. CASE u # s
      BY <1>1, <1>4, <2>1 DEF ClosedStep
    <2>2. CASE u = s
      BY <1>2, <2>2 DEF ClosedStep, IsGoal, Underway
    <2> QED BY <2>1, <2>2
  <1>9. OpenWait'
    <2> SUFFICES ASSUME NEW u \in State, node'[u].status = "open"
                 PROVE  HStar[u] >= INF \/ Waits(u)'
      BY <1>1 DEF OpenWait
    <2>1. u # s /\ node'[u] = node[u]
      BY <1>4
    <2>2. HStar[u] >= INF \/ Waits(u)
      BY <2>1 DEF Exploration, OpenWait
    <2>3. \A r : In(cfg.lists, open, r) /\ r.entry = u => In(cfg.lists, open', r)
      BY <1>1, <1>p, <1>2, <2>1, RemoveIn
    <2> QED BY <1>1, <1>2, <2>1, <2>2, <2>3 DEF Waits
  <1> QED BY <1>1, <1>2, <1>5, <1>6, <1>7, <1>8, <1>9, ExplorationStep DEF IInv, EngineInv

\* A reward changes no entry.
LEMMA RewardedIn ==
    ASSUME NEW lst, NEW E, Holds(cfg.lists, lst, E), NEW t
    PROVE  \A r : In(cfg.lists, Rewarded(t, lst), r) <=> In(cfg.lists, lst, r)
  BY BoostIn DEF Rewarded

\* Generate tries one operator of cur.
LEMMA GenerateTries ==
    ASSUME IInv, Configured, NoOverflow, Trusted, Exploration, Generate,
           Reopening \/ bound = INF
    PROVE  /\ cfg.kind = "eager" /\ status = "in_progress"
           /\ status' \in {"in_progress", "timeout"}
           /\ UNCHANGED <<cfg, bound, cur, edge>>
           /\ HStar[initial] >= INF \/ (Opened(initial) /\ node[initial].g = 0)
           /\ Holds(cfg.lists, open, OpenStates)
           /\ IsAStar' = IsAStar /\ Reopening' = Reopening
           /\ node \in [State -> NodeType] /\ cur \in State /\ Known(cur)
           /\ \E o \in todo :
                 /\ o \in Applicable(cur) /\ todo' = todo \ {o}
                 /\ \/ UNCHANGED <<node, open, h>> /\ Settled(cur, o)
                    \/ /\ node[Successor(cur, o)].status = "new"
                       /\ GenerateNew(cur, o, Successor(cur, o))
                    \/ /\ Opened(Successor(cur, o)) /\ Cheaper(Successor(cur, o), cur, o)
                       /\ GenerateCheaper(cur, o, Successor(cur, o))
  <1>1. /\ cfg.kind = "eager" /\ status = "in_progress"
        /\ UNCHANGED <<cfg, bound, cur, edge>>
    BY DEF Generate
  <1>2. status' \in {"in_progress", "timeout"}
    BY <1>1 DEF Generate, StepReturns
  <1>3. PICK o \in todo :
          /\ todo' = todo \ {o}
          /\ CASE NotGenerated(cur, o) \/ node[Successor(cur, o)].status = "dead_end" ->
                    UNCHANGED <<node, open, best_h, h>>
               [] ~NotGenerated(cur, o) /\ node[Successor(cur, o)].status = "new" ->
                    GenerateNew(cur, o, Successor(cur, o))
               [] ~NotGenerated(cur, o)
                     /\ node[Successor(cur, o)].status \in {"open", "closed"} ->
                    IF Cheaper(Successor(cur, o), cur, o)
                    THEN GenerateCheaper(cur, o, Successor(cur, o))
                    ELSE UNCHANGED <<node, open, best_h, h>>
    BY DEF Generate
  <1>t. PICK t : t = Successor(cur, o)
    OBVIOUS
  <1>4. cur \in State /\ Known(cur) /\ o \in Applicable(cur)
    BY <1>1, <1>3 DEF IInv, EngineInv, Expanding, Expanded
  <1>5. t \in State /\ o \in Op
    BY <1>4, <1>t, SuccessorFacts
  <1>6. node[t].status \in {"new", "open", "closed", "dead_end"}
    BY <1>5 DEF IInv, EngineInv, SpaceOK, Sound, NodeType
  <1>7. Cost[o] \in Nat /\ adj(o) \in Nat /\ (cfg.cost_type = "normal" => adj(o) = Cost[o])
    BY <1>5, AdjustedFacts DEF adj, IInv, EngineInv, SpaceOK
  <1>8. /\ node[cur].g \in Nat /\ node[cur].real_g \in Nat
        /\ cfg.cost_type = "normal" => node[cur].real_g = node[cur].g
    BY <1>4 DEF Known, HasWay
  <1>9. ASSUME NotGenerated(cur, o) PROVE Settled(cur, o)
    <2>1. node[cur].real_g + Cost[o] >= bound
      BY <1>9 DEF NotGenerated
    <2>2. CASE Reopening
      <3>1. node[cur].g + Cost[o] >= bound
        BY <1>8, <2>1, <2>2 DEF Reopening
      <3> QED BY <2>2, <3>1 DEF Settled
    <2>3. CASE bound = INF
      <3>1. node[cur].g >= 0
        BY <1>8
      <3>2. node[cur].real_g + Cost[o] < INF
        BY <1>4, <3>1 DEF NoOverflow
      <3> QED BY <1>7, <1>8, <2>1, <2>3, <3>2, TaskAssumption
    <2> QED BY <2>2, <2>3
  <1>10. ASSUME Opened(t), ~Cheaper(t, cur, o) PROVE Settled(cur, o)
    <2>1. node[t].g \in Nat
      BY <1>5, <1>10, OpenHasWay DEF Opened, HasWay, IInv, EngineInv, SpaceOK
    <2>2. node[t].g <= node[cur].g + adj(o)
      BY <1>7, <1>8, <1>10, <2>1 DEF Cheaper
    <2>3. Reopening => node[t].g <= node[cur].g + Cost[o]
      BY <1>7, <2>2 DEF Reopening
    <2> QED BY <1>t, <1>10, <2>3 DEF Settled
  <1>11. \/ UNCHANGED <<node, open, h>> /\ Settled(cur, o)
         \/ node[t].status = "new" /\ GenerateNew(cur, o, t)
         \/ /\ Opened(t) /\ Cheaper(t, cur, o)
            /\ GenerateCheaper(cur, o, t)
    <2>1. CASE NotGenerated(cur, o)
      BY <1>3, <1>9, <2>1
    <2>2. CASE ~NotGenerated(cur, o) /\ node[t].status = "dead_end"
      BY <1>3, <1>t, <2>2 DEF Settled
    <2>3. CASE ~NotGenerated(cur, o) /\ node[t].status = "new"
      BY <1>3, <1>t, <2>3
    <2>4. CASE ~NotGenerated(cur, o) /\ node[t].status \in {"open", "closed"}
      <3>1. Opened(t)
        BY <2>4 DEF Opened
      <3>2. IF Cheaper(t, cur, o) THEN GenerateCheaper(cur, o, t)
            ELSE UNCHANGED <<node, open, best_h, h>>
        BY <1>3, <1>t, <2>4
      <3>3. CASE Cheaper(t, cur, o)
        BY <3>1, <3>2, <3>3
      <3>4. CASE ~Cheaper(t, cur, o)
        BY <1>10, <3>1, <3>2, <3>4
      <3> QED BY <3>3, <3>4
    <2> QED BY <1>6, <2>1, <2>2, <2>3, <2>4
  <1>12. \E p \in todo :
            /\ p \in Applicable(cur) /\ todo' = todo \ {p}
            /\ \/ UNCHANGED <<node, open, h>> /\ Settled(cur, p)
               \/ /\ node[Successor(cur, p)].status = "new"
                  /\ GenerateNew(cur, p, Successor(cur, p))
               \/ /\ Opened(Successor(cur, p)) /\ Cheaper(Successor(cur, p), cur, p)
                  /\ GenerateCheaper(cur, p, Successor(cur, p))
    BY <1>3, <1>4, <1>11, <1>t
  <1>13. /\ HStar[initial] >= INF \/ (Opened(initial) /\ node[initial].g = 0)
         /\ Holds(cfg.lists, open, OpenStates) /\ node \in [State -> NodeType]
    BY <1>1 DEF IInv, EngineInv, Frontier, SpaceOK, Sound, Exploration, Begun
  <1>14. IsAStar' = IsAStar /\ Reopening' = Reopening
    BY <1>1 DEF IsAStar, Reopening
  <1> QED BY <1>1, <1>2, <1>4, <1>12, <1>13, <1>14

\* What remains when the operator has been settled at t.
LEMMA GenerateSettles ==
    ASSUME IInv, IInv', Exploration, cfg.kind = "eager",
           status' \in {"in_progress", "timeout"},
           UNCHANGED <<cfg, bound, cur, edge>>,
           HStar[initial] >= INF \/ (Opened(initial) /\ node[initial].g = 0),
           NEW o \in Applicable(cur), todo' = todo \ {o},
           NEW t \in State,
           \A u \in State : u # t => node'[u] = node[u] /\ h'[1][u] = h[1][u],
           \A r : In(cfg.lists, open, r) => In(cfg.lists, open', r),
           node'[t].status = "dead_end" => HStar[t] >= INF,
           node[t].status = "dead_end" => node'[t].status = "dead_end",
           Opened(t) => Opened(t)' /\ node'[t].g <= node[t].g,
           node'[t].status = "closed" =>
              node[t].status = "closed" /\ (Reopening => node'[t].g = node[t].g),
           node'[t].status = "open" => HStar[t] >= INF \/ Waits(t)',
           Settled(cur, o)'
    PROVE  Exploration'
  <1>1. Later
    <2>1. \A u \in State : Opened(u) => node[u].g \in Nat
      BY OpenHasWay DEF Opened, IInv, EngineInv, SpaceOK, HasWay
    <2> QED BY <2>1 DEF Later, Opened
  <1>2. DeadEndsRight'
    BY DEF Exploration, DeadEndsRight
  <1>3. Begun'
    <2>1. CASE HStar[initial] >= INF
      BY <2>1 DEF Begun
    <2>2. CASE Opened(initial) /\ node[initial].g = 0
      BY <1>1, <1>2, <2>2, BegunStays DEF IInv, EngineInv
    <2> QED BY <2>1, <2>2
  <1>4. \A u \in State : ClosedStep(u)
    <2> SUFFICES ASSUME NEW u \in State, node'[u].status = "closed"
                 PROVE  /\ node[u].status = "closed" /\ (Reopening => node'[u].g = node[u].g)
                        /\ \A p \in Applicable(u) : Underway(u, p) => Settled(u, p)' \/ Underway(u, p)'
      BY DEF ClosedStep
    <2>1. node[u].status = "closed" /\ (Reopening => node'[u].g = node[u].g)
      OBVIOUS
    <2>2. ASSUME NEW p \in Applicable(u), Underway(u, p)
          PROVE  Settled(u, p)' \/ Underway(u, p)'
      <3>1. u = cur /\ p \in todo
        BY <2>2 DEF Underway
      <3>2. CASE p = o
        BY <3>1, <3>2
      <3>3. CASE p # o
        BY <3>1, <3>3 DEF Underway
      <3> QED BY <3>2, <3>3
    <2> QED BY <2>1, <2>2
  <1>5. OpenWait'
    <2> SUFFICES ASSUME NEW u \in State, node'[u].status = "open"
                 PROVE  HStar[u] >= INF \/ Waits(u)'
      BY DEF OpenWait
    <2>1. CASE u = t
      BY <2>1
    <2>2. CASE u # t
      <3>1. HStar[u] >= INF \/ Waits(u)
        BY <2>2 DEF Exploration, OpenWait
      <3> QED BY <2>2, <3>1 DEF Waits, IsAStar
    <2> QED BY <2>1, <2>2
  <1> QED BY <1>1, <1>2, <1>3, <1>4, <1>5, ExplorationStep DEF IInv, EngineInv

\* An operator that is no longer underway is settled.
LEMMA GenerateExplores ==
    ASSUME IInv, IInv', Configured, Configured', NoOverflow, NoOverflow', Trusted, Trusted',
           Exploration, Generate, Reopening \/ bound = INF
    PROVE  Exploration'
  <1>1. /\ cfg.kind = "eager" /\ status = "in_progress"
        /\ status' \in {"in_progress", "timeout"}
        /\ UNCHANGED <<cfg, bound, cur, edge>>
        /\ HStar[initial] >= INF \/ (Opened(initial) /\ node[initial].g = 0)
        /\ Holds(cfg.lists, open, OpenStates)
        /\ IsAStar' = IsAStar /\ Reopening' = Reopening
        /\ node \in [State -> NodeType] /\ cur \in State /\ Known(cur)
    BY GenerateTries
  <1>2. PICK o \in todo :
           /\ o \in Applicable(cur) /\ todo' = todo \ {o}
           /\ \/ UNCHANGED <<node, open, h>> /\ Settled(cur, o)
              \/ /\ node[Successor(cur, o)].status = "new"
                 /\ GenerateNew(cur, o, Successor(cur, o))
              \/ /\ Opened(Successor(cur, o)) /\ Cheaper(Successor(cur, o), cur, o)
                 /\ GenerateCheaper(cur, o, Successor(cur, o))
    BY GenerateTries
  <1>p. PICK pref \in BOOLEAN : pref = (o \in preferred_operators(cur))
    <2>1. (o \in preferred_operators(cur)) \in BOOLEAN
      OBVIOUS
    <2> QED BY <2>1, Zenon
  <1>t. PICK t, ctx : /\ t = Successor(cur, o)
                      /\ ctx = Eval(t, node[cur].g + adj(o), pref)
    OBVIOUS
  <1>3. t \in State /\ o \in Applicable(cur) /\ o \in Op
    BY <1>1, <1>2, <1>t, SuccessorFacts
  <1>4. /\ adj(o) \in Nat /\ node[cur].g \in Nat
        /\ cfg.cost_type = "normal" => adj(o) = Cost[o]
    <2>1. adj(o) \in Nat /\ (cfg.cost_type = "normal" => adj(o) = Cost[o])
      BY <1>3, AdjustedFacts DEF adj, IInv, EngineInv, SpaceOK
    <2> QED BY <1>1, <2>1 DEF Known, HasWay
  <1>5. Finite(t, node[cur].g + adj(o))
    BY <1>1, <1>3, <1>4, <1>t DEF NoOverflow
  <1>6. IsDeadEnd(cfg.lists, ctx) => HStar[t] >= INF
    BY <1>3, <1>5, <1>t, DeadEndNow
  <1>7. ctx.g = node[cur].g + adj(o) /\ ctx.h[1] = h[1][t] /\ ctx.g \in Nat /\ ctx.h[1] \in Nat
    BY <1>3, <1>4, <1>t, ContextFacts
  <1>8. ListsOK(cfg.lists) /\ (IsAStar => cfg.lists = AStarLists)
    BY DEF Configured, IsAStar
  <1>11. CASE UNCHANGED <<node, open, h>> /\ Settled(cur, o)
    <2>1. Settled(cur, o)'
      BY <1>1, <1>11 DEF Settled, Opened, Reopening
    <2>2. node'[t].status = "open" => HStar[t] >= INF \/ Waits(t)'
      BY <1>1, <1>3, <1>11 DEF Exploration, OpenWait, Waits, IsAStar
    <2>3. node'[t].status = "dead_end" => HStar[t] >= INF
      BY <1>3, <1>11 DEF Exploration, DeadEndsRight
    <2>4. Opened(t) => Opened(t)' /\ node'[t].g <= node[t].g
      <3>1. Opened(t) => node[t].g \in Nat
        BY <1>3, OpenHasWay DEF Opened, IInv, EngineInv, SpaceOK, HasWay
      <3> QED BY <1>11, <3>1 DEF Opened
    <2> QED BY <1>1, <1>2, <1>3, <1>11, <2>1, <2>2, <2>3, <2>4, GenerateSettles
  <1>12. ASSUME NEW c, c.g = node[cur].g + adj(o), c.h[1] = h'[1][t], c.h[1] \in Nat,
                IsDeadEnd(cfg.lists, c) => HStar[t] >= INF,
                \A u \in State : u # t => h'[1][u] = h[1][u],
                node' = OpenNode(t, cur, o), t # cur, node[t].status # "dead_end",
                Opened(t) => node[cur].g + adj(o) <= node[t].g,
                \/ open' = Insert(cfg.lists, open, c, t)
                \/ open' = Rewarded(t, Insert(cfg.lists, open, c, t))
         PROVE  Exploration'
    <2>m. PICK more : more = Insert(cfg.lists, open, c, t)
      OBVIOUS
    <2>o. open' = more \/ open' = Rewarded(t, more)
      BY <1>12, <2>m
    <2>n. /\ ~IsDeadEnd(cfg.lists, c) =>
                \E r : /\ In(cfg.lists, more, r) /\ r.entry = t
                       /\ IsAStar => r.key[1] = c.g + c.h[1]
          /\ \A r : In(cfg.lists, open, r) => In(cfg.lists, more, r)
      <3>1. c.g \in Nat
        BY <1>4, <1>12
      <3> QED BY <1>1, <1>8, <1>12, <2>m, <3>1, NewEntry
    <2>1. /\ node'[t].status = "open" /\ node'[t].g = node[cur].g + adj(o)
          /\ \A u \in State : u # t => node'[u] = node[u]
      BY <1>1, <1>3, <1>12, WayFacts
    <2>2. \A r : In(cfg.lists, open', r) <=> In(cfg.lists, more, r)
      <3>1. Holds(cfg.lists, more, OpenStates \cup {t})
        BY <1>1, <2>m, HoldsMore, InsertHolds
      <3>2. \A r : In(cfg.lists, Rewarded(t, more), r) <=> In(cfg.lists, more, r)
        BY <3>1, RewardedIn
      <3> QED BY <2>o, <3>2
    <2>3. ~IsDeadEnd(cfg.lists, c) => Waits(t)'
      <3>1. c.g + c.h[1] <= node'[t].g + h'[1][t]
        BY <1>4, <1>12, <2>1
      <3>2. cfg' = cfg /\ IsAStar' = IsAStar
        BY <1>1
      <3> QED BY <2>n, <2>2, <3>1, <3>2 DEF Waits
    <2>4. Settled(cur, o)'
      <3>1. node'[cur].g = node[cur].g /\ node'[t].g = node[cur].g + adj(o)
        BY <1>1, <1>12, <2>1
      <3>2. Opened(t)' /\ (Reopening => node'[t].g <= node'[cur].g + Cost[o])
        BY <1>4, <2>1, <3>1 DEF Opened, Reopening
      <3> QED BY <1>1, <1>t, <3>2 DEF Settled
    <2>5. Opened(t) => Opened(t)' /\ node'[t].g <= node[t].g
      BY <1>12, <2>1 DEF Opened
    <2>6. \A r : In(cfg.lists, open, r) => In(cfg.lists, open', r)
      BY <2>n, <2>2
    <2>7. node'[t].status # "dead_end" /\ node'[t].status # "closed"
      BY <2>1
    <2> QED BY <1>1, <1>2, <1>3, <1>12, <2>1, <2>3, <2>4, <2>5, <2>6, <2>7, GenerateSettles
  <1>13. CASE node[t].status = "new" /\ GenerateNew(cur, o, t)
    <2>1. t # cur
      BY <1>1, <1>13 DEF Known, HasWay
    <2>2. CASE IsDeadEnd(cfg.lists, ctx)
      <3>1. node' = mark_as_dead_end(t) /\ open' = open /\ h' = h
        BY <1>13, <1>p, <1>t, <2>2 DEF GenerateNew
      <3>2. node'[t].status = "dead_end" /\ \A u \in State : u # t => node'[u] = node[u]
        BY <1>1, <1>3, <3>1, NodeFacts DEF mark_as_dead_end
      <3>3. Settled(cur, o)'
        BY <1>1, <1>t, <3>2 DEF Settled
      <3>4. ~Opened(t)
        BY <1>13 DEF Opened
      <3>5. node'[t].status # "open" /\ node'[t].status # "closed"
        BY <3>2
      <3> QED BY <1>1, <1>2, <1>3, <1>6, <2>2, <3>1, <3>2, <3>3, <3>4, <3>5, GenerateSettles
    <2>3. CASE ~IsDeadEnd(cfg.lists, ctx)
      <3>1. /\ node' = OpenNode(t, cur, o) /\ h' = h
            /\ open' = Rewarded(t, Insert(cfg.lists, open, ctx, t))
        BY <1>13, <1>p, <1>t, <2>3 DEF GenerateNew
      <3>2. ~Opened(t) /\ node[t].status # "dead_end"
        BY <1>13 DEF Opened
      <3> QED BY <1>6, <1>7, <1>12, <2>1, <3>1, <3>2
    <2> QED BY <2>2, <2>3
  <1>14. CASE Opened(t) /\ Cheaper(t, cur, o) /\ GenerateCheaper(cur, o, t)
    <2>1. node[t].g > node[cur].g + adj(o) /\ node[t].g \in Nat
      <3>1. node[t].g \in Nat
        BY <1>3, <1>14, OpenHasWay DEF Opened, IInv, EngineInv, SpaceOK, HasWay
      <3> QED BY <1>14, <3>1 DEF Cheaper
    <2>2. t # cur /\ node[cur].g + adj(o) <= node[t].g /\ node[t].status # "dead_end"
      <3>1. t # cur
        BY <1>4, <2>1
      <3>2. node[t].status # "dead_end"
        BY <1>14 DEF Opened
      <3> QED BY <1>4, <2>1, <3>1, <3>2
    <2>3. CASE cfg.reopen_closed
      <3>1. PICK v, c : /\ node' = OpenNode(t, cur, o) /\ Reevaluated(t, v)
                        /\ c = NewContext(t, v, node[cur].g + adj(o), pref)
                        /\ open' = Insert(cfg.lists, open, c, t)
        BY <1>14, <1>p, <2>3 DEF GenerateCheaper
      <3>2. /\ c.g = node[cur].g + adj(o) /\ c.h[1] = h'[1][t] /\ c.h[1] \in Nat
            /\ c = Context(node[cur].g + adj(o), Estimates(t)', pref)
        BY <1>3, <3>1, NewContextFacts
      <3>3. \A u \in State : u # t => h'[1][u] = h[1][u]
        BY <1>3, <3>1, Reestimates
      <3>4. node'[t].g = node[cur].g + adj(o)
        BY <1>1, <1>3, <3>1, WayFacts
      <3>5. ASSUME IsDeadEnd(cfg.lists, c) PROVE HStar[t] >= INF
        <4>1. Finite(t, node[t].g)'
          <5>1. node'[t].g >= 0
            BY <1>4, <3>4
          <5> QED BY <1>3, <5>1 DEF NoOverflow
        <4>2. c = Eval(t, node[t].g, pref)'
          BY <3>2, <3>4 DEF Eval
        <4>3. \A e \in Evaluators(cfg.lists) : Value(e, c) = INF => e.w # 0 /\ h'[e.h][t] = INF
          <5>1. \A e \in Evaluators(cfg.lists), q \in BOOLEAN :
                   Value(e, Eval(t, node[t].g, q)') = INF => e.w # 0 /\ h'[e.h][t] = INF
            BY <1>1, <4>1 DEF Finite
          <5> QED BY <1>p, <4>2, <5>1
        <4>4. \A e \in Evaluators(cfg.lists) : e.w # 0 /\ h'[e.h][t] >= INF => HStar[t] >= INF
          BY <1>1, <1>3 DEF Trusted
        <4> QED BY <1>8, <3>5, <4>3, <4>4, DeadEndIsOne
      <3> QED BY <1>12, <2>2, <3>1, <3>2, <3>3, <3>5
    <2>4. CASE ~cfg.reopen_closed
      <3>1. node' = update_parent(t, cur, o) /\ open' = open /\ h' = h
        BY <1>14, <2>4 DEF GenerateCheaper
      <3>2. /\ node'[t].status = node[t].status /\ node'[t].g = node[cur].g + adj(o)
            /\ \A u \in State : u # t => node'[u] = node[u]
        BY <1>1, <1>3, <3>1, WayFacts
      <3>3. ~Reopening /\ ~IsAStar
        BY <2>4 DEF Reopening, IsAStar
      <3>4. Opened(t)'
        BY <1>14, <3>2 DEF Opened
      <3>5. Settled(cur, o)'
        BY <1>1, <1>t, <3>3, <3>4 DEF Settled
      <3>6. node'[t].status = "open" => HStar[t] >= INF \/ Waits(t)'
        BY <1>1, <1>3, <3>1, <3>2, <3>3 DEF Exploration, OpenWait, Waits
      <3>7. node'[t].status # "dead_end"
        BY <3>4 DEF Opened
      <3>8. node'[t].g <= node[t].g
        BY <2>2, <3>2
      <3> QED BY <1>1, <1>2, <1>3, <2>2, <3>1, <3>2, <3>3, <3>4, <3>5, <3>6, <3>7, <3>8, GenerateSettles
    <2> QED BY <2>3, <2>4
  <1> QED BY <1>2, <1>11, <1>13, <1>14, <1>t

-----------------------------------------------------------------------------
(* Lazy search explores.                                                   *)

\* The first step of lazy search.
LEMMA LazyInitializeExplores ==
    ASSUME IInv, IInv', Exploration, LazyInitialize
    PROVE  Exploration'
  <1>1. /\ cfg.kind = "lazy" /\ status = "initialize" /\ status' = "in_progress"
        /\ UNCHANGED <<node, cfg, bound, h, open, todo>> /\ edge' = <<NoState, NoOp>>
        /\ initial \in State /\ \A s \in State : node[s].status = "new"
    BY TaskAssumption DEF LazyInitialize, Exploration, Untouched
  <1>2. \A s \in State : ClosedStep(s)
    BY <1>1 DEF ClosedStep
  <1>3. Later /\ Begun' /\ DeadEndsRight' /\ OpenWait'
    BY <1>1 DEF Later, Opened, Begun, DeadEndsRight, OpenWait
  <1> QED BY <1>1, <1>2, <1>3, ExplorationStep DEF IInv, EngineInv

\* What the steps of lazy search that follow have in common.
LEMMA LazyExplores ==
    ASSUME IInv, Exploration, cfg.kind = "lazy", status = "in_progress"
    PROVE  /\ Holds(cfg.lists, open, OpenEdges) /\ node \in [State -> NodeType] /\ cur \in State
           /\ \A s \in State : node[s].status # "open"
           /\ \A s \in State : Opened(s) => node[s].g \in Nat
           /\ \/ HStar[initial] >= INF
              \/ Opened(initial) /\ node[initial].g = 0
              \/ edge = <<NoState, NoOp>> /\ node[initial].status = "new"
           /\ edge # <<>> =>
                 \/ edge = <<NoState, NoOp>> /\ cur = initial /\ current_g = 0
                    /\ edge[1] = NoState
                 \/ /\ edge \in OpenEdges /\ edge[1] \in State /\ edge[1] # NoState
                    /\ edge[2] \in Applicable(edge[1]) /\ Known(edge[1])
                    /\ cur = Successor(edge[1], edge[2])
                    /\ current_g = node[edge[1]].g + adj(edge[2]) /\ current_g \in Nat
                    /\ cfg.cost_type = "normal" => adj(edge[2]) = Cost[edge[2]]
  <1>1. Holds(cfg.lists, open, OpenEdges) /\ node \in [State -> NodeType] /\ cur \in State
    BY DEF IInv, EngineInv, Frontier, SpaceOK, Sound, Expanding
  <1>2. \A s \in State : node[s].status # "open"
    BY DEF Exploration, OpenWait
  <1>3. \A s \in State : Opened(s) => node[s].g \in Nat
    BY OpenHasWay DEF Opened, IInv, EngineInv, SpaceOK, HasWay
  <1>4. \/ HStar[initial] >= INF
        \/ Opened(initial) /\ node[initial].g = 0
        \/ edge = <<NoState, NoOp>> /\ node[initial].status = "new"
    BY DEF Exploration, Begun
  <1>5. ASSUME edge = <<NoState, NoOp>>, cur = initial
        PROVE  current_g = 0 /\ edge[1] = NoState
    <2>1. edge[1] = NoState
      BY <1>5
    <2> QED BY <2>1 DEF current_g
  <1>6. ASSUME edge \in OpenEdges, cur = Successor(edge[1], edge[2])
        PROVE  /\ edge[1] \in State /\ edge[1] # NoState
               /\ edge[2] \in Applicable(edge[1]) /\ Known(edge[1])
               /\ current_g = node[edge[1]].g + adj(edge[2]) /\ current_g \in Nat
               /\ cfg.cost_type = "normal" => adj(edge[2]) = Cost[edge[2]]
    <2>1. edge[1] \in State /\ edge[2] \in Op /\ edge[2] \in Applicable(edge[1]) /\ Known(edge[1])
      BY <1>6 DEF OpenEdges
    <2>2. edge[1] # NoState
      BY <2>1, TaskAssumption
    <2>3. adj(edge[2]) \in Nat /\ (cfg.cost_type = "normal" => adj(edge[2]) = Cost[edge[2]])
      BY <2>1, AdjustedFacts DEF adj, IInv, EngineInv, SpaceOK
    <2>4. node[edge[1]].g \in Nat
      BY <2>1 DEF Known, HasWay
    <2> QED BY <2>1, <2>2, <2>3, <2>4 DEF current_g
  <1>7. edge # <<>> =>
           \/ edge = <<NoState, NoOp>> /\ cur = initial
           \/ edge \in OpenEdges /\ cur = Successor(edge[1], edge[2])
    BY DEF IInv, EngineInv, Expanding
  <1> QED BY <1>1, <1>2, <1>3, <1>4, <1>5, <1>6, <1>7

\* An edge to a node that is known, and not worth reopening, is settled.
LEMMA LazyKnownExplores ==
    ASSUME IInv, IInv', Exploration, LazyKnown
    PROVE  Exploration'
  <1>1. /\ cfg.kind = "lazy" /\ status = "in_progress" /\ todo = {} /\ edge # <<>>
        /\ node[cur].status # "new" /\ ~Reopens /\ edge' = <<>>
        /\ UNCHANGED <<node, cfg, bound, h, open, status, cur, todo>>
    BY DEF LazyKnown, Stepping
  <1>2. /\ node \in [State -> NodeType] /\ cur \in State
        /\ \A s \in State : node[s].status # "open"
        /\ \A s \in State : Opened(s) => node[s].g \in Nat
        /\ \/ HStar[initial] >= INF
           \/ Opened(initial) /\ node[initial].g = 0
           \/ edge = <<NoState, NoOp>> /\ node[initial].status = "new"
        /\ \/ edge = <<NoState, NoOp>> /\ cur = initial /\ current_g = 0
              /\ edge[1] = NoState
           \/ /\ edge \in OpenEdges /\ edge[1] \in State /\ edge[1] # NoState
              /\ edge[2] \in Applicable(edge[1]) /\ Known(edge[1])
              /\ cur = Successor(edge[1], edge[2])
              /\ current_g = node[edge[1]].g + adj(edge[2]) /\ current_g \in Nat
              /\ cfg.cost_type = "normal" => adj(edge[2]) = Cost[edge[2]]
    BY <1>1, LazyExplores
  <1>3. Later
    BY <1>1, <1>2 DEF Later, Opened
  <1>4. HStar[initial] >= INF \/ (Opened(initial) /\ node[initial].g = 0)
    <2>1. edge[1] = NoState => cur = initial
      BY <1>2
    <2>2. edge = <<NoState, NoOp>> => edge[1] = NoState
      OBVIOUS
    <2> QED BY <1>1, <1>2, <2>1, <2>2
  <1>5. DeadEndsRight' /\ Begun'
    BY <1>1, <1>4 DEF Exploration, DeadEndsRight, Begun, Opened
  <1>6. \A s \in State : ClosedStep(s)
    <2> SUFFICES ASSUME NEW s \in State, node[s].status = "closed",
                        NEW o \in Applicable(s), Underway(s, o)
                 PROVE  Settled(s, o)' \/ Underway(s, o)'
      BY <1>1 DEF ClosedStep
    <2>1. CASE edge = <<s, o>>
      <3>1. edge[1] = s /\ edge[2] = o /\ s # NoState
        BY <2>1, TaskAssumption
      <3>2. cur = Successor(s, o) /\ current_g = node[s].g + adj(o)
            /\ (cfg.cost_type = "normal" => adj(o) = Cost[o]) /\ current_g \in Nat
        BY <1>2, <3>1
      <3>3. CASE node[cur].status = "dead_end"
        BY <1>1, <3>2, <3>3 DEF Settled
      <3>4. CASE node[cur].status # "dead_end"
        <4>1. Opened(cur)
          BY <1>1, <1>2, <3>4 DEF NodeType, Opened
        <4>2. Reopening => node[cur].g <= node[s].g + Cost[o]
          <5>1. cfg.reopen_closed => ~(current_g < node[cur].g)
            BY <1>1, <4>1 DEF Reopens, Opened
          <5>2. node[cur].g \in Nat
            BY <1>2, <4>1
          <5> QED BY <3>2, <5>1, <5>2 DEF Reopening
        <4> QED BY <1>1, <3>2, <4>1, <4>2 DEF Settled, Opened, Reopening
      <3> QED BY <3>3, <3>4
    <2>2. CASE edge # <<s, o>>
      BY <1>1, <2>2 DEF Underway
    <2> QED BY <2>1, <2>2
  <1>7. OpenWait'
    BY <1>1, <1>2 DEF OpenWait
  <1> QED BY <1>1, <1>3, <1>5, <1>6, <1>7, ExplorationStep DEF IInv, EngineInv

\* An edge to a dead end is settled.
LEMMA LazyDeadEndExplores ==
    ASSUME IInv, IInv', Configured, NoOverflow, Trusted, Exploration, LazyDeadEnd
    PROVE  Exploration'
  <1>1. /\ cfg.kind = "lazy" /\ status = "in_progress" /\ todo = {} /\ edge # <<>>
        /\ node[cur].status = "new" \/ Reopens
        /\ IsDeadEnd(cfg.lists, Eval(cur, current_g, TRUE))
        /\ node' = mark_as_dead_end(cur) /\ edge' = <<>>
        /\ UNCHANGED <<cfg, bound, h, open, status, cur, todo>>
    BY DEF LazyDeadEnd, Stepping
  <1>2. /\ node \in [State -> NodeType] /\ cur \in State
        /\ \A s \in State : node[s].status # "open"
        /\ \A s \in State : Opened(s) => node[s].g \in Nat
        /\ \/ HStar[initial] >= INF
           \/ Opened(initial) /\ node[initial].g = 0
           \/ edge = <<NoState, NoOp>> /\ node[initial].status = "new"
        /\ \/ edge = <<NoState, NoOp>> /\ cur = initial /\ current_g = 0
              /\ edge[1] = NoState
           \/ /\ edge \in OpenEdges /\ edge[1] \in State /\ edge[1] # NoState
              /\ edge[2] \in Applicable(edge[1]) /\ Known(edge[1])
              /\ cur = Successor(edge[1], edge[2])
              /\ current_g = node[edge[1]].g + adj(edge[2]) /\ current_g \in Nat
              /\ cfg.cost_type = "normal" => adj(edge[2]) = Cost[edge[2]]
    BY <1>1, LazyExplores
  <1>3. /\ node'[cur].status = "dead_end"
        /\ \A u \in State : u # cur => node'[u] = node[u]
    BY <1>1, <1>2, NodeFacts DEF mark_as_dead_end
  <1>4. HStar[cur] >= INF
    <2>1. Finite(cur, current_g)
      <3>1. CASE cur = initial /\ current_g = 0
        BY <3>1 DEF NoOverflow
      <3>2. CASE /\ edge[1] \in State /\ edge[2] \in Applicable(edge[1]) /\ Known(edge[1])
                 /\ cur = Successor(edge[1], edge[2])
                 /\ current_g = node[edge[1]].g + adj(edge[2])
        <4>1. node[edge[1]].g >= 0
          BY <3>2 DEF Known, HasWay
        <4> QED BY <3>2, <4>1 DEF NoOverflow
      <3> QED BY <1>2, <3>1, <3>2
    <2> QED BY <1>1, <1>2, <2>1, DeadEndNow
  <1>5. Later
    BY <1>1, <1>2, <1>3 DEF Later, Opened
  <1>6. DeadEndsRight'
    BY <1>3, <1>4 DEF Exploration, DeadEndsRight
  <1>7. Begun'
    <2>1. CASE HStar[initial] >= INF
      BY <2>1 DEF Begun
    <2>2. CASE Opened(initial) /\ node[initial].g = 0
      BY <1>5, <1>6, <2>2, BegunStays DEF IInv, EngineInv
    <2>3. CASE edge = <<NoState, NoOp>>
      <3>1. edge[1] = NoState
        BY <2>3
      <3>2. cur = initial
        BY <1>2, <3>1
      <3> QED BY <1>4, <3>2 DEF Begun
    <2> QED BY <1>2, <2>1, <2>2, <2>3
  <1>8. \A s \in State : ClosedStep(s)
    <2> SUFFICES ASSUME NEW s \in State, node'[s].status = "closed"
                 PROVE  /\ node[s].status = "closed" /\ node'[s].g = node[s].g
                        /\ \A o \in Applicable(s) : Underway(s, o) => Settled(s, o)' \/ Underway(s, o)'
      BY DEF ClosedStep
    <2>1. s # cur /\ node'[s] = node[s]
      BY <1>3
    <2>2. ASSUME NEW o \in Applicable(s), Underway(s, o)
          PROVE  Settled(s, o)' \/ Underway(s, o)'
      <3>1. CASE edge = <<s, o>>
        <4>1. edge[1] = s /\ edge[2] = o /\ s # NoState
          BY <3>1, TaskAssumption
        <4>2. cur = Successor(s, o)
          BY <1>2, <4>1
        <4> QED BY <1>3, <4>2 DEF Settled
      <3>2. CASE edge # <<s, o>>
        BY <1>1, <2>2, <3>2 DEF Underway
      <3> QED BY <3>1, <3>2
    <2> QED BY <2>1, <2>2
  <1>9. OpenWait'
    BY <1>2, <1>3 DEF OpenWait
  <1> QED BY <1>1, <1>5, <1>6, <1>7, <1>8, <1>9, ExplorationStep DEF IInv, EngineInv

\* The edge of the state that is closed is settled, and its operators are underway.
LEMMA LazyExpandExplores ==
    ASSUME IInv, IInv', Exploration, LazyExpand, Exploring'
    PROVE  Exploration'
  <1>1. /\ cfg.kind = "lazy" /\ status = "in_progress" /\ todo = {} /\ edge # <<>>
        /\ node[cur].status = "new" \/ Reopens
        /\ UNCHANGED <<cfg, bound, h, cur>>
    BY DEF LazyExpand, Stepping
  <1>2. /\ Holds(cfg.lists, open, OpenEdges)
        /\ node \in [State -> NodeType] /\ cur \in State
        /\ \A s \in State : node[s].status # "open"
        /\ \A s \in State : Opened(s) => node[s].g \in Nat
        /\ \/ HStar[initial] >= INF
           \/ Opened(initial) /\ node[initial].g = 0
           \/ edge = <<NoState, NoOp>> /\ node[initial].status = "new"
        /\ \/ edge = <<NoState, NoOp>> /\ cur = initial /\ current_g = 0
              /\ edge[1] = NoState
           \/ /\ edge \in OpenEdges /\ edge[1] \in State /\ edge[1] # NoState
              /\ edge[2] \in Applicable(edge[1]) /\ Known(edge[1])
              /\ cur = Successor(edge[1], edge[2])
              /\ current_g = node[edge[1]].g + adj(edge[2]) /\ current_g \in Nat
              /\ cfg.cost_type = "normal" => adj(edge[2]) = Cost[edge[2]]
    BY <1>1, LazyExplores
  <1>3. /\ ~IsGoal(cur) /\ status' = status
        /\ todo' = Applicable(cur) /\ edge' = <<>>
        /\ open' = open \/ open' = Rewarded(cur, open)
    BY <1>1 DEF LazyExpand, StepReturns, Exploring
  <1>4. /\ node'[cur].status = "closed" /\ node'[cur].g = current_g
        /\ \A u \in State : u # cur => node'[u] = node[u]
    <2>1. CASE cur = initial /\ current_g = 0 /\ edge[1] = NoState
      <3>1. node' = Close(open_initial(node), initial)
        BY <2>1 DEF LazyExpand
      <3> QED BY <1>2, <2>1, <3>1, InitialFacts
    <2>2. CASE edge[1] # NoState /\ current_g = node[edge[1]].g + adj(edge[2])
      <3>1. node' = Close(OpenNode(cur, edge[1], edge[2]), cur)
        BY <2>2 DEF LazyExpand
      <3> QED BY <1>2, <2>2, <3>1, WayFacts
    <2> QED BY <1>2, <2>1, <2>2
  <1>5. Opened(cur) => current_g <= node[cur].g
    <2>1. Opened(cur) => Reopens
      BY <1>1 DEF Opened
    <2>2. Opened(cur) => node[cur].g \in Nat
      BY <1>2
    <2>3. current_g \in Nat
      BY <1>2
    <2> QED BY <2>1, <2>2, <2>3 DEF Reopens
  <1>6. Later
    <2> SUFFICES ASSUME NEW t \in State
                 PROVE  /\ node[t].status = "dead_end" => node'[t].status = "dead_end"
                        /\ Opened(t) => \/ node'[t].status = "dead_end"
                                        \/ Opened(t)' /\ node'[t].g <= node[t].g
      BY DEF Later
    <2>1. CASE t = cur
      <3>1. node[cur].status # "dead_end"
        BY <1>1 DEF Reopens
      <3> QED BY <1>4, <1>5, <2>1, <3>1 DEF Opened
    <2>2. CASE t # cur
      BY <1>2, <1>4, <2>2 DEF Opened
    <2> QED BY <2>1, <2>2
  <1>7. DeadEndsRight'
    BY <1>4 DEF Exploration, DeadEndsRight
  <1>8. Begun'
    <2>1. CASE HStar[initial] >= INF
      BY <2>1 DEF Begun
    <2>2. CASE Opened(initial) /\ node[initial].g = 0
      BY <1>6, <1>7, <2>2, BegunStays DEF IInv, EngineInv
    <2>3. CASE edge = <<NoState, NoOp>>
      <3>1. edge[1] = NoState
        BY <2>3
      <3>2. cur = initial /\ current_g = 0
        BY <1>2, <3>1
      <3> QED BY <1>4, <3>2 DEF Begun, Opened
    <2> QED BY <1>2, <2>1, <2>2, <2>3
  <1>9. \A r : In(cfg.lists, open, r) => In(cfg.lists, open', r)
    <2>1. \A r : In(cfg.lists, Rewarded(cur, open), r) <=> In(cfg.lists, open, r)
      BY <1>2, RewardedIn
    <2> QED BY <1>3, <2>1
  <1>10. \A s \in State : ClosedStep(s)
    <2> SUFFICES ASSUME NEW s \in State, node'[s].status = "closed" PROVE ClosedStep(s)
      BY DEF ClosedStep
    <2>1. CASE s = cur
      BY <1>1, <1>3, <2>1 DEF ClosedStep, IsGoal, Underway
    <2>2. CASE s # cur
      <3>1. node'[s] = node[s]
        BY <1>4, <2>2
      <3>2. ASSUME NEW o \in Applicable(s), Underway(s, o)
            PROVE  Settled(s, o)' \/ Underway(s, o)'
        <4>1. CASE edge = <<s, o>>
          <5>1. edge[1] = s /\ edge[2] = o /\ s # NoState
            BY <4>1, TaskAssumption
          <5>2. /\ cur = Successor(s, o) /\ current_g = node[s].g + adj(o)
                /\ cfg.cost_type = "normal" => adj(o) = Cost[o]
                /\ current_g \in Nat
            BY <1>2, <5>1
          <5>3. Opened(cur)' /\ (Reopening => node'[cur].g <= node'[s].g + Cost[o])
            BY <1>1, <1>4, <3>1, <5>2 DEF Opened, Reopening
          <5> QED BY <1>1, <5>2, <5>3 DEF Settled, Reopening
        <4>2. CASE edge # <<s, o>>
          BY <1>1, <1>9, <2>2, <3>2, <4>2 DEF Underway
        <4> QED BY <4>1, <4>2
      <3> QED BY <3>1, <3>2 DEF ClosedStep
    <2> QED BY <2>1, <2>2
  <1>11. OpenWait'
    BY <1>2, <1>4 DEF OpenWait
  <1> QED BY <1>1, <1>3, <1>6, <1>7, <1>8, <1>10, <1>11, ExplorationStep DEF IInv, EngineInv

\* An operator goes into the open list as an edge, or is settled by the bound.
LEMMA LazyGenerateExplores ==
    ASSUME IInv, IInv', Configured, NoOverflow, Trusted, Exploration, LazyGenerate,
           Reopening \/ bound = INF
    PROVE  Exploration'
  <1>1. /\ cfg.kind = "lazy" /\ status = "in_progress"
        /\ UNCHANGED <<node, cfg, bound, h, status, cur, edge>>
    BY DEF LazyGenerate
  <1>2. /\ Holds(cfg.lists, open, OpenEdges) /\ cur \in State
        /\ \A s \in State : node[s].status # "open"
        /\ \A s \in State : Opened(s) => node[s].g \in Nat
    BY <1>1, LazyExplores
  <1>3. PICK o \in todo :
          /\ todo' = todo \ {o}
          /\ open' = IF node[cur].real_g + Cost[o] < bound
                     THEN Insert(cfg.lists, open,
                                 Eval(cur, node[cur].g + adj(o), o \in preferred_operators(cur)),
                                 <<cur, o>>)
                     ELSE open
    BY DEF LazyGenerate
  <1>p. PICK pref \in BOOLEAN : pref = (o \in preferred_operators(cur))
    <2>1. (o \in preferred_operators(cur)) \in BOOLEAN
      OBVIOUS
    <2> QED BY <2>1, Zenon
  <1>c. PICK ctx : ctx = Eval(cur, node[cur].g + adj(o), pref)
    OBVIOUS
  <1>4. /\ Known(cur) /\ o \in Applicable(cur) /\ o \in Op
    BY <1>1, <1>2, <1>3, SuccessorFacts DEF IInv, EngineInv, Expanding, Expanded
  <1>5. /\ Cost[o] \in Nat /\ adj(o) \in Nat /\ node[cur].g \in Nat /\ node[cur].real_g \in Nat
        /\ cfg.cost_type = "normal" => node[cur].real_g = node[cur].g
    <2>1. Cost[o] \in Nat /\ adj(o) \in Nat
      BY <1>4, AdjustedFacts DEF adj, IInv, EngineInv, SpaceOK
    <2> QED BY <1>4, <2>1 DEF Known, HasWay
  <1>6. ctx.g = node[cur].g + adj(o) /\ ctx.g \in Nat /\ ctx.h[1] \in Nat
    BY <1>2, <1>5, <1>c, ContextFacts
  <1>7. ListsOK(cfg.lists) /\ ~IsAStar
    BY <1>1 DEF Configured, IsAStar
  <1>8. PICK e : e = <<cur, o>>
    OBVIOUS
  <1>9. \A r : In(cfg.lists, open, r) => In(cfg.lists, open', r)
    <2>1. CASE open' = open
      BY <2>1
    <2>2. CASE open' = Insert(cfg.lists, open, ctx, e)
      BY <1>2, <2>2, InsertIn
    <2> QED BY <1>3, <1>8, <1>c, <1>p, <2>1, <2>2
  <1>10. Settled(cur, o) \/ \E r : In(cfg.lists, open', r) /\ r.entry = <<cur, o>>
    <2>1. CASE ~(node[cur].real_g + Cost[o] < bound)
      <3>1. node[cur].real_g + Cost[o] >= bound
        BY <1>5, <2>1 DEF IInv, EngineInv, SpaceOK
      <3>2. CASE Reopening
        <4>1. node[cur].g + Cost[o] >= bound
          BY <1>5, <3>1, <3>2 DEF Reopening
        <4> QED BY <3>2, <4>1 DEF Settled
      <3>3. CASE bound = INF
        <4>1. node[cur].g >= 0
          BY <1>5
        <4>2. node[cur].real_g + Cost[o] < INF
          BY <1>2, <1>4, <4>1 DEF NoOverflow
        <4> QED BY <2>1, <3>3, <4>2
      <3> QED BY <3>2, <3>3
    <2>2. CASE node[cur].real_g + Cost[o] < bound
      <3>1. open' = Insert(cfg.lists, open, ctx, e)
        BY <1>3, <1>8, <1>c, <1>p, <2>2
      <3>2. CASE IsDeadEnd(cfg.lists, ctx)
        <4>1. node[cur].g >= 0
          BY <1>5
        <4>2. Finite(cur, node[cur].g + adj(o))
          BY <1>2, <1>4, <4>1 DEF NoOverflow
        <4>3. HStar[cur] >= INF
          BY <1>2, <1>c, <3>2, <4>2, DeadEndNow
        <4> QED BY <4>3 DEF Settled
      <3>3. CASE ~IsDeadEnd(cfg.lists, ctx)
        <4>1. \E r : In(cfg.lists, open', r) /\ r.entry = e
          BY <1>2, <1>6, <1>7, <3>1, <3>3, NewEntry
        <4> QED BY <1>8, <4>1
      <3> QED BY <3>2, <3>3
    <2> QED BY <2>1, <2>2
  <1>11. \A s \in State : ClosedStep(s)
    <2> SUFFICES ASSUME NEW s \in State, node[s].status = "closed",
                        NEW p \in Applicable(s), Underway(s, p)
                 PROVE  Settled(s, p)' \/ Underway(s, p)'
      BY <1>1 DEF ClosedStep
    <2>1. CASE s = cur /\ p = o
      <3>1. Settled(cur, o) => Settled(cur, o)'
        BY <1>1 DEF Settled, Opened, Reopening
      <3> QED BY <1>1, <1>10, <2>1, <3>1 DEF Underway
    <2>2. CASE ~(s = cur /\ p = o)
      BY <1>1, <1>3, <1>9, <2>2 DEF Underway
    <2> QED BY <2>1, <2>2
  <1>12. Later /\ DeadEndsRight' /\ Begun' /\ OpenWait'
    BY <1>1, <1>2 DEF Later, Exploration, DeadEndsRight, Begun, OpenWait, Opened
  <1> QED BY <1>1, <1>11, <1>12, ExplorationStep DEF IInv, EngineInv

\* The next edge is still underway when it has left the open list.
LEMMA LazyFetchExplores ==
    ASSUME IInv, IInv', Exploration, LazyFetch
    PROVE  Exploration'
  <1>1. /\ cfg.kind = "lazy" /\ status = "in_progress" /\ todo = {} /\ edge = <<>>
        /\ UNCHANGED <<node, cfg, bound, h, todo>>
        /\ status' \in {"in_progress", "timeout"}
    BY DEF LazyFetch, Stepping, StepReturns
  <1>2. /\ Holds(cfg.lists, open, OpenEdges)
        /\ \A s \in State : node[s].status # "open"
        /\ \A s \in State : Opened(s) => node[s].g \in Nat
        /\ \/ HStar[initial] >= INF
           \/ Opened(initial) /\ node[initial].g = 0
           \/ edge = <<NoState, NoOp>>
    BY <1>1, LazyExplores
  <1>3. PICK pos \in MinPositions(cfg.lists, open) :
           edge' = EntryAt(open, pos) /\ open' = RemoveMin(open, pos)
    BY DEF LazyFetch
  <1>4. \A r : In(cfg.lists, open, r) /\ r.entry # edge' => In(cfg.lists, open', r)
    BY <1>2, <1>3, RemoveIn
  <1>5. \A s \in State : ClosedStep(s)
    <2> SUFFICES ASSUME NEW s \in State, NEW p \in Applicable(s), Underway(s, p)
                 PROVE  Underway(s, p)'
      BY <1>1 DEF ClosedStep
    <2>1. edge # <<s, p>>
      BY <1>1
    <2> QED BY <1>1, <1>4, <2>1 DEF Underway
  <1>6. HStar[initial] >= INF \/ (Opened(initial) /\ node[initial].g = 0)
    BY <1>1, <1>2
  <1>7. Later /\ DeadEndsRight' /\ Begun' /\ OpenWait'
    BY <1>1, <1>2, <1>6 DEF Later, Exploration, DeadEndsRight, Begun, OpenWait, Opened
  <1> QED BY <1>1, <1>5, <1>7, ExplorationStep DEF IInv, EngineInv

\* Lazy search fails with an empty open list.
LEMMA LazyExhaustedExplores ==
    ASSUME IInv, Exploration, LazyExhausted
    PROVE  Exploration'
  <1>1. /\ UNCHANGED <<node, cfg, bound, h, open, cur, edge, todo>>
        /\ cfg.kind = "lazy" /\ status = "in_progress" /\ todo = {} /\ IsEmpty(open)
        /\ edge = <<>> /\ status' \in {"failed", "timeout"}
    BY DEF LazyExhausted, Stepping, StepReturns
  <1>2. open.q = [i \in DOMAIN cfg.lists |-> open.q[i]]
    BY <1>1 DEF IInv, EngineInv, Frontier, Holds
  <1>3. \A r : ~In(cfg.lists, open, r)
    BY <1>1, <1>2, EmptyIn
  <1>4. /\ Begun' /\ DeadEndsRight' /\ NoGoalClosed'
    BY <1>1 DEF Exploration, Begun, Opened, DeadEndsRight, NoGoalClosed
  <1>5. OperatorsSettled'
    BY <1>1 DEF Exploration, OperatorsSettled, Settled, Opened, Reopening, Underway
  <1>6. OpenWait'
    BY <1>1 DEF Exploration, OpenWait
  <1> QED BY <1>1, <1>3, <1>4, <1>5, <1>6 DEF Exploration, Untouched, Exhausted

-----------------------------------------------------------------------------
(* The explorations of the iterated search.                                *)

\* The searches about whose explorations there is something to say.
Explores ==
    cfg.kind \in {"eager", "lazy"} /\ (Reopening \/ bound = INF) /\ Trusted

\* Those explorations are right.
Explored == Explores /\ Exploring => Exploration

\* The first search is configured.
LEMMA InitConfigured == Init => Configured
  <1> SUFFICES ASSUME Init PROVE Configured
    OBVIOUS
  <1>1. /\ portfolio \in Portfolios /\ h \in Heuristics /\ cfg = portfolio.engine_configs[1]
        /\ bound = INF /\ best_bound = portfolio.bound /\ INF \in Nat
    BY TaskAssumption DEF Init
  <1>2. /\ portfolio.bound \in 0..INF /\ 1 \in 1..Len(portfolio.engine_configs)
        /\ \A i \in 1..Len(portfolio.engine_configs) : ListsOK(portfolio.engine_configs[i].lists)
    BY <1>1, PortfolioAssumption
  <1>3. /\ h \in Seq([State -> 0..INF]) /\ h # <<>>
        /\ \A i \in 1..Len(portfolio.engine_configs) :
              \A e \in Evaluators(portfolio.engine_configs[i].lists) : e.h \in DOMAIN h
    BY <1>1, HeuristicsAssumption
  <1>4. 1 \in DOMAIN h
    BY <1>3
  <1>5. \A i \in DOMAIN h : h[i] \in [State -> 0..INF]
    BY <1>3
  <1>6. h \in Seq([State -> Nat])
    <2>1. [State -> 0..INF] \subseteq [State -> Nat]
      BY <1>1
    <2>2. \A i \in DOMAIN h : h[i] \in [State -> Nat]
      BY <1>5, <2>1
    <2>3. DOMAIN h = 1..Len(h) /\ Len(h) \in Nat
      BY <1>3
    <2>4. h = [i \in 1..Len(h) |-> h[i]]
      BY <1>3
    <2> QED BY <2>2, <2>3, <2>4
  <1>7. \A i \in DOMAIN h, s \in State : h[i][s] <= INF
    BY <1>1, <1>5
  <1> QED BY <1>1, <1>2, <1>3, <1>4, <1>6, <1>7 DEF Configured

\* Every search is configured.
LEMMA ConfiguredStep == IInv /\ Configured /\ [Next]_vars => Configured'
  <1> SUFFICES ASSUME IInv, Configured, [Next]_vars PROVE Configured'
    OBVIOUS
  <1>1. CASE Search
    BY <1>1, EstimatesStep
  <1>2. CASE StartPhase
    <2>1. /\ cfg' = current_phase /\ bound' \in {best_bound, INF}
          /\ UNCHANGED <<h, portfolio, best_bound>>
      BY <1>2 DEF StartPhase, EngineStarts
    <2>2. PICK i \in 1..Len(portfolio.engine_configs) : current_phase = portfolio.engine_configs[i]
      <3>1. num_phases \in Nat \ {0} /\ phase \in Nat
        BY PortfolioAssumption DEF IInv, PortfolioOK, num_phases
      <3> DEFINE j == IF phase < num_phases THEN phase + 1 ELSE num_phases
      <3>2. j \in 1..num_phases /\ current_phase = portfolio.engine_configs[j]
        BY <3>1 DEF current_phase
      <3> QED BY <3>2 DEF num_phases
    <2>3. ListsOK(cfg'.lists)
      BY <2>1, <2>2, PortfolioAssumption DEF IInv, PortfolioOK
    <2>4. \A e \in Evaluators(cfg'.lists) : e.h \in DOMAIN h
      BY <2>1, <2>2 DEF Configured
    <2>5. bound' \in 0..INF
      BY <2>1, TaskAssumption DEF Configured
    <2> QED BY <2>1, <2>3, <2>4, <2>5 DEF Configured
  <1>3. CASE NoPhaseLeft \/ Exit \/ PhaseEnds \/ StepReturned \/ Kill
    <2>1. UNCHANGED <<engineVars, h, portfolio, best_bound>>
      BY <1>3 DEF NoPhaseLeft, Exit, PhaseEnds, StepReturned, Kill
    <2> QED BY <2>1 DEF engineVars, Configured
  <1>4. CASE SavePlan
    <2>1. UNCHANGED <<engineVars, h, portfolio>> /\ best_bound' \in 0..best_bound
      BY <1>4 DEF SavePlan
    <2>2. best_bound' \in 0..INF
      BY <2>1, TaskAssumption DEF Configured
    <2> QED BY <2>1, <2>2 DEF engineVars, Configured
  <1>5. CASE UNCHANGED vars
    BY <1>5 DEF vars, Configured
  <1> QED BY <1>1, <1>2, <1>3, <1>4, <1>5 DEF Next, Steps

\* The first search has nothing to explore yet.
LEMMA InitExplored == Init => Explored
  BY DEF Init, Explored, Exploring

\* Every step of an engine goes on with the exploration.
LEMMA SearchExplores ==
    ASSUME IInv, IInv', Configured, Configured', NoOverflow, NoOverflow', Explored, Search
    PROVE  Explored'
  <1> SUFFICES ASSUME Explores', Exploring' PROVE Exploration'
    BY DEF Explored
  <1>1. Grown /\ UNCHANGED <<cfg, bound>>
    BY EstimatesStep
  <1>2. /\ cfg.kind \in {"eager", "lazy"} /\ Trusted
        /\ Reopening \/ bound = INF
    BY <1>1, TrustedBefore DEF Explores, Reopening
  <1>3. CASE EagerNext
    <2>1. status \in {"initialize", "in_progress"}
      BY <1>3 DEF EagerNext, EagerInitialize, EagerExhausted, EagerPop, Popping, Generate
    <2>2. Exploration
      BY <1>2, <2>1 DEF Explored, Explores, Exploring
    <2>4. Trusted'
      BY DEF Explores
    <2>3. CASE EagerPop
      <3>1. PICK pos \in MinPositions(cfg.lists, open) :
               PopStale(pos) \/ PopReevaluated(pos) \/ PopExpand(pos)
        BY <2>3 DEF EagerPop
      <3> QED BY <2>2, <2>3, <2>4, <3>1, PopStaleExplores, PopReevaluatedExplores,
                 PopExpandExplores
    <2> QED BY <1>2, <1>3, <2>2, <2>3, <2>4, EagerInitializeExplores, EagerExhaustedExplores,
               GenerateExplores DEF EagerNext
  <1>4. CASE LazyNext
    <2>1. status \in {"initialize", "in_progress"}
      BY <1>4 DEF LazyNext, LazyInitialize, LazyKnown, LazyDeadEnd, LazyExpand,
         LazyGenerate, LazyFetch, LazyExhausted, Stepping
    <2>2. Exploration
      BY <1>2, <2>1 DEF Explored, Explores, Exploring
    <2> QED BY <1>2, <1>4, <2>2, LazyInitializeExplores, LazyKnownExplores,
               LazyDeadEndExplores, LazyExpandExplores, LazyGenerateExplores,
               LazyFetchExplores, LazyExhaustedExplores DEF LazyNext
  <1>5. CASE HillNext
    BY <1>2, <1>5 DEF HillNext, HillInitialize, HillStep, HillInsert, HillTake,
       HillImprove, HillFails, Climbing
  <1> QED BY <1>3, <1>4, <1>5 DEF Search

\* So does every step of the iterated search: a new phase starts a new exploration.
LEMMA ExploredStep ==
    /\ IInv /\ IInv' /\ Configured /\ Configured' /\ NoOverflow /\ NoOverflow'
    /\ Explored /\ [Next]_vars
    => Explored'
  <1> SUFFICES ASSUME IInv, IInv', Configured, Configured', NoOverflow, NoOverflow',
                      Explored, [Next]_vars
               PROVE  Explored'
    OBVIOUS
  <1>1. CASE Search
    BY <1>1, SearchExplores
  <1>2. CASE StartPhase
    <2>1. /\ node' = [s \in State |-> NewNode] /\ status' = "initialize"
      BY <1>2 DEF StartPhase, EngineStarts
    <2>2. \A s \in State : node'[s].status = "new"
      BY <2>1 DEF NewNode
    <2> QED BY <2>1, <2>2 DEF Explored, Exploration, Begun, Untouched, DeadEndsRight,
              NoGoalClosed, OperatorsSettled, OpenWait, Exhausted
  <1>3. CASE NoPhaseLeft \/ Exit \/ PhaseEnds \/ SavePlan \/ StepReturned \/ Kill \/ UNCHANGED vars
    <2>1. UNCHANGED <<node, cfg, bound, h, open, status, cur, edge, todo>>
      BY <1>3 DEF NoPhaseLeft, Exit, PhaseEnds, SavePlan, StepReturned, Kill, vars, engineVars
    <2>2. Explores' = Explores /\ Exploring' = Exploring
      BY <2>1 DEF Explores, Reopening, Trusted, Exploring
    <2>3. ASSUME Exploration PROVE Exploration'
      <3>1. /\ Begun' /\ Untouched' /\ DeadEndsRight' /\ NoGoalClosed' /\ Exhausted'
        BY <2>1, <2>3 DEF Exploration, Begun, Opened, Untouched, DeadEndsRight, NoGoalClosed,
           Exhausted
      <3>2. \A s \in State : \A o \in Applicable(s) :
               (Settled(s, o) => Settled(s, o)') /\ (Underway(s, o) => Underway(s, o)')
        BY <2>1 DEF Settled, Opened, Reopening, Underway
      <3>3. OperatorsSettled'
        BY <2>1, <2>3, <3>2 DEF Exploration, OperatorsSettled
      <3>4. OpenWait'
        BY <2>1, <2>3 DEF Exploration, OpenWait, Waits, IsAStar
      <3> QED BY <3>1, <3>3, <3>4 DEF Exploration
    <2> QED BY <2>2, <2>3 DEF Explored
  <1> QED BY <1>1, <1>2, <1>3 DEF Next, Steps

\* The explorations are right in every behaviour without overflow.
LEMMA ExploredInvariant ==
    Spec /\ []NoOverflow => [](IInv /\ Solved /\ Configured /\ Explored)
  <1>1. Spec => [](IInv /\ Configured)
    BY InitIInv, IInvStep, InitConfigured, ConfiguredStep, PTL DEF Spec
  <1> QED BY <1>1, PlansInvariant, InitExplored, ExploredStep, PTL DEF Spec

-----------------------------------------------------------------------------
(* A search that has explored everything was right to fail.                *)

\* Safe or admissible estimates are right about dead ends.
LEMMA TrustedFacts ==
    ASSUME Configured
    PROVE  /\ Safe => Trusted
           /\ IsAStar /\ Admissible => Trusted
  <1>1. INF \in Nat
    BY TaskAssumption
  <1>2. \A i \in DOMAIN h : h[i] \in [State -> Nat]
    BY DEF Configured
  <1>3. ASSUME Safe, NEW e \in Evaluators(cfg.lists), NEW s \in State, h[e.h][s] >= INF
        PROVE  HStar[s] >= INF
    <2>1. e.h \in DOMAIN h /\ (h[e.h][s] <= INF \/ h[e.h][s] <= HStar[s])
      BY DEF Configured
    <2>2. h[e.h][s] \in Nat
      BY <1>2, <2>1
    <2>3. HStar[s] \in Nat
      BY HStarFacts
    <2>4. h[e.h][s] = INF => HStar[s] = INF
      BY <1>3, <2>1 DEF Safe
    <2> QED BY <1>1, <1>3, <2>1, <2>2, <2>3, <2>4
  <1>4. ASSUME IsAStar, Admissible, NEW e \in Evaluators(cfg.lists), NEW s \in State,
               h[e.h][s] >= INF
        PROVE  HStar[s] >= INF
    <2>1. e.h = 1 /\ 1 \in DOMAIN h
      BY <1>4, AStarFacts DEF IsAStar, Configured
    <2>2. h[1][s] \in Nat
      BY <1>2, <2>1
    <2>3. HStar[s] \in Nat
      BY HStarFacts
    <2>4. h[1][s] <= HStar[s]
      BY <1>4 DEF Admissible
    <2> QED BY <1>1, <1>4, <2>1, <2>2, <2>3, <2>4
  <1> QED BY <1>3, <1>4 DEF Trusted

\* Best-first search that fails has explored all there is below its bound.
THEOREM FailedMeansNoPlanThm == Spec /\ []NoOverflow => []FailedMeansNoPlan
  <1>1. ASSUME IInv, Configured, Explored PROVE FailedMeansNoPlan
    <2> SUFFICES ASSUME cfg.kind \in {"eager", "lazy"}, status = "failed", Safe,
                        Reopening \/ bound = INF, HStar[initial] < bound
                 PROVE  FALSE
      <3>1. HStar[initial] \in Nat /\ bound \in Nat
        <4>1. HStar[initial] \in Nat
          BY HStarFacts, TaskAssumption
        <4> QED BY <1>1, <4>1 DEF IInv, EngineInv, SpaceOK
      <3> QED BY <3>1 DEF FailedMeansNoPlan, Reopening
    <2>1. Exploration
      BY <1>1, TrustedFacts DEF Explored, Explores, Exploring
    <2>2. todo = {} /\ (\A r : ~In(cfg.lists, open, r)) /\ (cfg.kind = "lazy" => edge = <<>>)
      BY <2>1 DEF Exploration, Exhausted
    <2>3. \A s \in State : \A o \in Applicable(s) : ~Underway(s, o)
      <3>1. \A s, o : <<s, o>> # <<>>
        OBVIOUS
      <3> QED BY <2>2, <3>1 DEF Underway
    <2>4. bound \in 0..INF /\ INF \in Nat /\ SpaceOK
      BY <1>1, TaskAssumption DEF Configured, IInv, EngineInv
    <2>5. ~(HStar[initial] >= INF)
      <3>1. HStar[initial] \in Nat
        BY HStarFacts, TaskAssumption
      <3> QED BY <2>4, <3>1
    <2>6. Opened(initial) /\ node[initial].g = 0
      <3>1. <<NoState, NoOp>> # <<>>
        OBVIOUS
      <3> QED BY <2>1, <2>2, <2>5, <3>1 DEF Exploration, Begun
    <2>7. DeadEndsRight /\ NoGoalClosed
      BY <2>1 DEF Exploration
    <2>8. \A s \in State : node[s].status = "closed" => \A o \in Applicable(s) : Settled(s, o)
      BY <2>1, <2>3 DEF Exploration, OperatorsSettled
    <2>9. PICK s \in State : node[s].status = "open" /\ HStar[s] <= HStar[initial]
      BY <2>4, <2>6, <2>7, <2>8, WayOut
    <2>10. HStar[s] >= INF
      BY <2>1, <2>2, <2>9 DEF Exploration, OpenWait, Waits
    <2>11. HStar[s] \in Nat /\ HStar[initial] \in Nat
      BY <2>9, HStarFacts, TaskAssumption
    <2> QED BY <2>4, <2>9, <2>10, <2>11
  <1> QED BY <1>1, ExploredInvariant, PTL

-----------------------------------------------------------------------------
(* The keys of A*.                                                         *)

\* An entry's f is at least the g of its state, which only decreases.
KeysOK ==
    IsAStar =>
        \A r : In(cfg.lists, open, r) =>
            /\ r.entry \in State /\ Known(r.entry) /\ DOMAIN r.key = 1..2
            /\ r.key[1] \in Int /\ node[r.entry].g <= r.key[1]

\* Entries that a step adds.
KeyNow(r, s) ==
    /\ r.entry = s /\ s \in State /\ Known(s)' /\ DOMAIN r.key = 1..2
    /\ \E k \in Nat : r.key[1] = node'[s].g + k

\* The keys are right after a step that makes nodes cheaper and adds right keys.
LEMMA KeysStay ==
    ASSUME KeysOK, UNCHANGED cfg,
           IsAStar => Cheapens(cfg.cost_type, node, node'),
           IsAStar => \A r : In(cfg.lists, open', r) =>
                                In(cfg.lists, open, r) \/ \E s : KeyNow(r, s)
    PROVE  KeysOK'
  <1> SUFFICES ASSUME IsAStar, NEW r, In(cfg.lists, open', r)
               PROVE  /\ r.entry \in State /\ Known(r.entry)' /\ DOMAIN r.key = 1..2
                      /\ r.key[1] \in Int /\ node'[r.entry].g <= r.key[1]
    BY DEF KeysOK, IsAStar
  <1>1. CASE In(cfg.lists, open, r)
    <2>1. /\ r.entry \in State /\ Known(r.entry) /\ DOMAIN r.key = 1..2
          /\ r.key[1] \in Int /\ node[r.entry].g <= r.key[1]
      BY <1>1 DEF KeysOK
    <2>2. Known(r.entry)' /\ node'[r.entry].g <= node[r.entry].g
      BY <2>1 DEF Known, Cheapens
    <2>3. node[r.entry].g \in Nat /\ node'[r.entry].g \in Nat
      BY <2>1, <2>2 DEF Known, HasWay
    <2> QED BY <2>1, <2>2, <2>3
  <1>2. CASE \E s : KeyNow(r, s)
    <2>1. PICK s : KeyNow(r, s)
      BY <1>2
    <2>2. PICK k \in Nat : r.key[1] = node'[s].g + k
      BY <2>1 DEF KeyNow
    <2>3. node'[s].g \in Nat
      BY <2>1 DEF KeyNow, Known, HasWay
    <2> QED BY <2>1, <2>2, <2>3 DEF KeyNow
  <1> QED BY <1>1, <1>2

\* What an insertion adds.
LEMMA InsertKeys ==
    ASSUME IsAStar, Configured, NEW lst, NEW E, Holds(cfg.lists, lst, E), NEW ctx,
           NEW s \in State, Known(s)', ctx.g = node'[s].g, ctx.h[1] \in Nat
    PROVE  \A r : In(cfg.lists, Insert(cfg.lists, lst, ctx, s), r) =>
                     In(cfg.lists, lst, r) \/ KeyNow(r, s)
  <1>1. ListsOK(cfg.lists) /\ cfg.lists = AStarLists /\ ctx.g \in Nat
    BY DEF Configured, IsAStar, Known, HasWay
  <1>2. \A r : In(cfg.lists, Insert(cfg.lists, lst, ctx, s), r) =>
           \/ In(cfg.lists, lst, r)
           \/ /\ r.entry = s
              /\ IsAStar => DOMAIN r.key = 1..2 /\ r.key[1] = ctx.g + ctx.h[1]
    BY <1>1, NewEntry
  <1> QED BY <1>2 DEF KeyNow

\* Taking an entry, or putting it back with a better estimate.
LEMMA PopKeys ==
    ASSUME IInv, IInv', Configured, Configured', KeysOK, IsAStar, EagerPop
    PROVE  KeysOK'
  <1>1. cfg.kind = "eager" /\ EngineInv /\ Holds(cfg.lists, open, OpenStates)
        /\ UNCHANGED <<cfg, bound>>
    BY DEF EagerPop, Popping, IInv, EngineInv, Frontier, PopStale, PopReevaluated, PopExpand
  <1>2. PICK pos \in MinPositions(cfg.lists, open) :
           PopStale(pos) \/ PopReevaluated(pos) \/ PopExpand(pos)
    BY DEF EagerPop
  <1>s. PICK s, rest : s = EntryAt(open, pos) /\ rest = RemoveMin(open, pos)
    OBVIOUS
  <1>3. /\ Holds(cfg.lists, rest, OpenStates)
        /\ \A r : In(cfg.lists, rest, r) => In(cfg.lists, open, r)
    BY <1>1, <1>s, RemoveHolds, RemoveIn
  <1>4. CASE PopStale(pos)
    <2>1. open' = rest /\ UNCHANGED node
      BY <1>s, <1>4 DEF PopStale
    <2>2. Cheapens(cfg.cost_type, node, node')
      BY <1>1, <2>1, SameSpace DEF EngineInv
    <2> QED BY <1>1, <1>3, <2>1, <2>2, KeysStay
  <1>5. CASE PopReevaluated(pos)
    <2>1. PICK v, ctx :
             /\ ~Stale(s) /\ Reevaluated(s, v)
             /\ ctx = Context(node[s].g, [Estimates(s) EXCEPT ![1] = v], FALSE)
             /\ \/ node' = mark_as_dead_end(s) /\ open' = rest
                \/ node' = node /\ open' = Insert(cfg.lists, rest, ctx, s)
      BY <1>s, <1>5 DEF PopReevaluated, NewContext
    <2>2. s \in State /\ Known(s)
      BY <1>1, <1>s, <2>1, PoppedIsOpen
    <2>3. CASE node' = mark_as_dead_end(s) /\ open' = rest
      <3>1. Marks(cfg.cost_type, node, node', s, "dead_end")
        BY <2>2, <2>3 DEF Marks, mark_as_dead_end
      <3>2. Cheapens(cfg.cost_type, node, node')
        BY <1>1, <3>1, MarksStep DEF EngineInv
      <3> QED BY <1>1, <1>3, <2>3, <3>2, KeysStay
    <2>4. CASE node' = node /\ open' = Insert(cfg.lists, rest, ctx, s)
      <3>1. Cheapens(cfg.cost_type, node, node')
        BY <1>1, <2>4, SameSpace DEF EngineInv
      <3>2. ctx.g = node'[s].g /\ Known(s)'
        BY <1>1, <2>1, <2>2, <2>4 DEF Context, Known
      <3>3. ctx.h[1] \in Nat
        <4>1. ctx.h = Estimates(s)'
          BY <2>1, <2>2, Reestimates DEF Context
        <4>2. h'[1] \in [State -> Nat] /\ 1 \in DOMAIN h'
          BY DEF Configured
        <4> QED BY <2>2, <4>1, <4>2 DEF Estimates
      <3>4. \A r : In(cfg.lists, open', r) => In(cfg.lists, rest, r) \/ KeyNow(r, s)
        BY <1>3, <2>2, <2>4, <3>2, <3>3, InsertKeys
      <3> QED BY <1>1, <1>3, <3>1, <3>4, KeysStay
    <2> QED BY <2>1, <2>3, <2>4
  <1>6. CASE PopExpand(pos)
    <2>1. ~Stale(s) /\ open' = rest /\ node' = Close(node, s)
      BY <1>s, <1>6 DEF PopExpand
    <2>2. s \in State /\ node[s].status = "open" /\ Known(s)
      BY <1>1, <1>s, <2>1, PoppedIsOpen
    <2>3. Marks(cfg.cost_type, node, node', s, "closed")
      BY <2>1, <2>2 DEF Marks, Close, Known
    <2>4. Cheapens(cfg.cost_type, node, node')
      BY <1>1, <2>2, <2>3, MarksStep DEF EngineInv
    <2> QED BY <1>1, <1>3, <2>1, <2>4, KeysStay
  <1> QED BY <1>2, <1>4, <1>5, <1>6

\* Generating a successor.
LEMMA GenerateKeys ==
    ASSUME IInv, IInv', Configured, Configured', KeysOK, IsAStar, Generate
    PROVE  KeysOK'
  <1>1. /\ cfg.kind = "eager" /\ EngineInv /\ Holds(cfg.lists, open, OpenStates)
        /\ UNCHANGED <<cfg, bound, cur>> /\ node \in [State -> NodeType]
    BY DEF Generate, IInv, EngineInv, Frontier, SpaceOK, Sound
  <1>2. PICK o \in todo :
          CASE NotGenerated(cur, o) \/ node[Successor(cur, o)].status = "dead_end" ->
                    UNCHANGED <<node, open, best_h, h>>
            [] ~NotGenerated(cur, o) /\ node[Successor(cur, o)].status = "new" ->
                    GenerateNew(cur, o, Successor(cur, o))
            [] ~NotGenerated(cur, o)
                  /\ node[Successor(cur, o)].status \in {"open", "closed"} ->
                    IF Cheaper(Successor(cur, o), cur, o)
                    THEN GenerateCheaper(cur, o, Successor(cur, o))
                    ELSE UNCHANGED <<node, open, best_h, h>>
    BY DEF Generate
  <1>p. PICK pref \in BOOLEAN : pref = (o \in preferred_operators(cur))
    <2>1. (o \in preferred_operators(cur)) \in BOOLEAN
      OBVIOUS
    <2> QED BY <2>1, Zenon
  <1>t. PICK t : t = Successor(cur, o)
    OBVIOUS
  <1>3. cur \in State /\ Known(cur) /\ o \in Applicable(cur) /\ t \in State /\ o \in Op
    <2>1. cur \in State /\ Known(cur) /\ o \in Applicable(cur)
      BY <1>1, <1>2 DEF EngineInv, Expanding, Expanded
    <2> QED BY <1>t, <2>1, SuccessorFacts
  <1>4. node[t].status \in {"new", "open", "closed", "dead_end"} /\ cfg.reopen_closed
    BY <1>1, <1>3 DEF NodeType, IsAStar
  <1>5. \/ UNCHANGED <<node, open>>
        \/ node' = mark_as_dead_end(t) /\ open' = open /\ node[t].status = "new"
        \/ /\ node' = OpenNode(t, cur, o)
           /\ node[t].status = "new" \/ Cheaper(t, cur, o)
           /\ \E ctx : /\ ctx.g = node[cur].g + adj(o) /\ ctx.h[1] \in Nat
                       /\ \/ open' = Insert(cfg.lists, open, ctx, t)
                          \/ open' = Rewarded(t, Insert(cfg.lists, open, ctx, t))
    <2>1. \/ UNCHANGED <<node, open>>
          \/ node[t].status = "new" /\ GenerateNew(cur, o, t)
          \/ Cheaper(t, cur, o) /\ GenerateCheaper(cur, o, t)
      BY <1>2, <1>4, <1>t
    <2>2. CASE node[t].status = "new" /\ GenerateNew(cur, o, t)
      <3>1. PICK ctx : /\ ctx = Eval(t, node[cur].g + adj(o), pref)
                       /\ \/ node' = mark_as_dead_end(t) /\ open' = open
                          \/ /\ node' = OpenNode(t, cur, o)
                             /\ open' = Rewarded(t, Insert(cfg.lists, open, ctx, t))
        BY <1>p, <2>2 DEF GenerateNew
      <3>2. ctx.g = node[cur].g + adj(o) /\ ctx.h[1] \in Nat
        BY <1>3, <3>1, ContextFacts
      <3> QED BY <2>2, <3>1, <3>2
    <2>3. CASE Cheaper(t, cur, o) /\ GenerateCheaper(cur, o, t)
      <3>1. PICK v, ctx : /\ node' = OpenNode(t, cur, o) /\ Reevaluated(t, v)
                          /\ ctx = NewContext(t, v, node[cur].g + adj(o), pref)
                          /\ open' = Insert(cfg.lists, open, ctx, t)
        BY <1>4, <1>p, <2>3 DEF GenerateCheaper
      <3>2. ctx.g = node[cur].g + adj(o) /\ ctx.h[1] \in Nat
        BY <1>3, <3>1, NewContextFacts
      <3> QED BY <2>3, <3>1, <3>2
    <2> QED BY <2>1, <2>2, <2>3
  <1>6. CASE UNCHANGED <<node, open>>
    <2>1. Cheapens(cfg.cost_type, node, node')
      BY <1>1, <1>6, SameSpace DEF EngineInv
    <2> QED BY <1>1, <1>6, <2>1, KeysStay
  <1>7. CASE node' = mark_as_dead_end(t) /\ open' = open /\ node[t].status = "new"
    <2>1. Marks(cfg.cost_type, node, node', t, "dead_end")
      BY <1>3, <1>7 DEF Marks, mark_as_dead_end
    <2>2. Cheapens(cfg.cost_type, node, node')
      BY <1>1, <2>1, MarksStep DEF EngineInv
    <2> QED BY <1>1, <1>7, <2>2, KeysStay
  <1>8. CASE /\ node' = OpenNode(t, cur, o)
             /\ node[t].status = "new" \/ Cheaper(t, cur, o)
             /\ \E ctx : /\ ctx.g = node[cur].g + adj(o) /\ ctx.h[1] \in Nat
                         /\ \/ open' = Insert(cfg.lists, open, ctx, t)
                            \/ open' = Rewarded(t, Insert(cfg.lists, open, ctx, t))
    <2>m. PICK ctx, more : /\ ctx.g = node[cur].g + adj(o) /\ ctx.h[1] \in Nat
                           /\ more = Insert(cfg.lists, open, ctx, t)
                           /\ open' = more \/ open' = Rewarded(t, more)
      BY <1>8
    <2>1. /\ node'[t].status = "open" /\ node'[t].g = node[cur].g + adj(o)
          /\ \A u \in State : u # t => node'[u] = node[u]
      BY <1>1, <1>3, <1>8, WayFacts
    <2>2. Known(t)' /\ node'[t].g \in Nat
      <3>1. Known(t)'
        BY <1>3, <2>1, OpenBecomesKnown DEF IInv, EngineInv
      <3> QED BY <3>1 DEF Known, HasWay
    <2>3. Cheapens(cfg.cost_type, node, node')
      <3>1. ASSUME Known(t) PROVE node'[t].g <= node[t].g
        <4>1. node[t].status # "new" /\ node[t].g \in Nat
          BY <3>1 DEF Known, HasWay
        <4>2. node[t].g > node[cur].g + adj(o)
          BY <1>8, <4>1 DEF Cheaper
        <4> QED BY <2>1, <2>2, <4>1, <4>2
      <3>2. \A u \in State : HasWay(cfg.cost_type, node[u]) => node[u].g <= node[u].g
        BY DEF HasWay
      <3> QED BY <1>1, <2>1, <2>2, <3>1, <3>2 DEF Cheapens, Known
    <2>4. ctx.g = node'[t].g /\ ctx.h[1] \in Nat
      BY <2>m, <2>1
    <2>5. \A r : In(cfg.lists, more, r) => In(cfg.lists, open, r) \/ KeyNow(r, t)
      BY <1>1, <1>3, <2>m, <2>2, <2>4, InsertKeys
    <2>6. \A r : In(cfg.lists, open', r) => In(cfg.lists, more, r)
      <3>1. Holds(cfg.lists, more, OpenStates \cup {t})
        BY <1>1, <2>m, HoldsMore, InsertHolds
      <3>2. \A r : In(cfg.lists, Rewarded(t, more), r) <=> In(cfg.lists, more, r)
        BY <3>1, RewardedIn
      <3> QED BY <2>m, <3>2
    <2> QED BY <1>1, <2>3, <2>5, <2>6, KeysStay
  <1> QED BY <1>5, <1>6, <1>7, <1>8

\* Every step keeps the keys right.
LEMMA KeysStep ==
    IInv /\ IInv' /\ Configured /\ Configured' /\ KeysOK /\ [Next]_vars => KeysOK'
  <1> SUFFICES ASSUME IInv, IInv', Configured, Configured', KeysOK, [Next]_vars
               PROVE  KeysOK'
    OBVIOUS
  <1>1. CASE Search
    <2>1. UNCHANGED <<cfg, bound>>
      BY <1>1, EstimatesStep
    <2>2. CASE ~IsAStar
      BY <2>1, <2>2, KeysStay
    <2>3. CASE IsAStar
      <3>1. EagerNext
        BY <1>1, <2>3 DEF Search, IsAStar, LazyNext, LazyInitialize, LazyKnown, LazyDeadEnd,
           LazyExpand, LazyGenerate, LazyFetch, LazyExhausted, Stepping, HillNext,
           HillInitialize, HillStep, HillInsert, HillTake, HillImprove, HillFails, Climbing
      <3>2. CASE EagerInitialize
        <4>1. CASE UNCHANGED <<node, open>>
          <5>1. Cheapens(cfg.cost_type, node, node')
            BY <2>1, <4>1, SameSpace DEF IInv, EngineInv
          <5> QED BY <2>1, <4>1, <5>1, KeysStay
        <4>2. CASE ~UNCHANGED <<node, open>>
          <5>p. PICK pref, ctx : pref = TRUE /\ ctx = Eval(initial, 0, pref)
            OBVIOUS
          <5>1. node' = open_initial(node) /\ open' = Insert(cfg.lists, open, ctx, initial)
            BY <3>2, <4>2, <5>p DEF EagerInitialize
          <5>2. /\ Cheapens(cfg.cost_type, node, node') /\ node'[initial].status = "open"
                /\ initial \in State
            BY <2>1, <5>1, InitialStep, TaskAssumption DEF IInv, EngineInv
          <5>3. node'[initial].g = 0 /\ Known(initial)'
            <6>1. node'[initial].g = 0
              BY <5>1, InitialFacts DEF IInv, EngineInv, SpaceOK, Sound
            <6>2. Known(initial)'
              BY <5>2, OpenBecomesKnown DEF IInv, EngineInv
            <6> QED BY <6>1, <6>2
          <5>4. ctx.g = node'[initial].g /\ ctx.h[1] \in Nat
            <6>1. ctx.g = 0 /\ ctx.h = Estimates(initial)
              BY <5>p DEF Eval, Context
            <6>2. h[1] \in [State -> Nat] /\ 1 \in DOMAIN h
              BY DEF Configured
            <6>3. Estimates(initial)[1] = h[1][initial]
              BY <6>2 DEF Estimates
            <6> QED BY <5>2, <5>3, <6>1, <6>2, <6>3
          <5>5. Holds(cfg.lists, open, OpenStates)
            BY <2>3 DEF IsAStar, IInv, EngineInv, Frontier
          <5>6. \A r : In(cfg.lists, open', r) => In(cfg.lists, open, r) \/ KeyNow(r, initial)
            BY <2>3, <5>1, <5>2, <5>3, <5>4, <5>5, InsertKeys
          <5> QED BY <2>1, <5>2, <5>6, KeysStay
        <4> QED BY <4>1, <4>2
      <3>3. CASE EagerExhausted
        <4>1. Cheapens(cfg.cost_type, node, node') /\ open' = open
          BY <2>1, <3>3, SameSpace DEF IInv, EngineInv, EagerExhausted
        <4> QED BY <2>1, <4>1, KeysStay
      <3> QED BY <2>3, <3>1, <3>2, <3>3, PopKeys, GenerateKeys DEF EagerNext
    <2> QED BY <2>2, <2>3
  <1>2. CASE StartPhase
    <2>1. open' = EmptyLists(cfg'.lists)
      BY <1>2 DEF StartPhase, EngineStarts
    <2>2. Holds(cfg'.lists, open', {})
      BY <2>1, EmptyHolds
    <2>3. \A r : ~In(cfg'.lists, open', r)
      BY <2>1, <2>2, EmptyIn DEF Holds
    <2> QED BY <2>3 DEF KeysOK
  <1>3. CASE NoPhaseLeft \/ Exit \/ PhaseEnds \/ SavePlan \/ StepReturned \/ Kill \/ UNCHANGED vars
    <2>1. UNCHANGED <<node, cfg, open>>
      BY <1>3 DEF NoPhaseLeft, Exit, PhaseEnds, SavePlan, StepReturned, Kill, vars, engineVars
    <2> QED BY <2>1 DEF KeysOK, IsAStar, Known
  <1> QED BY <1>1, <1>2, <1>3 DEF Next, Steps

\* The first search has an empty open list.
LEMMA InitKeys == Init => KeysOK
  <1> SUFFICES ASSUME Init PROVE KeysOK
    OBVIOUS
  <1>1. open = EmptyLists(cfg.lists)
    BY DEF Init
  <1>2. Holds(cfg.lists, open, {})
    BY <1>1, EmptyHolds
  <1>3. \A r : ~In(cfg.lists, open, r)
    BY <1>1, <1>2, EmptyIn DEF Holds
  <1> QED BY <1>3 DEF KeysOK

-----------------------------------------------------------------------------
(* A* is optimal.                                                          *)

\* The goal that is taken has the least f of all entries, and one of them is
\* on a cheapest way.
LEMMA GoalIsCheapest ==
    ASSUME IInv, Configured, Explored, KeysOK, IsAStar, Admissible, EagerPop,
           NEW pos \in MinPositions(cfg.lists, open), PopExpand(pos),
           IsGoal(EntryAt(open, pos))
    PROVE  PlanCost(plan') = HStar[initial]
  <1>1. PICK q : q = EntryAt(open, pos)
    OBVIOUS
  <1>2. /\ cfg.kind = "eager" /\ status = "in_progress" /\ todo = {} /\ EngineInv
        /\ cfg.cost_type = "normal" /\ Reopening
    BY DEF EagerPop, Popping, IInv, IsAStar, Reopening
  <1>3. ~Stale(q) /\ q \in Goal /\ plan' = trace_path(node, q)
    BY <1>1 DEF PopExpand, check_goal_and_set_plan, IsGoal
  <1>4. q \in State /\ node[q].status = "open" /\ Known(q)
    BY <1>1, <1>2, <1>3, PoppedIsOpen
  <1>5. Leads(plan', q) /\ Len(plan') <= N /\ PlanCost(plan') <= node[q].g
    <2>1. /\ cfg.cost_type \in CostType /\ Sound(cfg.cost_type, node) /\ Forest(node)
          /\ HasWay(cfg.cost_type, node[q])
      BY <1>2, <1>4 DEF EngineInv, SpaceOK, Known
    <2> QED BY <1>2, <1>3, <1>4, <2>1, TraceLeads
  <1>6. PlanCost(plan') \in Nat /\ HStar[initial] <= PlanCost(plan')
    BY <1>3, <1>5, GoodPlanFacts DEF GoodPlan
  <1>7. /\ node[q].g \in Nat /\ node[q].real_g = node[q].g /\ HStar[initial] \in Nat
        /\ bound \in 0..INF /\ INF \in Nat \ {0} /\ initial \in State
    <2>1. HStar[initial] \in Nat
      BY HStarFacts, TaskAssumption
    <2> QED BY <1>2, <1>4, <2>1, TaskAssumption DEF Known, HasWay, Configured
  <1>8. Exploration
    BY <1>2, TrustedFacts DEF Explored, Explores, Exploring
  <1>9. HStar[initial] >= INF \/ (Opened(initial) /\ node[initial].g = 0)
    BY <1>2, <1>8 DEF Exploration, Begun
  <1>10. CASE q = initial
    <2>1. HStar[initial] <= 0
      <3>1. <<initial, 0>> \in Ways[0] /\ 0 \in 0..N
        BY <1>3, <1>10, WaysFacts, NFacts
      <3> QED BY <1>7, <3>1, MoreWays, HStarFacts
    <2> QED BY <1>5, <1>6, <1>7, <1>9, <1>10, <2>1
  <1>11. CASE q # initial
    <2>1. node[q].g < bound
      BY <1>2, <1>4, <1>7, <1>11 DEF EngineInv, SpaceOK, Low
    <2>2. HStar[initial] < bound /\ HStar[initial] < INF
      BY <1>5, <1>6, <1>7, <2>1
    <2>3. Opened(initial) /\ node[initial].g = 0
      BY <1>7, <1>9, <2>2
    <2>4. \A s \in State : node[s].status = "closed" => \A o \in Applicable(s) : Settled(s, o)
      BY <1>2, <1>8 DEF Exploration, OperatorsSettled, Underway
    <2>5. PICK s \in State : /\ node[s].status = "open" /\ HStar[s] <= HStar[initial]
                            /\ node[s].g + HStar[s] <= HStar[initial]
      BY <1>2, <1>7, <1>8, <2>2, <2>3, <2>4, WayOut DEF EngineInv, Exploration
    <2>6. node[s].g \in Nat /\ HStar[s] \in Nat /\ h[1][s] \in Nat /\ h[1][s] <= HStar[s]
      <3>1. node[s].g \in Nat
        BY <1>2, <2>5, OpenHasWay DEF EngineInv, SpaceOK, HasWay
      <3>2. HStar[s] \in Nat
        BY HStarFacts
      <3>3. h[1] \in [State -> Nat]
        BY DEF Configured
      <3> QED BY <3>1, <3>2, <3>3 DEF Admissible
    <2>7. PICK r : /\ In(cfg.lists, open, r) /\ r.entry = s
                   /\ r.key[1] <= node[s].g + h[1][s]
      <3>1. ~(HStar[s] >= INF)
        BY <1>7, <2>2, <2>5, <2>6
      <3> QED BY <1>8, <2>5, <3>1 DEF Exploration, OpenWait, Waits
    <2>8. cfg.lists = AStarLists /\ Holds(AStarLists, open, OpenStates)
      BY <1>2 DEF IsAStar, EngineInv, Frontier
    <2>9. \A e : In(AStarLists, open, e) => e.key[1] \in Int /\ DOMAIN e.key = 1..2
      BY <2>8 DEF KeysOK
    <2>10. PICK m : /\ In(AStarLists, open, m) /\ q = m.entry
                    /\ \A e : In(AStarLists, open, e) => m.key[1] <= e.key[1]
      BY <1>1, <2>8, <2>9, AStarTakesLeast
    <2>11. m.key[1] <= r.key[1] /\ m.key[1] \in Int /\ r.key[1] \in Int
           /\ node[q].g <= m.key[1]
      BY <2>7, <2>8, <2>9, <2>10 DEF KeysOK
    <2>12. node[q].g <= HStar[initial]
      BY <1>7, <2>5, <2>6, <2>7, <2>11
    <2> QED BY <1>5, <1>6, <1>7, <2>12
  <1> QED BY <1>10, <1>11

\* The step that finds a plan pops a goal, whose plan no other one is cheaper than.
LEMMA OptimalStep ==
    /\ IInv /\ IInv' /\ Solved /\ Configured /\ Explored /\ KeysOK
    /\ AStarOptimal /\ [Next]_vars
    => AStarOptimal'
  <1> SUFFICES ASSUME IInv, IInv', Solved, Configured, Explored, KeysOK, AStarOptimal, [Next]_vars,
                      IsAStar', Admissible', solution_found'
               PROVE  PlanCost(plan') = HStar[initial]
    BY DEF AStarOptimal
  <1>1. CASE Search
    <2>1. ~solution_found /\ UNCHANGED cfg /\ Grown
      BY <1>1, EnginesRun, EstimatesStep DEF Solved
    <2>2. IsAStar
      BY <2>1 DEF IsAStar
    <2>3. EagerPop
      BY <1>1, <2>1, <2>2, EnginesRun DEF IsAStar, LazyExpand, Stepping, HillStep, Climbing
    <2>4. PICK pos \in MinPositions(cfg.lists, open) : PopExpand(pos)
      BY <2>1, <2>3 DEF EagerPop, PopStale, PopReevaluated
    <2>5. IsGoal(EntryAt(open, pos)) /\ h' = h
      BY <2>1, <2>4 DEF PopExpand, check_goal_and_set_plan
    <2>6. Admissible
      BY <2>5 DEF Admissible
    <2> QED BY <2>2, <2>3, <2>4, <2>5, <2>6, GoalIsCheapest
  <1>2. CASE StartPhase
    BY <1>2 DEF StartPhase, EngineStarts
  <1>3. CASE NoPhaseLeft \/ Exit \/ PhaseEnds \/ SavePlan \/ StepReturned \/ Kill \/ UNCHANGED vars
    <2>1. UNCHANGED <<cfg, h, plan, solution_found>>
      BY <1>3 DEF NoPhaseLeft, Exit, PhaseEnds, SavePlan, StepReturned, Kill, vars, engineVars
    <2>2. IsAStar /\ Admissible
      BY <2>1 DEF IsAStar, Admissible
    <2> QED BY <2>1, <2>2 DEF AStarOptimal
  <1> QED BY <1>1, <1>2, <1>3 DEF Next, Steps

\* A* with an admissible heuristic returns a cheapest plan, consistent or not,
\* with or without a lazy evaluator, and in every phase of a portfolio.
THEOREM AStarOptimalThm == Spec /\ []NoOverflow => []AStarOptimal
  <1>1. Init => AStarOptimal
    BY DEF Init, AStarOptimal
  <1>2. Spec => [](IInv /\ Configured /\ KeysOK)
    BY InitIInv, IInvStep, InitConfigured, ConfiguredStep, InitKeys, KeysStep, PTL DEF Spec
  <1> QED BY <1>1, <1>2, ExploredInvariant, OptimalStep, PTL DEF Spec
=============================================================================
