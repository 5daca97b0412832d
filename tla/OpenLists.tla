------------------------------ MODULE OpenLists -------------------------------
(***************************************************************************)
(* The open lists of Fast Downward (open_list.h, open_lists/).  An open    *)
(* list is a sequence of sublists with priorities; one sublist is a list   *)
(* of its own, several are an AlternationOpenList.  A sublist keeps its    *)
(* entries in the order of insertion, each under the key its evaluators    *)
(* gave it: what buckets, heaps and hash maps are there to find quickly is *)
(* defined here as the set of positions remove_min may take.               *)
(*                                                                         *)
(* A sublist is configured by a record with fields                         *)
(*    type       "best_first", "tiebreaking", "epsilon_greedy", "pareto"   *)
(*               or "type_based"                                           *)
(*    evals      its evaluators, a sequence; the first two types of one    *)
(*               evaluator have one                                        *)
(*    pref_only  insert only entries reached by preferred operators        *)
(*    unsafe     the first evaluator may prune on its own                  *)
(* and an evaluator by the coefficient of g, the weight of the heuristic   *)
(* with index h, or pref = TRUE for the preference evaluator.              *)
(***************************************************************************)
EXTENDS Integers, Sequences, FiniteSets, SequencesExt

CONSTANTS
    Infinity,     \* EvaluationResult::INFTY
    Reliable      \* which heuristics, by index, detect dead ends safely

\* An evaluation context: the state's g value, its heuristic values and
\* whether it was reached by a preferred operator.
Context(g, h, pref) == [g |-> g, h |-> h, pref |-> pref]

\* g, h, weight, sum and pref evaluators: infinite if any part is.
Value(e, ctx) ==
    IF e.pref THEN IF ctx.pref THEN 0 ELSE 1
    ELSE IF e.w = 0 THEN e.g * ctx.g
    ELSE IF ctx.h[e.h] = Infinity THEN Infinity
    ELSE e.g * ctx.g + e.w * ctx.h[e.h]

dead_ends_are_reliable(e) == e.pref \/ e.w = 0 \/ e.h \in Reliable

Key(list, ctx) == [i \in DOMAIN list.evals |-> Value(list.evals[i], ctx)]

Infinite(list, ctx) ==
    {i \in DOMAIN list.evals : Value(list.evals[i], ctx) = Infinity}

is_reliable_dead_end(list, ctx) ==
    \E i \in Infinite(list, ctx) : dead_ends_are_reliable(list.evals[i])

\* Best-first and epsilon-greedy lists have one evaluator and believe it.
is_dead_end(list, ctx) ==
    \/ is_reliable_dead_end(list, ctx)
    \/ list.type = "tiebreaking" /\ list.unsafe /\ 1 \in Infinite(list, ctx)
    \/ Infinite(list, ctx) = DOMAIN list.evals

-----------------------------------------------------------------------------
(* Which positions of a sublist remove_min may take.                       *)

LexLess(k, l) ==
    \E i \in DOMAIN k : k[i] < l[i] /\ \A j \in 1..(i - 1) : k[j] = l[j]

\* The oldest of the entries with the smallest key.
FirstMin(q) ==
    {i \in DOMAIN q : \A j \in DOMAIN q \ {i} :
        LexLess(q[i].key, q[j].key) \/ (q[i].key = q[j].key /\ i < j)}

dominates(k, l) == k # l /\ \A i \in DOMAIN k : k[i] <= l[i]

\* The oldest entry of every key that no other key dominates.
FirstNondominated(q) ==
    {i \in DOMAIN q : \A j \in DOMAIN q :
        ~dominates(q[j].key, q[i].key) /\ (q[j].key = q[i].key => i <= j)}

\* An epsilon-greedy list may take any entry, since any may be drawn and
\* moved to the top; a type-based list draws a bucket and then an entry.
Removable(list, q) ==
    {i \in DOMAIN q :
        \/ list.type \in {"best_first", "tiebreaking"} /\ i \in FirstMin(q)
        \/ list.type = "pareto" /\ i \in FirstNondominated(q)
        \/ list.type \in {"epsilon_greedy", "type_based"}}

-----------------------------------------------------------------------------
(* The list of all sublists.  open.q is their contents, open.prio their    *)
(* priorities.                                                             *)

EmptyLists(lists) == [q |-> [i \in DOMAIN lists |-> <<>>],
                      prio |-> [i \in DOMAIN lists |-> 0]]

IsEmpty(open) == \A i \in DOMAIN open.q : open.q[i] = <<>>

\* If one sublist is sure, or if all agree.
IsDeadEnd(lists, ctx) ==
    \/ \E i \in DOMAIN lists : is_reliable_dead_end(lists[i], ctx)
    \/ \A i \in DOMAIN lists : is_dead_end(lists[i], ctx)

\* Bug: every list insists on preferred operators.
BugAccepts(list, ctx) == ctx.pref /\ ~is_dead_end(list, ctx)

Accepts(list, ctx) ==
    /\ list.pref_only => ctx.pref
    /\ ~is_dead_end(list, ctx)

\* do_insertion of every sublist that accepts the entry.
Insert(lists, open, ctx, entry) ==
    [open EXCEPT !.q = [i \in DOMAIN lists |->
        IF ~IsDeadEnd(lists, ctx) /\ Accepts(lists[i], ctx)
        THEN Append(open.q[i], [entry |-> entry, key |-> Key(lists[i], ctx)])
        ELSE open.q[i]]]

\* Whose turn it is: the first of the sublists of the lowest priority.
Turns(open) ==
    {i \in DOMAIN open.q :
        /\ open.q[i] # <<>>
        /\ \A j \in DOMAIN open.q \ {i} :
              open.q[j] # <<>> => \/ open.prio[i] < open.prio[j]
                                  \/ open.prio[i] = open.prio[j] /\ i < j}

\* The entries remove_min may return, as pairs of a sublist and a position.
MinPositions(lists, open) ==
    UNION {{<<i, k>> : k \in Removable(lists[i], open.q[i])} : i \in Turns(open)}

EntryAt(open, pos) == open.q[pos[1]][pos[2]].entry

\* A single list has no priority: it is not counted there.
RemoveMin(open, pos) ==
    [q |-> [open.q EXCEPT ![pos[1]] = RemoveAt(@, pos[2])],
     prio |-> IF Len(open.q) = 1 THEN open.prio
              ELSE [open.prio EXCEPT ![pos[1]] = @ + 1]]

boost_preferred(lists, open, boost) ==
    IF Len(lists) = 1 THEN open
    ELSE [open EXCEPT !.prio = [i \in DOMAIN lists |->
             IF lists[i].pref_only THEN @[i] - boost ELSE @[i]]]

=============================================================================
