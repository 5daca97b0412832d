---------------------------- MODULE ShortSighted ----------------------------
(***************************************************************************)
(* The short-sighted SSPs of SSiPP: the part of an SSP around a state, with *)
(* a fringe of artificial goals.  A space is the record of its states and  *)
(* of those among them that are FRINGE.                                    *)
(***************************************************************************)
EXTENDS Bellman

\* The states one expands, for a set of goals, when one expands S.
Expanded(goals, S) == UNION {SuccessorsOf(s) : s \in S \ goals}

\* newMaxDepth(): breadth first, a state is expanded at its least depth; all
\* of the last layer is fringe.
NewMaxDepth(goals, s, max_depth) ==
    LET Layer[d \in 0 .. max_depth] ==   \* the states seen, those of depth d
          IF d = 0 THEN [seen |-> {s}, last |-> {s}]
          ELSE LET new == Expanded(goals, Layer[d - 1].last) \ Layer[d - 1].seen
               IN  [seen |-> Layer[d - 1].seen \cup new, last |-> new]
        space == Layer[max_depth]
    IN  [states |-> space.seen, fringe |-> space.last \cup (space.seen \cap goals)]

\* newTrajectoryBased(): the states whose likeliest trajectory has at least
\* the probability min_p are expanded; the others it meets are fringe.
\* Probabilities are weights out of Certain.
Certain == 64
NewTrajectoryBased(goals, s, min_p) ==
    LET From(tp) ==    \* what one step makes of a trajectory to a state
          UNION {{<<t, (tp[2] * Outcome[<<tp[1], a>>][t]) \div One>> :
                      t \in Succ(tp[1], a)} : a \in Range(Applicable[tp[1]])}
        Trajectories[n \in 0 .. Cardinality(State)] ==
          IF n = 0 THEN {<<s, Certain>>}
          ELSE LET shorter == Trajectories[n - 1] IN
               shorter \cup {tp \in UNION {From(x) : x \in shorter} :
                                tp[1] \notin goals /\ tp[2] >= min_p}
        inside == {tp[1] : tp \in Trajectories[Cardinality(State)]}
        states == inside \cup Expanded(goals, inside)
    IN  [states |-> states, fringe |-> states \ inside]

\* newGreedy(): the open state of the least value is expanded until the space
\* has max_nodes states; of those left open, the ones with an action are
\* fringe.
NewGreedy(goals, s, hash, max_nodes) ==
    LET Grow[n \in 0 .. Cardinality(State)] ==
          IF n = 0 THEN [states |-> {s}, open |-> {s}]
          ELSE LET g == Grow[n - 1] IN
               IF g.open = {} \/ Cardinality(g.states) >= max_nodes THEN g
               ELSE LET t == CHOOSE t \in g.open : \A u \in g.open :
                                hash[t] <= hash[u]
                        new == Expanded(goals, {t}) \ g.states
                    IN  [states |-> g.states \cup new,
                         open |-> (g.open \ {t}) \cup (new \ goals)]
        space == Grow[Cardinality(State)]
    IN  [states |-> space.states,
         fringe |-> (space.states \cap goals)
                       \cup {t \in space.open : Applicable[t] # <<>>}]

\* ShortSightedSSPFactory::newShortSightedSSP(); random_max_depth draws one of
\* several limits.
NewShortSightedSSP(method, limit, goals, s, hash) ==
    CASE method = "max_depth"     -> NewMaxDepth(goals, s, limit)
      [] method = "min_prob_traj" -> NewTrajectoryBased(goals, s, limit)
      [] method = "greedy"        -> NewGreedy(goals, s, hash, limit)
=============================================================================
