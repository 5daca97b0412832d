---------------------------- MODULE AnytimePlanner ----------------------------
(***************************************************************************)
(* What the caller of Fast Downward is promised, however the search is     *)
(* done: a growing list of plans, each valid and cheaper than the one      *)
(* before it, and an answer that agrees with the list.                     *)
(***************************************************************************)
EXTENDS SearchTask

VARIABLES published, answer

Init == published = <<>> /\ answer = "none"

Publish ==
    /\ answer = "none" /\ UNCHANGED answer
    /\ Len(published') = Len(published) + 1
    /\ published = Front(published')
    /\ IsPlan(Last(published'))
    /\ published # <<>> => PlanCost(Last(published')) < PlanCost(Last(published))

\* A planner that is killed, or exits from within, may have published plans;
\* one that says it failed has not, and one that says it solved the task has.
Answer ==
    /\ answer = "none" /\ UNCHANGED published
    /\ \/ answer' = "solved" /\ published # <<>>
       \/ answer' = "failed" /\ published = <<>>
       \/ answer' \in {"exit", "killed"}

Next == Publish \/ Answer

Spec == Init /\ [][Next]_<<published, answer>>
=============================================================================
