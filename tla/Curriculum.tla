------------------------------ MODULE Curriculum ------------------------------
(***************************************************************************)
(* What learning promises, without processes or files: the domain          *)
(* knowledge (the DK file) is built in rounds.  A round sets out to learn  *)
(* a set of problems; its knowledge may become visible before the round    *)
(* ends; a round ends well only when its knowledge is visible.  Knowledge  *)
(* is never lost, and after finitely many failed rounds learning is over.  *)
(***************************************************************************)
EXTENDS Naturals

CONSTANTS Problem, Learnable, MaxFailures

VARIABLES
    known,      \* the problems the domain knowledge was trained on
    round,      \* the learnable problems of the round in progress
    busy,       \* is a round in progress?
    failures,   \* rounds that failed
    over        \* is learning over?

vars == <<known, round, busy, failures, over>>

Init ==
    /\ known = {} /\ round = {} /\ busy = FALSE
    /\ failures = 0 /\ over = FALSE

\* Rounds are cumulative: a new round takes up all of the one before.
Begin ==
    /\ ~over /\ ~busy
    /\ busy' = TRUE
    /\ \E ps \in SUBSET Learnable : round \subseteq ps /\ round' = ps
    /\ UNCHANGED <<known, failures, over>>

Learn ==
    /\ busy
    /\ known' = known \cup round
    /\ UNCHANGED <<round, busy, failures, over>>

Succeed ==
    /\ busy /\ round \subseteq known
    /\ busy' = FALSE
    /\ over' \in BOOLEAN
    /\ UNCHANGED <<known, round, failures>>

Fail ==
    /\ busy /\ failures < MaxFailures
    /\ busy' = FALSE
    /\ failures' = failures + 1
    /\ over' \in BOOLEAN
    /\ failures' = MaxFailures => over'
    /\ UNCHANGED <<known, round>>

Next == Begin \/ Learn \/ Succeed \/ Fail

Spec == Init /\ [][Next]_vars
=============================================================================
