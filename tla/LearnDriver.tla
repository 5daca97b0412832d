----------------------------- MODULE LearnDriver -----------------------------
(***************************************************************************)
(* The learner: main_inner of scripts/run_learning.py, composed with the   *)
(* training runs it makes (RunLocal).                                      *)
(*                                                                         *)
(* First the curriculum: the first two problems are set aside, and every   *)
(* further problem is the occasion of one run on all the problems up to    *)
(* it.  Then the retries: runs on all the problems that were taken up,     *)
(* until one ends well.  A run that returns a snapshot has it copied to    *)
(* the DK file; a run that raises costs one unit of tolerence, and         *)
(* tolerence ends first the curriculum, then the retries.                  *)
(*                                                                         *)
(* Hyper-parameters (rollouts, the teacher's time-out) and logging are     *)
(* left out.  The problems that main_inner keeps in lists are sequences,   *)
(* which keep their order and their duplicates.                            *)
(***************************************************************************)
EXTENDS RunLocal, SequencesExt

CONSTANTS
    Given,          \* the sequence of problems on the command line
    MaxCurriculum,  \* the 10 of "tolerence > 10"
    MaxTolerence    \* the 20 of "tolerence > 20"

ASSUME DriverAssumption ==
    /\ Given \in Seq(Problem) /\ Len(Given) >= 2
    /\ MaxCurriculum \in Nat /\ MaxTolerence \in Nat
    /\ MaxCurriculum < MaxTolerence

VARIABLES
    problems,   \* still to be taken up
    trained_problems,
    unsolved_problems,
    tolerence,
    phase,      \* "curriculum", "retry" or "done"
    solved      \* history: did the last run of the driver end well?

driverVars ==
    <<problems, trained_problems, unsolved_problems, tolerence, phase, solved>>
vars == <<sup, child, tee_out, tee_err, printed, flushed, logged, tasks, base,
          epoch, snapshot, dk, chosen, run, problems, trained_problems,
          unsolved_problems, tolerence, phase, solved>>

Init ==
    /\ RunInit
    /\ trained_problems = <<Given[1], Given[2]>>
    /\ problems = SubSeq(Given, 3, Len(Given))
    /\ unsolved_problems = <<>>
    /\ tolerence = 0 /\ phase = "curriculum" /\ solved = FALSE

-----------------------------------------------------------------------------
(* Starting a run.                                                         *)

\* Bug: the run is given the first problems and the new one only.
BugNextProblem ==
    /\ phase = "curriculum" /\ problems # <<>>
    /\ trained_problems' = Append(trained_problems, Head(problems))
    /\ problems' = Tail(problems)
    /\ Start({Given[1], Given[2], Head(problems)})
    /\ UNCHANGED <<unsolved_problems, tolerence, phase, solved>>

\* A new problem joins trained_problems before anything is known about it.
NextProblem ==
    /\ phase = "curriculum" /\ problems # <<>>
    /\ trained_problems' = Append(trained_problems, Head(problems))
    /\ problems' = Tail(problems)
    /\ Start(ToSet(trained_problems'))
    /\ UNCHANGED <<unsolved_problems, tolerence, phase, solved>>

CurriculumDone ==
    /\ phase = "curriculum" /\ problems = <<>> /\ sup = "idle"
    /\ phase' = "retry"
    /\ UNCHANGED <<runVars, problems, trained_problems, unsolved_problems,
                   tolerence, solved>>

\* The retry loop runs at least once, even when nothing is unsolved; unsolved
\* problems are still among trained_problems and are passed twice.
Retry ==
    /\ phase = "retry"
    /\ Start(ToSet(trained_problems \o unsolved_problems))
    /\ UNCHANGED driverVars

-----------------------------------------------------------------------------
(* The end of a run.                                                       *)

\* shutil.copy(final_checkpoint, domain_knowledge_name), in two steps.
StartPublish ==
    /\ SupGoes("returned", "publishing")
    /\ dk' = Torn(snapshot[chosen])
    /\ UNCHANGED <<child, tees, output, tasks, base, epoch, snapshot, chosen,
                   run, driverVars>>

Published ==
    /\ SupGoes("publishing", "idle")
    /\ dk' = snapshot[chosen]
    /\ solved' = TRUE
    /\ phase' = IF phase = "retry" THEN "done" ELSE phase
    /\ UNCHANGED <<child, tees, output, tasks, base, epoch, snapshot, chosen,
                   run, problems, trained_problems, unsolved_problems,
                   tolerence>>

\* except Exception, in the curriculum: the new problem is the last flag.  It
\* stays in trained_problems.
CurriculumFails ==
    /\ phase = "curriculum"
    /\ SupGoes("raised", "idle")
    /\ unsolved_problems' = Append(unsolved_problems, Last(trained_problems))
    /\ tolerence' = tolerence + 1
    /\ phase' = IF tolerence' > MaxCurriculum THEN "retry" ELSE phase
    /\ solved' = FALSE
    /\ UNCHANGED <<child, tees, output, tasks, base, epoch, files, chosen, run,
                   problems, trained_problems>>

\* except Exception, in the retries.
RetryFails ==
    /\ phase = "retry"
    /\ SupGoes("raised", "idle")
    /\ tolerence' = tolerence + 1
    /\ phase' = IF tolerence' > MaxTolerence THEN "done" ELSE phase
    /\ solved' = FALSE
    /\ UNCHANGED <<child, tees, output, tasks, base, epoch, files, chosen, run,
                   problems, trained_problems, unsolved_problems>>

DriverStep ==
    \/ NextProblem \/ CurriculumDone \/ Retry
    \/ StartPublish \/ Published
    \/ CurriculumFails \/ RetryFails

\* main returns.
Done == phase = "done" /\ UNCHANGED vars

Next ==
    \/ DriverStep
    \/ RunNext /\ UNCHANGED driverVars
    \/ Done

Spec == Init /\ [][Next]_vars

\* The supervisor and the driver are one thread that keeps running, and
\* wait(timeout) returns or raises: no fairness of the child is assumed.
SupervisorFairness ==
    /\ WF_vars(DriverStep)
    /\ WF_vars((SupStep \/ TimedOut) /\ UNCHANGED driverVars)

FairSpec == Spec /\ SupervisorFairness

-----------------------------------------------------------------------------
(* Properties.                                                             *)

TypeOK ==
    /\ RunTypeOK
    /\ problems \in Seq(Problem)
    /\ trained_problems \in Seq(Problem) /\ Len(trained_problems) >= 2
    /\ unsolved_problems \in Seq(Problem)
    /\ tolerence \in 0..(MaxTolerence + 1)
    /\ phase \in {"curriculum", "retry", "done"}
    /\ solved \in BOOLEAN

\* The DK file has one writer at a time.  When the driver publishes a snapshot
\* or starts the next run, the child of the run is dead, whether it ended by
\* itself or ran into the time limit: it cannot copy an older snapshot over a
\* newer one afterwards.
OneWriter ==
    sup \in {"idle", "collect", "returned", "publishing", "raised"}
        => child \in Dead

\* The DK file never goes back to an older snapshot, although the child and the
\* driver both write it and either may be interrupted at any time.
Older(file, other) ==
    \/ file.run < other.run
    \/ file.run = other.run /\ file.num < other.num

DKNeverOlder == [][~Older(dk', dk)]_vars

\* However runs fail or time out, their number is bounded: every run takes up a
\* problem, uses up tolerence, or is the last.
RunsBounded ==
    run <= Len(Given) - 2 - Len(problems) + MaxTolerence + 1

\* The learner comes to an end, even if children hang: the time limit of
\* run_asnets_local and the counting of tolerence suffice.
Termination == <>(phase = "done")

\* As long as no process is killed, the DK file is never torn between runs, so
\* every run can resume from it.
DKUsable == sup = "idle" => dk.status # "torn"

\* A run that ended well is in the DK file: it was trained on every problem
\* taken up so far, except those that are too large.
SolvedMeansLearnt ==
    sup = "idle" /\ solved =>
        /\ dk.status = "whole" /\ dk.run = run
        /\ ToSet(trained_problems) \ Large \subseteq dk.learnt

\* Without kills, the learner implements Curriculum: knowledge is published
\* round by round and never lost.
Abstract == INSTANCE Curriculum WITH
    Learnable <- Problem \ Large,
    MaxFailures <- MaxTolerence + 1,
    known <- dk.learnt,
    round <- Trained,
    busy <- sup # "idle",
    failures <- tolerence,
    over <- phase = "done"

ImplementsCurriculum == Abstract!Spec

\* What the log says of final_checkpoint, 'Last valid checkpoint is %s'.
LastValidCheckpoint == sup = "publishing" => snapshot[chosen].status = "whole"
=============================================================================
