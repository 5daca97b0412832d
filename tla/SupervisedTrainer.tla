-------------------------- MODULE SupervisedTrainer ---------------------------
(***************************************************************************)
(* The epoch loop of the child: SupervisedTrainer.train of                 *)
(* asnets/supervised.py, and the end of main_supervised in                 *)
(* scripts/run_asnets.py.                                                  *)
(*                                                                         *)
(* An epoch extends the replay buffers and measures the success rate,      *)
(* trains on batches drawn from the buffers, decides whether to stop, and  *)
(* saves the weights when the rate is no worse than best_rate or the epoch *)
(* is one of those that are always saved.                                  *)
(*                                                                         *)
(* A success rate is a number up to MaxRate, of which those from Solved on *)
(* are over solve_thresh; two rates that differ do so by more than the     *)
(* 1e-4 of the code, as fractions of a few hundred rollouts do.  Weights   *)
(* are abstracted to the epoch they were saved in.  Time is the question   *)
(* whether loading the problems took longer than time_out: elapsed_time is *)
(* not measured again.                                                     *)
(***************************************************************************)
EXTENDS Integers, FiniteSets

CONSTANTS
    Problem,        \* the problems that are trained on
    MaxRate, Solved,
    MaxEpoch,       \* max_epochs
    EarlyStops,     \* values of --supervised-early-stop
    SaveEverys,     \* values of --save-every
    None            \* None

ASSUME TrainerAssumption ==
    /\ IsFiniteSet(Problem)
    /\ MaxRate \in Nat /\ Solved \in 0..MaxRate
    /\ MaxEpoch \in Nat \ {0}
    /\ EarlyStops \subseteq Nat /\ SaveEverys \subseteq Nat
    /\ None \notin Nat

VARIABLES
    early_stop, save_every, late,   \* settings: late is elapsed_time > timeout
    pc,
    data,           \* the problems whose replay buffer is not empty
    iter_num,
    rates,          \* total_succ_rate of every epoch so far
    best_rate,
    time_since_best,
    keep_going,
    snapshot,       \* status of the files in snapshot_dir
    dk,             \* the DK file: its status and the epoch it is from
    error           \* why training failed

settings == <<early_stop, save_every, late>>
progress == <<best_rate, time_since_best, keep_going>>
vars == <<early_stop, save_every, late, pc, data, iter_num, rates, best_rate,
          time_since_best, keep_going, snapshot, dk, error>>

Rate == 0..MaxRate
Epoch == 1..MaxEpoch
Final == MaxEpoch + 1   \* snapshot_final.pkl
total_succ_rate == rates[iter_num]

\* Loading is over; DK is not written before the first epoch ends.
Init ==
    /\ early_stop \in EarlyStops /\ save_every \in SaveEverys
    /\ late \in BOOLEAN
    /\ pc = "extending"
    /\ data = {}
    /\ iter_num = 0
    /\ rates = [n \in Epoch |-> 0]
    /\ best_rate = None /\ time_since_best = 0 /\ keep_going = TRUE
    /\ snapshot = [n \in 1..Final |-> "absent"]
    /\ dk = [status |-> "absent", epoch |-> 0]
    /\ error = "none"

-----------------------------------------------------------------------------
(* An epoch.                                                               *)

\* extend_replay adds to the buffers, nothing if the teacher times out on every
\* state of the rollouts or if none of their states has a choice of actions.
Gathered(new) == data \cup new

Extend ==
    /\ pc = "extending"
    /\ \E new \in SUBSET Problem : data' = Gathered(new)
    /\ iter_num' = iter_num + 1
    /\ \E rate \in Rate : rates' = [rates EXCEPT ![iter_num'] = rate]
    /\ pc' = "optimising"
    /\ UNCHANGED <<settings, progress, snapshot, dk, error>>

\* A problem server died or raised, or a problem's teacher did.
ExtendFails ==
    /\ pc = "extending"
    /\ pc' = "failed" /\ error' = "service"
    /\ UNCHANGED <<settings, data, iter_num, rates, progress, snapshot, dk>>

\* Batches without rows stand for problems without data; a batch without any
\* rows fails an assertion.
Optimise ==
    /\ pc = "optimising"
    /\ IF data # {} THEN pc' = "deciding" /\ UNCHANGED error
                    ELSE pc' = "failed" /\ error' = "no_batches"
    /\ UNCHANGED <<settings, data, iter_num, rates, progress, snapshot, dk>>

\* "if best_rate is None or total_succ_rate > best_rate + 1e-4"
Better == best_rate = None \/ total_succ_rate > best_rate

\* Bug: a rate that goes back down again counts as one more epoch.
BugFellBack == FALSE

\* "elif total_succ_rate < best_rate and total_succ_rate < solve_thresh"
FellBack == total_succ_rate < best_rate /\ total_succ_rate < Solved

StopsEarly ==
    /\ early_stop # 0
    /\ time_since_best' >= early_stop
    /\ best_rate >= Solved

\* Bug: only a rate that is higher than best_rate is worth a save.
BugShouldSave ==
    \/ Better
    \/ save_every # 0 /\ iter_num % save_every = 0
    \/ iter_num = 1

\* should_save
ShouldSave ==
    \/ best_rate = None \/ total_succ_rate >= best_rate
    \/ save_every # 0 /\ iter_num % save_every = 0
    \/ iter_num = 1

Decide ==
    /\ pc = "deciding"
    /\ IF Better \/ FellBack
       THEN time_since_best' = 0 /\ UNCHANGED keep_going
       ELSE /\ time_since_best' = time_since_best + 1
            /\ keep_going' = (keep_going /\ ~StopsEarly)
    /\ pc' = IF ShouldSave THEN "saving" ELSE "closing"
    /\ UNCHANGED <<settings, data, iter_num, rates, best_rate, snapshot, dk,
                   error>>

\* Bug: a forced save does not lower best_rate.
BugStartSave ==
    /\ pc = "saving"
    /\ best_rate' = IF Better THEN total_succ_rate ELSE best_rate
    /\ snapshot' = [snapshot EXCEPT ![iter_num] = "torn"]
    /\ pc' = "writing"
    /\ UNCHANGED <<settings, data, iter_num, rates, time_since_best,
                   keep_going, dk, error>>

StartSave ==
    /\ pc = "saving"
    /\ best_rate' = total_succ_rate
    /\ snapshot' = [snapshot EXCEPT ![iter_num] = "torn"]
    /\ pc' = "writing"
    /\ UNCHANGED <<settings, data, iter_num, rates, time_since_best,
                   keep_going, dk, error>>

\* Bug: the snapshot is not copied to DK.
BugFinishSave ==
    /\ pc = "writing"
    /\ snapshot' = [snapshot EXCEPT ![iter_num] = "whole"]
    /\ pc' = "closing"
    /\ UNCHANGED <<settings, data, iter_num, rates, progress, dk, error>>

FinishSave ==
    /\ pc = "writing"
    /\ snapshot' = [snapshot EXCEPT ![iter_num] = "whole"]
    /\ pc' = "written"
    /\ UNCHANGED <<settings, data, iter_num, rates, progress, dk, error>>

StartCopy ==
    /\ pc = "written"
    /\ dk' = [status |-> "torn", epoch |-> iter_num]
    /\ pc' = "copying"
    /\ UNCHANGED <<settings, data, iter_num, rates, progress, snapshot, error>>

FinishCopy ==
    /\ pc = "copying"
    /\ dk' = [dk EXCEPT !.status = "whole"]
    /\ pc' = "closing"
    /\ UNCHANGED <<settings, data, iter_num, rates, progress, snapshot, error>>

AnotherEpoch == keep_going' /\ iter_num < MaxEpoch

\* The end of the loop's body, after timing.json.
Close ==
    /\ pc = "closing"
    /\ keep_going' = (keep_going /\ ~late)
    /\ pc' = IF AnotherEpoch THEN "extending" ELSE "trained"
    /\ UNCHANGED <<settings, data, iter_num, rates, best_rate, time_since_best,
                   snapshot, dk, error>>

-----------------------------------------------------------------------------
(* main_supervised, after train.                                           *)

StartFinal ==
    /\ pc = "trained"
    /\ snapshot' = [snapshot EXCEPT ![Final] = "torn"]
    /\ pc' = "final"
    /\ UNCHANGED <<settings, data, iter_num, rates, progress, dk, error>>

FinishFinal ==
    /\ pc = "final"
    /\ snapshot' = [snapshot EXCEPT ![Final] = "whole"]
    /\ pc' = "evaluating"
    /\ UNCHANGED <<settings, data, iter_num, rates, progress, dk, error>>

\* Evaluation is RunLocal's.
Ended == pc \in {"evaluating", "failed"} /\ UNCHANGED vars

Next ==
    \/ Extend \/ ExtendFails \/ Optimise \/ Decide
    \/ StartSave \/ FinishSave \/ StartCopy \/ FinishCopy \/ Close
    \/ StartFinal \/ FinishFinal
    \/ Ended

Spec == Init /\ [][Next]_vars

-----------------------------------------------------------------------------
(* Properties.                                                             *)

\* Types of all variables.
TypeOK ==
    /\ early_stop \in EarlyStops /\ save_every \in SaveEverys
    /\ late \in BOOLEAN
    /\ pc \in {"extending", "optimising", "deciding", "saving", "writing",
               "written", "copying", "closing", "trained", "final",
               "evaluating", "failed"}
    /\ data \subseteq Problem
    /\ iter_num \in 0..MaxEpoch
    /\ pc \notin {"extending", "failed"} => iter_num # 0
    /\ pc = "extending" => iter_num < MaxEpoch
    /\ rates \in [Epoch -> Rate]
    /\ best_rate \in Rate \cup {None}
    /\ time_since_best \in 0..MaxEpoch
    /\ keep_going \in BOOLEAN
    /\ snapshot \in [1..Final -> {"absent", "torn", "whole"}]
    /\ dk \in [status : {"absent", "torn", "whole"}, epoch : 0..MaxEpoch]
    /\ error \in {"none", "service", "no_batches"}

\* Training stops early ("if success rate is high but doesn't increase") only
\* when each of the last early_stop epochs solved everything, although best_rate
\* may have been lowered and raised again in between.
EarlyStopJustified ==
    ~keep_going /\ ~late =>
        /\ iter_num >= early_stop
        /\ \A n \in (iter_num - early_stop + 1)..iter_num : rates[n] >= Solved

\* An epoch as good as every epoch before it is in the snapshot directory, also
\* when forced saves have made best_rate the rate of a worse epoch.
RecordsSaved ==
    pc \in {"extending", "trained", "evaluating"} =>
        \A n \in 1..iter_num :
            (\A earlier \in 1..n : rates[earlier] <= rates[n])
                => snapshot[n] = "whole"

\* Between epochs DK holds the weights of the last epoch that was saved, and
\* best_rate is that epoch's rate; without forced saves no rate was better.
BestRateIsDKs ==
    pc \in {"extending", "trained", "evaluating"} /\ iter_num > 0 =>
        /\ dk.status = "whole" /\ dk.epoch \in 1..iter_num
        /\ best_rate = rates[dk.epoch]
        /\ \A n \in (dk.epoch + 1)..iter_num : snapshot[n] = "absent"
        /\ save_every = 0 => \A n \in 1..iter_num : rates[n] <= best_rate

\* Buffers without any data can end training only in its first epoch, when
\* nothing has been saved and DK is as the run found it.
NoBatchesOnlyAtStart ==
    error = "no_batches" =>
        /\ \A n \in 1..Final : snapshot[n] = "absent"
        /\ dk.status = "absent"

\* The child as RunLocal sees it.
ChildPhase ==
    CASE pc = "writing" -> "saving"
      [] pc = "written" -> "saved"
      [] pc \in {"copying", "final", "evaluating", "failed"} -> pc
      [] OTHER -> "training"

Saves == {n \in Epoch : snapshot[n] # "absent"}

Weights(status, n) ==
    [status |-> status, run |-> 1, num |-> n, learnt |-> Problem]

ToFile(status, n) ==
    IF status = "absent"
    THEN [status |-> "absent", run |-> 0, num |-> 0, learnt |-> {}]
    ELSE Weights(status, n)

Child == INSTANCE RunLocal WITH
    Bad <- {}, Large <- {}, Faults <- {"exception"},
    sup <- "waiting", child <- ChildPhase,
    tee_out <- "running", tee_err <- "running",
    printed <- 2, flushed <- 2, logged <- 2,
    tasks <- Problem, base <- {}, epoch <- Cardinality(Saves),
    snapshot <- [n \in 1..Final |-> ToFile(snapshot[n], n)],
    dk <- ToFile(dk.status, dk.epoch),
    chosen <- 0, run <- 1

\* With --save-every 1, as the learner runs it, every step of training is what
\* RunLocal lets a child do, or invisible to it: files and failures included.
ImplementsChild ==
    [][save_every = 1 => Child!ChildStep \/ Child!ChildFails]_
        <<ChildPhase, snapshot, dk>>

=============================================================================
