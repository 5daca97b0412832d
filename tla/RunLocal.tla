------------------------------- MODULE RunLocal -------------------------------
(***************************************************************************)
(* One training run: run_asnets_local of scripts/run_learning.py and the   *)
(* four processes it deals with.                                           *)
(*                                                                         *)
(*   - the supervisor, run_asnets_local itself: starts the others, waits   *)
(*     for the child or the time limit, stops whatever is left (the two    *)
(*     tees first, then the child), reads the child's output back from the *)
(*     file tee wrote, and picks the newest snapshot;                      *)
(*   - the child, scripts/run_asnets.py: announces its directories on      *)
(*     stdout, loads the problems and the DK file, trains, and after every *)
(*     epoch saves a snapshot and copies it to the DK file;                *)
(*   - two tees, which copy the child's stdout and stderr to files.        *)
(*                                                                         *)
(* Weights are abstracted to what the driver can tell apart: which run and *)
(* epoch they come from and which problems they were trained on.  A file   *)
(* is torn while it is being written, and stays torn if its writer dies.   *)
(* stdout is abstracted to three parts, in the order the child prints      *)
(* them: the line 'Unique prefix: ', the line 'Snapshot directory: ', and  *)
(* everything after.                                                       *)
(***************************************************************************)
EXTENDS Integers, FiniteSets

CONSTANTS
    Problem,    \* the training problems
    Bad,        \* problems the child cannot load
    Large,      \* problems over --limit-train-obs-size
    MaxEpoch,   \* --max-opt-epochs
    Faults      \* which of "exception", "kill" and "timeout" may happen

ASSUME RunAssumption ==
    /\ Bad \subseteq Problem /\ Large \subseteq Problem
    /\ IsFiniteSet(Problem)
    /\ MaxEpoch \in Nat \ {0}
    /\ Faults \subseteq {"exception", "kill", "timeout"}

VARIABLES
    sup,        \* where the supervisor is
    child,      \* where the training process is
    tee_out, tee_err,   \* the two tees
    printed,    \* parts of stdout the child has printed
    flushed,    \* parts of stdout that have left the child
    logged,     \* parts of stdout in the file dest_dir/stdout
    tasks,      \* the problems of this run
    base,       \* the problems behind the weights the child started from
    epoch,      \* finished epochs
    snapshot,   \* the files in the run's snapshot directory
    dk,         \* the DK file
    chosen,     \* the snapshot the supervisor returned
    run         \* history: the number of runs started

output == <<printed, flushed, logged>>
tees == <<tee_out, tee_err>>
files == <<snapshot, dk>>
runVars == <<sup, child, tee_out, tee_err, printed, flushed, logged, tasks,
             base, epoch, snapshot, dk, chosen, run>>

Prefix == 1
SnapshotDir == 2
Rest == 3
Parts == 0..3

\* snapshot_final.pkl counts as newer than every numbered snapshot.
Final == MaxEpoch + 1
Num == 1..Final

File == [status : {"absent", "torn", "whole"}, run : Nat, num : 0..Final,
         learnt : SUBSET Problem]
NoFile == [status |-> "absent", run |-> 0, num |-> 0, learnt |-> {}]
Torn(file) == [file EXCEPT !.status = "torn"]

\* make_services drops the problems that are too large for training.
Trained == tasks \ Large

\* A file written by epoch n of the run in progress.
Weights(n) == [status |-> "whole", run |-> run, num |-> n,
               learnt |-> base \cup Trained]

Live == {"booting", "loading", "training", "saving", "saved", "copying",
         "final", "evaluating"}
Dead == {"none", "exited", "failed", "killed"}

RunInit ==
    /\ sup = "idle" /\ child = "none"
    /\ tee_out = "none" /\ tee_err = "none"
    /\ printed = 0 /\ flushed = 0 /\ logged = 0
    /\ tasks = {} /\ base = {} /\ epoch = 0
    /\ snapshot = [n \in Num |-> NoFile]
    /\ dk = NoFile
    /\ chosen = 0 /\ run = 0

-----------------------------------------------------------------------------
(* The child: run_asnets.py.                                               *)

ChildGoes(from, to) == child = from /\ child' = to

\* The two announcements; unique_name makes the snapshot directory a new one.
Announce ==
    /\ child = "booting"
    /\ printed' = printed + 1
    /\ child' = IF printed' = SnapshotDir THEN "loading" ELSE child
    /\ UNCHANGED <<sup, tees, flushed, logged, tasks, base, epoch, files,
                   chosen, run>>

\* make_services: multiprocessing flushes stdout before it forks the first
\* problem server.  The run fails before its first snapshot on a bad problem, on
\* a torn DK file, and when fewer than two problems are left (_optimise looks
\* at problems[1]).
Load ==
    /\ child = "loading" /\ tee_out = "running"
    /\ flushed' = printed
    /\ IF tasks \cap Bad = {} /\ dk.status # "torn" /\ Cardinality(Trained) >= 2
       THEN child' = "training" /\ base' = dk.learnt
       ELSE child' = "failed" /\ UNCHANGED base
    /\ UNCHANGED <<sup, tees, printed, logged, tasks, epoch, files, chosen,
                   run>>

\* Weights are pickled straight into the snapshot's file.
StartSave ==
    /\ epoch < MaxEpoch
    /\ ChildGoes("training", "saving")
    /\ epoch' = epoch + 1
    /\ snapshot' = [snapshot EXCEPT ![epoch'] = Torn(Weights(epoch'))]
    /\ UNCHANGED <<sup, tees, output, tasks, base, dk, chosen, run>>

FinishSave ==
    /\ ChildGoes("saving", "saved")
    /\ snapshot' = [snapshot EXCEPT ![epoch] = Weights(epoch)]
    /\ UNCHANGED <<sup, tees, output, tasks, base, epoch, dk, chosen, run>>

\* shutil.copy(snapshot_path, self.dk) truncates DK and fills it again.
StartCopy ==
    /\ ChildGoes("saved", "copying")
    /\ dk' = Torn(snapshot[epoch])
    /\ UNCHANGED <<sup, tees, output, tasks, base, epoch, snapshot, chosen,
                   run>>

FinishCopy ==
    /\ ChildGoes("copying", "training")
    /\ dk' = snapshot[epoch]
    /\ UNCHANGED <<sup, tees, output, tasks, base, epoch, snapshot, chosen,
                   run>>

\* Training ends early or at MaxEpoch; snapshot_final.pkl is not copied to DK.
StartFinal ==
    /\ epoch > 0
    /\ ChildGoes("training", "final")
    /\ snapshot' = [snapshot EXCEPT ![Final] = Torn(Weights(Final))]
    /\ UNCHANGED <<sup, tees, output, tasks, base, epoch, dk, chosen, run>>

FinishFinal ==
    /\ ChildGoes("final", "evaluating")
    /\ snapshot' = [snapshot EXCEPT ![Final] = Weights(Final)]
    /\ UNCHANGED <<sup, tees, output, tasks, base, epoch, dk, chosen, run>>

\* eval_single prints the results; the interpreter flushes stdout on exit.
Exit ==
    /\ tee_out = "running"
    /\ ChildGoes("evaluating", "exited")
    /\ printed' = Rest /\ flushed' = Rest
    /\ UNCHANGED <<sup, tees, logged, tasks, base, epoch, files, chosen, run>>

\* Steps of the child in which Python code that can raise is running.
MayRaise == {"booting", "loading", "training", "evaluating"}

\* An uncaught exception: of the teacher or a service, or a BrokenPipeError
\* because a tee is gone.  The interpreter still flushes stdout if it can.
ChildFails ==
    /\ child \in MayRaise
    /\ \/ "exception" \in Faults
       \/ tee_out # "running"
       \/ tee_err # "running"
    /\ child' = "failed"
    /\ flushed' = IF tee_out = "running" THEN printed ELSE flushed
    /\ UNCHANGED <<sup, tees, printed, logged, tasks, base, epoch, files,
                   chosen, run>>

\* The operating system kills the child (out of memory): nothing is flushed.
ChildKilled ==
    /\ "kill" \in Faults
    /\ child \in Live
    /\ child' = "killed"
    /\ UNCHANGED <<sup, tees, output, tasks, base, epoch, files, chosen, run>>

ChildStep ==
    \/ Announce \/ Load
    \/ StartSave \/ FinishSave \/ StartCopy \/ FinishCopy
    \/ StartFinal \/ FinishFinal \/ Exit

-----------------------------------------------------------------------------
(* The tees.                                                               *)

TeeReads ==
    /\ tee_out = "running"
    /\ logged < flushed
    /\ logged' = flushed
    /\ UNCHANGED <<sup, child, tees, printed, flushed, tasks, base, epoch,
                   files, chosen, run>>

TeeOutEnds ==
    /\ tee_out = "running"
    /\ child \in Dead
    /\ logged = flushed
    /\ tee_out' = "ended"
    /\ UNCHANGED <<sup, child, tee_err, output, tasks, base, epoch, files,
                   chosen, run>>

TeeErrEnds ==
    /\ tee_err = "running"
    /\ child \in Dead
    /\ tee_err' = "ended"
    /\ UNCHANGED <<sup, child, tee_out, output, tasks, base, epoch, files,
                   chosen, run>>

TeeStep == TeeReads \/ TeeOutEnds \/ TeeErrEnds

-----------------------------------------------------------------------------
(* The supervisor: run_asnets_local.                                       *)

Start(ps) ==
    /\ sup = "idle"
    /\ sup' = "waiting" /\ child' = "booting"
    /\ tee_out' = "running" /\ tee_err' = "running"
    /\ printed' = 0 /\ flushed' = 0 /\ logged' = 0
    /\ tasks' = ps /\ base' = {} /\ epoch' = 0
    /\ snapshot' = [n \in Num |-> NoFile]
    /\ chosen' = 0 /\ run' = run + 1
    /\ UNCHANGED dk

SupGoes(from, to) == sup = from /\ sup' = to

\* Bug: the child is polled, not waited for.
BugWaited ==
    /\ SupGoes("waiting", "stop_tee_out")
    /\ UNCHANGED <<child, tees, output, tasks, base, epoch, files, chosen, run>>

\* dfpg_proc.wait(timeout=timeout) returns ...
Waited ==
    /\ child \in Dead
    /\ SupGoes("waiting", "stop_tee_out")
    /\ UNCHANGED <<child, tees, output, tasks, base, epoch, files, chosen, run>>

\* Bug: wait() is called without the time limit.
BugTimedOut == FALSE /\ UNCHANGED runVars

\* ... or raises TimeoutExpired.
TimedOut ==
    /\ "timeout" \in Faults
    /\ child \in Live
    /\ SupGoes("waiting", "stop_tee_out")
    /\ UNCHANGED <<child, tees, output, tasks, base, epoch, files, chosen, run>>

\* The clean-up loop: a process that has not ended yet is terminated.
Stopped(tee) == IF tee = "running" THEN "killed" ELSE tee

StopTeeOut ==
    /\ SupGoes("stop_tee_out", "stop_tee_err")
    /\ tee_out' = Stopped(tee_out)
    /\ UNCHANGED <<child, tee_err, output, tasks, base, epoch, files, chosen,
                   run>>

StopTeeErr ==
    /\ SupGoes("stop_tee_err", "stop_child")
    /\ tee_err' = Stopped(tee_err)
    /\ UNCHANGED <<child, tee_out, output, tasks, base, epoch, files, chosen,
                   run>>

\* Bug: the child is left running after the time limit.
BugStopChild ==
    /\ SupGoes("stop_child", "collect")
    /\ UNCHANGED <<child, tees, output, tasks, base, epoch, files, chosen, run>>

\* terminate(), then wait(); the child's exit code is logged, not acted upon.
StopChild ==
    /\ SupGoes("stop_child", "collect")
    /\ child' = IF child \in Live THEN "killed" ELSE child
    /\ UNCHANGED <<tees, output, tasks, base, epoch, files, chosen, run>>

Saved == {n \in Num : snapshot[n].status # "absent"}

\* Bug: the oldest snapshot is chosen.
BugNewest(nums) == CHOOSE n \in nums : \A other \in nums : n <= other

Newest(nums) == CHOOSE n \in nums : \A other \in nums : other <= n

\* An announcement missing from the stdout file, or an empty snapshot
\* directory, raises; otherwise the newest file is taken, torn or not.
Collect ==
    /\ sup = "collect"
    /\ IF logged >= SnapshotDir /\ Saved # {}
       THEN sup' = "returned" /\ chosen' = Newest(Saved)
       ELSE sup' = "raised" /\ UNCHANGED chosen
    /\ UNCHANGED <<child, tees, output, tasks, base, epoch, files, run>>

SupStep ==
    Waited \/ StopTeeOut \/ StopTeeErr \/ StopChild \/ Collect

RunNext ==
    \/ ChildStep \/ ChildFails \/ ChildKilled
    \/ TeeStep
    \/ SupStep \/ TimedOut

RunTypeOK ==
    /\ sup \in {"idle", "waiting", "stop_tee_out", "stop_tee_err",
                "stop_child", "collect", "returned", "publishing", "raised"}
    /\ child \in Live \cup Dead
    /\ tee_out \in {"none", "running", "ended", "killed"}
    /\ tee_err \in {"none", "running", "ended", "killed"}
    /\ printed \in Parts /\ flushed \in Parts /\ logged \in Parts
    /\ tasks \subseteq Problem /\ base \subseteq Problem
    /\ epoch \in 0..MaxEpoch
    /\ snapshot \in [Num -> File]
    /\ dk \in File
    /\ chosen \in 0..Final
    /\ run \in Nat
=============================================================================
