-------------------------- MODULE LearnDriverProofs --------------------------
(***************************************************************************)
(* Proofs about LearnDriver, for any number of problems and epochs, any    *)
(* limits and any combination of faults.                                   *)
(*                                                                         *)
(* IInv is the inductive invariant.  It says which snapshots exist in each *)
(* phase of the child (so that the newest one is known), that the child is *)
(* dead once the supervisor reads its files, and that the DK file is never *)
(* ahead of the snapshots.  CountInv relates runs, problems and tolerence. *)
(***************************************************************************)
EXTENDS LearnDriver, TLAPS

-----------------------------------------------------------------------------
(* The inductive invariant.                                                *)

Writing == {"saving", "saved", "copying"}
BeforeFinal == {"booting", "loading", "training"} \cup Writing

\* Snapshots 1 to epoch exist, and the final one only at the end.
Snapshots ==
    /\ \A n \in Num : snapshot[n].status # "absent"
                         => snapshot[n].run = run /\ snapshot[n].num = n
    /\ \A n \in 1..MaxEpoch : snapshot[n].status # "absent" <=> n <= epoch
    /\ child \in Writing => epoch >= 1
    /\ child \in BeforeFinal => snapshot[Final].status = "absent"

ChosenNewest ==
    sup \in {"returned", "publishing"} =>
        /\ chosen \in Saved
        /\ \A n \in Saved : n <= chosen

\* The DK file is not ahead of the snapshots of the run in progress.
DKBehind ==
    /\ dk.run <= run
    /\ dk.run = run =>
          \/ dk.num <= epoch
          \/ dk.num = Final /\ snapshot[Final].status # "absent"

\* The child has at most one announcement behind it while it boots.
Announcing == child = "booting" => printed <= 1

IInv ==
    TypeOK /\ Announcing /\ OneWriter /\ Snapshots /\ ChosenNewest /\ DKBehind

\* Every run of the curriculum took up a problem, every failed retry used up
\* tolerence.
Taken == Len(Given) - 2 - Len(problems)

CountInv ==
    /\ phase = "curriculum" => tolerence <= MaxCurriculum /\ run = Taken
    /\ phase = "retry" =>
          /\ tolerence <= MaxTolerence
          /\ run <= Taken + tolerence + 1
          /\ sup = "idle" => run <= Taken + tolerence
    /\ phase = "done" => run <= Taken + MaxTolerence + 1

-----------------------------------------------------------------------------
(* Files and their types.                                                  *)

LEMMA NumFacts ==
    /\ MaxEpoch \in Nat /\ MaxEpoch >= 1
    /\ Final = MaxEpoch + 1
    /\ Num = 1..(MaxEpoch + 1)
    /\ Final \in Num /\ Final \notin 1..MaxEpoch
    /\ Num = 1..MaxEpoch \cup {Final}
  BY RunAssumption DEF Num, Final

LEMMA FileFacts ==
    ASSUME NEW f \in File
    PROVE  /\ f.run \in Nat /\ f.num \in Nat
           /\ f.learnt \subseteq Problem
           /\ Torn(f) \in File
           /\ Torn(f).run = f.run /\ Torn(f).num = f.num
           /\ Torn(f).status = "torn"
  BY NumFacts DEF File, Torn

LEMMA NoFileFacts ==
    NoFile \in File /\ NoFile.status = "absent" /\ NoFile.run = 0 /\ NoFile.num = 0
  BY NumFacts DEF NoFile, File

LEMMA WeightsFacts ==
    ASSUME NEW n \in Num, RunTypeOK
    PROVE  /\ Weights(n) \in File
           /\ Weights(n).run = run /\ Weights(n).num = n
           /\ Weights(n).status = "whole"
  BY NumFacts DEF RunTypeOK, Weights, File, Trained

\* The newest of the existing snapshots.
LEMMA NewestFacts ==
    ASSUME RunTypeOK, Snapshots, Saved # {}
    PROVE  /\ Newest(Saved) \in Saved
           /\ \A n \in Saved : n <= Newest(Saved)
  <1>1. \E n \in Saved : \A other \in Saved : other <= n
    <2>1. CASE snapshot[Final].status # "absent"
      BY <2>1, NumFacts DEF Saved
    <2>2. CASE snapshot[Final].status = "absent"
      <3>1. \A n \in Saved : n \in 1..MaxEpoch /\ n <= epoch
        BY <2>2, NumFacts DEF Saved, Snapshots
      <3>2. epoch \in 1..MaxEpoch
        BY <3>1, NumFacts DEF RunTypeOK
      <3>3. epoch \in Saved
        BY <3>2, NumFacts DEF Saved, Snapshots, RunTypeOK
      <3> QED
        BY <3>1, <3>3
    <2> QED
      BY <2>1, <2>2
  <1> QED
    BY <1>1 DEF Newest

-----------------------------------------------------------------------------
(* The initial state.                                                      *)

LEMMA IInvInit == Init => IInv
  <1> SUFFICES ASSUME Init PROVE IInv
    OBVIOUS
  <1>1. snapshot \in [Num -> File] /\ \A n \in Num : snapshot[n] = NoFile
    BY NoFileFacts DEF Init, RunInit
  <1>2. RunTypeOK
    BY <1>1, NoFileFacts, NumFacts
    DEF Init, RunInit, RunTypeOK, Live, Dead, Parts
  <1>3. TypeOK
    <2>1. Given \in Seq(Problem) /\ Len(Given) >= 2 /\ Len(Given) \in Nat
      BY DriverAssumption
    <2>2. SubSeq(Given, 3, Len(Given)) \in Seq(Problem)
      BY <2>1
    <2>3. /\ <<Given[1], Given[2]>> \in Seq(Problem)
          /\ Len(<<Given[1], Given[2]>>) >= 2
      BY <2>1
    <2>4. 0 \in 0..(MaxTolerence + 1)
      BY DriverAssumption
    <2>5. <<>> \in Seq(Problem)
      OBVIOUS
    <2>6. /\ problems \in Seq(Problem) /\ trained_problems \in Seq(Problem)
          /\ Len(trained_problems) >= 2 /\ unsolved_problems \in Seq(Problem)
      BY <2>2, <2>3, <2>5, Zenon DEF Init
    <2> QED
      BY <1>2, <2>4, <2>6 DEF Init, TypeOK
  <1>4. Snapshots
    BY <1>1, NoFileFacts, NumFacts
    DEF Init, RunInit, Snapshots, Writing, BeforeFinal
  <1>5. DKBehind
    BY NoFileFacts DEF Init, RunInit, DKBehind
  <1> QED
    BY <1>3, <1>4, <1>5
    DEF IInv, Announcing, Init, RunInit, OneWriter, Dead, ChosenNewest
-----------------------------------------------------------------------------
(* The steps of a run.                                                     *)

\* What the child, the system and the tees leave alone.
LEMMA ChildFrame ==
    ASSUME ChildStep \/ ChildFails \/ ChildKilled
    PROVE  /\ sup' = sup /\ chosen' = chosen /\ run' = run /\ tasks' = tasks
           /\ child \in Live
  BY DEF ChildStep, ChildFails, ChildKilled, MayRaise, Live, ChildGoes,
         Announce, Load, StartSave, FinishSave, StartCopy, FinishCopy,
         StartFinal, FinishFinal, Exit

\* A step of the child that writes no file.
QuietStep == Announce \/ Load \/ Exit \/ ChildFails \/ ChildKilled

LEMMA QuietStepFacts ==
    ASSUME RunTypeOK, Announcing, QuietStep
    PROVE  /\ RunTypeOK' /\ Announcing'
           /\ UNCHANGED <<epoch, snapshot, dk>>
           /\ child' \notin Writing
           /\ child' \in BeforeFinal => child \in BeforeFinal
  <1> USE DEF RunTypeOK, Announcing, output, tees, files, ChildGoes, Live, Dead, Parts,
              Writing, BeforeFinal
  <1>1. CASE Announce
    BY <1>1 DEF Announce, SnapshotDir
  <1>2. CASE Load
    <2>1. dk.learnt \subseteq Problem
      BY FileFacts
    <2> QED
      BY <1>2, <2>1 DEF Load
  <1>3. CASE Exit
    BY <1>3 DEF Exit, Rest
  <1>4. CASE ChildFails
    BY <1>4 DEF ChildFails
  <1>5. CASE ChildKilled
    BY <1>5 DEF ChildKilled
  <1> QED
    BY <1>1, <1>2, <1>3, <1>4, <1>5 DEF QuietStep

\* A quiet step preserves the invariant.
LEMMA QuietStepInv ==
    ASSUME IInv, QuietStep, UNCHANGED driverVars
    PROVE  IInv'
  <1>1. RunTypeOK /\ TypeOK /\ Announcing
    BY DEF IInv, TypeOK
  <1>2. ChildStep \/ ChildFails \/ ChildKilled
    BY DEF QuietStep, ChildStep
  <1>3. /\ sup' = sup /\ chosen' = chosen /\ run' = run
        /\ child \in Live
    BY <1>2, ChildFrame
  <1>4. /\ RunTypeOK' /\ Announcing'
        /\ epoch' = epoch /\ snapshot' = snapshot /\ dk' = dk
        /\ child' \notin Writing
        /\ child' \in BeforeFinal => child \in BeforeFinal
    BY <1>1, QuietStepFacts
  <1>5. TypeOK'
    BY <1>1, <1>4 DEF TypeOK, driverVars
  <1>6. OneWriter'
    BY <1>3 DEF IInv, OneWriter, Live, Dead
  <1>7. Snapshots'
    BY <1>3, <1>4 DEF IInv, Snapshots
  <1>8. ChosenNewest' /\ DKBehind'
    BY <1>3, <1>4 DEF IInv, ChosenNewest, Saved, DKBehind
  <1> QED
    BY <1>4, <1>5, <1>6, <1>7, <1>8 DEF IInv

\* Writing a file: the three pairs of steps that start and finish it.
LEMMA SaveInv ==
    ASSUME IInv, StartSave \/ FinishSave, UNCHANGED driverVars
    PROVE  IInv'
  <1>1. RunTypeOK /\ TypeOK /\ Snapshots /\ DKBehind
    BY DEF IInv, TypeOK
  <1>2. /\ UNCHANGED <<sup, chosen, run, tasks, base, dk, tee_out, tee_err,
                       printed, flushed, logged>>
        /\ child \in BeforeFinal /\ child' \in Writing /\ child \in Live
    BY DEF StartSave, FinishSave, tees, output, ChildGoes, BeforeFinal,
           Writing, Live
  <1>3. PICK f \in File :
           /\ f.status # "absent" /\ f.run = run /\ f.num = epoch'
           /\ epoch' \in 1..MaxEpoch
           /\ epoch' \in {epoch, epoch + 1} /\ epoch \in Nat
           /\ epoch' = epoch => epoch >= 1
           /\ snapshot' = [snapshot EXCEPT ![epoch'] = f]
    <2>1. CASE StartSave
      <3>1. epoch' = epoch + 1 /\ epoch' \in 1..MaxEpoch /\ epoch \in Nat
        BY <1>1, <2>1, NumFacts DEF StartSave, RunTypeOK
      <3>2. epoch' \in Num
        BY <3>1, NumFacts
      <3>3. /\ Weights(epoch') \in File
            /\ Weights(epoch').run = run /\ Weights(epoch').num = epoch'
        BY <1>1, <3>2, WeightsFacts
      <3>4. /\ Torn(Weights(epoch')) \in File
            /\ Torn(Weights(epoch')).status = "torn"
            /\ Torn(Weights(epoch')).run = run
            /\ Torn(Weights(epoch')).num = epoch'
        BY <3>3, FileFacts
      <3>5. snapshot' = [snapshot EXCEPT ![epoch'] = Torn(Weights(epoch'))]
        BY <2>1 DEF StartSave
      <3>6. epoch' \in {epoch, epoch + 1} /\ (epoch' = epoch => epoch >= 1)
        BY <3>1
      <3> USE <3>4
      <3> WITNESS Torn(Weights(epoch')) \in File
      <3> QED
        BY <3>1, <3>4, <3>5, <3>6
    <2>2. CASE FinishSave
      <3>1. epoch' = epoch /\ epoch \in 1..MaxEpoch /\ epoch \in Nat
        BY <1>1, <2>2, NumFacts
        DEF FinishSave, RunTypeOK, Snapshots, ChildGoes, Writing
      <3>2. epoch \in Num
        BY <3>1, NumFacts
      <3>3. /\ Weights(epoch) \in File /\ Weights(epoch).status = "whole"
            /\ Weights(epoch).run = run /\ Weights(epoch).num = epoch
        BY <1>1, <3>2, WeightsFacts
      <3>4. snapshot' = [snapshot EXCEPT ![epoch'] = Weights(epoch)]
        BY <2>2, <3>1 DEF FinishSave
      <3>5. epoch' \in {epoch, epoch + 1} /\ epoch >= 1
        BY <3>1
      <3> USE <3>3
      <3> WITNESS Weights(epoch) \in File
      <3> QED
        BY <3>1, <3>3, <3>4, <3>5
    <2> QED
      BY <2>1, <2>2
  <1>4. snapshot \in [Num -> File] /\ 1..MaxEpoch \subseteq Num
    BY <1>1, NumFacts DEF RunTypeOK
  <1>5. snapshot' \in [Num -> File]
    BY <1>3, <1>4
  <1>6. TypeOK'
    <2>1. RunTypeOK'
      BY <1>1, <1>2, <1>3, <1>5, NumFacts DEF RunTypeOK, Writing, Live
    <2> QED
      BY <1>1, <2>1 DEF TypeOK, driverVars
  <1>7. Snapshots'
    <2>1. snapshot'[epoch'] = f /\ \A n \in Num : n # epoch' => snapshot'[n] = snapshot[n]
      BY <1>3, <1>4
    <2>2. \A n \in Num : snapshot'[n].status # "absent"
                            => snapshot'[n].run = run' /\ snapshot'[n].num = n
      BY <1>1, <1>2, <1>3, <2>1 DEF Snapshots
    <2>3. \A n \in 1..MaxEpoch : snapshot'[n].status # "absent" <=> n <= epoch'
      BY <1>1, <1>3, <1>4, <2>1 DEF Snapshots
    <2>4. snapshot'[Final].status = "absent"
      BY <1>1, <1>2, <1>3, <2>1, NumFacts DEF Snapshots
    <2> QED
      BY <1>3, <2>2, <2>3, <2>4 DEF Snapshots
  <1>8. OneWriter' /\ Announcing'
    BY <1>2 DEF IInv, OneWriter, Live, Dead, Announcing, Writing
  <1>9. ChosenNewest'
    BY <1>2 DEF IInv, OneWriter, ChosenNewest, Live, Dead
  <1>10. DKBehind'
    <2>1. snapshot[Final].status = "absent"
      BY <1>1, <1>2 DEF Snapshots
    <2>2. dk.num \in Nat
      BY <1>1, FileFacts DEF RunTypeOK
    <2> QED
      BY <1>1, <1>2, <1>3, <2>1, <2>2 DEF DKBehind
  <1> QED
    BY <1>6, <1>7, <1>8, <1>9, <1>10 DEF IInv

LEMMA CopyInv ==
    ASSUME IInv, StartCopy \/ FinishCopy, UNCHANGED driverVars
    PROVE  IInv' /\ ~Older(dk', dk)
  <1>1. RunTypeOK /\ TypeOK /\ Snapshots /\ DKBehind
    BY DEF IInv, TypeOK
  <1>2. /\ UNCHANGED <<sup, chosen, run, tasks, base, epoch, snapshot, tee_out,
                       tee_err, printed, flushed, logged>>
        /\ child \in Writing /\ child \in BeforeFinal /\ child \in Live
        /\ child' \in Live /\ child' # "booting"
        /\ child' \in BeforeFinal
        /\ dk' \in {Torn(snapshot[epoch]), snapshot[epoch]}
    BY DEF StartCopy, FinishCopy, tees, output, ChildGoes, BeforeFinal,
           Writing, Live
  <1>3. epoch \in 1..MaxEpoch /\ epoch \in Num /\ epoch \in Nat
    BY <1>1, <1>2, NumFacts DEF RunTypeOK, Snapshots
  <1>4. /\ snapshot[epoch] \in File
        /\ snapshot[epoch].run = run /\ snapshot[epoch].num = epoch
    BY <1>1, <1>3 DEF RunTypeOK, Snapshots
  <1>5. dk' \in File /\ dk'.run = run /\ dk'.num = epoch
    BY <1>2, <1>4, FileFacts
  <1>6. TypeOK'
    <2>1. RunTypeOK'
      BY <1>1, <1>2, <1>5 DEF RunTypeOK
    <2> QED
      BY <1>1, <2>1 DEF TypeOK, driverVars
  <1>7. Snapshots'
    BY <1>1, <1>2 DEF Snapshots
  <1>8. OneWriter' /\ Announcing'
    BY <1>2 DEF IInv, OneWriter, Live, Dead, Announcing
  <1>9. ChosenNewest'
    BY <1>2 DEF IInv, OneWriter, ChosenNewest, Live, Dead
  <1>10. run \in Nat
    BY <1>1 DEF RunTypeOK
  <1>11. DKBehind'
    BY <1>2, <1>3, <1>5, <1>10 DEF DKBehind
  <1>12. ~Older(dk', dk)
    <2>1. dk.run \in Nat /\ dk.num \in Nat
      BY <1>1, FileFacts DEF RunTypeOK
    <2>2. snapshot[Final].status = "absent"
      BY <1>1, <1>2 DEF Snapshots
    <2> QED
      BY <1>1, <1>3, <1>5, <1>10, <2>1, <2>2 DEF DKBehind, Older
  <1> QED
    BY <1>6, <1>7, <1>8, <1>9, <1>11, <1>12 DEF IInv

LEMMA FinalInv ==
    ASSUME IInv, StartFinal \/ FinishFinal, UNCHANGED driverVars
    PROVE  IInv'
  <1>1. RunTypeOK /\ TypeOK /\ Snapshots /\ DKBehind
    BY DEF IInv, TypeOK
  <1>2. /\ UNCHANGED <<sup, chosen, run, tasks, base, epoch, dk, tee_out,
                       tee_err, printed, flushed, logged>>
        /\ child' \in {"final", "evaluating"} /\ child \in Live
    BY DEF StartFinal, FinishFinal, tees, output, ChildGoes, Live
  <1>3. PICK f \in File :
           /\ f.status # "absent" /\ f.run = run /\ f.num = Final
           /\ snapshot' = [snapshot EXCEPT ![Final] = f]
    <2>1. /\ Weights(Final) \in File /\ Weights(Final).status = "whole"
          /\ Weights(Final).run = run /\ Weights(Final).num = Final
      BY <1>1, NumFacts, WeightsFacts
    <2>2. /\ Torn(Weights(Final)) \in File
          /\ Torn(Weights(Final)).status = "torn"
          /\ Torn(Weights(Final)).run = run /\ Torn(Weights(Final)).num = Final
      BY <2>1, FileFacts
    <2> QED
      BY <2>1, <2>2 DEF StartFinal, FinishFinal
  <1>4. snapshot \in [Num -> File] /\ Final \in Num
    BY <1>1, NumFacts DEF RunTypeOK
  <1>5. /\ snapshot' \in [Num -> File] /\ snapshot'[Final] = f
        /\ \A n \in Num : n # Final => snapshot'[n] = snapshot[n]
    BY <1>3, <1>4
  <1>6. TypeOK'
    <2>1. RunTypeOK'
      BY <1>1, <1>2, <1>5 DEF RunTypeOK, Live
    <2> QED
      BY <1>1, <2>1 DEF TypeOK, driverVars
  <1>7. Snapshots'
    <2>1. \A n \in Num : snapshot'[n].status # "absent"
                            => snapshot'[n].run = run' /\ snapshot'[n].num = n
      BY <1>1, <1>2, <1>3, <1>5 DEF Snapshots
    <2>2. \A n \in 1..MaxEpoch : snapshot'[n].status # "absent" <=> n <= epoch'
      BY <1>1, <1>2, <1>5, NumFacts DEF Snapshots
    <2> QED
      BY <1>2, <2>1, <2>2 DEF Snapshots, Writing, BeforeFinal
  <1>8. OneWriter' /\ Announcing'
    BY <1>2 DEF IInv, OneWriter, Live, Dead, Announcing
  <1>9. ChosenNewest'
    BY <1>2 DEF IInv, OneWriter, ChosenNewest, Live, Dead
  <1>10. DKBehind'
    BY <1>1, <1>2, <1>3, <1>5 DEF DKBehind
  <1> QED
    BY <1>6, <1>7, <1>8, <1>9, <1>10 DEF IInv

\* The tees only move output; the supervisor, until it collects, only stops
\* processes.
Stopping == Waited \/ TimedOut \/ StopTeeOut \/ StopTeeErr

LEMMA TeeAndStopInv ==
    ASSUME IInv, TeeStep \/ Stopping, UNCHANGED driverVars
    PROVE  IInv'
  <1>1. RunTypeOK /\ TypeOK
    BY DEF IInv, TypeOK
  <1>2. /\ UNCHANGED <<child, printed, flushed, tasks, base, epoch, snapshot,
                       dk, chosen, run>>
        /\ sup' = sup \/ sup' \in {"stop_tee_out", "stop_tee_err", "stop_child"}
        /\ logged' \in {logged, flushed}
        /\ tee_out' \in {tee_out, "ended", "killed"}
        /\ tee_err' \in {tee_err, "ended", "killed"}
    BY DEF TeeStep, TeeReads, TeeOutEnds, TeeErrEnds, Stopping, Waited,
           TimedOut, StopTeeOut, StopTeeErr, SupGoes, Stopped, tees, output,
           files
  <1>3. TypeOK'
    <2>1. RunTypeOK'
      BY <1>1, <1>2 DEF RunTypeOK
    <2> QED
      BY <1>1, <2>1 DEF TypeOK, driverVars
  <1>4. Snapshots' /\ DKBehind' /\ Announcing'
    BY <1>2 DEF IInv, Snapshots, DKBehind, Announcing
  <1>5. OneWriter' /\ ChosenNewest'
    BY <1>2 DEF IInv, OneWriter, ChosenNewest, Saved
  <1> QED
    BY <1>3, <1>4, <1>5 DEF IInv

\* The child is dead from StopChild on, so the snapshots Collect sees are the
\* last ones.
LEMMA StopChildInv ==
    ASSUME IInv, StopChild, UNCHANGED driverVars
    PROVE  IInv'
  <1>1. RunTypeOK /\ TypeOK /\ Snapshots
    BY DEF IInv, TypeOK
  <1>2. /\ UNCHANGED <<tee_out, tee_err, printed, flushed, logged, tasks, base,
                       epoch, snapshot, dk, chosen, run>>
        /\ sup' = "collect"
        /\ child' \in Dead
    BY <1>1 DEF StopChild, SupGoes, tees, output, files, RunTypeOK, Live, Dead
  <1>3. TypeOK'
    <2>1. RunTypeOK'
      BY <1>1, <1>2 DEF RunTypeOK
    <2> QED
      BY <1>1, <2>1 DEF TypeOK, driverVars
  <1>4. Snapshots' /\ Announcing'
    BY <1>1, <1>2 DEF Snapshots, Announcing, Dead, Writing, BeforeFinal
  <1>5. OneWriter' /\ ChosenNewest' /\ DKBehind'
    BY <1>2 DEF IInv, OneWriter, ChosenNewest, DKBehind
  <1> QED
    BY <1>3, <1>4, <1>5 DEF IInv

LEMMA CollectInv ==
    ASSUME IInv, Collect, UNCHANGED driverVars
    PROVE  IInv'
  <1>1. RunTypeOK /\ TypeOK /\ Snapshots
    BY DEF IInv, TypeOK
  <1>2. /\ UNCHANGED <<child, tee_out, tee_err, printed, flushed, logged, tasks,
                       base, epoch, snapshot, dk, run>>
        /\ sup = "collect"
        /\ \/ sup' = "raised" /\ chosen' = chosen
           \/ sup' = "returned" /\ Saved # {} /\ chosen' = Newest(Saved)
    BY DEF Collect, tees, output, files
  <1>3. ChosenNewest' /\ chosen' \in 0..Final
    <2>1. CASE sup' = "raised" /\ chosen' = chosen
      BY <1>1, <2>1 DEF ChosenNewest, RunTypeOK
    <2>2. CASE sup' = "returned" /\ Saved # {} /\ chosen' = Newest(Saved)
      <3>1. chosen' \in Saved /\ \A n \in Saved : n <= chosen'
        BY <1>1, <2>2, NewestFacts
      <3>2. Saved' = Saved
        BY <1>2 DEF Saved
      <3>3. chosen' \in 0..Final
        BY <3>1, NumFacts DEF Saved
      <3> QED
        BY <3>1, <3>2, <3>3 DEF ChosenNewest
    <2> QED
      BY <1>2, <2>1, <2>2
  <1>4. TypeOK'
    <2>1. RunTypeOK'
      BY <1>1, <1>2, <1>3 DEF RunTypeOK
    <2> QED
      BY <1>1, <2>1 DEF TypeOK, driverVars
  <1>5. Snapshots' /\ DKBehind' /\ OneWriter' /\ Announcing'
    BY <1>2 DEF IInv, Snapshots, DKBehind, OneWriter, Announcing
  <1> QED
    BY <1>3, <1>4, <1>5 DEF IInv

-----------------------------------------------------------------------------
(* The steps of the driver.                                                *)

LEMMA StartInv ==
    ASSUME IInv, NEW ps \in SUBSET Problem, Start(ps)
    PROVE  RunTypeOK' /\ (TypeOK' => IInv')
  <1>1. RunTypeOK /\ DKBehind
    BY DEF IInv, TypeOK
  <1>2. /\ sup' = "waiting" /\ child' = "booting" /\ printed' = 0 /\ epoch' = 0
        /\ run' = run + 1 /\ dk' = dk
        /\ snapshot' \in [Num -> File] /\ \A n \in Num : snapshot'[n] = NoFile
    BY NoFileFacts DEF Start
  <1>3. RunTypeOK'
    BY <1>1, <1>2, NumFacts
    DEF Start, RunTypeOK, Live, Parts
  <1>4. Snapshots'
    BY <1>2, NoFileFacts, NumFacts DEF Snapshots, Writing
  <1>5. OneWriter' /\ ChosenNewest' /\ Announcing'
    BY <1>2 DEF OneWriter, ChosenNewest, Announcing
  <1>6. DKBehind'
    <2>1. run \in Nat /\ dk.run \in Nat
      BY <1>1, FileFacts DEF RunTypeOK
    <2> QED
      BY <1>1, <1>2, <2>1 DEF DKBehind
  <1> QED
    BY <1>3, <1>4, <1>5, <1>6 DEF IInv

LEMMA ToSetType ==
    ASSUME NEW s \in Seq(Problem)
    PROVE  ToSet(s) \subseteq Problem
  BY DEF ToSet

LEMMA BeginRunInv ==
    ASSUME IInv, NextProblem \/ Retry
    PROVE  IInv'
  <1>1. TypeOK
    BY DEF IInv
  <1>2. CASE NextProblem
    <2>1. /\ problems \in Seq(Problem) /\ problems # <<>>
          /\ trained_problems \in Seq(Problem) /\ Len(trained_problems) >= 2
      BY <1>1, <1>2 DEF NextProblem, TypeOK
    <2>2. /\ Head(problems) \in Problem /\ Tail(problems) \in Seq(Problem)
          /\ Append(trained_problems, Head(problems)) \in Seq(Problem)
          /\ Len(Append(trained_problems, Head(problems))) >= 2
      BY <2>1
    <2>3. /\ problems' \in Seq(Problem)
          /\ trained_problems' \in Seq(Problem) /\ Len(trained_problems') >= 2
      BY <1>2, <2>2 DEF NextProblem
    <2>4. ToSet(trained_problems') \subseteq Problem
      BY <2>3, ToSetType
    <2>5. Start(ToSet(trained_problems'))
      BY <1>2 DEF NextProblem
    <2>6. RunTypeOK' /\ (TypeOK' => IInv')
      BY <2>4, <2>5, StartInv
    <2>7. TypeOK'
      BY <1>1, <1>2, <2>3, <2>6 DEF NextProblem, TypeOK
    <2> QED
      BY <2>6, <2>7
  <1>3. CASE Retry
    <2>1. trained_problems \o unsolved_problems \in Seq(Problem)
      BY <1>1 DEF TypeOK
    <2>2. ToSet(trained_problems \o unsolved_problems) \subseteq Problem
      BY <2>1, ToSetType
    <2>3. RunTypeOK' /\ (TypeOK' => IInv')
      BY <1>3, <2>2, StartInv DEF Retry
    <2>4. TypeOK'
      BY <1>1, <1>3, <2>3 DEF Retry, TypeOK, driverVars
    <2> QED
      BY <2>3, <2>4
  <1> QED
    BY <1>2, <1>3

\* Publishing the chosen snapshot: DK does not go back.
LEMMA PublishInv ==
    ASSUME IInv, StartPublish \/ Published
    PROVE  IInv' /\ ~Older(dk', dk)
  <1>1. RunTypeOK /\ TypeOK /\ Snapshots /\ DKBehind /\ ChosenNewest /\ OneWriter
    BY DEF IInv, TypeOK
  <1>2. /\ UNCHANGED <<child, tee_out, tee_err, printed, flushed, logged, tasks,
                       base, epoch, snapshot, chosen, run, problems,
                       trained_problems, unsolved_problems, tolerence>>
        /\ sup \in {"returned", "publishing"} /\ sup' \in {"publishing", "idle"}
        /\ dk' \in {Torn(snapshot[chosen]), snapshot[chosen]}
        /\ phase' \in {phase, "done"} /\ solved' \in {solved, TRUE}
    BY DEF StartPublish, Published, SupGoes, tees, output, driverVars
  <1>3. /\ chosen \in Num /\ snapshot[chosen].status # "absent"
        /\ \A n \in Num : snapshot[n].status # "absent" => n <= chosen
    BY <1>1, <1>2 DEF ChosenNewest, Saved
  <1>4. /\ snapshot[chosen] \in File
        /\ snapshot[chosen].run = run /\ snapshot[chosen].num = chosen
    BY <1>1, <1>3 DEF RunTypeOK, Snapshots
  <1>5. dk' \in File /\ dk'.run = run /\ dk'.num = chosen
    BY <1>2, <1>4, FileFacts
  <1>6. run \in Nat /\ epoch \in 0..MaxEpoch
    BY <1>1 DEF RunTypeOK
  <1>7. TypeOK'
    <2>1. RunTypeOK'
      BY <1>1, <1>2, <1>5 DEF RunTypeOK
    <2> QED
      BY <1>1, <1>2, <2>1 DEF TypeOK
  <1>8. Snapshots' /\ OneWriter' /\ Announcing'
    BY <1>1, <1>2 DEF IInv, Snapshots, OneWriter, Announcing
  <1>9. ChosenNewest'
    BY <1>1, <1>2 DEF ChosenNewest, Saved
  <1>10. chosen <= epoch \/ (chosen = Final /\ snapshot[Final].status # "absent")
    BY <1>1, <1>3, NumFacts DEF Snapshots
  <1>11. DKBehind'
    BY <1>2, <1>5, <1>6, <1>10 DEF DKBehind
  <1>12. ~Older(dk', dk)
    <2>1. dk.run \in Nat /\ dk.num \in Nat /\ chosen \in Nat
      BY <1>1, <1>3, FileFacts, NumFacts DEF RunTypeOK
    <2>2. dk.run = run => dk.num <= chosen
      <3>1. CASE dk.num = Final /\ snapshot[Final].status # "absent"
        BY <1>3, <3>1, NumFacts
      <3>2. CASE dk.num <= epoch /\ epoch >= 1
        <4>1. epoch \in 1..MaxEpoch /\ epoch \in Num
          BY <1>6, <3>2, NumFacts
        <4>2. snapshot[epoch].status # "absent"
          BY <1>1, <4>1 DEF Snapshots
        <4> QED
          BY <1>3, <2>1, <3>2, <4>1, <4>2, NumFacts
      <3>3. CASE dk.num <= epoch /\ epoch = 0
        BY <2>1, <3>3
      <3> QED
        BY <1>1, <1>6, <3>1, <3>2, <3>3, NumFacts DEF DKBehind
    <2> QED
      BY <1>1, <1>5, <1>6, <2>1, <2>2 DEF Older, DKBehind
  <1> QED
    BY <1>7, <1>8, <1>9, <1>11, <1>12 DEF IInv

LEMMA FailInv ==
    ASSUME IInv, CountInv, CurriculumFails \/ RetryFails
    PROVE  IInv'
  <1>1. TypeOK /\ RunTypeOK
    BY DEF IInv, TypeOK
  <1>2. /\ UNCHANGED <<child, tee_out, tee_err, printed, flushed, logged, tasks,
                       base, epoch, snapshot, dk, chosen, run, problems,
                       trained_problems>>
        /\ sup = "raised" /\ sup' = "idle" /\ solved' = FALSE
        /\ tolerence' = tolerence + 1
        /\ phase \in {"curriculum", "retry"}
        /\ phase' \in {"curriculum", "retry", "done"}
    BY <1>1 DEF CurriculumFails, RetryFails, SupGoes, tees, output, files, TypeOK
  <1>3. tolerence' \in 0..(MaxTolerence + 1)
    BY <1>1, <1>2, DriverAssumption DEF TypeOK, CountInv
  <1>4. unsolved_problems' \in Seq(Problem)
    <2>1. CASE CurriculumFails
      <3>1. trained_problems \in Seq(Problem) /\ Len(trained_problems) >= 2
        BY <1>1 DEF TypeOK
      <3>2. Last(trained_problems) \in Problem
        BY <3>1 DEF Last
      <3> QED
        BY <1>1, <2>1, <3>2 DEF CurriculumFails, TypeOK
    <2>2. CASE RetryFails
      BY <1>1, <2>2 DEF RetryFails, TypeOK
    <2> QED
      BY <2>1, <2>2
  <1>5. TypeOK'
    <2>1. RunTypeOK'
      BY <1>1, <1>2 DEF RunTypeOK
    <2> QED
      BY <1>1, <1>2, <1>3, <1>4, <2>1 DEF TypeOK
  <1>6. Snapshots' /\ DKBehind' /\ OneWriter' /\ ChosenNewest' /\ Announcing'
    BY <1>2
    DEF IInv, Snapshots, DKBehind, OneWriter, ChosenNewest, Announcing
  <1> QED
    BY <1>5, <1>6 DEF IInv

LEMMA FrameInv ==
    ASSUME IInv, CurriculumDone \/ UNCHANGED vars
    PROVE  IInv'
  <1>1. /\ UNCHANGED <<sup, child, tee_out, tee_err, printed, flushed, logged,
                       tasks, base, epoch, snapshot, dk, chosen, run, problems,
                       trained_problems, unsolved_problems, tolerence, solved>>
        /\ phase' \in {phase, "retry"}
    BY DEF CurriculumDone, vars, runVars
  <1>2. TypeOK'
    BY <1>1 DEF IInv, TypeOK, RunTypeOK
  <1>3. Snapshots' /\ DKBehind' /\ OneWriter' /\ ChosenNewest' /\ Announcing'
    BY <1>1
    DEF IInv, Snapshots, DKBehind, OneWriter, ChosenNewest, Saved, Announcing
  <1> QED
    BY <1>2, <1>3 DEF IInv

-----------------------------------------------------------------------------
(* Every step.                                                             *)

LEMMA IInvStep ==
    ASSUME IInv, CountInv, [Next]_vars
    PROVE  IInv'
  <1>1. CASE RunNext /\ UNCHANGED driverVars
    <2>1. CASE QuietStep
      BY <1>1, <2>1, QuietStepInv
    <2>2. CASE StartSave \/ FinishSave
      BY <1>1, <2>2, SaveInv
    <2>3. CASE StartCopy \/ FinishCopy
      BY <1>1, <2>3, CopyInv
    <2>4. CASE StartFinal \/ FinishFinal
      BY <1>1, <2>4, FinalInv
    <2>5. CASE TeeStep \/ Stopping
      BY <1>1, <2>5, TeeAndStopInv
    <2>6. CASE StopChild
      BY <1>1, <2>6, StopChildInv
    <2>7. CASE Collect
      BY <1>1, <2>7, CollectInv
    <2> QED
      BY <1>1, <2>1, <2>2, <2>3, <2>4, <2>5, <2>6, <2>7
      DEF RunNext, ChildStep, QuietStep, SupStep, Stopping
  <1>2. CASE NextProblem \/ Retry
    BY <1>2, BeginRunInv
  <1>3. CASE StartPublish \/ Published
    BY <1>3, PublishInv
  <1>4. CASE CurriculumFails \/ RetryFails
    BY <1>4, FailInv
  <1>5. CASE CurriculumDone \/ UNCHANGED vars
    BY <1>5, FrameInv
  <1> QED
    BY <1>1, <1>2, <1>3, <1>4, <1>5 DEF Next, DriverStep, Done

LEMMA CountInit == Init => CountInv
  <1> SUFFICES ASSUME Init PROVE CountInv
    OBVIOUS
  <1>1. Given \in Seq(Problem) /\ Len(Given) >= 2 /\ Len(Given) \in Nat
    BY DriverAssumption
  <1>2. Len(SubSeq(Given, 3, Len(Given))) = Len(Given) - 2
    <2>1. PICK n \in Nat : n = Len(Given)
      BY <1>1
    <2>2. n >= 2
      BY <1>1, <2>1
    <2>3. Len(SubSeq(Given, 3, n)) = n - 2
      BY <1>1, <2>1, <2>2
    <2> QED
      BY <2>1, <2>3
  <1>3. Taken = 0
    BY <1>1, <1>2 DEF Init, Taken
  <1> QED
    BY <1>3, DriverAssumption DEF Init, RunInit, CountInv

LEMMA CountStep ==
    ASSUME IInv, CountInv, [Next]_vars
    PROVE  CountInv'
  <1>1. TypeOK /\ RunTypeOK
    BY DEF IInv, TypeOK
  <1>2. /\ run \in Nat /\ tolerence \in Nat /\ Len(Given) \in Nat
        /\ problems \in Seq(Problem) /\ Len(problems) \in Nat
        /\ MaxCurriculum \in Nat /\ MaxTolerence \in Nat
        /\ MaxCurriculum < MaxTolerence
    BY <1>1, DriverAssumption DEF TypeOK, RunTypeOK
  <1>3. CASE RunNext /\ UNCHANGED driverVars
    <2>1. /\ UNCHANGED <<problems, tolerence, phase, run>>
          /\ sup' = "idle" => sup = "idle"
      BY <1>3
      DEF driverVars, RunNext, ChildStep, ChildFails, ChildKilled, Announce,
          Load, StartSave, FinishSave, StartCopy, FinishCopy, StartFinal,
          FinishFinal, Exit, TeeStep, TeeReads, TeeOutEnds, TeeErrEnds,
          SupStep, TimedOut, Waited, StopTeeOut, StopTeeErr, StopChild,
          Collect, SupGoes
    <2> QED
      BY <2>1 DEF CountInv, Taken
  <1>4. CASE NextProblem
    <2>1. problems # <<>> /\ problems' = Tail(problems)
      BY <1>4 DEF NextProblem
    <2>2. Len(problems') = Len(problems) - 1
      BY <1>2, <2>1
    <2>3. run' = run + 1 /\ phase = "curriculum" /\ UNCHANGED <<phase, tolerence>>
      BY <1>4 DEF NextProblem, Start
    <2> QED
      BY <1>2, <2>2, <2>3 DEF CountInv, Taken
  <1>5. CASE Retry
    <2>1. /\ sup = "idle" /\ sup' = "waiting" /\ run' = run + 1
          /\ phase = "retry" /\ UNCHANGED <<phase, tolerence, problems>>
      BY <1>5 DEF Retry, Start, driverVars
    <2> QED
      BY <1>2, <2>1 DEF CountInv, Taken
  <1>6. CASE CurriculumDone
    <2>1. /\ phase = "curriculum" /\ phase' = "retry"
          /\ UNCHANGED <<run, tolerence, problems>>
      BY <1>6 DEF CurriculumDone, runVars
    <2> QED
      BY <1>2, <2>1 DEF CountInv, Taken
  <1>7. CASE StartPublish
    <2>1. UNCHANGED <<run, tolerence, problems, phase>> /\ sup' = "publishing"
      BY <1>7 DEF StartPublish, driverVars, SupGoes
    <2> QED
      BY <2>1 DEF CountInv, Taken
  <1>8. CASE Published
    <2>1. /\ UNCHANGED <<run, tolerence, problems>>
          /\ phase' = IF phase = "retry" THEN "done" ELSE phase
      BY <1>8 DEF Published
    <2> QED
      BY <1>1, <1>2, <2>1 DEF CountInv, Taken, TypeOK
  <1>9. CASE CurriculumFails \/ RetryFails
    <2>1. /\ UNCHANGED <<run, problems>> /\ tolerence' = tolerence + 1
          /\ \/ /\ phase = "curriculum"
                /\ phase' = IF tolerence' > MaxCurriculum THEN "retry" ELSE phase
             \/ /\ phase = "retry"
                /\ phase' = IF tolerence' > MaxTolerence THEN "done" ELSE phase
      BY <1>9 DEF CurriculumFails, RetryFails
    <2> QED
      BY <1>2, <2>1 DEF CountInv, Taken
  <1>10. CASE UNCHANGED vars
    BY <1>10 DEF vars, CountInv, Taken
  <1> QED
    BY <1>3, <1>4, <1>5, <1>6, <1>7, <1>8, <1>9, <1>10
    DEF Next, DriverStep, Done

LEMMA Invariance == Spec => [](IInv /\ CountInv)
  <1>1. Init => IInv /\ CountInv
    BY IInvInit, CountInit
  <1>2. IInv /\ CountInv /\ [Next]_vars => (IInv /\ CountInv)'
    BY IInvStep, CountStep
  <1> QED
    BY <1>1, <1>2, PTL DEF Spec

-----------------------------------------------------------------------------
(* The theorems.                                                           *)

\* All variables keep their types, for any number of problems and epochs, any
\* limits and any faults: the tolerence never exceeds its limit by more than one.
THEOREM TypeCorrect == Spec => []TypeOK
  <1>1. IInv => TypeOK
    BY DEF IInv
  <1> QED
    BY <1>1, Invariance, PTL

\* The DK file has one writer at a time: when run_asnets_local returns or raises,
\* and when the driver publishes or starts the next run, the child is dead.
THEOREM OneWriterThm == Spec => []OneWriter
  <1>1. IInv => OneWriter
    BY DEF IInv
  <1> QED
    BY <1>1, Invariance, PTL

\* main_inner makes at most one run per problem after the second, and at most
\* MaxTolerence + 1 more, however runs fail or time out.
THEOREM RunsBoundedThm == Spec => []RunsBounded
  <1>1. IInv /\ CountInv => RunsBounded
    <2> SUFFICES ASSUME IInv, CountInv PROVE RunsBounded
      OBVIOUS
    <2>1. /\ run \in Nat /\ tolerence \in Nat /\ Len(problems) \in Nat
          /\ Len(Given) \in Nat /\ MaxTolerence \in Nat
          /\ phase \in {"curriculum", "retry", "done"}
      BY DriverAssumption DEF IInv, TypeOK, RunTypeOK
    <2> QED
      BY <2>1 DEF CountInv, Taken, RunsBounded
  <1> QED
    BY <1>1, Invariance, PTL

\* Neither the child nor the driver ever replaces the DK file by an older
\* snapshot, wherever the other was stopped.
THEOREM DKNeverOlderThm == Spec => DKNeverOlder
  <1>1. ASSUME IInv, CountInv, [Next]_vars
        PROVE  [~Older(dk', dk)]_vars
    <2>1. dk.run \in Nat /\ dk.num \in Nat
      <3>1. dk \in File
        BY <1>1 DEF IInv, TypeOK, RunTypeOK
      <3> QED
        BY <3>1, FileFacts
    <2>2. ~Older(dk, dk)
      BY <2>1 DEF Older
    <2>3. CASE UNCHANGED vars
      BY <2>3
    <2>4. CASE StartPublish \/ Published
      BY <2>4, PublishInv, <1>1
    <2>5. CASE (StartCopy \/ FinishCopy) /\ UNCHANGED driverVars
      BY <2>5, CopyInv, <1>1
    <2>6. CASE dk' = dk
      BY <2>2, <2>6
    <2>7. Next => \/ StartPublish \/ Published
                  \/ (StartCopy \/ FinishCopy) /\ UNCHANGED driverVars
                  \/ dk' = dk
      <3>1. ASSUME ChildFails \/ ChildKilled \/ TeeStep \/ SupStep \/ TimedOut
            PROVE  dk' = dk
        BY <3>1
        DEF files, ChildFails, ChildKilled, TeeStep, TeeReads, TeeOutEnds,
            TeeErrEnds, SupStep, TimedOut, Waited, StopTeeOut, StopTeeErr,
            StopChild, Collect
      <3>2. ASSUME ChildStep, ~(StartCopy \/ FinishCopy) PROVE dk' = dk
        BY <3>2
        DEF files, ChildStep, Announce, Load, StartSave, FinishSave,
            StartFinal, FinishFinal, Exit
      <3>3. ASSUME \/ NextProblem \/ CurriculumDone \/ Retry
                   \/ CurriculumFails \/ RetryFails \/ Done
            PROVE  dk' = dk
        BY <3>3
        DEF files, runVars, vars, NextProblem, CurriculumDone, Retry, Start,
            CurriculumFails, RetryFails, Done
      <3> QED
        BY <3>1, <3>2, <3>3 DEF Next, DriverStep, RunNext
    <2> QED
      BY <1>1, <2>3, <2>4, <2>5, <2>6, <2>7
  <1>2. IInv /\ CountInv /\ [Next]_vars => [~Older(dk', dk)]_vars
    BY <1>1
  <1> QED
    BY <1>2, Invariance, PTL DEF Spec, DKNeverOlder
-----------------------------------------------------------------------------
(* Without kills and time limits.                                          *)

\* Processes end by themselves: they finish or raise an exception.
Calm == "kill" \notin Faults /\ "timeout" \notin Faults

\* A file is torn only while somebody writes it; what a snapshot was trained on
\* is known; and so is what DK holds after a run that ended well.
WriterAtWork ==
    /\ \A n \in Num : snapshot[n].status = "torn" =>
          (child = "saving" /\ n = epoch) \/ (child = "final" /\ n = Final)
    /\ dk.status = "torn" => child = "copying" \/ sup = "publishing"

Learning ==
    /\ child \in {"booting", "loading"} =>
          \A n \in Num : snapshot[n].status = "absent"
    /\ \A n \in Num : snapshot[n].status # "absent" =>
          snapshot[n].learnt = base \cup Trained

LearntPublished ==
    /\ sup # "idle" \/ solved => run # 0
    /\ run # 0 => ToSet(trained_problems) \subseteq tasks
    /\ sup = "idle" /\ solved =>
          dk.status = "whole" /\ dk.run = run /\ Trained \subseteq dk.learnt

CalmInv ==
    /\ child # "killed"
    /\ sup \notin {"idle", "waiting"} => child \in Dead
    /\ WriterAtWork /\ Learning /\ LearntPublished

LEMMA WrittenFacts ==
    ASSUME NEW n \in Num, RunTypeOK
    PROVE  /\ Weights(n).status = "whole" /\ Weights(n).learnt = base \cup Trained
           /\ Torn(Weights(n)).status = "torn"
           /\ Torn(Weights(n)).learnt = base \cup Trained
  BY DEF Weights, Torn

LEMMA CalmInit ==
    ASSUME Calm, Init
    PROVE  CalmInv
  BY DEF Init, RunInit, NoFile, CalmInv, WriterAtWork, Learning, LearntPublished

\* The steps of the child.  It is alive, so the supervisor waits for it.
LEMMA CalmChild ==
    ASSUME Calm, IInv, CalmInv, ChildStep \/ ChildFails, UNCHANGED driverVars
    PROVE  CalmInv'
  <1>1. /\ sup = "waiting" /\ sup' = "waiting" /\ run' = run /\ tasks' = tasks
        /\ UNCHANGED driverVars
    <2>1. sup' = sup /\ run' = run /\ tasks' = tasks /\ child \in Live
      BY ChildFrame
    <2>2. sup = "waiting"
      BY <2>1 DEF IInv, OneWriter, CalmInv, Live, Dead
    <2> QED BY <2>1, <2>2
  <1>2. RunTypeOK /\ epoch \in 0..MaxEpoch /\ snapshot \in [Num -> File] /\ dk \in File
    BY DEF IInv, TypeOK, RunTypeOK
  <1>3. LearntPublished'
    BY <1>1 DEF CalmInv, LearntPublished, driverVars
  <1>4. ASSUME child' # "killed", WriterAtWork', Learning' PROVE CalmInv'
    BY <1>1, <1>3, <1>4 DEF CalmInv
  <1>5. CASE Announce \/ Exit \/ ChildFails
    <2>1. /\ UNCHANGED <<epoch, base, snapshot, dk>>
          /\ child \in {"booting", "loading", "training", "evaluating"}
          /\ child' \in {"booting", "loading", "exited", "failed"}
          /\ child' \in {"booting", "loading"} => child = "booting"
      BY <1>5 DEF Announce, Exit, ChildFails, ChildGoes, MayRaise, files
    <2> QED BY <1>1, <1>4, <2>1 DEF CalmInv, WriterAtWork, Learning, Trained
  <1>6. CASE Load
    <2>1. /\ child = "loading" /\ child' \in {"training", "failed"}
          /\ UNCHANGED <<epoch, snapshot, dk>>
      BY <1>6 DEF Load, files
    <2> QED BY <1>1, <1>4, <2>1 DEF CalmInv, WriterAtWork, Learning
  <1>7. CASE StartSave \/ FinishSave
    <2>1. PICK f : /\ snapshot' = [snapshot EXCEPT ![epoch'] = f]
                   /\ f.learnt = base \cup Trained
                   /\ f.status # "torn" \/ child' = "saving"
                   /\ f.status # "absent"
                   /\ epoch' \in Num /\ epoch' # Final
                   /\ UNCHANGED <<base, dk>>
                   /\ child \in {"training", "saving"} /\ child' \in {"saving", "saved"}
                   /\ child = "saving" => epoch' = epoch
      <3>1. CASE StartSave
        <4>1. epoch' = epoch + 1 /\ epoch' \in Num /\ epoch' # Final
          BY <1>2, <3>1, NumFacts DEF StartSave
        <4> QED BY <1>2, <3>1, <4>1, WrittenFacts DEF StartSave, ChildGoes
      <3>2. CASE FinishSave
        <4>1. child = "saving" /\ epoch' = epoch
          BY <3>2 DEF FinishSave, ChildGoes
        <4>2. epoch >= 1
          BY <4>1 DEF IInv, Snapshots, Writing
        <4>3. epoch' \in Num /\ epoch' # Final
          BY <1>2, <4>1, <4>2, NumFacts
        <4> QED BY <1>2, <3>2, <4>1, <4>3, WrittenFacts DEF FinishSave, ChildGoes
      <3> QED BY <1>7, <3>1, <3>2
    <2>2. \A n \in Num : snapshot'[n] = IF n = epoch' THEN f ELSE snapshot[n]
      BY <1>2, <2>1
    <2>3. WriterAtWork'
      <3>1. ASSUME NEW n \in Num, snapshot'[n].status = "torn"
            PROVE  child' = "saving" /\ n = epoch'
        <4>1. CASE n = epoch'
          BY <2>1, <2>2, <3>1, <4>1
        <4>2. CASE n # epoch'
          <5>1. snapshot[n].status = "torn"
            BY <2>2, <3>1, <4>2
          <5>2. child = "saving" /\ n = epoch
            BY <2>1, <5>1 DEF CalmInv, WriterAtWork
          <5> QED BY <2>1, <4>2, <5>2
        <4> QED BY <4>1, <4>2
      <3>2. dk'.status # "torn"
        BY <1>1, <2>1 DEF CalmInv, WriterAtWork
      <3> QED BY <3>1, <3>2 DEF WriterAtWork
    <2>4. Learning'
      BY <1>1, <2>1, <2>2 DEF CalmInv, Learning, Trained
    <2> QED BY <1>4, <2>1, <2>3, <2>4
  <1>8. CASE StartCopy \/ FinishCopy
    <2>1. /\ UNCHANGED <<epoch, base, snapshot>>
          /\ child \in {"saved", "copying"} /\ child' \in {"copying", "training"}
          /\ dk'.status # "torn" \/ child' = "copying"
      <3>1. CASE StartCopy
        BY <3>1 DEF StartCopy, ChildGoes
      <3>2. CASE FinishCopy
        <4>1. child = "copying" /\ child' = "training" /\ dk' = snapshot[epoch]
              /\ UNCHANGED <<epoch, base, snapshot>>
          BY <3>2 DEF FinishCopy, ChildGoes
        <4>2. epoch \in Num
          BY <1>2, <4>1, NumFacts DEF IInv, Snapshots, Writing
        <4>3. snapshot[epoch].status # "torn"
          BY <4>1, <4>2 DEF CalmInv, WriterAtWork
        <4> QED BY <4>1, <4>3
      <3> QED BY <1>8, <3>1, <3>2
    <2> QED BY <1>1, <1>4, <2>1 DEF CalmInv, WriterAtWork, Learning, Trained
  <1>9. CASE StartFinal \/ FinishFinal
    <2>1. PICK f : /\ snapshot' = [snapshot EXCEPT ![Final] = f]
                   /\ f.learnt = base \cup Trained
                   /\ f.status # "torn" \/ child' = "final"
                   /\ UNCHANGED <<base, dk, epoch>>
                   /\ child \in {"training", "final"} /\ child' \in {"final", "evaluating"}
      <3>1. CASE StartFinal
        BY <1>2, <3>1, NumFacts, WrittenFacts DEF StartFinal, ChildGoes
      <3>2. CASE FinishFinal
        BY <1>2, <3>2, NumFacts, WrittenFacts DEF FinishFinal, ChildGoes
      <3> QED BY <1>9, <3>1, <3>2
    <2>2. \A n \in Num : snapshot'[n] = IF n = Final THEN f ELSE snapshot[n]
      BY <1>2, <2>1
    <2>3. WriterAtWork'
      <3>1. ASSUME NEW n \in Num, snapshot'[n].status = "torn"
            PROVE  child' = "final" /\ n = Final
        <4>1. CASE n = Final
          BY <2>1, <2>2, <3>1, <4>1
        <4>2. CASE n # Final
          <5>1. snapshot[n].status = "torn"
            BY <2>2, <3>1, <4>2
          <5> QED BY <2>1, <4>2, <5>1 DEF CalmInv, WriterAtWork
        <4> QED BY <4>1, <4>2
      <3>2. dk'.status # "torn"
        BY <1>1, <2>1 DEF CalmInv, WriterAtWork
      <3> QED BY <3>1, <3>2 DEF WriterAtWork
    <2>4. Learning'
      BY <1>1, <2>1, <2>2 DEF CalmInv, Learning, Trained
    <2> QED BY <1>4, <2>1, <2>3, <2>4
  <1> QED BY <1>5, <1>6, <1>7, <1>8, <1>9 DEF ChildStep

\* The tees and the supervisor.  The child has ended before it is stopped.
LEMMA CalmSupervisor ==
    ASSUME Calm, IInv, CalmInv, TeeStep \/ SupStep \/ TimedOut, UNCHANGED driverVars
    PROVE  CalmInv'
  <1>1. /\ UNCHANGED <<epoch, base, tasks, run, snapshot, dk>>
        /\ sup' # "publishing" \/ sup = "publishing"
        /\ sup = "publishing" => sup' = "publishing"
        /\ sup' = "idle" => sup = "idle"
    BY DEF TeeStep, TeeReads, TeeOutEnds, TeeErrEnds, SupStep, TimedOut, Waited,
       StopTeeOut, StopTeeErr, StopChild, Collect, SupGoes, files
  <1>2. /\ child' = child
        /\ sup' \notin {"idle", "waiting"} => child \in Dead
        /\ sup # "idle" \/ sup' = sup
    BY DEF TeeStep, TeeReads, TeeOutEnds, TeeErrEnds, SupStep, TimedOut, Waited,
       StopTeeOut, StopTeeErr, StopChild, Collect, SupGoes, Calm, CalmInv, Live, Dead
  <1>3. WriterAtWork' /\ Learning'
    BY <1>1, <1>2 DEF CalmInv, WriterAtWork, Learning, Trained
  <1>4. LearntPublished'
    BY <1>1, <1>2 DEF CalmInv, LearntPublished, Trained, driverVars
  <1> QED BY <1>2, <1>3, <1>4 DEF CalmInv

\* A run begins.
LEMMA CalmBegin ==
    ASSUME Calm, IInv, CalmInv, NextProblem \/ Retry
    PROVE  CalmInv'
  <1>1. PICK ps : Start(ps) /\ ToSet(trained_problems') \subseteq ps
    <2>1. CASE NextProblem
      BY <2>1 DEF NextProblem
    <2>2. CASE Retry
      <3>1. trained_problems \in Seq(Problem) /\ unsolved_problems \in Seq(Problem)
        BY DEF IInv, TypeOK
      <3>2. ToSet(trained_problems) \subseteq ToSet(trained_problems \o unsolved_problems)
        BY <3>1 DEF ToSet
      <3> QED BY <2>2, <3>2 DEF Retry, driverVars
    <2> QED BY <2>1, <2>2
  <1>2. /\ sup = "idle" /\ sup' = "waiting" /\ child' = "booting" /\ dk' = dk
        /\ tasks' = ps /\ run' = run + 1 /\ run \in Nat
        /\ \A n \in Num : snapshot'[n] = NoFile
    BY <1>1 DEF Start, IInv, TypeOK, RunTypeOK
  <1>3. dk.status # "torn"
    BY <1>2 DEF IInv, OneWriter, CalmInv, WriterAtWork, Dead
  <1>4. WriterAtWork' /\ Learning'
    BY <1>2, <1>3, NoFileFacts DEF WriterAtWork, Learning
  <1>5. LearntPublished'
    BY <1>1, <1>2 DEF LearntPublished
  <1> QED BY <1>2, <1>4, <1>5 DEF CalmInv

\* A run is over.
LEMMA CalmEnd ==
    ASSUME Calm, IInv, CalmInv, StartPublish \/ Published \/ CurriculumFails \/ RetryFails
    PROVE  CalmInv'
  <1>1. /\ UNCHANGED <<child, epoch, base, tasks, run, snapshot, trained_problems, chosen>>
        /\ sup \in {"returned", "publishing", "raised"} /\ sup' \in {"publishing", "idle"}
        /\ child \in Dead
    BY DEF StartPublish, Published, CurriculumFails, RetryFails, SupGoes, driverVars,
       files, IInv, OneWriter
  <1>2. run # 0 /\ ToSet(trained_problems) \subseteq tasks
    BY <1>1 DEF CalmInv, LearntPublished
  <1>3. Learning'
    BY <1>1 DEF CalmInv, Learning, Trained
  <1>4. ASSUME dk'.status = "torn" => sup' = "publishing",
               sup' = "idle" /\ solved' =>
                  dk'.status = "whole" /\ dk'.run = run /\ Trained \subseteq dk'.learnt
        PROVE  CalmInv'
    <2>1. WriterAtWork'
      BY <1>1, <1>4 DEF CalmInv, WriterAtWork
    <2>2. LearntPublished'
      BY <1>1, <1>2, <1>4 DEF LearntPublished, Trained
    <2> QED BY <1>1, <1>3, <2>1, <2>2 DEF CalmInv
  <1>5. CASE StartPublish
    BY <1>4, <1>5 DEF StartPublish, SupGoes
  <1>6. CASE Published
    <2>1. sup = "publishing" /\ dk' = snapshot[chosen]
      BY <1>6 DEF Published, SupGoes
    <2>2. chosen \in Num /\ snapshot[chosen].status # "absent"
      BY <2>1 DEF IInv, ChosenNewest, Saved
    <2>3. snapshot[chosen].status # "torn"
      BY <1>1, <2>2 DEF CalmInv, WriterAtWork, Dead
    <2>4. snapshot[chosen].status = "whole"
      BY <2>2, <2>3 DEF IInv, TypeOK, RunTypeOK, File
    <2>5. snapshot[chosen].run = run /\ Trained \subseteq snapshot[chosen].learnt
      BY <2>2 DEF IInv, Snapshots, CalmInv, Learning
    <2> QED BY <1>4, <2>1, <2>4, <2>5
  <1>7. CASE CurriculumFails \/ RetryFails
    <2>1. dk' = dk /\ solved' = FALSE /\ sup = "raised"
      BY <1>7 DEF CurriculumFails, RetryFails, SupGoes, files
    <2>2. dk.status # "torn"
      BY <1>1, <2>1 DEF CalmInv, WriterAtWork, Dead
    <2> QED BY <1>4, <2>1, <2>2
  <1> QED BY <1>5, <1>6, <1>7

LEMMA CalmStep ==
    ASSUME Calm, IInv, CalmInv, [Next]_vars
    PROVE  CalmInv'
  <1>1. CASE RunNext /\ UNCHANGED driverVars
    <2>1. ~ChildKilled
      BY DEF ChildKilled, Calm
    <2> QED BY <1>1, <2>1, CalmChild, CalmSupervisor DEF RunNext
  <1>2. CASE NextProblem \/ Retry
    BY <1>2, CalmBegin
  <1>3. CASE StartPublish \/ Published \/ CurriculumFails \/ RetryFails
    BY <1>3, CalmEnd
  <1>4. CASE CurriculumDone \/ UNCHANGED vars
    <2>1. UNCHANGED <<child, epoch, base, tasks, run, snapshot, dk, sup, solved,
                      trained_problems>>
      BY <1>4 DEF CurriculumDone, vars, runVars
    <2>2. WriterAtWork' /\ Learning' /\ LearntPublished'
      BY <2>1 DEF CalmInv, WriterAtWork, Learning, LearntPublished, Trained
    <2> QED BY <2>1, <2>2 DEF CalmInv
  <1> QED BY <1>1, <1>2, <1>3, <1>4 DEF Next, DriverStep, Done

LEMMA CalmInvariance ==
    ASSUME Calm
    PROVE  Spec => []CalmInv
  <1>1. Init => CalmInv
    BY CalmInit
  <1>2. IInv /\ CalmInv /\ [Next]_vars => CalmInv'
    BY CalmStep
  <1> QED BY <1>1, <1>2, Invariance, PTL DEF Spec

\* As long as processes end by themselves, DK is whole whenever a run starts or
\* the driver ends: every writer of DK has finished.
THEOREM DKUsableThm ==
    ASSUME Calm
    PROVE  Spec => []DKUsable
  <1>1. IInv /\ CalmInv => DKUsable
    BY DEF IInv, OneWriter, CalmInv, WriterAtWork, Dead, DKUsable
  <1> QED BY <1>1, Invariance, CalmInvariance, PTL

\* As long as processes end by themselves, a run that ended well left in DK the
\* weights of that run, trained on every problem taken up that is not too large.
THEOREM SolvedMeansLearntThm ==
    ASSUME Calm
    PROVE  Spec => []SolvedMeansLearnt
  <1>1. CalmInv => SolvedMeansLearnt
    BY DEF CalmInv, LearntPublished, Trained, SolvedMeansLearnt
  <1> QED BY <1>1, CalmInvariance, PTL
-----------------------------------------------------------------------------
(* The refinement of Curriculum.                                           *)

\* Every run takes up the problems of the run before, and problems that failed
\* are still among those taken up.
Cumulative ==
    /\ tasks \subseteq ToSet(trained_problems)
    /\ ToSet(unsolved_problems) \subseteq ToSet(trained_problems)

\* Once the child has read DK, the file holds what the child started from and
\* nothing but what it started from and what this run trains on.
Loaded == child \in Live \ {"booting", "loading"} \/ Saved # {}

DKFollows ==
    /\ Loaded => base \subseteq dk.learnt /\ dk.learnt \subseteq base \cup Trained
    /\ sup = "publishing" => dk.learnt = base \cup Trained

\* The strengthening that the refinement needs.
KnowInv == Cumulative /\ DKFollows

\* The elements of a sequence.
LEMMA ToSetRange ==
    ASSUME NEW s \in Seq(Problem)
    PROVE  ToSet(s) = {s[i] : i \in 1..Len(s)}
  BY DEF ToSet

LEMMA ToSetFacts ==
    ASSUME NEW s \in Seq(Problem), NEW t \in Seq(Problem), NEW p \in Problem
    PROVE  /\ ToSet(Append(s, p)) = ToSet(s) \cup {p}
           /\ ToSet(s \o t) = ToSet(s) \cup ToSet(t)
           /\ s # <<>> => Last(s) \in ToSet(s) /\ Last(s) \in Problem
  <1> DEFINE a == Append(s, p)
             c == s \o t
  <1>1. ToSet(a) = ToSet(s) \cup {p}
    <2>1. a \in Seq(Problem) /\ Len(a) = Len(s) + 1
      OBVIOUS
    <2>2. \A i \in 1..Len(s) : a[i] = s[i]
      OBVIOUS
    <2>3. a[Len(s) + 1] = p
      OBVIOUS
    <2>4. ToSet(a) = {a[i] : i \in 1..Len(a)} /\ ToSet(s) = {s[i] : i \in 1..Len(s)}
      BY <2>1, ToSetRange
    <2>5. Len(s) \in Nat
      OBVIOUS
    <2> HIDE DEF a
    <2>6. 1..Len(a) = 1..Len(s) \cup {Len(s) + 1}
      BY <2>1, <2>5
    <2> QED BY <2>2, <2>3, <2>4, <2>6
  <1>2. ToSet(c) = ToSet(s) \cup ToSet(t)
    <2>1. c \in Seq(Problem) /\ Len(c) = Len(s) + Len(t)
      OBVIOUS
    <2>2. \A i \in 1..Len(s) : c[i] = s[i]
      OBVIOUS
    <2>3. \A i \in 1..Len(t) : c[Len(s) + i] = t[i]
      OBVIOUS
    <2>4. /\ ToSet(c) = {c[i] : i \in 1..Len(c)}
          /\ ToSet(s) = {s[i] : i \in 1..Len(s)} /\ ToSet(t) = {t[i] : i \in 1..Len(t)}
      BY <2>1, ToSetRange
    <2>5. Len(s) \in Nat /\ Len(t) \in Nat
      OBVIOUS
    <2> HIDE DEF c
    <2>6. \A i \in 1..Len(c) : i \in 1..Len(s) \/ (i - Len(s)) \in 1..Len(t)
      BY <2>1, <2>5
    <2>7. \A i \in 1..Len(c) : i = Len(s) + (i - Len(s))
      BY <2>5
    <2>8. \A i \in 1..Len(t) : Len(s) + i \in 1..Len(c)
      BY <2>1, <2>5
    <2>9. \A i \in 1..Len(s) : i \in 1..Len(c)
      BY <2>1, <2>5
    <2>10. ToSet(c) \subseteq ToSet(s) \cup ToSet(t)
      <3>1. ASSUME NEW i \in 1..Len(c) PROVE c[i] \in ToSet(s) \cup ToSet(t)
        <4>1. CASE i \in 1..Len(s)
          BY <2>2, <2>4, <4>1
        <4>2. CASE (i - Len(s)) \in 1..Len(t)
          <5>1. PICK j \in 1..Len(t) : i = Len(s) + j
            BY <2>7, <4>2
          <5> QED BY <2>3, <2>4, <5>1
        <4> QED BY <2>6, <4>1, <4>2
      <3> QED BY <2>4, <3>1
    <2>11. ToSet(s) \cup ToSet(t) \subseteq ToSet(c)
      BY <2>2, <2>3, <2>4, <2>8, <2>9
    <2> QED BY <2>10, <2>11
  <1>3. ASSUME s # <<>> PROVE Last(s) \in ToSet(s) /\ Last(s) \in Problem
    <2>1. Len(s) \in 1..Len(s)
      BY <1>3
    <2> QED BY <2>1 DEF Last, ToSet
  <1> QED BY <1>1, <1>2, <1>3

LEMMA KnowInit == Init => KnowInv
  <1> SUFFICES ASSUME Init PROVE KnowInv
    OBVIOUS
  <1>1. tasks = {} /\ ToSet(unsolved_problems) = {}
    BY DEF Init, RunInit, ToSet
  <1>2. ~Loaded /\ sup # "publishing"
    BY NoFileFacts DEF Init, RunInit, Loaded, Saved, Live
  <1> QED BY <1>1, <1>2 DEF KnowInv, Cumulative, DKFollows

\* DK changes only to what a snapshot of the run was trained on.
Learns == dk'.learnt = base \cup Trained

LEMMA DKWritten ==
    ASSUME IInv, CalmInv, \/ StartCopy \/ FinishCopy \/ StartPublish \/ Published
    PROVE  Learns /\ sup # "idle" /\ Loaded
  <1>1. RunTypeOK
    BY DEF IInv, TypeOK
  <1>2. ASSUME NEW n \in Num, snapshot[n].status # "absent",
               dk' = snapshot[n] \/ dk' = Torn(snapshot[n]), sup # "idle"
        PROVE  Learns /\ sup # "idle" /\ Loaded
    <2>1. snapshot[n].learnt = base \cup Trained
      BY <1>2 DEF CalmInv, Learning
    <2>2. Torn(snapshot[n]).learnt = snapshot[n].learnt
      BY <1>1, <1>2 DEF Torn, RunTypeOK, File
    <2> QED BY <1>2, <2>1, <2>2 DEF Learns, Loaded, Saved
  <1>3. CASE StartCopy \/ FinishCopy
    <2>1. child \in Writing /\ child \in Live
      BY <1>3 DEF StartCopy, FinishCopy, ChildGoes, Writing, Live
    <2>2. sup # "idle"
      BY <2>1 DEF IInv, OneWriter, Live, Dead
    <2>3. epoch \in Num /\ epoch \in 1..MaxEpoch /\ epoch <= epoch
      BY <1>1, <2>1, NumFacts DEF RunTypeOK, IInv, Snapshots
    <2>4. snapshot[epoch].status # "absent"
      BY <2>3 DEF IInv, Snapshots
    <2> QED BY <1>2, <1>3, <2>2, <2>3, <2>4 DEF StartCopy, FinishCopy
  <1>4. CASE StartPublish \/ Published
    <2>1. sup \in {"returned", "publishing"}
      BY <1>4 DEF StartPublish, Published, SupGoes
    <2>2. chosen \in Num /\ snapshot[chosen].status # "absent"
      BY <2>1 DEF IInv, ChosenNewest, Saved
    <2> QED BY <1>2, <1>4, <2>1, <2>2 DEF StartPublish, Published
  <1> QED BY <1>3, <1>4

\* A step that leaves DK and the lists of problems alone.
LEMMA KnowFrame ==
    ASSUME KnowInv, UNCHANGED <<tasks, base, dk, trained_problems, unsolved_problems>>,
           Loaded' => Loaded, sup' = "publishing" => sup = "publishing"
    PROVE  KnowInv'
  BY DEF KnowInv, Cumulative, DKFollows, Trained

\* A run begins: it takes up all that the last one took up.
LEMMA KnowBegin ==
    ASSUME IInv, KnowInv, NextProblem \/ Retry
    PROVE  /\ KnowInv' /\ tasks \subseteq tasks' /\ tasks' \subseteq Problem
           /\ dk' = dk /\ sup = "idle" /\ sup' # "idle"
           /\ UNCHANGED <<tolerence, phase>> /\ phase # "done"
  <1>1. /\ problems \in Seq(Problem) /\ trained_problems \in Seq(Problem)
        /\ unsolved_problems \in Seq(Problem)
    BY DEF IInv, TypeOK
  <1>2. /\ tasks' = ToSet(trained_problems')
        /\ ToSet(trained_problems) \subseteq ToSet(trained_problems')
        /\ trained_problems' \in Seq(Problem)
        /\ UNCHANGED unsolved_problems
    <2>1. CASE NextProblem
      <3>1. /\ trained_problems' = Append(trained_problems, Head(problems))
            /\ tasks' = ToSet(trained_problems') /\ UNCHANGED unsolved_problems
            /\ Head(problems) \in Problem
        BY <1>1, <2>1 DEF NextProblem, Start
      <3>2. ToSet(trained_problems') = ToSet(trained_problems) \cup {Head(problems)}
        BY <1>1, <3>1, ToSetFacts
      <3>3. trained_problems' \in Seq(Problem)
        BY <1>1, <3>1
      <3> QED BY <3>1, <3>2, <3>3
    <2>2. CASE Retry
      <3>1. /\ tasks' = ToSet(trained_problems \o unsolved_problems)
            /\ UNCHANGED <<trained_problems, unsolved_problems>>
        BY <2>2 DEF Retry, Start, driverVars
      <3>2. ToSet(trained_problems \o unsolved_problems)
               = ToSet(trained_problems) \cup ToSet(unsolved_problems)
        <4>1. PICK p \in Problem : TRUE
          BY <1>1 DEF IInv, TypeOK
        <4> QED BY <1>1, <4>1, ToSetFacts
      <3> QED BY <1>1, <3>1, <3>2 DEF KnowInv, Cumulative
    <2> QED BY <2>1, <2>2
  <1>3. /\ child' = "booting" /\ sup' = "waiting" /\ dk' = dk /\ sup = "idle"
        /\ UNCHANGED <<tolerence, phase>> /\ phase # "done"
        /\ snapshot' = [n \in Num |-> NoFile]
    BY DEF NextProblem, Retry, Start, driverVars
  <1>4. DKFollows'
    <2>1. Saved' = {}
      BY <1>3, NoFileFacts DEF Saved
    <2> QED BY <1>3, <2>1 DEF DKFollows, Loaded, Live
  <1>5. Cumulative' /\ tasks \subseteq tasks'
    BY <1>2 DEF KnowInv, Cumulative
  <1>6. tasks' \subseteq Problem
    BY <1>2, ToSetRange
  <1> QED BY <1>3, <1>4, <1>5, <1>6 DEF KnowInv

\* The child, except when it copies a snapshot to DK.
LEMMA KnowChild ==
    ASSUME IInv, CalmInv, KnowInv, ChildStep \/ ChildFails \/ ChildKilled,
           ~(StartCopy \/ FinishCopy), UNCHANGED driverVars
    PROVE  KnowInv' /\ dk' = dk
  <1>1. /\ UNCHANGED <<tasks, dk, trained_problems, unsolved_problems, sup>>
    BY DEF ChildStep, ChildFails, ChildKilled, Announce, Load, StartSave, FinishSave,
       StartFinal, FinishFinal, Exit, files, driverVars
  <1>2. CASE Load
    <2>1. CASE child' = "training"
      <3>1. base' = dk.learnt
        BY <1>2, <2>1 DEF Load
      <3>2. sup # "publishing"
        BY <1>2 DEF Load, IInv, OneWriter, Dead
      <3> QED BY <1>1, <3>1, <3>2 DEF KnowInv, Cumulative, DKFollows
    <2>2. CASE child' # "training"
      <3>1. child' = "failed" /\ UNCHANGED <<base, snapshot>>
        BY <1>2, <2>2 DEF Load, files
      <3>2. Loaded' => Loaded
        BY <3>1 DEF Loaded, Saved, Live
      <3> QED BY <1>1, <3>1, <3>2, KnowFrame
    <2> QED BY <1>1, <2>1, <2>2
  <1>3. CASE StartSave \/ FinishSave \/ StartFinal \/ FinishFinal
    <2>1. child \in Live \ {"booting", "loading"} /\ UNCHANGED base
      BY <1>3 DEF StartSave, FinishSave, StartFinal, FinishFinal, ChildGoes, Live
    <2>2. Loaded
      BY <2>1 DEF Loaded
    <2> QED BY <1>1, <2>1, <2>2, KnowFrame
  <1>4. CASE Announce \/ Exit \/ ChildFails \/ ChildKilled
    <2>1. /\ UNCHANGED <<base, snapshot>>
          /\ child' \in Live \ {"booting", "loading"} => child \in Live \ {"booting", "loading"}
      BY <1>4 DEF Announce, Exit, ChildFails, ChildKilled, ChildGoes, files, Live
    <2>2. Loaded' => Loaded
      BY <2>1 DEF Loaded, Saved
    <2> QED BY <1>1, <2>1, <2>2, KnowFrame
  <1> QED BY <1>2, <1>3, <1>4 DEF ChildStep

\* The tees and the supervisor.
LEMMA KnowSupervisor ==
    ASSUME KnowInv, TeeStep \/ SupStep \/ TimedOut, UNCHANGED driverVars
    PROVE  /\ KnowInv' /\ dk' = dk /\ tasks' = tasks
           /\ sup # "idle" => sup' # "idle"
           /\ sup = "idle" => sup' = "idle"
  <1>1. /\ UNCHANGED <<base, tasks, snapshot, dk, trained_problems, unsolved_problems>>
        /\ sup' = "publishing" => sup = "publishing"
        /\ sup # "idle" => sup' # "idle"
        /\ sup = "idle" => sup' = "idle"
    BY DEF TeeStep, TeeReads, TeeOutEnds, TeeErrEnds, SupStep, TimedOut, Waited,
       StopTeeOut, StopTeeErr, StopChild, Collect, SupGoes, files, driverVars
  <1>2. child' = child \/ child' = "killed"
    BY DEF TeeStep, TeeReads, TeeOutEnds, TeeErrEnds, SupStep, TimedOut, Waited,
       StopTeeOut, StopTeeErr, StopChild, Collect
  <1>3. Loaded' => Loaded
    BY <1>1, <1>2 DEF Loaded, Saved, Live
  <1> QED BY <1>1, <1>3, KnowFrame

\* The child or the driver writes DK.
LEMMA KnowWritten ==
    ASSUME IInv, CalmInv, KnowInv,
           \/ (StartCopy \/ FinishCopy) /\ UNCHANGED driverVars
           \/ StartPublish \/ Published
    PROVE  KnowInv' /\ tasks' = tasks /\ dk'.learnt = dk.learnt \cup Trained
  <1>1. Learns /\ Loaded
    BY DKWritten
  <1>2. UNCHANGED <<base, tasks, trained_problems, unsolved_problems>>
    BY DEF StartCopy, FinishCopy, StartPublish, Published, driverVars
  <1>3. dk'.learnt = base \cup Trained
    BY <1>1 DEF Learns
  <1>4. dk'.learnt = dk.learnt \cup Trained
    BY <1>1, <1>3 DEF KnowInv, DKFollows
  <1> QED BY <1>2, <1>3, <1>4 DEF KnowInv, Cumulative, DKFollows, Trained

\* A run failed: its new problem joins the unsolved ones.
LEMMA KnowFails ==
    ASSUME IInv, KnowInv, CurriculumFails \/ RetryFails
    PROVE  KnowInv' /\ tasks' = tasks /\ dk' = dk
  <1>1. /\ UNCHANGED <<base, tasks, snapshot, dk, child, trained_problems>>
        /\ sup' = "idle"
        /\ unsolved_problems' \in {unsolved_problems,
                                   Append(unsolved_problems, Last(trained_problems))}
    BY DEF CurriculumFails, RetryFails, SupGoes, files
  <1>2. DKFollows'
    BY <1>1 DEF KnowInv, DKFollows, Loaded, Saved, Trained
  <1>3. trained_problems \in Seq(Problem) /\ unsolved_problems \in Seq(Problem)
        /\ trained_problems # <<>>
    BY DEF IInv, TypeOK
  <1>4. PICK p : p = Last(trained_problems)
    OBVIOUS
  <1>5. p \in ToSet(trained_problems) /\ p \in Problem
    <2>1. PICK q \in Problem : q = trained_problems[1]
      BY <1>3
    <2> QED BY <1>3, <1>4, <2>1, ToSetFacts
  <1>6. ToSet(Append(unsolved_problems, p)) = ToSet(unsolved_problems) \cup {p}
    BY <1>3, <1>5, ToSetFacts
  <1>7. Cumulative'
    BY <1>1, <1>4, <1>5, <1>6 DEF KnowInv, Cumulative
  <1> QED BY <1>1, <1>2, <1>7 DEF KnowInv

\* Every step keeps the invariant and is a step of Curriculum, or a stutter.
LEMMA CurriculumStep ==
    ASSUME Calm, IInv, CountInv, CalmInv, KnowInv, [Next]_vars
    PROVE  KnowInv' /\ [Abstract!Next]_(Abstract!vars)
  <1> USE DEF Trained
  <1>1. CASE NextProblem \/ Retry
    <2>1. /\ KnowInv' /\ tasks \subseteq tasks' /\ tasks' \subseteq Problem
          /\ dk' = dk /\ sup = "idle" /\ sup' # "idle"
          /\ UNCHANGED <<tolerence, phase>> /\ phase # "done"
      BY <1>1, KnowBegin
    <2>2. Trained' \in SUBSET (Problem \ Large) /\ Trained \subseteq Trained'
      BY <2>1
    <2>3. Abstract!Begin
      BY <2>1, <2>2 DEF Abstract!Begin
    <2> QED BY <2>1, <2>3 DEF Abstract!Next
  <1>2. CASE RunNext /\ UNCHANGED driverVars /\ ~(StartCopy \/ FinishCopy)
    <2>1. KnowInv' /\ dk' = dk /\ tasks' = tasks /\ (sup' = "idle" <=> sup = "idle")
      <3>1. CASE ChildStep \/ ChildFails \/ ChildKilled
        BY <1>2, <3>1, KnowChild, ChildFrame
      <3>2. CASE TeeStep \/ SupStep \/ TimedOut
        BY <1>2, <3>2, KnowSupervisor
      <3> QED BY <1>2, <3>1, <3>2 DEF RunNext
    <2>2. UNCHANGED Abstract!vars
      BY <1>2, <2>1 DEF Abstract!vars, driverVars
    <2> QED BY <2>1, <2>2
  <1>3. CASE (StartCopy \/ FinishCopy) /\ UNCHANGED driverVars
    <2>1. KnowInv' /\ tasks' = tasks /\ dk'.learnt = dk.learnt \cup Trained
      BY <1>3, KnowWritten
    <2>2. sup # "idle" /\ sup' = sup
      BY <1>3, DKWritten DEF StartCopy, FinishCopy
    <2>3. Abstract!Learn
      BY <1>3, <2>1, <2>2 DEF Abstract!Learn, driverVars
    <2> QED BY <2>1, <2>3 DEF Abstract!Next
  <1>4. CASE StartPublish
    <2>1. KnowInv' /\ tasks' = tasks /\ dk'.learnt = dk.learnt \cup Trained
      BY <1>4, KnowWritten
    <2>2. /\ sup # "idle" /\ sup' # "idle" /\ UNCHANGED driverVars
      BY <1>4 DEF StartPublish, SupGoes
    <2>3. Abstract!Learn
      BY <2>1, <2>2 DEF Abstract!Learn, driverVars
    <2> QED BY <2>1, <2>3 DEF Abstract!Next
  <1>5. CASE Published
    <2>1. KnowInv' /\ tasks' = tasks /\ dk'.learnt = dk.learnt \cup Trained
      BY <1>5, KnowWritten
    <2>2. sup = "publishing" /\ sup' = "idle" /\ UNCHANGED tolerence
      BY <1>5 DEF Published, SupGoes
    <2>3. Trained \subseteq dk.learnt /\ dk'.learnt = dk.learnt
      BY <2>1, <2>2 DEF KnowInv, DKFollows
    <2>4. Abstract!Succeed
      BY <2>1, <2>2, <2>3 DEF Abstract!Succeed
    <2> QED BY <2>1, <2>4 DEF Abstract!Next
  <1>6. CASE CurriculumFails \/ RetryFails
    <2>1. KnowInv' /\ tasks' = tasks /\ dk' = dk
      BY <1>6, KnowFails
    <2>2. sup = "raised" /\ sup' = "idle" /\ tolerence' = tolerence + 1
      BY <1>6 DEF CurriculumFails, RetryFails, SupGoes
    <2>3. MaxTolerence \in Nat /\ MaxCurriculum \in Nat /\ MaxCurriculum < MaxTolerence
          /\ tolerence \in Nat
      BY DriverAssumption DEF IInv, TypeOK
    <2>4. tolerence <= MaxTolerence
      BY <1>6, <2>3 DEF CurriculumFails, RetryFails, CountInv
    <2>5. tolerence' = MaxTolerence + 1 => phase' = "done"
      <3>1. CASE CurriculumFails
        BY <2>2, <2>3, <3>1 DEF CurriculumFails, CountInv
      <3>2. CASE RetryFails
        BY <2>2, <2>3, <3>2 DEF RetryFails
      <3> QED BY <1>6, <3>1, <3>2
    <2>6. tolerence < MaxTolerence + 1
      BY <2>3, <2>4
    <2>7. Abstract!Fail
      BY <2>1, <2>2, <2>5, <2>6 DEF Abstract!Fail
    <2> QED BY <2>1, <2>7 DEF Abstract!Next
  <1>7. CASE CurriculumDone \/ UNCHANGED vars
    <2>1. /\ UNCHANGED <<tasks, base, dk, trained_problems, unsolved_problems, sup,
                         tolerence, child, snapshot>>
          /\ phase' = "done" <=> phase = "done"
      BY <1>7 DEF CurriculumDone, vars, runVars
    <2>2. Loaded' => Loaded
      BY <2>1 DEF Loaded, Saved
    <2>3. KnowInv'
      BY <2>1, <2>2, KnowFrame
    <2>4. UNCHANGED Abstract!vars
      BY <2>1 DEF Abstract!vars
    <2> QED BY <2>3, <2>4
  <1> QED BY <1>1, <1>2, <1>3, <1>4, <1>5, <1>6, <1>7 DEF Next, DriverStep, Done

\* As long as processes end by themselves, the driver, its training runs and the
\* files they write implement Curriculum: knowledge is gained round by round,
\* and every round that ends well has made what it learnt visible in DK.
THEOREM ImplementsCurriculumThm ==
    ASSUME Calm
    PROVE  Spec => ImplementsCurriculum
  <1>1. Init => Abstract!Init
    BY NoFileFacts DEF Init, RunInit, Abstract!Init, Trained, NoFile
  <1>2. Init => KnowInv
    BY KnowInit
  <1>3. /\ IInv /\ CountInv /\ CalmInv /\ KnowInv /\ [Next]_vars
        => KnowInv' /\ [Abstract!Next]_(Abstract!vars)
    BY CurriculumStep
  <1> QED
    BY <1>1, <1>2, <1>3, Invariance, CalmInvariance, PTL
    DEF Spec, ImplementsCurriculum, Abstract!Spec
=============================================================================
