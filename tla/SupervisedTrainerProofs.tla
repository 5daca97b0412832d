----------------------- MODULE SupervisedTrainerProofs ------------------------
(***************************************************************************)
(* Theorems about SupervisedTrainer, for every number of epochs, every     *)
(* sequence of success rates and all settings.                             *)
(*                                                                         *)
(* The inductive invariant says what best_rate stands for at every point   *)
(* of an epoch: the rate of the epoch in DK, except from the start of a    *)
(* save to the end of the copy.  The rest is relative to it.               *)
(***************************************************************************)
EXTENDS SupervisedTrainer, FiniteSetTheorems, TLAPS

\* The last epoch about which train has decided.
Judged == IF pc \in {"optimising", "deciding"} THEN iter_num - 1 ELSE iter_num

\* The last epoch that needs no save any more.
Stored == IF pc \in {"optimising", "deciding", "saving", "writing"}
          THEN iter_num - 1 ELSE iter_num

Busy == {"writing", "written", "copying"}

\* Where training is in its loop.
Flow ==
    /\ time_since_best <= Judged
    /\ keep_going \/ pc \in {"saving", "closing", "trained", "final",
                             "evaluating"} \cup Busy
    /\ data = {} => best_rate = None /\ pc \in {"extending", "optimising", "failed"}
    /\ best_rate = None =>
          /\ pc \in {"extending", "optimising", "deciding", "saving", "failed"}
          /\ iter_num <= IF pc = "extending" THEN 0 ELSE 1
          /\ time_since_best = 0 /\ keep_going
          /\ \A n \in 1..Final : snapshot[n] = "absent"
          /\ dk.status = "absent"
    /\ pc = "saving" => ShouldSave
    /\ error = "no_batches" => pc = "failed" /\ best_rate = None

\* What is in the snapshot directory.
Files ==
    /\ \A n \in Epoch : n > Stored /\ pc # "writing" => snapshot[n] = "absent"
    /\ \A n \in Epoch : n > iter_num => snapshot[n] = "absent"
    /\ pc \in {"written", "copying"} => snapshot[iter_num] = "whole"

\* What best_rate stands for.
Best ==
    /\ best_rate # None /\ pc \notin Busy =>
          /\ dk.status = "whole" /\ dk.epoch \in 1..Stored
          /\ best_rate = rates[dk.epoch]
          /\ \A n \in (dk.epoch + 1)..Stored : snapshot[n] = "absent"
    /\ pc \in Busy => best_rate = rates[iter_num]
    /\ pc = "copying" => dk.epoch = iter_num

\* Without forced saves it is the highest rate.
Highest ==
    save_every = 0 /\ best_rate # None =>
        \A n \in 1..(IF pc = "writing" THEN iter_num ELSE Stored) :
            rates[n] <= best_rate

Record(n) == \A earlier \in 1..n : rates[earlier] <= rates[n]

Records ==
    pc # "failed" =>
        \A n \in 1..Stored : Record(n) => snapshot[n] = "whole"

\* The epochs that time_since_best counts.
Streak ==
    /\ \A n \in (Judged - time_since_best + 1)..Judged :
          \/ rates[n] = best_rate
          \/ rates[n] >= Solved /\ best_rate \in Rate /\ best_rate >= Solved
    /\ ~keep_going /\ ~late =>
          /\ early_stop # 0 /\ time_since_best >= early_stop
          /\ best_rate \in Rate /\ best_rate >= Solved

IInv == TypeOK /\ Flow /\ Files /\ Best /\ Highest /\ Records /\ Streak

-----------------------------------------------------------------------------
(* Type correctness.                                                       *)

LEMMA InitIInv == Init => IInv
  <1> SUFFICES ASSUME Init PROVE IInv
    OBVIOUS
  <1> USE TrainerAssumption DEF Init, Epoch, Final, Rate
  <1>1. TypeOK
    BY DEF TypeOK
  <1>2. Flow /\ Files
    BY DEF Flow, Files, Judged, Stored, Busy
  <1>3. Best /\ Highest /\ Records
    BY DEF Best, Highest, Records, Record, Stored, Busy
  <1>4. Streak
    BY DEF Streak, Judged
  <1> QED BY <1>1, <1>2, <1>3, <1>4 DEF IInv

LEMMA ConstantFacts ==
    /\ MaxEpoch \in Nat /\ MaxEpoch >= 1
    /\ MaxRate \in Nat /\ Solved \in Nat
    /\ \A r \in Rate : r \in Nat
    /\ None \notin Rate
    /\ \A n \in Epoch : n \in 1..Final /\ n # Final
    /\ Final \in 1..Final
  BY TrainerAssumption DEF Rate, Epoch, Final

\* A count of epochs never exceeds MaxEpoch.
LEMMA TypeStep == TypeOK /\ Flow /\ [Next]_vars => TypeOK'
  <1> SUFFICES ASSUME TypeOK, Flow, [Next]_vars PROVE TypeOK'
    OBVIOUS
  <1> USE DEF TypeOK
  <1>a. iter_num \in Nat /\ iter_num <= MaxEpoch /\ time_since_best \in Nat
    BY ConstantFacts
  <1>b. pc \notin {"extending", "failed"} => iter_num \in Epoch
    BY ConstantFacts DEF Epoch
  <1>1. CASE Extend
    <2>1. iter_num' \in Epoch /\ iter_num' = iter_num + 1
      BY <1>1, <1>a, ConstantFacts DEF Extend, Epoch
    <2>2. data' \subseteq Problem
      BY <1>1 DEF Extend, Gathered
    <2>3. rates' \in [Epoch -> Rate]
      BY <1>1, <2>1 DEF Extend
    <2>4. iter_num' \in 0..MaxEpoch /\ iter_num' # 0
      BY <2>1, ConstantFacts DEF Epoch
    <2>5. pc' = "optimising"
      BY <1>1 DEF Extend
    <2> QED BY <1>1, <2>2, <2>3, <2>4, <2>5 DEF Extend, settings, progress
  <1>2. CASE ExtendFails
    BY <1>2 DEF ExtendFails, settings, progress
  <1>3. CASE Optimise
    BY <1>3 DEF Optimise, settings, progress
  <1>4. CASE Decide
    <2>1. time_since_best' \in 0..MaxEpoch
      <3>1. time_since_best <= iter_num - 1
        BY <1>4 DEF Decide, Flow, Judged
      <3>2. time_since_best' = 0 \/ time_since_best' = time_since_best + 1
        BY <1>4 DEF Decide
      <3> QED BY <3>1, <3>2, <1>a, ConstantFacts
    <2>2. keep_going' \in BOOLEAN
      BY <1>4, Zenon DEF Decide
    <2> QED BY <1>4, <2>1, <2>2 DEF Decide, settings
  <1>5. CASE StartSave
    <2>1. iter_num \in Epoch
      BY <1>5, <1>b DEF StartSave
    <2>2. best_rate' \in Rate
      BY <1>5, <2>1 DEF StartSave, total_succ_rate
    <2>3. snapshot' \in [1..Final -> {"absent", "torn", "whole"}]
      BY <1>5 DEF StartSave
    <2> QED BY <1>5, <2>2, <2>3 DEF StartSave, settings
  <1>6. CASE FinishSave
    BY <1>6 DEF FinishSave, settings, progress
  <1>7. CASE StartCopy
    BY <1>7 DEF StartCopy, settings, progress
  <1>8. CASE FinishCopy
    BY <1>8 DEF FinishCopy, settings, progress
  <1>9. CASE Close
    BY <1>9 DEF Close, AnotherEpoch, settings
  <1>10. CASE StartFinal
    BY <1>10 DEF StartFinal, settings, progress
  <1>11. CASE FinishFinal
    BY <1>11 DEF FinishFinal, settings, progress
  <1>12. CASE UNCHANGED vars
    BY <1>12 DEF vars
  <1> QED
    BY <1>1, <1>2, <1>3, <1>4, <1>5, <1>6, <1>7, <1>8, <1>9, <1>10, <1>11,
       <1>12 DEF Next, Ended

-----------------------------------------------------------------------------
(* What best_rate stands for.                                              *)

LEMMA FlowStep ==
    TypeOK /\ TypeOK' /\ Flow /\ [Next]_vars
        => Flow'
  <1> SUFFICES ASSUME TypeOK, TypeOK', Flow, [Next]_vars
               PROVE  Flow'
    OBVIOUS
  <1> USE ConstantFacts DEF TypeOK
  <1>1. CASE Extend
    BY <1>1 DEF Extend, Flow, Judged, Busy, settings, progress, Gathered
  <1>2. CASE ExtendFails
    BY <1>2 DEF ExtendFails, Flow, Judged, Busy, settings, progress
  <1>3. CASE Optimise
    BY <1>3 DEF Optimise, Flow, Judged, Busy, settings, progress
  <1>4. CASE Decide
    <2> USE <1>4 DEF Decide, settings
    <2>1. ShouldSave' <=> ShouldSave
      BY DEF ShouldSave, Better, total_succ_rate
    <2>2. time_since_best' <= Judged'
      <3>1. time_since_best' = 0 \/ time_since_best' = time_since_best + 1
        OBVIOUS
      <3>2. iter_num \in Nat /\ iter_num >= 1 /\ time_since_best \in Nat
        OBVIOUS
      <3>3. time_since_best <= iter_num - 1 /\ Judged' = iter_num
        BY DEF Flow, Judged
      <3> QED BY <3>1, <3>2, <3>3
    <2>3. best_rate = None =>
             pc' = "saving" /\ time_since_best' = 0 /\ UNCHANGED keep_going
      BY DEF ShouldSave, Better
    <2>4. data # {} /\ error # "no_batches"
      BY DEF Flow
    <2> QED BY <2>1, <2>2, <2>3, <2>4 DEF Flow, Busy
  <1>5. CASE StartSave
    <2>1. iter_num \in Epoch /\ best_rate' = rates[iter_num] /\ best_rate' # None
      BY <1>5 DEF StartSave, total_succ_rate, Epoch
    <2>2. data # {} /\ error # "no_batches"
      BY <1>5 DEF StartSave, Flow
    <2>3. time_since_best' <= Judged'
      BY <1>5 DEF StartSave, Flow, Judged
    <2> QED BY <1>5, <2>1, <2>2, <2>3 DEF StartSave, settings, Flow, Busy
  <1>6. CASE FinishSave
    BY <1>6 DEF FinishSave, Flow, Judged, Busy, settings, progress
  <1>7. CASE StartCopy
    BY <1>7 DEF StartCopy, Flow, Judged, Busy, settings, progress
  <1>8. CASE FinishCopy
    BY <1>8 DEF FinishCopy, Flow, Judged, Busy, settings, progress
  <1>9. CASE Close
    BY <1>9 DEF Close, Flow, Judged, Busy, AnotherEpoch, settings, progress
  <1>10. CASE StartFinal
    BY <1>10 DEF StartFinal, Flow, Judged, Busy, settings, progress
  <1>11. CASE FinishFinal
    BY <1>11 DEF FinishFinal, Flow, Judged, Busy, settings, progress
  <1>12. CASE UNCHANGED vars
    BY <1>12 DEF vars, Flow, Judged, ShouldSave, Better, total_succ_rate
  <1> QED
    BY <1>1, <1>2, <1>3, <1>4, <1>5, <1>6, <1>7, <1>8, <1>9, <1>10, <1>11,
       <1>12 DEF Next, Ended

LEMMA FilesStep ==
    TypeOK /\ TypeOK' /\ Flow /\ Files /\ [Next]_vars
        => Files'
  <1> SUFFICES ASSUME TypeOK, TypeOK', Flow, Files, [Next]_vars
               PROVE  Files'
    OBVIOUS
  <1> USE ConstantFacts DEF TypeOK, Files, Flow, Stored, Epoch, Final
  <1>1. CASE Extend
    BY <1>1 DEF Extend, settings, progress, Gathered
  <1>2. CASE ExtendFails
    BY <1>2 DEF ExtendFails, settings, progress
  <1>3. CASE Optimise
    BY <1>3 DEF Optimise, settings, progress
  <1>4. CASE Decide
    BY <1>4 DEF Decide, settings, progress
  <1>5. CASE StartSave
    BY <1>5 DEF StartSave, settings, progress
  <1>6. CASE FinishSave
    BY <1>6 DEF FinishSave, settings, progress
  <1>7. CASE StartCopy
    BY <1>7 DEF StartCopy, settings, progress
  <1>8. CASE FinishCopy
    BY <1>8 DEF FinishCopy, settings, progress
  <1>9. CASE Close
    BY <1>9 DEF Close, AnotherEpoch, settings, progress
  <1>10. CASE StartFinal
    BY <1>10 DEF StartFinal, settings, progress
  <1>11. CASE FinishFinal
    BY <1>11 DEF FinishFinal, settings, progress
  <1>12. CASE UNCHANGED vars
    BY <1>12 DEF vars
  <1> QED
    BY <1>1, <1>2, <1>3, <1>4, <1>5, <1>6, <1>7, <1>8, <1>9, <1>10, <1>11,
       <1>12 DEF Next, Ended

LEMMA BestStep ==
    TypeOK /\ TypeOK' /\ Flow /\ Files /\ Best /\ [Next]_vars
        => Best'
  <1> SUFFICES ASSUME TypeOK, TypeOK', Flow, Files, Best, [Next]_vars
               PROVE  Best'
    OBVIOUS
  <1> USE ConstantFacts DEF TypeOK, Best, Flow, Files, Stored, Busy, Epoch, Rate, Final, total_succ_rate
  <1>1. CASE Extend
    BY <1>1 DEF Extend, settings, progress, Gathered
  <1>2. CASE ExtendFails
    BY <1>2 DEF ExtendFails, settings, progress
  <1>3. CASE Optimise
    BY <1>3 DEF Optimise, settings, progress
  <1>4. CASE Decide
    BY <1>4 DEF Decide, settings, progress
  <1>5. CASE StartSave
    BY <1>5 DEF StartSave, settings, progress
  <1>6. CASE FinishSave
    BY <1>6 DEF FinishSave, settings, progress
  <1>7. CASE StartCopy
    BY <1>7 DEF StartCopy, settings, progress
  <1>8. CASE FinishCopy
    BY <1>8 DEF FinishCopy, settings, progress
  <1>9. CASE Close
    BY <1>9 DEF Close, AnotherEpoch, settings, progress
  <1>10. CASE StartFinal
    BY <1>10 DEF StartFinal, settings, progress
  <1>11. CASE FinishFinal
    BY <1>11 DEF FinishFinal, settings, progress
  <1>12. CASE UNCHANGED vars
    BY <1>12 DEF vars
  <1> QED
    BY <1>1, <1>2, <1>3, <1>4, <1>5, <1>6, <1>7, <1>8, <1>9, <1>10, <1>11,
       <1>12 DEF Next, Ended

LEMMA HighestStep ==
    TypeOK /\ TypeOK' /\ Flow /\ Best /\ Highest /\ [Next]_vars
        => Highest'
  <1> SUFFICES ASSUME TypeOK, TypeOK', Flow, Best, Highest, [Next]_vars
               PROVE  Highest'
    OBVIOUS
  <1> USE ConstantFacts DEF TypeOK, Highest, Flow, Best, Stored, Busy, Epoch, Rate, Final, total_succ_rate, ShouldSave, Better, FellBack, StopsEarly
  <1>1. CASE Extend
    BY <1>1 DEF Extend, settings, progress, Gathered
  <1>2. CASE ExtendFails
    BY <1>2 DEF ExtendFails, settings, progress
  <1>3. CASE Optimise
    BY <1>3 DEF Optimise, settings, progress
  <1>4. CASE Decide
    BY <1>4 DEF Decide, settings, progress
  <1>5. CASE StartSave
    <2> SUFFICES ASSUME save_every' = 0, NEW n \in 1..iter_num
                 PROVE  rates'[n] <= best_rate'
      BY <1>5 DEF StartSave, settings
    <2>1. /\ save_every = 0 /\ rates' = rates /\ best_rate' = rates[iter_num]
          /\ pc = "saving"
      BY <1>5 DEF StartSave, settings
    <2>2. iter_num \in Epoch /\ n \in Epoch
      BY <2>1
    <2>3. CASE n = iter_num
      BY <2>1, <2>2, <2>3
    <2>4. CASE n \in 1..(iter_num - 1)
      <3>1. n \in 1..Stored /\ pc # "writing" /\ iter_num # 1
        BY <2>1, <2>2, <2>4
      <3>2. best_rate # None
        BY <2>1, <2>2, <3>1
      <3>3. rates[n] <= best_rate
        BY <2>1, <3>1, <3>2
      <3>4. best_rate <= rates[iter_num]
        BY <2>1, <3>1, <3>2
      <3> QED BY <2>1, <2>2, <3>2, <3>3, <3>4
    <2> QED BY <2>2, <2>3, <2>4
  <1>6. CASE FinishSave
    BY <1>6 DEF FinishSave, settings, progress
  <1>7. CASE StartCopy
    BY <1>7 DEF StartCopy, settings, progress
  <1>8. CASE FinishCopy
    BY <1>8 DEF FinishCopy, settings, progress
  <1>9. CASE Close
    BY <1>9 DEF Close, AnotherEpoch, settings, progress
  <1>10. CASE StartFinal
    BY <1>10 DEF StartFinal, settings, progress
  <1>11. CASE FinishFinal
    BY <1>11 DEF FinishFinal, settings, progress
  <1>12. CASE UNCHANGED vars
    BY <1>12 DEF vars
  <1> QED
    BY <1>1, <1>2, <1>3, <1>4, <1>5, <1>6, <1>7, <1>8, <1>9, <1>10, <1>11,
       <1>12 DEF Next, Ended

LEMMA RecordsStep ==
    TypeOK /\ TypeOK' /\ Flow /\ Files /\ Best /\ Records /\ [Next]_vars
        => Records'
  <1> SUFFICES ASSUME TypeOK, TypeOK', Flow, Files, Best, Records, [Next]_vars
               PROVE  Records'
    OBVIOUS
  <1> USE ConstantFacts DEF TypeOK
  <1>1. CASE Extend
    <2>1. \A n \in 1..Stored' : n \in 1..Stored /\ snapshot'[n] = snapshot[n]
      BY <1>1 DEF Extend, Stored, Epoch, Final
    <2>2. \A n \in 1..Stored : Record(n)' => Record(n)
      BY <1>1 DEF Extend, Stored, Record, Epoch
    <2>3. pc # "failed"
      BY <1>1 DEF Extend
    <2> QED BY <2>1, <2>2, <2>3 DEF Records
  <1>2. CASE ExtendFails
    BY <1>2 DEF ExtendFails, Records, Record, Stored, Epoch,
        settings, progress
  <1>3. CASE Optimise
    BY <1>3 DEF Optimise, Records, Record, Stored, Epoch,
        settings, progress
  <1>4. CASE Decide
    <2>1. iter_num \in Epoch /\ iter_num \in Nat /\ rates' = rates
          /\ snapshot' = snapshot /\ iter_num' = iter_num
      BY <1>4 DEF Decide, Epoch
    <2>2. SUFFICES ASSUME NEW n \in 1..Stored', Record(n) PROVE snapshot[n] = "whole"
      BY <2>1 DEF Records, Record
    <2>3. n \in Nat /\ n >= 1 /\ n <= iter_num
      BY <1>4, <2>1 DEF Decide, Stored
    <2>4. CASE n < iter_num
      BY <1>4, <2>1, <2>2, <2>3, <2>4 DEF Decide, Stored, Records
    <2>5. CASE n = iter_num
      <3>1. ~ShouldSave
        BY <1>4, <2>1, <2>3, <2>5 DEF Decide, Stored
      <3>2. best_rate # None /\ best_rate \in Rate /\ ~(rates[iter_num] >= best_rate)
        BY <3>1 DEF ShouldSave, total_succ_rate
      <3>3. dk.epoch \in 1..n /\ best_rate = rates[dk.epoch]
        BY <1>4, <2>3, <2>5, <3>2 DEF Decide, Best, Busy, Stored
      <3>4. rates[dk.epoch] <= rates[n]
        BY <2>2, <3>3 DEF Record
      <3> QED BY <2>1, <2>5, <3>2, <3>3, <3>4
    <2> QED BY <2>3, <2>4, <2>5
  <1>5. CASE StartSave
    <2>1. \A n \in 1..Stored' : n \in 1..Stored /\ snapshot'[n] = snapshot[n]
      BY <1>5 DEF StartSave, Stored, Epoch, Final
    <2>2. \A n \in 1..Stored : Record(n)' => Record(n)
      BY <1>5 DEF StartSave, Stored, Record, Epoch
    <2>3. pc # "failed"
      BY <1>5 DEF StartSave
    <2> QED BY <2>1, <2>2, <2>3 DEF Records
  <1>6. CASE FinishSave
    BY <1>6 DEF FinishSave, Records, Record, Stored, Epoch,
        settings, progress
  <1>7. CASE StartCopy
    BY <1>7 DEF StartCopy, Records, Record, Stored, Epoch,
        settings, progress
  <1>8. CASE FinishCopy
    BY <1>8 DEF FinishCopy, Records, Record, Stored, Epoch,
        settings, progress
  <1>9. CASE Close
    BY <1>9 DEF Close, Records, Record, Stored, Epoch,
        AnotherEpoch, settings, progress
  <1>10. CASE StartFinal
    <2>1. \A n \in 1..Stored' : n \in 1..Stored /\ snapshot'[n] = snapshot[n]
      BY <1>10 DEF StartFinal, Stored, Epoch, Final
    <2>2. \A n \in 1..Stored : Record(n)' => Record(n)
      BY <1>10 DEF StartFinal, Stored, Record, Epoch
    <2>3. pc # "failed"
      BY <1>10 DEF StartFinal
    <2> QED BY <2>1, <2>2, <2>3 DEF Records
  <1>11. CASE FinishFinal
    <2>1. \A n \in 1..Stored' : n \in 1..Stored /\ snapshot'[n] = snapshot[n]
      BY <1>11 DEF FinishFinal, Stored, Epoch, Final
    <2>2. \A n \in 1..Stored : Record(n)' => Record(n)
      BY <1>11 DEF FinishFinal, Stored, Record, Epoch
    <2>3. pc # "failed"
      BY <1>11 DEF FinishFinal
    <2> QED BY <2>1, <2>2, <2>3 DEF Records
  <1>12. CASE UNCHANGED vars
    BY <1>12 DEF vars, Records, Record, Stored
  <1> QED
    BY <1>1, <1>2, <1>3, <1>4, <1>5, <1>6, <1>7, <1>8, <1>9, <1>10, <1>11,
       <1>12 DEF Next, Ended

LEMMA StreakStep ==
    TypeOK /\ TypeOK' /\ Flow /\ Best /\ Streak /\ [Next]_vars
        => Streak'
  <1> SUFFICES ASSUME TypeOK, TypeOK', Flow, Best, Streak, [Next]_vars
               PROVE  Streak'
    OBVIOUS
  <1> USE ConstantFacts DEF TypeOK
  <1>1. CASE Extend
    BY <1>1 DEF Extend, Streak, Flow, Judged, Busy,
        settings, progress, Gathered
  <1>2. CASE ExtendFails
    BY <1>2 DEF ExtendFails, Streak, Flow, Judged, Busy,
        settings, progress
  <1>3. CASE Optimise
    BY <1>3 DEF Optimise, Streak, Flow, Judged, Busy,
        settings, progress
  <1>4. CASE Decide
    <2> USE <1>4 DEF Decide, settings
    <2>1. /\ iter_num \in Epoch /\ iter_num \in Nat /\ Judged = iter_num - 1
          /\ Judged' = iter_num /\ time_since_best \in Nat
          /\ rates[iter_num] \in Rate
      BY DEF Judged, Epoch
    <2>2. CASE Better \/ FellBack
      <3>1. time_since_best' = 0 /\ keep_going' = keep_going
        BY <2>2
      <3>2. keep_going
        BY DEF Flow, Busy
      <3> QED BY <2>1, <3>1, <3>2 DEF Streak
    <2>3. CASE ~(Better \/ FellBack)
      <3>1. time_since_best' = time_since_best + 1
            /\ keep_going' = (keep_going /\ ~StopsEarly)
        BY <2>3
      <3>2. best_rate \in Rate /\ rates[iter_num] <= best_rate
            /\ (rates[iter_num] < best_rate => rates[iter_num] >= Solved)
        BY <2>1, <2>3 DEF Better, FellBack, total_succ_rate
      <3>3. ASSUME NEW n \in (Judged' - time_since_best' + 1)..Judged'
            PROVE  \/ rates[n] = best_rate
                   \/ rates[n] >= Solved /\ best_rate \in Rate /\ best_rate >= Solved
        <4>1. CASE n = iter_num
          BY <2>1, <3>2, <4>1
        <4>2. CASE n # iter_num
          <5>1. n \in (Judged - time_since_best + 1)..Judged
            BY <2>1, <3>1, <4>2
          <5> QED BY <5>1 DEF Streak
        <4> QED BY <4>1, <4>2
      <3>4. keep_going
        BY DEF Flow, Busy
      <3>5. ~keep_going' => StopsEarly
        BY <3>1, <3>4
      <3> QED BY <3>2, <3>3, <3>5 DEF Streak, StopsEarly
    <2> QED BY <2>2, <2>3
  <1>5. CASE StartSave
    <2>1. /\ iter_num \in Epoch /\ iter_num \in Nat /\ time_since_best \in Nat
          /\ Judged = iter_num /\ Judged' = iter_num
          /\ best_rate' = rates[iter_num] /\ best_rate' \in Rate
          /\ UNCHANGED <<rates, time_since_best, keep_going, late, early_stop>>
      BY <1>5 DEF StartSave, settings, progress, total_succ_rate, Judged, Epoch
    <2>2. CASE time_since_best = 0
      <3>1. keep_going \/ late
        BY <2>2, TrainerAssumption DEF Streak
      <3> QED BY <2>1, <2>2, <3>1 DEF Streak
    <2>3. CASE time_since_best # 0
      <3>1. \/ best_rate' = best_rate
            \/ best_rate' >= Solved /\ best_rate >= Solved
        <4>1. iter_num \in (Judged - time_since_best + 1)..Judged
          BY <2>1, <2>3
        <4> QED BY <2>1, <4>1 DEF Streak
      <3>2. CASE best_rate' = best_rate
        BY <2>1, <3>2 DEF Streak
      <3>3. CASE best_rate' >= Solved /\ best_rate >= Solved
        BY <2>1, <3>3 DEF Streak
      <3> QED BY <3>1, <3>2, <3>3
    <2> QED BY <2>2, <2>3
  <1>6. CASE FinishSave
    BY <1>6 DEF FinishSave, Streak, Flow, Judged, Busy,
        settings, progress
  <1>7. CASE StartCopy
    BY <1>7 DEF StartCopy, Streak, Flow, Judged, Busy,
        settings, progress
  <1>8. CASE FinishCopy
    BY <1>8 DEF FinishCopy, Streak, Flow, Judged, Busy,
        settings, progress
  <1>9. CASE Close
    BY <1>9 DEF Close, Streak, Flow, Judged, Busy,
        AnotherEpoch, settings, progress
  <1>10. CASE StartFinal
    BY <1>10 DEF StartFinal, Streak, Flow, Judged, Busy,
        settings, progress
  <1>11. CASE FinishFinal
    BY <1>11 DEF FinishFinal, Streak, Flow, Judged, Busy,
        settings, progress
  <1>12. CASE UNCHANGED vars
    BY <1>12 DEF vars, Streak, Judged
  <1> QED
    BY <1>1, <1>2, <1>3, <1>4, <1>5, <1>6, <1>7, <1>8, <1>9, <1>10, <1>11,
       <1>12 DEF Next, Ended

-----------------------------------------------------------------------------
(* The theorems.                                                           *)

LEMMA Invariance == Spec => []IInv
  <1>1. IInv /\ [Next]_vars => IInv'
    <2> SUFFICES ASSUME IInv, [Next]_vars PROVE IInv'
      OBVIOUS
    <2>1. TypeOK'
      BY TypeStep DEF IInv
    <2>2. Flow' /\ Files' /\ Best'
      BY <2>1, FlowStep, FilesStep, BestStep DEF IInv
    <2>3. Highest' /\ Records' /\ Streak'
      BY <2>1, HighestStep, RecordsStep, StreakStep DEF IInv
    <2> QED BY <2>1, <2>2, <2>3 DEF IInv
  <1> QED BY InitIInv, <1>1, PTL DEF Spec

\* All variables have their types; no epoch is begun after the last.
THEOREM TypeCorrect == Spec => []TypeOK
  <1>1. IInv => TypeOK
    BY DEF IInv
  <1> QED BY Invariance, <1>1, PTL

\* Early stopping means that each of the last early_stop epochs was over
\* solve_thresh, however best_rate was changed by forced saves in between.
THEOREM EarlyStopJustifiedThm == Spec => []EarlyStopJustified
  <1>1. IInv => EarlyStopJustified
    <2> SUFFICES ASSUME IInv, ~keep_going, ~late PROVE EarlyStopJustified
      BY DEF EarlyStopJustified
    <2> USE ConstantFacts
    <2>1. /\ early_stop \in Nat /\ time_since_best \in Nat /\ iter_num \in Nat
          /\ early_stop <= time_since_best /\ best_rate >= Solved
      BY TrainerAssumption DEF IInv, TypeOK, Streak
    <2>2. Judged = iter_num /\ time_since_best <= iter_num
      BY DEF IInv, Flow, Judged, Busy
    <2>3. \A n \in (iter_num - time_since_best + 1)..iter_num : rates[n] >= Solved
      BY <2>1, <2>2 DEF IInv, Streak
    <2> QED BY <2>1, <2>2, <2>3 DEF EarlyStopJustified
  <1> QED BY Invariance, <1>1, PTL

\* Every epoch as good as all before it has its snapshot.
THEOREM RecordsSavedThm == Spec => []RecordsSaved
  <1>1. IInv => RecordsSaved
    BY DEF IInv, Records, Record, Stored, RecordsSaved
  <1> QED BY Invariance, <1>1, PTL

\* Between epochs best_rate is the rate of the epoch whose weights DK holds.
THEOREM BestRateIsDKsThm == Spec => []BestRateIsDKs
  <1>1. IInv => BestRateIsDKs
    <2> SUFFICES ASSUME IInv, pc \in {"extending", "trained", "evaluating"},
                        iter_num > 0
                 PROVE  BestRateIsDKs
      BY DEF BestRateIsDKs
    <2>1. best_rate # None
      BY ConstantFacts DEF IInv, TypeOK, Flow
    <2> QED BY <2>1 DEF IInv, Best, Highest, Stored, Busy, BestRateIsDKs
  <1> QED BY Invariance, <1>1, PTL

\* Missing data ends training before anything is written, or not at all.
THEOREM NoBatchesOnlyAtStartThm == Spec => []NoBatchesOnlyAtStart
  <1>1. IInv => NoBatchesOnlyAtStart
    BY DEF IInv, Flow, NoBatchesOnlyAtStart
  <1> QED BY Invariance, <1>1, PTL

-----------------------------------------------------------------------------
(* Training is what RunLocal's child does.                                 *)

\* The last epoch that has a file.
Begun == IF pc = "writing" THEN iter_num ELSE Stored

\* With --save-every 1 every epoch has a file.
Numbered ==
    save_every = 1 /\ pc # "failed" =>
        \A n \in 1..Begun : snapshot[n] # "absent"

LEMMA NumberedStep ==
    TypeOK /\ TypeOK' /\ Numbered /\ [Next]_vars => Numbered'
  <1> SUFFICES ASSUME TypeOK, TypeOK', Numbered, [Next]_vars
               PROVE  Numbered'
    OBVIOUS
  <1> USE ConstantFacts DEF TypeOK, Numbered, Begun, Stored, Epoch, Final
  <1>1. CASE Extend
    BY <1>1 DEF Extend, settings, progress
  <1>2. CASE ExtendFails
    BY <1>2 DEF ExtendFails, settings, progress
  <1>3. CASE Optimise
    BY <1>3 DEF Optimise, settings, progress
  <1>4. CASE Decide
    <2>1. save_every = 1 => pc' = "saving"
      <3>1. save_every = 1 => iter_num % save_every = 0
        OBVIOUS
      <3> QED BY <1>4, <3>1 DEF Decide, ShouldSave
    <2> QED BY <1>4, <2>1 DEF Decide, settings
  <1>5. CASE StartSave
    BY <1>5 DEF StartSave, settings
  <1>6. CASE FinishSave
    BY <1>6 DEF FinishSave, settings, progress
  <1>7. CASE StartCopy
    BY <1>7 DEF StartCopy, settings, progress
  <1>8. CASE FinishCopy
    BY <1>8 DEF FinishCopy, settings, progress
  <1>9. CASE Close
    BY <1>9 DEF Close, settings
  <1>10. CASE StartFinal
    BY <1>10 DEF StartFinal, settings, progress
  <1>11. CASE FinishFinal
    BY <1>11 DEF FinishFinal, settings, progress
  <1>12. CASE UNCHANGED vars
    BY <1>12 DEF vars
  <1> QED
    BY <1>1, <1>2, <1>3, <1>4, <1>5, <1>6, <1>7, <1>8, <1>9, <1>10, <1>11,
       <1>12 DEF Next, Ended

\* With files 1 to n, the number of files is n.
LEMMA SavesCount ==
    ASSUME NEW files, NEW n \in 0..MaxEpoch,
           \A k \in 1..n : files[k] # "absent",
           \A k \in Epoch : k > n => files[k] = "absent"
    PROVE  Cardinality({k \in Epoch : files[k] # "absent"}) = n
  <1> USE ConstantFacts
  <1>1. {k \in Epoch : files[k] # "absent"} = 1..n
    BY DEF Epoch
  <1>2. Cardinality(1..n) = n
    BY FS_Interval
  <1> QED BY <1>1, <1>2

\* A step of training that the child's phase or files show is one of the
\* child's.
LEMMA ChildStepOrFailure ==
    IInv /\ IInv' /\ Numbered /\ Numbered' /\ [Next]_vars
        => [save_every = 1 => Child!ChildStep \/ Child!ChildFails]_
               <<ChildPhase, snapshot, dk>>
  <1> SUFFICES ASSUME IInv, IInv', Numbered, Numbered', [Next]_vars,
                      save_every = 1,
                      ~UNCHANGED <<ChildPhase, snapshot, dk>>
               PROVE  Child!ChildStep \/ Child!ChildFails
    OBVIOUS
  <1> USE ConstantFacts
  <1>0. save_every' = 1
    BY DEF Next, vars, Extend, ExtendFails, Optimise, Decide, StartSave,
           FinishSave, StartCopy, FinishCopy, Close, StartFinal, FinishFinal,
           Ended, settings
  <1>1. pc # "failed" => Cardinality(Saves) = Begun /\ Begun \in 0..MaxEpoch
    <2> SUFFICES ASSUME pc # "failed"
                 PROVE  Cardinality(Saves) = Begun /\ Begun \in 0..MaxEpoch
      OBVIOUS
    <2>1. Begun \in 0..MaxEpoch
      BY DEF IInv, TypeOK, Begun, Stored
    <2>2. \A k \in 1..Begun : snapshot[k] # "absent"
      BY DEF Numbered
    <2>3. \A k \in Epoch : k > Begun => snapshot[k] = "absent"
      BY DEF IInv, TypeOK, Files, Begun, Stored, Epoch
    <2> QED BY <2>1, <2>2, <2>3, SavesCount DEF Saves
  <1>2. pc' # "failed" => Cardinality(Saves)' = Begun'
    <2> SUFFICES ASSUME pc' # "failed" PROVE Cardinality(Saves)' = Begun'
      OBVIOUS
    <2>0. TypeOK' /\ Files'
      BY DEF IInv
    <2>1. Begun' \in 0..MaxEpoch
      <3>1. iter_num' \in 0..MaxEpoch /\ (pc' = "extending" \/ iter_num' # 0)
        BY <2>0 DEF TypeOK
      <3>2. Begun' = iter_num' \/ (pc' # "extending" /\ Begun' = iter_num' - 1)
        BY DEF Begun, Stored
      <3> QED BY <3>1, <3>2
    <2>2. \A k \in 1..Begun' : snapshot'[k] # "absent"
      BY <1>0 DEF Numbered
    <2>3. \A k \in Epoch : k > Begun' => snapshot'[k] = "absent"
      BY <2>0 DEF TypeOK, Files, Begun, Stored, Epoch
    <2> QED BY <2>1, <2>2, <2>3, SavesCount DEF Saves
  <1>3. ASSUME pc' = "failed", ChildPhase = "training", UNCHANGED <<snapshot, dk>>
        PROVE  Child!ChildFails
    <2>1. ChildPhase' = "failed"
      BY <1>3 DEF ChildPhase
    <2>2. Saves' = Saves
      BY <1>3 DEF Saves
    <2> QED BY <1>3, <2>1, <2>2 DEF Child!ChildFails, Child!MayRaise,
                Child!tees, Child!files
  <1>4. CASE Extend
    BY <1>4 DEF Extend, ChildPhase
  <1>5. CASE ExtendFails
    BY <1>3, <1>5 DEF ExtendFails, ChildPhase
  <1>6. CASE Optimise
    BY <1>3, <1>6 DEF Optimise, ChildPhase
  <1>7. CASE Decide
    BY <1>7 DEF Decide, ChildPhase
  <1>8. CASE StartSave
    <2>1. /\ ChildPhase = "training" /\ ChildPhase' = "saving"
          /\ dk' = dk /\ iter_num' = iter_num
      BY <1>8 DEF StartSave, ChildPhase
    <2>2. Begun = iter_num - 1 /\ Begun' = iter_num
      BY <1>8 DEF StartSave, Begun, Stored
    <2>3. /\ iter_num \in Epoch
          /\ Cardinality(Saves) = iter_num - 1 /\ Cardinality(Saves)' = iter_num
      BY <1>1, <1>2, <1>8, <2>2 DEF StartSave, IInv, TypeOK, Epoch
    <2>4. [n \in 1..Final |-> ToFile(snapshot[n], n)]'
            = [[n \in 1..Final |-> ToFile(snapshot[n], n)] EXCEPT
                 ![iter_num] = Child!Torn(Child!Weights(iter_num))]
      BY <1>8, <2>3 DEF StartSave, IInv, TypeOK, Epoch, ToFile, Weights,
                        Child!Torn, Child!Weights, Child!Trained
    <2> QED BY <2>1, <2>3, <2>4 DEF Child!ChildStep, Child!StartSave,
                Child!ChildGoes, Child!tees, Child!output, Epoch
  <1>9. CASE FinishSave
    <2>1. /\ ChildPhase = "saving" /\ ChildPhase' = "saved"
          /\ dk' = dk /\ iter_num' = iter_num
      BY <1>9 DEF FinishSave, ChildPhase
    <2>2. Begun = iter_num /\ Begun' = iter_num
      BY <1>9 DEF FinishSave, Begun, Stored
    <2>3. /\ iter_num \in Epoch
          /\ Cardinality(Saves) = iter_num /\ Cardinality(Saves)' = iter_num
      BY <1>1, <1>2, <1>9, <2>2 DEF FinishSave, IInv, TypeOK, Epoch
    <2>4. [n \in 1..Final |-> ToFile(snapshot[n], n)]'
            = [[n \in 1..Final |-> ToFile(snapshot[n], n)] EXCEPT
                 ![iter_num] = Child!Weights(iter_num)]
      BY <1>9, <2>3 DEF FinishSave, IInv, TypeOK, Epoch, ToFile, Weights,
                        Child!Weights, Child!Trained
    <2> QED BY <2>1, <2>3, <2>4 DEF Child!ChildStep, Child!FinishSave,
                Child!ChildGoes, Child!tees, Child!output
  <1>10. CASE StartCopy
    <2>1. /\ ChildPhase = "saved" /\ ChildPhase' = "copying"
          /\ snapshot' = snapshot /\ iter_num' = iter_num
      BY <1>10 DEF StartCopy, ChildPhase
    <2>2. Begun = iter_num /\ Begun' = iter_num
      BY <1>10 DEF StartCopy, Begun, Stored
    <2>3. /\ iter_num \in Epoch /\ iter_num \in 1..Final
          /\ Cardinality(Saves) = iter_num /\ Cardinality(Saves)' = iter_num
      BY <1>1, <1>2, <1>10, <2>2 DEF StartCopy, IInv, TypeOK, Epoch
    <2>4. ToFile(dk'.status, dk'.epoch)
            = Child!Torn(ToFile(snapshot[iter_num], iter_num))
      BY <1>10 DEF StartCopy, IInv, Files, ToFile, Weights, Child!Torn
    <2> QED BY <2>1, <2>3, <2>4 DEF Child!ChildStep, Child!StartCopy,
                Child!ChildGoes, Child!tees, Child!output
  <1>11. CASE FinishCopy
    <2>1. /\ ChildPhase = "copying" /\ ChildPhase' = "training"
          /\ snapshot' = snapshot /\ iter_num' = iter_num
      BY <1>11 DEF FinishCopy, ChildPhase
    <2>2. Begun = iter_num /\ Begun' = iter_num
      BY <1>11 DEF FinishCopy, Begun, Stored
    <2>3. /\ iter_num \in Epoch /\ iter_num \in 1..Final
          /\ Cardinality(Saves) = iter_num /\ Cardinality(Saves)' = iter_num
      BY <1>1, <1>2, <1>11, <2>2 DEF FinishCopy, IInv, TypeOK, Epoch
    <2>4. ToFile(dk'.status, dk'.epoch) = ToFile(snapshot[iter_num], iter_num)
      BY <1>11 DEF FinishCopy, IInv, TypeOK, Files, Best, ToFile, Weights
    <2> QED BY <2>1, <2>3, <2>4 DEF Child!ChildStep, Child!FinishCopy,
                Child!ChildGoes, Child!tees, Child!output
  <1>12. CASE Close
    BY <1>12 DEF Close, ChildPhase
  <1>13. CASE StartFinal
    <2>1. /\ ChildPhase = "training" /\ ChildPhase' = "final"
          /\ dk' = dk /\ iter_num' = iter_num
      BY <1>13 DEF StartFinal, ChildPhase
    <2>2. Begun = iter_num /\ Begun' = iter_num
      BY <1>13 DEF StartFinal, Begun, Stored
    <2>3. /\ iter_num > 0
          /\ Cardinality(Saves) = iter_num /\ Cardinality(Saves)' = iter_num
      BY <1>1, <1>2, <1>13, <2>2 DEF StartFinal, IInv, TypeOK
    <2>4. [n \in 1..Final |-> ToFile(snapshot[n], n)]'
            = [[n \in 1..Final |-> ToFile(snapshot[n], n)] EXCEPT
                 ![Final] = Child!Torn(Child!Weights(Final))]
      BY <1>13 DEF StartFinal, IInv, TypeOK, ToFile, Weights,
                   Child!Torn, Child!Weights, Child!Trained
    <2> QED BY <2>1, <2>3, <2>4 DEF Child!ChildStep, Child!StartFinal,
                Child!ChildGoes, Child!tees, Child!output, Child!Final, Final
  <1>14. CASE FinishFinal
    <2>1. /\ ChildPhase = "final" /\ ChildPhase' = "evaluating"
          /\ dk' = dk /\ iter_num' = iter_num
      BY <1>14 DEF FinishFinal, ChildPhase
    <2>2. Begun = iter_num /\ Begun' = iter_num
      BY <1>14 DEF FinishFinal, Begun, Stored
    <2>3. Cardinality(Saves) = iter_num /\ Cardinality(Saves)' = iter_num
      BY <1>1, <1>2, <1>14, <2>2 DEF FinishFinal, IInv, TypeOK
    <2>4. [n \in 1..Final |-> ToFile(snapshot[n], n)]'
            = [[n \in 1..Final |-> ToFile(snapshot[n], n)] EXCEPT
                 ![Final] = Child!Weights(Final)]
      BY <1>14 DEF FinishFinal, IInv, TypeOK, ToFile, Weights,
                   Child!Weights, Child!Trained
    <2> QED BY <2>1, <2>3, <2>4 DEF Child!ChildStep, Child!FinishFinal,
                Child!ChildGoes, Child!tees, Child!output, Child!Final, Final
  <1>15. CASE UNCHANGED vars
    BY <1>15 DEF vars, ChildPhase
  <1> QED
    BY <1>4, <1>5, <1>6, <1>7, <1>8, <1>9, <1>10, <1>11, <1>12, <1>13, <1>14,
       <1>15 DEF Next, Ended

\* With --save-every 1, training is what RunLocal lets a child do.
THEOREM ImplementsChildThm == Spec => ImplementsChild
  <1>1. Init => Numbered
    BY DEF Init, Numbered, Begun, Stored
  <1>2. IInv /\ IInv' /\ Numbered /\ [Next]_vars => Numbered'
    BY NumberedStep DEF IInv
  <1> QED BY Invariance, <1>1, <1>2, ChildStepOrFailure, PTL DEF Spec, ImplementsChild
=============================================================================
