------------------------ MODULE FDQValueCacheProofs --------------------------
(***************************************************************************)
(* Proofs about FDQValueCache, for every planning task, every plan length  *)
(* and every sequence of queries.                                          *)
(*                                                                         *)
(* Compute(s) is the only action that touches the cache, so everything it  *)
(* does is stated once, in the Compute lemmas; the invariance proofs then  *)
(* have one step per action of Next and cite them.                         *)
(***************************************************************************)
EXTENDS FDQValueCache, TLAPS

-----------------------------------------------------------------------------
(* Plans.                                                                  *)

\* What membership of Plans(s) says.
LEMMA PlanFacts ==
    ASSUME NEW s \in State, NEW plan \in Plans(s)
    PROVE  /\ IsPlan(plan)
           /\ plan[1].state = s
           /\ Len(plan) \in 1..MaxPlanLen
           /\ DOMAIN plan = 1..Len(plan)
           /\ \A i \in 1..Len(plan) :
                 /\ plan[i] \in PlanStep
                 /\ plan[i].state \in State
                 /\ plan[i].act \in Action
  <1>1. PICK n \in 1..MaxPlanLen : plan \in [1..n -> PlanStep]
    BY DEF Plans, AllPlans
  <1>2. n \in Nat
    BY BoundAssumption
  <1>3. Len(plan) = n /\ DOMAIN plan = 1..n
    BY <1>1, <1>2
  <1>4. \A i \in 1..n : plan[i] \in PlanStep
    BY <1>1
  <1> QED
    BY <1>1, <1>3, <1>4 DEF Plans, AllPlans, PlanStep

\* The rest of a plan, from any state it visits, is a plan for that state: a
\* state some plan visits has a solution.
LEMMA SuffixIsPlan ==
    ASSUME NEW s \in State, NEW plan \in Plans(s), NEW k \in 1..Len(plan)
    PROVE  Plans(plan[k].state) # {}
  <1> DEFINE n == Len(plan)
             m == n - k + 1
             rest == [i \in 1..m |-> plan[i + k - 1]]
  <1>1. /\ IsPlan(plan)
        /\ n \in 1..MaxPlanLen
        /\ DOMAIN plan = 1..n
        /\ \A i \in 1..n : plan[i] \in PlanStep
    BY PlanFacts
  <1>2. n \in Nat /\ k \in Nat /\ m \in 1..MaxPlanLen /\ m \in Nat
    BY <1>1, BoundAssumption
  <1>3. \A i \in 1..m : i + k - 1 \in 1..n
    BY <1>2
  <1>4. rest \in [1..m -> PlanStep]
    BY <1>1, <1>3
  <1>5. Len(rest) = m /\ DOMAIN rest = 1..m
    BY <1>2, <1>4
  <1>6. IsPlan(rest)
    <2>1. ASSUME NEW i \in 1..m
          PROVE  /\ ~Terminal(rest[i].state)
                 /\ rest[i].act \in Enabled[rest[i].state]
                 /\ IF i = m
                    THEN Succ[rest[i].state][rest[i].act] \in Goal
                    ELSE Succ[rest[i].state][rest[i].act] = rest[i + 1].state
      <3>1. rest[i] = plan[i + k - 1] /\ i + k - 1 \in 1..n
        BY <1>3
      <3>2. CASE i = m
        <4>1. i + k - 1 = n
          BY <1>2, <3>2
        <4> QED
          BY <1>1, <3>1, <3>2, <4>1 DEF IsPlan
      <3>3. CASE i # m
        <4>1. i + 1 \in 1..m /\ i + k - 1 # n
          BY <1>2, <3>3
        <4>2. rest[i + 1] = plan[(i + k - 1) + 1]
          <5>1. (i + 1) + k - 1 = (i + k - 1) + 1
            BY <1>2
          <5> QED
            BY <4>1, <5>1
        <4> QED
          BY <1>1, <3>1, <3>3, <4>1, <4>2 DEF IsPlan
      <3> QED
        BY <3>2, <3>3
    <2>2. \A i, j \in 1..m : rest[i].state = rest[j].state => i = j
      <3> SUFFICES ASSUME NEW i \in 1..m, NEW j \in 1..m,
                          rest[i].state = rest[j].state
                   PROVE  i = j
        OBVIOUS
      <3>1. i + k - 1 = j + k - 1
        BY <1>1, <1>3 DEF IsPlan
      <3> QED
        BY <1>2, <3>1
    <2> QED
      BY <1>5, <2>1, <2>2 DEF IsPlan
  <1>7. rest[1].state = plan[k].state
    BY <1>2
  <1>8. rest \in AllPlans
    <2>1. rest \in {p \in [1..m -> PlanStep] : IsPlan(p)}
      BY <1>4, <1>6
    <2> HIDE DEF rest, m
    <2> QED
      BY <1>2, <2>1 DEF AllPlans
  <1> QED
    BY <1>7, <1>8 DEF Plans

-----------------------------------------------------------------------------
(* What improving the cache with a plan does.                              *)

\* The entries a plan writes, one per state: the plan's action and its cost from
\* there on.  Every other entry stays.
LEMMA ImproveFacts ==
    ASSUME TypeOK, NEW s \in State, NEW plan \in Plans(s), Improve(plan)
    PROVE  /\ \A i \in Written(plan) :
                 /\ i \in 1..Len(plan)
                 /\ state_value_cache[plan[i].state] # None
                 /\ state_value_cache'[plan[i].state] = CostToGoal(plan, i)
                 /\ best_action_cache'[plan[i].state] = plan[i].act
           /\ \A t \in State :
                 (\A i \in Written(plan) : plan[i].state # t) =>
                     /\ state_value_cache'[t] = state_value_cache[t]
                     /\ best_action_cache'[t] = best_action_cache[t]
           /\ state_value_cache' \in [State -> Value]
           /\ best_action_cache' \in [State -> Best]
  <1> DEFINE new == {plan[i].state : i \in Written(plan)}
  <1>1. /\ DOMAIN plan = 1..Len(plan)
        /\ Len(plan) \in Nat
        /\ \A i \in 1..Len(plan) : plan[i].state \in State /\ plan[i].act \in Action
        /\ \A i, j \in 1..Len(plan) : plan[i].state = plan[j].state => i = j
    <2>1. /\ IsPlan(plan)
          /\ Len(plan) \in 1..MaxPlanLen
          /\ DOMAIN plan = 1..Len(plan)
          /\ \A i \in 1..Len(plan) : plan[i].state \in State /\ plan[i].act \in Action
      BY PlanFacts
    <2>2. Len(plan) \in Nat
      BY <2>1, BoundAssumption
    <2>3. \A i, j \in DOMAIN plan : plan[i].state = plan[j].state => i = j
      BY <2>1, Zenon DEF IsPlan
    <2> QED
      BY <2>1, <2>2, <2>3
  <1>2. \A i \in Written(plan) :
           /\ i \in 1..Len(plan)
           /\ state_value_cache[plan[i].state] # None
    BY <1>1 DEF Written, Reached
  <1>3. \A i \in Written(plan) : At(plan, plan[i].state) = i
    BY <1>1, <1>2 DEF At
  <1>4. \A i \in Written(plan) : CostToGoal(plan, i) \in Nat
    BY <1>1, <1>2 DEF CostToGoal
  <1>5. /\ state_value_cache' = [t \in State |->
              IF t \in new THEN CostToGoal(plan, At(plan, t))
              ELSE state_value_cache[t]]
        /\ best_action_cache' = [t \in State |->
              IF t \in new THEN plan[At(plan, t)].act
              ELSE best_action_cache[t]]
    BY DEF Improve
  <1>6. \A i \in Written(plan) : plan[i].state \in new
    OBVIOUS
  <1>7. \A i \in Written(plan) :
           /\ state_value_cache'[plan[i].state] = CostToGoal(plan, i)
           /\ best_action_cache'[plan[i].state] = plan[i].act
    <2> SUFFICES ASSUME NEW i \in Written(plan)
                 PROVE  /\ state_value_cache'[plan[i].state] = CostToGoal(plan, i)
                        /\ best_action_cache'[plan[i].state] = plan[i].act
      OBVIOUS
    <2> HIDE DEF new
    <2>1. plan[i].state \in State /\ plan[i].state \in new
      BY <1>1, <1>2, <1>6
    <2>2. At(plan, plan[i].state) = i
      BY <1>3
    <2> QED
      BY <1>5, <2>1, <2>2
  <1>8. \A t \in State :
           (\A i \in Written(plan) : plan[i].state # t) =>
               /\ state_value_cache'[t] = state_value_cache[t]
               /\ best_action_cache'[t] = best_action_cache[t]
    BY <1>5
  <1>9. \A t \in State : state_value_cache'[t] \in Value /\ best_action_cache'[t] \in Best
    <2> SUFFICES ASSUME NEW t \in State
                 PROVE  state_value_cache'[t] \in Value /\ best_action_cache'[t] \in Best
      OBVIOUS
    <2>1. CASE \E i \in Written(plan) : plan[i].state = t
      BY <1>1, <1>2, <1>4, <1>7, <2>1 DEF Value, Best, Cost
    <2>2. CASE \A i \in Written(plan) : plan[i].state # t
      BY <1>8, <2>2 DEF TypeOK
    <2> QED
      BY <2>1, <2>2
  <1>10. /\ state_value_cache' \in [State -> Value]
         /\ best_action_cache' \in [State -> Best]
    BY <1>5, <1>9
  <1> QED
    BY <1>2, <1>7, <1>8, <1>10

\* After a plan without clash, every state it visits has a cost, at most the
\* plan's own cost from there.
LEMMA VisitedStatesCosted ==
    ASSUME TypeOK, NEW s \in State, NEW plan \in Plans(s), Improve(plan),
           ~Clashes(plan), NEW i \in 1..Len(plan)
    PROVE  /\ state_value_cache'[plan[i].state] \in Nat
           /\ state_value_cache'[plan[i].state] <= CostToGoal(plan, i)
  <1>1. /\ DOMAIN plan = 1..Len(plan)
        /\ Len(plan) \in 1..MaxPlanLen
        /\ IsPlan(plan)
        /\ \A j \in 1..Len(plan) : plan[j].state \in State
    BY PlanFacts
  <1>2. Len(plan) \in Nat /\ i \in Nat /\ CostToGoal(plan, i) \in Nat
    BY <1>1, BoundAssumption DEF CostToGoal
  <1>3. CASE i \in Written(plan)
    BY <1>2, <1>3, ImproveFacts
  <1>4. CASE i \notin Written(plan)
    <2>1. i \in Reached(plan)
      BY <1>1 DEF Clashes
    <2>2. /\ state_value_cache[plan[i].state] # None
          /\ state_value_cache[plan[i].state] # Absent
          /\ ~(CostToGoal(plan, i) <= state_value_cache[plan[i].state])
      BY <1>2, <1>4, <2>1 DEF Written, Overwrites, Reached
    <2>3. state_value_cache[plan[i].state] \in Nat
      BY <1>1, <2>2 DEF TypeOK, Value, Cost
    <2>4. \A j \in Written(plan) : plan[j].state # plan[i].state
      <3>1. \A j \in Written(plan) : j \in DOMAIN plan
        BY DEF Written, Reached
      <3>2. \A j, k \in DOMAIN plan : plan[j].state = plan[k].state => j = k
        BY <1>1, Zenon DEF IsPlan
      <3> QED
        BY <1>1, <1>4, <3>1, <3>2
    <2>5. state_value_cache'[plan[i].state] = state_value_cache[plan[i].state]
      BY <1>1, <2>4, ImproveFacts
    <2> QED
      BY <1>2, <2>2, <2>3, <2>5
  <1> QED
    BY <1>3, <1>4

-----------------------------------------------------------------------------
(* What Compute does to the cache.                                         *)

\* Whatever Compute does leaves the dictionaries, the blacklist, the outcome and
\* the counters well typed.
LEMMA ComputeTypes ==
    ASSUME TypeOK, NEW s \in State, Compute(s)
    PROVE  /\ state_value_cache' \in [State -> Value]
           /\ best_action_cache' \in [State -> Best]
           /\ fd_blacklist' \subseteq State
           /\ ret' \in Outcome
           /\ fd_runs' \in [State -> Nat]
  <1> USE NoneAssumption DEF TypeOK, Outcome, Errors, Value, Best, Cost, cache
  <1>1. CASE CacheHit(s)
    BY <1>1 DEF CacheHit, Return
  <1>2. CASE TerminalMiss(s)
    BY <1>2 DEF TerminalMiss, Store, Return
  <1>3. CASE Blacklisted(s)
    BY <1>3 DEF Blacklisted, Raise
  <1>4. CASE FDTimesOut(s)
    BY <1>4 DEF FDTimesOut, RunFD, Raise
  <1>5. CASE FDBadOutput(s)
    BY <1>5 DEF FDBadOutput, RunFD, Raise
  <1>6. CASE FDNoPlan(s)
    BY <1>6 DEF FDNoPlan, RunFD, Store, Return
  <1>7. CASE FDPlan(s)
    <2>1. PICK plan \in Plans(s) :
             /\ Improve(plan)
             /\ IF Clashes(plan)
                THEN Raise(s, "TypeError")
                ELSE Return(s, state_value_cache'[s],
                            best_action_cache'[plan[Len(plan)].state])
      BY <1>7 DEF FDPlan
    <2>2. /\ state_value_cache' \in [State -> Value]
          /\ best_action_cache' \in [State -> Best]
      BY <2>1, ImproveFacts
    <2>3. plan[Len(plan)].state \in State
      <3>1. Len(plan) \in 1..MaxPlanLen /\ \A i \in 1..Len(plan) : plan[i].state \in State
        BY PlanFacts
      <3> QED
        BY <3>1, BoundAssumption
    <2>4. ret' \in Outcome
      BY <2>1, <2>2, <2>3 DEF Raise, Return
    <2>5. fd_runs' \in [State -> Nat] /\ fd_blacklist' \subseteq State
      BY <1>7 DEF FDPlan, RunFD
    <2> QED
      BY <2>2, <2>4, <2>5
  <1> QED
    BY <1>1, <1>2, <1>3, <1>4, <1>5, <1>6, <1>7 DEF Compute

\* A value that is returned is the cache's, and there is one.
LEMMA ComputeReturns ==
    ASSUME TypeOK, NEW s \in State, Compute(s), ret'.exc = "none"
    PROVE  /\ ret'.value = state_value_cache'[s]
           /\ ret'.value \in Nat \cup {None}
  <1> USE NoneAssumption DEF TypeOK, Value, Cost, Return, Raise, cache
  <1>1. CASE CacheHit(s)
    BY <1>1 DEF CacheHit
  <1>2. CASE TerminalMiss(s)
    BY <1>2 DEF TerminalMiss, Store
  <1>3. CASE Blacklisted(s) \/ FDTimesOut(s) \/ FDBadOutput(s)
    BY <1>3 DEF Blacklisted, FDTimesOut, FDBadOutput
  <1>4. CASE FDNoPlan(s)
    BY <1>4 DEF FDNoPlan, Store
  <1>5. CASE FDPlan(s)
    <2>1. PICK plan \in Plans(s) :
             /\ Improve(plan)
             /\ IF Clashes(plan)
                THEN Raise(s, "TypeError")
                ELSE Return(s, state_value_cache'[s],
                            best_action_cache'[plan[Len(plan)].state])
      BY <1>5 DEF FDPlan
    <2>2. ~Clashes(plan)
      BY <2>1
    <2>3. plan[1].state = s /\ 1 \in 1..Len(plan)
      <3>1. Len(plan) \in 1..MaxPlanLen /\ plan[1].state = s
        BY PlanFacts
      <3> QED
        BY <3>1, BoundAssumption
    <2>4. state_value_cache'[s] \in Nat
      BY <2>1, <2>2, <2>3, VisitedStatesCosted
    <2> QED
      BY <2>1, <2>2, <2>4
  <1> QED
    BY <1>1, <1>2, <1>3, <1>4, <1>5 DEF Compute

\* Compute never takes a cost away and never raises one.
LEMMA ComputeMonotone ==
    ASSUME TypeOK, NEW s \in State, Compute(s), NEW t \in State,
           state_value_cache[t] \in Nat
    PROVE  /\ state_value_cache'[t] \in Nat
           /\ state_value_cache'[t] <= state_value_cache[t]
  <1> USE NoneAssumption
  <1>1. CASE UNCHANGED cache
    BY <1>1 DEF cache
  <1>2. CASE TerminalMiss(s)
    BY <1>2 DEF TerminalMiss, Store, TypeOK
  <1>3. CASE FDNoPlan(s)
    BY <1>3 DEF FDNoPlan, RunFD, Store, TypeOK
  <1>4. CASE FDPlan(s)
    <2>1. PICK plan \in Plans(s) : Improve(plan)
      BY <1>4 DEF FDPlan
    <2>2. CASE \E i \in Written(plan) : plan[i].state = t
      <3>1. PICK i \in Written(plan) : plan[i].state = t
        BY <2>2
      <3>2. state_value_cache'[t] = CostToGoal(plan, i) /\ i \in 1..Len(plan)
        BY <2>1, <3>1, ImproveFacts
      <3>3. CostToGoal(plan, i) <= state_value_cache[t]
        BY <3>1 DEF Written, Overwrites
      <3>4. Len(plan) \in 1..MaxPlanLen
        BY PlanFacts
      <3>5. CostToGoal(plan, i) \in Nat
        BY <3>2, <3>4, BoundAssumption DEF CostToGoal
      <3> QED
        BY <3>2, <3>3, <3>5
    <2>3. CASE \A i \in Written(plan) : plan[i].state # t
      <3>1. state_value_cache'[t] = state_value_cache[t]
        BY <2>1, <2>3, ImproveFacts
      <3> QED
        BY <3>1
    <2> QED
      BY <2>2, <2>3
  <1> QED
    BY <1>1, <1>2, <1>3, <1>4
    DEF Compute, CacheHit, Blacklisted, FDTimesOut, FDBadOutput

\* A plan without clash leaves every entry truthful and ranked: what it writes
\* leads to the next state it visits, whose cost is now at most one less, and
\* what it does not write led to a state whose cost has not risen.
LEMMA ImproveSound ==
    ASSUME TypeOK, NEW s \in State, NEW plan \in Plans(s), Improve(plan),
           ~Clashes(plan), \A t \in State : EntryOK(t) /\ Ranked(t),
           \A t \in State : state_value_cache[t] \in Nat =>
               /\ state_value_cache'[t] \in Nat
               /\ state_value_cache'[t] <= state_value_cache[t],
           NEW t \in State
    PROVE  (EntryOK(t) /\ Ranked(t))'
  <1> USE NoneAssumption, TaskAssumption
  <1>1. /\ DOMAIN plan = 1..Len(plan)
        /\ Len(plan) \in 1..MaxPlanLen
        /\ IsPlan(plan)
        /\ \A i \in 1..Len(plan) : plan[i].state \in State /\ plan[i].act \in Action
    BY PlanFacts
  <1>2. Len(plan) \in Nat /\ MaxPlanLen \in Nat
    BY <1>1, BoundAssumption
  <1>3. CASE \A i \in Written(plan) : plan[i].state # t
    <2>1. /\ state_value_cache'[t] = state_value_cache[t]
          /\ best_action_cache'[t] = best_action_cache[t]
      BY <1>3, ImproveFacts
    <2>2. EntryOK(t)'
      BY <2>1 DEF EntryOK, Terminal, Plans, AllPlans, IsPlan
    <2>3. Ranked(t)'
      <3> SUFFICES ASSUME state_value_cache'[t] \in Nat, ~Terminal(t)
                   PROVE  Supports(t, best_action_cache[t], state_value_cache[t])'
        BY <2>1 DEF Ranked, Terminal, Supports
      <3> DEFINE u == Succ[t][best_action_cache[t]]
      <3>1. Supports(t, best_action_cache[t], state_value_cache[t])
        BY <2>1 DEF Ranked
      <3>2. best_action_cache[t] \in Enabled[t] /\ u \in State
        BY <3>1 DEF Supports
      <3>3. CASE u \in Goal /\ state_value_cache[t] >= 1
        BY <2>1, <3>2, <3>3 DEF Supports
      <3>4. CASE /\ ~Terminal(u)
                 /\ state_value_cache[u] \in Nat
                 /\ state_value_cache[u] < state_value_cache[t]
        <4>1. /\ state_value_cache'[u] \in Nat
              /\ state_value_cache'[u] <= state_value_cache[u]
          BY <3>2, <3>4
        <4>2. state_value_cache'[u] < state_value_cache'[t]
          BY <2>1, <3>4, <4>1
        <4>3. ~Terminal(u)'
          BY <2>1, <3>4 DEF Terminal
        <4> QED
          BY <2>1, <3>2, <4>1, <4>2, <4>3 DEF Supports
      <3> QED
        BY <3>1, <3>3, <3>4 DEF Supports
    <2> QED
      BY <2>2, <2>3
  <1>4. CASE \E i \in Written(plan) : plan[i].state = t
    <2>1. PICK i \in Written(plan) : plan[i].state = t
      BY <1>4
    <2>2. /\ i \in 1..Len(plan)
          /\ state_value_cache'[t] = CostToGoal(plan, i)
          /\ best_action_cache'[t] = plan[i].act
      BY <2>1, ImproveFacts
    <2>3. CostToGoal(plan, i) \in 1..MaxPlanLen
      BY <1>1, <1>2, <2>2 DEF CostToGoal
    <2>4. /\ ~Terminal(t)
          /\ plan[i].act \in Enabled[t]
          /\ i = Len(plan) => Succ[t][plan[i].act] \in Goal
          /\ i # Len(plan) => Succ[t][plan[i].act] = plan[i + 1].state
      BY <1>1, <2>1, <2>2, Zenon DEF IsPlan
    <2>5. EntryOK(t)'
      <3>1. state_value_cache'[t] \in Nat /\ state_value_cache'[t] \in 1..MaxPlanLen
        BY <1>2, <2>2, <2>3
      <3>2. state_value_cache'[t] # Absent /\ state_value_cache'[t] # None
        BY <3>1
      <3>3. best_action_cache'[t] # Absent
        BY <1>1, <2>2
      <3>4. t \notin Goal /\ ~Terminal(t)'
        BY <2>4 DEF Terminal
      <3> QED
        BY <3>1, <3>2, <3>3, <3>4 DEF EntryOK
    <2>6. /\ plan[i].act \in Enabled[t]
          /\ \/ Succ[t][plan[i].act] \in Goal /\ CostToGoal(plan, i) >= 1
             \/ /\ ~Terminal(Succ[t][plan[i].act])
                /\ state_value_cache'[Succ[t][plan[i].act]] \in Nat
                /\ state_value_cache'[Succ[t][plan[i].act]] < CostToGoal(plan, i)
      <3>1. CASE i = Len(plan)
        BY <1>2, <2>3, <2>4, <3>1
      <3>2. CASE i # Len(plan)
        <4>1. i + 1 \in 1..Len(plan)
          BY <1>2, <2>2, <3>2
        <4>2. ~Terminal(plan[i + 1].state)
          BY <1>1, <4>1, Zenon DEF IsPlan
        <4>3. /\ state_value_cache'[plan[i + 1].state] \in Nat
              /\ state_value_cache'[plan[i + 1].state] <= CostToGoal(plan, i + 1)
          BY <4>1, VisitedStatesCosted
        <4>4. CostToGoal(plan, i + 1) < CostToGoal(plan, i)
          BY <1>2, <2>2 DEF CostToGoal
        <4>5. state_value_cache'[plan[i + 1].state] < CostToGoal(plan, i)
          BY <1>2, <2>2, <4>3, <4>4 DEF CostToGoal
        <4> QED
          BY <2>4, <3>2, <4>2, <4>3, <4>5
      <3> QED
        BY <3>1, <3>2
    <2>7. Ranked(t)'
      BY <2>2, <2>6 DEF Ranked, Supports, Terminal
    <2> QED
      BY <2>5, <2>7
  <1> QED
    BY <1>3, <1>4

\* A plan meets a state cached without a plan only where Fast Downward misjudged
\* it: the rest of the plan from there is one.  Improve does not touch the entry.
LEMMA ClashMeansMisled ==
    ASSUME TypeOK, \A t \in State : EntryOK(t),
           NEW s \in State, NEW plan \in Plans(s), Improve(plan), Clashes(plan)
    PROVE  Misled'
  <1>1. /\ DOMAIN plan = 1..Len(plan)
        /\ IsPlan(plan)
        /\ \A i \in 1..Len(plan) : plan[i].state \in State
    BY PlanFacts
  <1>2. Len(plan) \in Nat
    <2>1. Len(plan) \in 1..MaxPlanLen
      BY PlanFacts
    <2> QED
      BY <2>1, BoundAssumption
  <1>3. \A i \in DOMAIN plan : \A j \in 1..i : j \in 1..Len(plan)
    BY <1>1, <1>2
  <1>4. PICK k \in 1..Len(plan) : state_value_cache[plan[k].state] = None
    BY <1>1, <1>3 DEF Clashes, Reached
  <1> DEFINE u == plan[k].state
  <1>5. u \in State /\ ~Terminal(u)
    BY <1>1, Zenon DEF IsPlan
  <1>6. Plans(u) # {}
    BY SuffixIsPlan
  <1>7. u \in Misjudged
    BY <1>4, <1>5, <1>6 DEF EntryOK
  <1>8. state_value_cache'[u] = None
    BY <1>4, <1>5, ImproveFacts
  <1>9. Plans(u)' = Plans(u)
    BY DEF Plans, AllPlans, IsPlan, Terminal
  <1> QED
    BY <1>6, <1>7, <1>8, <1>9 DEF Misled

\* The exceptions that leave Compute; TypeError needs a misjudged state.
LEMMA ComputeExceptions ==
    ASSUME TypeOK, \A t \in State : EntryOK(t), NEW s \in State, Compute(s)
    PROVE  /\ ret'.exc \in {"none", "FDTimeout", "AssertionError", "TypeError"}
           /\ ret'.exc = "TypeError" => Misled'
  <1> USE DEF Return, Raise
  <1>1. CASE CacheHit(s) \/ TerminalMiss(s) \/ FDNoPlan(s)
    BY <1>1 DEF CacheHit, TerminalMiss, FDNoPlan
  <1>2. CASE Blacklisted(s) \/ FDTimesOut(s) \/ FDBadOutput(s)
    BY <1>2 DEF Blacklisted, FDTimesOut, FDBadOutput
  <1>3. CASE FDPlan(s)
    <2>1. PICK plan \in Plans(s) :
             /\ Improve(plan)
             /\ IF Clashes(plan)
                THEN Raise(s, "TypeError")
                ELSE Return(s, state_value_cache'[s],
                            best_action_cache'[plan[Len(plan)].state])
      BY <1>3 DEF FDPlan
    <2>2. Clashes(plan) => Misled'
      BY <2>1, ClashMeansMisled
    <2> QED
      BY <2>1, <2>2
  <1> QED
    BY <1>1, <1>2, <1>3 DEF Compute

\* Unless it ends in TypeError, half-way through a plan, Compute leaves every
\* entry truthful and ranked.
LEMMA ComputeSound ==
    ASSUME TypeOK, \A t \in State : EntryOK(t) /\ Ranked(t),
           NEW s \in State, Compute(s), ret'.exc # "TypeError", NEW t \in State
    PROVE  (EntryOK(t) /\ Ranked(t))'
  <1> USE NoneAssumption
  <1>0. \A u \in State : state_value_cache[u] \in Nat =>
            /\ state_value_cache'[u] \in Nat
            /\ state_value_cache'[u] <= state_value_cache[u]
    BY ComputeMonotone
  <1>1. CASE UNCHANGED cache
    <2>1. EntryOK(t)'
      BY <1>1 DEF EntryOK, Terminal, cache, Plans, AllPlans, IsPlan
    <2>2. Ranked(t)'
      BY <1>1 DEF Ranked, Supports, Terminal, cache
    <2> QED
      BY <2>1, <2>2
  <1>2. ASSUME state_value_cache[s] = Absent,
               NEW v \in {0, None},
               state_value_cache' = [state_value_cache EXCEPT ![s] = v],
               best_action_cache' = [best_action_cache EXCEPT ![s] = None],
               v = 0 <=> s \in Goal,
               ~Terminal(s) /\ s \notin Misjudged => Plans(s) = {}
        PROVE  (EntryOK(t) /\ Ranked(t))'
    <2>1. state_value_cache'[s] = v /\ best_action_cache'[s] = None
      BY <1>2 DEF TypeOK
    <2>2. CASE t = s
      <3>1. EntryOK(t)'
        <4>1. None # 0 /\ Absent # 0
          OBVIOUS
        <4>2. t \in Goal <=> v = 0
          BY <1>2, <2>2
        <4>3. t \in Goal => Terminal(t)
          BY DEF Terminal
        <4>4. ~Terminal(t) /\ t \notin Misjudged => Plans(t) = {}
          BY <1>2, <2>2
        <4> QED
          BY <2>1, <2>2, <4>1, <4>2, <4>3, <4>4
          DEF EntryOK, Terminal, Plans, AllPlans, IsPlan
      <3>2. Ranked(t)'
        BY <1>2, <2>1, <2>2 DEF Ranked, Terminal
      <3> QED
        BY <3>1, <3>2
    <2>3. CASE t # s
      <3>1. /\ state_value_cache'[t] = state_value_cache[t]
            /\ best_action_cache'[t] = best_action_cache[t]
        BY <1>2, <2>3 DEF TypeOK
      <3>2. EntryOK(t)'
        BY <3>1 DEF EntryOK, Terminal, Plans, AllPlans, IsPlan
      <3>3. Ranked(t)'
        <4> SUFFICES ASSUME state_value_cache[t] \in Nat, ~Terminal(t)
                     PROVE  Supports(t, best_action_cache[t], state_value_cache[t])'
          BY <3>1 DEF Ranked, Terminal, Supports
        <4>1. Supports(t, best_action_cache[t], state_value_cache[t])
          BY DEF Ranked
        <4>2. Succ[t][best_action_cache[t]] # s \/ s \in Goal
          BY <1>2, <4>1 DEF Supports, Terminal
        <4>3. Succ[t][best_action_cache[t]] \in State
          BY <4>1, TaskAssumption DEF Supports
        <4> QED
          BY <1>2, <3>1, <4>1, <4>2, <4>3 DEF Supports, Terminal, TypeOK
      <3> QED
        BY <3>2, <3>3
    <2> QED
      BY <2>2, <2>3
  <1>3. CASE TerminalMiss(s)
    <2>1. CASE s \in Goal
      <3>1. /\ state_value_cache[s] = Absent /\ Terminal(s)
            /\ state_value_cache' = [state_value_cache EXCEPT ![s] = 0]
            /\ best_action_cache' = [best_action_cache EXCEPT ![s] = None]
        BY <1>3, <2>1 DEF TerminalMiss, Store
      <3> QED
        BY <1>2, <2>1, <3>1
    <2>2. CASE s \notin Goal
      <3>1. /\ state_value_cache[s] = Absent /\ Terminal(s)
            /\ state_value_cache' = [state_value_cache EXCEPT ![s] = None]
            /\ best_action_cache' = [best_action_cache EXCEPT ![s] = None]
        BY <1>3, <2>2 DEF TerminalMiss, Store
      <3> QED
        BY <1>2, <2>2, <3>1
    <2> QED
      BY <2>1, <2>2
  <1>4. CASE FDNoPlan(s)
    <2>1. /\ state_value_cache[s] = Absent
          /\ state_value_cache' = [state_value_cache EXCEPT ![s] = None]
          /\ best_action_cache' = [best_action_cache EXCEPT ![s] = None]
          /\ ~Terminal(s) /\ (s \notin Misjudged => Plans(s) = {})
      BY <1>4 DEF FDNoPlan, RunFD, Store
    <2>2. s \notin Goal
      BY <2>1 DEF Terminal
    <2> QED
      BY <1>2, <2>1, <2>2
  <1>5. CASE FDPlan(s)
    <2>1. PICK plan \in Plans(s) : Improve(plan) /\ (Clashes(plan) => Raise(s, "TypeError"))
      BY <1>5 DEF FDPlan
    <2>2. ~Clashes(plan)
      BY <2>1 DEF Raise
    <2> QED
      BY <1>0, <2>1, <2>2, ImproveSound
  <1> QED
    BY <1>1, <1>3, <1>4, <1>5
    DEF Compute, CacheHit, Blacklisted, FDTimesOut, FDBadOutput

\* Fast Downward has run on t at most once, and if it has then t is answered:
\* blacklisted or in the cache.
RunsOK(t) ==
    \/ fd_runs[t] = 0
    \/ fd_runs[t] = 1 /\ (t \in fd_blacklist \/ state_value_cache[t] # Absent)

\* Compute runs Fast Downward only on states it has never run on, and answers
\* them unless it fails.
LEMMA ComputeRuns ==
    ASSUME TypeOK, \A u \in State : RunsOK(u), NEW s \in State, Compute(s),
           NEW t \in State
    PROVE  /\ fd_runs'[t] <= 1
           /\ ret'.exc \in {"none", "FDTimeout"} => RunsOK(t)'
  <1> USE NoneAssumption
  <1>1. CASE CacheHit(s) \/ Blacklisted(s)
    BY <1>1 DEF CacheHit, Blacklisted, RunsOK, cache, TypeOK
  <1>2. CASE TerminalMiss(s)
    BY <1>2 DEF TerminalMiss, Store, RunsOK, TypeOK
  <1>3. ASSUME RunFD(s) PROVE fd_runs'[t] <= 1
    <2>1. fd_runs[s] = 0
      BY <1>3 DEF RunFD, RunsOK
    <2>2. CASE t = s
      BY <1>3, <2>1, <2>2 DEF RunFD, TypeOK
    <2>3. CASE t # s
      <3>1. fd_runs'[t] = fd_runs[t]
        BY <1>3, <2>3 DEF RunFD, TypeOK
      <3> QED
        BY <3>1 DEF RunsOK
    <2> QED
      BY <2>2, <2>3
  <1>4. CASE FDTimesOut(s)
    <2>1. RunsOK(t)'
      BY <1>4 DEF FDTimesOut, RunFD, RunsOK, TypeOK, cache
    <2> QED
      BY <1>3, <1>4, <2>1 DEF FDTimesOut
  <1>5. CASE FDBadOutput(s)
    BY <1>3, <1>5 DEF FDBadOutput, Raise
  <1>6. CASE FDNoPlan(s)
    <2>1. RunsOK(t)'
      BY <1>6 DEF FDNoPlan, RunFD, RunsOK, TypeOK, Store
    <2> QED
      BY <1>3, <1>6, <2>1 DEF FDNoPlan
  <1>7. CASE FDPlan(s)
    <2>1. PICK plan \in Plans(s) : Improve(plan) /\ (Clashes(plan) => Raise(s, "TypeError"))
      BY <1>7 DEF FDPlan
    <2>2. CASE Clashes(plan)
      BY <1>3, <1>7, <2>1, <2>2 DEF FDPlan, Raise
    <2>3. CASE ~Clashes(plan)
      <3>1. plan[1].state = s /\ 1 \in 1..Len(plan)
        <4>1. Len(plan) \in 1..MaxPlanLen /\ plan[1].state = s
          BY PlanFacts
        <4> QED
          BY <4>1, BoundAssumption
      <3>2. state_value_cache'[s] \in Nat
        BY <2>1, <2>3, <3>1, VisitedStatesCosted
      <3>3. state_value_cache[t] # Absent => state_value_cache'[t] # Absent
        <4>1. CASE \E i \in Written(plan) : plan[i].state = t
          <5>1. PICK i \in Written(plan) : plan[i].state = t
            BY <4>1
          <5>2. state_value_cache'[t] \in Nat
            BY <2>1, <2>3, <5>1, ImproveFacts, VisitedStatesCosted
          <5> QED
            BY <5>2
        <4>2. CASE \A i \in Written(plan) : plan[i].state # t
          BY <2>1, <4>2, ImproveFacts
        <4> QED
          BY <4>1, <4>2
      <3>4. RunsOK(t)'
        <4>1. CASE t = s
          <5>1. fd_runs[s] = 0
            BY <1>7 DEF FDPlan, RunFD, RunsOK
          <5> QED
            BY <1>7, <3>2, <4>1, <5>1 DEF FDPlan, RunFD, RunsOK, TypeOK
        <4>2. CASE t # s
          BY <1>7, <3>3, <4>2 DEF FDPlan, RunFD, RunsOK, TypeOK
        <4> QED
          BY <4>1, <4>2
      <3> QED
        BY <1>3, <1>7, <3>4 DEF FDPlan
    <2> QED
      BY <2>2, <2>3
  <1> QED
    BY <1>1, <1>2, <1>4, <1>5, <1>6, <1>7 DEF Compute

-----------------------------------------------------------------------------
(* The inductive invariant.                                                *)

\* What compute_policy_envelope knows between two iterations.
EnvelopeInv ==
    /\ pc \in {"idle", "q_values"} => envelope = <<>>
    /\ pc = "envelope" =>
          /\ cstate \in State
          /\ state_value_cache[cstate] \in Nat \/ cstate \in Goal
          /\ envelope # <<>> =>
                /\ cstate = envelope[Len(envelope)]
                /\ ~Terminal(envelope[1])
                /\ state_value_cache[envelope[1]] \in Nat
                /\ Len(envelope)
                     + 2 * (IF cstate \in Goal THEN 0
                            ELSE state_value_cache[cstate])
                   <= 2 * state_value_cache[envelope[1]]

\* What compute_q_values knows between two iterations: labels are upper bounds,
\* and the action recommended when the call began is still worth its value, or
\* has got its label.
QInv ==
    pc = "q_values" =>
        /\ cstate \in State
        /\ LabelsNotOptimistic
        /\ entry.action \in Action /\ entry.value \in Nat =>
              /\ entry.action \in Enabled[cstate]
              /\ LET u == Succ[cstate][entry.action]
                 IN  entry.action \in todo =>
                        \/ u \in Goal /\ entry.value >= 1
                        \/ /\ state_value_cache[u] \in Nat
                           /\ state_value_cache[u] < entry.value
              /\ entry.action \notin todo =>
                    /\ q_values[entry.action] \in Nat
                    /\ q_values[entry.action] <= entry.value

RunsInv ==
    /\ FDRunsOnce
    /\ pc # "failed" => \A s \in State : RunsOK(s)

CacheInv == pc # "failed" => \A s \in State : EntryOK(s) /\ Ranked(s)

IInv ==
    /\ TypeOK
    /\ CacheInv
    /\ EnvelopeInv
    /\ QInv
    /\ RunsInv
    /\ NoInternalError

-----------------------------------------------------------------------------
(* Type correctness.                                                       *)

\* Every step keeps the variables in their types.
LEMMA TypeStep == TypeOK /\ [Next]_vars => TypeOK'
  <1> SUFFICES ASSUME TypeOK, [Next]_vars PROVE TypeOK'
    OBVIOUS
  <1> USE NoneAssumption
  <1>0. Absent \in Value /\ None \in Value /\ NoOutcome \in Outcome
        /\ Absent \in Best
    BY DEF Value, Best, Outcome, NoOutcome
  <1>1. ASSUME NEW s \in State, Query(s) PROVE TypeOK'
    <2>1. Compute(s) /\ UNCHANGED loop /\ Continue("idle")
      BY <1>1 DEF Query
    <2>2. pc' \in {"idle", "failed"}
      BY <2>1 DEF Continue
    <2> QED
      BY <2>1, <2>2, ComputeTypes DEF TypeOK, loop
  <1>2. ASSUME NEW s \in State, StartQValues(s) PROVE TypeOK'
    <2>1. todo' \subseteq Action
      BY <1>2, TaskAssumption DEF StartQValues
    <2>2. q_values' \in [Action -> Value]
      BY <1>0, <1>2 DEF StartQValues
    <2>3. entry' \in [value : Value, action : Best]
      BY <1>2 DEF StartQValues, TypeOK
    <2> QED
      BY <1>2, <2>1, <2>2, <2>3 DEF StartQValues, TypeOK, cache
  <1>3. ASSUME NEW s \in State, StartEnvelope(s) PROVE TypeOK'
    <2>1. Compute(s)
      BY <1>3 DEF StartEnvelope
    <2>2. pc' \in {"idle", "envelope", "failed"}
      BY <1>3 DEF StartEnvelope, Continue
    <2> QED
      BY <1>3, <2>1, <2>2, ComputeTypes DEF StartEnvelope, TypeOK
  <1>4. ASSUME NEW a \in Action, QDisabled(a) PROVE TypeOK'
    BY <1>0, <1>4 DEF QDisabled, TypeOK, cache
  <1>5. ASSUME NEW a \in Action, QEnabled(a) PROVE TypeOK'
    <2>1. NextState(cstate, a) \in State
      BY <1>5, TaskAssumption DEF QEnabled, NextState, TypeOK
    <2>2. Compute(NextState(cstate, a))
      BY <1>5 DEF QEnabled
    <2>3. ret'.value \in Nat \cup {None, Absent}
      BY <2>1, <2>2, ComputeTypes DEF Outcome, Value, Cost
    <2>4. pc' \in {"idle", "q_values", "failed"}
      BY <1>5 DEF QEnabled, Continue
    <2>5. q_values' \in [Action -> Value]
      <3> DEFINE label == IF ret'.value = None THEN None ELSE 1 + ret'.value
      <3>1. CASE ret'.exc = "none" /\ ret'.value # Absent
        <4>1. label \in Value
          BY <2>3, <3>1 DEF Value, Cost
        <4>2. q_values' = [q_values EXCEPT ![a] = label]
          BY <1>5, <3>1 DEF QEnabled
        <4> HIDE DEF label
        <4> QED
          BY <4>1, <4>2 DEF TypeOK
      <3>2. CASE ret'.exc # "none"
        BY <1>5, <3>2 DEF QEnabled, TypeOK
      <3>3. ret'.exc = "none" => ret'.value # Absent
        BY <2>1, <2>2, ComputeReturns
      <3> QED
        BY <3>1, <3>2, <3>3
    <2>6. cstate' \in State
      BY <1>5 DEF QEnabled, TypeOK
    <2> QED
      BY <1>5, <2>1, <2>2, <2>4, <2>5, <2>6, ComputeTypes DEF QEnabled, TypeOK
  <1>6. CASE QDone
    BY <1>0, <1>6 DEF QDone, Forget, TypeOK, cache
  <1>7. CASE EnvelopeStep
    <2> DEFINE act == best_action_cache[cstate]
               next == NextState(cstate, act)
    <2>1. cstate \in State /\ pc' \in {"envelope", "failed"}
      BY <1>7 DEF EnvelopeStep, TypeOK
    <2>2. ret' \in Outcome
      BY <1>7 DEF EnvelopeStep, TypeOK, Outcome, Errors
    <2>3. CASE act \in Action
      <3>1. next \in State
        BY <2>1, <2>3, TaskAssumption DEF NextState
      <3>2. cstate' = next /\ envelope' = envelope \o <<cstate, next>>
        BY <1>7, <2>3 DEF EnvelopeStep
      <3> HIDE DEF next
      <3>3. envelope' \in Seq(State)
        BY <2>1, <3>1, <3>2 DEF TypeOK
      <3> QED
        BY <1>7, <2>1, <2>2, <3>1, <3>2, <3>3 DEF EnvelopeStep, TypeOK, cache
    <2>4. CASE act \notin Action
      <3>1. envelope' = Append(envelope, cstate) /\ cstate' = cstate
        BY <1>7, <2>4 DEF EnvelopeStep
      <3>2. envelope' \in Seq(State)
        BY <2>1, <3>1 DEF TypeOK
      <3> QED
        BY <1>7, <2>1, <2>2, <3>1, <3>2 DEF EnvelopeStep, TypeOK, cache
    <2> QED
      BY <2>3, <2>4
  <1>8. CASE EnvelopeDone
    BY <1>0, <1>8 DEF EnvelopeDone, Forget, TypeOK, cache
  <1>9. CASE Failed \/ UNCHANGED vars
    BY <1>9 DEF Failed, vars, TypeOK
  <1> QED
    BY <1>1, <1>2, <1>3, <1>4, <1>5, <1>6, <1>7, <1>8, <1>9 DEF Next

\* The initial state is well typed and satisfies the inductive invariant.
LEMMA InitIInv == Init => IInv
  <1> SUFFICES ASSUME Init PROVE IInv
    OBVIOUS
  <1> USE NoneAssumption DEF Init
  <1>1. TypeOK
    BY DEF TypeOK, NoOutcome, Outcome, Value, Best, Cost
  <1>2. CacheInv
    BY DEF CacheInv, EntryOK, Ranked
  <1>3. EnvelopeInv /\ QInv /\ NoInternalError
    BY DEF EnvelopeInv, QInv, NoInternalError
  <1>4. RunsInv
    BY DEF RunsInv, FDRunsOnce, RunsOK
  <1> QED
    BY <1>1, <1>2, <1>3, <1>4 DEF IInv

\* FDQValueCache's variables always have the types TypeOK gives them.
THEOREM TypeCorrect == Spec => []TypeOK
  <1>1. Init => TypeOK
    BY InitIInv DEF IInv
  <1> QED
    BY <1>1, TypeStep, PTL DEF Spec

-----------------------------------------------------------------------------
(* The conjuncts of the inductive invariant, one lemma each.               *)

\* Entries stay truthful and ranked.
LEMMA CacheStep == TypeOK /\ CacheInv /\ [Next]_vars => CacheInv'
  <1> SUFFICES ASSUME TypeOK, CacheInv, [Next]_vars, pc' # "failed",
                      NEW t \in State
               PROVE  (EntryOK(t) /\ Ranked(t))'
    BY DEF CacheInv
  <1>1. ASSUME NEW s \in State, Compute(s), pc # "failed",
               ret'.exc \in {"none", "FDTimeout"}
        PROVE  (EntryOK(t) /\ Ranked(t))'
    BY <1>1, ComputeSound DEF CacheInv
  <1>2. ASSUME UNCHANGED cache, pc # "failed"
        PROVE  (EntryOK(t) /\ Ranked(t))'
    <2>1. EntryOK(t) /\ Ranked(t)
      BY <1>2 DEF CacheInv
    <2>2. EntryOK(t)'
      BY <1>2, <2>1 DEF EntryOK, Terminal, cache, Plans, AllPlans, IsPlan
    <2>3. Ranked(t)'
      BY <1>2, <2>1 DEF Ranked, Supports, Terminal, cache
    <2> QED
      BY <2>2, <2>3
  <1>3. ASSUME NEW next, Continue(next) PROVE ret'.exc \in {"none", "FDTimeout"}
    BY <1>3 DEF Continue
  <1>4. ASSUME NEW s \in State, Query(s) PROVE (EntryOK(t) /\ Ranked(t))'
    BY <1>1, <1>3, <1>4 DEF Query
  <1>5. ASSUME NEW s \in State, StartQValues(s) PROVE (EntryOK(t) /\ Ranked(t))'
    BY <1>2, <1>5 DEF StartQValues
  <1>6. ASSUME NEW s \in State, StartEnvelope(s) PROVE (EntryOK(t) /\ Ranked(t))'
    <2>1. ret'.exc \in {"none", "FDTimeout"}
      BY <1>6 DEF StartEnvelope, Continue
    <2> QED
      BY <1>1, <1>6, <2>1 DEF StartEnvelope
  <1>7. ASSUME NEW a \in Action, QDisabled(a) PROVE (EntryOK(t) /\ Ranked(t))'
    BY <1>2, <1>7 DEF QDisabled
  <1>8. ASSUME NEW a \in Action, QEnabled(a) PROVE (EntryOK(t) /\ Ranked(t))'
    <2>1. NextState(cstate, a) \in State
      BY <1>8, TaskAssumption DEF QEnabled, NextState, TypeOK
    <2> QED
      BY <1>1, <1>3, <1>8, <2>1 DEF QEnabled
  <1>9. CASE QDone \/ EnvelopeDone
    BY <1>2, <1>9 DEF QDone, EnvelopeDone, cache
  <1>10. CASE EnvelopeStep
    BY <1>2, <1>10 DEF EnvelopeStep, cache
  <1>11. CASE Failed \/ UNCHANGED vars
    BY <1>2, <1>11 DEF Failed, vars, cache
  <1> QED
    BY <1>4, <1>5, <1>6, <1>7, <1>8, <1>9, <1>10, <1>11 DEF Next

\* Fast Downward stays with one run per state.
LEMMA RunsStep == TypeOK /\ RunsInv /\ [Next]_vars => RunsInv'
  <1> SUFFICES ASSUME TypeOK, RunsInv, [Next]_vars PROVE RunsInv'
    OBVIOUS
  <1>1. ASSUME NEW s \in State, NEW next, Compute(s), Continue(next), pc # "failed"
        PROVE  RunsInv'
    <2>1. \A t \in State : fd_runs'[t] <= 1
      BY <1>1, ComputeRuns DEF RunsInv
    <2>2. pc' # "failed" => ret'.exc \in {"none", "FDTimeout"}
      BY <1>1 DEF Continue
    <2>3. pc' # "failed" => \A t \in State : RunsOK(t)'
      BY <1>1, <2>2, ComputeRuns DEF RunsInv
    <2> QED
      BY <2>1, <2>3 DEF RunsInv, FDRunsOnce
  <1>2. ASSUME UNCHANGED <<cache, fd_blacklist, fd_runs>>,
               pc = "failed" => pc' = "failed"
        PROVE  RunsInv'
    BY <1>2 DEF RunsInv, FDRunsOnce, RunsOK, cache
  <1>3. ASSUME NEW s \in State, Query(s) PROVE RunsInv'
    BY <1>1, <1>3 DEF Query
  <1>4. ASSUME NEW s \in State, StartQValues(s) PROVE RunsInv'
    BY <1>2, <1>4 DEF StartQValues
  <1>5. ASSUME NEW s \in State, StartEnvelope(s) PROVE RunsInv'
    <2>1. \A t \in State : fd_runs'[t] <= 1
      BY <1>5, ComputeRuns DEF RunsInv, StartEnvelope
    <2>2. pc' # "failed" => ret'.exc \in {"none", "FDTimeout"}
      BY <1>5 DEF Continue, StartEnvelope
    <2>3. pc' # "failed" => \A t \in State : RunsOK(t)'
      BY <1>5, <2>2, ComputeRuns DEF RunsInv, StartEnvelope
    <2> QED
      BY <2>1, <2>3 DEF RunsInv, FDRunsOnce
  <1>6. ASSUME NEW a \in Action, QDisabled(a) PROVE RunsInv'
    BY <1>2, <1>6 DEF QDisabled
  <1>7. ASSUME NEW a \in Action, QEnabled(a) PROVE RunsInv'
    <2>1. NextState(cstate, a) \in State
      BY <1>7, TaskAssumption DEF QEnabled, NextState, TypeOK
    <2> QED
      BY <1>1, <1>7, <2>1 DEF QEnabled
  <1>8. CASE QDone \/ EnvelopeDone
    BY <1>2, <1>8 DEF QDone, EnvelopeDone, Forget
  <1>9. CASE EnvelopeStep
    BY <1>2, <1>9 DEF EnvelopeStep
  <1>10. CASE Failed \/ UNCHANGED vars
    BY <1>2, <1>10 DEF Failed, vars, cache
  <1> QED
    BY <1>3, <1>4, <1>5, <1>6, <1>7, <1>8, <1>9, <1>10 DEF Next

\* One iteration of compute_policy_envelope: the action is there, it leads to a
\* goal or to a cheaper state, and two states are appended.
LEMMA EnvelopeIteration ==
    ASSUME TypeOK, CacheInv, EnvelopeInv, EnvelopeStep
    PROVE  /\ best_action_cache[cstate] \in Action
           /\ cstate' \in State
           /\ envelope' = envelope \o <<cstate, cstate'>>
           /\ state_value_cache[cstate'] \in Nat \/ cstate' \in Goal
           /\ Len(envelope') = Len(envelope) + 2
           /\ cstate' = envelope'[Len(envelope')]
           /\ ~Terminal(envelope'[1])
           /\ state_value_cache[envelope'[1]] \in 1..MaxPlanLen
           /\ Len(envelope')
                + 2 * (IF cstate' \in Goal THEN 0 ELSE state_value_cache[cstate'])
              <= 2 * state_value_cache[envelope'[1]]
  <1> DEFINE v == state_value_cache[cstate]
             act == best_action_cache[cstate]
             u == Succ[cstate][act]
             togo == IF u \in Goal THEN 0 ELSE state_value_cache[u]
  <1> USE NoneAssumption
  <1>1. /\ pc = "envelope" /\ ~Terminal(cstate) /\ cstate \in State
        /\ cstate \notin Goal /\ v \in Nat
    BY DEF EnvelopeStep, EnvelopeInv, Terminal
  <1>2. EntryOK(cstate) /\ Supports(cstate, act, v)
    BY <1>1 DEF CacheInv, Ranked
  <1>3. v \in 1..MaxPlanLen
    BY <1>1, <1>2, BoundAssumption DEF EntryOK
  <1>4. act \in Enabled[cstate] /\ act \in Action /\ u \in State
    BY <1>1, <1>2, TaskAssumption DEF Supports
  <1>5. togo \in Nat /\ togo <= v - 1 /\ (state_value_cache[u] \in Nat \/ u \in Goal)
    BY <1>1, <1>2 DEF Supports, Terminal
  <1>6. cstate' = u /\ envelope' = envelope \o <<cstate, u>>
    BY <1>4 DEF EnvelopeStep, NextState
  <1> HIDE DEF v, act, u
  <1>7. envelope \in Seq(State)
    BY DEF TypeOK
  <1>8. /\ Len(envelope') = Len(envelope) + 2
        /\ envelope'[Len(envelope')] = u
        /\ envelope'[1] = IF envelope = <<>> THEN cstate ELSE envelope[1]
    BY <1>1, <1>4, <1>6, <1>7
  <1>9. CASE envelope = <<>>
    <2>1. envelope'[1] = cstate /\ Len(envelope') = 2
      BY <1>8, <1>9
    <2>2. 2 + 2 * togo <= 2 * v
      BY <1>1, <1>5
    <2> QED
      BY <1>1, <1>3, <1>4, <1>5, <1>6, <1>8, <2>1, <2>2 DEF v, act
  <1>10. CASE envelope # <<>>
    <2>1. /\ ~Terminal(envelope[1])
          /\ state_value_cache[envelope[1]] \in Nat
          /\ Len(envelope) + 2 * v <= 2 * state_value_cache[envelope[1]]
      BY <1>1, <1>10 DEF EnvelopeInv, v
    <2>2. envelope'[1] = envelope[1] /\ envelope[1] \in State
      BY <1>7, <1>8, <1>10
    <2>3. state_value_cache[envelope[1]] \in 1..MaxPlanLen
      BY <1>1, <2>1, <2>2, BoundAssumption DEF CacheInv, EntryOK
    <2>4. Len(envelope) + 2 + 2 * togo <= 2 * state_value_cache[envelope[1]]
      BY <1>1, <1>5, <1>7, <2>1
    <2> QED
      BY <1>4, <1>5, <1>6, <1>8, <2>1, <2>2, <2>3, <2>4 DEF act
  <1> QED
    BY <1>9, <1>10

\* The envelope stays a descent.
LEMMA EnvelopeInvStep ==
    TypeOK /\ CacheInv /\ EnvelopeInv /\ [Next]_vars => EnvelopeInv'
  <1> SUFFICES ASSUME TypeOK, CacheInv, EnvelopeInv, [Next]_vars PROVE EnvelopeInv'
    OBVIOUS
  <1> USE NoneAssumption
  <1>1. ASSUME NEW s \in State, Query(s) PROVE EnvelopeInv'
    BY <1>1 DEF Query, Continue, EnvelopeInv, loop
  <1>2. ASSUME NEW s \in State, StartQValues(s) PROVE EnvelopeInv'
    BY <1>2 DEF StartQValues, EnvelopeInv
  <1>3. ASSUME NEW s \in State, StartEnvelope(s) PROVE EnvelopeInv'
    <2>1. envelope' = <<>> /\ cstate' = s /\ Compute(s)
      BY <1>3 DEF StartEnvelope
    <2>2. pc' = "envelope" => ret'.exc = "none" /\ ret'.value # None
      BY <1>3 DEF StartEnvelope, Continue
    <2>3. pc' = "envelope" => state_value_cache'[s] \in Nat
      BY <2>1, <2>2, ComputeReturns
    <2> QED
      BY <2>1, <2>3 DEF EnvelopeInv
  <1>4. ASSUME NEW a \in Action, QDisabled(a) PROVE EnvelopeInv'
    BY <1>4 DEF QDisabled, EnvelopeInv
  <1>5. ASSUME NEW a \in Action, QEnabled(a) PROVE EnvelopeInv'
    BY <1>5 DEF QEnabled, Continue, EnvelopeInv
  <1>6. CASE QDone \/ EnvelopeDone
    BY <1>6 DEF QDone, EnvelopeDone, Forget, EnvelopeInv
  <1>7. CASE EnvelopeStep
    <2>1. /\ pc' \in {"envelope", "failed"}
          /\ UNCHANGED state_value_cache
      BY <1>7 DEF EnvelopeStep, cache
    <2>2. state_value_cache[envelope'[1]] \in Nat
      BY <1>7, EnvelopeIteration, BoundAssumption
    <2>3. ~Terminal(envelope'[1])
      BY <1>7, EnvelopeIteration
    <2> QED
      BY <1>7, <2>1, <2>2, <2>3, EnvelopeIteration DEF EnvelopeInv, Terminal
  <1>8. CASE Failed \/ UNCHANGED vars
    BY <1>8 DEF Failed, vars, EnvelopeInv, Terminal
  <1> QED
    BY <1>1, <1>2, <1>3, <1>4, <1>5, <1>6, <1>7, <1>8 DEF Next

\* The labels stay upper bounds, and the recommended action stays worth its
\* value while other labels improve the cache.
LEMMA QInvStep ==
    TypeOK /\ CacheInv /\ CacheInv' /\ QInv /\ [Next]_vars => QInv'
  <1> SUFFICES ASSUME TypeOK, CacheInv, CacheInv', QInv, [Next]_vars,
                      pc' = "q_values"
               PROVE QInv'
    BY DEF QInv
  <1> USE NoneAssumption
  <1>1. ASSUME NEW s \in State, Query(s) \/ StartEnvelope(s) PROVE FALSE
    BY <1>1 DEF Query, StartEnvelope, Continue
  <1>2. ASSUME NEW s \in State, StartQValues(s) PROVE QInv'
    <2>1. cstate' = s /\ UNCHANGED state_value_cache
      BY <1>2 DEF StartQValues, cache
    <2>2. \A a \in Action : q_values'[a] = Absent
      BY <1>2 DEF StartQValues
    <2>3. LabelsNotOptimistic'
      BY <2>2 DEF LabelsNotOptimistic
    <2>4. ASSUME entry'.action \in Action, entry'.value \in Nat
          PROVE  /\ entry'.action \in Enabled[s]
                 /\ entry'.action \in todo'
                 /\ LET u == Succ[s][entry'.action]
                    IN  \/ u \in Goal /\ entry'.value >= 1
                        \/ /\ state_value_cache[u] \in Nat
                           /\ state_value_cache[u] < entry'.value
      <3>1. /\ entry'.action = best_action_cache[s]
            /\ entry'.value = state_value_cache[s]
        BY <1>2 DEF StartQValues
      <3>2. EntryOK(s) /\ Ranked(s)
        BY <1>2 DEF CacheInv, StartQValues
      <3>3. ~Terminal(s)
        BY <2>4, <3>1, <3>2 DEF EntryOK
      <3>4. Supports(s, best_action_cache[s], state_value_cache[s])
        BY <2>4, <3>1, <3>2, <3>3 DEF Ranked
      <3>5. best_action_cache[s] \in Enabled[s] /\ Enabled[s] \subseteq Action
        BY <3>4, TaskAssumption DEF Supports
      <3>6. best_action_cache[s] \in todo'
        BY <1>2, <3>5 DEF StartQValues
      <3> QED
        BY <3>1, <3>4, <3>5, <3>6 DEF Supports
    <2> QED
      BY <2>1, <2>3, <2>4 DEF QInv
  <1>3. ASSUME NEW a \in Action, QDisabled(a) PROVE QInv'
    <2>1. /\ pc = "q_values" /\ a \notin Enabled[cstate]
          /\ UNCHANGED <<state_value_cache, cstate, entry>>
          /\ todo' = todo \ {a}
          /\ \A c \in Action : q_values'[c] = IF c = a THEN None ELSE q_values[c]
      BY <1>3 DEF QDisabled, TypeOK, cache
    <2>2. LabelsNotOptimistic'
      BY <2>1 DEF QInv, LabelsNotOptimistic
    <2> QED
      BY <2>1, <2>2 DEF QInv
  <1>4. ASSUME NEW a \in Action, QEnabled(a) PROVE QInv'
    <2> DEFINE t == Succ[cstate][a]
    <2>1. /\ pc = "q_values" /\ cstate \in State
          /\ a \in todo /\ a \in Enabled[cstate]
          /\ UNCHANGED <<cstate, entry>>
          /\ todo' = todo \ {a}
      BY <1>4 DEF QEnabled, TypeOK
    <2>2. t \in State /\ Compute(t)
      BY <1>4, <2>1, TaskAssumption DEF QEnabled, NextState
    <2>3. ret'.exc = "none"
      BY <1>4 DEF QEnabled, Continue
    <2>4. ret'.value = state_value_cache'[t] /\ ret'.value \in Nat \cup {None}
      BY <2>2, <2>3, ComputeReturns
    <2>5. /\ q_values'[a] = IF state_value_cache'[t] = None THEN None
                            ELSE 1 + state_value_cache'[t]
          /\ \A c \in Action : c # a => q_values'[c] = q_values[c]
      <3>1. q_values' = [q_values EXCEPT ![a] = IF ret'.value = None THEN None
                                                ELSE 1 + ret'.value]
        BY <1>4, <2>3 DEF QEnabled
      <3> QED
        BY <2>4, <3>1 DEF TypeOK
    <2>6. \A u \in State : state_value_cache[u] \in Nat =>
              /\ state_value_cache'[u] \in Nat
              /\ state_value_cache'[u] <= state_value_cache[u]
      BY <2>2, ComputeMonotone
    <2>7. \A c \in Action : c \in Enabled[cstate] => Succ[cstate][c] \in State
      BY <2>1, TaskAssumption
    <2> HIDE DEF t
    <2>8. LabelsNotOptimistic'
      <3> SUFFICES ASSUME NEW c \in Action, q_values'[c] \in Nat
                   PROVE  /\ c \in Enabled[cstate]
                          /\ state_value_cache'[Succ[cstate][c]] \in Nat
                          /\ q_values'[c] >= 1 + state_value_cache'[Succ[cstate][c]]
        BY <2>1 DEF LabelsNotOptimistic
      <3>1. CASE c = a
        BY <2>1, <2>4, <2>5, <3>1 DEF t
      <3>2. CASE c # a
        <4>1. /\ c \in Enabled[cstate]
              /\ state_value_cache[Succ[cstate][c]] \in Nat
              /\ q_values[c] >= 1 + state_value_cache[Succ[cstate][c]]
              /\ q_values'[c] = q_values[c]
          BY <2>1, <2>5, <3>2 DEF QInv, LabelsNotOptimistic
        <4>2. /\ state_value_cache'[Succ[cstate][c]] \in Nat
              /\ state_value_cache'[Succ[cstate][c]] <= state_value_cache[Succ[cstate][c]]
          BY <2>6, <2>7, <4>1
        <4> QED
          BY <4>1, <4>2
      <3> QED
        BY <3>1, <3>2
    <2>9. ASSUME entry.action \in Action, entry.value \in Nat
          PROVE  LET u == Succ[cstate][entry.action]
                 IN  /\ entry.action \in Enabled[cstate]
                     /\ entry.action \in todo' =>
                           \/ u \in Goal /\ entry.value >= 1
                           \/ /\ state_value_cache'[u] \in Nat
                              /\ state_value_cache'[u] < entry.value
                     /\ entry.action \notin todo' =>
                           /\ q_values'[entry.action] \in Nat
                           /\ q_values'[entry.action] <= entry.value
      <3> DEFINE u == Succ[cstate][entry.action]
      <3>1. /\ entry.action \in Enabled[cstate] /\ u \in State
            /\ entry.action \in todo =>
                  \/ u \in Goal /\ entry.value >= 1
                  \/ /\ state_value_cache[u] \in Nat
                     /\ state_value_cache[u] < entry.value
            /\ entry.action \notin todo =>
                  /\ q_values[entry.action] \in Nat
                  /\ q_values[entry.action] <= entry.value
        BY <2>1, <2>7, <2>9 DEF QInv
      <3>2. CASE entry.action = a
        <4>1. u = t
          BY <3>2 DEF t
        <4>2. CASE t \in Goal /\ entry.value >= 1
          <5>1. state_value_cache'[t] \in {Absent, 0}
            BY <2>2, <4>2 DEF CacheInv, EntryOK
          <5>2. state_value_cache'[t] = 0
            BY <2>4, <5>1
          <5> QED
            BY <2>1, <2>5, <2>9, <3>1, <3>2, <4>2, <5>2
        <4>3. CASE state_value_cache[t] \in Nat /\ state_value_cache[t] < entry.value
          <5>1. /\ state_value_cache'[t] \in Nat
                /\ state_value_cache'[t] < entry.value
            BY <2>2, <2>6, <2>9, <4>3
          <5> QED
            BY <2>1, <2>5, <2>9, <3>1, <3>2, <5>1
        <4> QED
          BY <2>1, <3>1, <3>2, <4>1, <4>2, <4>3
      <3>3. CASE entry.action # a
        <4>1. CASE entry.action \in todo
          <5>1. state_value_cache[u] \in Nat /\ state_value_cache[u] < entry.value =>
                  state_value_cache'[u] \in Nat /\ state_value_cache'[u] < entry.value
            BY <2>6, <2>9, <3>1
          <5> QED
            BY <2>1, <3>1, <3>3, <4>1, <5>1
        <4>2. CASE entry.action \notin todo
          BY <2>1, <2>5, <2>9, <3>1, <3>3, <4>2
        <4> QED
          BY <4>1, <4>2
      <3> QED
        BY <3>2, <3>3
    <2> QED
      BY <2>1, <2>8, <2>9 DEF QInv
  <1>5. CASE QDone \/ EnvelopeDone \/ EnvelopeStep
    BY <1>5 DEF QDone, EnvelopeDone, Forget, EnvelopeStep
  <1>6. CASE Failed \/ UNCHANGED vars
    <2>1. pc = "q_values" /\ UNCHANGED <<state_value_cache, cstate, entry, todo, q_values>>
      BY <1>6 DEF Failed, vars
    <2> QED
      BY <2>1 DEF QInv, LabelsNotOptimistic
  <1> QED
    BY <1>1, <1>2, <1>3, <1>4, <1>5, <1>6 DEF Next

\* No exception comes from the cache's own inconsistency.
LEMMA NoErrorStep ==
    TypeOK /\ CacheInv /\ EnvelopeInv /\ NoInternalError /\ [Next]_vars
        => NoInternalError'
  <1> DEFINE Excused(exc) == exc = "AssertionError" \/ (exc = "TypeError" /\ Misled')
  <1> SUFFICES ASSUME TypeOK, CacheInv, EnvelopeInv, NoInternalError, [Next]_vars,
                      pc' = "failed", MaxEnvelope > 2 * MaxPlanLen
               PROVE  Excused(ret'.exc) /\ envelope' = <<>>
    BY DEF NoInternalError
  <1>1. ASSUME NEW s \in State, Compute(s), pc \in {"idle", "q_values"},
               ret'.exc \notin {"none", "FDTimeout"}, UNCHANGED envelope
        PROVE  Excused(ret'.exc) /\ envelope' = <<>>
    <2>1. \A t \in State : EntryOK(t)
      BY <1>1 DEF CacheInv
    <2>2. Excused(ret'.exc)
      BY <1>1, <2>1, ComputeExceptions
    <2> QED
      BY <1>1, <2>2 DEF EnvelopeInv
  <1>2. ASSUME NEW s \in State, Query(s)
        PROVE  Excused(ret'.exc) /\ envelope' = <<>>
    <2>1. ret'.exc \notin {"none", "FDTimeout"}
      BY <1>2 DEF Query, Continue
    <2> QED
      BY <1>1, <1>2, <2>1 DEF Query, loop
  <1>3. ASSUME NEW s \in State, StartEnvelope(s)
        PROVE  Excused(ret'.exc) /\ envelope' = <<>>
    <2>1. ret'.exc \notin {"none", "FDTimeout"} /\ envelope' = <<>>
      BY <1>3 DEF StartEnvelope, Continue
    <2>2. \A t \in State : EntryOK(t)
      BY <1>3 DEF CacheInv, StartEnvelope
    <2>3. Excused(ret'.exc)
      BY <1>3, <2>1, <2>2, ComputeExceptions DEF StartEnvelope
    <2> QED
      BY <2>1, <2>3
  <1>4. ASSUME NEW a \in Action, QEnabled(a)
        PROVE  Excused(ret'.exc) /\ envelope' = <<>>
    <2>1. ret'.exc \notin {"none", "FDTimeout"}
      BY <1>4 DEF QEnabled, Continue
    <2>2. NextState(cstate, a) \in State
      BY <1>4, TaskAssumption DEF QEnabled, NextState, TypeOK
    <2> QED
      BY <1>1, <1>4, <2>1, <2>2 DEF QEnabled
  <1>5. CASE EnvelopeStep
    <2>1. /\ best_action_cache[cstate] \in Action
          /\ Len(envelope') <= 2 * MaxPlanLen
      <3>1. /\ best_action_cache[cstate] \in Action
            /\ cstate' \in Goal \/ state_value_cache[cstate'] \in Nat
            /\ state_value_cache[envelope'[1]] \in 1..MaxPlanLen
            /\ Len(envelope')
                 + 2 * (IF cstate' \in Goal THEN 0 ELSE state_value_cache[cstate'])
               <= 2 * state_value_cache[envelope'[1]]
            /\ Len(envelope') = Len(envelope) + 2
        BY <1>5, EnvelopeIteration
      <3>2. Len(envelope) \in Nat
        BY DEF TypeOK
      <3> QED
        BY <3>1, <3>2, BoundAssumption
    <2>2. Len(envelope') < MaxEnvelope
      <3>1. Len(envelope') = Len(envelope) + 2 /\ Len(envelope) \in Nat
        BY <1>5, EnvelopeIteration DEF TypeOK
      <3> QED
        BY <2>1, <3>1, BoundAssumption
    <2> QED
      BY <1>5, <2>1, <2>2 DEF EnvelopeStep
  <1>6. CASE \/ \E s \in State : StartQValues(s)
             \/ \E a \in Action : QDisabled(a)
             \/ QDone
             \/ EnvelopeDone
    BY <1>6 DEF StartQValues, QDisabled, QDone, EnvelopeDone, Forget
  <1>7. CASE Failed \/ UNCHANGED vars
    <2>1. UNCHANGED <<state_value_cache, ret, pc, envelope>>
      BY <1>7 DEF Failed, vars
    <2>2. Misled => Misled'
      <3> SUFFICES ASSUME NEW u \in Misjudged, state_value_cache[u] = None, Plans(u) # {}
                   PROVE  Misled'
        BY DEF Misled
      <3>1. Plans(u)' = Plans(u)
        BY DEF Plans, AllPlans, IsPlan, Terminal
      <3> QED
        BY <2>1, <3>1 DEF Misled
    <2> QED
      BY <2>1, <2>2 DEF NoInternalError
  <1> QED
    BY <1>2, <1>3, <1>4, <1>5, <1>6, <1>7 DEF Next

-----------------------------------------------------------------------------
(* The theorems.                                                           *)

\* The inductive invariant holds in every reachable state.
LEMMA Invariance == Spec => []IInv
  <1>1. Init => IInv
    BY InitIInv
  <1>2. IInv /\ [Next]_vars => IInv'
    BY TypeStep, CacheStep, EnvelopeInvStep, QInvStep, RunsStep, NoErrorStep
    DEF IInv
  <1> QED
    BY <1>1, <1>2, PTL DEF Spec

\* No order of queries, timeouts and plans makes compute_state_value_action
\* store something untrue of a state.
THEOREM EntriesTruthfulThm == Spec => []EntriesTruthful
  <1>1. IInv => EntriesTruthful
    BY DEF IInv, CacheInv, EntriesTruthful
  <1> QED
    BY <1>1, Invariance, PTL

\* Entries of different plans always fit together into descents to the goal.
THEOREM RankingThm == Spec => []Ranking
  <1>1. IInv => Ranking
    BY DEF IInv, CacheInv, Ranking
  <1> QED
    BY <1>1, Invariance, PTL

\* compute_policy_envelope follows such a descent.
THEOREM EnvelopeSoundThm == Spec => []EnvelopeSound
  <1>1. IInv => EnvelopeSound
    <2> SUFFICES ASSUME IInv, pc = "envelope" PROVE EnvelopeSound
      BY DEF EnvelopeSound
    <2>1. EnvelopeInv /\ CacheInv
      BY DEF IInv
    <2>2. cstate \in State /\ (Terminal(cstate) => cstate \in Goal)
      BY <2>1, NoneAssumption DEF EnvelopeInv, CacheInv, EntryOK
    <2> QED
      BY <2>1, <2>2 DEF EnvelopeSound, EnvelopeInv
  <1> QED
    BY <1>1, Invariance, PTL

\* compute_q_values labels the recommended action no worse than its value.
THEOREM RecommendedActionLabelledThm == Spec => []RecommendedActionLabelled
  <1>1. IInv => RecommendedActionLabelled
    BY DEF IInv, QInv, RecommendedActionLabelled
  <1> QED
    BY <1>1, Invariance, PTL

\* compute_q_values' labels are upper bounds of what the cache knows.
THEOREM LabelsNotOptimisticThm == Spec => []LabelsNotOptimistic
  <1>1. IInv => LabelsNotOptimistic
    BY DEF IInv, QInv, LabelsNotOptimistic
  <1> QED
    BY <1>1, Invariance, PTL

\* The process ends on output that cannot be read or on a misjudged state, never
\* on an inconsistency of the cache's own making.
THEOREM NoInternalErrorThm == Spec => []NoInternalError
  <1>1. IInv => NoInternalError
    BY DEF IInv
  <1> QED
    BY <1>1, Invariance, PTL

\* Fast Downward runs at most once on any state.
THEOREM FDRunsOnceThm == Spec => []FDRunsOnce
  <1>1. IInv => FDRunsOnce
    BY DEF IInv, RunsInv
  <1> QED
    BY <1>1, Invariance, PTL

\* What one step does to the costs in the cache.
Improves ==
    \A s \in State :
        state_value_cache[s] \in Nat =>
            /\ state_value_cache'[s] \in Nat
            /\ state_value_cache'[s] <= state_value_cache[s]

LEMMA ImprovesStep == TypeOK /\ Next => Improves
  <1> SUFFICES ASSUME TypeOK, Next, NEW t \in State, state_value_cache[t] \in Nat
               PROVE  /\ state_value_cache'[t] \in Nat
                      /\ state_value_cache'[t] <= state_value_cache[t]
    BY DEF Improves
  <1>1. CASE \E s \in State : Query(s) \/ StartEnvelope(s)
    BY <1>1, ComputeMonotone DEF Query, StartEnvelope
  <1>2. CASE \E a \in Action : QEnabled(a)
    <2>1. PICK a \in Action : QEnabled(a)
      BY <1>2
    <2>2. NextState(cstate, a) \in State /\ Compute(NextState(cstate, a))
      BY <2>1, TaskAssumption DEF QEnabled, NextState, TypeOK
    <2> QED
      BY <2>2, ComputeMonotone
  <1>3. CASE UNCHANGED state_value_cache
    BY <1>3
  <1>4. CASE \/ \E s \in State : StartQValues(s)
             \/ \E a \in Action : QDisabled(a)
             \/ QDone
             \/ EnvelopeStep
             \/ EnvelopeDone
             \/ Failed
    BY <1>3, <1>4
    DEF StartQValues, QDisabled, QDone, EnvelopeStep, EnvelopeDone, Failed,
        cache, vars
  <1> QED
    BY <1>1, <1>2, <1>4 DEF Next

\* No step takes a cost out of the cache or raises it.
THEOREM CostsOnlyImproveThm == Spec => CostsOnlyImprove
  <1>1. TypeOK /\ [Next]_vars => [Improves]_vars
    BY ImprovesStep
  <1> QED
    BY <1>1, TypeCorrect, PTL DEF Spec, CostsOnlyImprove, Improves

=============================================================================
