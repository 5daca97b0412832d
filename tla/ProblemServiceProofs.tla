------------------------- MODULE ProblemServiceProofs -------------------------
(***************************************************************************)
(* Proofs about ProblemService, for every planning task, any number and    *)
(* length of rollouts, and both ways of labelling.                         *)
(*                                                                         *)
(* First, the service uses its teacher only through the teacher's          *)
(* operations, so everything proved of FDQValueCache holds here too.  The  *)
(* rest is an induction over the service's steps that takes those facts    *)
(* for granted: what is on the way from an envelope to the replay buffer   *)
(* stays right because costs in the cache only improve.                    *)
(***************************************************************************)
EXTENDS ProblemService, FDQValueCacheProofs

-----------------------------------------------------------------------------
(* Lists.                                                                  *)

Services == {"ready", "visiting", "walking", "labelling", "valuing"}

\* A visit is in progress until its trace ends, a label until it is complete.
ListsInv ==
    /\ svc \in Services
    /\ visits \in Seq(State) /\ pol_list \in Seq(State)
    /\ svc \in {"walking", "labelling", "valuing"} => visits # <<>>
    /\ svc = "valuing" => pol_list # <<>> /\ cstate \in State
    /\ svc \in {"ready", "visiting", "walking"} => pol_list = <<>>

LEMMA SeqFacts ==
    ASSUME NEW s \in Seq(State), s # <<>>
    PROVE  Head(s) \in State /\ Tail(s) \in Seq(State)
  OBVIOUS

\* Giving a visit up.
LEMMA GiveUpFacts ==
    ASSUME visits \in Seq(State), visits # <<>>, GiveUp
    PROVE  /\ svc' = "visiting"
           /\ visits' \in Seq(State)
           /\ pol_list' = <<>> /\ pol_list' \in Seq(State)
           /\ pairs' = {}
  <1>1. <<>> \in Seq(State)
    OBVIOUS
  <1> QED
    BY <1>1, SeqFacts DEF GiveUp

LEMMA ModRange ==
    ASSUME NEW L \in Nat \ {0}, NEW i \in Nat
    PROVE  i % L \in 0..(L - 1)
  OBVIOUS

\* A rollout is a non-empty sequence of states, and so are its copies.
LEMMA RolloutFacts ==
    ASSUME NEW n \in Nat, NEW path \in Rollouts(n)
    PROVE  Repeated(path) \in Seq(State)
  <1>1. PICK k \in 1..n : path \in [1..k -> State]
    BY DEF Rollouts
  <1>2. k \in Nat \ {0} /\ Len(path) = k
    BY <1>1
  <1>3. PICK m \in Nat : m = NPaths * k
    BY <1>2, ServiceAssumption
  <1>4. \A i \in 1..m : path[((i - 1) % k) + 1] \in State
    <2> SUFFICES ASSUME NEW i \in 1..m
                 PROVE  path[((i - 1) % k) + 1] \in State
      OBVIOUS
    <2>1. (i - 1) % k \in 0..(k - 1)
      <3>1. i - 1 \in Nat
        OBVIOUS
      <3> QED
        BY <3>1, <1>2, ModRange
    <2>2. ((i - 1) % k) + 1 \in 1..k
      BY <2>1, <1>2
    <2> QED
      BY <2>2, <1>1
  <1>5. Repeated(path) = [i \in 1..m |-> path[((i - 1) % k) + 1]]
    BY <1>2, <1>3 DEF Repeated
  <1>6. Repeated(path) \in [1..m -> State]
    BY <1>4, <1>5
  <1> QED
    BY <1>3, <1>6

LEMMA ListsStep ==
    TypeOK /\ ListsInv /\ [ServiceNext]_allVars => ListsInv'
  <1> SUFFICES ASSUME TypeOK, ListsInv, [ServiceNext]_allVars
               PROVE  ListsInv'
    OBVIOUS
  <1> USE DEF ListsInv, Services
  <1>1. CASE ExtendReplay
    <2>1. PICK path \in Rollouts(IF first_rollout THEN 1 ELSE MaxLen) :
              visits' = Repeated(path)
      BY <1>1 DEF ExtendReplay
    <2>2. (IF first_rollout THEN 1 ELSE MaxLen) \in Nat
      BY ServiceAssumption
    <2>3. visits' \in Seq(State)
      BY <2>1, <2>2, RolloutFacts
    <2> QED
      BY <1>1, <2>3 DEF ExtendReplay
  <1>2. CASE Remembered
    BY <1>2, SeqFacts DEF Remembered
  <1>3. CASE StartTrace
    <2>1. CASE GiveUp
      BY <1>3, <2>1, GiveUpFacts DEF StartTrace
    <2>2. CASE ~GiveUp
      BY <1>3, <2>2 DEF StartTrace
    <2> QED
      BY <2>1, <2>2
  <1>4. CASE Walk
    BY <1>4 DEF Walk, serviceVars
  <1>5. CASE Walked
    BY <1>5 DEF Walked, TypeOK
  <1>6. CASE LabelAction
    <2>1. CASE GiveUp
      BY <1>6, <2>1, GiveUpFacts DEF LabelAction
    <2>2. CASE ~GiveUp
      BY <1>6, <2>2, SeqFacts DEF LabelAction, AddPair
    <2> QED
      BY <2>1, <2>2
  <1>7. CASE StartLabel
    BY <1>7, SeqFacts DEF StartLabel, StartQValues
  <1>8. CASE QValue
    <2>1. CASE GiveUp
      BY <1>8, <2>1, GiveUpFacts DEF QValue
    <2>2. CASE ~GiveUp
      BY <1>8, <2>2 DEF QValue, QEnabled
    <2> QED
      BY <2>1, <2>2
  <1>9. CASE LabelQValues
    BY <1>9, SeqFacts DEF LabelQValues, AddPair
  <1>10. CASE EndTrace
    BY <1>10, SeqFacts DEF EndTrace
  <1>11. CASE EndExtend
    BY <1>11 DEF EndExtend
  <1>12. CASE UNCHANGED allVars
    BY <1>12 DEF allVars
  <1> QED
    BY <1>1, <1>2, <1>3, <1>4, <1>5, <1>6, <1>7, <1>8, <1>9, <1>10, <1>11,
       <1>12 DEF ServiceNext, Stopped

-----------------------------------------------------------------------------
(* The service uses the teacher through its operations.                    *)

LEMMA ServiceStepIsTeacherStep ==
    TypeOK /\ ListsInv /\ [ServiceNext]_allVars => [Next]_vars
  <1> SUFFICES ASSUME TypeOK, ListsInv, [ServiceNext]_allVars
               PROVE  [Next]_vars
    OBVIOUS
  <1> USE DEF ListsInv
  <1>1. CASE StartTrace
    BY <1>1, SeqFacts DEF StartTrace, Next
  <1>2. CASE Walk
    BY <1>2 DEF Walk, Next
  <1>3. CASE Walked
    BY <1>3 DEF Walked, Next
  <1>4. CASE LabelAction
    BY <1>4, SeqFacts DEF LabelAction, Next
  <1>5. CASE StartLabel
    BY <1>5, SeqFacts DEF StartLabel, Next
  <1>6. CASE QValue
    BY <1>6 DEF QValue, Next, TypeOK
  <1>7. CASE LabelQValues
    BY <1>7 DEF LabelQValues, Next
  <1>8. CASE ExtendReplay \/ Remembered \/ EndTrace \/ EndExtend
    BY <1>8 DEF ExtendReplay, Remembered, EndTrace, EndExtend
  <1>9. CASE UNCHANGED allVars
    BY <1>9 DEF allVars, vars
  <1> QED
    BY <1>1, <1>2, <1>3, <1>4, <1>5, <1>6, <1>7, <1>8, <1>9
    DEF ServiceNext, Stopped

LEMMA ListsInvariance == ServiceSpec => [](TypeOK /\ ListsInv)
  <1>1. ServiceInit => TypeOK /\ ListsInv
    <2>1. ServiceInit => TypeOK
      BY InitIInv DEF ServiceInit, IInv
    <2>2. ServiceInit => ListsInv
      BY DEF ServiceInit, ListsInv, Services
    <2> QED
      BY <2>1, <2>2
  <1>2. TypeOK /\ ListsInv /\ [ServiceNext]_allVars => (TypeOK /\ ListsInv)'
    BY ListsStep, ServiceStepIsTeacherStep, TypeStep
  <1> QED
    BY <1>1, <1>2, PTL DEF ServiceSpec

\* Whatever the service does, it does to its teacher what FDQValueCache allows:
\* all that is proved of the teacher's cache holds inside the service.
THEOREM ServiceImplementsTeacher == ServiceSpec => Spec
  <1>1. ServiceInit => Init
    BY DEF ServiceInit
  <1> QED
    BY <1>1, ListsInvariance, ServiceStepIsTeacherStep, PTL
    DEF ServiceSpec, Spec

-----------------------------------------------------------------------------
(* Envelopes.                                                              *)

\* s is a goal or has a plan in the cache.
Costed(s) == s \in Goal \/ state_value_cache[s] \in Nat

\* What is collected on the walk, and what is still to be labelled, is costed.
EnvelopeCosted ==
    /\ svc = "walking" /\ pc = "envelope" =>
          \A i \in DOMAIN envelope : Costed(envelope[i])
    /\ svc = "walking" => pc \in {"envelope", "failed"}
    /\ svc \in {"labelling", "valuing"} =>
          \A i \in DOMAIN pol_list : Costed(pol_list[i])

LEMMA CostedKept ==
    ASSUME Improves, NEW s \in State, Costed(s)
    PROVE  Costed(s)'
  BY DEF Improves, Costed

LEMMA ListCostedKept ==
    ASSUME Improves, NEW l \in Seq(State), \A i \in DOMAIN l : Costed(l[i])
    PROVE  \A i \in DOMAIN l : (l[i] \in Goal \/ state_value_cache'[l[i]] \in Nat)
  BY DEF Improves, Costed

LEMMA TailCosted ==
    ASSUME NEW l \in Seq(State), l # <<>>, \A i \in DOMAIN l : Costed(l[i])
    PROVE  \A i \in DOMAIN Tail(l) : Costed(Tail(l)[i])
  <1>1. \A i \in DOMAIN Tail(l) : i + 1 \in DOMAIN l /\ Tail(l)[i] = l[i + 1]
    OBVIOUS
  <1> QED
    BY <1>1

\* What holds of the service's step whatever the step is.
LEMMA StepFacts ==
    ASSUME IInv, ListsInv, [ServiceNext]_allVars
    PROVE  TypeOK /\ TypeOK' /\ ListsInv' /\ Improves
  <1>1. TypeOK /\ [Next]_vars
    BY ServiceStepIsTeacherStep DEF IInv
  <1>2. TypeOK'
    BY <1>1, TypeStep
  <1>3. ListsInv'
    BY <1>1, ListsStep
  <1>4. Next => Improves
    BY <1>1, ImprovesStep
  <1>5. UNCHANGED vars => Improves
    BY <1>1 DEF vars, Improves, TypeOK, Value, Cost
  <1>6. Improves
    BY <1>1, <1>4, <1>5
  <1> QED
    BY <1>1, <1>2, <1>3, <1>6

LEMMA WalkStep ==
    ASSUME IInv, IInv', EnvelopeCosted, ListsInv, Walk
    PROVE  EnvelopeCosted'
  <1>1. svc = "walking" /\ svc' = "walking" /\ EnvelopeStep /\ pol_list' = pol_list
    BY DEF Walk, serviceVars
  <1>2. pc = "envelope" /\ UNCHANGED cache /\ pc' \in {"envelope", "failed"}
    BY <1>1 DEF EnvelopeStep
  <1>3. CASE pc' = "envelope"
    <2>1. envelope' = envelope \o <<cstate, cstate'>>
      BY <1>1, <1>3, NoneAssumption DEF EnvelopeStep
    <2>2. cstate \in State /\ cstate' \in State
          /\ Costed(cstate) /\ Costed(cstate)'
      BY <1>2, <1>3 DEF IInv, EnvelopeInv, Costed
    <2>3. envelope \in Seq(State)
      BY DEF IInv, TypeOK
    <2>4. PICK n \in Nat : n = Len(envelope)
      BY <2>3
    <2>5. \A i \in DOMAIN envelope' :
             \/ i \in DOMAIN envelope /\ envelope'[i] = envelope[i]
             \/ envelope'[i] = cstate \/ envelope'[i] = cstate'
      BY <2>1, <2>2, <2>3, <2>4
    <2>6. \A i \in DOMAIN envelope : Costed(envelope[i])
      BY <1>1, <1>2 DEF EnvelopeCosted
    <2>7. state_value_cache' = state_value_cache
      BY <1>2 DEF cache
    <2>8. \A i \in DOMAIN envelope' :
             envelope'[i] \in Goal \/ state_value_cache'[envelope'[i]] \in Nat
      BY <2>2, <2>5, <2>6, <2>7 DEF Costed
    <2> QED
      BY <1>1, <1>3, <2>8 DEF EnvelopeCosted, Costed
  <1>4. CASE pc' = "failed"
    BY <1>1, <1>4 DEF EnvelopeCosted
  <1> QED
    BY <1>2, <1>3, <1>4

LEMMA EnvelopeCostedStep ==
    ASSUME IInv, IInv', EnvelopeCosted, ListsInv, [ServiceNext]_allVars
    PROVE  EnvelopeCosted'
  <1>0. TypeOK /\ TypeOK' /\ ListsInv' /\ Improves
    BY StepFacts
  <1>1. CASE ExtendReplay \/ Remembered \/ EndTrace \/ EndExtend
    BY <1>1 DEF EnvelopeCosted, ExtendReplay, Remembered, EndTrace, EndExtend
  <1>2. CASE StartTrace
    <2>1. CASE svc' = "visiting"
      BY <2>1 DEF EnvelopeCosted
    <2>2. CASE svc' = "walking"
      <3>1. envelope' = <<>>
        BY <1>2 DEF StartTrace, StartEnvelope
      <3>2. pc' # "idle" /\ ret'.exc # "FDTimeout"
        BY <1>2, <2>2 DEF StartTrace, GiveUp
      <3>3. Continue(IF ret'.value = None THEN "idle" ELSE "envelope")
        BY <1>2 DEF StartTrace, StartEnvelope
      <3>4. pc' \in {"envelope", "failed"}
        BY <3>2, <3>3 DEF Continue
      <3> QED
        BY <2>2, <3>1, <3>4 DEF EnvelopeCosted
    <2>3. CASE svc' = "labelling"
      <3>1. pol_list' = <<>>
        BY <1>2, <2>3 DEF StartTrace, GiveUp, ListsInv
      <3> QED
        BY <2>3, <3>1 DEF EnvelopeCosted
    <2> QED
      BY <1>2, <2>1, <2>2, <2>3 DEF StartTrace, GiveUp
  <1>3. CASE Walk
    BY <1>3, WalkStep
  <1>4. CASE Walked
    <2>1. pc = "envelope" /\ svc = "walking" /\ svc' = "labelling"
          /\ pol_list' = envelope /\ state_value_cache' = state_value_cache
      BY <1>4 DEF Walked, EnvelopeDone, cache
    <2> QED
      BY <2>1 DEF EnvelopeCosted, Costed
  <1>5. CASE LabelAction \/ StartLabel \/ QValue \/ LabelQValues
    <2>1. svc \in {"labelling", "valuing"} /\ svc' # "walking"
      BY <1>5 DEF LabelAction, StartLabel, QValue, LabelQValues, GiveUp, AddPair
    <2>2. pol_list \in Seq(State) /\ pol_list # <<>>
          /\ \A i \in DOMAIN pol_list : Costed(pol_list[i])
      BY <1>5, <2>1 DEF ListsInv, EnvelopeCosted, LabelAction, StartLabel, QValue,
                  LabelQValues
    <2>3. \/ svc' = "visiting"
          \/ pol_list' = pol_list
          \/ pol_list' = Tail(pol_list)
      BY <1>5 DEF LabelAction, StartLabel, QValue, LabelQValues, GiveUp, AddPair
    <2>4. \A i \in DOMAIN Tail(pol_list) : Costed(Tail(pol_list)[i])
      BY <2>2, TailCosted
    <2>5. Tail(pol_list) \in Seq(State)
      BY <2>2, SeqFacts
    <2>6. svc' # "visiting" =>
             \A i \in DOMAIN pol_list' :
                pol_list'[i] \in Goal \/ state_value_cache'[pol_list'[i]] \in Nat
      BY <1>0, <2>2, <2>3, <2>4, <2>5, ListCostedKept
    <2> QED
      BY <1>0, <2>1, <2>6 DEF EnvelopeCosted, Costed
  <1>6. CASE UNCHANGED allVars
    BY <1>6 DEF allVars, EnvelopeCosted, Costed
  <1> QED
    BY <1>1, <1>2, <1>3, <1>4, <1>5, <1>6 DEF ServiceNext, Stopped

-----------------------------------------------------------------------------
(* Labels.                                                                 *)

\* While the actions of a state are valued, compute_q_values' own history says
\* that the cache recommended an action for it.
ValuingInv ==
    svc = "valuing" =>
        /\ cstate = Head(pol_list)
        /\ cstate \in Goal \/ (entry.value \in Nat /\ entry.action \in Action)

\* What TargetsOnPlan and StoredLabelsBound say of one pair.
OnPlan(p) ==
    p.state \notin Goal =>
        \A a \in Target(p.label) : a \in Enabled[p.state] /\ Costed(Succ[p.state][a])

Bound(p) ==
    ~only_one =>
        \A a \in Action : p.label[a] # None =>
            /\ state_value_cache[Succ[p.state][a]] \in Nat
            /\ p.label[a] \in Nat
            /\ p.label[a] >= 1 + state_value_cache[Succ[p.state][a]]

Good(p) == p.state \in State /\ OnPlan(p) /\ Bound(p)

\* Every pair the service holds: in progress, gathered, stored or memoized.
Memoized == UNION {opt_pol[s] : s \in {t \in State : opt_pol[t] # Absent}}
Held == pairs \cup Gathered \cup Memoized

PairsInv == DOMAIN opt_pol = State /\ \A p \in Held : Good(p)

LEMMA GoodKept ==
    ASSUME Improves, NEW p, Good(p), TypeOK', only_one' = only_one
    PROVE  Good(p)'
  <1>1. p.state \in State
    BY DEF Good
  <1>2. \A a \in Action : Succ[p.state][a] \in State
    BY <1>1, TaskAssumption
  <1>3. OnPlan(p)'
    <2>1. \A a \in Target(p.label) : a \in Action
      BY DEF Target
    <2> QED
      BY <1>2, <2>1, CostedKept DEF Good, OnPlan, Costed, Improves
  <1>4. Bound(p)'
    <2> SUFFICES ASSUME ~only_one, NEW a \in Action, p.label[a] # None
                 PROVE  /\ state_value_cache'[Succ[p.state][a]] \in Nat
                        /\ p.label[a] \in Nat
                        /\ p.label[a] >= 1 + state_value_cache'[Succ[p.state][a]]
      BY DEF Bound
    <2>1. /\ state_value_cache[Succ[p.state][a]] \in Nat
          /\ p.label[a] \in Nat
          /\ p.label[a] >= 1 + state_value_cache[Succ[p.state][a]]
      BY DEF Good, Bound
    <2>2. /\ state_value_cache'[Succ[p.state][a]] \in Nat
          /\ state_value_cache'[Succ[p.state][a]] <= state_value_cache[Succ[p.state][a]]
      BY <1>2, <2>1 DEF Improves
    <2> QED
      BY <2>1, <2>2
  <1> QED
    BY <1>1, <1>3, <1>4 DEF Good

\* A costed state that is no goal has a recommended action, which leads on.
LEMMA CostedSupported ==
    ASSUME IInv, pc # "failed", NEW s \in State, Costed(s), s \notin Goal
    PROVE  /\ state_value_cache[s] \in Nat
           /\ best_action_cache[s] \in Action
           /\ best_action_cache[s] \in Enabled[s]
           /\ Costed(Succ[s][best_action_cache[s]])
  <1>1. state_value_cache[s] \in Nat
    BY DEF Costed
  <1>2. EntryOK(s) /\ Ranked(s)
    BY DEF IInv, CacheInv
  <1>3. ~Terminal(s)
    BY <1>1, <1>2, NoneAssumption DEF EntryOK
  <1>4. Supports(s, best_action_cache[s], state_value_cache[s])
    BY <1>1, <1>2, <1>3 DEF Ranked
  <1>5. best_action_cache[s] \in Enabled[s]
    BY <1>4 DEF Supports
  <1>6. Enabled[s] \subseteq Action
    BY TaskAssumption
  <1> QED
    BY <1>1, <1>4, <1>5, <1>6 DEF Supports, Costed

\* single_action_label of a costed state is a cache hit: the label it becomes has
\* the cached action as its only target.
LEMMA LabelActionGood ==
    ASSUME IInv, ListsInv, EnvelopeCosted, LabelAction,
           NEW p, p = [state |-> Head(pol_list),
                       label |-> [a \in Action |-> IF a = ret'.action THEN 0
                                                   ELSE None]]
    PROVE  Good(p)
  <1> DEFINE s == Head(pol_list)
  <1>1. s \in State /\ Costed(s) /\ Query(s) /\ pc = "idle" /\ only_one
    <2>1. svc = "labelling" /\ pol_list # <<>> /\ pol_list \in Seq(State)
      BY DEF LabelAction, ListsInv
    <2>2. 1 \in DOMAIN pol_list /\ Head(pol_list) = pol_list[1]
      BY <2>1
    <2> QED
      BY <2>1, <2>2, SeqFacts DEF LabelAction, Query, EnvelopeCosted
  <1>2. p.state = s
    OBVIOUS
  <1>3. Bound(p)
    BY <1>1 DEF Bound
  <1>4. CASE s \in Goal
    BY <1>1, <1>2, <1>3, <1>4 DEF Good, OnPlan
  <1>5. CASE s \notin Goal
    <2>1. /\ state_value_cache[s] \in Nat
          /\ best_action_cache[s] \in Action
          /\ best_action_cache[s] \in Enabled[s]
          /\ Costed(Succ[s][best_action_cache[s]])
      BY <1>1, <1>5, CostedSupported
    <2>2. state_value_cache[s] # Absent
      BY <2>1, NoneAssumption
    <2>3. CacheHit(s)
      BY <1>1, <2>2
      DEF Query, Compute, TerminalMiss, Blacklisted, FDTimesOut, FDBadOutput,
          FDNoPlan, FDPlan, RunFD
    <2>4. ret'.action = best_action_cache[s]
      BY <2>3 DEF CacheHit, Return
    <2>5. p.label = [a \in Action |-> IF a = best_action_cache[s] THEN 0 ELSE None]
      BY <2>4
    <2>6. Target(p.label) \subseteq {best_action_cache[s]}
      BY <2>1, <2>5, NoneAssumption DEF Target
    <2> QED
      BY <1>1, <1>2, <1>3, <2>1, <2>6 DEF Good, OnPlan
  <1> QED
    BY <1>4, <1>5

\* The Q-values of a state: none is optimistic, and the recommended action has
\* one, so that the smallest is a number.
LEMMA LabelQValuesGood ==
    ASSUME IInv, ListsInv, ValuingInv, LabelQValues,
           NEW p, p = [state |-> Head(pol_list),
                       label |-> [a \in Action |-> IF q_values[a] \in Nat
                                                   THEN q_values[a] ELSE None]]
    PROVE  Good(p)
  <1>1. /\ svc = "valuing" /\ pc = "q_values" /\ todo = {}
        /\ cstate = Head(pol_list) /\ cstate \in State
    BY DEF LabelQValues, QDone, ListsInv, ValuingInv
  <1>2. LabelsNotOptimistic /\ RecommendedActionLabelled
    BY <1>1 DEF IInv, QInv, RecommendedActionLabelled
  <1>3. p.state = cstate
    BY <1>1
  <1>4. \A a \in Action : p.label[a] # None =>
           q_values[a] \in Nat /\ p.label[a] = q_values[a]
    OBVIOUS
  <1>5. \A a \in Action : p.label[a] # None =>
           /\ a \in Enabled[cstate]
           /\ state_value_cache[Succ[cstate][a]] \in Nat
           /\ p.label[a] \in Nat
           /\ p.label[a] >= 1 + state_value_cache[Succ[cstate][a]]
    BY <1>1, <1>2, <1>4 DEF LabelsNotOptimistic
  <1>6. Bound(p)
    BY <1>3, <1>5 DEF Bound
  <1>7. OnPlan(p)
    <2> SUFFICES ASSUME cstate \notin Goal, NEW a \in Target(p.label)
                 PROVE  a \in Enabled[cstate] /\ Costed(Succ[cstate][a])
      BY <1>3 DEF OnPlan
    <2>1. entry.value \in Nat /\ entry.action \in Action
      BY <1>1 DEF ValuingInv
    <2>2. q_values[entry.action] \in Nat
      BY <1>1, <1>2, <2>1 DEF RecommendedActionLabelled
    <2>3. p.label[entry.action] # None
      BY <2>1, <2>2, NoneAssumption
    <2>4. a \in Action /\ p.label[a] # None
      BY <2>1, <2>3 DEF Target
    <2> QED
      BY <1>5, <2>4 DEF Costed
  <1> QED
    BY <1>1, <1>3, <1>6, <1>7 DEF Good

LEMMA ValuingStep ==
    ASSUME IInv, ListsInv, EnvelopeCosted, ValuingInv, [ServiceNext]_allVars
    PROVE  ValuingInv'
  <1>1. CASE StartLabel
    <2> DEFINE s == Head(pol_list)
    <2>1. /\ pol_list # <<>> /\ pol_list \in Seq(State) /\ pol_list' = pol_list
          /\ StartQValues(s) /\ svc = "labelling"
      BY <1>1 DEF StartLabel, ListsInv
    <2>2. 1 \in DOMAIN pol_list /\ s = pol_list[1] /\ s \in State
      BY <2>1, SeqFacts
    <2>3. Costed(s)
      BY <2>1, <2>2 DEF EnvelopeCosted
    <2>4. /\ pc = "idle" /\ cstate' = s
          /\ entry' = [value |-> state_value_cache[s],
                       action |-> best_action_cache[s]]
      BY <2>1 DEF StartQValues
    <2>5. s \in Goal \/ (entry'.value \in Nat /\ entry'.action \in Action)
      BY <2>2, <2>3, <2>4, CostedSupported
    <2> QED
      BY <2>1, <2>4, <2>5 DEF ValuingInv
  <1>2. CASE QValue
    <2>1. svc = "valuing" /\ UNCHANGED <<cstate, entry>>
      BY <1>2 DEF QValue, QEnabled
    <2>2. svc' = "visiting" \/ pol_list' = pol_list
      BY <1>2 DEF QValue, GiveUp
    <2> QED
      BY <2>1, <2>2 DEF ValuingInv
  <1>3. CASE ExtendReplay \/ Remembered \/ StartTrace \/ Walk \/ Walked
             \/ LabelAction \/ LabelQValues \/ EndTrace \/ EndExtend
    <2>1. svc' # "valuing"
      BY <1>3 DEF ExtendReplay, Remembered, StartTrace, Walk, Walked, LabelAction,
                  LabelQValues, EndTrace, EndExtend, GiveUp, AddPair, serviceVars
    <2> QED
      BY <2>1 DEF ValuingInv
  <1>4. CASE UNCHANGED allVars
    BY <1>4 DEF allVars, ValuingInv
  <1> QED
    BY <1>1, <1>2, <1>3, <1>4 DEF ServiceNext, Stopped

\* The only steps that bring a new pair are those that label a state.
LEMMA HeldStep ==
    ASSUME ListsInv, DOMAIN opt_pol = State, [ServiceNext]_allVars,
           NEW p \in Held', p \notin Held
    PROVE  \/ /\ LabelAction
              /\ p = [state |-> Head(pol_list),
                      label |-> [a \in Action |-> IF a = ret'.action THEN 0
                                                  ELSE None]]
           \/ /\ LabelQValues
              /\ p = [state |-> Head(pol_list),
                      label |-> [a \in Action |-> IF q_values[a] \in Nat
                                                  THEN q_values[a] ELSE None]]
  <1> USE DEF Held, Gathered
  <1>1. CASE ExtendReplay
    BY <1>1 DEF ExtendReplay, Memoized
  <1>2. CASE Remembered
    <2>1. opt_pol[Head(visits)] \subseteq Memoized
      BY <1>2, SeqFacts DEF Remembered, ListsInv, Memoized
    <2>2. new_pairs' \subseteq new_pairs \cup Memoized
      BY <1>2, <2>1 DEF Remembered, Filtered
    <2> QED
      BY <1>2, <2>2 DEF Remembered, Memoized
  <1>3. CASE StartTrace \/ Walk \/ Walked \/ StartLabel \/ QValue
    <2>1. pairs' \subseteq pairs
      BY <1>3 DEF StartTrace, Walk, Walked, StartLabel, QValue, GiveUp, serviceVars
    <2>2. UNCHANGED <<opt_pol, new_pairs, replay>>
      BY <1>3 DEF StartTrace, Walk, Walked, StartLabel, QValue, serviceVars
    <2> QED
      BY <2>1, <2>2 DEF Memoized
  <1>4. CASE LabelAction
    <2>1. UNCHANGED <<opt_pol, new_pairs, replay>>
      BY <1>4 DEF LabelAction
    <2>2. Memoized' = Memoized
      BY <2>1 DEF Memoized
    <2>3. p \in pairs' /\ p \notin pairs
      BY <2>1, <2>2
    <2> QED
      BY <1>4, <2>3 DEF LabelAction, GiveUp, AddPair
  <1>5. CASE LabelQValues
    <2>1. UNCHANGED <<opt_pol, new_pairs, replay>>
      BY <1>5 DEF LabelQValues
    <2>2. Memoized' = Memoized
      BY <2>1 DEF Memoized
    <2>3. p \in pairs' /\ p \notin pairs
      BY <2>1, <2>2
    <2> QED
      BY <1>5, <2>3 DEF LabelQValues, AddPair
  <1>6. CASE EndTrace
    <2>1. Memoized' \subseteq Memoized \cup pairs
      BY <1>6 DEF EndTrace, Memoized
    <2>2. new_pairs' \subseteq new_pairs \cup pairs /\ pairs' = {}
          /\ replay' = replay
      BY <1>6 DEF EndTrace, Filtered
    <2> QED
      BY <2>1, <2>2
  <1>7. CASE EndExtend
    <2>1. BagToSet(replay') \subseteq BagToSet(replay) \cup new_pairs
      BY <1>7 DEF EndExtend, BagToSet, SetToBag, (+)
    <2>2. UNCHANGED <<pairs, new_pairs, opt_pol>>
      BY <1>7 DEF EndExtend
    <2> QED
      BY <2>1, <2>2 DEF Memoized
  <1>8. CASE UNCHANGED allVars
    BY <1>8 DEF allVars, Memoized
  <1> QED
    BY <1>1, <1>2, <1>3, <1>4, <1>5, <1>6, <1>7, <1>8 DEF ServiceNext, Stopped

LEMMA PairsStep ==
    ASSUME IInv, ListsInv, EnvelopeCosted, ValuingInv, PairsInv,
           [ServiceNext]_allVars
    PROVE  PairsInv'
  <1>1. TypeOK' /\ Improves
    BY StepFacts
  <1>2. DOMAIN opt_pol' = State
    BY DEF PairsInv, ServiceNext, allVars, ExtendReplay, Remembered, StartTrace,
           Walk, Walked, LabelAction, StartLabel, QValue, LabelQValues, EndTrace,
           EndExtend, Stopped, serviceVars
  <1>3. only_one' = only_one
    BY DEF ServiceNext, allVars
  <1>4. ASSUME NEW p \in Held'
        PROVE  Good(p)'
    <2>1. Good(p)
      <3>1. CASE p \in Held
        BY <3>1 DEF PairsInv
      <3>2. CASE p \notin Held
        BY <3>2, HeldStep, LabelActionGood, LabelQValuesGood DEF PairsInv
      <3> QED
        BY <3>1, <3>2
    <2> QED
      BY <1>1, <1>3, <2>1, GoodKept
  <1> QED
    BY <1>2, <1>4 DEF PairsInv

-----------------------------------------------------------------------------
(* Every visited state has its label.                                      *)

\* What is cached as having no plan stays so: a plan through it clashes there,
\* before anything is written.
NoneStays ==
    \A t \in State : state_value_cache[t] = None => state_value_cache'[t] = None

\* One run of the planner, whatever it returns.
LEMMA ComputeKeepsNone ==
    ASSUME TypeOK, NEW s \in State, Compute(s)
    PROVE  NoneStays
  <1> SUFFICES ASSUME NEW t \in State, state_value_cache[t] = None
               PROVE  state_value_cache'[t] = None
    BY DEF NoneStays
  <1> USE NoneAssumption
  <1>1. CASE UNCHANGED cache
    BY <1>1 DEF cache
  <1>2. CASE TerminalMiss(s)
    BY <1>2 DEF TerminalMiss, Store, TypeOK
  <1>3. CASE FDNoPlan(s)
    BY <1>3 DEF FDNoPlan, RunFD, Store, TypeOK
  <1>4. CASE FDPlan(s)
    <2>1. PICK plan \in Plans(s) : Improve(plan)
      BY <1>4 DEF FDPlan
    <2>2. \A i \in Written(plan) : plan[i].state # t
      <3> SUFFICES ASSUME NEW i \in Written(plan), plan[i].state = t
                   PROVE  FALSE
        OBVIOUS
      <3>1. i \in DOMAIN plan /\ \A j \in 1..i : state_value_cache[plan[j].state] # None
        BY DEF Written, Reached
      <3>2. DOMAIN plan = 1..Len(plan) /\ Len(plan) \in 1..MaxPlanLen
        BY PlanFacts
      <3>3. i \in 1..i
        BY <3>1, <3>2, BoundAssumption
      <3> QED
        BY <3>1, <3>3
    <2>3. state_value_cache'[t] = state_value_cache[t]
      BY <2>1, <2>2, ImproveFacts
    <2> QED
      BY <2>3
  <1> QED
    BY <1>1, <1>2, <1>3, <1>4
    DEF Compute, CacheHit, Blacklisted, FDTimesOut, FDBadOutput

\* Every step of the teacher.
LEMMA NoneStaysStep == TypeOK /\ [Next]_vars => NoneStays
  <1> SUFFICES ASSUME TypeOK, [Next]_vars PROVE NoneStays
    OBVIOUS
  <1>1. CASE \E s \in State : Query(s) \/ StartEnvelope(s)
    BY <1>1, ComputeKeepsNone DEF Query, StartEnvelope
  <1>2. CASE \E a \in Action : QEnabled(a)
    <2>1. PICK a \in Action : QEnabled(a)
      BY <1>2
    <2>2. NextState(cstate, a) \in State /\ Compute(NextState(cstate, a))
      BY <2>1, TaskAssumption DEF QEnabled, NextState, TypeOK
    <2> QED
      BY <2>2, ComputeKeepsNone
  <1>3. CASE UNCHANGED state_value_cache
    BY <1>3 DEF NoneStays
  <1>4. CASE \/ \E s \in State : StartQValues(s)
             \/ \E a \in Action : QDisabled(a)
             \/ QDone
             \/ EnvelopeStep
             \/ EnvelopeDone
             \/ Failed
             \/ UNCHANGED vars
    BY <1>3, <1>4
    DEF StartQValues, QDisabled, QDone, EnvelopeStep, EnvelopeDone, Failed,
        cache, vars
  <1> QED
    BY <1>1, <1>2, <1>4 DEF Next

\* The states that must be labelled, as far as the teacher knows.
Wanted(s) == s \notin Goal /\ state_value_cache[s] \in Nat

\* The pairs ps label the state s.
PairOf(s, ps) == \E p \in ps : p.state = s

\* The state whose trace is in progress is known to the teacher, and is on its
\* way to a label: on the envelope, on the list, or labelled.
TraceInv ==
    svc \in {"walking", "labelling", "valuing"} /\ pc # "failed" =>
        /\ state_value_cache[Head(visits)] # Absent
        /\ Wanted(Head(visits)) =>
              /\ svc = "walking" => \/ envelope = <<>> /\ cstate = Head(visits)
                                    \/ \E i \in DOMAIN envelope : envelope[i] = Head(visits)
              /\ svc # "walking" => \/ \E i \in DOMAIN pol_list : pol_list[i] = Head(visits)
                                    \/ PairOf(Head(visits), pairs)

\* What is memoized is complete, and has been gathered.
MemoInv ==
    \A s \in State : opt_pol[s] # Absent =>
        /\ state_value_cache[s] # Absent
        /\ Wanted(s) => PairOf(s, opt_pol[s])
        /\ Filtered(opt_pol[s]) \subseteq Gathered

ReplayInv == svc = "ready" => new_pairs \subseteq BagToSet(replay)

\* The inductive invariant of this section.
VisitInv == TraceInv /\ MemoInv /\ ReplayInv

\* The teacher learns of a state once, and learns costs only of states that it
\* does not take for unsolvable.
LEMMA KnownKept ==
    ASSUME IInv, ListsInv, [ServiceNext]_allVars, NEW s \in State, state_value_cache[s] # Absent
    PROVE  state_value_cache'[s] # Absent /\ (Wanted(s)' => Wanted(s))
  <1>1. TypeOK /\ Improves /\ NoneStays
    BY StepFacts, ServiceStepIsTeacherStep, NoneStaysStep DEF IInv
  <1>2. state_value_cache[s] \in Nat \/ state_value_cache[s] = None
    BY <1>1 DEF TypeOK, Value, Cost
  <1> QED
    BY <1>1, <1>2, NoneAssumption DEF Improves, NoneStays, Wanted

\* A trace starts with a state that the teacher now knows.
LEMMA StartTraceStep ==
    ASSUME IInv, ListsInv, StartTrace
    PROVE  TraceInv'
  <1> DEFINE s == Head(visits)
  <1>1. CASE svc' = "visiting"
    BY <1>1 DEF TraceInv
  <1>2. CASE svc' # "visiting"
    <2>1. /\ StartEnvelope(s) /\ ret'.exc # "FDTimeout" /\ visits' = visits
          /\ svc' = IF pc' = "idle" THEN "labelling" ELSE "walking"
      BY <1>2 DEF StartTrace, GiveUp
    <2>2. s \in State /\ TypeOK
      BY SeqFacts DEF StartTrace, ListsInv, IInv
    <2>3. SUFFICES ASSUME pc' # "failed" PROVE TraceInv'
      BY DEF TraceInv
    <2>4. Compute(s) /\ Continue(IF ret'.value = None THEN "idle" ELSE "envelope")
          /\ cstate' = s /\ envelope' = <<>>
      BY <2>1 DEF StartEnvelope
    <2>5. ret'.exc = "none"
      BY <2>1, <2>3, <2>4 DEF Continue
    <2>6. ret'.value = state_value_cache'[s] /\ ret'.value \in Nat \cup {None}
      BY <2>2, <2>4, <2>5, ComputeReturns
    <2>7. pc' = IF ret'.value = None THEN "idle" ELSE "envelope"
      BY <2>4, <2>5 DEF Continue
    <2>8. svc' # "walking" => ~Wanted(s)'
      BY <2>1, <2>6, <2>7, NoneAssumption DEF Wanted
    <2> QED
      BY <2>1, <2>4, <2>6, <2>8, NoneAssumption DEF TraceInv
  <1> QED
    BY <1>1, <1>2

\* The envelope starts with the state, and grows.
LEMMA WalkTraces ==
    ASSUME IInv, ListsInv, TraceInv, [ServiceNext]_allVars, Walk
    PROVE  TraceInv'
  <1> DEFINE s == Head(visits)
  <1>1. /\ svc = "walking" /\ svc' = "walking" /\ visits' = visits /\ EnvelopeStep
        /\ pc = "envelope" /\ s \in State /\ state_value_cache[s] # Absent
        /\ envelope \in Seq(State) /\ TypeOK
    BY SeqFacts DEF Walk, serviceVars, EnvelopeStep, ListsInv, TraceInv, IInv, TypeOK
  <1>2. SUFFICES ASSUME pc' # "failed", Wanted(s)'
                 PROVE  \E i \in DOMAIN envelope' : envelope'[i] = s
    BY <1>1, KnownKept DEF TraceInv
  <1>3. Wanted(s)
    BY <1>1, <1>2, KnownKept
  <1>4. (envelope = <<>> /\ cstate = s) \/ \E i \in DOMAIN envelope : envelope[i] = s
    BY <1>1, <1>3 DEF TraceInv
  <1>5. envelope' = envelope \o <<cstate, cstate'>>
    BY <1>1, <1>2 DEF EnvelopeStep
  <1>6. CASE envelope = <<>> /\ cstate = s
    <2>1. envelope' = <<s, cstate'>>
      BY <1>5, <1>6
    <2> QED
      BY <2>1
  <1>7. ASSUME NEW i \in DOMAIN envelope, envelope[i] = s
        PROVE  i \in DOMAIN envelope' /\ envelope'[i] = s
    <2>1. cstate \in State /\ cstate' \in State
      BY <1>1, <1>2, StepFacts DEF TypeOK, EnvelopeStep
    <2> QED
      BY <1>1, <1>5, <1>7, <2>1
  <1> QED
    BY <1>4, <1>6, <1>7

\* When its turn comes the state leaves the list with a label.
LEMMA AddPairTraces ==
    ASSUME visits \in Seq(State), pol_list \in Seq(State), pol_list # <<>>,
           NEW s, NEW label, AddPair(Head(pol_list), label),
           (\E i \in DOMAIN pol_list : pol_list[i] = s) \/ PairOf(s, pairs)
    PROVE  (\E i \in DOMAIN pol_list' : pol_list'[i] = s) \/ PairOf(s, pairs')
  <1>1. /\ pairs' = pairs \cup {[state |-> Head(pol_list), label |-> label]}
        /\ pol_list' = Tail(pol_list)
    BY DEF AddPair
  <1>2. CASE PairOf(s, pairs)
    BY <1>1, <1>2 DEF PairOf
  <1>3. CASE \E i \in DOMAIN pol_list : pol_list[i] = s
    <2>1. PICK i \in DOMAIN pol_list : pol_list[i] = s
      BY <1>3
    <2>2. CASE i = 1
      <3>1. Head(pol_list) = s
        BY <2>1, <2>2
      <3>2. [state |-> Head(pol_list), label |-> label] \in pairs'
            /\ [state |-> Head(pol_list), label |-> label].state = s
        BY <1>1, <3>1
      <3> QED
        BY <3>2 DEF PairOf
    <2>3. CASE i # 1
      <3>1. i - 1 \in DOMAIN Tail(pol_list) /\ Tail(pol_list)[i - 1] = s
        BY <2>1, <2>3
      <3> QED
        BY <1>1, <3>1
    <2> QED
      BY <2>2, <2>3
  <1> QED
    BY <1>2, <1>3

\* One step per action of the service.
LEMMA TraceStep ==
    ASSUME IInv, ListsInv, TraceInv, [ServiceNext]_allVars
    PROVE  TraceInv'
  <1> DEFINE s == Head(visits)
  <1>1. CASE StartTrace
    BY <1>1, StartTraceStep
  <1>2. CASE Walk
    BY <1>2, WalkTraces
  <1>3. CASE svc' \in {"ready", "visiting"}
    BY <1>3 DEF TraceInv
  <1>4. CASE Walked
    <2>1. /\ svc = "walking" /\ pc = "envelope" /\ svc' = "labelling" /\ pc' = "idle"
          /\ Terminal(cstate) /\ pol_list' = envelope
          /\ UNCHANGED <<visits, state_value_cache>>
      BY <1>4 DEF Walked, EnvelopeDone, Forget, cache
    <2>2. cstate \in State /\ (state_value_cache[cstate] \in Nat \/ cstate \in Goal)
      BY <2>1 DEF IInv, EnvelopeInv
    <2>3. Wanted(s) => envelope # <<>> \/ cstate # s
      <3>1. pc # "failed" /\ CacheInv
        BY <2>1 DEF IInv
      <3>2. EntryOK(cstate)
        BY <2>2, <3>1 DEF CacheInv
      <3>3. Wanted(cstate) => FALSE
        BY <2>1, <2>2, <3>2, NoneAssumption DEF EntryOK, Wanted, Terminal, Supports
      <3> QED
        BY <3>3
    <2>4. state_value_cache[s] # Absent
          /\ (Wanted(s) => \E i \in DOMAIN envelope : envelope[i] = s)
      BY <2>1, <2>3 DEF TraceInv
    <2> QED
      BY <2>1, <2>4 DEF TraceInv, Wanted
  <1>5. CASE (StartLabel \/ QValue) /\ svc' # "visiting"
    <2>1. /\ svc \in {"labelling", "valuing"} /\ svc' \in {"labelling", "valuing"}
          /\ pc # "failed" /\ UNCHANGED <<visits, pol_list, pairs>>
      BY <1>5 DEF StartLabel, QValue, StartQValues, QEnabled, GiveUp
    <2>2. PICK t \in State : t = s /\ state_value_cache[t] # Absent
      BY <2>1, SeqFacts DEF ListsInv, TraceInv
    <2>3. state_value_cache'[t] # Absent /\ (Wanted(t)' => Wanted(t))
      BY <2>2, KnownKept
    <2> QED
      BY <2>1, <2>2, <2>3 DEF TraceInv
  <1>6. CASE (LabelAction \/ LabelQValues) /\ svc' # "visiting"
    <2>1. /\ svc \in {"labelling", "valuing"} /\ svc' \in {"labelling", "valuing"}
          /\ pc # "failed" /\ visits' = visits /\ pol_list # <<>>
          /\ \E label : AddPair(Head(pol_list), label)
      BY <1>6 DEF LabelAction, LabelQValues, Query, QDone, GiveUp, AddPair, ListsInv
    <2>2. PICK t \in State : t = s /\ state_value_cache[t] # Absent
      BY <2>1, SeqFacts DEF ListsInv, TraceInv
    <2>3. state_value_cache'[t] # Absent /\ (Wanted(t)' => Wanted(t))
      BY <2>2, KnownKept
    <2>4. Wanted(t) => (\E i \in DOMAIN pol_list' : pol_list'[i] = t) \/ PairOf(t, pairs')
      BY <2>1, <2>2, AddPairTraces DEF ListsInv, TraceInv
    <2> QED
      BY <2>1, <2>2, <2>3, <2>4 DEF TraceInv
  <1>7. CASE UNCHANGED allVars
    BY <1>7 DEF allVars, TraceInv, Wanted, PairOf
  <1> QED
    BY <1>1, <1>2, <1>3, <1>4, <1>5, <1>6, <1>7
    DEF ServiceNext, Stopped, ExtendReplay, Remembered, LabelAction, QValue, GiveUp,
        EndTrace, EndExtend, LabelQValues, AddPair

\* No pair is lost, when a call starts either.
LEMMA GatheredStep ==
    ASSUME ReplayInv, [ServiceNext]_allVars
    PROVE  Gathered \subseteq Gathered' /\ ReplayInv'
  <1>1. CASE ExtendReplay
    BY <1>1 DEF ExtendReplay, ReplayInv, Gathered
  <1>2. CASE Remembered \/ EndTrace
    BY <1>2 DEF Remembered, EndTrace, ReplayInv, Gathered
  <1>3. CASE EndExtend
    <2>1. BagToSet(replay') = BagToSet(replay) \cup new_pairs
      BY <1>3 DEF EndExtend, BagToSet, SetToBag, (+)
    <2> QED
      BY <1>3, <2>1 DEF EndExtend, ReplayInv, Gathered
  <1>4. CASE UNCHANGED <<new_pairs, replay>> /\ (svc' # "ready" \/ svc' = svc)
    BY <1>4 DEF ReplayInv, Gathered
  <1> QED
    BY <1>1, <1>2, <1>3, <1>4
    DEF ServiceNext, Stopped, allVars, StartTrace, Walk, Walked, LabelAction, StartLabel,
        QValue, LabelQValues, GiveUp, AddPair, serviceVars

\* Only the end of a trace memoizes anything.
LEMMA MemoStep ==
    ASSUME IInv, ListsInv, DOMAIN opt_pol = State, TraceInv, MemoInv, ReplayInv,
           [ServiceNext]_allVars
    PROVE  MemoInv'
  <1>0. Gathered \subseteq Gathered'
    BY GatheredStep
  <1>1. ASSUME NEW s \in State, opt_pol'[s] = opt_pol[s], opt_pol[s] # Absent
        PROVE  /\ state_value_cache'[s] # Absent
               /\ Wanted(s)' => PairOf(s, opt_pol'[s])
               /\ Filtered(opt_pol'[s]) \subseteq Gathered'
    BY <1>0, <1>1, KnownKept DEF MemoInv
  <1>2. CASE EndTrace
    <2>0. PICK s \in State : s = Head(visits)
      BY <1>2, SeqFacts DEF EndTrace, ListsInv
    <2>1. /\ svc = "labelling" /\ pc = "idle" /\ pol_list = <<>>
          /\ opt_pol' = [opt_pol EXCEPT ![s] = pairs]
          /\ new_pairs' = new_pairs \cup Filtered(pairs)
          /\ state_value_cache' = state_value_cache
      BY <1>2, <2>0 DEF EndTrace, vars
    <2>2. opt_pol'[s] = pairs /\ \A t \in State : t # s => opt_pol'[t] = opt_pol[t]
      BY <2>1
    <2>3. state_value_cache'[s] # Absent /\ (Wanted(s)' => PairOf(s, pairs))
      BY <2>0, <2>1 DEF TraceInv, Wanted
    <2>4. Filtered(pairs) \subseteq Gathered'
      BY <2>1 DEF Gathered
    <2> QED
      BY <1>1, <2>2, <2>3, <2>4 DEF MemoInv
  <1>3. CASE ~EndTrace
    <2>1. opt_pol' = opt_pol
      BY <1>3 DEF ServiceNext, allVars, ExtendReplay, Remembered, StartTrace,
             Walk, Walked, LabelAction, StartLabel, QValue, LabelQValues,
             EndExtend, Stopped, serviceVars
    <2> QED
      BY <1>1, <2>1 DEF MemoInv
  <1> QED
    BY <1>2, <1>3

-----------------------------------------------------------------------------
(* The theorems.                                                           *)

ServiceInv == EnvelopeCosted /\ ValuingInv /\ PairsInv

LEMMA InitServiceInv == ServiceInit => ServiceInv
  <1> SUFFICES ASSUME ServiceInit PROVE ServiceInv
    OBVIOUS
  <1> USE DEF ServiceInit
  <1>1. EnvelopeCosted /\ ValuingInv
    BY DEF EnvelopeCosted, ValuingInv
  <1>2. Memoized = {}
    BY DEF Memoized
  <1>3. BagToSet(replay) = {}
    BY DEF EmptyBag, SetToBag, BagToSet
  <1>4. PairsInv
    BY <1>2, <1>3 DEF PairsInv, Held, Gathered
  <1> QED
    BY <1>1, <1>4 DEF ServiceInv

LEMMA ServiceInvariance == ServiceSpec => [](IInv /\ ServiceInv)
  <1>1. ServiceInit => ServiceInv
    BY InitServiceInv
  <1>2. ServiceSpec => []IInv
    BY ServiceImplementsTeacher, Invariance, PTL
  <1>3. IInv /\ IInv' /\ ListsInv /\ ServiceInv /\ [ServiceNext]_allVars
            => ServiceInv'
    BY EnvelopeCostedStep, ValuingStep, PairsStep DEF ServiceInv
  <1> QED
    BY <1>1, <1>2, <1>3, ListsInvariance, PTL DEF ServiceSpec

\* Labels are asked for only of goals and of states the cache has a cost for:
\* single_action_label is a cache hit whenever planner_trace uses it.
THEOREM LabelQueriesHitThm == ServiceSpec => []LabelQueriesHit
  <1>1. ServiceInv => LabelQueriesHit
    BY DEF ServiceInv, EnvelopeCosted, Costed, LabelQueriesHit
  <1> QED
    BY <1>1, ServiceInvariance, PTL

\* No label, of either kind and however old, trains the network towards an action
\* from which the teacher knows no way to the goal.
THEOREM TargetsOnPlanThm == ServiceSpec => []TargetsOnPlan
  <1>1. ServiceInv => TargetsOnPlan
    <2> SUFFICES ASSUME ServiceInv, NEW p \in Gathered
                 PROVE  OnPlan(p)
      BY DEF TargetsOnPlan, OnPlan, Costed
    <2> QED
      BY DEF ServiceInv, PairsInv, Held, Good
  <1> QED
    BY <1>1, ServiceInvariance, PTL

\* Stored Q-values stay upper bounds while the cache goes on improving.
THEOREM StoredLabelsBoundThm == ServiceSpec => []StoredLabelsBound
  <1>1. ServiceInv => StoredLabelsBound
    <2> SUFFICES ASSUME ServiceInv, NEW p \in Gathered
                 PROVE  Bound(p)
      BY DEF StoredLabelsBound, Bound
    <2> QED
      BY DEF ServiceInv, PairsInv, Held, Good
  <1> QED
    BY <1>1, ServiceInvariance, PTL

\* Whatever times out or becomes known on the way: between two calls, a state
\* whose experience is memoized and that has a plan and a choice of actions is
\* in the replay buffer.
THEOREM VisitedStatesLabelledThm == ServiceSpec => []VisitedStatesLabelled
  <1>1. ServiceInit => VisitInv
    BY DEF ServiceInit, VisitInv, TraceInv, MemoInv, ReplayInv
  <1>2. IInv /\ ListsInv /\ ServiceInv /\ VisitInv /\ [ServiceNext]_allVars => VisitInv'
    BY TraceStep, MemoStep, GatheredStep DEF VisitInv, ServiceInv, PairsInv
  <1>3. VisitInv => VisitedStatesLabelled
    <2> SUFFICES ASSUME VisitInv, svc = "ready", NEW s \in State, opt_pol[s] # Absent,
                        state_value_cache[s] \in Nat, s \notin Goal,
                        Cardinality(Enabled[s]) > 1
                 PROVE  \E p \in BagToSet(replay) : p.state = s
      BY DEF VisitedStatesLabelled
    <2>1. PICK p \in opt_pol[s] : p.state = s
      BY DEF VisitInv, MemoInv, Wanted, PairOf
    <2>2. p \in Filtered(opt_pol[s])
      BY <2>1 DEF Filtered
    <2>3. p \in Gathered
      BY <2>2 DEF VisitInv, MemoInv
    <2> QED
      BY <2>1, <2>3 DEF VisitInv, ReplayInv, Gathered
  <1> QED
    BY <1>1, <1>2, <1>3, ServiceInvariance, ListsInvariance, PTL DEF ServiceSpec
=============================================================================
