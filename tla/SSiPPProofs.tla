----------------------------- MODULE SSiPPProofs -----------------------------
(***************************************************************************)
(* Theorems about the SSiPP planners and their callers, for every problem, *)
(* every admissible heuristic, every planner and every deadline.           *)
(*                                                                         *)
(* First the operators: sums and folds over finite sets (SetRecursion),    *)
(* the least Q-value, and that the Bellman operator is monotone            *)
(* (GreedyMonotone): no backup raises a value above an upper solution of   *)
(* the Bellman equation, whichever states are goals.                       *)
(*                                                                         *)
(* Then the short-sighted SSPs: each of the three contains the successors  *)
(* of all its states that are not fringe (NewSpaceAround), so that a       *)
(* planner that follows actions from inside stays inside until it meets a  *)
(* fringe.                                                                 *)
(*                                                                         *)
(* Last the inductive invariant of a planner and its callers: the values   *)
(* stay below the solution (Types), what the planner is working on lies in *)
(* the space that it holds (Inside), and where the planner stands agrees   *)
(* with what it was asked (Control).                                       *)
(*                                                                         *)
(* Three more parts of it are about what is kept.  Of LRTDP, Labelling:    *)
(* from a state that is solved an action leads to accepted states (Sound), *)
(* also during checkSolved (Checked), as long as the labels matter         *)
(* (Fresh): those of the optimal planner inside Labeled SSiPP go stale at  *)
(* the end of a round, before they are deleted.  Of the teacher, Trusted:  *)
(* the planner keeps an action for each state that is listed, and QInv:    *)
(* what hp_q_value has summed up is at most the optimal sum.               *)
(***************************************************************************)
EXTENDS SSiPPTeacher, FiniteSetTheorems, TLAPS

-----------------------------------------------------------------------------
(* Induction and recursion.                                                *)

\* A set with 0 and the successor of each of its numbers holds all numbers:
\* else its numbers up to a missing one, and the predecessors of the others,
\* would put m + 1 pigeons into m holes.
LEMMA Induction ==
    ASSUME NEW P, 0 \in P, \A n \in Nat : n \in P => n + 1 \in P
    PROVE  Nat \subseteq P
  <1> SUFFICES ASSUME NEW m \in Nat, m \notin P PROVE FALSE
    OBVIOUS
  <1> m > 0
    OBVIOUS
  <1> DEFINE hole == [i \in 0..m |-> IF i \in P THEN i ELSE i - 1]
  <1>1. hole \in [0..m -> 0..(m - 1)]
    OBVIOUS
  <1>2. \A i, j \in 0..m : i # j => hole[i] # hole[j]
    <2> SUFFICES ASSUME NEW i \in 0..m, NEW j \in 0..m, i # j, hole[i] = hole[j]
                 PROVE  FALSE
      OBVIOUS
    <2>1. CASE i \in P /\ j \notin P
      <3> j = i + 1
        BY <2>1
      <3> QED BY <2>1
    <2>2. CASE j \in P /\ i \notin P
      <3> i = j + 1
        BY <2>2
      <3> QED BY <2>2
    <2> QED BY <2>1, <2>2
  <1>3. /\ IsFiniteSet(0..m) /\ Cardinality(0..m) = m + 1
        /\ IsFiniteSet(0..(m - 1)) /\ Cardinality(0..(m - 1)) = m
    <2>1. 0 \in Int /\ m \in Int /\ m - 1 \in Int
      OBVIOUS
    <2> QED BY <2>1, FS_Interval
  <1> HIDE DEF hole
  <1>4. Cardinality(0..(m - 1)) < Cardinality(0..m)
    BY <1>3
  <1>5. \E i, j \in 0..m : i # j /\ hole[i] = hole[j]
    BY <1>1, <1>3, <1>4, FS_PigeonHole, Zenon
  <1> QED BY <1>2, <1>5

\* A set of numbers that is not empty has a least one.
LEMMA LeastNumber ==
    ASSUME NEW S, S \subseteq Nat, S # {}
    PROVE  \E m \in S : \A k \in S : m <= k
  <1> SUFFICES ASSUME \A m \in S : \E k \in S : ~(m <= k) PROVE FALSE
    OBVIOUS
  <1> DEFINE P == {n \in Nat : \A k \in S : n < k}
  <1>1. 0 \in P
    OBVIOUS
  <1>2. \A n \in Nat : n \in P => n + 1 \in P
    OBVIOUS
  <1> HIDE DEF P
  <1>3. Nat \subseteq P
    BY <1>1, <1>2, Induction
  <1>4. PICK k \in S : k \in Nat
    OBVIOUS
  <1> QED BY <1>3, <1>4 DEF P

\* A set of numbers that is not empty and has an upper bound has a greatest one.
LEMMA GreatestNumber ==
    ASSUME NEW S, S \subseteq Nat, S # {}, NEW b \in Nat, \A m \in S : m <= b
    PROVE  \E m \in S : \A k \in S : k <= m
  <1> DEFINE R == {n \in Nat : \A k \in S : k <= n}
  <1>1. R \subseteq Nat /\ R # {}
    OBVIOUS
  <1>2. PICK n \in R : \A k \in R : n <= k
    BY <1>1, LeastNumber
  <1>3. n \in S
    <2> SUFFICES ASSUME n \notin S PROVE FALSE
      OBVIOUS
    <2>1. PICK k \in S : k \in Nat /\ k <= n
      BY <1>2
    <2>2. n - 1 \in R
      <3>1. n - 1 \in Nat
        BY <2>1, <1>2
      <3>2. ASSUME NEW i \in S PROVE i <= n - 1
        BY <1>2, <3>2
      <3> QED BY <3>1, <3>2
    <2> QED BY <1>2, <2>2
  <1> QED BY <1>2, <1>3

\* The elements of S are taken one by one, pick[T] first when T is left, and
\* step[x] says what x makes of the value for the rest.
Recursive(g, S, X, base, pick, step) ==
    /\ g \in [SUBSET S -> X]
    /\ \A T \in SUBSET S : g[T] = IF T = {} THEN base
                                  ELSE step[pick[T]][g[T \ {pick[T]}]]

\* A function of the subsets of a finite set that is defined in this way exists.
LEMMA SetRecursion ==
    ASSUME NEW S, IsFiniteSet(S), NEW X, NEW base \in X,
           NEW pick, \A T \in SUBSET S : T # {} => pick[T] \in T,
           NEW step \in [S -> [X -> X]]
    PROVE  \E g : Recursive(g, S, X, base, pick, step)
  <1> DEFINE Small(m) == {T \in SUBSET S : Cardinality(T) <= m}
             OK(g, T) == g[T] = IF T = {} THEN base ELSE step[pick[T]][g[T \ {pick[T]}]]
             P == {m \in Nat : \E g \in [Small(m) -> X] : \A T \in Small(m) : OK(g, T)}
  <1>1. \A T \in SUBSET S : IsFiniteSet(T) /\ Cardinality(T) \in Nat
    BY FS_Subset, FS_CardinalityType
  <1>2. \A T \in SUBSET S : Cardinality(T) = 0 <=> T = {}
    BY <1>1, FS_EmptySet
  <1>3. ASSUME NEW T \in SUBSET S, T # {}
        PROVE  /\ pick[T] \in S /\ T \ {pick[T]} \in SUBSET S
               /\ Cardinality(T \ {pick[T]}) = Cardinality(T) - 1
    BY <1>1, <1>3, FS_RemoveElement
  <1>4. 0 \in P
    <2>1. \A T \in Small(0) : T = {}
      BY <1>1, <1>2
    <2>2. [T \in Small(0) |-> base] \in [Small(0) -> X]
      OBVIOUS
    <2>3. \A T \in Small(0) : OK([U \in Small(0) |-> base], T)
      BY <2>1
    <2> HIDE DEF Small, OK
    <2>4. \E g \in [Small(0) -> X] : \A T \in Small(0) : OK(g, T)
      BY <2>2, <2>3
    <2>5. 0 \in Nat
      OBVIOUS
    <2> QED BY <2>4, <2>5
  <1>5. ASSUME NEW m \in Nat, m \in P PROVE m + 1 \in P
    <2>1. PICK g \in [Small(m) -> X] : \A T \in Small(m) : OK(g, T)
      BY <1>5
    <2> DEFINE more == [T \in Small(m + 1) |->
                          IF T \in Small(m) THEN g[T] ELSE step[pick[T]][g[T \ {pick[T]}]]]
    <2>2. ASSUME NEW T \in Small(m + 1), T # {}
          PROVE  T \ {pick[T]} \in Small(m)
      BY <1>1, <1>3, <2>2
    <2>3. \A T \in Small(m + 1) : T \notin Small(m) => T # {}
      BY <1>1, <1>2
    <2>4. \A T \in Small(m) : T \in Small(m + 1)
      BY <1>1
    <2>5. ASSUME NEW T \in Small(m + 1) PROVE more[T] \in X /\ OK(more, T)
      <3>1. CASE T \in Small(m)
        <4>1. more[T] = g[T] /\ g[T] \in X
          BY <2>1, <3>1
        <4>2. T # {} => more[T \ {pick[T]}] = g[T \ {pick[T]}]
          BY <2>2, <2>4, <2>5
        <4> QED BY <2>1, <3>1, <4>1, <4>2
      <3>2. CASE T \notin Small(m)
        <4>1. T # {} /\ T \ {pick[T]} \in Small(m) /\ pick[T] \in S
          BY <1>3, <2>2, <2>3, <3>2
        <4>2. more[T] = step[pick[T]][g[T \ {pick[T]}]]
          BY <3>2
        <4>3. more[T \ {pick[T]}] = g[T \ {pick[T]}]
          BY <2>4, <4>1
        <4>4. g[T \ {pick[T]}] \in X /\ step[pick[T]] \in [X -> X]
          BY <2>1, <4>1
        <4>5. more[T] \in X
          BY <4>2, <4>4
        <4> QED BY <4>1, <4>2, <4>3, <4>5
      <3> QED BY <3>1, <3>2
    <2>6. more \in [Small(m + 1) -> X]
      BY <2>5
    <2> HIDE DEF more, Small, OK
    <2>7. \E h \in [Small(m + 1) -> X] : \A T \in Small(m + 1) : OK(h, T)
      BY <2>5, <2>6
    <2> QED BY <2>7
  <1> HIDE DEF P
  <1>6. Cardinality(S) \in P
    BY <1>1, <1>4, <1>5, Induction
  <1>7. PICK g \in [Small(Cardinality(S)) -> X] :
           \A T \in Small(Cardinality(S)) : OK(g, T)
    BY <1>6 DEF P
  <1>8. Small(Cardinality(S)) = SUBSET S
    BY FS_Subset, FS_CardinalityType
  <1> QED BY <1>7, <1>8 DEF Recursive

\* What holds of the base and is kept by every step holds of all the values.
Inductive(S, pick, Good) ==
    /\ IsFiniteSet(S) /\ Good \subseteq SUBSET S /\ {} \in Good
    /\ \A T \in SUBSET S : T # {} => pick[T] \in T
    /\ \A T \in SUBSET S : T # {} /\ T \ {pick[T]} \in Good => T \in Good

LEMMA SetInduction ==
    ASSUME NEW S, NEW pick, NEW Good, Inductive(S, pick, Good)
    PROVE  SUBSET S \subseteq Good
  <1> USE DEF Inductive
  <1> DEFINE P == {m \in Nat : \A T \in SUBSET S : Cardinality(T) <= m => T \in Good}
  <1>1. \A T \in SUBSET S : IsFiniteSet(T) /\ Cardinality(T) \in Nat
    BY FS_Subset, FS_CardinalityType
  <1>2. \A T \in SUBSET S : Cardinality(T) = 0 <=> T = {}
    BY <1>1, FS_EmptySet
  <1>3. 0 \in P
    <2>1. ASSUME NEW T \in SUBSET S, Cardinality(T) <= 0 PROVE T = {}
      BY <1>1, <1>2, <2>1
    <2> QED BY <2>1
  <1>4. ASSUME NEW m \in Nat, m \in P PROVE m + 1 \in P
    <2> SUFFICES ASSUME NEW T \in SUBSET S, Cardinality(T) <= m + 1 PROVE T \in Good
      OBVIOUS
    <2>1. CASE T = {}
      BY <2>1
    <2>2. CASE T # {}
      <3>1. Cardinality(T \ {pick[T]}) = Cardinality(T) - 1 /\ T \ {pick[T]} \in SUBSET S
        BY <1>1, <2>2, FS_RemoveElement
      <3>2. Cardinality(T \ {pick[T]}) <= m
        BY <1>1, <3>1
      <3>3. T \ {pick[T]} \in Good
        BY <1>4, <3>1, <3>2
      <3> QED BY <2>2, <3>3
    <2> QED BY <2>1, <2>2
  <1> HIDE DEF P
  <1>5. Nat \subseteq P
    BY <1>3, <1>4, Induction
  <1> QED BY <1>1, <1>5 DEF P

-----------------------------------------------------------------------------
(* Sums over finite sets.                                                  *)

\* The sums of f over the subsets of its domain.
Sums(f) == CHOOSE iter :
              iter = [T \in SUBSET DOMAIN f |->
                        IF T = {} THEN 0
                        ELSE LET x == CHOOSE x \in T : TRUE IN f[x] + iter[T \ {x}]]

LEMMA SumsFacts ==
    ASSUME NEW S, IsFiniteSet(S), NEW f \in [S -> Nat]
    PROVE  /\ Sums(f) \in [SUBSET S -> Nat]
           /\ \A T \in SUBSET S :
                 Sums(f)[T] = IF T = {} THEN 0
                              ELSE f[CHOOSE x \in T : TRUE]
                                      + Sums(f)[T \ {CHOOSE x \in T : TRUE}]
  <1> DEFINE pick == [T \in SUBSET S |-> CHOOSE x \in T : TRUE]
             step == [x \in S |-> [n \in Nat |-> f[x] + n]]
  <1>1. \A T \in SUBSET S : T # {} => pick[T] \in T
    OBVIOUS
  <1>2. step \in [S -> [Nat -> Nat]] /\ \A x \in S, n \in Nat : step[x][n] = f[x] + n
    OBVIOUS
  <1>3. \A T \in SUBSET S : pick[T] = CHOOSE x \in T : TRUE
    OBVIOUS
  <1>4. 0 \in Nat
    OBVIOUS
  <1> HIDE DEF pick, step
  <1>5. PICK g : Recursive(g, S, Nat, 0, pick, step)
    BY <1>1, <1>2, <1>4, SetRecursion, Zenon
  <1>6. \A T \in SUBSET S : T # {} =>
           g[T] = f[CHOOSE x \in T : TRUE] + g[T \ {CHOOSE x \in T : TRUE}]
    <2> SUFFICES ASSUME NEW T \in SUBSET S, T # {}
                 PROVE  g[T] = f[pick[T]] + g[T \ {pick[T]}]
      BY <1>3
    <2>1. pick[T] \in S /\ T \ {pick[T]} \in SUBSET S
      BY <1>1
    <2>2. g[T \ {pick[T]}] \in Nat
      BY <1>5, <2>1 DEF Recursive
    <2> QED BY <1>2, <1>5, <2>1, <2>2 DEF Recursive
  <1>7. g = [T \in SUBSET DOMAIN f |->
               IF T = {} THEN 0
               ELSE LET x == CHOOSE x \in T : TRUE IN f[x] + g[T \ {x}]]
    BY <1>5, <1>6 DEF Recursive
  <1>8. Sums(f) = [T \in SUBSET DOMAIN f |->
               IF T = {} THEN 0
               ELSE LET x == CHOOSE x \in T : TRUE IN f[x] + Sums(f)[T \ {x}]]
    BY <1>7 DEF Sums
  <1> DEFINE Good == {T \in SUBSET S : Sums(f)[T] \in Nat}
  <1>9. {} \in Good
    BY <1>8
  <1>10. ASSUME NEW T \in SUBSET S, T # {}, T \ {pick[T]} \in Good PROVE T \in Good
    <2>1. Sums(f)[T] = f[pick[T]] + Sums(f)[T \ {pick[T]}]
      BY <1>3, <1>8, <1>10
    <2>2. pick[T] \in S
      BY <1>1, <1>10
    <2> QED BY <1>10, <2>1, <2>2
  <1>11. Good \subseteq SUBSET S
    OBVIOUS
  <1> HIDE DEF Good
  <1>12. SUBSET S \subseteq Good
    <2>1. Inductive(S, pick, Good)
      BY <1>1, <1>9, <1>10, <1>11 DEF Inductive
    <2> QED BY <2>1, SetInduction
  <1>13. \A T \in SUBSET S : Sums(f)[T] \in Nat
    BY <1>12 DEF Good
  <1> QED BY <1>8, <1>13

\* A sum is a number, and is monotone.
LEMMA SumsMonotone ==
    ASSUME NEW S, IsFiniteSet(S), NEW f \in [S -> Nat], NEW g \in [S -> Nat],
           \A x \in S : f[x] <= g[x]
    PROVE  /\ Sums(f)[S] \in Nat /\ Sums(g)[S] \in Nat
           /\ Sums(f)[S] <= Sums(g)[S]
  <1> DEFINE pick == [T \in SUBSET S |-> CHOOSE x \in T : TRUE]
             Good == {T \in SUBSET S : Sums(f)[T] <= Sums(g)[T]}
  <1>1. \A T \in SUBSET S : T # {} => pick[T] \in T
    OBVIOUS
  <1>2. \A T \in SUBSET S : pick[T] = CHOOSE x \in T : TRUE
    OBVIOUS
  <1>3. /\ Sums(f) \in [SUBSET S -> Nat] /\ Sums(g) \in [SUBSET S -> Nat]
        /\ Sums(f)[{}] = 0 /\ Sums(g)[{}] = 0
        /\ \A T \in SUBSET S : T # {} =>
              /\ Sums(f)[T] = f[pick[T]] + Sums(f)[T \ {pick[T]}]
              /\ Sums(g)[T] = g[pick[T]] + Sums(g)[T \ {pick[T]}]
    <2>1. Sums(f) \in [SUBSET S -> Nat] /\ Sums(g) \in [SUBSET S -> Nat]
      BY SumsFacts
    <2>2. Sums(f)[{}] = 0 /\ Sums(g)[{}] = 0
      BY SumsFacts
    <2>3. ASSUME NEW T \in SUBSET S, T # {}
          PROVE  /\ Sums(f)[T] = f[CHOOSE x \in T : TRUE]
                                    + Sums(f)[T \ {CHOOSE x \in T : TRUE}]
                 /\ Sums(g)[T] = g[CHOOSE x \in T : TRUE]
                                    + Sums(g)[T \ {CHOOSE x \in T : TRUE}]
      BY <2>3, SumsFacts
    <2> QED BY <1>2, <2>1, <2>2, <2>3
  <1> HIDE DEF pick
  <1>4. {} \in Good
    BY <1>3
  <1>5. ASSUME NEW T \in SUBSET S, T # {}, T \ {pick[T]} \in Good PROVE T \in Good
    <2>1. pick[T] \in S /\ T \ {pick[T]} \in SUBSET S
      BY <1>1, <1>5
    <2>2. f[pick[T]] <= g[pick[T]] /\ f[pick[T]] \in Nat /\ g[pick[T]] \in Nat
      BY <2>1
    <2>3. Sums(f)[T \ {pick[T]}] \in Nat /\ Sums(g)[T \ {pick[T]}] \in Nat
      BY <1>3, <2>1
    <2>4. Sums(f)[T \ {pick[T]}] <= Sums(g)[T \ {pick[T]}]
      BY <1>5
    <2>5. /\ Sums(f)[T] = f[pick[T]] + Sums(f)[T \ {pick[T]}]
          /\ Sums(g)[T] = g[pick[T]] + Sums(g)[T \ {pick[T]}]
      BY <1>3, <1>5
    <2>6. Sums(f)[T] <= Sums(g)[T]
      BY <2>2, <2>3, <2>4, <2>5
    <2> QED BY <2>6
  <1>6. Good \subseteq SUBSET S
    OBVIOUS
  <1> HIDE DEF Good
  <1>7. SUBSET S \subseteq Good
    <2>1. Inductive(S, pick, Good)
      BY <1>1, <1>4, <1>5, <1>6 DEF Inductive
    <2> QED BY <2>1, SetInduction
  <1> QED BY <1>3, <1>7 DEF Good

\* A sum grows by the value of what is added, in whatever order.
LEMMA SumsAdd ==
    ASSUME NEW S, IsFiniteSet(S), NEW f \in [S -> Nat]
    PROVE  \A T \in SUBSET S : \A y \in T : Sums(f)[T] = f[y] + Sums(f)[T \ {y}]
  <1> DEFINE Adds(T) == \A y \in T : Sums(f)[T] = f[y] + Sums(f)[T \ {y}]
             P == {m \in Nat : \A T \in SUBSET S : Cardinality(T) <= m => Adds(T)}
             pick == [T \in SUBSET S |-> CHOOSE x \in T : TRUE]
  <1>1. \A T \in SUBSET S : IsFiniteSet(T) /\ Cardinality(T) \in Nat
    BY FS_Subset, FS_CardinalityType
  <1>2. ASSUME NEW T \in SUBSET S, NEW y \in T
        PROVE  T \ {y} \in SUBSET S /\ Cardinality(T \ {y}) = Cardinality(T) - 1
    BY <1>1, FS_RemoveElement
  <1>3. /\ \A T \in SUBSET S : Sums(f)[T] \in Nat
        /\ \A T \in SUBSET S : T # {} => pick[T] \in T
        /\ \A T \in SUBSET S : T # {} => Sums(f)[T] = f[pick[T]] + Sums(f)[T \ {pick[T]}]
    <2>1. /\ \A T \in SUBSET S : pick[T] = CHOOSE x \in T : TRUE
          /\ \A T \in SUBSET S : T # {} => pick[T] \in T
      OBVIOUS
    <2>2. Sums(f) \in [SUBSET S -> Nat]
      BY SumsFacts
    <2>3. ASSUME NEW T \in SUBSET S, T # {}
          PROVE  Sums(f)[T] = f[CHOOSE x \in T : TRUE] + Sums(f)[T \ {CHOOSE x \in T : TRUE}]
      BY <2>3, SumsFacts
    <2> HIDE DEF pick
    <2> QED BY <2>1, <2>2, <2>3
  <1> HIDE DEF pick
  <1>4. 0 \in P
    <2>1. ASSUME NEW T \in SUBSET S, Cardinality(T) <= 0 PROVE T = {}
      BY <1>1, <2>1, FS_EmptySet
    <2> QED BY <2>1
  <1>5. ASSUME NEW m \in Nat, m \in P PROVE m + 1 \in P
    <2> SUFFICES ASSUME NEW T \in SUBSET S, Cardinality(T) <= m + 1, NEW y \in T
                 PROVE  Sums(f)[T] = f[y] + Sums(f)[T \ {y}]
      OBVIOUS
    <2> DEFINE d == pick[T]
    <2>1. d \in T /\ Sums(f)[T] = f[d] + Sums(f)[T \ {d}]
      BY <1>3
    <2>2. CASE d = y
      BY <2>1, <2>2
    <2>3. CASE d # y
      <3>1. /\ T \ {d} \in SUBSET S /\ T \ {y} \in SUBSET S
            /\ Cardinality(T \ {d}) <= m /\ Cardinality(T \ {y}) <= m
            /\ y \in T \ {d} /\ d \in T \ {y}
        BY <1>1, <1>2, <2>1, <2>3
      <3>2. Adds(T \ {d}) /\ Adds(T \ {y})
        BY <1>5, <3>1
      <3> HIDE DEF d
      <3>3. /\ Sums(f)[T \ {d}] = f[y] + Sums(f)[(T \ {d}) \ {y}]
            /\ Sums(f)[T \ {y}] = f[d] + Sums(f)[(T \ {y}) \ {d}]
        BY <3>1, <3>2
      <3>4. (T \ {d}) \ {y} = (T \ {y}) \ {d} /\ (T \ {d}) \ {y} \in SUBSET S
        OBVIOUS
      <3>5. Sums(f)[T \ {y}] = f[d] + Sums(f)[(T \ {d}) \ {y}]
        BY <3>3, <3>4
      <3>6. Sums(f)[(T \ {d}) \ {y}] \in Nat /\ f[y] \in Nat /\ f[d] \in Nat
        BY <1>3, <2>1, <3>4
      <3> HIDE DEF Adds
      <3>7. Sums(f)[T] = f[d] + Sums(f)[T \ {d}]
        BY <2>1 DEF d
      <3> QED BY <3>3, <3>5, <3>6, <3>7
    <2> QED BY <2>2, <2>3
  <1> HIDE DEF P
  <1>6. Nat \subseteq P
    BY <1>4, <1>5, Induction
  <1>7. ASSUME NEW T \in SUBSET S PROVE Adds(T)
    <2>1. Cardinality(T) \in P /\ Cardinality(T) <= Cardinality(T)
      BY <1>1, <1>6
    <2> HIDE DEF Adds
    <2> QED BY <2>1 DEF P
  <1> QED BY <1>7

-----------------------------------------------------------------------------
(* The Bellman operator is monotone.                                       *)

\* The contents that the hash may have: no value is above the upper solution.
Bounded == {h \in [State -> Nat] : \A s \in State : h[s] <= Optimal[s]}

\* Integer division is monotone.
LEMMA DivMonotone ==
    ASSUME NEW x \in Nat, NEW y \in Nat, x <= y, NEW n \in Nat \ {0}
    PROVE  x \div n \in Nat /\ y \div n \in Nat /\ x \div n <= y \div n
  <1> DEFINE p == x \div n
             q == y \div n
  <1>1. p \in Nat /\ q \in Nat
    OBVIOUS
  <1>2. n * p <= x /\ x < n * p + n /\ n * q <= y /\ y < n * q + n
    OBVIOUS
  <1> HIDE DEF p, q
  <1>3. SUFFICES ASSUME q < p PROVE FALSE
    BY <1>1 DEF p, q
  <1>4. PICK d \in Nat : p = q + 1 + d
    <2>1. p - q - 1 \in Nat /\ p = q + 1 + (p - q - 1)
      BY <1>1, <1>3
    <2> QED BY <2>1
  <1>5. n * p = n * q + n + n * d
    BY <1>1, <1>4
  <1>6. n * d \in Nat /\ n * q \in Nat /\ n * p \in Nat
    BY <1>1
  <1> QED BY <1>2, <1>5, <1>6

LEMMA TimesMonotone ==
    ASSUME NEW w \in Nat, NEW x \in Nat, NEW y \in Nat, x <= y
    PROVE  w * x \in Nat /\ w * y \in Nat /\ w * x <= w * y
  <1>1. PICK d \in Nat : y = x + d
    <2>1. y - x \in Nat /\ y = x + (y - x)
      OBVIOUS
    <2> QED BY <2>1
  <1>2. w * y = w * x + w * d /\ w * d \in Nat /\ w * x \in Nat
    BY <1>1
  <1> QED BY <1>2

\* Rounding to floats is monotone, and leaves floats alone.
LEMMA RoundingMonotone ==
    ASSUME NEW x \in Nat, NEW y \in Nat, x <= y
    PROVE  /\ RationalOf(x) \in Nat /\ RationalOf(y) \in Nat
           /\ RationalOf(x) <= RationalOf(y)
           /\ y % FloatUnit = 0 => RationalOf(y) = y
  <1> DEFINE half == FloatUnit \div 2
             p == (x + half) \div FloatUnit
             q == (y + half) \div FloatUnit
  <1>1. FloatUnit \in Nat \ {0} /\ half \in Nat /\ half < FloatUnit
    BY TaskAssumption
  <1>2. x + half \in Nat /\ y + half \in Nat /\ x + half <= y + half
    BY <1>1
  <1>3. p \in Nat /\ q \in Nat /\ p <= q
    BY <1>1, <1>2, DivMonotone
  <1>4. p * FloatUnit \in Nat /\ q * FloatUnit \in Nat /\ p * FloatUnit <= q * FloatUnit
    <2> HIDE DEF p, q
    <2>1. /\ FloatUnit * p \in Nat /\ FloatUnit * q \in Nat
          /\ FloatUnit * p <= FloatUnit * q
      BY <1>1, <1>3, TimesMonotone
    <2>2. FloatUnit * p = p * FloatUnit /\ FloatUnit * q = q * FloatUnit
      BY <1>1, <1>3
    <2> QED BY <2>1, <2>2
  <1>5. ASSUME y % FloatUnit = 0 PROVE q * FloatUnit = y
    <2> DEFINE k == y \div FloatUnit
    <2>1. k \in Nat /\ y = FloatUnit * k
      BY <1>1, <1>5
    <2> HIDE DEF k, half
    <2>2. FloatUnit * q <= y + half /\ y + half < FloatUnit * q + FloatUnit
      BY <1>1, <1>2
    <2> HIDE DEF q
    <2>3. q = k
      <3>1. CASE q < k
        <4>1. PICK d \in Nat : k = q + 1 + d
          <5>1. k - q - 1 \in Nat /\ k = q + 1 + (k - q - 1)
            BY <1>3, <2>1, <3>1
          <5> QED BY <5>1
        <4>2. FloatUnit * k = FloatUnit * q + FloatUnit + FloatUnit * d
              /\ FloatUnit * d \in Nat /\ FloatUnit * q \in Nat
          BY <1>1, <1>3, <4>1
        <4> QED BY <1>1, <2>1, <2>2, <4>2
      <3>2. CASE q > k
        <4>1. PICK d \in Nat : q = k + 1 + d
          <5>1. q - k - 1 \in Nat /\ q = k + 1 + (q - k - 1)
            BY <1>3, <2>1, <3>2
          <5> QED BY <5>1
        <4>2. FloatUnit * q = FloatUnit * k + FloatUnit + FloatUnit * d
              /\ FloatUnit * d \in Nat /\ FloatUnit * k \in Nat
          BY <1>1, <2>1, <4>1
        <4> QED BY <1>1, <2>1, <2>2, <4>2
      <3> QED BY <1>3, <2>1, <3>1, <3>2
    <2>4. q * FloatUnit = FloatUnit * k
      BY <1>1, <1>3, <2>1, <2>3
    <2> QED BY <2>1, <2>4
  <1> QED BY <1>4, <1>5 DEF RationalOf

LEMMA MinFacts ==
    ASSUME NEW x \in Nat, NEW y \in Nat
    PROVE  /\ Min({x, y}) \in {x, y}
           /\ Min({x, y}) <= x /\ Min({x, y}) <= y
  <1>1. \E z \in {x, y} : \A u \in {x, y} : z <= u
    OBVIOUS
  <1>2. Min({x, y}) \in {x, y} /\ \A u \in {x, y} : Min({x, y}) <= u
    BY <1>1 DEF Min
  <1> QED BY <1>2
\* What the value of a state counts for, with a set of goals.
Worth(hash, goals, t) == IF t \in goals THEN TerminalCost(hash, t) ELSE hash[t]

LEMMA WorthMonotone ==
    ASSUME NEW h \in Bounded, NEW goals, NEW t \in State
    PROVE  /\ Worth(h, goals, t) \in Nat /\ Worth(Optimal, Goal, t) \in Nat
           /\ Worth(h, goals, t) <= Worth(Optimal, Goal, t)
           /\ Worth(h, goals, t) <= Optimal[t]
  <1>1. h[t] \in Nat /\ Optimal[t] \in Nat /\ h[t] <= Optimal[t]
    BY ValuesAssumption DEF Bounded
  <1>2. CASE t \in Goal
    <2>1. Optimal[t] = 0
      BY <1>2, ValuesAssumption
    <2> QED BY <1>1, <1>2, <2>1 DEF Worth, TerminalCost
  <1>3. CASE t \notin Goal
    <2>1. Optimal[t] % FloatUnit = 0
      BY ValuesAssumption
    <2>2. /\ RationalOf(h[t]) \in Nat /\ RationalOf(h[t]) <= Optimal[t]
      BY <1>1, <2>1, RoundingMonotone
    <2> QED BY <1>1, <1>3, <2>2 DEF Worth, TerminalCost
  <1> QED BY <1>2, <1>3

LEMMA QValueMonotone ==
    ASSUME NEW h \in Bounded, NEW goals, NEW s \in State, NEW a \in Range(Applicable[s])
    PROVE  /\ QValue(h, goals, s, a) \in Nat /\ QValue(Optimal, Goal, s, a) \in Nat
           /\ QValue(h, goals, s, a) <= QValue(Optimal, Goal, s, a)
  <1> DEFINE S == Succ(s, a)
             W == Outcome[<<s, a>>]
             c == Cost[<<s, a>>]
             f == [t \in S |-> W[t] * Worth(h, goals, t)]
             g == [t \in S |-> W[t] * Worth(Optimal, Goal, t)]
  <1>1. /\ S \subseteq State /\ c \in Nat /\ \A t \in S : W[t] \in Nat
        /\ One \in Nat \ {0} /\ dead_end_value \in Nat
    BY TaskAssumption
  <1>2. IsFiniteSet(S)
    BY <1>1, TaskAssumption, FS_Subset
  <1> HIDE DEF S, W, c
  <1>3. ASSUME NEW t \in S
        PROVE  f[t] \in Nat /\ g[t] \in Nat /\ f[t] <= g[t]
    <2>1. /\ Worth(h, goals, t) \in Nat /\ Worth(Optimal, Goal, t) \in Nat
          /\ Worth(h, goals, t) <= Worth(Optimal, Goal, t)
      BY <1>1, WorthMonotone
    <2>2. W[t] \in Nat
      BY <1>1
    <2>3. /\ W[t] * Worth(h, goals, t) \in Nat /\ W[t] * Worth(Optimal, Goal, t) \in Nat
          /\ W[t] * Worth(h, goals, t) <= W[t] * Worth(Optimal, Goal, t)
      BY <2>1, <2>2, TimesMonotone
    <2> QED BY <2>3
  <1>4. f \in [S -> Nat] /\ g \in [S -> Nat]
    BY <1>3
  <1>5. SumFunction(f) = Sums(f)[S] /\ SumFunction(g) = Sums(g)[S]
    <2>1. DOMAIN f = S /\ DOMAIN g = S
      OBVIOUS
    <2> HIDE DEF f, g
    <2>2. SumFunction(f) = Sums(f)[DOMAIN f] /\ SumFunction(g) = Sums(g)[DOMAIN g]
      BY Zenon DEF SumFunction, SumFunctionOnSet, FoldFunctionOnSet, MapThenFoldSet, Sums
    <2> QED BY <2>1, <2>2
  <1> DEFINE x == SumFunction(f)
             y == SumFunction(g)
  <1>6. QValue(h, goals, s, a) = Min({c + x \div One, dead_end_value})
    BY Zenon DEF QValue, Worth, c, S, W
  <1>7. QValue(Optimal, Goal, s, a) = Min({c + y \div One, dead_end_value})
    BY Zenon DEF QValue, Worth, c, S, W
  <1> HIDE DEF f, g
  <1>8. x \in Nat /\ y \in Nat /\ x <= y
    <2>1. /\ Sums(f)[S] \in Nat /\ Sums(g)[S] \in Nat /\ Sums(f)[S] <= Sums(g)[S]
      BY <1>2, <1>3, <1>4, SumsMonotone
    <2> QED BY <1>5, <2>1
  <1> HIDE DEF x, y
  <1>9. x \div One \in Nat /\ y \div One \in Nat /\ x \div One <= y \div One
    BY <1>1, <1>8, DivMonotone
  <1> DEFINE m == c + x \div One
             n == c + y \div One
  <1>10. m \in Nat /\ n \in Nat /\ m <= n
    BY <1>1, <1>9
  <1> HIDE DEF m, n
  <1>11. /\ Min({m, dead_end_value}) \in {m, dead_end_value}
         /\ Min({n, dead_end_value}) \in {n, dead_end_value}
         /\ Min({m, dead_end_value}) <= m /\ Min({m, dead_end_value}) <= dead_end_value
    BY <1>1, <1>10, MinFacts
  <1>12. QValue(h, goals, s, a) = Min({m, dead_end_value})
         /\ QValue(Optimal, Goal, s, a) = Min({n, dead_end_value})
    BY <1>6, <1>7 DEF m, n
  <1> QED BY <1>1, <1>10, <1>11, <1>12

\* The least Q-value below that of a dead end, if there is one.
Best(b, s, q) ==
    /\ b.value \in Nat /\ b.value <= dead_end_value
    /\ \A a \in Range(Applicable[s]) : b.value <= q[a]
    /\ \/ b.action = NoAction /\ b.value = dead_end_value
       \/ /\ b.action \in Range(Applicable[s]) /\ b.value = q[b.action]
          /\ b.value < dead_end_value

LEMMA FirstBestFacts ==
    ASSUME NEW s \in State, NEW q \in [Range(Applicable[s]) -> Nat]
    PROVE  Best(FirstBest(s, q), s, q)
  <1> DEFINE A == Applicable[s]
             n == Len(A)
             alive == {i \in DOMAIN A : q[A[i]] < dead_end_value}
             first(i) == \A j \in alive : \/ q[A[i]] < q[A[j]]
                                         \/ (q[A[i]] = q[A[j]] /\ i <= j)
             best == CHOOSE i \in alive : first(i)
  <1>1. A \in Seq(Action) /\ n \in Nat /\ DOMAIN A = 1..n
    <2>1. A \in Seq(Action)
      BY TaskAssumption
    <2> QED BY <2>1
  <1>2. dead_end_value \in Nat
    BY TaskAssumption
  <1>3. \A i \in 1..n : A[i] \in Range(A) /\ q[A[i]] \in Nat
    BY <1>1 DEF Range
  <1>4. \A a \in Range(A) : \E i \in 1..n : a = A[i]
    BY <1>1 DEF Range
  <1>5. alive \subseteq 1..n
    BY <1>1
  <1>6. CASE alive = {}
    <2>1. FirstBest(s, q) = [action |-> NoAction, value |-> dead_end_value]
      BY <1>6, Zenon DEF FirstBest
    <2>2. ASSUME NEW a \in Range(A) PROVE dead_end_value <= q[a]
      <3>1. PICK i \in 1..n : a = A[i]
        BY <1>4
      <3>2. ~(q[A[i]] < dead_end_value)
        BY <1>1, <1>6
      <3> QED BY <1>2, <1>3, <3>1, <3>2
    <2> HIDE DEF A
    <2> QED BY <1>2, <2>1, <2>2 DEF Best, A
  <1>7. CASE alive # {}
    <2>1. FirstBest(s, q) = [action |-> A[best], value |-> q[A[best]]]
      BY <1>7, Zenon DEF FirstBest
    <2> DEFINE V == {k \in Nat : \E i \in alive : k = q[A[i]]}
    <2>2. V \subseteq Nat /\ V # {}
      <3>1. PICK i \in alive : TRUE
        BY <1>7
      <3> HIDE DEF alive
      <3>2. q[A[i]] \in V
        BY <1>3, <1>5, <3>1
      <3> QED BY <3>2
    <2>3. PICK m \in V : \A k \in V : m <= k
      <3> HIDE DEF V
      <3> QED BY <2>2, LeastNumber
    <2> DEFINE I == {i \in alive : q[A[i]] = m}
    <2>4. I \subseteq Nat /\ I # {}
      <3>1. PICK i \in alive : m = q[A[i]]
        BY <2>3
      <3>2. i \in I
        BY <3>1
      <3>3. \A k \in I : k \in 1..n
        BY <1>5
      <3> HIDE DEF I
      <3> QED BY <3>2, <3>3
    <2>5. PICK j \in I : \A i \in I : j <= i
      <3> HIDE DEF I
      <3> QED BY <2>4, LeastNumber
    <2>6. first(j)
      <3> SUFFICES ASSUME NEW i \in alive
                   PROVE  q[A[j]] < q[A[i]] \/ (q[A[j]] = q[A[i]] /\ j <= i)
        OBVIOUS
      <3> HIDE DEF alive
      <3>1. q[A[i]] \in V /\ m \in Nat /\ q[A[j]] = m /\ q[A[i]] \in Nat
        BY <1>3, <1>5, <2>3, <2>5
      <3>2. m <= q[A[i]]
        BY <2>3, <3>1
      <3>3. m = q[A[i]] => j <= i
        BY <2>5
      <3> QED BY <3>1, <3>2, <3>3
    <2>7. best \in alive /\ first(best)
      <3>1. j \in alive
        BY <2>5
      <3> HIDE DEF alive, first
      <3> QED BY <2>6, <3>1
    <2>8. best \in 1..n /\ q[A[best]] < dead_end_value
      BY <1>5, <2>7
    <2> HIDE DEF best
    <2>9. q[A[best]] \in Nat /\ A[best] \in Range(A)
      BY <1>3, <2>8
    <2>10. ASSUME NEW a \in Range(A) PROVE q[A[best]] <= q[a]
      <3>1. PICK i \in 1..n : a = A[i]
        BY <1>4
      <3>2. q[A[i]] \in Nat
        BY <1>3
      <3>3. CASE i \in alive
        <4> DEFINE x == q[A[best]]
                   y == q[A[i]]
        <4>1. x < y \/ x = y
          BY <2>7, <3>3
        <4>2. x \in Nat /\ y \in Nat
          BY <2>9, <3>2
        <4>3. q[a] = y
          BY <3>1
        <4> HIDE DEF x, y
        <4>4. x <= q[a]
          BY <4>1, <4>2, <4>3
        <4> QED BY <4>4 DEF x
      <3>4. CASE i \notin alive
        <4>1. ~(q[A[i]] < dead_end_value)
          BY <1>1, <3>4
        <4> HIDE DEF A
        <4> QED BY <1>2, <2>8, <2>9, <3>1, <3>2, <4>1
      <3> QED BY <3>3, <3>4
    <2> HIDE DEF A
    <2>11. q[A[best]] <= dead_end_value
      BY <1>2, <2>8, <2>9
    <2> QED BY <1>2, <2>1, <2>8, <2>9, <2>10, <2>11 DEF Best, A
  <1> QED BY <1>6, <1>7

LEMMA GreedyMonotone ==
    ASSUME NEW h \in Bounded, NEW goals, NEW s \in State, s \in Goal => s \in goals
    PROVE  /\ Greedy(h, goals, s).value \in Nat
           /\ Greedy(h, goals, s).value <= Optimal[s]
  <1>1. CASE s \in goals
    <2>1. Greedy(h, goals, s).value = Worth(h, goals, s)
      BY <1>1 DEF Greedy, Worth
    <2> QED BY <2>1, WorthMonotone
  <1>2. CASE s \notin goals
    <2> DEFINE R == Range(Applicable[s])
               q == [a \in R |-> QValue(h, goals, s, a)]
               r == [a \in R |-> QValue(Optimal, Goal, s, a)]
    <2>1. q \in [R -> Nat] /\ r \in [R -> Nat] /\ \A a \in R : q[a] <= r[a]
      BY QValueMonotone
    <2>2. Greedy(h, goals, s) = FirstBest(s, q)
      BY <1>2, Zenon DEF Greedy
    <2>3. s \notin Goal
      BY <1>2
    <2>4. Greedy(Optimal, Goal, s) = FirstBest(s, r)
      BY <2>3, Zenon DEF Greedy
    <2> HIDE DEF q, r
    <2>5. Best(FirstBest(s, q), s, q) /\ Best(FirstBest(s, r), s, r)
      BY <2>1, FirstBestFacts
    <2>6. FirstBest(s, r).value <= Optimal[s] /\ Optimal[s] \in Nat
      BY <2>3, <2>4, ValuesAssumption
    <2> DEFINE b == FirstBest(s, q)
               o == FirstBest(s, r)
    <2>7. Best(b, s, q) /\ Best(o, s, r) /\ o.value <= Optimal[s]
      BY <2>5, <2>6
    <2>8. Greedy(h, goals, s) = b
      BY <2>2
    <2> HIDE DEF b, o
    <2>9. b.value \in Nat /\ o.value \in Nat /\ dead_end_value \in Nat
      BY <2>7, TaskAssumption DEF Best
    <2>10. b.value <= o.value
      <3>1. CASE o.value = dead_end_value
        BY <2>7, <3>1 DEF Best
      <3>2. CASE o.action \in R /\ o.value = r[o.action]
        <4>1. /\ b.value <= q[o.action] /\ q[o.action] <= r[o.action]
              /\ q[o.action] \in Nat /\ r[o.action] \in Nat
          BY <2>1, <2>7, <3>2 DEF Best
        <4> QED BY <2>9, <3>2, <4>1
      <3> QED BY <2>7, <3>1, <3>2 DEF Best
    <2> QED BY <2>6, <2>7, <2>8, <2>9, <2>10
  <1> QED BY <1>1, <1>2

\* A greedy action is one of the state's, and none of a goal's; the action of a
\* state that is solved has accepted successors only.
LEMMA GreedyAction ==
    ASSUME NEW h \in Bounded, NEW goals, NEW s \in State
    PROVE  LET a == Greedy(h, goals, s).action IN
           a = NoAction \/ (s \notin goals /\ a \in Range(Applicable[s]))
  <1>1. CASE s \in goals
    BY <1>1 DEF Greedy
  <1>2. CASE s \notin goals
    <2> DEFINE q == [a \in Range(Applicable[s]) |-> QValue(h, goals, s, a)]
    <2>1. q \in [Range(Applicable[s]) -> Nat]
      BY QValueMonotone
    <2>2. Greedy(h, goals, s) = FirstBest(s, q)
      BY <1>2, Zenon DEF Greedy
    <2> HIDE DEF q
    <2>3. Best(FirstBest(s, q), s, q)
      BY <2>1, FirstBestFacts
    <2> QED BY <1>2, <2>2, <2>3 DEF Best
  <1> QED BY <1>1, <1>2

LEMMA SafeAction ==
    ASSUME NEW h \in Bounded, NEW goals, NEW s \in State, NEW accepted
    PROVE  LET a == ConstGreedyAction(h, goals, s, accepted) IN
           \/ a = NoAction
           \/ /\ s \notin goals /\ a \in Range(Applicable[s])
              /\ Succ(s, a) \subseteq accepted
  <1>1. CASE s \in goals \/ Applicable[s] = <<>>
    BY <1>1 DEF ConstGreedyAction
  <1>2. CASE ~(s \in goals \/ Applicable[s] = <<>>)
    <2> DEFINE q == [a \in Range(Applicable[s]) |->
                       IF Succ(s, a) \subseteq accepted THEN QValue(h, goals, s, a)
                       ELSE dead_end_value]
    <2>1. q \in [Range(Applicable[s]) -> Nat]
      BY QValueMonotone, TaskAssumption
    <2>2. ConstGreedyAction(h, goals, s, accepted) = FirstBest(s, q).action
      BY <1>2, Zenon DEF ConstGreedyAction
    <2>3. ASSUME NEW a \in Range(Applicable[s]), q[a] < dead_end_value
          PROVE  Succ(s, a) \subseteq accepted
      <3> SUFFICES ASSUME ~(Succ(s, a) \subseteq accepted) PROVE FALSE
        OBVIOUS
      <3>1. q[a] = dead_end_value
        OBVIOUS
      <3>2. dead_end_value \in Nat
        BY TaskAssumption
      <3> HIDE DEF q
      <3> QED BY <2>3, <3>1, <3>2
    <2> HIDE DEF q
    <2>4. Best(FirstBest(s, q), s, q)
      BY <2>1, FirstBestFacts
    <2>5. CASE FirstBest(s, q).action = NoAction
      BY <2>2, <2>5
    <2>6. CASE FirstBest(s, q).action # NoAction
      <3> DEFINE a == FirstBest(s, q).action
      <3>1. a \in Range(Applicable[s]) /\ q[a] < dead_end_value
        BY <2>4, <2>6 DEF Best
      <3> HIDE DEF a
      <3>2. Succ(s, a) \subseteq accepted
        BY <2>3, <3>1
      <3> QED BY <1>2, <2>2, <3>1, <3>2 DEF a
    <2> QED BY <2>5, <2>6
  <1> QED BY <1>1, <1>2

\* What a backup writes: a value that the hash may hold.
LEMMA Written ==
    ASSUME NEW h \in Bounded, NEW s \in State, NEW x \in Nat, x <= Optimal[s]
    PROVE  [h EXCEPT ![s] = x] \in Bounded
  BY DEF Bounded

LEMMA UpdateBounded ==
    ASSUME NEW h \in Bounded, NEW goals, NEW s \in State, s \in Goal => s \in goals
    PROVE  Update(h, goals, s) \in Bounded
  <1> DEFINE g == Greedy(h, goals, s).value
             x == Min({g, dead_end_value})
  <1>1. g \in Nat /\ g <= Optimal[s] /\ dead_end_value \in Nat /\ Optimal[s] \in Nat
    BY GreedyMonotone, TaskAssumption, ValuesAssumption
  <1>2. Update(h, goals, s) = [h EXCEPT ![s] = x]
    BY DEF Update
  <1> HIDE DEF g
  <1>3. x \in {g, dead_end_value} /\ x <= g
    BY <1>1, MinFacts
  <1> HIDE DEF x
  <1>4. x \in Nat /\ x <= Optimal[s]
    BY <1>1, <1>3
  <1> QED BY <1>2, <1>4, Written

\* The hash after the updates of the first states of a sequence.
Hashes(hash, goals, closed) ==
    CHOOSE iter : iter = [T \in SUBSET DOMAIN closed |->
        IF T = {} THEN hash
        ELSE LET x == Max(T) IN Update(iter[T \ {x}], goals, closed[x])]

LEMMA UpdatesBounded ==
    ASSUME NEW h \in Bounded, NEW goals, NEW closed \in Seq(State),
           \A i \in DOMAIN closed : closed[i] \in Goal => closed[i] \in goals
    PROVE  LET updated == Hashes(h, goals, closed)[DOMAIN closed] IN
           /\ updated \in Bounded
           /\ \A t \in State : t \notin Range(closed) => updated[t] = h[t]
  <1> DEFINE D == DOMAIN closed
             Close == {g \in Bounded : \A t \in State : t \notin Range(closed) => g[t] = h[t]}
             pick == [T \in SUBSET D |-> Max(T)]
             step == [i \in D |-> [g \in Close |-> Update(g, goals, closed[i])]]
             H == Hashes(h, goals, closed)
  <1>1. /\ IsFiniteSet(D) /\ D \subseteq Nat
        /\ \A i \in D : closed[i] \in State /\ i <= Len(closed)
        /\ Len(closed) \in Nat
    <2>1. D = 1..Len(closed) /\ Len(closed) \in Nat
      OBVIOUS
    <2>2. IsFiniteSet(1..Len(closed))
      BY <2>1, FS_Interval
    <2> QED BY <2>1, <2>2
  <1> HIDE DEF D
  <1>2. ASSUME NEW T \in SUBSET D, T # {} PROVE pick[T] \in T
    <2>1. T \subseteq Nat /\ \A i \in T : i <= Len(closed)
      BY <1>1
    <2>2. \E m \in T : \A k \in T : k <= m
      BY <1>1, <1>2, <2>1, GreatestNumber
    <2>3. Max(T) \in T
      <3>1. \E m \in T : \A k \in T : m >= k
        BY <2>1, <2>2
      <3> QED BY <3>1 DEF Max
    <2> QED BY <2>3
  <1>3. ASSUME NEW i \in D, NEW g \in Close PROVE Update(g, goals, closed[i]) \in Close
    <2> DEFINE x == Min({Greedy(g, goals, closed[i]).value, dead_end_value})
    <2>1. Update(g, goals, closed[i]) = [g EXCEPT ![closed[i]] = x]
      BY DEF Update
    <2>2. Update(g, goals, closed[i]) \in Bounded
      BY <1>1, UpdateBounded DEF D
    <2>3. closed[i] \in Range(closed)
      BY DEF D, Range
    <2> HIDE DEF x
    <2>4. g \in [State -> Nat]
      BY DEF Bounded
    <2>5. ASSUME NEW t \in State, t \notin Range(closed)
          PROVE  Update(g, goals, closed[i])[t] = h[t]
      BY <2>1, <2>3, <2>4, <2>5
    <2> QED BY <2>2, <2>5
  <1>4. h \in Close
    OBVIOUS
  <1> HIDE DEF Close
  <1>5. /\ step \in [D -> [Close -> Close]]
        /\ \A i \in D, g \in Close : step[i][g] = Update(g, goals, closed[i])
    BY <1>3
  <1>6. \A T \in SUBSET D : pick[T] = Max(T)
    OBVIOUS
  <1> HIDE DEF pick, step
  <1>7. PICK g : Recursive(g, D, Close, h, pick, step)
    BY <1>1, <1>2, <1>5, <1>4, SetRecursion, Zenon
  <1>8. ASSUME NEW T \in SUBSET D, T # {}
        PROVE  g[T] = Update(g[T \ {Max(T)}], goals, closed[Max(T)])
    <2>1. pick[T] \in D /\ T \ {pick[T]} \in SUBSET D
      BY <1>2, <1>8
    <2>2. g[T \ {pick[T]}] \in Close
      BY <1>7, <2>1 DEF Recursive
    <2>3. g[T] = step[pick[T]][g[T \ {pick[T]}]]
      BY <1>7, <1>8 DEF Recursive
    <2>4. g[T] = Update(g[T \ {pick[T]}], goals, closed[pick[T]])
      BY <1>5, <2>1, <2>2, <2>3
    <2> QED BY <1>6, <2>4
  <1> DEFINE rhs(f, T) == IF T = {} THEN h ELSE Update(f[T \ {Max(T)}], goals, closed[Max(T)])
  <1>9. g = [T \in SUBSET D |-> rhs(g, T)]
    <2>1. \A T \in SUBSET D : g[T] = rhs(g, T)
      BY <1>7, <1>8 DEF Recursive
    <2> HIDE DEF rhs
    <2> QED BY <1>7, <2>1 DEF Recursive
  <1>10. H = CHOOSE iter : iter = [T \in SUBSET D |-> rhs(iter, T)]
    BY Zenon DEF Hashes, D
  <1>11. H = [T \in SUBSET D |-> rhs(H, T)]
    <2> HIDE DEF rhs, H
    <2> QED BY <1>9, <1>10
  <1> HIDE DEF H
  <1> DEFINE Good == {T \in SUBSET D : H[T] \in Close}
  <1>12. {} \in Good
    BY <1>11, <1>4
  <1>13. ASSUME NEW T \in SUBSET D, T # {}, T \ {pick[T]} \in Good PROVE T \in Good
    <2>1. H[T] = Update(H[T \ {pick[T]}], goals, closed[pick[T]])
      <3>1. H[T] = rhs(H, T)
        <4> HIDE DEF rhs
        <4> QED BY <1>11
      <3> QED BY <1>6, <1>13, <3>1, Zenon
    <2>2. pick[T] \in D
      BY <1>2, <1>13
    <2>3. H[T \ {pick[T]}] \in Close
      BY <1>13
    <2> QED BY <1>3, <2>1, <2>2, <2>3
  <1>14. Good \subseteq SUBSET D
    OBVIOUS
  <1> HIDE DEF Good
  <1>15. SUBSET D \subseteq Good
    <2>1. IsFiniteSet(D)
      BY <1>1
    <2>2. \A T \in SUBSET D : T # {} => pick[T] \in T
      BY <1>2
    <2>3. \A T \in SUBSET D : T # {} /\ T \ {pick[T]} \in Good => T \in Good
      BY <1>13
    <2>4. Inductive(D, pick, Good)
      BY <1>12, <1>14, <2>1, <2>2, <2>3 DEF Inductive
    <2> QED BY <2>4, SetInduction
  <1>16. H[D] \in Close
    BY <1>15 DEF Good
  <1>17. H[D] \in Bounded /\ \A t \in State : t \notin Range(closed) => H[D][t] = h[t]
    BY <1>16 DEF Close
  <1> QED BY <1>17, Zenon DEF H, D

-----------------------------------------------------------------------------
(* Sequences.                                                              *)

LEMMA SetToSeqFacts ==
    ASSUME NEW S, IsFiniteSet(S)
    PROVE  /\ SetToSeq(S) \in Seq(S) /\ Range(SetToSeq(S)) = S
           /\ Len(SetToSeq(S)) = Cardinality(S) /\ IsInjective(SetToSeq(S))
  <1> DEFINE n == Cardinality(S)
  <1>1. n \in Nat /\ ExistsBijection(1..n, S)
    BY FS_CardinalityType
  <1>2. \E f \in [1..n -> S] : IsInjective(f)
    BY <1>1, Zenon DEF ExistsBijection, Bijection, Injection
  <1> HIDE DEF n
  <1>3. PICK f \in [1..n -> S] : /\ f = CHOOSE g \in [1..n -> S] : IsInjective(g)
                                 /\ IsInjective(f)
    BY <1>2
  <1>4. SetToSeq(S) = f
    BY <1>3, Zenon DEF SetToSeq, n
  <1>5. f \in Seq(S) /\ Len(f) = n
    BY <1>1, <1>3
  <1>6. Range(f) = S
    <2>1. f \in Injection(1..n, S)
      BY <1>3, Zenon DEF Injection
    <2>2. Cardinality(1..n) = Cardinality(S)
      <3>1. 1 \in Int /\ n \in Int /\ (n < 1 => n = 0)
        BY <1>1
      <3>2. Cardinality(1..n) = n
        BY <1>1, <3>1, FS_Interval
      <3> QED BY <3>2 DEF n
    <2>3. f \in Surjection(1..n, S)
      BY <2>1, <2>2, FS_Injection
    <2>4. \A x \in S : \E i \in 1..n : f[i] = x
      BY <2>3, Zenon DEF Surjection
    <2>5. DOMAIN f = 1..n
      BY <1>3
    <2> QED BY <1>3, <2>4, <2>5 DEF Range
  <1> QED BY <1>3, <1>4, <1>5, <1>6 DEF n

LEMMA SingleSeq ==
    ASSUME NEW S, NEW x \in S
    PROVE  <<x>> \in Seq(S)
  OBVIOUS

\* The ends of a sequence.
LEMMA Ends ==
    ASSUME NEW S, NEW q \in Seq(S), q # <<>>
    PROVE  /\ Last(q) \in S /\ Front(q) \in Seq(S) /\ Len(Front(q)) = Len(q) - 1
           /\ Head(q) \in S /\ Tail(q) \in Seq(S)
  <1>1. Len(q) \in Nat \ {0}
    OBVIOUS
  <1>2. Last(q) \in S
    BY <1>1 DEF Last
  <1>3. Front(q) \in Seq(S)
    BY <1>1 DEF Front
  <1>4. Len(Front(q)) = Len(q) - 1
    <2>1. Front(q) = [i \in 1..(Len(q) - 1) |-> q[i]]
      BY <1>1 DEF Front
    <2> QED BY <1>1, <1>3, <2>1
  <1> QED BY <1>2, <1>3, <1>4

\* Without its last element, a sequence whose elements are distinct.
LEMMA FrontOfDistinct ==
    ASSUME NEW S, NEW q \in Seq(S), q # <<>>, IsInjective(q)
    PROVE  /\ Front(q) \in Seq(S) /\ IsInjective(Front(q))
           /\ Last(q) \in Range(q) /\ Range(Front(q)) = Range(q) \ {Last(q)}
  <1>1. /\ Len(q) \in Nat \ {0} /\ DOMAIN q = 1..Len(q)
        /\ \A i, j \in 1..Len(q) : q[i] = q[j] => i = j
    BY DEF IsInjective
  <1>2. Front(q) \in Seq(S) /\ Len(Front(q)) = Len(q) - 1
    BY Ends
  <1>3. DOMAIN Front(q) = 1..(Len(q) - 1) /\ \A i \in 1..(Len(q) - 1) : Front(q)[i] = q[i]
    <2>1. Front(q) = [i \in 1..(Len(q) - 1) |-> q[i]]
      BY <1>1 DEF Front
    <2> QED BY <2>1
  <1>4. 1..Len(q) = 1..(Len(q) - 1) \cup {Len(q)} /\ Len(q) \notin 1..(Len(q) - 1)
    BY <1>1
  <1>5. Last(q) = q[Len(q)]
    BY DEF Last
  <1>6. IsInjective(Front(q))
    BY <1>1, <1>3, <1>4 DEF IsInjective
  <1>7. ASSUME NEW x PROVE x \in Range(Front(q)) <=> x \in Range(q) \ {Last(q)}
    <2>1. x \in Range(Front(q)) <=> \E i \in 1..(Len(q) - 1) : x = q[i]
      BY <1>3 DEF Range
    <2>2. x \in Range(q) <=> \E i \in 1..Len(q) : x = q[i]
      BY <1>1 DEF Range
    <2> QED BY <1>1, <1>4, <1>5, <2>1, <2>2
  <1>8. Last(q) \in Range(q)
    BY <1>1, <1>4, <1>5 DEF Range
  <1> QED BY <1>2, <1>6, <1>7, <1>8

\* The elements of a sequence.
LEMMA RangeAppend ==
    ASSUME NEW S, NEW q \in Seq(S), NEW x \in S
    PROVE  Range(Append(q, x)) = Range(q) \cup {x}
  <1>1. /\ DOMAIN Append(q, x) = 1..(Len(q) + 1) /\ DOMAIN q = 1..Len(q) /\ Len(q) \in Nat
        /\ \A i \in 1..Len(q) : Append(q, x)[i] = q[i]
        /\ Append(q, x)[Len(q) + 1] = x
    OBVIOUS
  <1>2. ASSUME NEW y PROVE y \in Range(Append(q, x)) <=> y \in Range(q) \cup {x}
    <2>1. y \in Range(Append(q, x)) <=> \E i \in 1..(Len(q) + 1) : y = Append(q, x)[i]
      BY <1>1 DEF Range
    <2>2. y \in Range(q) <=> \E i \in 1..Len(q) : y = q[i]
      BY <1>1 DEF Range
    <2>3. 1..(Len(q) + 1) = 1..Len(q) \cup {Len(q) + 1}
      BY <1>1
    <2> QED BY <1>1, <2>1, <2>2, <2>3
  <1> QED BY <1>2

LEMMA RangeTail ==
    ASSUME NEW S, NEW q \in Seq(S), q # <<>>
    PROVE  Tail(q) \in Seq(S) /\ Range(q) = {Head(q)} \cup Range(Tail(q))
  <1>1. /\ Tail(q) \in Seq(S) /\ Len(Tail(q)) = Len(q) - 1 /\ Len(q) \in Nat \ {0}
        /\ DOMAIN q = 1..Len(q) /\ DOMAIN Tail(q) = 1..(Len(q) - 1)
        /\ Head(q) = q[1] /\ \A i \in 1..(Len(q) - 1) : Tail(q)[i] = q[i + 1]
    OBVIOUS
  <1>2. ASSUME NEW y PROVE y \in Range(q) <=> y \in {Head(q)} \cup Range(Tail(q))
    <2>1. y \in Range(q) <=> \E i \in 1..Len(q) : y = q[i]
      BY <1>1 DEF Range
    <2>2. y \in Range(Tail(q)) <=> \E i \in 1..(Len(q) - 1) : y = q[i + 1]
      BY <1>1 DEF Range
    <2>3. \A i \in 1..Len(q) : i = 1 \/ (i - 1 \in 1..(Len(q) - 1) /\ (i - 1) + 1 = i)
      BY <1>1
    <2>4. 1 \in 1..Len(q) /\ \A i \in 1..(Len(q) - 1) : i + 1 \in 1..Len(q)
      BY <1>1
    <2> QED BY <1>1, <2>1, <2>2, <2>3, <2>4
  <1> QED BY <1>1, <1>2

LEMMA RangeConcat ==
    ASSUME NEW S, NEW p \in Seq(S), NEW q \in Seq(S)
    PROVE  Range(p \o q) = Range(p) \cup Range(q)
  <1>1. /\ Len(p) \in Nat /\ Len(q) \in Nat /\ DOMAIN p = 1..Len(p) /\ DOMAIN q = 1..Len(q)
        /\ DOMAIN (p \o q) = 1..(Len(p) + Len(q))
        /\ \A i \in 1..Len(p) : (p \o q)[i] = p[i]
        /\ \A i \in 1..Len(q) : (p \o q)[Len(p) + i] = q[i]
    OBVIOUS
  <1>2. ASSUME NEW y PROVE y \in Range(p \o q) <=> y \in Range(p) \cup Range(q)
    <2>1. y \in Range(p \o q) <=> \E i \in 1..(Len(p) + Len(q)) : y = (p \o q)[i]
      BY <1>1 DEF Range
    <2>2. /\ y \in Range(p) <=> \E i \in 1..Len(p) : y = p[i]
          /\ y \in Range(q) <=> \E i \in 1..Len(q) : y = q[i]
      BY <1>1 DEF Range
    <2>3. \A i \in 1..(Len(p) + Len(q)) :
             i \in 1..Len(p) \/ (i - Len(p) \in 1..Len(q) /\ Len(p) + (i - Len(p)) = i)
      BY <1>1
    <2>4. /\ \A i \in 1..Len(p) : i \in 1..(Len(p) + Len(q))
          /\ \A i \in 1..Len(q) : Len(p) + i \in 1..(Len(p) + Len(q))
      BY <1>1
    <2>5. ASSUME NEW i \in 1..(Len(p) + Len(q)), y = (p \o q)[i] PROVE y \in Range(p) \cup Range(q)
      <3>1. CASE i \in 1..Len(p)
        BY <1>1, <2>2, <2>5, <3>1
      <3>2. CASE i - Len(p) \in 1..Len(q) /\ Len(p) + (i - Len(p)) = i
        <4>1. y = q[i - Len(p)]
          BY <1>1, <2>5, <3>2
        <4> QED BY <2>2, <3>2, <4>1
      <3> QED BY <2>3, <3>1, <3>2
    <2>6. ASSUME y \in Range(p) \cup Range(q) PROVE y \in Range(p \o q)
      <3>1. CASE y \in Range(p)
        BY <1>1, <2>1, <2>2, <2>4, <3>1
      <3>2. CASE y \in Range(q)
        <4>1. PICK i \in 1..Len(q) : y = q[i]
          BY <2>2, <3>2
        <4>2. y = (p \o q)[Len(p) + i] /\ Len(p) + i \in 1..(Len(p) + Len(q))
          BY <1>1, <2>4, <4>1
        <4> QED BY <2>1, <4>2
      <3> QED BY <2>6, <3>1, <3>2
    <2> QED BY <2>1, <2>5, <2>6
  <1> QED BY <1>2

-----------------------------------------------------------------------------
(* The short-sighted SSPs.                                                 *)

\* The values that one gets when one takes steps from the first one.
Iterates(f, X, first, n, step) ==
    /\ f \in [0..n -> X]
    /\ f[0] = first /\ \A i \in 1..n : f[i] = step[f[i - 1]]

LEMMA IteratesExist ==
    ASSUME NEW X, NEW first \in X, NEW n \in Nat, NEW step \in [X -> X]
    PROVE  \E f : Iterates(f, X, first, n, step)
  <1> DEFINE Upto(m, f) == f[0] = first /\ \A i \in 1..m : f[i] = step[f[i - 1]]
             P == {m \in Nat : \E f \in [0..m -> X] : Upto(m, f)}
  <1>1. 0 \in P
    <2>1. [i \in 0..0 |-> first] \in [0..0 -> X] /\ Upto(0, [i \in 0..0 |-> first])
      OBVIOUS
    <2> QED BY <2>1
  <1>2. ASSUME NEW m \in Nat, m \in P PROVE m + 1 \in P
    <2>1. PICK f \in [0..m -> X] : Upto(m, f)
      BY <1>2
    <2> DEFINE more == [i \in 0..(m + 1) |-> IF i <= m THEN f[i] ELSE step[f[m]]]
    <2>2. f[m] \in X
      BY <2>1
    <2>3. step[f[m]] \in X
      BY <2>2
    <2>4. more \in [0..(m + 1) -> X]
      BY <2>1, <2>3
    <2>5. \A i \in 0..m : more[i] = f[i]
      OBVIOUS
    <2>6. more[m + 1] = step[f[m]]
      OBVIOUS
    <2> HIDE DEF more
    <2>7. Upto(m + 1, more)
      <3>1. more[0] = first
        BY <2>1, <2>5
      <3>2. ASSUME NEW i \in 1..(m + 1) PROVE more[i] = step[more[i - 1]]
        <4>1. CASE i \in 1..m
          BY <2>1, <2>5, <4>1
        <4>2. CASE i = m + 1
          BY <2>5, <2>6, <4>2
        <4> QED BY <4>1, <4>2
      <3> QED BY <3>1, <3>2
    <2> QED BY <2>4, <2>7
  <1> HIDE DEF P
  <1>3. n \in P
    BY <1>1, <1>2, Induction
  <1> QED BY <1>3 DEF P, Iterates

\* What holds of the first value and is kept by every step holds of the last.
LEMMA LastIsGood ==
    ASSUME NEW f, NEW n \in Nat, NEW Good, f[0] \in Good,
           \A i \in 1..n : f[i - 1] \in Good => f[i] \in Good
    PROVE  f[n] \in Good
  <1> DEFINE P == {m \in Nat : m <= n => f[m] \in Good}
  <1>1. 0 \in P
    OBVIOUS
  <1>2. ASSUME NEW m \in Nat, m \in P PROVE m + 1 \in P
    <2> SUFFICES ASSUME m + 1 <= n PROVE f[m + 1] \in Good
      OBVIOUS
    <2>1. m + 1 \in 1..n /\ (m + 1) - 1 = m /\ f[m] \in Good
      BY <1>2
    <2> QED BY <2>1
  <1> HIDE DEF P
  <1>3. n \in P
    BY <1>1, <1>2, Induction
  <1> QED BY <1>3 DEF P

\* A space holds the successors of its states, as far as the fringe, and the
\* goals that it meets are fringe.
SpaceOK(p) ==
    /\ p.states \subseteq State /\ p.fringe \subseteq p.states
    /\ Goal \cap p.states \subseteq p.fringe
    /\ \A s \in p.states \ p.fringe : SuccessorsOf(s) \subseteq p.states

\* What lies ahead of a state, and of the states one expands.
LEMMA Ahead ==
    /\ \A s \in State : SuccessorsOf(s) \subseteq State
    /\ \A s \in State : \A a \in Range(Applicable[s]) : Succ(s, a) \subseteq SuccessorsOf(s)
    /\ \A goals, S : /\ S \subseteq State => Expanded(goals, S) \subseteq State
                     /\ \A s \in S \ goals : SuccessorsOf(s) \subseteq Expanded(goals, S)
  <1>1. ASSUME NEW s \in State PROVE SuccessorsOf(s) \subseteq State
    BY TaskAssumption DEF SuccessorsOf
  <1>2. ASSUME NEW s \in State, NEW a \in Range(Applicable[s])
        PROVE  Succ(s, a) \subseteq SuccessorsOf(s)
    BY DEF SuccessorsOf
  <1>3. ASSUME NEW goals, NEW S, S \subseteq State PROVE Expanded(goals, S) \subseteq State
    BY <1>1, <1>3 DEF Expanded
  <1>4. ASSUME NEW goals, NEW S, NEW s \in S \ goals
        PROVE  SuccessorsOf(s) \subseteq Expanded(goals, S)
    BY DEF Expanded
  <1> QED BY <1>1, <1>2, <1>3, <1>4

\* A space around s, for a set of goals: it holds s, and the goals it meets are
\* fringe.
Around(p, goals, s) ==
    SpaceOK(p) /\ s \in p.states /\ p.states \cap goals \subseteq p.fringe

\* Layer of newMaxDepth().
Layers(goals, s, n) ==
    CHOOSE Layer : Layer = [d \in 0..n |->
        IF d = 0 THEN [seen |-> {s}, last |-> {s}]
        ELSE LET new == Expanded(goals, Layer[d - 1].last) \ Layer[d - 1].seen
             IN  [seen |-> Layer[d - 1].seen \cup new, last |-> new]]

LEMMA MaxDepthAround ==
    ASSUME NEW goals, Goal \subseteq goals, NEW s \in State, NEW n \in Nat
    PROVE  Around(NewMaxDepth(goals, s, n), goals, s)
  <1> DEFINE X == [seen : SUBSET State, last : SUBSET State]
             new(l) == Expanded(goals, l.last) \ l.seen
             step == [l \in X |-> [seen |-> l.seen \cup new(l), last |-> new(l)]]
             first == [seen |-> {s}, last |-> {s}]
             L == Layers(goals, s, n)
  <1>1. first \in X
    OBVIOUS
  <1>2. step \in [X -> X] /\ \A l \in X : step[l] = [seen |-> l.seen \cup new(l), last |-> new(l)]
    BY Ahead
  <1>3. PICK f : Iterates(f, X, first, n, step)
    <2> HIDE DEF X, step, first
    <2> QED BY <1>1, <1>2, IteratesExist
  <1>4. f = [d \in 0..n |->
        IF d = 0 THEN [seen |-> {s}, last |-> {s}]
        ELSE LET more == Expanded(goals, f[d - 1].last) \ f[d - 1].seen
             IN  [seen |-> f[d - 1].seen \cup more, last |-> more]]
    <2>1. ASSUME NEW d \in 1..n PROVE d - 1 \in 0..n
      OBVIOUS
    <2>2. ASSUME NEW d \in 1..n
          PROVE  f[d] = [seen |-> f[d - 1].seen \cup new(f[d - 1]), last |-> new(f[d - 1])]
      <3>1. f[d] = step[f[d - 1]] /\ f[d - 1] \in X
        BY <1>3, <2>1 DEF Iterates
      <3> HIDE DEF X, step, new
      <3> QED BY <1>2, <3>1
    <2>3. f \in [0..n -> X] /\ f[0] = first
      BY <1>3 DEF Iterates
    <2> DEFINE rhs(d) == IF d = 0 THEN first ELSE
                    [seen |-> f[d - 1].seen \cup new(f[d - 1]), last |-> new(f[d - 1])]
    <2>4. ASSUME NEW d \in 0..n PROVE f[d] = rhs(d)
      <3>1. CASE d = 0
        BY <2>3, <3>1
      <3>2. CASE d \in 1..n
        <4>1. d # 0
          BY <3>2
        <4> QED BY <2>2, <3>2, <4>1, Zenon
      <3> QED BY <3>1, <3>2
    <2>5. f = [d \in 0..n |-> rhs(d)]
      <3> HIDE DEF rhs, step, X, first
      <3> QED BY <2>3, <2>4
    <2> QED BY <2>5, Zenon
  <1>5. L = [d \in 0..n |->
        IF d = 0 THEN [seen |-> {s}, last |-> {s}]
        ELSE LET more == Expanded(goals, L[d - 1].last) \ L[d - 1].seen
             IN  [seen |-> L[d - 1].seen \cup more, last |-> more]]
    BY <1>4 DEF Layers
  <1> HIDE DEF L
  <1> DEFINE Good == {l \in X : /\ s \in l.seen /\ l.last \subseteq l.seen
                                /\ \A t \in l.seen \ (l.last \cup goals) :
                                       SuccessorsOf(t) \subseteq l.seen}
  <1>6. L[0] \in Good
    BY <1>5
  <1>7. ASSUME NEW d \in 1..n, L[d - 1] \in Good PROVE L[d] \in Good
    <2> DEFINE l == L[d - 1]
    <2>1. L[d] = [seen |-> l.seen \cup new(l), last |-> new(l)]
      <3>1. d \in 0..n /\ d # 0
        OBVIOUS
      <3> QED BY <1>5, <3>1, Zenon
    <2>2. l \in Good
      BY <1>7
    <2> HIDE DEF l
    <2>3. new(l) \subseteq State /\ \A t \in l.last \ goals : SuccessorsOf(t) \subseteq l.seen \cup new(l)
      BY <2>2, Ahead
    <2> QED BY <2>1, <2>2, <2>3
  <1> HIDE DEF Good
  <1>8. L[n] \in Good
    BY <1>6, <1>7, LastIsGood
  <1>9. NewMaxDepth(goals, s, n) = [states |-> L[n].seen,
                                    fringe |-> L[n].last \cup (L[n].seen \cap goals)]
    BY Zenon DEF NewMaxDepth, Layers, L
  <1> QED BY <1>8, <1>9 DEF Around, SpaceOK, Good

\* From and Trajectories of newTrajectoryBased().
Onward(tp) ==
    UNION {{<<t, (tp[2] * Outcome[<<tp[1], a>>][t]) \div One>> :
                t \in Succ(tp[1], a)} : a \in Range(Applicable[tp[1]])}
Likely(goals, s, min_p, n) ==
    CHOOSE Trajectories : Trajectories = [k \in 0..n |->
        IF k = 0 THEN {<<s, Certain>>}
        ELSE LET shorter == Trajectories[k - 1] IN
             shorter \cup {tp \in UNION {Onward(x) : x \in shorter} :
                              tp[1] \notin goals /\ tp[2] >= min_p}]

LEMMA OnwardFacts ==
    ASSUME NEW x \in State \X Nat
    PROVE  Onward(x) \subseteq State \X Nat
  <1> DEFINE p == x[1]
             w == x[2]
  <1>1. p \in State /\ w \in Nat
    OBVIOUS
  <1>2. ASSUME NEW a \in Range(Applicable[p]), NEW t \in Succ(p, a)
        PROVE  t \in State /\ (w * Outcome[<<p, a>>][t]) \div One \in Nat
    <2>1. t \in State /\ Outcome[<<p, a>>][t] \in Nat /\ One \in Nat \ {0}
      BY <1>1, TaskAssumption
    <2>2. w * Outcome[<<p, a>>][t] \in Nat
      BY <1>1, <2>1
    <2> QED BY <2>1, <2>2, DivMonotone
  <1>3. ASSUME NEW y \in Onward(x) PROVE y \in State \X Nat
    <2>1. PICK a \in Range(Applicable[p]) :
             y \in {<<t, (w * Outcome[<<p, a>>][t]) \div One>> : t \in Succ(p, a)}
      BY <1>3 DEF Onward
    <2>2. PICK t \in Succ(p, a) : y = <<t, (w * Outcome[<<p, a>>][t]) \div One>>
      BY <2>1
    <2> QED BY <1>2, <2>2
  <1> QED BY <1>3

LEMMA TrajectoryAround ==
    ASSUME NEW goals, Goal \subseteq goals, NEW s \in State \ goals, NEW min_p
    PROVE  Around(NewTrajectoryBased(goals, s, min_p), goals, s)
  <1> DEFINE n == Cardinality(State)
             X == SUBSET (State \X Nat)
             new(l) == {tp \in UNION {Onward(x) : x \in l} : tp[1] \notin goals /\ tp[2] >= min_p}
             step == [l \in X |-> l \cup new(l)]
             first == {<<s, Certain>>}
             T == Likely(goals, s, min_p, n)
  <1>1. n \in Nat
    BY TaskAssumption, FS_CardinalityType
  <1> HIDE DEF n
  <1>2. first \in X
    BY DEF Certain
  <1>3. \A l \in X : new(l) \in X
    <2> SUFFICES ASSUME NEW l \in X, NEW tp \in new(l) PROVE tp \in State \X Nat
      OBVIOUS
    <2>1. PICK x \in l : tp \in Onward(x)
      OBVIOUS
    <2> QED BY <2>1, OnwardFacts
  <1>4. step \in [X -> X] /\ \A l \in X : step[l] = l \cup new(l)
    <2> HIDE DEF new
    <2> QED BY <1>3
  <1>5. PICK f : Iterates(f, X, first, n, step)
    <2> HIDE DEF X, step, first
    <2> QED BY <1>1, <1>2, <1>4, IteratesExist
  <1>6. f = [k \in 0..n |->
               IF k = 0 THEN {<<s, Certain>>}
               ELSE LET shorter == f[k - 1] IN
                    shorter \cup {tp \in UNION {Onward(x) : x \in shorter} :
                                     tp[1] \notin goals /\ tp[2] >= min_p}]
    <2>1. ASSUME NEW k \in 1..n PROVE k - 1 \in 0..n
      BY <1>1
    <2>2. ASSUME NEW k \in 1..n PROVE f[k] = f[k - 1] \cup new(f[k - 1])
      <3>1. f[k] = step[f[k - 1]] /\ f[k - 1] \in X
        BY <1>5, <2>1 DEF Iterates
      <3> HIDE DEF X, step, new
      <3> QED BY <1>4, <3>1
    <2>3. f \in [0..n -> X] /\ f[0] = first
      BY <1>5 DEF Iterates
    <2> DEFINE rhs(k) == IF k = 0 THEN first ELSE f[k - 1] \cup new(f[k - 1])
    <2>4. ASSUME NEW k \in 0..n PROVE f[k] = rhs(k)
      <3>1. CASE k = 0
        BY <2>3, <3>1
      <3>2. CASE k \in 1..n
        <4>1. k # 0
          BY <3>2
        <4> QED BY <2>2, <3>2, <4>1, Zenon
      <3> QED BY <1>1, <3>1, <3>2
    <2>5. f = [k \in 0..n |-> rhs(k)]
      <3> HIDE DEF rhs, step, X, first
      <3> QED BY <2>3, <2>4
    <2> QED BY <2>5, Zenon
  <1>7. T = [k \in 0..n |->
               IF k = 0 THEN {<<s, Certain>>}
               ELSE LET shorter == T[k - 1] IN
                    shorter \cup {tp \in UNION {Onward(x) : x \in shorter} :
                                     tp[1] \notin goals /\ tp[2] >= min_p}]
    BY <1>6 DEF Likely
  <1> HIDE DEF T
  <1> DEFINE Good == {l \in X : <<s, Certain>> \in l /\ \A tp \in l : tp[1] \notin goals}
  <1>8. T[0] \in Good
    <2>1. T[0] = {<<s, Certain>>}
      BY <1>1, <1>7
    <2> QED BY <2>1, <1>2
  <1>9. ASSUME NEW k \in 1..n, T[k - 1] \in Good PROVE T[k] \in Good
    <2> DEFINE l == T[k - 1]
    <2>1. T[k] = l \cup new(l)
      <3>1. k \in 0..n /\ k # 0
        BY <1>1
      <3> QED BY <1>7, <3>1, Zenon
    <2>2. l \in Good
      BY <1>9
    <2> HIDE DEF l
    <2>3. new(l) \in X /\ \A tp \in new(l) : tp[1] \notin goals
      BY <1>3, <2>2
    <2> HIDE DEF new
    <2> QED BY <2>1, <2>2, <2>3
  <1> HIDE DEF Good
  <1>10. T[n] \in Good
    BY <1>1, <1>8, <1>9, LastIsGood
  <1> DEFINE inside == {tp[1] : tp \in T[n]}
             states == inside \cup Expanded(goals, inside)
  <1>11. NewTrajectoryBased(goals, s, min_p) = [states |-> states, fringe |-> states \ inside]
    BY Zenon DEF NewTrajectoryBased, Likely, Onward, T, n
  <1>12. inside \subseteq State \ goals /\ s \in inside
    <2>1. /\ \A tp \in T[n] : tp \in State \X Nat /\ tp[1] \notin goals
          /\ <<s, Certain>> \in T[n]
      BY <1>10 DEF Good
    <2>2. \A tp \in T[n] : tp[1] \in State \ goals
      BY <2>1
    <2>3. <<s, Certain>>[1] = s
      OBVIOUS
    <2> QED BY <2>1, <2>2, <2>3
  <1> HIDE DEF inside
  <1>13. /\ Expanded(goals, inside) \subseteq State
         /\ \A x \in inside : SuccessorsOf(x) \subseteq Expanded(goals, inside)
    BY <1>12, Ahead
  <1> QED BY <1>11, <1>12, <1>13 DEF Around, SpaceOK

\* One expansion of newGreedy(), and Grow.
Grown(goals, hash, max_nodes, g) ==
    IF g.open = {} \/ Cardinality(g.states) >= max_nodes THEN g
    ELSE LET t == CHOOSE t \in g.open : \A u \in g.open : hash[t] <= hash[u]
             new == Expanded(goals, {t}) \ g.states
         IN  [states |-> g.states \cup new, open |-> (g.open \ {t}) \cup (new \ goals)]
Spaces(goals, s, hash, max_nodes, n) ==
    CHOOSE Grow : Grow = [k \in 0..n |->
        IF k = 0 THEN [states |-> {s}, open |-> {s}]
        ELSE LET g == Grow[k - 1] IN
             IF g.open = {} \/ Cardinality(g.states) >= max_nodes THEN g
             ELSE LET t == CHOOSE t \in g.open : \A u \in g.open : hash[t] <= hash[u]
                      new == Expanded(goals, {t}) \ g.states
                  IN  [states |-> g.states \cup new,
                       open |-> (g.open \ {t}) \cup (new \ goals)]]

\* What a growing space is: the states that are not open are expanded.
GrowingSet == [states : SUBSET State, open : SUBSET State]
Growing(goals, s, g) ==
    /\ g \in GrowingSet /\ s \in g.states /\ g.open \subseteq g.states \ goals
    /\ \A t \in g.states \ (g.open \cup goals) : SuccessorsOf(t) \subseteq g.states

LEMMA GrownFacts ==
    ASSUME NEW goals, NEW s, NEW hash \in [State -> Nat], NEW max_nodes, NEW g \in GrowingSet
    PROVE  /\ Grown(goals, hash, max_nodes, g) \in GrowingSet
           /\ Growing(goals, s, g) => Growing(goals, s, Grown(goals, hash, max_nodes, g))
  <1>1. CASE g.open = {} \/ Cardinality(g.states) >= max_nodes
    <2>1. Grown(goals, hash, max_nodes, g) = g
      BY <1>1, Zenon DEF Grown
    <2> QED BY <2>1
  <1>2. CASE ~(g.open = {} \/ Cardinality(g.states) >= max_nodes)
    <2> DEFINE least(t) == \A u \in g.open : hash[t] <= hash[u]
               t == CHOOSE t \in g.open : least(t)
               new == Expanded(goals, {t}) \ g.states
               h == [states |-> g.states \cup new, open |-> (g.open \ {t}) \cup (new \ goals)]
    <2>1. Grown(goals, hash, max_nodes, g) = h
      BY <1>2, Zenon DEF Grown
    <2>2. g.open \subseteq State /\ g.states \subseteq State /\ g.open # {}
      BY <1>2 DEF GrowingSet
    <2>3. t \in g.open
      <3> DEFINE V == {hash[u] : u \in g.open}
      <3>1. V \subseteq Nat /\ V # {}
        BY <2>2
      <3>2. PICK m \in V : \A k \in V : m <= k
        <4> HIDE DEF V
        <4> QED BY <3>1, LeastNumber
      <3>3. \E u \in g.open : least(u)
        BY <3>2
      <3> HIDE DEF least
      <3> QED BY <3>3
    <2> HIDE DEF t
    <2>4. Expanded(goals, {t}) \subseteq State
      BY <2>2, <2>3, Ahead
    <2>5. t \notin goals => SuccessorsOf(t) \subseteq Expanded(goals, {t})
      <3>1. {t} \subseteq State
        BY <2>2, <2>3
      <3>2. t \notin goals => t \in {t} \ goals
        OBVIOUS
      <3> QED BY <3>1, <3>2, Ahead
    <2>6. new \subseteq State /\ Expanded(goals, {t}) \subseteq g.states \cup new
      BY <2>4
    <2> HIDE DEF new
    <2>7. h \in GrowingSet
      BY <2>2, <2>6 DEF GrowingSet
    <2>8. ASSUME Growing(goals, s, g) PROVE Growing(goals, s, h)
      <3>1. s \in h.states /\ h.open \subseteq h.states \ goals
        BY <2>8 DEF Growing
      <3>2. ASSUME NEW x \in h.states \ (h.open \cup goals)
            PROVE  SuccessorsOf(x) \subseteq h.states
        <4>1. x \in g.states /\ (x = t \/ x \notin g.open) /\ x \notin goals
          BY <3>2
        <4>2. CASE x = t
          BY <2>5, <2>6, <4>1, <4>2
        <4>3. CASE x \notin g.open
          BY <2>8, <4>1, <4>3 DEF Growing
        <4> QED BY <4>1, <4>2, <4>3
      <3> HIDE DEF h
      <3> QED BY <2>7, <3>1, <3>2 DEF Growing
    <2> HIDE DEF h
    <2> QED BY <2>1, <2>7, <2>8
  <1> QED BY <1>1, <1>2

LEMMA GreedyAround ==
    ASSUME NEW goals, Goal \subseteq goals, NEW s \in State \ goals,
           NEW hash \in [State -> Nat], NEW max_nodes
    PROVE  Around(NewGreedy(goals, s, hash, max_nodes), goals, s)
  <1> DEFINE n == Cardinality(State)
             next(g) == Grown(goals, hash, max_nodes, g)
             step == [g \in GrowingSet |-> next(g)]
             first == [states |-> {s}, open |-> {s}]
             G == Spaces(goals, s, hash, max_nodes, n)
  <1>1. n \in Nat
    BY TaskAssumption, FS_CardinalityType
  <1> HIDE DEF n
  <1>2. first \in GrowingSet
    BY DEF GrowingSet
  <1>3. \A g \in GrowingSet : next(g) \in GrowingSet
    BY GrownFacts
  <1>4. step \in [GrowingSet -> GrowingSet] /\ \A g \in GrowingSet : step[g] = next(g)
    <2> HIDE DEF next
    <2> QED BY <1>3
  <1>5. PICK f : Iterates(f, GrowingSet, first, n, step)
    <2> HIDE DEF step, first
    <2> QED BY <1>1, <1>2, <1>4, IteratesExist
  <1>6. f = [k \in 0..n |-> IF k = 0 THEN first ELSE next(f[k - 1])]
    <2>1. ASSUME NEW k \in 1..n PROVE k - 1 \in 0..n
      BY <1>1
    <2>2. ASSUME NEW k \in 1..n PROVE f[k] = next(f[k - 1])
      <3>1. f[k] = step[f[k - 1]] /\ f[k - 1] \in GrowingSet
        BY <1>5, <2>1 DEF Iterates
      <3> HIDE DEF step, next
      <3> QED BY <1>4, <3>1
    <2>3. f \in [0..n -> GrowingSet] /\ f[0] = first
      BY <1>5 DEF Iterates
    <2> DEFINE rhs(k) == IF k = 0 THEN first ELSE next(f[k - 1])
    <2>4. ASSUME NEW k \in 0..n PROVE f[k] = rhs(k)
      <3>1. CASE k = 0
        BY <2>3, <3>1
      <3>2. CASE k \in 1..n
        <4>1. k # 0
          BY <3>2
        <4> QED BY <2>2, <3>2, <4>1, Zenon
      <3> QED BY <1>1, <3>1, <3>2
    <2>5. f = [k \in 0..n |-> rhs(k)]
      <3> HIDE DEF rhs, step, first
      <3> QED BY <2>3, <2>4
    <2> QED BY <2>5, Zenon
  <1>7. G = CHOOSE Grow : Grow = [k \in 0..n |-> IF k = 0 THEN first ELSE next(Grow[k - 1])]
    BY Zenon DEF Spaces, Grown
  <1>8. G = [k \in 0..n |-> IF k = 0 THEN first ELSE next(G[k - 1])]
    <2> HIDE DEF next, first, G
    <2> QED BY <1>6, <1>7
  <1> HIDE DEF G
  <1> DEFINE Good == {g \in GrowingSet : Growing(goals, s, g)}
  <1>9. G[0] \in Good
    <2>1. G[0] = first
      BY <1>1, <1>8
    <2>2. Growing(goals, s, first)
      BY <1>2 DEF Growing
    <2> QED BY <2>1, <2>2, <1>2
  <1>10. ASSUME NEW k \in 1..n, G[k - 1] \in Good PROVE G[k] \in Good
    <2>1. G[k] = next(G[k - 1])
      <3>1. k \in 0..n /\ k # 0
        BY <1>1
      <3> QED BY <1>8, <3>1, Zenon
    <2> QED BY <1>10, <2>1, GrownFacts
  <1> HIDE DEF Good
  <1>11. G[n] \in Good
    BY <1>1, <1>9, <1>10, LastIsGood
  <1>12. NewGreedy(goals, s, hash, max_nodes) =
            [states |-> G[n].states,
             fringe |-> (G[n].states \cap goals) \cup {t \in G[n].open : Applicable[t] # <<>>}]
    BY Zenon DEF NewGreedy, Spaces, G, n
  <1>13. PICK g : g = G[n] /\ Growing(goals, s, g)
    BY <1>11 DEF Good
  <1>14. ASSUME NEW t \in State, Applicable[t] = <<>> PROVE SuccessorsOf(t) = {}
    BY <1>14 DEF SuccessorsOf, Range
  <1> QED BY <1>12, <1>13, <1>14 DEF Around, SpaceOK, Growing, GrowingSet

\* A new short-sighted SSP is a space around the state it is made for.
LEMMA NewSpaceAround ==
    ASSUME NEW p \in Planners, p.name # "opt", NEW limit \in p.limits,
           NEW goals, Goal \subseteq goals, NEW s \in State \ goals,
           NEW hash \in [State -> Nat]
    PROVE  Around(NewShortSightedSSP(p.method, limit, goals, s, hash), goals, s)
  <1>1. limit \in Nat /\ p.method \in {"max_depth", "min_prob_traj", "greedy"}
    BY CallersAssumption
  <1> DEFINE new == NewShortSightedSSP(p.method, limit, goals, s, hash)
  <1>2. CASE p.method = "max_depth"
    <2>1. new = NewMaxDepth(goals, s, limit)
      BY <1>2 DEF NewShortSightedSSP
    <2> QED BY <1>1, <2>1, MaxDepthAround
  <1>3. CASE p.method = "min_prob_traj"
    <2>1. new = NewTrajectoryBased(goals, s, limit)
      BY <1>3 DEF NewShortSightedSSP
    <2> QED BY <2>1, TrajectoryAround
  <1>4. CASE p.method = "greedy"
    <2>1. new = NewGreedy(goals, s, hash, limit)
      BY <1>4 DEF NewShortSightedSSP
    <2> QED BY <2>1, GreedyAround
  <1> QED BY <1>1, <1>2, <1>3, <1>4

-----------------------------------------------------------------------------
(* The invariant.                                                          *)

Types ==
    /\ v \in Bounded /\ planner \in Planners
    /\ labels \in [Owner -> SUBSET State] /\ labeller \in Owner
    /\ visited \in [Owner -> Seq(State)]
    /\ check \in [open : Seq(State), closed : Seq(State), rv : BOOLEAN]
    /\ sweep \in [todo : SUBSET State, far : BOOLEAN, solved : BOOLEAN]
    /\ todo \in Seq(State)

\* The states of a trial, of its labels and of the sweeps are in the space.
TrialIsOn == pc = "trial" \/ (pc \in {"label", "check"} /\ labeller = "opt")
Inside ==
    /\ SpaceOK(space) /\ (~has_opt => space = WholeSpace)
    /\ visited["opt"] \in Seq(space.states) /\ (~TrialIsOn => visited["opt"] = <<>>)
    /\ (pc = "check" /\ labeller = "opt" =>
          /\ check.open \in Seq(space.states) /\ check.closed \in Seq(space.states))
    /\ sweep.todo \subseteq space.states
    /\ (TrialIsOn \/ pc \in {"ssipp", "solve"} => ask \in space.states)
    /\ (pc \in {"trial", "turn"} => cur_s \in space.states)

\* A state that the client may ask about next: one of the space, or one for
\* which Labeled SSiPP has an answer or starts anew.
Askable(s) ==
    \/ s \in space.states
    \/ /\ planner.name = "labeledssipp"
       /\ IsSolved("lssipp", s) \/ ~use_as_replanner_
AnswerOK ==
    \/ answer \in {NoAnswer, Deadline, NoAction}
    \/ /\ answer \in Range(Applicable[Last(todo)])
       /\ \A t \in Succ(Last(todo), answer) : Askable(t)

Asking == {"rollout", "envelope", "q_values", "training", "practice", "round"}
Serving == pc # "idle" /\ call # "none"
RoundIsOn == pc \in {"round", "turn"} \/ (pc \in {"label", "check"} /\ labeller = "lssipp")
Control ==
    /\ (IsTeacher => ~has_opt /\ root = NoState /\ pc # "ssipp" /\ ~RoundIsOn)
    /\ (call \in {"rollout", "envelope", "q_values", "trace"} => IsTeacher)
    /\ (call = "start" => ~has_opt)
    /\ (call = "practice" => planner.name = "ssipp")
    /\ (call = "none" /\ pc # "idle" => root = NoState /\ RoundIsOn /\ pc # "turn")
    /\ (Serving => /\ call \in Asking /\ todo # <<>>
                   /\ Last(todo) = IF root = NoState THEN ask ELSE root)
    /\ (Serving /\ RoundIsOn => root # NoState)
    /\ (pc \in {"idle", "decide"} => root = NoState)
    /\ (root # NoState => root \in State /\ planner.name = "labeledssipp")
    /\ (pc = "decide" => ask \in State /\ Askable(ask))
    /\ (answer # NoAnswer => pc = "idle" /\ todo # <<>> /\ call \in Asking)
    /\ (answer = NoAnswer /\ pc = "idle" /\ todo # <<>> /\ call \in Asking
          => Askable(Last(todo)))
    /\ AnswerOK

IInv == Types /\ Inside /\ Control

\* The steps of the optimal planners and of checkSolved leave the rest alone.
Rest == UNCHANGED <<has_opt, use_as_replanner_, root>> /\ UNCHANGED teacherVars

LEMMA ControlKept ==
    ASSUME IInv, Rest, UNCHANGED <<planner, answer, ask, space>>,
           pc \in {"solve", "trial", "label", "check"},
           pc' \in {"solve", "trial", "label", "check", "round"},
           RoundIsOn' <=> RoundIsOn
    PROVE  Control'
  BY DEF IInv, Rest, Control, RoundIsOn, Serving, AnswerOK, Askable, IsTeacher, teacherVars

LEMMA StartTrialKept == ASSUME IInv, StartTrial, Rest PROVE IInv'
  <1>1. Types'
    BY DEF IInv, Types, StartTrial, Rest, teacherVars
  <1>2. Inside'
    BY DEF IInv, Inside, StartTrial, Rest, TrialIsOn
  <1>3. Control'
    <2>1. RoundIsOn' <=> RoundIsOn
      BY DEF StartTrial, RoundIsOn
    <2> QED BY <2>1, ControlKept DEF StartTrial
  <1> QED BY <1>1, <1>2, <1>3 DEF IInv

LEMMA EndTrialKept == ASSUME IInv, EndTrial, Rest PROVE IInv'
  <1>1. cur_s \in State /\ labels' \in [Owner -> SUBSET State]
    BY DEF IInv, Types, Inside, SpaceOK, EndTrial, Owner
  <1>2. Types'
    BY <1>1 DEF IInv, Types, EndTrial, Rest, teacherVars, Owner
  <1>3. Inside'
    BY DEF IInv, Inside, EndTrial, Rest, TrialIsOn
  <1>4. Control'
    <2>1. RoundIsOn' <=> RoundIsOn
      BY DEF EndTrial, RoundIsOn
    <2> QED BY <2>1, ControlKept DEF EndTrial
  <1> QED BY <1>2, <1>3, <1>4 DEF IInv

LEMMA TrialStepKept == ASSUME IInv, TrialStep, Rest PROVE IInv'
  <1> DEFINE a == Greedy(v, space.fringe, cur_s).action
  <1>1. /\ cur_s \in space.states \ space.fringe /\ cur_s \in State
        /\ SuccessorsOf(cur_s) \subseteq space.states
    BY DEF IInv, Inside, SpaceOK, TrialStep, TrialOver, IsSolved, GoalsOf
  <1>2. v' \in Bounded
    <2>1. cur_s \in Goal => cur_s \in space.fringe
      BY <1>1 DEF IInv, Inside, SpaceOK
    <2>2. v \in Bounded
      BY DEF IInv, Types
    <2> QED BY <1>1, <2>1, <2>2, UpdateBounded DEF TrialStep
  <1>3. a # NoAction => Succ(cur_s, a) \subseteq space.states
    <2>1. v \in Bounded
      BY DEF IInv, Types
    <2> QED BY <1>1, <2>1, GreedyAction, Ahead
  <1>4. labels' \in [Owner -> SUBSET State]
    BY <1>1 DEF IInv, Types, TrialStep, Owner
  <1>5. visited' \in [Owner -> Seq(State)] /\ visited'["opt"] \in Seq(space.states)
    <2>1. /\ visited \in [Owner -> Seq(State)] /\ visited["opt"] \in Seq(space.states)
          /\ visited' = [visited EXCEPT !["opt"] = Append(visited["opt"], cur_s)]
      BY DEF IInv, Types, Inside, TrialStep
    <2>2. /\ Append(visited["opt"], cur_s) \in Seq(State)
          /\ Append(visited["opt"], cur_s) \in Seq(space.states)
      BY <1>1, <2>1 DEF Owner
    <2> QED BY <2>1, <2>2 DEF Owner
  <1>6. /\ pc' \in {"trial", "label"} /\ pc = "trial"
        /\ pc' = "label" => labeller' = "opt" /\ cur_s' = NoState
        /\ pc' = "trial" => labeller' = labeller /\ cur_s' \in space.states
        /\ UNCHANGED <<planner, answer, ask, space, check, sweep>>
    BY <1>3 DEF TrialStep
  <1>7. Types'
    BY <1>2, <1>4, <1>5, <1>6 DEF IInv, Types, Rest, teacherVars, Owner
  <1>8. Inside'
    BY <1>5, <1>6 DEF IInv, Inside, Rest, TrialIsOn
  <1>9. Control'
    <2>1. RoundIsOn' <=> RoundIsOn
      BY <1>6 DEF RoundIsOn
    <2> QED BY <1>6, <2>1, ControlKept
  <1> QED BY <1>7, <1>8, <1>9 DEF IInv

LEMMA LabelKept == ASSUME IInv, Label, Rest PROVE IInv'
  <1> DEFINE stack == visited[labeller]
  <1>1. /\ visited \in [Owner -> Seq(State)] /\ labeller \in Owner
        /\ stack \in Seq(State) /\ (labeller = "opt" => stack \in Seq(space.states))
    BY DEF IInv, Types, Inside
  <1>2. /\ pc = "label"
        /\ \/ stack = <<>> /\ pc' = AfterLabels /\ UNCHANGED <<visited, check>>
           \/ /\ stack # <<>> /\ visited' = [visited EXCEPT ![labeller] = Front(stack)]
              /\ UNCHANGED <<pc, check>>
           \/ /\ stack # <<>> /\ pc' = "check" /\ UNCHANGED visited
              /\ check' = [open |-> <<Last(stack)>>, closed |-> <<>>, rv |-> TRUE]
        /\ UNCHANGED <<v, planner, answer, ask, space, labels, labeller, cur_s, sweep>>
    BY DEF Label, NoCheck
  <1> HIDE DEF stack
  <1>3. stack # <<>> => /\ Last(stack) \in State /\ Front(stack) \in Seq(State)
                        /\ labeller = "opt" => /\ Last(stack) \in space.states
                                               /\ Front(stack) \in Seq(space.states)
    BY <1>1, Ends
  <1> DEFINE first == <<Last(stack)>>
  <1>7. stack # <<>> => first \in Seq(State) /\ (labeller = "opt" => first \in Seq(space.states))
    BY <1>3, SingleSeq
  <1>8. <<>> \in Seq(State) /\ <<>> \in Seq(space.states)
    OBVIOUS
  <1> HIDE DEF first
  <1>4. Types'
    <2>1. visited' \in [Owner -> Seq(State)]
      BY <1>1, <1>2, <1>3
    <2>2. check' \in [open : Seq(State), closed : Seq(State), rv : BOOLEAN]
      <3>1. CASE UNCHANGED check
        BY <3>1 DEF IInv, Types
      <3>2. CASE stack # <<>> /\ check' = [open |-> first, closed |-> <<>>, rv |-> TRUE]
        BY <1>7, <1>8, <3>2
      <3> QED BY <1>2, <3>1, <3>2 DEF first
    <2> QED BY <1>2, <2>1, <2>2 DEF IInv, Types, Rest, teacherVars
  <1>5. Inside'
    <2>1. visited'["opt"] \in Seq(space.states)
      BY <1>1, <1>2, <1>3 DEF IInv, Inside, Owner
    <2>2. ~TrialIsOn' => visited'["opt"] = <<>>
      BY <1>1, <1>2 DEF IInv, Inside, TrialIsOn, AfterLabels, Owner, stack
    <2>3. pc' = "check" /\ labeller = "opt" =>
             check'.open \in Seq(space.states) /\ check'.closed \in Seq(space.states)
      <3> SUFFICES ASSUME pc' = "check", labeller = "opt"
                   PROVE  check'.open \in Seq(space.states) /\ check'.closed \in Seq(space.states)
        OBVIOUS
      <3>1. stack # <<>> /\ check' = [open |-> first, closed |-> <<>>, rv |-> TRUE]
        BY <1>2 DEF AfterLabels, first
      <3> QED BY <1>7, <1>8, <3>1
    <2> QED BY <1>1, <1>2, <2>1, <2>2, <2>3 DEF IInv, Inside, Rest, TrialIsOn, AfterLabels
  <1>6. Control'
    <2>1. RoundIsOn' <=> RoundIsOn
      BY <1>1, <1>2 DEF RoundIsOn, AfterLabels, Owner
    <2> QED BY <1>2, <2>1, ControlKept DEF AfterLabels
  <1> QED BY <1>4, <1>5, <1>6 DEF IInv

\* The states that checkSolved is about: those of the space for the optimal
\* planner, any for Labeled SSiPP; all that are goals to the planner are.
Realm == IF labeller = "opt" THEN space.states ELSE State

LEMMA RealmFacts ==
    ASSUME IInv, pc = "check"
    PROVE  /\ Realm \subseteq State
           /\ check.open \in Seq(Realm) /\ check.closed \in Seq(Realm)
           /\ \A s \in Realm : s \in Goal => s \in GoalsOf(labeller)
           /\ \A s \in Realm \ GoalsOf(labeller) : SuccessorsOf(s) \subseteq Realm
  <1>1. CASE labeller = "opt"
    BY <1>1 DEF IInv, Inside, SpaceOK, Realm, GoalsOf
  <1>2. CASE labeller # "opt"
    <2>1. Realm = State /\ GoalsOf(labeller) = Goal
      BY <1>2 DEF Realm, GoalsOf
    <2>2. check.open \in Seq(State) /\ check.closed \in Seq(State)
      BY DEF IInv, Types
    <2> QED BY <2>1, <2>2, Ahead
  <1> QED BY <1>1, <1>2

LEMMA CheckNodeKept == ASSUME IInv, CheckNode, Rest PROVE IInv'
  <1> DEFINE s == Head(check.open)
             goals == GoalsOf(labeller)
             g == Greedy(v, goals, s)
             far == Residual(v, goals, s) > epsilon
             explored == Range(check.open) \cup Range(check.closed)
             new == {t \in Succ(s, g.action) : ~IsSolved(labeller, t) /\ t \notin explored}
             solved == IsSolved(labeller, s)
             dead == ~solved /\ g.action = NoAction
  <1>1. /\ pc = "check" /\ check.open # <<>>
        /\ check' = [open |-> IF solved \/ dead \/ far THEN Tail(check.open)
                              ELSE SetToSeq(new) \o Tail(check.open),
                     closed |-> Append(check.closed, s),
                     rv |-> check.rv /\ (solved \/ ~far)]
        /\ labels' = IF dead THEN [labels EXCEPT ![labeller] = @ \cup {s}] ELSE labels
        /\ v' = IF dead /\ far THEN [v EXCEPT ![s] = g.value] ELSE v
        /\ UNCHANGED <<pc, planner, answer, ask, space, labeller, visited, cur_s, sweep>>
    BY Zenon DEF CheckNode
  <1>2. /\ Realm \subseteq State
        /\ check.open \in Seq(Realm) /\ check.closed \in Seq(Realm)
        /\ \A x \in Realm : x \in Goal => x \in GoalsOf(labeller)
        /\ \A x \in Realm \ GoalsOf(labeller) : SuccessorsOf(x) \subseteq Realm
    BY <1>1, RealmFacts
  <1>3. s \in Realm /\ Tail(check.open) \in Seq(Realm)
    BY <1>1, <1>2, Ends
  <1>4. v \in Bounded /\ labels \in [Owner -> SUBSET State] /\ labeller \in Owner /\ check.rv \in BOOLEAN
    BY DEF IInv, Types
  <1>5. solved <=> s \in goals \cup labels[labeller]
    BY DEF IsSolved
  <1>6. v' \in Bounded
    <2>1. g.value \in Nat /\ g.value <= Optimal[s]
      BY <1>2, <1>3, <1>4, GreedyMonotone
    <2>2. [v EXCEPT ![s] = g.value] \in Bounded
      BY <1>2, <1>3, <1>4, <2>1, Written
    <2> QED BY <1>1, <1>4, <2>2
  <1>7. labels' \in [Owner -> SUBSET State]
    BY <1>1, <1>2, <1>3, <1>4
  <1>8. check'.open \in Seq(Realm) /\ check'.closed \in Seq(Realm) /\ check'.rv \in BOOLEAN
    <2>1. Append(check.closed, s) \in Seq(Realm)
      BY <1>2, <1>3
    <2>2. ASSUME ~solved, ~dead PROVE SetToSeq(new) \o Tail(check.open) \in Seq(Realm)
      <3>1. g.action \in Range(Applicable[s]) /\ s \notin goals
        BY <1>2, <1>3, <1>4, <1>5, <2>2, GreedyAction
      <3>2. Succ(s, g.action) \subseteq Realm
        BY <1>2, <1>3, <3>1, Ahead
      <3>3. new \subseteq Realm
        BY <3>2
      <3> HIDE DEF new
      <3>4. IsFiniteSet(new)
        BY <1>2, <3>3, TaskAssumption, FS_Subset
      <3>5. SetToSeq(new) \in Seq(new)
        BY <3>4, SetToSeqFacts
      <3>6. SetToSeq(new) \in Seq(Realm)
        BY <3>3, <3>5
      <3> QED BY <1>3, <3>6
    <2> HIDE DEF s, solved, dead, far, new
    <2> QED BY <1>1, <1>3, <1>4, <2>1, <2>2
  <1>9. check' \in [open : Seq(State), closed : Seq(State), rv : BOOLEAN]
    <2>1. Seq(Realm) \subseteq Seq(State)
      BY <1>2
    <2>2. check' = [open |-> check'.open, closed |-> check'.closed, rv |-> check'.rv]
      <3> HIDE DEF s, solved, dead, far, new
      <3> QED BY <1>1
    <2> QED BY <1>8, <2>1, <2>2
  <1>10. /\ pc = "check" /\ pc' = "check"
         /\ UNCHANGED <<planner, answer, ask, space, labeller, visited, cur_s, sweep>>
    BY <1>1
  <1> HIDE DEF s, goals, g, far, explored, new, solved, dead
  <1>11. Types'
    BY <1>6, <1>7, <1>9, <1>10 DEF IInv, Types, Rest, teacherVars
  <1>12. Inside'
    BY <1>8, <1>10 DEF IInv, Inside, Rest, TrialIsOn, Realm
  <1>13. Control'
    <2>1. RoundIsOn' <=> RoundIsOn
      BY <1>10 DEF RoundIsOn
    <2> QED BY <1>10, <2>1, ControlKept
  <1> QED BY <1>11, <1>12, <1>13 DEF IInv

LEMMA CheckEndKept == ASSUME IInv, CheckEnd, Rest PROVE IInv'
  <1> DEFINE stack == visited[labeller]
             updated == Hashes(v, GoalsOf(labeller), check.closed)[DOMAIN check.closed]
  <1>1. /\ pc = "check" /\ check' = NoCheck
        /\ \/ /\ labels' = [labels EXCEPT ![labeller] = @ \cup Range(check.closed)]
              /\ visited' = [visited EXCEPT ![labeller] = Front(stack)]
              /\ pc' = "label" /\ UNCHANGED v
           \/ /\ v' = updated /\ visited' = [visited EXCEPT ![labeller] = <<>>]
              /\ pc' = AfterLabels /\ UNCHANGED labels
        /\ UNCHANGED <<planner, answer, ask, space, labeller, cur_s, sweep>>
    BY Zenon DEF CheckEnd, FoldLeft, MapThenFoldSet, Hashes
  <1>2. updated \in Bounded
    <2>1. /\ Realm \subseteq State /\ check.closed \in Seq(Realm)
          /\ \A x \in Realm : x \in Goal => x \in GoalsOf(labeller)
      BY <1>1, RealmFacts
    <2>2. v \in Bounded
      BY DEF IInv, Types
    <2>3. check.closed \in Seq(State) /\ \A i \in DOMAIN check.closed : check.closed[i] \in Realm
      BY <2>1
    <2>4. \A i \in DOMAIN check.closed :
             check.closed[i] \in Goal => check.closed[i] \in GoalsOf(labeller)
      BY <2>1, <2>3
    <2> QED BY <2>2, <2>3, <2>4, UpdatesBounded
  <1> HIDE DEF updated
  <1>3. v' \in Bounded
    BY <1>1, <1>2 DEF IInv, Types
  <1>4. labels' \in [Owner -> SUBSET State]
    <2>1. Range(check.closed) \subseteq State
      BY DEF IInv, Types, Range
    <2> QED BY <1>1, <2>1 DEF IInv, Types
  <1>5. /\ visited \in [Owner -> Seq(State)] /\ labeller \in Owner
        /\ stack \in Seq(State) /\ (labeller = "opt" => stack \in Seq(space.states))
    BY DEF IInv, Types, Inside
  <1>6. /\ Front(stack) \in Seq(State)
        /\ labeller = "opt" => Front(stack) \in Seq(space.states)
    <2>1. \A S : \A q \in Seq(S) : Front(q) \in Seq(S)
      BY DEF Front
    <2> HIDE DEF stack
    <2> QED BY <1>5, <2>1
  <1> HIDE DEF stack
  <1>7. /\ visited' \in [Owner -> Seq(State)]
        /\ visited'["opt"] \in Seq(space.states)
    <2>1. <<>> \in Seq(State) /\ <<>> \in Seq(space.states)
      OBVIOUS
    <2>2. visited["opt"] \in Seq(space.states) /\ "opt" \in Owner
      BY DEF IInv, Inside, Owner
    <2>3. CASE visited' = [visited EXCEPT ![labeller] = Front(stack)]
      BY <1>5, <1>6, <2>2, <2>3
    <2>4. CASE visited' = [visited EXCEPT ![labeller] = <<>>]
      BY <1>5, <2>1, <2>2, <2>4
    <2> QED BY <1>1, <2>3, <2>4
  <1>8. Types'
    BY <1>1, <1>3, <1>4, <1>7 DEF IInv, Types, NoCheck, Rest, teacherVars
  <1>9. Inside'
    <2>1. ~TrialIsOn' => visited'["opt"] = <<>>
      BY <1>1, <1>5 DEF IInv, Inside, TrialIsOn, AfterLabels, Owner
    <2> QED BY <1>1, <1>7, <2>1 DEF IInv, Inside, Rest, TrialIsOn, AfterLabels
  <1>10. Control'
    <2>1. RoundIsOn' <=> RoundIsOn
      BY <1>1, <1>5 DEF RoundIsOn, AfterLabels, Owner
    <2> QED BY <1>1, <2>1, ControlKept DEF AfterLabels
  <1> QED BY <1>8, <1>9, <1>10 DEF IInv

LEMMA SweepKept == ASSUME IInv, Sweep, Rest PROVE IInv'
  <1>1. v' \in Bounded
    <2>1. CASE UNCHANGED v
      BY <2>1 DEF IInv, Types
    <2>2. ASSUME NEW s \in sweep.todo,
                 v' = [v EXCEPT ![s] = Min({Greedy(v, space.fringe, s).value, dead_end_value})]
          PROVE  v' \in Bounded
      <3>1. v' = Update(v, space.fringe, s)
        BY <2>2, Zenon DEF Update
      <3>2. v \in Bounded /\ s \in State /\ (s \in Goal => s \in space.fringe)
        BY DEF IInv, Types, Inside, SpaceOK
      <3> QED BY <3>1, <3>2, UpdateBounded
    <2>3. \/ UNCHANGED v
          \/ \E s \in sweep.todo :
                v' = [v EXCEPT ![s] = Min({Greedy(v, space.fringe, s).value, dead_end_value})]
      BY Zenon DEF Sweep
    <2> QED BY <2>1, <2>2, <2>3, Zenon
  <1>2. /\ sweep' \in [todo : SUBSET State, far : BOOLEAN, solved : BOOLEAN]
        /\ sweep'.todo \subseteq space.states
    <2> DEFINE SweepOK(x) == /\ x \in [todo : SUBSET State, far : BOOLEAN, solved : BOOLEAN]
                             /\ x.todo \subseteq space.states
    <2>1. /\ sweep \in [todo : SUBSET State, far : BOOLEAN, solved : BOOLEAN]
          /\ sweep.todo \subseteq space.states /\ space.states \subseteq State
      BY DEF IInv, Types, Inside, SpaceOK
    <2>2. \/ \E s \in sweep.todo : \E b \in BOOLEAN :
                sweep' = [sweep EXCEPT !.todo = @ \ {s}, !.far = b]
          \/ sweep' = StartSweep
          \/ sweep' = [NewSweep EXCEPT !.far = FALSE, !.solved = TRUE]
      <3>1. ASSUME NEW s \in sweep.todo,
                   sweep' = [sweep EXCEPT !.todo = @ \ {s},
                               !.far = @ \/ Residual(v, space.fringe, s) > epsilon]
            PROVE  \E b \in BOOLEAN : sweep' = [sweep EXCEPT !.todo = @ \ {s}, !.far = b]
        <4>1. (sweep.far \/ Residual(v, space.fringe, s) > epsilon) \in BOOLEAN
          OBVIOUS
        <4> QED BY <3>1, <4>1, Zenon
      <3> QED BY <3>1, Zenon DEF Sweep
    <2>3. ASSUME NEW s \in sweep.todo, NEW b \in BOOLEAN,
                 sweep' = [sweep EXCEPT !.todo = @ \ {s}, !.far = b]
          PROVE  SweepOK(sweep')
      BY <2>1, <2>3
    <2>4. SweepOK(StartSweep)
      BY <2>1 DEF StartSweep
    <2>5. SweepOK([NewSweep EXCEPT !.far = FALSE, !.solved = TRUE])
      <3>1. NewSweep \in [todo : SUBSET State, far : BOOLEAN, solved : BOOLEAN]
            /\ NewSweep.todo = {}
        BY DEF NewSweep
      <3> QED BY <2>1, <3>1
    <2>6. SweepOK(sweep')
      <3> HIDE DEF SweepOK
      <3> QED BY <2>2, <2>3, <2>4, <2>5, Zenon
    <2> QED BY <2>6
  <1>3. /\ pc = "solve" /\ UNCHANGED <<pc, planner, answer, ask, space, labels, labeller, visited,
                                      cur_s, check>>
    BY Zenon DEF Sweep
  <1>4. Types'
    BY <1>1, <1>2, <1>3 DEF IInv, Types, Rest, teacherVars
  <1>5. Inside'
    BY <1>2, <1>3 DEF IInv, Inside, Rest, TrialIsOn
  <1>6. Control'
    <2>1. RoundIsOn' <=> RoundIsOn
      BY <1>3 DEF RoundIsOn
    <2> QED BY <1>3, <2>1, ControlKept
  <1> QED BY <1>4, <1>5, <1>6 DEF IInv

\* Facts about spaces and answers that the steps of SSiPP need.
LEMMA WholeSpaceOK == SpaceOK(WholeSpace) /\ WholeSpace.states = State
  BY Ahead, TaskAssumption DEF SpaceOK, WholeSpace

LEMMA InitRoundFacts ==
    ASSUME IInv, InitRound
    PROVE  /\ labels' \in [Owner -> SUBSET State] /\ visited' \in [Owner -> Seq(State)]
           /\ sweep' \in [todo : SUBSET State, far : BOOLEAN, solved : BOOLEAN]
           /\ SpaceOK(space') /\ space' = WholeSpace /\ space'.states = State /\ ~has_opt'
           /\ visited'["opt"] \in Seq(space'.states) /\ visited'["opt"] = visited["opt"]
           /\ sweep'.todo \subseteq space'.states
  <1>1. /\ ~has_opt' /\ space' = WholeSpace /\ sweep' = NewSweep
        /\ labels' = [labels EXCEPT !["opt"] = {}]
        /\ visited' = [visited EXCEPT !["lssipp"] = <<>>]
    BY DEF InitRound
  <1>2. /\ SpaceOK(space') /\ space'.states = State
    BY <1>1, WholeSpaceOK
  <1>3. /\ sweep' \in [todo : SUBSET State, far : BOOLEAN, solved : BOOLEAN]
        /\ sweep'.todo \subseteq space'.states
    BY <1>1 DEF NewSweep
  <1>4. labels' \in [Owner -> SUBSET State]
    BY <1>1 DEF IInv, Types
  <1>5. visited' \in [Owner -> Seq(State)] /\ visited'["opt"] = visited["opt"]
    <2>1. <<>> \in Seq(State)
      OBVIOUS
    <2>2. visited \in [Owner -> Seq(State)]
      BY DEF IInv, Types
    <2> QED BY <1>1, <2>1, <2>2 DEF Owner
  <1>6. visited'["opt"] \in Seq(space'.states)
    BY <1>2, <1>5 DEF Owner
  <1> QED BY <1>1, <1>2, <1>3, <1>4, <1>5, <1>6

LEMMA ActionsFacts ==
    /\ \A s \in State : Range(Applicable[s]) \subseteq Action
    /\ NoAnswer \notin Action \cup {NoAction, Deadline}
  BY TaskAssumption, CallersAssumption DEF Range

\* decideAction() returns to the client.
LEMMA Returns ==
    ASSUME IInv, UNCHANGED teacherVars, UNCHANGED <<planner, has_opt>>, Serving,
           pc' = "idle", root' = NoState, answer' # NoAnswer, AnswerOK'
    PROVE  Control'
  BY DEF IInv, Control, Serving, RoundIsOn, IsTeacher, teacherVars

\* The answer for a state that is solved, and for one of the space.
LEMMA SolvedAnswer ==
    ASSUME IInv, NEW s \in State, Last(todo) = s, planner.name = "labeledssipp",
           answer' = SolvedAction(s), UNCHANGED <<planner, labels, todo>>
    PROVE  answer' # NoAnswer /\ AnswerOK'
  <1> DEFINE a == SolvedAction(s)
  <1>1. v \in Bounded
    BY DEF IInv, Types
  <1>2. \/ a = NoAction
        \/ a \in Range(Applicable[s]) /\ Succ(s, a) \subseteq Goal \cup labels.lssipp
    BY <1>1, SafeAction DEF SolvedAction
  <1> HIDE DEF a
  <1>3. answer' = a
    BY DEF a
  <1>4. answer' # NoAnswer
    BY <1>2, <1>3, ActionsFacts
  <1>5. AnswerOK'
    BY <1>2, <1>3 DEF AnswerOK, Askable, IsSolved, GoalsOf
  <1> QED BY <1>4, <1>5

LEMMA SpaceAnswer ==
    ASSUME IInv, ask \in space.states
    PROVE  /\ ask \in State
           /\ \/ OptAction = NoAction
              \/ /\ OptAction \in Range(Applicable[ask])
                 /\ Succ(ask, OptAction) \subseteq space.states
  <1>1. v \in Bounded /\ ask \in State /\ SpaceOK(space)
    BY DEF IInv, Types, Inside, SpaceOK
  <1>2. \/ OptAction = NoAction
        \/ ask \notin space.fringe /\ OptAction \in Range(Applicable[ask])
    BY <1>1, SafeAction DEF OptAction
  <1>3. CASE OptAction # NoAction
    <2>1. SuccessorsOf(ask) \subseteq space.states
      BY <1>1, <1>2, <1>3 DEF SpaceOK
    <2>2. Succ(ask, OptAction) \subseteq SuccessorsOf(ask)
      BY <1>1, <1>2, <1>3, Ahead
    <2> QED BY <1>1, <1>2, <1>3, <2>1, <2>2
  <1> QED BY <1>1, <1>3

\* Return(a), for an action that stays inside the space.
LEMMA ReturnKept ==
    ASSUME IInv, NEW a, Return(a), pc \in {"ssipp", "solve"},
           UNCHANGED teacherVars,
           UNCHANGED <<v, planner, ask, space, labels, visited, check, sweep, has_opt,
                       use_as_replanner_, root>>,
           \/ a = NoAction
           \/ a \in Range(Applicable[ask]) /\ Succ(ask, a) \subseteq space.states
    PROVE  IInv'
  <1>1. Serving /\ answer = NoAnswer /\ ask \in space.states /\ ask \in State /\ visited["opt"] = <<>>
    BY DEF IInv, Control, Inside, SpaceOK, Serving, RoundIsOn, TrialIsOn
  <1>2. CASE root = NoState
    <2>1. pc' = "idle" /\ answer' = a /\ UNCHANGED labeller
      BY <1>2 DEF Return
    <2>2. answer' # NoAnswer
      BY <1>1, <2>1, ActionsFacts
    <2>3. Last(todo) = ask
      BY <1>1, <1>2 DEF IInv, Control
    <2>4. AnswerOK'
      BY <2>1, <2>3 DEF AnswerOK, Askable, teacherVars
    <2>5. Control'
      BY <1>1, <1>2, <2>1, <2>2, <2>4, Returns
    <2>6. Inside'
      BY <1>1, <2>1 DEF IInv, Inside, TrialIsOn
    <2>7. Types'
      BY <2>1 DEF IInv, Types, teacherVars
    <2> QED BY <2>5, <2>6, <2>7 DEF IInv
  <1>3. CASE root # NoState
    <2>1. /\ UNCHANGED answer
          /\ \/ pc' = "label" /\ labeller' = "lssipp"
             \/ pc' = "turn" /\ UNCHANGED labeller /\ cur_s' \in space.states
      BY <1>3 DEF Return, EndRound
    <2>2. Types'
      BY <2>1 DEF IInv, Types, teacherVars, Owner
    <2>3. Inside'
      BY <1>1, <2>1 DEF IInv, Inside, TrialIsOn
    <2>4. Control'
      BY <1>1, <1>3, <2>1 DEF IInv, Control, Serving, RoundIsOn, AnswerOK, IsTeacher, teacherVars
    <2> QED BY <2>2, <2>3, <2>4 DEF IInv
  <1> QED BY <1>2, <1>3

LEMMA SolvedKept == ASSUME IInv, Solved, UNCHANGED teacherVars PROVE IInv'
  <1>1. ask \in space.states
    BY DEF Solved, IInv, Inside
  <1> QED BY <1>1, SpaceAnswer, ReturnKept DEF Solved

LEMMA SSiPPDecidesKept == ASSUME IInv, SSiPPDecides, UNCHANGED teacherVars PROVE IInv'
  <1>1. /\ pc = "ssipp" /\ ask \in space.states /\ ask \in State /\ visited["opt"] = <<>>
        /\ Serving /\ answer = NoAnswer /\ planner.name # "opt" /\ planner \in Planners
    BY DEF SSiPPDecides, IInv, Types, Control, Inside, SpaceOK, Serving, RoundIsOn, TrialIsOn, IsTeacher
  <1>2. CASE GivesUp(ask)
    <2>1. Return(NoAction) /\ UNCHANGED <<space, labels, sweep, has_opt>>
      BY <1>2 DEF SSiPPDecides
    <2> QED BY <1>1, <2>1, ReturnKept DEF SSiPPDecides
  <1>3. CASE ~GivesUp(ask)
    <2>1. /\ pc' = "solve"
          /\ UNCHANGED <<v, planner, ask, visited, check, use_as_replanner_, root, answer, cur_s,
                         labeller>>
          /\ \/ UNCHANGED <<space, labels, sweep, has_opt>>
             \/ /\ \E limit \in planner.limits :
                     space' = NewShortSightedSSP(planner.method, limit, SSiPPGoals, ask, v)
                /\ labels' = [labels EXCEPT !["opt"] = {}] /\ sweep' = NewSweep
                /\ has_opt' = TRUE
      BY <1>3, Zenon DEF SSiPPDecides
    <2>2. CASE UNCHANGED <<space, labels, sweep, has_opt>>
      <3>1. Types'
        BY <2>1, <2>2 DEF IInv, Types, teacherVars
      <3>2. Inside'
        BY <1>1, <2>1, <2>2 DEF IInv, Inside, TrialIsOn
      <3>3. Control'
        BY <1>1, <2>1, <2>2 DEF IInv, Control, Serving, RoundIsOn, AnswerOK, IsTeacher, teacherVars
      <3> QED BY <3>1, <3>2, <3>3 DEF IInv
    <2>3. CASE /\ \E limit \in planner.limits :
                     space' = NewShortSightedSSP(planner.method, limit, SSiPPGoals, ask, v)
               /\ labels' = [labels EXCEPT !["opt"] = {}] /\ sweep' = NewSweep
               /\ has_opt' = TRUE
      <3>1. PICK limit \in planner.limits :
               space' = NewShortSightedSSP(planner.method, limit, SSiPPGoals, ask, v)
        BY <2>3
      <3>2. Goal \subseteq SSiPPGoals /\ ask \in State \ SSiPPGoals
        BY <1>1, <1>3 DEF SSiPPGoals, GivesUp
      <3>3. v \in [State -> Nat]
        BY DEF IInv, Types, Bounded
      <3>4. SpaceOK(space') /\ ask \in space'.states
        BY <1>1, <3>1, <3>2, <3>3, NewSpaceAround DEF Around
      <3>5. labels' \in [Owner -> SUBSET State]
        BY <2>3 DEF IInv, Types
      <3>6. sweep' \in [todo : SUBSET State, far : BOOLEAN, solved : BOOLEAN] /\ sweep'.todo = {}
        BY <2>3 DEF NewSweep
      <3>7. <<>> \in Seq(space'.states)
        OBVIOUS
      <3>8. Types'
        BY <2>1, <3>5, <3>6 DEF IInv, Types, teacherVars
      <3>9. Inside'
        BY <1>1, <2>1, <2>3, <3>4, <3>6, <3>7 DEF Inside, TrialIsOn
      <3>10. Control'
        BY <1>1, <2>1, <2>3 DEF IInv, Control, Serving, RoundIsOn, AnswerOK, IsTeacher, Asking, teacherVars
      <3> QED BY <3>8, <3>9, <3>10 DEF IInv
    <2> QED BY <2>1, <2>2, <2>3
  <1> QED BY <1>2, <1>3

LEMMA DecideActionKept == ASSUME IInv, DecideAction, UNCHANGED teacherVars PROVE IInv'
  <1>1. /\ pc = "decide" /\ ask \in State /\ Askable(ask) /\ root = NoState /\ answer = NoAnswer
        /\ Serving /\ Last(todo) = ask /\ visited["opt"] = <<>> /\ ~RoundIsOn
        /\ UNCHANGED <<v, planner, ask, space, labels, check, sweep, has_opt>>
    BY DEF DecideAction, IInv, Control, Inside, Serving, RoundIsOn, TrialIsOn
  <1>2. CASE /\ planner.name = "opt" /\ pc' = "solve"
             /\ UNCHANGED <<answer, cur_s, labeller, visited, use_as_replanner_, root>>
    <2>1. ask \in space.states
      BY <1>1, <1>2 DEF Askable
    <2>2. Types'
      BY <1>1, <1>2 DEF IInv, Types, teacherVars
    <2>3. Inside'
      BY <1>1, <1>2, <2>1 DEF IInv, Inside, TrialIsOn
    <2>4. Control'
      BY <1>1, <1>2 DEF IInv, Control, Serving, RoundIsOn, AnswerOK, IsTeacher, teacherVars
    <2> QED BY <2>2, <2>3, <2>4 DEF IInv
  <1>3. CASE /\ planner.name = "ssipp" /\ pc' = "ssipp"
             /\ UNCHANGED <<answer, cur_s, labeller, visited, use_as_replanner_, root>>
    <2>1. ask \in space.states
      BY <1>1, <1>3 DEF Askable
    <2>2. Types'
      BY <1>1, <1>3 DEF IInv, Types, teacherVars
    <2>3. Inside'
      BY <1>1, <1>3, <2>1 DEF IInv, Inside, TrialIsOn
    <2>4. Control'
      BY <1>1, <1>3 DEF IInv, Control, Serving, RoundIsOn, AnswerOK, IsTeacher, teacherVars
    <2> QED BY <2>2, <2>3, <2>4 DEF IInv
  <1>4. CASE /\ planner.name = "labeledssipp" /\ IsSolved("lssipp", ask)
             /\ pc' = "idle" /\ answer' = SolvedAction(ask)
             /\ UNCHANGED <<cur_s, labeller, visited, use_as_replanner_, root>>
    <2>1. answer' # NoAnswer /\ AnswerOK'
      BY <1>1, <1>4, SolvedAnswer DEF teacherVars
    <2>2. Types'
      BY <1>1, <1>4 DEF IInv, Types, teacherVars
    <2>3. Inside'
      BY <1>1, <1>4 DEF IInv, Inside, TrialIsOn
    <2>4. Control'
      BY <1>1, <1>4, <2>1, Returns
    <2> QED BY <2>2, <2>3, <2>4 DEF IInv
  <1>5. CASE /\ planner.name = "labeledssipp" /\ ~IsSolved("lssipp", ask)
             /\ use_as_replanner_ /\ pc' = "ssipp"
             /\ visited' = [visited EXCEPT !["lssipp"] = Append(@, ask)]
             /\ UNCHANGED <<answer, cur_s, labeller, use_as_replanner_, root>>
    <2>1. ask \in space.states
      BY <1>1, <1>5 DEF Askable
    <2>2. visited' \in [Owner -> Seq(State)] /\ visited'["opt"] = visited["opt"]
      <3>1. visited \in [Owner -> Seq(State)]
        BY DEF IInv, Types
      <3>2. Append(visited["lssipp"], ask) \in Seq(State)
        BY <1>1, <3>1 DEF Owner
      <3> QED BY <1>5, <3>1, <3>2 DEF Owner
    <2>3. Types'
      BY <1>1, <1>5, <2>2 DEF IInv, Types, teacherVars
    <2>4. Inside'
      BY <1>1, <1>5, <2>1, <2>2 DEF IInv, Inside, TrialIsOn
    <2>5. Control'
      BY <1>1, <1>5 DEF IInv, Control, Serving, RoundIsOn, AnswerOK, IsTeacher, teacherVars
    <2> QED BY <2>3, <2>4, <2>5 DEF IInv
  <1>6. CASE /\ planner.name = "labeledssipp" /\ ~IsSolved("lssipp", ask)
             /\ ~use_as_replanner_ /\ pc' = "round"
             /\ use_as_replanner_' = TRUE /\ root' = ask
             /\ UNCHANGED <<answer, cur_s, labeller, visited>>
    <2>1. root' # NoState /\ ~IsTeacher
      BY <1>1, <1>6, CallersAssumption DEF IsTeacher
    <2>2. Types'
      BY <1>1, <1>6 DEF IInv, Types, teacherVars
    <2>3. Inside'
      BY <1>1, <1>6 DEF IInv, Inside, TrialIsOn
    <2>4. Control'
      BY <1>1, <1>6, <2>1 DEF IInv, Control, Serving, RoundIsOn, AnswerOK, IsTeacher, teacherVars
    <2> QED BY <2>2, <2>3, <2>4 DEF IInv
  <1> QED BY <1>2, <1>3, <1>4, <1>5, <1>6, Zenon DEF DecideAction

LEMMA RoundKept == ASSUME IInv, Round, UNCHANGED teacherVars PROVE IInv'
  <1>1. /\ pc = "round" /\ root # NoState /\ root \in State /\ answer = NoAnswer
        /\ Serving /\ Last(todo) = root /\ visited["opt"] = <<>> /\ RoundIsOn /\ ~IsTeacher
        /\ planner.name = "labeledssipp"
        /\ UNCHANGED <<v, planner, ask, labeller, check>>
    BY DEF Round, IInv, Control, Inside, Serving, RoundIsOn, TrialIsOn
  <1>2. CASE /\ use_as_replanner_' = FALSE /\ root' = NoState
             /\ pc' = "idle" /\ answer' = SolvedAction(root)
             /\ UNCHANGED <<cur_s, visited, has_opt, space, labels, sweep>>
    <2>1. answer' # NoAnswer /\ AnswerOK'
      BY <1>1, <1>2, SolvedAnswer DEF teacherVars
    <2>2. Types'
      BY <1>1, <1>2 DEF IInv, Types, teacherVars
    <2>3. Inside'
      BY <1>1, <1>2 DEF IInv, Inside, TrialIsOn
    <2>4. Control'
      BY <1>1, <1>2, <2>1, Returns
    <2> QED BY <2>2, <2>3, <2>4 DEF IInv
  <1>3. CASE StartRound(root) /\ UNCHANGED <<answer, use_as_replanner_, root>>
    <2>1. cur_s' = root /\ pc' = "turn" /\ InitRound
      BY <1>3 DEF StartRound
    <2>2. /\ labels' \in [Owner -> SUBSET State] /\ visited' \in [Owner -> Seq(State)]
          /\ sweep' \in [todo : SUBSET State, far : BOOLEAN, solved : BOOLEAN]
          /\ SpaceOK(space') /\ space' = WholeSpace /\ space'.states = State /\ ~has_opt'
          /\ visited'["opt"] \in Seq(space'.states) /\ visited'["opt"] = visited["opt"]
          /\ sweep'.todo \subseteq space'.states
      BY <2>1, InitRoundFacts
    <2>3. Types'
      BY <1>1, <1>3, <2>2 DEF IInv, Types, teacherVars
    <2>4. Inside'
      BY <1>1, <2>1, <2>2 DEF Inside, TrialIsOn, WholeSpace
    <2>5. Control'
      BY <1>1, <1>3, <2>1, <2>2 DEF IInv, Control, Serving, RoundIsOn, AnswerOK, IsTeacher, teacherVars
    <2> QED BY <2>3, <2>4, <2>5 DEF IInv
  <1> QED BY <1>2, <1>3, Zenon DEF Round

LEMMA RoundEndedKept == ASSUME IInv, RoundEnded, UNCHANGED teacherVars PROVE IInv'
  <1>1. Types'
    BY DEF IInv, Types, RoundEnded, lrtdpVars, teacherVars
  <1>2. Inside'
    BY DEF IInv, Inside, RoundEnded, TrialIsOn, lrtdpVars
  <1>3. call = "none" /\ answer = NoAnswer
    BY DEF IInv, Control, RoundEnded, Serving, RoundIsOn
  <1>4. Control'
    BY <1>3 DEF IInv, Control, RoundEnded, Serving, RoundIsOn, AnswerOK, Asking, IsTeacher, lrtdpVars, teacherVars
  <1> QED BY <1>1, <1>2, <1>4 DEF IInv

LEMMA TurnKept == ASSUME IInv, Turn, UNCHANGED teacherVars PROVE IInv'
  <1>1. /\ pc = "turn" /\ root # NoState /\ root \in State /\ answer = NoAnswer
        /\ cur_s \in space.states /\ cur_s \in State
        /\ Serving /\ Last(todo) = root /\ visited["opt"] = <<>> /\ RoundIsOn /\ ~IsTeacher
        /\ UNCHANGED <<v, answer, planner, space, labels, check, sweep, has_opt, use_as_replanner_, root>>
    BY DEF Turn, IInv, Control, Inside, SpaceOK, Serving, RoundIsOn, TrialIsOn
  <1>2. CASE EndRound /\ cur_s' = NoState /\ UNCHANGED <<ask, visited>>
    <2>1. pc' = "label" /\ labeller' = "lssipp"
      BY <1>2 DEF EndRound
    <2>2. Types'
      BY <1>1, <1>2, <2>1 DEF IInv, Types, teacherVars, Owner
    <2>3. Inside'
      BY <1>1, <1>2, <2>1 DEF IInv, Inside, TrialIsOn
    <2>4. Control'
      BY <1>1, <1>2, <2>1 DEF IInv, Control, Serving, RoundIsOn, AnswerOK, IsTeacher, teacherVars
    <2> QED BY <2>2, <2>3, <2>4 DEF IInv
  <1>3. CASE /\ pc' = "ssipp" /\ ask' = cur_s
             /\ visited' = [visited EXCEPT !["lssipp"] = Append(@, cur_s)]
             /\ cur_s' = NoState /\ UNCHANGED labeller
    <2>1. visited' \in [Owner -> Seq(State)] /\ visited'["opt"] = visited["opt"]
      <3>1. visited \in [Owner -> Seq(State)]
        BY DEF IInv, Types
      <3>2. Append(visited["lssipp"], cur_s) \in Seq(State)
        BY <1>1, <3>1 DEF Owner
      <3> QED BY <1>3, <3>1, <3>2 DEF Owner
    <2>2. Types'
      BY <1>1, <1>3, <2>1 DEF IInv, Types, teacherVars
    <2>3. Inside'
      BY <1>1, <1>3, <2>1 DEF IInv, Inside, TrialIsOn
    <2>4. Control'
      BY <1>1, <1>3 DEF IInv, Control, Serving, RoundIsOn, AnswerOK, IsTeacher, teacherVars
    <2> QED BY <2>2, <2>3, <2>4 DEF IInv
  <1> QED BY <1>2, <1>3, Zenon DEF Turn

LEMMA DeadlineKept ==
    ASSUME IInv, IsTeacher \/ Training, DeadlineReached, UNCHANGED teacherVars
    PROVE  IInv'
  <1>1. /\ Serving /\ pc' = "idle" /\ answer' = Deadline /\ root' = NoState
        /\ check' = NoCheck /\ sweep' = SweepCut
        /\ visited' = [visited EXCEPT !["opt"] = <<>>]
        /\ UNCHANGED <<v, planner, ask, space, labels, labeller, has_opt, use_as_replanner_>>
    BY DEF DeadlineReached, IInv, Control, Serving, RoundIsOn, Training
  <1>2. /\ sweep' \in [todo : SUBSET State, far : BOOLEAN, solved : BOOLEAN]
        /\ sweep'.todo \subseteq space.states
    BY <1>1 DEF SweepCut, NewSweep, IInv, Types, Inside
  <1>3. visited' \in [Owner -> Seq(State)] /\ visited'["opt"] = <<>>
    <2>1. <<>> \in Seq(State)
      OBVIOUS
    <2>2. visited \in [Owner -> Seq(State)]
      BY DEF IInv, Types
    <2> QED BY <1>1, <2>1, <2>2 DEF Owner
  <1>4. Types'
    BY <1>1, <1>2, <1>3 DEF IInv, Types, NoCheck, teacherVars
  <1>5. Inside'
    <2>1. <<>> \in Seq(space.states)
      OBVIOUS
    <2> QED BY <1>1, <1>2, <1>3, <2>1 DEF IInv, Inside, TrialIsOn
  <1>6. Control'
    <2>1. answer' # NoAnswer /\ AnswerOK'
      BY <1>1, ActionsFacts DEF AnswerOK
    <2> QED BY <1>1, <2>1, Returns
  <1> QED BY <1>4, <1>5, <1>6 DEF IInv

LEMMA PlannerStepKept == ASSUME IInv, PlannerStep, UNCHANGED teacherVars PROVE IInv'
  <1>1. CASE SolveStep /\ UNCHANGED <<has_opt, use_as_replanner_, root>>
    <2>1. Rest
      BY <1>1 DEF Rest
    <2> QED BY <1>1, <2>1, StartTrialKept, EndTrialKept, TrialStepKept, LabelKept, CheckNodeKept,
               CheckEndKept, SweepKept DEF SolveStep
  <1> QED BY <1>1, DecideActionKept, RoundKept, RoundEndedKept, TurnKept, SSiPPDecidesKept,
             SolvedKept DEF PlannerStep

-----------------------------------------------------------------------------
(* The callers.                                                            *)

\* A step of the caller that leaves the planner idle.
LEMMA IdleKept ==
    ASSUME IInv, pc = "idle", pc' = "idle", answer' = NoAnswer,
           UNCHANGED <<v, lrtdpVars, has_opt, use_as_replanner_, root>>,
           todo' \in Seq(State), call' # "start",
           call' = "practice" => planner.name = "ssipp",
           call' \in {"rollout", "envelope", "q_values", "trace"} => IsTeacher,
           todo' # <<>> /\ call' \in Asking => Askable(Last(todo'))
    PROVE  IInv'
  <1>1. Types'
    BY DEF IInv, Types, lrtdpVars
  <1>2. Inside'
    BY DEF IInv, Inside, TrialIsOn, lrtdpVars
  <1>3. Control'
    BY DEF IInv, Control, Serving, RoundIsOn, AnswerOK, Askable, IsSolved, GoalsOf, IsTeacher, lrtdpVars
  <1> QED BY <1>1, <1>2, <1>3 DEF IInv

\* The teacher's planner has the whole problem for its space.
LEMMA TeacherAsks ==
    ASSUME IInv, IsTeacher
    PROVE  \A s \in State : Askable(s)
  BY WholeSpaceOK DEF IInv, Inside, Control, Askable

LEMMA TeacherKept ==
    ASSUME IInv, pc = "idle", pc' = "idle", answer' = NoAnswer, IsTeacher,
           UNCHANGED <<v, lrtdpVars, has_opt, use_as_replanner_, root>>,
           todo' \in Seq(State), call' \notin {"start", "practice"}
    PROVE  IInv'
  <1>1. todo' # <<>> => Last(todo') \in State
    BY Ends
  <1> QED BY <1>1, TeacherAsks, IdleKept

\* Without an answer that waits, an idle planner's is NoAnswer.
LEMMA IdleFacts ==
    ASSUME IInv, call \notin Asking, pc = "idle" \/ call # "none"
    PROVE  pc = "idle" /\ answer = NoAnswer
  BY DEF IInv, Control, Serving

\* An action that is answered leads to states the caller may ask about.
LEMMA AnswerFacts ==
    ASSUME IInv, Answered, answer # Deadline
    PROVE  /\ pc = "idle" /\ todo # <<>> /\ todo \in Seq(State) /\ Last(todo) \in State
           /\ Front(todo) \in Seq(State)
           /\ answer # NoAction =>
                 /\ answer \in Range(Applicable[Last(todo)])
                 /\ Succ(Last(todo), answer) \subseteq State
                 /\ \A t \in Succ(Last(todo), answer) : Askable(t)
  <1>1. /\ pc = "idle" /\ todo # <<>> /\ todo \in Seq(State)
        /\ answer # NoAction =>
              /\ answer \in Range(Applicable[Last(todo)])
              /\ \A t \in Succ(Last(todo), answer) : Askable(t)
    BY DEF Answered, IInv, Types, Control, AnswerOK
  <1>2. Last(todo) \in State /\ Front(todo) \in Seq(State)
    BY <1>1, Ends
  <1>3. answer # NoAction => Succ(Last(todo), answer) \subseteq State
    BY <1>1, <1>2, Ahead
  <1> QED BY <1>1, <1>2, <1>3

LEMMA AskPlannerKept == ASSUME IInv, AskPlanner PROVE IInv'
  <1>1. /\ pc = "idle" /\ answer = NoAnswer /\ pc' = "decide" /\ ask' = Last(todo)
        /\ call \in Asking /\ todo # <<>> /\ Askable(Last(todo)) /\ root = NoState
        /\ UNCHANGED <<v, answer, planner, space, labels, labeller, visited, cur_s,
                       check, sweep, has_opt, use_as_replanner_, root>>
        /\ UNCHANGED teacherVars
    BY DEF AskPlanner, Ask, IInv, Control, Asking
  <1>2. Last(todo) \in State
    BY <1>1, Ends DEF IInv, Types
  <1>3. Types'
    BY <1>1 DEF IInv, Types, teacherVars
  <1>4. Inside'
    BY <1>1 DEF IInv, Inside, TrialIsOn
  <1>5. Control'
    BY <1>1, <1>2 DEF IInv, Control, Serving, RoundIsOn, AnswerOK, Askable, IsSolved, GoalsOf,
                      IsTeacher, Asking, teacherVars
  <1> QED BY <1>3, <1>4, <1>5 DEF IInv

LEMMA BeginTraceKept ==
    ASSUME IInv, NEW s \in Roots, NEW method \in {"rollout", "envelope"}, BeginTrace(method, s)
    PROVE  IInv'
  <1>1. /\ IsTeacher /\ pc = "idle" /\ call = "none" /\ UNCHANGED plannerVars
        /\ todo' = <<s>> \/ UNCHANGED todo
        /\ call' \notin {"start", "practice"}
    BY DEF BeginTrace
  <1>2. answer = NoAnswer
    BY <1>1, IdleFacts DEF Asking
  <1>3. todo' \in Seq(State)
    <2>1. s \in State
      BY CallersAssumption
    <2>2. <<s>> \in Seq(State) /\ todo \in Seq(State)
      BY <2>1, SingleSeq DEF IInv, Types
    <2> QED BY <1>1, <2>2
  <1> QED BY <1>1, <1>2, <1>3, TeacherKept DEF plannerVars

LEMMA TimeoutKept == ASSUME IInv, Timeout PROVE IInv'
  <1>1. <<>> \in Seq(State)
    OBVIOUS
  <1> QED BY <1>1, TeacherKept DEF Timeout, Answered, Read

LEMMA RolloutStepKept == ASSUME IInv, RolloutStep PROVE IInv'
  <1>1. /\ Answered /\ answer # Deadline /\ Read /\ call = "rollout" /\ UNCHANGED call
        /\ \/ todo' = <<>>
           \/ answer # NoAction /\ \E t \in Succ(Last(todo), answer) : todo' = <<t>>
    BY DEF RolloutStep
  <1>2. todo' \in Seq(State)
    <2>1. <<>> \in Seq(State)
      OBVIOUS
    <2> QED BY <1>1, <2>1, AnswerFacts, SingleSeq
  <1>3. IsTeacher
    BY <1>1 DEF IInv, Control
  <1> QED BY <1>1, <1>2, <1>3, TeacherKept DEF Answered, Read

LEMMA EnvelopeStepKept == ASSUME IInv, EnvelopeStep PROVE IInv'
  <1> DEFINE new == IF answer = NoAction THEN {} ELSE Succ(Last(todo), answer) \ seen
  <1>1. /\ Answered /\ answer # Deadline /\ Read /\ call = "envelope" /\ UNCHANGED call
        /\ todo' = Front(todo) \o SetToSeq(new)
    BY Zenon DEF EnvelopeStep
  <1>2. new \subseteq State /\ Front(todo) \in Seq(State)
    BY <1>1, AnswerFacts
  <1> HIDE DEF new
  <1>3. SetToSeq(new) \in Seq(State)
    <2>1. IsFiniteSet(new)
      BY <1>2, TaskAssumption, FS_Subset
    <2>2. SetToSeq(new) \in Seq(new)
      BY <2>1, SetToSeqFacts
    <2> QED BY <1>2, <2>2
  <1>4. todo' \in Seq(State)
    BY <1>1, <1>2, <1>3
  <1>5. IsTeacher
    BY <1>1 DEF IInv, Control
  <1> QED BY <1>1, <1>4, <1>5, TeacherKept DEF Answered, Read

LEMMA ListedKept == ASSUME IInv, Listed PROVE IInv'
  <1>1. /\ IsTeacher /\ pc = "idle" /\ answer = NoAnswer
        /\ UNCHANGED plannerVars /\ UNCHANGED todo /\ call' = "trace"
    BY DEF Listed, IInv, Control
  <1>2. todo' \in Seq(State)
    BY <1>1 DEF IInv, Types
  <1> QED BY <1>1, <1>2, TeacherKept DEF plannerVars

LEMMA QValuesKept == ASSUME IInv, NEW s \in State, QValues(s) PROVE IInv'
  <1>1. /\ call = "trace" /\ UNCHANGED plannerVars /\ call' \in {"none", "trace", "q_values"}
        /\ \/ UNCHANGED todo
           \/ \E a \in Range(Applicable[s]) : todo' = SetToSeq(Succ(s, a)) \o <<s>>
    <2> DEFINE missing == {a \in Range(Applicable[s]) : _qv_cache[<<s, a>>] = NoQ}
    <2>1. /\ call = "trace" /\ UNCHANGED plannerVars
          /\ \/ call' = "none" /\ UNCHANGED todo
             \/ call' = call /\ UNCHANGED todo
             \/ /\ missing # {} /\ call' = "q_values"
                /\ act' = (CHOOSE a \in missing : TRUE)
                /\ todo' = SetToSeq(Succ(s, act')) \o <<s>>
      BY Zenon DEF QValues
    <2>2. missing # {} => (CHOOSE a \in missing : TRUE) \in Range(Applicable[s])
      OBVIOUS
    <2> HIDE DEF missing
    <2> QED BY <2>1, <2>2
  <1>2. IsTeacher /\ pc = "idle" /\ answer = NoAnswer
    BY <1>1, IdleFacts DEF IInv, Control, Asking
  <1>3. todo' \in Seq(State)
    <2>1. ASSUME NEW a \in Range(Applicable[s]) PROVE SetToSeq(Succ(s, a)) \o <<s>> \in Seq(State)
      <3>1. Succ(s, a) \subseteq State
        BY Ahead
      <3>2. IsFiniteSet(Succ(s, a))
        BY <3>1, TaskAssumption, FS_Subset
      <3>3. SetToSeq(Succ(s, a)) \in Seq(Succ(s, a))
        BY <3>2, SetToSeqFacts
      <3>4. SetToSeq(Succ(s, a)) \in Seq(State) /\ <<s>> \in Seq(State)
        BY <3>1, <3>3
      <3> QED BY <3>4
    <2> QED BY <1>1, <2>1 DEF IInv, Types
  <1> QED BY <1>1, <1>2, <1>3, TeacherKept DEF plannerVars

LEMMA TraceDoneKept == ASSUME IInv, TraceDone PROVE IInv'
  <1>1. IsTeacher /\ pc = "idle" /\ answer = NoAnswer
    BY IdleFacts DEF TraceDone, IInv, Control, Asking
  <1>2. UNCHANGED plannerVars /\ todo' \in Seq(State) /\ call' = "none"
    BY DEF TraceDone, IInv, Types
  <1> QED BY <1>1, <1>2, TeacherKept DEF plannerVars

LEMMA QValueStepKept == ASSUME IInv, QValueStep PROVE IInv'
  <1>1. /\ Answered /\ answer # Deadline /\ Read /\ call = "q_values" /\ todo' = Front(todo)
        /\ call' \in {"value_error", "q_values", "trace"}
    <2> DEFINE first == Len(todo) = Cardinality(Succ(asked, act)) + 1
               error == first /\ answer = NoAction
    <2>1. /\ Answered /\ answer # Deadline /\ Read /\ call = "q_values" /\ todo' = Front(todo)
          /\ call' = CASE error -> "value_error"
                       [] ~error /\ Len(todo) > 1 -> "q_values"
                       [] OTHER -> "trace"
      BY Zenon DEF QValueStep
    <2> HIDE DEF error
    <2> QED BY <2>1, Zenon
  <1>2. IsTeacher
    BY <1>1 DEF IInv, Control
  <1>3. todo' \in Seq(State)
    BY <1>1, AnswerFacts
  <1> QED BY <1>1, <1>2, <1>3, TeacherKept DEF Answered, Read

LEMMA TrainKept == ASSUME IInv, Train \/ NoTraining PROVE IInv'
  <1>1. pc = "idle" /\ answer = NoAnswer /\ ~has_opt
    BY IdleFacts DEF Train, NoTraining, IInv, Control, Asking
  <1>2. s0 \in State /\ Askable(s0)
    BY <1>1, WholeSpaceOK, CallersAssumption DEF IInv, Inside, Askable
  <1>3. CASE Train
    <2>1. /\ UNCHANGED plannerVars
          /\ \/ call' = "training" /\ todo' = <<s0>>
             \/ call' = "practice" /\ planner.name = "ssipp" /\ UNCHANGED todo
      BY <1>3 DEF Train
    <2>2. CASE call' = "training" /\ todo' = <<s0>>
      <3>1. todo' \in Seq(State) /\ Last(todo') = s0
        BY <1>2, <2>2, SingleSeq DEF Last
      <3> QED BY <1>1, <1>2, <2>1, <2>2, <3>1, IdleKept DEF plannerVars
    <2>3. CASE call' = "practice" /\ planner.name = "ssipp" /\ UNCHANGED todo
      <3>1. todo' \in Seq(State) /\ (todo' # <<>> => Last(todo') \in State)
        BY <2>3, Ends DEF IInv, Types
      <3>2. todo' # <<>> => Askable(Last(todo'))
        BY <1>1, <3>1, WholeSpaceOK DEF IInv, Inside, Askable
      <3> QED BY <1>1, <2>1, <2>3, <3>1, <3>2, IdleKept DEF plannerVars
    <2> QED BY <2>1, <2>2, <2>3
  <1>4. CASE NoTraining
    <2>1. todo' \in Seq(State) /\ call' = "none" /\ UNCHANGED plannerVars
      BY <1>4 DEF NoTraining, IInv, Types
    <2> QED BY <1>1, <2>1, IdleKept DEF plannerVars, Asking
  <1> QED BY <1>3, <1>4

LEMMA SimulateRoundKept == ASSUME IInv, SimulateRound PROVE IInv'
  <1>1. /\ ~IsTeacher /\ pc = "idle" /\ todo' = <<s0>> /\ InitRound
        /\ \/ call = "none" /\ call' = "round"
           \/ call = "practice" /\ todo = <<>> /\ UNCHANGED call
        /\ UNCHANGED <<v, pc, answer, planner, ask, labeller, cur_s, check, use_as_replanner_, root>>
    BY DEF SimulateRound
  <1>2. /\ labels' \in [Owner -> SUBSET State] /\ visited' \in [Owner -> Seq(State)]
        /\ sweep' \in [todo : SUBSET State, far : BOOLEAN, solved : BOOLEAN]
        /\ SpaceOK(space') /\ space' = WholeSpace /\ space'.states = State /\ ~has_opt'
        /\ visited'["opt"] \in Seq(space'.states) /\ visited'["opt"] = visited["opt"]
        /\ sweep'.todo \subseteq space'.states
    BY <1>1, InitRoundFacts
  <1>3. s0 \in State /\ todo' \in Seq(State) /\ Last(todo') = s0 /\ todo' # <<>>
    <2>1. s0 \in State
      BY CallersAssumption
    <2> QED BY <1>1, <2>1, SingleSeq DEF Last
  <1>4. answer = NoAnswer /\ root = NoState /\ visited["opt"] = <<>>
    BY <1>1, IdleFacts DEF IInv, Control, Inside, TrialIsOn, Asking
  <1>5. Types'
    BY <1>1, <1>2, <1>3 DEF IInv, Types
  <1>6. Inside'
    BY <1>1, <1>2, <1>4 DEF Inside, TrialIsOn
  <1>7. call' = "practice" => planner'.name = "ssipp"
    BY <1>1 DEF IInv, Control
  <1>8. Control'
    BY <1>1, <1>2, <1>3, <1>4, <1>7 DEF Control, Serving, RoundIsOn, AnswerOK, Askable, IsTeacher, Asking
  <1> QED BY <1>5, <1>6, <1>8 DEF IInv

LEMMA RoundStepKept == ASSUME IInv, RoundStep PROVE IInv'
  <1>1. /\ Answered /\ answer # Deadline /\ answer' = NoAnswer /\ pc = "idle"
        /\ UNCHANGED <<v, planner, ask, space, labels, visited, cur_s, check, sweep,
                       has_opt, use_as_replanner_, root>>
    BY DEF RoundStep, Answered
  <1>2. <<>> \in Seq(State)
    OBVIOUS
  <1>3. CASE /\ answer # NoAction /\ call \in {"practice", "round"}
             /\ \E t \in Succ(Last(todo), answer) : todo' = <<t>>
             /\ UNCHANGED <<pc, labeller, call>>
    <2>1. PICK t \in Succ(Last(todo), answer) : todo' = <<t>>
      BY <1>3
    <2>2. t \in State /\ Askable(t)
      BY <1>1, <1>3, AnswerFacts
    <2>3. todo' \in Seq(State) /\ Last(todo') = t
      BY <2>1, <2>2, SingleSeq DEF Last
    <2>4. call' = "practice" => planner.name = "ssipp"
      BY <1>3 DEF IInv, Control
    <2> QED BY <1>1, <1>3, <2>2, <2>3, <2>4, IdleKept DEF lrtdpVars
  <1>4. CASE call = "round" /\ LeaveRound
    <2>1. CASE planner.name = "labeledssipp"
      <3>1. pc' = "label" /\ labeller' = "lssipp" /\ todo' = <<>> /\ call' = "none"
        BY <1>4, <2>1 DEF LeaveRound, EndRound
      <3>2. root = NoState /\ ~IsTeacher /\ visited["opt"] = <<>>
        BY <1>1, <2>1 DEF IInv, Control, Inside, TrialIsOn, IsTeacher
      <3>3. Types'
        BY <1>1, <1>2, <3>1 DEF IInv, Types, Owner
      <3>4. Inside'
        BY <1>1, <3>1, <3>2 DEF IInv, Inside, TrialIsOn
      <3>5. Control'
        BY <1>1, <3>1, <3>2 DEF IInv, Control, Serving, RoundIsOn, AnswerOK, IsTeacher, Asking
      <3> QED BY <3>3, <3>4, <3>5 DEF IInv
    <2>2. CASE planner.name # "labeledssipp"
      <3>1. pc' = "idle" /\ UNCHANGED labeller /\ todo' = <<>> /\ call' = "none"
        BY <1>4, <2>2 DEF LeaveRound
      <3> QED BY <1>1, <1>2, <3>1, IdleKept DEF lrtdpVars
    <2> QED BY <2>1, <2>2
  <1>5. CASE /\ todo' = <<>> /\ UNCHANGED <<pc, labeller>>
             /\ call' = "none" \/ (call = "practice" /\ UNCHANGED call)
    <2>1. call' = "practice" => planner.name = "ssipp"
      BY <1>5 DEF IInv, Control
    <2> QED BY <1>1, <1>2, <1>5, <2>1, IdleKept DEF lrtdpVars
  <1> QED BY <1>3, <1>4, <1>5, Zenon DEF RoundStep

LEMMA TrainingCutKept == ASSUME IInv, TrainingCut PROVE IInv'
  <1>1. <<>> \in Seq(State)
    OBVIOUS
  <1> QED BY <1>1, IdleKept DEF TrainingCut, Answered, Read

-----------------------------------------------------------------------------
(* The theorems about values and spaces.                                   *)

LEMMA InitIInv == Init => IInv
  <1> SUFFICES ASSUME Init PROVE IInv
    OBVIOUS
  <1>1. PICK h \in Heuristics, p \in Planners : CreatePlanner(h, p)
    BY DEF Init
  <1>2. /\ v = h /\ planner = p /\ planner \in Planners
        /\ pc = "idle" /\ answer = NoAnswer /\ space = WholeSpace /\ labeller = "opt"
        /\ labels = [k \in Owner |-> {}] /\ visited = [k \in Owner |-> <<>>]
        /\ check = NoCheck /\ sweep = NewSweep
        /\ ~has_opt /\ root = NoState /\ todo = <<>>
        /\ call = IF IsTeacher THEN "none" ELSE "start"
    BY <1>1 DEF CreatePlanner, Init
  <1>3. v \in Bounded
    BY <1>2, ValuesAssumption DEF Bounded
  <1>4. <<>> \in Seq(State) /\ <<>> \in Seq(space.states)
    OBVIOUS
  <1>5. Types
    BY <1>2, <1>3, <1>4 DEF Types, Owner, NoCheck, NewSweep
  <1>6. Inside
    BY <1>2, <1>4, WholeSpaceOK DEF Inside, TrialIsOn, Owner, NewSweep
  <1>7. Control
    BY <1>2 DEF Control, Serving, RoundIsOn, AnswerOK, Asking
  <1> QED BY <1>5, <1>6, <1>7 DEF IInv

LEMMA NextIInv == IInv /\ [Next]_vars => IInv'
  <1> SUFFICES ASSUME IInv, [Next]_vars PROVE IInv'
    OBVIOUS
  <1>1. CASE UNCHANGED vars
    <2>1. UNCHANGED plannerVars /\ UNCHANGED teacherVars
      BY <1>1 DEF vars
    <2>2. Types'
      BY <2>1 DEF IInv, Types, plannerVars, lrtdpVars, teacherVars
    <2>3. Inside'
      BY <2>1 DEF IInv, Inside, TrialIsOn, plannerVars, lrtdpVars
    <2>4. Control'
      BY <2>1 DEF IInv, Control, Serving, RoundIsOn, AnswerOK, Askable, IsSolved, GoalsOf, IsTeacher,
                  plannerVars, lrtdpVars, teacherVars
    <2> QED BY <2>2, <2>3, <2>4 DEF IInv
  <1>2. CASE PlannerStep /\ UNCHANGED teacherVars
    BY <1>2, PlannerStepKept
  <1>3. CASE (IsTeacher \/ Training) /\ DeadlineReached /\ UNCHANGED teacherVars
    BY <1>3, DeadlineKept
  <1>4. ASSUME NEW s \in Roots, ExpertPolicyRollout(s) \/ ExtractPolicyEnvelope(s) PROVE IInv'
    BY <1>4, BeginTraceKept DEF ExpertPolicyRollout, ExtractPolicyEnvelope
  <1>5. ASSUME NEW s \in State, QValues(s) PROVE IInv'
    BY <1>5, QValuesKept
  <1> QED BY <1>1, <1>2, <1>3, <1>4, <1>5, AskPlannerKept, TimeoutKept, RolloutStepKept,
             EnvelopeStepKept, ListedKept, TraceDoneKept, QValueStepKept, TrainKept,
             SimulateRoundKept, RoundStepKept, TrainingCutKept DEF Next

\* Types, Inside and Control hold in every state that is reached.
THEOREM SpecIInv == Spec => []IInv
  BY InitIInv, NextIInv, PTL DEF Spec

\* Admissible: with a heuristic that is a lower bound, no backup of any planner
\* raises a value above the solution of the Bellman equation.
THEOREM AdmissibleThm == Spec => []Admissible
  <1>1. IInv => Admissible
    BY DEF IInv, Types, Bounded, Admissible
  <1> QED BY <1>1, SpecIInv, PTL

\* InsideSpace: SSiPP is only asked about states of the short-sighted SSP that
\* it holds.
THEOREM InsideSpaceThm == Spec => []InsideSpace
  <1>1. IInv => InsideSpace
    BY DEF IInv, Inside, InsideSpace
  <1> QED BY <1>1, SpecIInv, PTL

-----------------------------------------------------------------------------
(* The labels: from a state that is solved an action leads to states that  *)
(* are accepted, those that are solved and the goals.                      *)

\* A Q-value depends on the values of the successors.
LEMMA SameQValue ==
    ASSUME NEW h, NEW h2, NEW goals, NEW s, NEW a,
           \A t \in Succ(s, a) : h2[t] = h[t]
    PROVE  QValue(h2, goals, s, a) = QValue(h, goals, s, a)
  <1> DEFINE W == Outcome[<<s, a>>]
             f == [t \in Succ(s, a) |-> W[t] * Worth(h, goals, t)]
             g == [t \in Succ(s, a) |-> W[t] * Worth(h2, goals, t)]
  <1>1. \A t \in Succ(s, a) : Worth(h2, goals, t) = Worth(h, goals, t)
    BY DEF Worth, TerminalCost
  <1>2. f = g
    <2> HIDE DEF W
    <2> QED BY <1>1
  <1>3. /\ QValue(h, goals, s, a) =
             Min({Cost[<<s, a>>] + SumFunction(f) \div One, dead_end_value})
        /\ QValue(h2, goals, s, a) =
             Min({Cost[<<s, a>>] + SumFunction(g) \div One, dead_end_value})
    BY Zenon DEF QValue, Worth, W
  <1> HIDE DEF f, g
  <1> QED BY <1>2, <1>3

\* An action that is no dead end leads to accepted states only.
Way(h, goals, s, accepted) ==
    /\ s \notin goals
    /\ \E a \in Range(Applicable[s]) :
          Succ(s, a) \subseteq accepted /\ QValue(h, goals, s, a) < dead_end_value

LEMMA WayKept ==
    ASSUME NEW h, NEW h2, NEW goals, NEW s, NEW accepted, NEW more,
           Way(h, goals, s, accepted), accepted \subseteq more,
           \A t \in accepted : h2[t] = h[t]
    PROVE  Way(h2, goals, s, more)
  <1>1. PICK a \in Range(Applicable[s]) :
           Succ(s, a) \subseteq accepted /\ QValue(h, goals, s, a) < dead_end_value
    BY DEF Way
  <1>2. QValue(h2, goals, s, a) = QValue(h, goals, s, a)
    BY <1>1, SameQValue
  <1> QED BY <1>1, <1>2 DEF Way

\* decideAction finds such an action when there is one.
LEMMA WayIsFound ==
    ASSUME NEW h \in Bounded, NEW goals, NEW s \in State, NEW accepted
    PROVE  ConstGreedyAction(h, goals, s, accepted) # NoAction <=> Way(h, goals, s, accepted)
  <1>1. Range(Applicable[s]) \subseteq Action /\ NoAction \notin Action /\ dead_end_value \in Nat
    BY TaskAssumption, ActionsFacts
  <1>2. CASE s \in goals \/ Applicable[s] = <<>>
    <2>1. Applicable[s] = <<>> => Range(Applicable[s]) = {}
      BY DEF Range
    <2> QED BY <1>2, <2>1 DEF ConstGreedyAction, Way
  <1>3. CASE ~(s \in goals \/ Applicable[s] = <<>>)
    <2> DEFINE q == [a \in Range(Applicable[s]) |->
                       IF Succ(s, a) \subseteq accepted THEN QValue(h, goals, s, a)
                       ELSE dead_end_value]
               b == FirstBest(s, q)
    <2>1. q \in [Range(Applicable[s]) -> Nat]
      BY <1>1, QValueMonotone
    <2>2. ConstGreedyAction(h, goals, s, accepted) = b.action
      BY <1>3, Zenon DEF ConstGreedyAction
    <2>3. \A a \in Range(Applicable[s]) : q[a] =
             IF Succ(s, a) \subseteq accepted THEN QValue(h, goals, s, a) ELSE dead_end_value
      OBVIOUS
    <2> HIDE DEF q
    <2>4. Best(b, s, q)
      BY <2>1, FirstBestFacts
    <2> HIDE DEF b
    <2>5. ASSUME b.action # NoAction PROVE Way(h, goals, s, accepted)
      <3>1. b.action \in Range(Applicable[s]) /\ q[b.action] < dead_end_value
        BY <2>4, <2>5 DEF Best
      <3>2. q[b.action] # dead_end_value
        BY <1>1, <3>1
      <3>3. Succ(s, b.action) \subseteq accepted /\ q[b.action] = QValue(h, goals, s, b.action)
        BY <2>3, <3>1, <3>2
      <3> QED BY <1>3, <3>1, <3>3 DEF Way
    <2>6. ASSUME Way(h, goals, s, accepted) PROVE b.action # NoAction
      <3>1. PICK a \in Range(Applicable[s]) :
               Succ(s, a) \subseteq accepted /\ QValue(h, goals, s, a) < dead_end_value
        BY <2>6 DEF Way
      <3>2. q[a] < dead_end_value /\ q[a] \in Nat /\ b.value <= q[a] /\ b.value \in Nat
        BY <2>1, <2>3, <2>4, <3>1 DEF Best
      <3>3. b.value # dead_end_value
        BY <1>1, <3>2
      <3>4. b.action \in Range(Applicable[s])
        BY <2>4, <3>3 DEF Best
      <3> QED BY <1>1, <3>4
    <2> QED BY <2>2, <2>5, <2>6
  <1> QED BY <1>2, <1>3

\* A state without a greedy action cannot be solved, and a greedy action is a
\* way to its successors.
LEMMA GreedyFacts ==
    ASSUME NEW h \in Bounded, NEW goals, NEW s \in State \ goals, Goal \cap {s} \subseteq goals,
           NEW accepted
    PROVE  LET a == Greedy(h, goals, s).action IN
           /\ a = NoAction => ~Solvable(s)
           /\ a # NoAction /\ Succ(s, a) \subseteq accepted => Way(h, goals, s, accepted)
  <1> DEFINE q == [a \in Range(Applicable[s]) |-> QValue(h, goals, s, a)]
             b == Greedy(h, goals, s)
  <1>1. Range(Applicable[s]) \subseteq Action /\ NoAction \notin Action /\ dead_end_value \in Nat
    BY TaskAssumption, ActionsFacts
  <1>2. q \in [Range(Applicable[s]) -> Nat]
    BY QValueMonotone
  <1>3. b = FirstBest(s, q)
    BY Zenon DEF Greedy
  <1>4. \A a \in Range(Applicable[s]) : q[a] = QValue(h, goals, s, a)
    OBVIOUS
  <1>5. b.value \in Nat /\ b.value <= Optimal[s] /\ Optimal[s] \in Nat
    BY GreedyMonotone, ValuesAssumption
  <1> HIDE DEF q
  <1>6. Best(b, s, q)
    <2> HIDE DEF b
    <2> QED BY <1>2, <1>3, FirstBestFacts
  <1> HIDE DEF b
  <1>7. ASSUME b.action = NoAction PROVE ~Solvable(s)
    <2>1. b.value = dead_end_value
      BY <1>1, <1>6, <1>7 DEF Best
    <2> QED BY <1>1, <1>5, <2>1 DEF Solvable
  <1>8. ASSUME b.action # NoAction, Succ(s, b.action) \subseteq accepted
        PROVE  Way(h, goals, s, accepted)
    <2>1. b.action \in Range(Applicable[s]) /\ q[b.action] < dead_end_value
      BY <1>6, <1>8 DEF Best
    <2> QED BY <1>4, <1>8, <2>1 DEF Way
  <1> QED BY <1>7, <1>8 DEF b

\* The labels of k that hold for good: during a check, the dead ends that it
\* has met are labelled already, but it may still change their values.
Settled(k) == IF pc = "check" /\ labeller = k THEN labels[k] \ Range(check.closed)
              ELSE labels[k]
Accepted(k) == GoalsOf(k) \cup Settled(k)
Sound(k) ==
    /\ labels[k] \cap GoalsOf(k) = {}
    /\ \A s \in labels[k] : Solvable(s) =>
          s \in Settled(k) /\ Way(v, GoalsOf(k), s, Accepted(k))

\* A check meets no state that is accepted; as long as all residuals are small
\* the states it has closed have a way to states it has closed or will close.
Nodes == Range(check.open) \cup Range(check.closed)
Checked(k) ==
    pc = "check" /\ labeller = k =>
    /\ Nodes \cap Accepted(k) = {}
    /\ check.rv => \A s \in Range(check.closed) : Solvable(s) =>
          Way(v, GoalsOf(k), s, GoalsOf(k) \cup labels[k] \cup Nodes)
Valid(k) == Sound(k) /\ Checked(k)

\* The labels of the optimal planner inside Labeled SSiPP are good as long as
\* it plans, and until the next turn of a round that a client plays.
Fresh ==
    planner.name = "labeledssipp" /\ has_opt =>
        \/ pc \in {"turn", "ssipp", "solve"} \/ TrialIsOn
        \/ pc \in {"idle", "decide"} /\ call = "round" /\ use_as_replanner_

\* The states that Labeled SSiPP has solved are fringe of the space it holds.
Fringed ==
    planner.name = "labeledssipp" /\ has_opt /\ Fresh =>
        labels["lssipp"] \cap space.states \subseteq space.fringe

\* Which planner has which labels, and when.
Phases ==
    /\ planner.name # "labeledssipp" => labels["lssipp"] = {} /\ ~RoundIsOn
    /\ planner.name # "opt" /\ (TrialIsOn \/ pc = "solve") => has_opt
    /\ ~has_opt /\ planner.name # "opt" => labels["opt"] = {}
    /\ planner.name = "labeledssipp" /\ call = "training"
          /\ (pc = "decide" \/ (pc = "idle" /\ answer = NoAnswer)) => ~has_opt

Labelling == Phases /\ Fringed /\ Valid("lssipp") /\ (Fresh => Valid("opt"))

\* A step keeps what the solved states of k rely on.
Keeps(k) ==
    /\ GoalsOf(k)' = GoalsOf(k) /\ Settled(k) \subseteq Settled(k)'
    /\ \A t \in Accepted(k) : v'[t] = v[t]

\* So the ways to accepted states are kept, and the labels stay sound when the
\* new ones are.
LEMMA WaysKept ==
    ASSUME NEW k \in Owner, Keeps(k), NEW s, Way(v, GoalsOf(k), s, Accepted(k))
    PROVE  Way(v', GoalsOf(k)', s, Accepted(k)')
  <1>1. Accepted(k) \subseteq Accepted(k)' /\ GoalsOf(k)' = GoalsOf(k)
    BY DEF Keeps, Accepted
  <1>2. \A t \in Accepted(k) : v'[t] = v[t]
    BY DEF Keeps
  <1> QED BY <1>1, <1>2, WayKept

LEMMA SoundKept ==
    ASSUME NEW k \in Owner, Sound(k), Keeps(k), labels[k] \subseteq labels'[k],
           \A s \in labels'[k] \ labels[k] :
              /\ s \notin GoalsOf(k)
              /\ Solvable(s) => s \in Settled(k)' /\ Way(v', GoalsOf(k)', s, Accepted(k)')
    PROVE  Sound(k)'
  <1>1. labels'[k] \cap GoalsOf(k)' = {}
    BY DEF Sound, Keeps
  <1>2. ASSUME NEW s \in labels'[k], Solvable(s)
        PROVE  s \in Settled(k)' /\ Way(v', GoalsOf(k)', s, Accepted(k)')
    <2>1. CASE s \in labels[k]
      <3>1. s \in Settled(k) /\ Way(v, GoalsOf(k), s, Accepted(k))
        BY <1>2, <2>1 DEF Sound
      <3> QED BY <3>1, WaysKept DEF Keeps
    <2> QED BY <1>2, <2>1
  <1> QED BY <1>1, <1>2 DEF Sound, Solvable

LEMMA NoLabels ==
    ASSUME NEW k \in Owner, labels'[k] = {}
    PROVE  Sound(k)'
  BY DEF Sound

\* Steps that leave values, labels and the space alone, but for a check that
\* ends, and steps that delete the labels of the optimal planner.
LEMMA LabelsAlone ==
    ASSUME Labelling, UNCHANGED <<v, planner, space, labels, has_opt>>, pc' # "check",
           Fresh' => Fresh, Phases'
    PROVE  Labelling' /\ Keeps("opt")
  <1>1. ASSUME NEW k \in Owner PROVE Keeps(k) /\ (Valid(k) => Valid(k)')
    <2>1. Keeps(k)
      BY DEF Keeps, Settled, GoalsOf
    <2>2. Checked(k)'
      BY DEF Checked
    <2>3. Sound(k) => Sound(k)'
      BY <2>1, SoundKept
    <2> QED BY <2>1, <2>2, <2>3 DEF Valid
  <1>2. "opt" \in Owner /\ "lssipp" \in Owner
    BY DEF Owner
  <1>3. Fringed'
    BY DEF Labelling, Fringed
  <1> QED BY <1>1, <1>2, <1>3 DEF Labelling

LEMMA LabelsDeleted ==
    ASSUME Types, Labelling, UNCHANGED <<v, planner>>, labels' = [labels EXCEPT !["opt"] = {}],
           pc # "check", pc' # "check", Phases',
           has_opt' /\ planner.name = "labeledssipp" =>
              labels["lssipp"] \cap space'.states \subseteq space'.fringe
    PROVE  Labelling'
  <1>1. "opt" \in Owner /\ "lssipp" \in Owner
    BY DEF Owner
  <1>2. labels'["opt"] = {} /\ labels'["lssipp"] = labels["lssipp"]
    BY DEF Types, Owner
  <1>3. Keeps("lssipp")
    BY <1>2 DEF Keeps, Settled, GoalsOf
  <1>4. Sound("lssipp")' /\ Sound("opt")'
    BY <1>1, <1>2, <1>3, SoundKept, NoLabels DEF Labelling, Valid
  <1>5. Checked("lssipp")' /\ Checked("opt")'
    BY DEF Checked
  <1>6. Fringed'
    BY <1>2 DEF Fringed
  <1> QED BY <1>4, <1>5, <1>6 DEF Labelling, Valid

\* The optimal planner inside Labeled SSiPP, on a state that is not fringe, is
\* away from the states that Labeled SSiPP has solved.
LEMMA OffLabels ==
    ASSUME IInv, Labelling, TrialIsOn, NEW s \in space.states \ space.fringe
    PROVE  s \in State /\ s \notin Goal /\ s \notin labels["lssipp"]
  <1>1. s \in State /\ s \notin Goal
    BY DEF IInv, Inside, SpaceOK
  <1>2. planner.name = "labeledssipp" => s \notin labels["lssipp"]
    BY DEF Labelling, Phases, Fringed, Fresh
  <1>3. planner.name # "labeledssipp" => s \notin labels["lssipp"]
    BY DEF Labelling, Phases
  <1> QED BY <1>1, <1>2, <1>3

\* Labelling is kept, one lemma for each step; most steps keep what the labels
\* of the optimal planner rely on as well.
LEMMA StartTrialLab == ASSUME IInv, Labelling, StartTrial, Rest PROVE Labelling' /\ Keeps("opt")
  <1>1. Phases'
    BY DEF Labelling, Phases, StartTrial, Rest, TrialIsOn, RoundIsOn, teacherVars
  <1>2. Fresh' => Fresh
    BY DEF StartTrial, Fresh
  <1> QED BY <1>1, <1>2, LabelsAlone DEF StartTrial, Rest

LEMMA EndTrialLab == ASSUME IInv, Labelling, EndTrial, Rest PROVE Labelling' /\ Keeps("opt")
  <1>1. /\ pc = "trial" /\ pc' = "label" /\ labeller' = "opt" /\ TrialIsOn
        /\ UNCHANGED <<v, planner, answer, ask, space, visited, check, sweep>>
        /\ \/ UNCHANGED labels
           \/ /\ cur_s \notin space.fringe /\ v[cur_s] >= dead_end_value
              /\ labels' = [labels EXCEPT !["opt"] = @ \cup {cur_s}]
    BY DEF EndTrial, TrialIsOn
  <1>2. "opt" \in Owner /\ "lssipp" \in Owner /\ labels \in [Owner -> SUBSET State]
    BY DEF Owner, IInv, Types
  <1>3. labels'["lssipp"] = labels["lssipp"]
    BY <1>1, <1>2
  <1>4. Keeps("opt") /\ Keeps("lssipp") /\ labels["opt"] \subseteq labels'["opt"]
    BY <1>1, <1>2, <1>3 DEF Keeps, Settled, GoalsOf
  <1>5. ASSUME NEW s \in labels'["opt"] \ labels["opt"]
        PROVE  s \notin GoalsOf("opt") /\ ~Solvable(s)
    <2>1. s = cur_s /\ s \notin space.fringe /\ v[s] >= dead_end_value
      BY <1>1, <1>2, <1>5
    <2>2. s \in State /\ v \in Bounded
      BY <1>1, <2>1 DEF IInv, Types, Inside, SpaceOK
    <2>3. v[s] <= Optimal[s] /\ v[s] \in Nat /\ Optimal[s] \in Nat /\ dead_end_value \in Nat
      BY <2>2, ValuesAssumption, TaskAssumption DEF Bounded
    <2> QED BY <2>1, <2>3 DEF GoalsOf, Solvable
  <1>6. Fresh /\ Sound("opt") /\ Sound("lssipp")
    BY <1>1 DEF Labelling, Valid, Fresh
  <1>7. Sound("opt")' /\ Sound("lssipp")'
    BY <1>2, <1>3, <1>4, <1>5, <1>6, SoundKept
  <1>8. Checked("opt")' /\ Checked("lssipp")'
    BY <1>1 DEF Checked
  <1>9. Phases'
    BY <1>1, <1>3 DEF Labelling, Phases, Rest, TrialIsOn, RoundIsOn, teacherVars
  <1>10. Fringed'
    BY <1>1, <1>3, <1>6 DEF Labelling, Fringed, Rest
  <1> QED BY <1>4, <1>7, <1>8, <1>9, <1>10 DEF Labelling, Valid

LEMMA TrialStepLab ==
    ASSUME IInv, IInv', Labelling, TrialStep, Rest PROVE Labelling' /\ Keeps("opt")
  <1> DEFINE a == Greedy(v, space.fringe, cur_s).action
             x == Min({Greedy(v, space.fringe, cur_s).value, dead_end_value})
  <1>1. /\ pc = "trial" /\ pc' \in {"trial", "label"} /\ TrialIsOn /\ TrialIsOn'
        /\ v' = [v EXCEPT ![cur_s] = x]
        /\ UNCHANGED <<planner, answer, ask, space, check, sweep>>
        /\ \/ UNCHANGED labels
           \/ a = NoAction /\ labels' = [labels EXCEPT !["opt"] = @ \cup {cur_s}]
    BY DEF TrialStep, TrialIsOn, Update
  <1>2. "opt" \in Owner /\ "lssipp" \in Owner /\ labels \in [Owner -> SUBSET State] /\ v \in Bounded
    BY DEF Owner, IInv, Types
  <1>3. /\ cur_s \in space.states \ space.fringe /\ cur_s \notin Accepted("opt")
        /\ cur_s \notin Accepted("lssipp") /\ cur_s \in State /\ cur_s \notin Goal
    <2>1. cur_s \in space.states \ space.fringe /\ cur_s \notin Accepted("opt")
      BY <1>1 DEF TrialStep, TrialOver, IsSolved, GoalsOf, IInv, Inside, Accepted, Settled
    <2> QED BY <1>1, <2>1, OffLabels DEF Accepted, Settled, GoalsOf
  <1>4. labels'["lssipp"] = labels["lssipp"]
    BY <1>1, <1>2
  <1>5. \A t : t # cur_s => v'[t] = v[t]
    BY <1>1, <1>2 DEF Bounded
  <1>6. Keeps("opt") /\ Keeps("lssipp") /\ labels["opt"] \subseteq labels'["opt"]
    <2>1. \A k \in Owner : GoalsOf(k)' = GoalsOf(k)
      BY <1>1 DEF GoalsOf
    <2>2. Settled("opt") \subseteq Settled("opt")' /\ Settled("lssipp") \subseteq Settled("lssipp")'
      BY <1>1, <1>2, <1>4 DEF Settled
    <2> QED BY <1>1, <1>2, <1>3, <1>5, <2>1, <2>2 DEF Keeps
  <1>7. ASSUME NEW s \in labels'["opt"] \ labels["opt"]
        PROVE  s \notin GoalsOf("opt") /\ ~Solvable(s)
    <2>1. s = cur_s /\ a = NoAction
      BY <1>1, <1>2, <1>7
    <2>2. Goal \cap {cur_s} \subseteq space.fringe
      BY <1>3
    <2> HIDE DEF x
    <2> QED BY <1>2, <1>3, <2>1, <2>2, GreedyFacts DEF GoalsOf
  <1> HIDE DEF a, x
  <1>8. Fresh /\ Sound("opt") /\ Sound("lssipp")
    BY <1>1 DEF Labelling, Valid, Fresh
  <1>9. Sound("opt")' /\ Sound("lssipp")'
    BY <1>2, <1>4, <1>6, <1>7, <1>8, SoundKept
  <1>10. Checked("opt")' /\ Checked("lssipp")'
    BY <1>1 DEF Checked
  <1>11. Phases'
    BY <1>1, <1>4 DEF Labelling, Phases, Rest, TrialIsOn, RoundIsOn, teacherVars
  <1>12. Fringed'
    BY <1>1, <1>4, <1>8 DEF Labelling, Fringed, Rest
  <1> QED BY <1>6, <1>9, <1>10, <1>11, <1>12 DEF Labelling, Valid

\* A check begins with a state that is neither a goal nor solved.
LEMMA LabelLab == ASSUME IInv, Labelling, Label, Rest PROVE Labelling' /\ (TrialIsOn => Keeps("opt"))
  <1>1. /\ pc = "label" /\ pc' \in {"label", "check", AfterLabels} /\ labeller \in Owner
        /\ UNCHANGED <<v, planner, answer, ask, space, labels, labeller, cur_s, sweep>>
        /\ UNCHANGED <<has_opt, use_as_replanner_, call>>
    BY DEF Label, IInv, Types, Rest, teacherVars
  <1>2. Phases'
    BY <1>1 DEF Labelling, Phases, TrialIsOn, RoundIsOn, AfterLabels, Owner
  <1>3. Fresh' => Fresh
    BY <1>1 DEF Fresh, TrialIsOn, AfterLabels, Owner
  <1>4. CASE pc' # "check"
    BY <1>1, <1>2, <1>3, <1>4, LabelsAlone
  <1>5. CASE pc' = "check"
    <2> DEFINE s == Last(visited[labeller])
    <2>1. check' = [open |-> <<s>>, closed |-> <<>>, rv |-> TRUE] /\ ~IsSolved(labeller, s)
      BY <1>1, <1>5 DEF Label, NoCheck, AfterLabels
    <2> HIDE DEF s
    <2>2. Nodes' = {s} /\ Range(check'.closed) = {}
      <3>1. Range(<<>>) = {} /\ Range(<<s>>) = {s}
        BY DEF Range
      <3> QED BY <2>1, <3>1 DEF Nodes
    <2>3. ASSUME NEW k \in Owner PROVE Keeps(k) /\ (Sound(k) => Valid(k)')
      <3>1. Keeps(k) /\ Accepted(k)' = GoalsOf(k) \cup labels[k] /\ GoalsOf(k)' = GoalsOf(k)
        BY <1>1, <2>2 DEF Keeps, Accepted, Settled, GoalsOf
      <3>2. Checked(k)'
        BY <1>1, <2>1, <2>2, <3>1 DEF Checked, IsSolved
      <3>3. Sound(k) => Sound(k)'
        BY <1>1, <3>1, SoundKept
      <3> QED BY <3>1, <3>2, <3>3 DEF Valid
    <2>4. Fringed'
      BY <1>1, <1>3 DEF Labelling, Fringed
    <2> QED BY <1>2, <1>3, <2>3, <2>4 DEF Labelling, Valid, Owner
  <1> QED BY <1>4, <1>5

\* A node of checkSolved, for the planner whose labels it is about.
LEMMA CheckNodeValid ==
    ASSUME IInv, NEW k \in Owner, labeller = k, Valid(k), CheckNode
    PROVE  /\ Valid(k)' /\ Keeps(k)
           /\ \A t \in State : t \notin Nodes => v'[t] = v[t]
           /\ \A j \in Owner : j # k => labels'[j] = labels[j]
  <1> DEFINE s == Head(check.open)
             goals == GoalsOf(k)
             g == Greedy(v, goals, s)
             far == Residual(v, goals, s) > epsilon
             explored == Range(check.open) \cup Range(check.closed)
             new == {t \in Succ(s, g.action) : ~IsSolved(k, t) /\ t \notin explored}
             solved == IsSolved(k, s)
             dead == ~solved /\ g.action = NoAction
  <1>1. /\ pc = "check" /\ pc' = "check" /\ check.open # <<>>
        /\ check' = [open |-> IF solved \/ dead \/ far THEN Tail(check.open)
                              ELSE SetToSeq(new) \o Tail(check.open),
                     closed |-> Append(check.closed, s),
                     rv |-> check.rv /\ (solved \/ ~far)]
        /\ labels' = IF dead THEN [labels EXCEPT ![k] = @ \cup {s}] ELSE labels
        /\ v' = IF dead /\ far THEN [v EXCEPT ![s] = g.value] ELSE v
        /\ UNCHANGED <<planner, space, labeller>>
    BY Zenon DEF CheckNode
  <1>2. /\ v \in Bounded /\ labels \in [Owner -> SUBSET State]
        /\ check.open \in Seq(State) /\ check.closed \in Seq(State) /\ check.rv \in BOOLEAN
    BY DEF IInv, Types
  <1>3. /\ s \in Realm /\ s \in State /\ (s \in Goal => s \in goals)
        /\ s \in Range(check.open)
    <2>1. /\ Realm \subseteq State /\ check.open \in Seq(Realm)
          /\ \A x \in Realm : x \in Goal => x \in GoalsOf(k)
      BY <1>1, RealmFacts
    <2>2. s = check.open[1] /\ 1 \in DOMAIN check.open
      BY <1>1, <2>1
    <2>3. s \in Realm /\ s \in Range(check.open)
      BY <2>1, <2>2 DEF Range
    <2> QED BY <2>1, <2>3
  <1>4. /\ s \notin goals /\ s \notin Settled(k)
        /\ (solved <=> s \in labels[k]) /\ (solved => s \in Range(check.closed))
    <2>1. s \notin Accepted(k)
      BY <1>1, <1>3 DEF Valid, Checked, Nodes
    <2> QED BY <1>1, <2>1 DEF Accepted, Settled, IsSolved
  <1>5. GoalsOf(k)' = goals
    BY <1>1 DEF GoalsOf
  <1>6. /\ Range(check'.closed) = Range(check.closed) \cup {s}
        /\ Range(check.open) \subseteq Range(check'.open) \cup {s}
        /\ Range(check'.open) \subseteq Range(check.open) \cup new
        /\ ~solved /\ ~dead /\ ~far => new \subseteq Range(check'.open)
    <2>1. Range(Append(check.closed, s)) = Range(check.closed) \cup {s}
      BY <1>2, <1>3, RangeAppend
    <2>2. Range(check.open) = {s} \cup Range(Tail(check.open)) /\ Tail(check.open) \in Seq(State)
      BY <1>1, <1>2, RangeTail
    <2>3. ASSUME ~solved, ~dead
          PROVE  Range(SetToSeq(new) \o Tail(check.open)) = new \cup Range(Tail(check.open))
      <3>1. g.action \in Range(Applicable[s])
        BY <1>2, <1>3, <2>3, GreedyAction
      <3>2. new \subseteq State
        BY <1>3, <3>1, Ahead
      <3> HIDE DEF new
      <3>3. IsFiniteSet(new)
        BY <3>2, TaskAssumption, FS_Subset
      <3>4. SetToSeq(new) \in Seq(State) /\ Range(SetToSeq(new)) = new
        BY <3>2, <3>3, SetToSeqFacts
      <3> DEFINE p == SetToSeq(new)
                 q == Tail(check.open)
      <3>5. p \in Seq(State) /\ q \in Seq(State)
        BY <2>2, <3>4
      <3> HIDE DEF p, q
      <3>6. Range(p \o q) = Range(p) \cup Range(q)
        BY <3>5, RangeConcat
      <3>7. Range(SetToSeq(new)) = new
        BY <3>4
      <3> QED BY <3>6, <3>7 DEF p, q
    <2> HIDE DEF s, solved, dead, far, new
    <2> QED BY <1>1, <2>1, <2>2, <2>3
  <1>7. dead => ~Solvable(s)
    <2>1. s \in State \ goals /\ Goal \cap {s} \subseteq goals
      BY <1>3, <1>4
    <2> HIDE DEF s, goals
    <2> QED BY <1>2, <2>1, GreedyFacts
  <1>8. ~solved /\ ~dead => Way(v, goals, s, goals \cup labels[k] \cup explored \cup new)
    <2>1. s \in State \ goals /\ Goal \cap {s} \subseteq goals
      BY <1>3, <1>4
    <2>2. Succ(s, g.action) \subseteq goals \cup labels[k] \cup explored \cup new
      BY DEF IsSolved
    <2> HIDE DEF s, goals, explored, new
    <2> QED BY <1>2, <2>1, <2>2, GreedyFacts
  <1>9. new \cap (goals \cup labels[k]) = {}
    BY DEF IsSolved
  <1> HIDE DEF s, goals, g, far, explored, new, solved, dead
  <1>10. /\ labels[k] \subseteq labels'[k] /\ labels'[k] \ labels[k] \subseteq {s}
         /\ (s \in labels'[k] \ labels[k] => dead)
         /\ \A j \in Owner : j # k => labels'[j] = labels[j]
    BY <1>1, <1>2
  <1>11. /\ Settled(k) = labels[k] \ Range(check.closed)
         /\ Settled(k)' = labels'[k] \ (Range(check.closed) \cup {s})
    BY <1>1, <1>6 DEF Settled
  <1>12. Settled(k)' = Settled(k) /\ Accepted(k)' = Accepted(k)
    <2>1. Settled(k)' = Settled(k)
      BY <1>4, <1>10, <1>11
    <2> QED BY <1>5, <2>1 DEF Accepted, goals
  <1>13. \A t : t # s => v'[t] = v[t]
    BY <1>1, <1>2 DEF Bounded
  <1>14. Keeps(k)
    BY <1>4, <1>5, <1>12, <1>13 DEF Keeps, Accepted, goals
  <1>15. Sound(k)'
    BY <1>4, <1>7, <1>10, <1>14, SoundKept DEF Valid, goals
  <1>16. Checked(k)'
    <2>1. Nodes' \cap Accepted(k)' = {}
      <3>1. Nodes' \subseteq Nodes \cup new \cup {s}
        BY <1>6 DEF Nodes
      <3>2. Nodes \cap Accepted(k) = {} /\ s \in Nodes
        BY <1>1, <1>3 DEF Valid, Checked, Nodes
      <3>3. new \cap Accepted(k) = {}
        BY <1>9, <1>11 DEF Accepted, goals
      <3> QED BY <1>12, <3>1, <3>2, <3>3
    <2>2. ASSUME check'.rv, NEW c \in Range(check'.closed), Solvable(c)
          PROVE  Way(v', GoalsOf(k)', c, GoalsOf(k)' \cup labels'[k] \cup Nodes')
      <3>1. check.rv /\ (solved \/ ~far)
        BY <1>1, <2>2
      <3>2. v' = v
        BY <1>1, <3>1 DEF dead
      <3>3. goals \cup labels[k] \cup Nodes \subseteq GoalsOf(k)' \cup labels'[k] \cup Nodes'
        BY <1>5, <1>6, <1>10 DEF Nodes
      <3>4. CASE c \in Range(check.closed)
        <4>1. Way(v, goals, c, goals \cup labels[k] \cup Nodes)
          BY <1>1, <2>2, <3>1, <3>4 DEF Valid, Checked, goals
        <4> QED BY <1>5, <3>2, <3>3, <4>1, WayKept
      <3>5. CASE c = s /\ c \notin Range(check.closed)
        <4>1. ~solved /\ ~dead /\ ~far
          BY <1>4, <1>7, <2>2, <3>1, <3>5
        <4>2. explored = Nodes
          BY DEF explored, Nodes
        <4>3. goals \cup labels[k] \cup explored \cup new \subseteq
                 GoalsOf(k)' \cup labels'[k] \cup Nodes'
          BY <1>6, <3>3, <4>1, <4>2 DEF Nodes
        <4> QED BY <1>5, <1>8, <3>2, <3>5, <4>1, <4>3, WayKept
      <3> QED BY <1>6, <2>2, <3>4, <3>5
    <2> QED BY <2>1, <2>2 DEF Checked, Solvable
  <1>17. s \in Nodes
    BY <1>3 DEF Nodes
  <1> QED BY <1>10, <1>13, <1>14, <1>15, <1>16, <1>17 DEF Valid

\* The end of checkSolved, for the planner whose labels it is about.
LEMMA CheckEndValid ==
    ASSUME IInv, NEW k \in Owner, labeller = k, Valid(k), CheckEnd
    PROVE  /\ Valid(k)' /\ Keeps(k)
           /\ \A t \in State : t \notin Nodes => v'[t] = v[t]
           /\ \A j \in Owner : j # k => labels'[j] = labels[j]
  <1> DEFINE updated == Hashes(v, GoalsOf(labeller), check.closed)[DOMAIN check.closed]
  <1>1. /\ pc = "check" /\ check.open = <<>> /\ pc' # "check"
        /\ \/ /\ check.rv /\ UNCHANGED v
              /\ labels' = [labels EXCEPT ![k] = @ \cup Range(check.closed)]
           \/ v' = updated /\ UNCHANGED labels
        /\ UNCHANGED <<space, labeller>>
    <2>1. /\ pc = "check" /\ check.open = <<>> /\ pc' \in {"label", AfterLabels}
          /\ \/ /\ check.rv /\ UNCHANGED v
                /\ labels' = [labels EXCEPT ![labeller] = @ \cup Range(check.closed)]
             \/ v' = updated /\ UNCHANGED labels
          /\ UNCHANGED <<space, labeller>>
      BY Zenon DEF CheckEnd, FoldLeft, MapThenFoldSet, Hashes
    <2> HIDE DEF updated
    <2> QED BY <2>1 DEF AfterLabels
  <1>2. labels \in [Owner -> SUBSET State]
    BY DEF IInv, Types
  <1>3. Nodes = Range(check.closed)
    <2>1. Range(<<>>) = {}
      BY DEF Range
    <2> QED BY <1>1, <2>1 DEF Nodes
  <1>4. \A t \in State : t \notin Nodes => updated[t] = v[t]
    <2>1. /\ Realm \subseteq State /\ check.closed \in Seq(Realm)
          /\ \A x \in Realm : x \in Goal => x \in GoalsOf(k)
      BY <1>1, RealmFacts
    <2>2. v \in Bounded
      BY DEF IInv, Types
    <2>3. check.closed \in Seq(State) /\ \A i \in DOMAIN check.closed : check.closed[i] \in Realm
      BY <2>1
    <2>4. \A i \in DOMAIN check.closed :
             check.closed[i] \in Goal => check.closed[i] \in GoalsOf(k)
      BY <2>1, <2>3
    <2> QED BY <1>3, <2>2, <2>3, <2>4, UpdatesBounded
  <1> HIDE DEF updated
  <1>5. /\ GoalsOf(k)' = GoalsOf(k) /\ Settled(k)' = labels'[k]
        /\ Settled(k) = labels[k] \ Range(check.closed)
        /\ GoalsOf(k) \subseteq State /\ Nodes \cap Accepted(k) = {}
    <2>1. GoalsOf(k) \subseteq State
      BY TaskAssumption DEF IInv, Inside, SpaceOK, GoalsOf
    <2> QED BY <1>1, <2>1 DEF GoalsOf, Settled, Valid, Checked
  <1>6. \A t \in State : t \notin Nodes => v'[t] = v[t]
    BY <1>1, <1>4
  <1>7. /\ labels[k] \subseteq labels'[k] /\ \A j \in Owner : j # k => labels'[j] = labels[j]
        /\ labels'[k] \ labels[k] \subseteq Range(check.closed)
        /\ labels'[k] # labels[k] =>
              check.rv /\ v' = v /\ labels'[k] = labels[k] \cup Range(check.closed)
    BY <1>1, <1>2
  <1>8. Keeps(k)
    <2>1. Accepted(k) \subseteq State
      BY <1>2, <1>5 DEF Accepted
    <2> QED BY <1>5, <1>6, <1>7, <2>1 DEF Keeps
  <1>9. ASSUME NEW s \in labels'[k] \ labels[k]
        PROVE  /\ s \notin GoalsOf(k)
               /\ Solvable(s) => s \in Settled(k)' /\ Way(v', GoalsOf(k)', s, Accepted(k)')
    <2>1. /\ s \in Range(check.closed) /\ s \in Settled(k)' /\ check.rv /\ v' = v
          /\ labels'[k] = labels[k] \cup Range(check.closed)
      BY <1>5, <1>7, <1>9
    <2>2. s \notin GoalsOf(k)
      BY <1>3, <1>5, <2>1 DEF Accepted
    <2>3. Accepted(k)' = GoalsOf(k) \cup labels[k] \cup Nodes
      BY <1>3, <1>5, <2>1 DEF Accepted
    <2>4. Solvable(s) => Way(v, GoalsOf(k), s, GoalsOf(k) \cup labels[k] \cup Nodes)
      BY <1>1, <2>1 DEF Valid, Checked
    <2> QED BY <1>5, <2>1, <2>2, <2>3, <2>4
  <1>10. Sound(k)'
    BY <1>7, <1>8, <1>9, SoundKept DEF Valid
  <1>11. Checked(k)'
    BY <1>1 DEF Checked
  <1> QED BY <1>6, <1>7, <1>8, <1>10, <1>11 DEF Valid

\* A step of checkSolved leaves the other labels as good as they were.
LEMMA CheckLab ==
    ASSUME IInv, Labelling, Rest, pc = "check", pc' \in {"check", "label", AfterLabels},
           UNCHANGED <<planner, answer, ask, space, labeller>>, Valid(labeller) => Valid(labeller)',
           Keeps(labeller), \A t \in State : t \notin Nodes => v'[t] = v[t],
           \A j \in Owner : j # labeller => labels'[j] = labels[j]
    PROVE  Labelling' /\ (TrialIsOn => Keeps("opt"))
  <1>1. /\ labeller \in Owner /\ labels \in [Owner -> SUBSET State]
        /\ "opt" \in Owner /\ "lssipp" \in Owner
    BY DEF IInv, Types, Owner
  <1>2. CASE labeller = "opt"
    <2>1. (TrialIsOn /\ TrialIsOn') \/ pc' = "solve"
      BY <1>2 DEF TrialIsOn, AfterLabels
    <2>2. TrialIsOn /\ Fresh /\ Valid("opt") /\ Valid("lssipp") /\ Valid("opt")'
      BY <1>2 DEF TrialIsOn, Fresh, Labelling
    <2>3. labels'["lssipp"] = labels["lssipp"]
      BY <1>1, <1>2
    <2>4. \A t \in Accepted("lssipp") : t \in State /\ t \notin Nodes
      <3>1. Accepted("lssipp") = Goal \cup labels["lssipp"] /\ Goal \subseteq State
        BY <1>2, TaskAssumption DEF Accepted, Settled, GoalsOf
      <3>2. ASSUME NEW s \in Nodes PROVE s \in space.states \ space.fringe
        <4>1. Nodes \subseteq space.states
          BY <1>2 DEF IInv, Inside, Nodes, Range
        <4>2. s \notin space.fringe
          BY <1>2, <2>2 DEF Valid, Checked, Accepted, GoalsOf
        <4> QED BY <4>1, <4>2
      <3>3. ASSUME NEW s \in Nodes PROVE s \notin Goal /\ s \notin labels["lssipp"]
        BY <2>2, <3>2, OffLabels
      <3> QED BY <1>1, <3>1, <3>3
    <2>5. Keeps("lssipp")
      BY <1>2, <2>3, <2>4 DEF Keeps, Settled, GoalsOf
    <2>6. Sound("lssipp")'
      BY <1>1, <2>2, <2>3, <2>5, SoundKept DEF Valid
    <2>7. Checked("lssipp")'
      BY <1>2 DEF Checked
    <2>8. Phases'
      BY <1>2, <2>3, <2>1 DEF Labelling, Phases, Rest, TrialIsOn, RoundIsOn, AfterLabels, teacherVars
    <2>9. Fringed'
      BY <2>2, <2>3 DEF Labelling, Fringed, Rest
    <2> QED BY <1>2, <2>2, <2>6, <2>7, <2>8, <2>9 DEF Labelling, Valid
  <1>3. CASE labeller = "lssipp"
    <2>1. RoundIsOn /\ planner.name = "labeledssipp" /\ RoundIsOn' /\ ~TrialIsOn /\ ~TrialIsOn'
          /\ pc' \in {"check", "label", "round"}
      BY <1>3 DEF Labelling, Phases, RoundIsOn, TrialIsOn, AfterLabels
    <2>2. labels'["opt"] = labels["opt"]
      BY <1>1, <1>3
    <2>3. Valid("lssipp")'
      BY <1>3 DEF Labelling
    <2>4. Phases'
      BY <1>3, <2>1, <2>2 DEF Labelling, Phases, Rest
    <2>5. Fresh' => ~has_opt
      BY <2>1 DEF Fresh, Rest
    <2>6. Fresh' => Valid("opt")'
      <3>1. ~has_opt => labels'["opt"] = {}
        BY <2>1, <2>2 DEF Labelling, Phases
      <3>2. Checked("opt")'
        BY <1>3 DEF Checked
      <3> QED BY <1>1, <2>5, <3>1, <3>2, NoLabels DEF Valid
    <2>7. Fringed'
      BY <2>5 DEF Fringed, Rest
    <2> QED BY <2>1, <2>3, <2>4, <2>6, <2>7 DEF Labelling
  <1> QED BY <1>1, <1>2, <1>3 DEF Owner

LEMMA LabellerValid ==
    ASSUME IInv, Labelling, pc = "check"
    PROVE  Valid(labeller) /\ labeller \in Owner
  <1>1. labeller \in Owner
    BY DEF IInv, Types
  <1>2. labeller = "opt" => Fresh
    BY DEF Fresh, TrialIsOn
  <1> QED BY <1>1, <1>2 DEF Labelling, Owner

LEMMA CheckNodeLab ==
    ASSUME IInv, Labelling, CheckNode, Rest PROVE Labelling' /\ (TrialIsOn => Keeps("opt"))
  <1>1. /\ pc = "check" /\ pc' = "check" /\ UNCHANGED <<planner, answer, ask, space, labeller>>
    BY Zenon DEF CheckNode
  <1>2. PICK k \in Owner : k = labeller /\ Valid(k)
    BY <1>1, LabellerValid
  <1>3. /\ Valid(k)' /\ Keeps(k)
        /\ \A t \in State : t \notin Nodes => v'[t] = v[t]
        /\ \A j \in Owner : j # k => labels'[j] = labels[j]
    BY <1>2, CheckNodeValid
  <1>4. Valid(labeller)' /\ Keeps(labeller)
    BY <1>1, <1>2, <1>3
  <1> QED BY <1>1, <1>2, <1>3, <1>4, CheckLab

LEMMA CheckEndLab ==
    ASSUME IInv, Labelling, CheckEnd, Rest PROVE Labelling' /\ (TrialIsOn => Keeps("opt"))
  <1>1. /\ pc = "check" /\ pc' \in {"check", "label", AfterLabels}
        /\ UNCHANGED <<planner, answer, ask, space, labeller>>
    BY Zenon DEF CheckEnd
  <1>2. PICK k \in Owner : k = labeller /\ Valid(k)
    BY <1>1, LabellerValid
  <1>3. /\ Valid(k)' /\ Keeps(k)
        /\ \A t \in State : t \notin Nodes => v'[t] = v[t]
        /\ \A j \in Owner : j # k => labels'[j] = labels[j]
    BY <1>2, CheckEndValid
  <1>4. Valid(labeller)' /\ Keeps(labeller)
    BY <1>1, <1>2, <1>3
  <1> QED BY <1>1, <1>2, <1>3, <1>4, CheckLab

\* decideAction() returns, from the optimal planner or from SSiPP.
LEMMA ReturnLab ==
    ASSUME IInv, Labelling, NEW a, Return(a), a # NoAnswer, pc \in {"ssipp", "solve"},
           UNCHANGED <<v, planner, space, labels, has_opt, use_as_replanner_, root, call>>
    PROVE  Labelling' /\ Keeps("opt")
  <1>1. \/ pc' = "idle" /\ answer' = a
        \/ /\ pc' = "turn" \/ (pc' = "label" /\ labeller' = "lssipp")
           /\ planner.name = "labeledssipp"
    BY DEF Return, EndRound, IInv, Control
  <1>2. Phases'
    BY <1>1 DEF Labelling, Phases, TrialIsOn, RoundIsOn
  <1>3. Fresh
    BY DEF Fresh
  <1> QED BY <1>1, <1>2, <1>3, LabelsAlone

LEMMA SolvedLab ==
    ASSUME IInv, Labelling, Solved, UNCHANGED teacherVars PROVE Labelling' /\ Keeps("opt")
  <1>1. ask \in space.states
    BY DEF Solved, IInv, Inside
  <1>2. OptAction # NoAnswer
    BY <1>1, SpaceAnswer, ActionsFacts
  <1> QED BY <1>2, ReturnLab DEF Solved, teacherVars

\* A new short-sighted SSP has the states that are solved as goals.
LEMMA SSiPPDecidesLab ==
    ASSUME IInv, Labelling, SSiPPDecides, UNCHANGED teacherVars
    PROVE  Labelling' /\ (IsTeacher => Keeps("opt"))
  <1>1. /\ pc = "ssipp" /\ ask \in State /\ ~IsTeacher /\ planner.name # "opt" /\ planner \in Planners
        /\ v \in [State -> Nat] /\ Fresh
    BY DEF SSiPPDecides, IInv, Types, Bounded, Control, Inside, SpaceOK, IsTeacher, Fresh
  <1>2. CASE GivesUp(ask)
    <2>1. Return(NoAction) /\ UNCHANGED <<space, labels, has_opt>>
      BY <1>2 DEF SSiPPDecides
    <2> QED BY <1>1, <2>1, ReturnLab, ActionsFacts DEF SSiPPDecides, teacherVars
  <1>3. CASE ~GivesUp(ask)
    <2>1. /\ pc' = "solve" /\ UNCHANGED <<v, planner, answer, labeller, use_as_replanner_>>
          /\ \/ UNCHANGED <<space, labels, has_opt>> /\ has_opt
             \/ /\ \E limit \in planner.limits :
                     space' = NewShortSightedSSP(planner.method, limit, SSiPPGoals, ask, v)
                /\ labels' = [labels EXCEPT !["opt"] = {}] /\ has_opt'
      BY <1>3, Zenon DEF SSiPPDecides, NeedsSpace
    <2>2. CASE UNCHANGED <<space, labels, has_opt>> /\ has_opt
      <3>1. Phases'
        BY <1>1, <2>1, <2>2 DEF Labelling, Phases, TrialIsOn, RoundIsOn, teacherVars
      <3> QED BY <1>1, <2>1, <2>2, <3>1, LabelsAlone
    <2>3. CASE /\ \E limit \in planner.limits :
                     space' = NewShortSightedSSP(planner.method, limit, SSiPPGoals, ask, v)
               /\ labels' = [labels EXCEPT !["opt"] = {}] /\ has_opt'
      <3>1. PICK limit \in planner.limits :
               space' = NewShortSightedSSP(planner.method, limit, SSiPPGoals, ask, v)
        BY <2>3
      <3>2. /\ Goal \subseteq SSiPPGoals /\ ask \in State \ SSiPPGoals
            /\ planner.name = "labeledssipp" => labels["lssipp"] \subseteq SSiPPGoals
        BY <1>1, <1>3 DEF SSiPPGoals, GivesUp
      <3>3. space'.states \cap SSiPPGoals \subseteq space'.fringe
        BY <1>1, <3>1, <3>2, NewSpaceAround DEF Around
      <3>4. labels'["lssipp"] = labels["lssipp"]
        BY <2>3 DEF IInv, Types, Owner
      <3>5. Phases'
        BY <2>1, <2>3, <3>4 DEF Labelling, Phases, TrialIsOn, RoundIsOn
      <3>6. Labelling'
        BY <1>1, <2>1, <2>3, <3>2, <3>3, <3>5, LabelsDeleted DEF IInv
      <3> QED BY <1>1, <3>6
    <2> QED BY <2>1, <2>2, <2>3
  <1> QED BY <1>2, <1>3

LEMMA DecideActionLab ==
    ASSUME IInv, Labelling, DecideAction, UNCHANGED teacherVars PROVE Labelling' /\ Keeps("opt")
  <1>1. /\ pc = "decide" /\ ask \in State /\ root = NoState /\ Last(todo) = ask
        /\ call \in Asking /\ (call \in {"training", "practice", "round"} \/ IsTeacher)
        /\ UNCHANGED <<v, planner, space, labels, has_opt>>
    BY DEF DecideAction, IInv, Control, Serving, RoundIsOn, Asking
  <1>2. CASE planner.name # "labeledssipp"
    <2>1. pc' \in {"solve", "ssipp"} /\ (planner.name = "opt" \/ pc' = "ssipp") /\ UNCHANGED labeller
      BY <1>2 DEF DecideAction
    <2>2. Phases'
      BY <1>1, <1>2, <2>1 DEF Labelling, Phases, TrialIsOn, RoundIsOn
    <2> QED BY <1>1, <1>2, <2>1, <2>2, LabelsAlone DEF Fresh
  <1>3. CASE planner.name = "labeledssipp"
    <2>1. \/ pc' = "idle" /\ answer' = SolvedAction(ask) /\ UNCHANGED use_as_replanner_
          \/ pc' = "ssipp" /\ use_as_replanner_
          \/ pc' = "round"
      BY <1>3 DEF DecideAction
    <2>2. pc' = "idle" => answer' # NoAnswer
      BY <1>1, <1>3, <2>1, SolvedAnswer DEF teacherVars
    <2>3. Phases'
      BY <1>1, <1>3, <2>1, <2>2 DEF Labelling, Phases, TrialIsOn, teacherVars
    <2>4. ~IsTeacher /\ call # "practice" /\ (call = "training" => ~has_opt)
      BY <1>1, <1>3 DEF IsTeacher, Labelling, Phases, IInv, Control
    <2>5. Fresh' => Fresh
      BY <1>1, <2>1, <2>4 DEF Fresh, TrialIsOn, teacherVars
    <2> QED BY <1>1, <2>1, <2>3, <2>5, LabelsAlone
  <1> QED BY <1>2, <1>3

LEMMA RoundLab ==
    ASSUME IInv, Labelling, Round, UNCHANGED teacherVars PROVE Labelling' /\ ~IsTeacher
  <1>1. /\ pc = "round" /\ root \in State /\ Last(todo) = root /\ ~IsTeacher
        /\ planner.name = "labeledssipp" /\ UNCHANGED <<v, planner>>
    BY DEF Round, IInv, Control, Serving, RoundIsOn
  <1>2. CASE /\ use_as_replanner_' = FALSE /\ pc' = "idle" /\ answer' = SolvedAction(root)
             /\ UNCHANGED <<has_opt, space, labels>>
    <2>1. answer' # NoAnswer
      BY <1>1, <1>2, SolvedAnswer DEF teacherVars
    <2>2. Phases'
      BY <1>1, <1>2, <2>1 DEF Labelling, Phases, TrialIsOn
    <2>3. Fresh' => Fresh
      BY <1>1, <1>2 DEF Fresh, TrialIsOn
    <2>4. UNCHANGED <<v, planner, space, labels, has_opt>> /\ pc' # "check"
      BY <1>1, <1>2
    <2> QED BY <1>1, <2>2, <2>3, <2>4, LabelsAlone
  <1>3. CASE StartRound(root)
    <2>1. pc' = "turn" /\ ~has_opt' /\ labels' = [labels EXCEPT !["opt"] = {}]
      BY <1>3 DEF StartRound, InitRound
    <2>2. Phases'
      BY <1>1, <2>1 DEF IInv, Types, Phases, TrialIsOn, Owner
    <2> QED BY <1>1, <2>1, <2>2, LabelsDeleted DEF IInv
  <1> QED BY <1>2, <1>3, Zenon DEF Round

LEMMA RoundEndedLab ==
    ASSUME IInv, Labelling, RoundEnded, UNCHANGED teacherVars PROVE Labelling' /\ Keeps("opt")
  <1>1. call' = "none" /\ pc' = "idle" /\ UNCHANGED <<v, planner, space, labels, has_opt>>
    BY DEF RoundEnded, IInv, Control, Serving, RoundIsOn, lrtdpVars, teacherVars
  <1>2. Phases'
    BY <1>1 DEF Labelling, Phases, TrialIsOn, RoundIsOn
  <1>3. Fresh' => Fresh
    BY <1>1 DEF Fresh, TrialIsOn
  <1> QED BY <1>1, <1>2, <1>3, LabelsAlone

LEMMA TurnLab ==
    ASSUME IInv, Labelling, Turn, UNCHANGED teacherVars PROVE Labelling' /\ Keeps("opt")
  <1>1. /\ pc = "turn"
        /\ pc' = "ssipp" \/ (pc' = "label" /\ labeller' = "lssipp")
        /\ UNCHANGED <<v, planner, space, labels, has_opt>>
    BY DEF Turn, EndRound
  <1>2. Phases'
    BY <1>1 DEF Labelling, Phases, TrialIsOn, RoundIsOn
  <1>3. Fresh
    BY <1>1 DEF Fresh
  <1> QED BY <1>1, <1>2, <1>3, LabelsAlone

\* A deadline leaves the labels as they are, also in the midst of checkSolved.
LEMMA DeadlineLab ==
    ASSUME IInv, Labelling, IsTeacher \/ Training, DeadlineReached, UNCHANGED teacherVars
    PROVE  Labelling' /\ Keeps("opt")
  <1>1. pc' = "idle" /\ answer' # NoAnswer /\ UNCHANGED <<v, planner, space, labels, has_opt>>
    BY ActionsFacts DEF DeadlineReached
  <1>2. Phases'
    BY <1>1 DEF Labelling, Phases, TrialIsOn, RoundIsOn
  <1>3. call = "practice" => planner.name # "labeledssipp"
    BY DEF IInv, Control
  <1>4. Fresh' => Fresh
    BY <1>1, <1>3 DEF Fresh, TrialIsOn, IsTeacher, Training, teacherVars
  <1> QED BY <1>1, <1>2, <1>4, LabelsAlone

\* Steps of a client, while the planner is idle.
LEMMA IdleLab ==
    ASSUME IInv, Labelling, pc = "idle", pc' \in {"idle", "decide"},
           UNCHANGED <<v, planner, space, labels, has_opt, use_as_replanner_>>,
           call' \in {call, "none"} \/ IsTeacher \/ ~has_opt,
           call' = "training" => ~has_opt \/ (UNCHANGED call /\ answer = NoAnswer)
    PROVE  Labelling' /\ Keeps("opt")
  <1>1. IsTeacher => planner.name = "opt"
    BY DEF IsTeacher
  <1>2. Phases'
    BY <1>1 DEF Labelling, Phases, TrialIsOn, RoundIsOn
  <1>3. Fresh' => Fresh
    BY <1>1 DEF Fresh, TrialIsOn
  <1> QED BY <1>2, <1>3, LabelsAlone

LEMMA SimulateRoundLab ==
    ASSUME IInv, Labelling, SimulateRound PROVE Labelling' /\ ~IsTeacher
  <1>1. /\ ~IsTeacher /\ pc = "idle" /\ pc' = "idle" /\ call' \in {"practice", "round"} /\ ~has_opt'
        /\ labels' = [labels EXCEPT !["opt"] = {}] /\ UNCHANGED <<v, planner, labeller>>
    BY DEF SimulateRound, InitRound
  <1>2. Phases'
    BY <1>1 DEF IInv, Types, Labelling, Phases, TrialIsOn, RoundIsOn, Owner
  <1> QED BY <1>1, <1>2, LabelsDeleted DEF IInv

LEMMA RoundStepLab ==
    ASSUME IInv, Labelling, RoundStep PROVE Labelling' /\ Keeps("opt")
  <1>1. /\ Answered /\ answer # Deadline /\ pc = "idle" /\ call \in {"training", "practice", "round"}
        /\ UNCHANGED <<v, planner, space, labels, has_opt, use_as_replanner_>>
    BY DEF RoundStep, Answered, Training
  <1>2. /\ \/ call \in {"practice", "round"} /\ UNCHANGED <<call, pc>>
           \/ call' = "none" /\ planner.name = "labeledssipp" /\ pc' = "label" /\ labeller' = "lssipp"
           \/ call' = "none" /\ pc' = "idle"
    BY <1>1, Zenon DEF RoundStep, LeaveRound, EndRound
  <1>3. Labelling' /\ Keeps("opt")
    <2>1. CASE pc' = "idle"
      BY <1>1, <1>2, <2>1, IdleLab
    <2>2. CASE call' = "none" /\ planner.name = "labeledssipp" /\ pc' = "label" /\ labeller' = "lssipp"
      <3>1. Phases'
        BY <1>1, <2>2 DEF Labelling, Phases, TrialIsOn
      <3>2. Fresh' => Fresh
        BY <1>1, <2>2 DEF Fresh, TrialIsOn
      <3> QED BY <1>1, <2>2, <3>1, <3>2, LabelsAlone
    <2> QED BY <1>1, <1>2, <2>1, <2>2
  <1> QED BY <1>3

-----------------------------------------------------------------------------
(* The theorem about the labels.                                           *)

LabInv == planner.engine = "lrtdp" => Labelling

LEMMA InitLab == Init => LabInv
  <1> SUFFICES ASSUME Init PROVE Labelling
    BY DEF LabInv
  <1>1. PICK h \in Heuristics, p \in Planners : CreatePlanner(h, p)
    BY DEF Init
  <1>2. pc = "idle" /\ labels = [k \in Owner |-> {}] /\ ~has_opt
    BY <1>1 DEF CreatePlanner
  <1>3. labels["opt"] = {} /\ labels["lssipp"] = {}
    BY <1>2 DEF Owner
  <1>4. Phases /\ Fringed
    BY <1>2, <1>3 DEF Phases, Fringed, TrialIsOn, RoundIsOn
  <1>5. Valid("opt") /\ Valid("lssipp")
    BY <1>2, <1>3 DEF Valid, Sound, Checked
  <1> QED BY <1>4, <1>5 DEF Labelling

\* What the labels of a teacher's planner rely on is kept, whatever it does.
LEMMA NextLab ==
    ASSUME IInv, IInv', Labelling, planner.engine = "lrtdp", [Next]_vars
    PROVE  Labelling' /\ (IsTeacher => Keeps("opt"))
  <1>1. CASE UNCHANGED vars
    <2>1. UNCHANGED <<v, planner, pc, answer, space, labels, labeller, check, has_opt,
                      use_as_replanner_, call>>
      BY <1>1 DEF vars, plannerVars, lrtdpVars, teacherVars
    <2>2. Phases' /\ Fringed' /\ (Fresh' => Fresh)
      BY <2>1 DEF Labelling, Phases, Fringed, Fresh, TrialIsOn, RoundIsOn
    <2>3. ASSUME NEW k \in Owner PROVE Keeps(k) /\ (Valid(k) => Valid(k)')
      <3>1. Keeps(k) /\ (Sound(k) => Sound(k)')
        BY <2>1, SoundKept DEF Keeps, Settled, GoalsOf
      <3>2. Checked(k) => Checked(k)'
        BY <2>1 DEF Checked, Nodes, Accepted, Settled, GoalsOf, Solvable
      <3> QED BY <3>1, <3>2 DEF Valid
    <2>4. "opt" \in Owner /\ "lssipp" \in Owner
      BY DEF Owner
    <2> QED BY <2>2, <2>3, <2>4 DEF Labelling
  <1>2. CASE PlannerStep /\ UNCHANGED teacherVars
    <2>1. CASE SolveStep /\ UNCHANGED <<has_opt, use_as_replanner_, root>>
      <3>1. Rest
        BY <1>2, <2>1 DEF Rest
      <3>2. IsTeacher /\ pc \in {"label", "check"} => TrialIsOn
        BY DEF IInv, Types, Control, TrialIsOn, RoundIsOn, Owner
      <3>3. Sweep => FALSE
        BY DEF Sweep
      <3>4. CASE Label \/ CheckNode \/ CheckEnd
        <4>1. pc \in {"label", "check"}
          BY <3>4, Zenon DEF Label, CheckNode, CheckEnd
        <4> QED BY <3>1, <3>2, <3>4, <4>1, LabelLab, CheckNodeLab, CheckEndLab
      <3> QED BY <2>1, <3>1, <3>3, <3>4, StartTrialLab, EndTrialLab, TrialStepLab DEF SolveStep
    <2> QED BY <1>2, <2>1, DecideActionLab, RoundLab, RoundEndedLab, TurnLab, SSiPPDecidesLab,
               SolvedLab DEF PlannerStep
  <1>3. CASE (IsTeacher \/ Training) /\ DeadlineReached /\ UNCHANGED teacherVars
    BY <1>3, DeadlineLab
  <1>4. CASE AskPlanner
    BY <1>4, IdleLab DEF AskPlanner, Ask, teacherVars
  <1>5. CASE Train \/ NoTraining
    <2>1. /\ pc = "idle" /\ ~has_opt
          /\ UNCHANGED <<v, planner, pc, space, labels, has_opt, use_as_replanner_>>
      BY <1>5, IdleFacts DEF Train, NoTraining, IInv, Control, Asking, plannerVars, lrtdpVars
    <2> QED BY <2>1, IdleLab
  <1>6. CASE TrainingCut
    BY <1>6, IdleLab DEF TrainingCut, Answered, Read, lrtdpVars
  <1>7. ASSUME IsTeacher, pc = "idle", UNCHANGED plannerVars \/ Read
        PROVE  Labelling' /\ (IsTeacher => Keeps("opt"))
    <2>1. pc' = "idle" /\ ~has_opt /\ UNCHANGED <<v, planner, space, labels, has_opt, use_as_replanner_>>
      BY <1>7 DEF Read, plannerVars, lrtdpVars, IInv, Control
    <2> QED BY <1>7, <2>1, IdleLab
  <1>8. CASE Timeout \/ RolloutStep \/ EnvelopeStep \/ Listed \/ TraceDone \/ QValueStep
    <2>1. /\ UNCHANGED plannerVars \/ Read
          /\ IsTeacher \/ call \in {"rollout", "envelope", "trace", "q_values"}
          /\ pc = "idle" \/ call = "trace"
      BY <1>8, Zenon DEF Timeout, RolloutStep, EnvelopeStep, Listed, TraceDone, QValueStep, Answered
    <2>2. pc = "idle" /\ IsTeacher
      BY <2>1, IdleFacts DEF IInv, Control, Asking
    <2> QED BY <1>7, <2>1, <2>2
  <1>9. ASSUME NEW s \in Roots, ExpertPolicyRollout(s) \/ ExtractPolicyEnvelope(s)
        PROVE  Labelling' /\ (IsTeacher => Keeps("opt"))
    BY <1>7, <1>9 DEF ExpertPolicyRollout, ExtractPolicyEnvelope, BeginTrace
  <1>10. ASSUME NEW s \in State, QValues(s)
         PROVE  Labelling' /\ (IsTeacher => Keeps("opt"))
    <2>1. call = "trace" /\ UNCHANGED plannerVars
      BY <1>10, Zenon DEF QValues
    <2>2. pc = "idle" /\ IsTeacher
      BY <2>1, IdleFacts DEF IInv, Control, Asking
    <2> QED BY <1>7, <2>1, <2>2
  <1> QED BY <1>1, <1>2, <1>3, <1>4, <1>5, <1>6, <1>8, <1>9, <1>10, SimulateRoundLab, RoundStepLab
          DEF Next

LEMMA SamePlanner == [Next]_vars => UNCHANGED planner
  <1> SUFFICES ASSUME [Next]_vars PROVE UNCHANGED planner
    OBVIOUS
  <1>1. CASE UNCHANGED vars
    BY <1>1 DEF vars, plannerVars, lrtdpVars
  <1>2. CASE PlannerStep
    BY <1>2, Zenon DEF PlannerStep, SolveStep, StartTrial, EndTrial, TrialStep, Label, CheckNode, CheckEnd,
                Sweep, DecideAction, Round, RoundEnded, Turn, SSiPPDecides, Solved, lrtdpVars
  <1>3. ASSUME NEW s, ExpertPolicyRollout(s) \/ ExtractPolicyEnvelope(s) \/ QValues(s)
        PROVE  UNCHANGED planner
    BY <1>3, Zenon DEF ExpertPolicyRollout, ExtractPolicyEnvelope, BeginTrace, QValues, plannerVars,
                lrtdpVars
  <1>4. CASE \/ DeadlineReached \/ AskPlanner \/ Timeout \/ RolloutStep \/ EnvelopeStep \/ Listed
             \/ TraceDone \/ QValueStep \/ Train \/ NoTraining \/ SimulateRound \/ RoundStep
             \/ TrainingCut
    BY <1>4, Zenon DEF DeadlineReached, AskPlanner, Ask, Timeout, RolloutStep, EnvelopeStep, Listed,
                TraceDone, QValueStep, Train, NoTraining, SimulateRound, RoundStep, TrainingCut,
                Read, plannerVars, lrtdpVars
  <1> QED BY <1>1, <1>2, <1>3, <1>4 DEF Next

\* Labelling holds in every state that is reached with LRTDP.
THEOREM SpecLabInv == Spec => []LabInv
  <1>1. IInv /\ IInv' /\ LabInv /\ [Next]_vars => LabInv'
    BY NextLab, SamePlanner DEF LabInv
  <1> QED BY <1>1, InitLab, SpecIInv, PTL DEF Spec

\* LabelsClosed: decideAction finds an action for every state that LRTDP has
\* labelled as solved and that can be solved, whatever was changed, deleted or
\* cut by a deadline since it was labelled.
THEOREM LabelsClosedThm == Spec => []LabelsClosed
  <1>1. ASSUME IInv, LabInv PROVE LabelsClosed
    <2> SUFFICES ASSUME planner.engine = "lrtdp"
                 PROVE  /\ pc = "solve" => \A s \in labels.opt : Solvable(s) =>
                             ConstGreedyAction(v, space.fringe, s, space.fringe \cup labels.opt) # NoAction
                        /\ \A s \in labels.lssipp : Solvable(s) => SolvedAction(s) # NoAction
      BY Zenon DEF LabelsClosed
    <2>1. Labelling /\ v \in Bounded /\ labels["opt"] \subseteq State /\ labels["lssipp"] \subseteq State
      BY <1>1 DEF IInv, Types, LabInv, Owner
    <2>2. ASSUME pc = "solve", NEW s \in labels["opt"], Solvable(s)
          PROVE  ConstGreedyAction(v, space.fringe, s, space.fringe \cup labels["opt"]) # NoAction
      <3>1. Sound("opt")
        BY <2>1, <2>2 DEF Labelling, Fresh, Valid
      <3>2. Way(v, GoalsOf("opt"), s, Accepted("opt"))
        BY <2>2, <3>1 DEF Sound
      <3>3. Way(v, space.fringe, s, space.fringe \cup labels["opt"])
        BY <2>2, <3>2 DEF Accepted, Settled, GoalsOf
      <3> QED BY <2>1, <2>2, <3>3, WayIsFound
    <2>3. ASSUME NEW s \in labels["lssipp"], Solvable(s)
          PROVE  SolvedAction(s) # NoAction
      <3>1. Way(v, GoalsOf("lssipp"), s, Accepted("lssipp"))
        BY <2>1, <2>3 DEF Labelling, Valid, Sound
      <3>2. Way(v, Goal, s, Accepted("lssipp")) /\ Accepted("lssipp") \subseteq Goal \cup labels["lssipp"]
        BY <3>1 DEF Accepted, Settled, GoalsOf
      <3>3. Way(v, Goal, s, Goal \cup labels["lssipp"])
        BY <3>2, WayKept
      <3> QED BY <2>1, <2>3, <3>3, WayIsFound DEF SolvedAction
    <2> QED BY <2>2, <2>3
  <1> QED BY <1>1, SpecIInv, SpecLabInv, PTL

-----------------------------------------------------------------------------
(* The teacher: the planner has an action for every state that is listed,  *)
(* and keeps it, so that hp_q_value ends in no ValueError.                 *)

Sure(s) ==
    /\ s \in State
    /\ IF planner.engine = "lrtdp" THEN Way(v, GoalsOf("opt"), s, Accepted("opt"))
       ELSE sweep.solved /\ Way(v, space.fringe, s, State)

\* hp_q_value asks first about its own state, which is listed.
FirstIsSure ==
    call = "q_values" =>
    /\ Cardinality(Succ(asked, act)) \in Nat
    /\ Len(todo) <= Cardinality(Succ(asked, act)) + 1
    /\ Len(todo) = Cardinality(Succ(asked, act)) + 1 =>
          asked \in listed /\ Last(todo) = asked /\ (answer = Deadline \/ answer # NoAction)

Trusted ==
    /\ NoValueError
    /\ IsTeacher =>
        /\ call \in {"none", "rollout", "envelope", "trace", "q_values"}
        /\ \A s \in listed : Sure(s)
        /\ FirstIsSure
        /\ pc = "idle" /\ answer \notin {NoAnswer, Deadline, NoAction} => Sure(Last(todo))
        /\ planner.engine # "lrtdp" => pc \notin {"trial", "label", "check"}

\* A teacher whose sweeps have converged changes no value.
LEMMA SweepKeeps ==
    ASSUME IInv, Trusted, IsTeacher, planner.engine # "lrtdp", sweep.solved, [Next]_vars
    PROVE  UNCHANGED <<v, space>> /\ sweep'.solved
  <1>1. pc \notin {"trial", "label", "check", "round", "turn", "ssipp"}
    BY DEF Trusted, IInv, Control, RoundIsOn
  <1>2. CASE UNCHANGED <<v, space, sweep>>
    BY <1>2
  <1>3. CASE UNCHANGED vars
    BY <1>2, <1>3 DEF vars, plannerVars, lrtdpVars
  <1>4. CASE PlannerStep
    <2>1. CASE SolveStep
      BY <1>1, <2>1, Zenon DEF SolveStep, StartTrial, EndTrial, TrialStep, Label, CheckNode, CheckEnd, Sweep
    <2>2. CASE DecideAction \/ Solved
      BY <1>2, <2>2, Zenon DEF DecideAction, Solved
    <2> QED BY <1>1, <1>4, <2>1, <2>2 DEF PlannerStep, Round, RoundEnded, Turn, SSiPPDecides
  <1>5. CASE DeadlineReached
    BY <1>5 DEF DeadlineReached, SweepCut
  <1>6. ASSUME NEW s, ExpertPolicyRollout(s) \/ ExtractPolicyEnvelope(s) \/ QValues(s)
        PROVE  UNCHANGED <<v, space, sweep>>
    <2>1. UNCHANGED plannerVars
      BY <1>6, Zenon DEF ExpertPolicyRollout, ExtractPolicyEnvelope, BeginTrace, QValues
    <2> QED BY <2>1 DEF plannerVars, lrtdpVars
  <1>7. CASE AskPlanner \/ Listed \/ TraceDone \/ Train \/ NoTraining \/ RoundStep
    BY <1>2, <1>7 DEF AskPlanner, Ask, Listed, TraceDone, Train, NoTraining, RoundStep, plannerVars,
                      lrtdpVars
  <1>8. CASE Timeout \/ RolloutStep \/ EnvelopeStep \/ QValueStep \/ TrainingCut
    <2>1. Read
      BY <1>8, Zenon DEF Timeout, RolloutStep, EnvelopeStep, QValueStep, TrainingCut
    <2> QED BY <1>2, <2>1 DEF Read, lrtdpVars
  <1>9. ~SimulateRound
    BY DEF SimulateRound
  <1> QED BY <1>2, <1>3, <1>4, <1>5, <1>6, <1>7, <1>8, <1>9 DEF Next

LEMMA SureKept ==
    ASSUME IInv, IInv', LabInv, Trusted, IsTeacher, [Next]_vars
    PROVE  \A s : Sure(s) => Sure(s)'
  <1> SUFFICES ASSUME NEW s, Sure(s) PROVE Sure(s)'
    OBVIOUS
  <1>1. UNCHANGED planner
    BY SamePlanner
  <1>2. CASE planner.engine = "lrtdp"
    <2>1. Keeps("opt") /\ "opt" \in Owner
      BY <1>2, NextLab DEF LabInv, Owner
    <2> QED BY <1>1, <1>2, <2>1, WaysKept DEF Sure
  <1>3. CASE planner.engine # "lrtdp"
    <2>1. sweep.solved /\ UNCHANGED <<v, space>> /\ sweep'.solved
      BY <1>3, SweepKeeps DEF Sure
    <2> QED BY <1>1, <1>3, <2>1 DEF Sure
  <1> QED BY <1>2, <1>3

\* The answer for a state of the teacher, and for one that is sure to have one.
LEMMA OptActionFacts ==
    ASSUME IInv, IsTeacher, pc = "solve", OptSolved
    PROVE  /\ OptAction # NoAction => Sure(ask)
           /\ Sure(ask) => OptAction # NoAction
           /\ OptAction # NoAnswer
  <1> DEFINE accepted == IF planner.engine = "lrtdp" THEN space.fringe \cup labels.opt ELSE State
  <1>1. ask \in space.states /\ ask \in State /\ v \in Bounded
    BY DEF IInv, Types, Inside, SpaceOK
  <1>2. OptAction # NoAction <=> Way(v, space.fringe, ask, accepted)
    <2>1. OptAction = ConstGreedyAction(v, space.fringe, ask, accepted)
      BY DEF OptAction
    <2> HIDE DEF accepted
    <2> QED BY <1>1, <2>1, WayIsFound
  <1>3. planner.engine = "lrtdp" => GoalsOf("opt") = space.fringe /\ Accepted("opt") = accepted
    BY DEF GoalsOf, Accepted, Settled
  <1>4. planner.engine # "lrtdp" => sweep.solved /\ accepted = State
    BY DEF OptSolved
  <1>5. Sure(ask) <=> Way(v, space.fringe, ask, accepted)
    BY <1>1, <1>3, <1>4 DEF Sure
  <1>6. OptAction # NoAnswer
    BY <1>1, SpaceAnswer, ActionsFacts
  <1> QED BY <1>2, <1>5, <1>6

LEMMA OthersTrusted ==
    ASSUME IInv, Trusted, ~IsTeacher, [Next]_vars PROVE Trusted'
  <1>1. ~IsTeacher'
    BY SamePlanner DEF IsTeacher
  <1>2. call \notin {"rollout", "envelope", "q_values", "trace", "value_error"}
    BY DEF Trusted, NoValueError, IInv, Control
  <1>3. call' # "value_error"
    <2>1. ASSUME NEW s, ExpertPolicyRollout(s) \/ ExtractPolicyEnvelope(s) \/ QValues(s)
          PROVE  FALSE
      BY <1>2, <2>1, Zenon DEF ExpertPolicyRollout, ExtractPolicyEnvelope, BeginTrace, QValues
    <2>2. UNCHANGED vars \/ UNCHANGED teacherVars \/ AskPlanner => call' = call
      BY DEF vars, teacherVars, AskPlanner
    <2>3. ~Timeout /\ ~RolloutStep /\ ~EnvelopeStep /\ ~Listed /\ ~TraceDone /\ ~QValueStep
      BY <1>2, Zenon DEF Timeout, RolloutStep, EnvelopeStep, Listed, TraceDone, QValueStep
    <2>4. Train \/ NoTraining \/ SimulateRound \/ TrainingCut =>
             call' \in {"training", "practice", "none", "round"}
      BY DEF Train, NoTraining, SimulateRound, TrainingCut
    <2>5. RoundStep => call' \in {call, "none"}
      BY DEF RoundStep, LeaveRound
    <2> QED BY <1>2, <2>1, <2>2, <2>3, <2>4, <2>5 DEF Next
  <1> QED BY <1>1, <1>3 DEF Trusted, NoValueError

\* Steps that leave the call and its lists alone; then steps that read an
\* answer, or begin or end a call, while the planner is idle.
LEMMA CallKept ==
    ASSUME IInv, IInv', LabInv, Trusted, IsTeacher, [Next]_vars,
           UNCHANGED <<call, listed, todo, asked, act>>,
           \/ UNCHANGED answer
           \/ answer' = Deadline
           \/ pc = "solve" /\ OptSolved /\ answer' = OptAction,
           planner.engine # "lrtdp" => pc' \notin {"trial", "label", "check"}
    PROVE  Trusted'
  <1>1. UNCHANGED planner /\ \A s : Sure(s) => Sure(s)'
    BY SamePlanner, SureKept
  <1>2. NoValueError' /\ \A s \in listed' : Sure(s) /\ Sure(s)'
    BY <1>1 DEF Trusted, NoValueError
  <1>3. ASSUME pc = "solve", OptSolved, answer' = OptAction
        PROVE  /\ answer' # NoAction => Sure(Last(todo))
               /\ Sure(Last(todo)) => answer' # NoAction
    <2>1. ask = Last(todo)
      BY <1>3 DEF IInv, Control, Serving, RoundIsOn
    <2> QED BY <1>3, <2>1, OptActionFacts
  <1>4. FirstIsSure'
    BY <1>2, <1>3 DEF Trusted, FirstIsSure
  <1>5. pc' = "idle" /\ answer' \notin {NoAnswer, Deadline, NoAction} => Sure(Last(todo))
    BY <1>3 DEF Trusted, IInv, Control
  <1> QED BY <1>1, <1>2, <1>4, <1>5 DEF Trusted, IsTeacher

LEMMA CallStep ==
    ASSUME IInv, IInv', LabInv, Trusted, IsTeacher, [Next]_vars, pc' = "idle", answer' = NoAnswer,
           call' \in {"none", "rollout", "envelope", "trace"} \/ (call' = "q_values" /\ FirstIsSure'),
           \A s \in listed' : Sure(s)
    PROVE  Trusted'
  <1>1. UNCHANGED planner /\ \A s : Sure(s) => Sure(s)'
    BY SamePlanner, SureKept
  <1>2. FirstIsSure'
    BY DEF FirstIsSure
  <1> QED BY <1>1, <1>2 DEF Trusted, NoValueError, IsTeacher

LEMMA TeacherTrusted ==
    ASSUME IInv, IInv', LabInv, Trusted, IsTeacher, [Next]_vars PROVE Trusted'
  <1>1. CASE UNCHANGED vars
    <2>1. UNCHANGED <<planner, pc, answer, call, listed, todo, asked, act>>
      BY <1>1 DEF vars, plannerVars, lrtdpVars, teacherVars
    <2> QED BY <2>1, CallKept DEF Trusted
  <1>2. CASE PlannerStep /\ UNCHANGED teacherVars
    <2>1. UNCHANGED <<call, listed, todo, asked, act>>
      BY <1>2 DEF teacherVars
    <2>2. ~RoundIsOn /\ pc # "ssipp" /\ planner.name = "opt" /\ root = NoState
      BY DEF IInv, Control, IsTeacher
    <2>3. CASE SolveStep
      <3>1. UNCHANGED answer /\ (planner.engine # "lrtdp" => pc' \notin {"trial", "label", "check"})
        <4>1. UNCHANGED answer
          BY <2>3, Zenon DEF SolveStep, StartTrial, EndTrial, TrialStep, Label, CheckNode, CheckEnd, Sweep
        <4>2. planner.engine # "lrtdp" => Sweep /\ UNCHANGED pc /\ pc = "solve"
          <5>1. planner.engine # "lrtdp" => pc \notin {"trial", "label", "check"}
            BY DEF Trusted
          <5> QED BY <2>3, <5>1, Zenon DEF SolveStep, StartTrial, EndTrial, TrialStep, Label,
                                           CheckNode, CheckEnd, Sweep
        <4> QED BY <4>1, <4>2
      <3> QED BY <2>1, <3>1, CallKept
    <2>4. CASE DecideAction
      <3>1. UNCHANGED answer /\ pc' = "solve"
        BY <2>2, <2>4 DEF DecideAction
      <3> QED BY <2>1, <3>1, CallKept
    <2>5. CASE Solved
      <3>1. pc = "solve" /\ OptSolved /\ answer' = OptAction /\ pc' = "idle"
        BY <2>2, <2>5 DEF Solved, Return
      <3> QED BY <2>1, <3>1, CallKept
    <2>6. ~Round /\ ~RoundEnded /\ ~Turn /\ ~SSiPPDecides
      BY <2>2 DEF Round, RoundEnded, Turn, SSiPPDecides, RoundIsOn
    <2> QED BY <1>2, <2>3, <2>4, <2>5, <2>6 DEF PlannerStep
  <1>3. CASE DeadlineReached /\ UNCHANGED teacherVars
    BY <1>3, CallKept DEF DeadlineReached, teacherVars
  <1>4. CASE AskPlanner
    BY <1>4, CallKept DEF AskPlanner, Ask, teacherVars
  <1>5. CASE Timeout
    BY <1>5, CallStep DEF Timeout, Read, Answered
  <1>6. CASE RolloutStep
    <2>1. /\ pc = "idle" /\ pc' = "idle" /\ answer \notin {NoAnswer, Deadline} /\ answer' = NoAnswer
          /\ call' = "rollout"
          /\ \/ UNCHANGED listed
             \/ answer # NoAction /\ listed' = listed \cup {Last(todo)}
      BY <1>6 DEF RolloutStep, Answered, Read
    <2>2. \A s \in listed' : Sure(s)
      BY <2>1 DEF Trusted
    <2> QED BY <2>1, <2>2, CallStep
  <1>7. CASE EnvelopeStep
    <2>1. /\ pc = "idle" /\ pc' = "idle" /\ answer \notin {NoAnswer, Deadline} /\ answer' = NoAnswer
          /\ call' = "envelope"
          /\ listed' = IF answer = NoAction THEN listed ELSE listed \cup {Last(todo)}
      BY <1>7, Zenon DEF EnvelopeStep, Answered, Read
    <2>2. \A s \in listed' : Sure(s)
      BY <2>1 DEF Trusted
    <2> QED BY <2>1, <2>2, CallStep
  <1>8. CASE Listed \/ TraceDone
    <2>1. /\ (call # "none" /\ call \notin Asking) \/ pc = "idle"
          /\ call' \in {"trace", "none"} /\ UNCHANGED listed /\ UNCHANGED plannerVars
      BY <1>8 DEF Listed, TraceDone, Asking
    <2>2. pc = "idle" /\ answer' = NoAnswer
      <3>1. CASE Listed
        BY <3>1 DEF Listed, IInv, Control, plannerVars
      <3>2. CASE TraceDone
        BY <3>2, IdleFacts DEF TraceDone, Asking, plannerVars
      <3> QED BY <1>8, <3>1, <3>2
    <2> QED BY <2>1, <2>2, CallStep DEF plannerVars, Trusted
  <1>9. CASE QValueStep
    <2>1. /\ pc = "idle" /\ pc' = "idle" /\ answer' = NoAnswer /\ answer # Deadline /\ UNCHANGED listed
          /\ call = "q_values" /\ todo # <<>> /\ todo \in Seq(State)
      BY <1>9, AnswerFacts DEF QValueStep, Answered, Read
    <2> DEFINE first == Len(todo) = Cardinality(Succ(asked, act)) + 1
    <2>2. /\ first => answer # NoAction
          /\ Len(todo) <= Cardinality(Succ(asked, act)) + 1
      BY <2>1 DEF Trusted, FirstIsSure
    <2>3. /\ call' \in {"q_values", "trace"} /\ todo' = Front(todo)
          /\ call' = "q_values" => UNCHANGED <<asked, act>>
      <3> DEFINE error == first /\ answer = NoAction
      <3>1. /\ todo' = Front(todo)
            /\ call' = CASE error -> "value_error"
                         [] ~error /\ Len(todo) > 1 -> "q_values"
                         [] OTHER -> "trace"
            /\ call' = "q_values" => UNCHANGED <<asked, act>>
        BY <1>9, Zenon DEF QValueStep
      <3>2. ~error
        BY <2>2
      <3> HIDE DEF error
      <3> QED BY <3>1, <3>2, Zenon
    <2> HIDE DEF first
    <2>4. call' = "q_values" => FirstIsSure'
      <3>1. Len(todo) \in Nat /\ Len(Front(todo)) = Len(todo) - 1
        BY <2>1, Ends
      <3>2. Cardinality(Succ(asked, act)) \in Nat
        BY <2>1 DEF Trusted, FirstIsSure
      <3> QED BY <2>2, <2>3, <3>1, <3>2 DEF FirstIsSure
    <2> QED BY <2>1, <2>3, <2>4, CallStep DEF Trusted
  <1>10. ASSUME NEW s \in Roots, ExpertPolicyRollout(s) \/ ExtractPolicyEnvelope(s) PROVE Trusted'
    <2>1. /\ call = "none" /\ pc = "idle" /\ call' \in {"none", "rollout", "envelope"}
          /\ UNCHANGED listed /\ UNCHANGED plannerVars
      BY <1>10 DEF ExpertPolicyRollout, ExtractPolicyEnvelope, BeginTrace
    <2> QED BY <2>1, IdleFacts, CallStep DEF plannerVars, Asking, Trusted
  <1>11. ASSUME NEW s \in State, QValues(s) PROVE Trusted'
    <2> DEFINE missing == {a \in Range(Applicable[s]) : _qv_cache[<<s, a>>] = NoQ}
    <2>1. /\ call = "trace" /\ s \in listed /\ UNCHANGED plannerVars
          /\ \/ call' = "none" /\ listed' = {}
             \/ listed' = listed \ {s} /\ UNCHANGED call
             \/ /\ missing # {} /\ call' = "q_values" /\ UNCHANGED listed
                /\ asked' = s /\ act' = (CHOOSE a \in missing : TRUE)
                /\ todo' = SetToSeq(Succ(s, act')) \o <<s>>
      BY <1>11, Zenon DEF QValues
    <2>2. missing # {} => (CHOOSE a \in missing : TRUE) \in Range(Applicable[s])
      OBVIOUS
    <2> HIDE DEF missing
    <2>3. pc = "idle" /\ answer = NoAnswer
      BY <2>1, IdleFacts DEF Asking
    <2>4. CASE call' = "q_values"
      <3>1. /\ asked' = s /\ act' \in Range(Applicable[s]) /\ UNCHANGED listed
            /\ todo' = SetToSeq(Succ(s, act')) \o <<s>>
        BY <2>1, <2>2, <2>4
      <3>2. PICK a \in Range(Applicable[s]) : a = act'
        BY <3>1
      <3>3. /\ SetToSeq(Succ(s, a)) \in Seq(State) /\ Len(SetToSeq(Succ(s, a))) = Cardinality(Succ(s, a))
        <4>1. Succ(s, a) \subseteq State
          BY Ahead
        <4>2. IsFiniteSet(Succ(s, a))
          BY <4>1, TaskAssumption, FS_Subset
        <4> HIDE DEF Succ
        <4> QED BY <4>1, <4>2, SetToSeqFacts
      <3>4. Len(todo') = Cardinality(Succ(s, a)) + 1 /\ Last(todo') = s
        BY <3>1, <3>2, <3>3 DEF Last
      <3>5. answer' = NoAnswer /\ NoAnswer # NoAction /\ Cardinality(Succ(s, a)) \in Nat
        BY <2>1, <2>3, <3>3, ActionsFacts DEF plannerVars
      <3>6. FirstIsSure'
        BY <2>1, <3>1, <3>2, <3>4, <3>5 DEF FirstIsSure
      <3> QED BY <2>1, <2>3, <2>4, <3>1, <3>5, <3>6, CallStep DEF plannerVars, Trusted
    <2>5. CASE call' # "q_values"
      BY <2>1, <2>3, <2>5, CallStep DEF plannerVars, Trusted
    <2> QED BY <2>4, <2>5
  <1>12. ~Train /\ ~NoTraining /\ ~SimulateRound /\ ~RoundStep /\ ~TrainingCut
    BY DEF Train, NoTraining, SimulateRound, RoundStep, Training, TrainingCut, Trusted
  <1> QED BY <1>1, <1>2, <1>3, <1>4, <1>5, <1>6, <1>7, <1>8, <1>9, <1>10, <1>11, <1>12 DEF Next

\* Trusted holds in every state that is reached.
THEOREM SpecTrusted == Spec => []Trusted
  <1>1. Init => Trusted
    BY DEF Init, Trusted, NoValueError, FirstIsSure, CreatePlanner
  <1>2. IInv /\ IInv' /\ LabInv /\ Trusted /\ [Next]_vars => Trusted'
    BY TeacherTrusted, OthersTrusted
  <1> QED BY <1>1, <1>2, SpecIInv, SpecLabInv, PTL DEF Spec

\* NoValueError, the first part of CachedQ: hp_q_value finds an action for every
\* state that planner_trace has listed, also after deadlines in between.
THEOREM NoValueErrorThm == Spec => []NoValueError
  <1>1. Trusted => NoValueError
    BY DEF Trusted
  <1> QED BY <1>1, SpecTrusted, PTL

-----------------------------------------------------------------------------
(* The teacher: hp_q_value sums up a lower bound.                          *)

\* What the successors add to a Q-value, at most, and the sum over some.
Terms(s, a) == [t \in Succ(s, a) |-> Outcome[<<s, a>>][t] * Optimal[t]]
AtMost(s, a, T) == Cost[<<s, a>>] * One + Sums(Terms(s, a))[T]

LEMMA TermsFacts ==
    ASSUME NEW s \in State, NEW a \in Range(Applicable[s])
    PROVE  /\ IsFiniteSet(Succ(s, a)) /\ Succ(s, a) \subseteq State
           /\ Terms(s, a) \in [Succ(s, a) -> Nat] /\ Cost[<<s, a>>] * One \in Nat
           /\ \A T \in SUBSET Succ(s, a) : Sums(Terms(s, a))[T] \in Nat
           /\ Sums(Terms(s, a))[{}] = 0
           /\ \A T \in SUBSET Succ(s, a) : \A y \in T :
                 Sums(Terms(s, a))[T] = Terms(s, a)[y] + Sums(Terms(s, a))[T \ {y}]
  <1>1. /\ Succ(s, a) \subseteq State /\ Cost[<<s, a>>] \in Nat /\ One \in Nat
        /\ \A t \in Succ(s, a) : Outcome[<<s, a>>][t] \in Nat /\ Optimal[t] \in Nat
    BY TaskAssumption, ValuesAssumption
  <1>2. IsFiniteSet(Succ(s, a))
    BY <1>1, TaskAssumption, FS_Subset
  <1> HIDE DEF Succ
  <1>3. Terms(s, a) \in [Succ(s, a) -> Nat]
    BY <1>1 DEF Terms
  <1>4. /\ Sums(Terms(s, a)) \in [SUBSET Succ(s, a) -> Nat] /\ Sums(Terms(s, a))[{}] = 0
    BY <1>2, <1>3, SumsFacts
  <1> DEFINE f == Terms(s, a)
  <1> HIDE DEF f
  <1>5. \A T \in SUBSET Succ(s, a) : \A y \in T : Sums(f)[T] = f[y] + Sums(f)[T \ {y}]
    <2> TAKE T \in SUBSET Succ(s, a)
    <2> TAKE y \in T
    <2>1. f \in [Succ(s, a) -> Nat]
      BY <1>3 DEF f
    <2> QED BY <1>2, <2>1, SumsAdd
  <1> QED BY <1>1, <1>2, <1>3, <1>4, <1>5 DEF f

\* A sum that is at most the one over all successors makes no Q-value that is
\* above the optimal one.
LEMMA QValueOfSum ==
    ASSUME NEW s \in State, NEW a \in Range(Applicable[s]), NEW total \in Nat,
           total <= AtMost(s, a, Succ(s, a))
    PROVE  Min({total \div One, dead_end_value}) <= OptimalQ(s, a)
  <1> DEFINE S == Succ(s, a)
             W == Outcome[<<s, a>>]
             c == Cost[<<s, a>>]
             f == Terms(s, a)
             g == [t \in S |-> W[t] * Worth(Optimal, Goal, t)]
             x == Sums(f)[S]
             y == Sums(g)[S]
  <1>1. /\ S \subseteq State /\ c \in Nat /\ \A t \in S : W[t] \in Nat
        /\ One \in Nat \ {0} /\ dead_end_value \in Nat
    BY TaskAssumption
  <1>2. IsFiniteSet(S) /\ f \in [S -> Nat] /\ \A t \in S : f[t] = W[t] * Optimal[t]
    BY TermsFacts DEF Terms
  <1>3. total <= c * One + x
    BY DEF AtMost
  <1>4. OptimalQ(s, a) = Min({c + SumFunction(g) \div One, dead_end_value})
    BY Zenon DEF OptimalQ, QValue, Worth, c, S, W
  <1> HIDE DEF S, W, c, f
  <1>5. ASSUME NEW t \in S PROVE g[t] \in Nat /\ f[t] <= g[t]
    <2>1. Worth(Optimal, Goal, t) \in Nat /\ Optimal[t] \in Nat /\ Optimal[t] <= Worth(Optimal, Goal, t)
      <3>1. t \in State /\ Optimal[t] \in Nat /\ Optimal[t] % FloatUnit = 0 /\ (t \in Goal => Optimal[t] = 0)
        BY <1>1, ValuesAssumption
      <3> QED BY <3>1 DEF Worth, TerminalCost
    <2>2. W[t] \in Nat
      BY <1>1
    <2>3. W[t] * Worth(Optimal, Goal, t) \in Nat /\ W[t] * Optimal[t] <= W[t] * Worth(Optimal, Goal, t)
      BY <2>1, <2>2, TimesMonotone
    <2> QED BY <1>2, <2>3
  <1>6. g \in [S -> Nat]
    BY <1>5
  <1>7. SumFunction(g) = y
    <2>1. DOMAIN g = S
      OBVIOUS
    <2> HIDE DEF g
    <2>2. SumFunction(g) = Sums(g)[DOMAIN g]
      BY Zenon DEF SumFunction, SumFunctionOnSet, FoldFunctionOnSet, MapThenFoldSet, Sums
    <2> QED BY <2>1, <2>2
  <1>8. x \in Nat /\ y \in Nat /\ x <= y
    <2> HIDE DEF g
    <2> QED BY <1>2, <1>5, <1>6, SumsMonotone
  <1> HIDE DEF g, x, y
  <1>9. total \div One \in Nat /\ total \div One <= c + y \div One
    <2> DEFINE q == total \div One
               p == y \div One
    <2>1. /\ q \in Nat /\ p \in Nat /\ One * q <= total /\ y < One * p + One
      BY <1>1, <1>8
    <2> HIDE DEF p, q
    <2>2. ASSUME q > c + p PROVE FALSE
      <3>1. PICK d \in Nat : q = c + p + 1 + d
        <4>1. q - c - p - 1 \in Nat /\ q = c + p + 1 + (q - c - p - 1)
          BY <1>1, <2>1, <2>2
        <4> QED BY <4>1
      <3>2. One * q = One * c + One * p + One + One * d
        BY <1>1, <2>1, <3>1
      <3>3. One * c \in Nat /\ One * p \in Nat /\ One * d \in Nat /\ One * c = c * One
        BY <1>1, <2>1
      <3> QED BY <1>1, <1>3, <1>8, <2>1, <3>2, <3>3
    <2>3. q <= c + p
      BY <1>1, <2>1, <2>2
    <2> QED BY <2>1, <2>3 DEF p, q
  <1> DEFINE m == total \div One
             n == c + y \div One
  <1>10. m \in Nat /\ n \in Nat /\ m <= n
    <2>1. y \div One \in Nat
      BY <1>1, <1>8
    <2> QED BY <1>1, <1>9, <2>1
  <1>11. OptimalQ(s, a) = Min({n, dead_end_value})
    BY <1>4, <1>7
  <1> HIDE DEF m, n
  <1>12. /\ Min({m, dead_end_value}) <= m /\ Min({m, dead_end_value}) <= dead_end_value
         /\ Min({m, dead_end_value}) \in Nat /\ Min({n, dead_end_value}) \in {n, dead_end_value}
    BY <1>1, <1>10, MinFacts
  <1>13. Min({m, dead_end_value}) <= Min({n, dead_end_value})
    BY <1>1, <1>10, <1>12
  <1> QED BY <1>11, <1>13 DEF m

\* The successors that hp_q_value has still to ask about; the others are in acc.
StillAsked == IF Len(todo) = Cardinality(Succ(asked, act)) + 1 THEN Front(todo) ELSE todo
SumIsLow ==
    call = "q_values" =>
    /\ asked \in State /\ act \in Range(Applicable[asked])
    /\ StillAsked \in Seq(Succ(asked, act)) /\ IsInjective(StillAsked)
    /\ acc \in Nat /\ acc <= AtMost(asked, act, Succ(asked, act) \ Range(StillAsked))

QInv == _qv_cache \in [AllQ -> Int] /\ AdmissibleQ /\ SumIsLow

LEMMA QValuesLow ==
    ASSUME IInv, QInv, NEW s \in State, QValues(s) PROVE QInv'
  <1> DEFINE missing == {a \in Range(Applicable[s]) : _qv_cache[<<s, a>>] = NoQ}
  <1>1. /\ call = "trace" /\ UNCHANGED _qv_cache
        /\ \/ call' \in {"none", "trace"}
           \/ /\ missing # {} /\ call' = "q_values" /\ asked' = s
              /\ act' = (CHOOSE a \in missing : TRUE) /\ acc' = Cost[<<s, act'>>] * One
              /\ todo' = SetToSeq(Succ(s, act')) \o <<s>>
    <2>1. /\ call = "trace" /\ UNCHANGED _qv_cache
          /\ \/ call' = "none" \/ call' = call
             \/ /\ missing # {} /\ call' = "q_values" /\ asked' = s
                /\ act' = (CHOOSE a \in missing : TRUE) /\ acc' = Cost[<<s, act'>>] * One
                /\ todo' = SetToSeq(Succ(s, act')) \o <<s>>
      BY Zenon DEF QValues
    <2> HIDE DEF missing
    <2> QED BY <2>1
  <1>2. missing # {} => (CHOOSE a \in missing : TRUE) \in Range(Applicable[s])
    OBVIOUS
  <1> HIDE DEF missing
  <1>3. AdmissibleQ' /\ _qv_cache' \in [AllQ -> Int]
    BY <1>1 DEF QInv, AdmissibleQ
  <1>4. ASSUME call' = "q_values" PROVE SumIsLow'
    <2>1. PICK a \in Range(Applicable[s]) :
             /\ asked' = s /\ act' = a /\ acc' = Cost[<<s, a>>] * One
             /\ todo' = SetToSeq(Succ(s, a)) \o <<s>>
      BY <1>1, <1>2, <1>4
    <2> DEFINE S == Succ(s, a)
               q == SetToSeq(S)
    <2>2. IsFiniteSet(S) /\ Cost[<<s, a>>] * One \in Nat /\ Sums(Terms(s, a))[{}] = 0
      BY TermsFacts
    <2> HIDE DEF S
    <2>3. q \in Seq(S) /\ Range(q) = S /\ Len(q) = Cardinality(S) /\ IsInjective(q)
      BY <2>2, SetToSeqFacts
    <2> HIDE DEF q
    <2>4. Len(q \o <<s>>) = Cardinality(S) + 1 /\ Front(q \o <<s>>) = q
      <3>1. Len(q \o <<s>>) = Len(q) + 1 /\ Len(q) \in Nat
        BY <2>3
      <3>2. Front(q \o <<s>>) = [i \in 1..Len(q) |-> q[i]]
        BY <2>3, <3>1 DEF Front
      <3>3. q = [i \in 1..Len(q) |-> q[i]]
        BY <2>3
      <3> QED BY <2>3, <3>1, <3>2, <3>3
    <2>5. StillAsked' = q
      BY <2>1, <2>4 DEF StillAsked, S, q
    <2>6. acc' = AtMost(s, a, S \ Range(q)) /\ acc' \in Nat
      <3>1. S \ Range(q) = {}
        BY <2>3
      <3>2. AtMost(s, a, S \ Range(q)) = Cost[<<s, a>>] * One + 0
        BY <2>2, <3>1, Zenon DEF AtMost
      <3> QED BY <2>1, <2>2, <3>2
    <2>7. asked' = s /\ act' = a /\ Succ(asked', act') = S
      BY <2>1 DEF S
    <2> QED BY <2>3, <2>5, <2>6, <2>7 DEF SumIsLow
  <1> QED BY <1>3, <1>4 DEF QInv, SumIsLow

LEMMA QValueStepLow ==
    ASSUME IInv, Trusted, QInv, QValueStep PROVE QInv'
  <1> DEFINE S == Succ(asked, act)
             first == Len(todo) = Cardinality(S) + 1
             t == Last(todo)
             total == IF first THEN acc ELSE acc + Contribution(t)
             f == Terms(asked, act)
  <1>1. /\ call = "q_values" /\ todo \in Seq(State) /\ todo # <<>> /\ todo' = Front(todo)
        /\ call' \in {"value_error", "q_values", "trace"}
        /\ call' = "trace" => Len(todo) <= 1
        /\ _qv_cache' = IF call' # "trace" THEN _qv_cache
                        ELSE [_qv_cache EXCEPT ![<<asked, act>>] = Min({total \div One, dead_end_value})]
        /\ call' = "q_values" => acc' = total /\ UNCHANGED <<asked, act>>
    <2> DEFINE error == first /\ answer = NoAction
    <2>1. /\ Answered /\ answer # Deadline /\ call = "q_values" /\ todo' = Front(todo)
          /\ call' = CASE error -> "value_error"
                       [] ~error /\ Len(todo) > 1 -> "q_values"
                       [] OTHER -> "trace"
          /\ _qv_cache' = IF call' # "trace" THEN _qv_cache
                          ELSE [_qv_cache EXCEPT ![<<asked, act>>] = Min({total \div One, dead_end_value})]
          /\ call' = "q_values" => acc' = total /\ UNCHANGED <<asked, act>>
      BY Zenon DEF QValueStep
    <2> HIDE DEF error, total
    <2>2. todo \in Seq(State) /\ todo # <<>>
      BY <2>1, AnswerFacts
    <2>3. /\ call' \in {"value_error", "q_values", "trace"}
          /\ call' = "trace" => ~(Len(todo) > 1)
      BY <2>1, Zenon
    <2>4. Len(todo) \in Nat
      BY <2>2
    <2> QED BY <2>1, <2>2, <2>3, <2>4
  <1>2. /\ asked \in State /\ act \in Range(Applicable[asked]) /\ acc \in Nat
        /\ StillAsked \in Seq(S) /\ IsInjective(StillAsked)
        /\ acc <= AtMost(asked, act, S \ Range(StillAsked))
    BY <1>1 DEF QInv, SumIsLow
  <1>3. /\ IsFiniteSet(S) /\ S \subseteq State /\ f \in [S -> Nat] /\ Cost[<<asked, act>>] * One \in Nat
        /\ \A T \in SUBSET S : Sums(f)[T] \in Nat
        /\ \A T \in SUBSET S : \A y \in T : Sums(f)[T] = f[y] + Sums(f)[T \ {y}]
    BY <1>2, TermsFacts
  <1>4. Cardinality(S) \in Nat /\ Len(todo) <= Cardinality(S) + 1
    BY <1>1 DEF Trusted, FirstIsSure, IInv, Control
  <1>5. StillAsked = IF first THEN Front(todo) ELSE todo
    BY DEF StillAsked
  <1>6. /\ todo' \in Seq(S) /\ IsInjective(todo') /\ total \in Nat
        /\ total <= AtMost(asked, act, S \ Range(todo'))
    <2>1. CASE first
      BY <1>1, <1>2, <1>5, <2>1
    <2>2. CASE ~first
      <3> DEFINE w == Outcome[<<asked, act>>][t]
                 R == S \ Range(todo)
                 R2 == S \ Range(Front(todo))
      <3>1. todo = StillAsked /\ total = acc + Contribution(t)
        BY <1>5, <2>2
      <3> HIDE DEF S, first, total, t, f
      <3>2. /\ Front(todo) \in Seq(S) /\ IsInjective(Front(todo)) /\ Last(todo) \in S
            /\ Last(todo) \in Range(todo) /\ Range(Front(todo)) = Range(todo) \ {Last(todo)}
        <4>1. todo \in Seq(S) /\ IsInjective(todo)
          BY <1>2, <3>1
        <4> QED BY <1>1, <4>1, FrontOfDistinct, Ends
      <3>3. t \in S /\ R2 \in SUBSET S /\ t \in R2 /\ R2 \ {t} = R
        BY <3>2 DEF t
      <3> HIDE DEF R, R2
      <3>4. Sums(f)[R2] = f[t] + Sums(f)[R]
        BY <1>3, <3>3
      <3>5. f[t] = w * Optimal[t] /\ Contribution(t) = w * v[t]
        BY <3>3 DEF f, Terms, S, Contribution
      <3>6. w \in Nat /\ v[t] \in Nat /\ Optimal[t] \in Nat /\ v[t] <= Optimal[t]
        <4>1. w \in Nat
          BY <1>2, <3>3, TaskAssumption DEF S
        <4>2. t \in State /\ v \in Bounded
          BY <1>3, <3>3 DEF IInv, Types
        <4> QED BY <4>1, <4>2, ValuesAssumption DEF Bounded
      <3> HIDE DEF w
      <3>7. w * v[t] \in Nat /\ w * Optimal[t] \in Nat /\ w * v[t] <= w * Optimal[t]
        BY <3>6, TimesMonotone
      <3>8. /\ acc \in Nat /\ acc <= Cost[<<asked, act>>] * One + Sums(f)[R]
            /\ AtMost(asked, act, R2) = Cost[<<asked, act>>] * One + Sums(f)[R2]
            /\ Sums(f)[R] \in Nat /\ Sums(f)[R2] \in Nat
        <4>1. acc <= AtMost(asked, act, R)
          BY <1>2, <3>1 DEF R
        <4>2. R \in SUBSET S
          BY DEF R
        <4> QED BY <1>2, <1>3, <3>3, <4>1, <4>2 DEF AtMost, f
      <3>9. total \in Nat /\ total <= AtMost(asked, act, R2)
        BY <1>3, <3>1, <3>4, <3>5, <3>7, <3>8
      <3> QED BY <1>1, <3>2, <3>9 DEF R2
    <2> QED BY <2>1, <2>2
  <1> HIDE DEF S, first, total
  <1>7. SumIsLow'
    <2> SUFFICES ASSUME call' = "q_values" PROVE SumIsLow'
      BY DEF SumIsLow
    <2>1. asked' = asked /\ act' = act /\ acc' = total
      BY <1>1
    <2>2. Len(todo') # Cardinality(S) + 1
      <3>1. Len(Front(todo)) = Len(todo) - 1 /\ Len(todo) \in Nat
        BY <1>1, Ends
      <3> QED BY <1>1, <1>4, <3>1
    <2>3. StillAsked' = todo' /\ Succ(asked', act') = S
      BY <2>1, <2>2 DEF StillAsked, S
    <2> QED BY <1>2, <1>6, <2>1, <2>3 DEF SumIsLow
  <1>8. AdmissibleQ' /\ _qv_cache' \in [AllQ -> Int]
    <2>1. CASE call' # "trace"
      BY <1>1, <2>1 DEF QInv, AdmissibleQ
    <2>2. CASE call' = "trace"
      <3> DEFINE x == Min({total \div One, dead_end_value})
      <3>1. _qv_cache' = [_qv_cache EXCEPT ![<<asked, act>>] = x]
        BY <1>1, <2>2
      <3>2. todo' = <<>>
        <4>1. Len(Front(todo)) = Len(todo) - 1 /\ Len(todo) \in Nat /\ Front(todo) \in Seq(State)
          BY <1>1, Ends
        <4>2. Len(Front(todo)) = 0
          BY <1>1, <2>2, <4>1
        <4> QED BY <1>1, <4>1, <4>2
      <3>3. total <= AtMost(asked, act, Succ(asked, act))
        <4>1. S \ Range(<<>>) = S
          BY DEF Range
        <4> QED BY <1>6, <3>2, <4>1 DEF S
      <3>4. x <= OptimalQ(asked, act)
        BY <1>2, <1>6, <3>3, QValueOfSum
      <3>5. x \in Int
        <4>1. total \div One \in Nat /\ dead_end_value \in Nat
          BY <1>6, TaskAssumption
        <4> QED BY <4>1, MinFacts
      <3> HIDE DEF x
      <3>6. \A sa \in AllQ : _qv_cache'[sa] = IF sa = <<asked, act>> THEN x ELSE _qv_cache[sa]
        BY <3>1 DEF QInv
      <3>7. _qv_cache' \in [AllQ -> Int]
        BY <3>1, <3>5 DEF QInv
      <3>8. ASSUME NEW sa \in AllQ
            PROVE  _qv_cache'[sa] = NoQ \/ _qv_cache'[sa] <= OptimalQ(sa[1], sa[2])
        <4>1. CASE sa = <<asked, act>>
          BY <3>4, <3>6, <4>1
        <4>2. CASE sa # <<asked, act>>
          BY <3>6, <4>2 DEF QInv, AdmissibleQ
        <4> QED BY <4>1, <4>2
      <3> QED BY <3>7, <3>8 DEF AdmissibleQ, NoQ, OptimalQ
    <2> QED BY <2>1, <2>2
  <1> QED BY <1>7, <1>8 DEF QInv

LEMMA QKept ==
    ASSUME QInv, UNCHANGED _qv_cache,
           call' # "q_values" \/ UNCHANGED <<call, asked, act, acc, todo>>
    PROVE  QInv'
  BY DEF QInv, AdmissibleQ, SumIsLow, StillAsked

LEMMA NextQInv ==
    ASSUME IInv, Trusted, QInv, [Next]_vars PROVE QInv'
  <1>1. ASSUME UNCHANGED teacherVars PROVE QInv'
    BY <1>1, QKept DEF teacherVars
  <1>2. CASE UNCHANGED vars
    BY <1>1, <1>2 DEF vars
  <1>3. CASE AskPlanner
    BY <1>1, <1>3 DEF AskPlanner
  <1>4. CASE Timeout \/ RolloutStep \/ EnvelopeStep \/ Listed \/ TraceDone
    <2>1. UNCHANGED _qv_cache /\ call' \in {"none", "rollout", "envelope", "trace"}
      BY <1>4, Zenon DEF Timeout, RolloutStep, EnvelopeStep, Listed, TraceDone
    <2> QED BY <2>1, QKept
  <1>5. CASE Train \/ NoTraining \/ SimulateRound \/ TrainingCut \/ RoundStep
    <2>1. UNCHANGED _qv_cache /\ call' # "q_values"
      BY <1>5 DEF Train, NoTraining, SimulateRound, TrainingCut, RoundStep, LeaveRound
    <2> QED BY <2>1, QKept
  <1>6. ASSUME NEW s \in Roots, ExpertPolicyRollout(s) \/ ExtractPolicyEnvelope(s) PROVE QInv'
    <2>1. UNCHANGED _qv_cache /\ call' \in {"none", "rollout", "envelope"}
      BY <1>6 DEF ExpertPolicyRollout, ExtractPolicyEnvelope, BeginTrace
    <2> QED BY <2>1, QKept
  <1> QED BY <1>1, <1>2, <1>3, <1>4, <1>5, <1>6, QValuesLow, QValueStepLow DEF Next

\* AdmissibleQ, a part of CachedQ: no Q-value that the teacher caches, and hands
\* to the trainer, is above the optimal one, although the values of the
\* successors are taken one after the other, with updates of the hash and
\* deadlines in between.
THEOREM AdmissibleQThm == Spec => []AdmissibleQ
  <1>1. Init => QInv
    BY DEF Init, QInv, AdmissibleQ, SumIsLow, NoQ
  <1>2. IInv /\ Trusted /\ QInv /\ [Next]_vars => QInv'
    BY NextQInv
  <1>3. QInv => AdmissibleQ
    BY DEF QInv
  <1> QED BY <1>1, <1>2, <1>3, SpecIInv, SpecTrusted, PTL DEF Spec
=============================================================================
