----------------------------- MODULE FoldLemmas -----------------------------
(***************************************************************************)
(* Induction and recursion for the proofs of the other modules: what holds *)
(* of sets of numbers, of the folds of the community modules and of sorted *)
(* sequences.  An induction is about a set that is shown to be everything, *)
(* and what a fold does in each step is a function, so that no lemma takes *)
(* an operator as a parameter.                                             *)
(***************************************************************************)
EXTENDS SequencesExt, FiniteSetsExt, Integers, FiniteSetTheorems,
        WellFoundedInduction, TLAPS

-----------------------------------------------------------------------------
(* Induction.                                                              *)

\* Every nonempty set of naturals has a least member.
LEMMA NaturalsHaveLeast ==
    ASSUME NEW S \in SUBSET Nat, S # {}
    PROVE  \E m \in S : \A n \in S : m <= n
<1> DEFINE R == OpToRel(<, Nat)
<1>1. PICK m \in S : \A n \in S : ~(<<n, m>> \in R)
      BY NatLessThanWellFounded, WFMin
<1>2. \A n \in S : ~(n < m)
      BY <1>1 DEF OpToRel
<1>3. QED BY <1>2

\* A set with 0 and the successor of each of its members, up to n, has all of 0..n.
LEMMA InductionUpTo ==
    ASSUME NEW n \in Nat, NEW S, 0 \in S,
           \A k \in 0..(n - 1) : k \in S => k + 1 \in S
    PROVE  \A k \in 0..n : k \in S
<1> DEFINE Missing == {k \in 0..n : k \notin S}
<1>1. SUFFICES ASSUME Missing # {} PROVE FALSE
      OBVIOUS
<1>2. PICK m \in Missing : \A k \in Missing : m <= k
  <2>1. Missing \in SUBSET Nat
        OBVIOUS
  <2> HIDE DEF Missing
  <2>2. QED BY <1>1, <2>1, NaturalsHaveLeast
<1>3. m # 0 /\ m - 1 \in 0..(n - 1) /\ m - 1 \notin Missing
      BY <1>2
<1>4. m - 1 \in S
      BY <1>3
<1>5. (m - 1) + 1 \in S
      BY <1>3, <1>4
<1>6. QED BY <1>2, <1>5

\* A set of subsets of S that has {} and, with all that is left of a set when one of
\* its members is taken out, the set itself, has every subset of S.
LEMMA AllSubsets ==
    ASSUME NEW S, IsFiniteSet(S), NEW Good, {} \in Good,
           \A s \in SUBSET S : s # {} /\ (\A x \in s : s \ {x} \in Good) => s \in Good
    PROVE  \A s \in SUBSET S : s \in Good
<1> DEFINE Sizes == {k \in Nat : \A s \in SUBSET S : Cardinality(s) = k => s \in Good}
<1>1. \A s \in SUBSET S : IsFiniteSet(s) /\ Cardinality(s) \in Nat
      BY FS_Subset, FS_CardinalityType
<1>2. 0 \in Sizes
      BY <1>1, FS_EmptySet
<1>3. ASSUME NEW k \in Nat, k \in Sizes PROVE k + 1 \in Sizes
  <2>1. SUFFICES ASSUME NEW s \in SUBSET S, Cardinality(s) = k + 1 PROVE s \in Good
        OBVIOUS
  <2>2. s # {}
    <3> HIDE DEF Sizes
    <3>1. k + 1 # 0
          OBVIOUS
    <3>2. QED BY <2>1, <3>1, FS_EmptySet
  <2>3. ASSUME NEW x \in s PROVE s \ {x} \in Good
    <3>1. Cardinality(s \ {x}) = k
          BY <1>1, <2>1, <2>3, FS_RemoveElement
    <3>2. QED BY <1>3, <3>1
  <2>4. QED BY <2>2, <2>3
<1>4. \A n \in Nat : \A k \in 0..n : k \in Sizes
  <2> SUFFICES ASSUME NEW n \in Nat PROVE \A k \in 0..n : k \in Sizes
      OBVIOUS
  <2> HIDE DEF Sizes
  <2> QED BY <1>2, <1>3, InductionUpTo
<1>5. QED
  <2> SUFFICES ASSUME NEW s \in SUBSET S PROVE s \in Good
      OBVIOUS
  <2>1. Cardinality(s) \in Nat /\ Cardinality(s) \in 0..Cardinality(s)
        BY <1>1
  <2>2. Cardinality(s) \in Sizes
    <3> HIDE DEF Sizes
    <3> QED BY <1>4, <2>1
  <2>3. QED BY <2>2

-----------------------------------------------------------------------------
(* Recursion.                                                              *)

\* The values on the way when one step is made after the other, from b on.
Walks(n, V, b, step) ==
    {h \in [0..n -> V] : h[0] = b /\ \A i \in 1..n : h[i] = step[<<i, h[i - 1]>>]}

\* There are such values, whatever a step does.
LEMMA StepsExist ==
    ASSUME NEW n \in Nat, NEW V, NEW b \in V, NEW step \in [(1..n) \X V -> V]
    PROVE  Walks(n, V, b, step) # {}
<1> DEFINE Upto(k, h) == h[0] = b /\ \A i \in 1..k : h[i] = step[<<i, h[i - 1]>>]
           Reached == {k \in 0..n : \E h \in [0..k -> V] : Upto(k, h)}
<1>1. 0 \in Reached
  <2> DEFINE h == [i \in 0..0 |-> b]
  <2>1. h \in [0..0 -> V]
        OBVIOUS
  <2>2. h[0] = b /\ \A i \in 1..0 : h[i] = step[<<i, h[i - 1]>>]
        OBVIOUS
  <2>3. 0 \in 0..n
        OBVIOUS
  <2> HIDE DEF h
  <2>4. QED BY <2>1, <2>2, <2>3
<1>2. ASSUME NEW k \in 0..(n - 1), k \in Reached PROVE k + 1 \in Reached
  <2>1. PICK h \in [0..k -> V] : Upto(k, h)
        BY <1>2
  <2> DEFINE v == step[<<k + 1, h[k]>>]
             g == [i \in 0..(k + 1) |-> IF i = k + 1 THEN v ELSE h[i]]
  <2>2. k + 1 \in 1..n /\ h[k] \in V
        OBVIOUS
  <2>3. v \in V
        BY <2>2
  <2>4. g \in [0..(k + 1) -> V]
    <3>1. \A i \in 0..(k + 1) : i # k + 1 => i \in 0..k
          OBVIOUS
    <3>2. QED BY <2>3, <3>1
  <2>5. g[0] = b
        BY <2>1
  <2>6. ASSUME NEW i \in 1..(k + 1) PROVE g[i] = step[<<i, g[i - 1]>>]
    <3>1. CASE i = k + 1
      <4>1. g[k + 1] = v /\ g[k] = h[k] /\ i - 1 = k
            BY <3>1
      <4> HIDE DEF g
      <4>2. QED BY <3>1, <4>1
    <3>2. CASE i # k + 1
      <4>1. i \in 1..k /\ i - 1 \in 0..k /\ i \in 0..(k + 1) /\ i - 1 \in 0..(k + 1)
            /\ i - 1 # k + 1
            BY <3>2
      <4>2. g[i] = h[i] /\ g[i - 1] = h[i - 1]
            BY <3>2, <4>1
      <4>3. h[i] = step[<<i, h[i - 1]>>]
            BY <2>1, <4>1
      <4> HIDE DEF g
      <4>4. QED BY <4>2, <4>3
    <3>3. QED BY <3>1, <3>2
  <2>7. k + 1 \in 0..n
        OBVIOUS
  <2> HIDE DEF g
  <2>8. QED BY <2>4, <2>5, <2>6, <2>7
<1>3. n \in Reached
  <2> HIDE DEF Reached
  <2> QED BY <1>1, <1>2, InductionUpTo
<1>4. QED BY <1>3 DEF Walks

\* The recursive function of MapThenFoldSet, when pick takes a member out of each set,
\* and that it exists.
Iterations(S, V, b, pick, step) ==
    {it \in [SUBSET S -> V] :
        it = [s \in SUBSET S |->
                 IF s = {} THEN b ELSE step[<<pick[s], it[s \ {pick[s]}]>>]]}

\* There is such an iteration: one step more is taken from each of a smaller set.
LEMMA FoldExists ==
    ASSUME NEW S, IsFiniteSet(S), NEW V, NEW b \in V, NEW pick,
           \A s \in SUBSET S : s # {} => pick[s] \in s,
           NEW step \in [S \X V -> V]
    PROVE  Iterations(S, V, b, pick, step) # {}
<1> DEFINE n == Cardinality(S)
           F == [SUBSET S -> V]
           Turn(it) == [s \in SUBSET S |->
                           IF s = {} THEN b ELSE step[<<pick[s], it[s \ {pick[s]}]>>]]
           turn == [p \in (1..(n + 1)) \X F |-> Turn(p[2])]
           const == [s \in SUBSET S |-> b]
<1>1. n \in Nat
      BY FS_CardinalityType
<1>2. ASSUME NEW it \in F PROVE Turn(it) \in F
  <2>1. ASSUME NEW s \in SUBSET S, s # {}
        PROVE  step[<<pick[s], it[s \ {pick[s]}]>>] \in V
    <3>1. pick[s] \in S /\ s \ {pick[s]} \in SUBSET S
          BY <2>1
    <3>2. it[s \ {pick[s]}] \in V
          BY <3>1
    <3>3. QED BY <3>1, <3>2
  <2>2. QED BY <2>1
<1>3. turn \in [(1..(n + 1)) \X F -> F]
      BY <1>2
<1>4. const \in F
      OBVIOUS
<1>5. PICK g \in [0..(n + 1) -> F] :
          g[0] = const /\ \A i \in 1..(n + 1) : g[i] = turn[<<i, g[i - 1]>>]
  <2>1. n + 1 \in Nat
        BY <1>1
  <2> DEFINE N == n + 1
  <2> HIDE DEF F, turn, const, n, N
  <2>2. /\ N \in Nat /\ N = n + 1
        /\ turn \in [(1..N) \X F -> F]
        BY <1>3, <2>1 DEF N
  <2>3. Walks(N, F, const, turn) # {}
        BY <1>4, <2>2, StepsExist
  <2>4. QED BY <2>2, <2>3 DEF Walks
<1>6. \A i \in 1..(n + 1) : g[i] = Turn(g[i - 1])
  <2> SUFFICES ASSUME NEW i \in 1..(n + 1) PROVE g[i] = Turn(g[i - 1])
      OBVIOUS
  <2>1. i - 1 \in 0..(n + 1) /\ g[i - 1] \in F
    <3> HIDE DEF F, n
    <3> QED BY <1>1
  <2>2. turn[<<i, g[i - 1]>>] = Turn(g[i - 1])
        BY <2>1
  <2>3. QED BY <1>5, <2>2
<1> DEFINE Settled == {k \in 0..n : \A s \in SUBSET S :
                                       Cardinality(s) <= k => g[k][s] = g[k + 1][s]}
<1>7. \A s \in SUBSET S : IsFiniteSet(s) /\ Cardinality(s) \in 0..n
      BY FS_Subset, FS_CardinalityType
<1>8. 0 \in Settled
  <2>1. SUFFICES ASSUME NEW s \in SUBSET S, Cardinality(s) <= 0 PROVE g[0][s] = g[1][s]
        BY <1>1
  <2>2. s = {}
        BY <1>7, <2>1, FS_EmptySet
  <2>3. g[1] = Turn(g[0])
    <3> HIDE DEF Turn, n
    <3>1. 1 \in 1..(n + 1) /\ 1 - 1 = 0
          BY <1>1
    <3>2. QED BY <1>6, <3>1
  <2>4. QED BY <1>5, <2>2, <2>3
<1>9. ASSUME NEW k \in 0..(n - 1), k \in Settled PROVE k + 1 \in Settled
  <2>1. SUFFICES ASSUME NEW s \in SUBSET S, Cardinality(s) <= k + 1
                 PROVE  g[k + 1][s] = g[k + 2][s]
        BY <1>1
  <2>2. g[k + 1] = Turn(g[k]) /\ g[k + 2] = Turn(g[k + 1])
    <3>1. k + 1 \in 1..(n + 1) /\ k + 2 \in 1..(n + 1) /\ (k + 1) - 1 = k /\ (k + 2) - 1 = k + 1
          BY <1>1
    <3>2. QED BY <1>6, <3>1
  <2>3. CASE s = {}
        BY <2>2, <2>3
  <2>4. CASE s # {}
    <3>1. Cardinality(s \ {pick[s]}) <= k
      <4>1. Cardinality(s \ {pick[s]}) = Cardinality(s) - 1
            BY <1>7, <2>4, FS_RemoveElement
      <4>2. Cardinality(s) \in Nat /\ k \in Nat
            BY <1>1, <1>7
      <4>3. QED BY <2>1, <4>1, <4>2
    <3>2. s \ {pick[s]} \in SUBSET S
          OBVIOUS
    <3>3. g[k][s \ {pick[s]}] = g[k + 1][s \ {pick[s]}]
          BY <1>9, <3>1, <3>2
    <3>4. /\ g[k + 1][s] = step[<<pick[s], g[k][s \ {pick[s]}]>>]
          /\ g[k + 2][s] = step[<<pick[s], g[k + 1][s \ {pick[s]}]>>]
          BY <2>2, <2>4
    <3>5. QED BY <3>3, <3>4
  <2>5. QED BY <2>3, <2>4
<1>10. n \in Settled
  <2>1. \A k \in 0..n : k \in Settled
    <3> HIDE DEF Settled, n
    <3> QED BY <1>1, <1>8, <1>9, InductionUpTo
  <2>2. QED BY <1>1, <2>1
<1>11. g[n] = g[n + 1]
  <2>1. g[n] \in F /\ g[n + 1] \in F
    <3> HIDE DEF F, n
    <3> QED BY <1>1
  <2>2. \A s \in SUBSET S : g[n][s] = g[n + 1][s]
        BY <1>7, <1>10
  <2>3. QED BY <2>1, <2>2
<1>12. g[n + 1] = Turn(g[n]) /\ g[n] \in F
  <2> HIDE DEF F, n, Turn
  <2>1. n + 1 \in 1..(n + 1) /\ (n + 1) - 1 = n /\ n \in 0..(n + 1)
        BY <1>1
  <2>2. QED BY <1>6, <2>1
<1> HIDE DEF n
<1>13. g[n] = Turn(g[n]) /\ g[n] \in F
      BY <1>11, <1>12
<1>14. QED BY <1>13 DEF Iterations

-----------------------------------------------------------------------------
(* FoldLeft: what it computes of a sequence of n items.                    *)

\* The greatest of the first k numbers, and what is left without it.
LEMMA MaxUpTo ==
    ASSUME NEW k \in Nat \ {0}
    PROVE  Max(1..k) = k /\ (1..k) \ {k} = 1..(k - 1)
<1>1. k \in 1..k /\ \A y \in 1..k : k >= y
      OBVIOUS
<1>2. \A x \in 1..k : (\A y \in 1..k : x >= y) => x = k
      BY <1>1
<1>3. (1..k) \ {k} = 1..(k - 1)
      OBVIOUS
<1>4. QED BY <1>1, <1>2, <1>3 DEF Max

\* The greatest of some of the first n numbers is one of them.
LEMMA MaxOfSome ==
    ASSUME NEW n \in Nat, NEW s \in SUBSET (1..n), s # {}
    PROVE  Max(s) \in s
<1> DEFINE Bounds == {b \in Nat : \A y \in s : y <= b}
<1>1. n \in Bounds /\ Bounds \in SUBSET Nat
      OBVIOUS
<1>2. PICK m \in Bounds : \A b \in Bounds : m <= b
  <2> HIDE DEF Bounds
  <2> QED BY <1>1, NaturalsHaveLeast
<1>3. m \in s
  <2>1. SUFFICES ASSUME m \notin s PROVE FALSE
        OBVIOUS
  <2>2. \A y \in s : y <= m - 1
        BY <1>2, <2>1
  <2>3. PICK y \in s : y <= m - 1
        BY <2>2
  <2>4. m - 1 \in Bounds
        BY <1>2, <2>2, <2>3
  <2>5. QED BY <1>2, <2>4
<1>4. \A y \in s : m >= y
      BY <1>2
<1>5. QED BY <1>3, <1>4 DEF Max

\* The recursive function of FoldLeft, and that it exists.
LeftIterations(n, V, b, step) ==
    {it \in [SUBSET (1..n) -> V] :
        it = [s \in SUBSET (1..n) |->
                 IF s = {} THEN b ELSE step[<<Max(s), it[s \ {Max(s)}]>>]]}

\* The same, the last place being the one that is picked.
LEMMA LeftFoldExists ==
    ASSUME NEW n \in Nat, NEW V, NEW b \in V, NEW step \in [(1..n) \X V -> V]
    PROVE  LeftIterations(n, V, b, step) # {}
<1> DEFINE pick == [s \in SUBSET (1..n) |-> Max(s)]
<1>1. IsFiniteSet(1..n)
      BY FS_Interval
<1>2. \A s \in SUBSET (1..n) : pick[s] = Max(s)
      OBVIOUS
<1>3. \A s \in SUBSET (1..n) : s # {} => pick[s] \in s
      BY <1>2, MaxOfSome
<1> HIDE DEF pick
<1>4. PICK it : it \in Iterations(1..n, V, b, pick, step)
      BY <1>1, <1>3, FoldExists
<1>5. /\ it \in [SUBSET (1..n) -> V]
      /\ it = [s \in SUBSET (1..n) |->
                  IF s = {} THEN b ELSE step[<<Max(s), it[s \ {Max(s)}]>>]]
      BY <1>2, <1>4 DEF Iterations
<1>6. it \in LeftIterations(n, V, b, step)
      BY <1>5 DEF LeftIterations
<1>7. QED BY <1>6

\* What follows such a recursion has, for the first numbers, the values on the way.
FollowsLeft(it, n, V, b, step) ==
    /\ it[{}] = b
    /\ \A k \in 1..n : it[1..(k - 1)] \in V => it[1..k] = step[<<k, it[1..(k - 1)]>>]

WalksTo(n, V, b, step) == {h[n] : h \in Walks(n, V, b, step)}

\* What a fold over a sequence comes to is where a walk along it ends.
LEMMA LeftFoldWalks ==
    ASSUME NEW n \in Nat, NEW V, NEW b \in V, NEW step \in [(1..n) \X V -> V], NEW it,
           FollowsLeft(it, n, V, b, step)
    PROVE  it[1..n] \in WalksTo(n, V, b, step)
<1> DEFINE h == [k \in 0..n |-> it[1..k]]
           Typed == {k \in 0..n : it[1..k] \in V}
<1>1. it[1..0] = b
  <2>1. 1..0 = {}
        OBVIOUS
  <2>2. QED BY <2>1 DEF FollowsLeft
<1>2. \A k \in 0..n : it[1..k] \in V
  <2>1. 0 \in Typed
        BY <1>1
  <2>2. ASSUME NEW k \in 0..(n - 1), k \in Typed PROVE k + 1 \in Typed
    <3>1. k + 1 \in 1..n /\ (k + 1) - 1 = k /\ it[1..k] \in V
          BY <2>2
    <3>2. it[1..(k + 1)] = step[<<k + 1, it[1..k]>>]
          BY <3>1 DEF FollowsLeft
    <3>3. QED BY <3>1, <3>2
  <2>3. \A k \in 0..n : k \in Typed
    <3> HIDE DEF Typed
    <3> QED BY <2>1, <2>2, InductionUpTo
  <2>4. QED BY <2>3
<1>3. h \in [0..n -> V] /\ h[0] = b
      BY <1>1, <1>2
<1>4. ASSUME NEW i \in 1..n PROVE h[i] = step[<<i, h[i - 1]>>]
  <2>1. i - 1 \in 0..n /\ i \in 0..n
        OBVIOUS
  <2>2. h[i] = it[1..i] /\ h[i - 1] = it[1..(i - 1)] /\ it[1..(i - 1)] \in V
        BY <1>2, <2>1
  <2>3. it[1..i] = step[<<i, it[1..(i - 1)]>>]
        BY <2>2 DEF FollowsLeft
  <2> HIDE DEF h
  <2>4. QED BY <2>2, <2>3
<1>5. h[n] = it[1..n]
      OBVIOUS
<1> HIDE DEF h
<1>6. h \in Walks(n, V, b, step)
      BY <1>3, <1>4 DEF Walks
<1>7. QED BY <1>5, <1>6 DEF WalksTo

-----------------------------------------------------------------------------
(* Sums.                                                                   *)

\* F gives the sum of f over each subset of S.
IsSum(F, f, S) ==
    /\ F \in [SUBSET S -> Int]
    /\ F[{}] = 0
    /\ \A s \in SUBSET S : \A x \in s : F[s] = f[x] + F[s \ {x}]

\* A fold that adds is a sum, in whatever order it takes the members.
LEMMA IterationIsSum ==
    ASSUME NEW S, IsFiniteSet(S), NEW f \in [S -> Int], NEW F \in [SUBSET S -> Int],
           F[{}] = 0,
           \A s \in SUBSET S : s # {} => \E p \in s : F[s] = f[p] + F[s \ {p}]
    PROVE  IsSum(F, f, S)
<1> DEFINE Free == {s \in SUBSET S : \A x \in s : F[s] = f[x] + F[s \ {x}]}
<1>1. {} \in Free
      OBVIOUS
<1>2. ASSUME NEW s \in SUBSET S, s # {}, \A x \in s : s \ {x} \in Free
      PROVE  s \in Free
  <2>1. SUFFICES ASSUME NEW x \in s PROVE F[s] = f[x] + F[s \ {x}]
        OBVIOUS
  <2>2. PICK p \in s : F[s] = f[p] + F[s \ {p}]
        OBVIOUS
  <2>3. CASE p = x
        BY <2>2, <2>3
  <2>4. CASE p # x
    <3> DEFINE r == (s \ {x}) \ {p}
    <3>1. F[s \ {p}] = f[x] + F[(s \ {p}) \ {x}]
          BY <1>2, <2>4
    <3>2. F[s \ {x}] = f[p] + F[r]
          BY <1>2, <2>4
    <3>3. (s \ {p}) \ {x} = r
          OBVIOUS
    <3>4. f[x] \in Int /\ f[p] \in Int /\ F[r] \in Int
          OBVIOUS
    <3> HIDE DEF r
    <3>5. F[s] = f[p] + (f[x] + F[r]) /\ F[s \ {x}] = f[p] + F[r]
          BY <2>2, <3>1, <3>2, <3>3
    <3>6. QED BY <3>4, <3>5
  <2>5. QED BY <2>3, <2>4
<1>3. \A s \in SUBSET S : s \in Free
  <2> HIDE DEF Free
  <2>1. QED BY <1>1, <1>2, AllSubsets
<1>4. QED BY <1>3 DEF IsSum

\* The sum over two sets that have nothing in common.
LEMMA SumOfUnion ==
    ASSUME NEW S, IsFiniteSet(S), NEW f \in [S -> Int], NEW F, IsSum(F, f, S),
           NEW A \in SUBSET S, NEW B \in SUBSET S, A \cap B = {}
    PROVE  F[A \cup B] = F[A] + F[B]
<1> DEFINE Good == {s \in SUBSET S : s \cap A = {} => F[A \cup s] = F[A] + F[s]}
<1>1. {} \in Good
  <2>1. A \cup {} = A
        OBVIOUS
  <2>2. QED BY <2>1 DEF IsSum
<1>2. ASSUME NEW s \in SUBSET S, NEW x \in s, s \ {x} \in Good PROVE s \in Good
  <2>1. SUFFICES ASSUME s \cap A = {} PROVE F[A \cup s] = F[A] + F[s]
        OBVIOUS
  <2>2. F[s] = f[x] + F[s \ {x}]
        BY DEF IsSum
  <2>3. A \cup s \in SUBSET S /\ x \in A \cup s /\ (A \cup s) \ {x} = A \cup (s \ {x})
        BY <2>1
  <2>4. F[A \cup s] = f[x] + F[A \cup (s \ {x})]
        BY <2>3 DEF IsSum
  <2>5. F[A \cup (s \ {x})] = F[A] + F[s \ {x}]
        BY <1>2, <2>1
  <2>6. f[x] \in Int /\ F[A] \in Int /\ F[s \ {x}] \in Int
        BY DEF IsSum
  <2>7. QED BY <2>2, <2>4, <2>5, <2>6
<1>3. \A s \in SUBSET S : s \in Good
  <2> HIDE DEF Good
  <2>1. \A s \in SUBSET S : s # {} /\ (\A x \in s : s \ {x} \in Good) => s \in Good
        BY <1>2
  <2>2. QED BY <1>1, <2>1, AllSubsets
<1>4. QED BY <1>3

\* The sum of larger numbers is larger.
LEMMA SumGrows ==
    ASSUME NEW S, IsFiniteSet(S), NEW f \in [S -> Int], NEW F, IsSum(F, f, S),
           NEW g \in [S -> Int], NEW G, IsSum(G, g, S), \A x \in S : f[x] <= g[x]
    PROVE  F[S] <= G[S]
<1> DEFINE Good == {s \in SUBSET S : F[s] <= G[s]}
<1>1. {} \in Good
      BY DEF IsSum
<1>2. ASSUME NEW s \in SUBSET S, NEW x \in s, s \ {x} \in Good PROVE s \in Good
  <2>1. F[s] = f[x] + F[s \ {x}] /\ G[s] = g[x] + G[s \ {x}]
        BY DEF IsSum
  <2>2. /\ f[x] \in Int /\ F[s \ {x}] \in Int /\ g[x] \in Int /\ G[s \ {x}] \in Int
        /\ f[x] <= g[x] /\ F[s \ {x}] <= G[s \ {x}]
        BY <1>2 DEF IsSum
  <2>3. F[s] <= G[s]
        BY <2>1, <2>2
  <2>4. QED BY <2>3
<1>3. \A s \in SUBSET S : s \in Good
  <2> HIDE DEF Good
  <2>1. \A s \in SUBSET S : s # {} /\ (\A x \in s : s \ {x} \in Good) => s \in Good
        BY <1>2
  <2>2. QED BY <1>1, <2>1, AllSubsets
<1>4. QED BY <1>3

\* Over a set on which they agree, two functions have the same sum.
LEMMA SameSum ==
    ASSUME NEW S, IsFiniteSet(S), NEW f \in [S -> Int], NEW F, IsSum(F, f, S),
           NEW T, NEW g \in [T -> Int], NEW G, IsSum(G, g, T),
           NEW A \in SUBSET S, A \subseteq T, \A x \in A : f[x] = g[x]
    PROVE  F[A] = G[A]
<1> DEFINE Good == {s \in SUBSET A : F[s] = G[s]}
<1>1. {} \in Good
      BY DEF IsSum
<1>2. ASSUME NEW s \in SUBSET A, NEW x \in s, s \ {x} \in Good PROVE s \in Good
  <2>1. s \in SUBSET S /\ s \in SUBSET T
        OBVIOUS
  <2>2. F[s] = f[x] + F[s \ {x}] /\ G[s] = g[x] + G[s \ {x}]
        BY <2>1 DEF IsSum
  <2>3. f[x] = g[x] /\ F[s \ {x}] = G[s \ {x}]
        BY <1>2
  <2>4. F[s] = G[s]
        BY <2>2, <2>3
  <2>5. QED BY <2>4
<1>3. IsFiniteSet(A)
      BY FS_Subset
<1>4. \A s \in SUBSET A : s \in Good
  <2> HIDE DEF Good
  <2>1. \A s \in SUBSET A : s # {} /\ (\A x \in s : s \ {x} \in Good) => s \in Good
        BY <1>2
  <2>2. QED BY <1>1, <1>3, <2>1, AllSubsets
<1>5. QED BY <1>4

\* SumFunction(f) is such a sum.
LEMMA SumFunctionIsSum ==
    ASSUME NEW S, IsFiniteSet(S), NEW f \in [S -> Int]
    PROVE  \E F : IsSum(F, f, S) /\ SumFunction(f) = F[S]
<1> DEFINE any(s) == CHOOSE x \in s : TRUE
           Turn(it) == [s \in SUBSET S |-> IF s = {} THEN 0 ELSE f[any(s)] + it[s \ {any(s)}]]
           pick == [s \in SUBSET S |-> any(s)]
           step == [p \in S \X Int |-> f[p[1]] + p[2]]
           F == CHOOSE it : it = Turn(it)
<1>1. SumFunction(f) = F[S]
  <2>1. DOMAIN f = S
        OBVIOUS
  <2>2. SumFunction(f) = (CHOOSE it : it = [s \in SUBSET DOMAIN f |->
                IF s = {} THEN 0 ELSE f[CHOOSE x \in s : TRUE]
                                      + it[s \ {CHOOSE x \in s : TRUE}]])[DOMAIN f]
        BY DEF SumFunction, SumFunctionOnSet, FoldFunctionOnSet, MapThenFoldSet
  <2>3. QED BY <2>1, <2>2
<1>2. \A s \in SUBSET S : s # {} => any(s) \in s
      OBVIOUS
<1>3. step \in [S \X Int -> Int]
      OBVIOUS
<1>4. PICK it : it \in Iterations(S, Int, 0, pick, step)
  <2>1. \A s \in SUBSET S : s # {} => pick[s] \in s
        BY <1>2
  <2>2. 0 \in Int
        OBVIOUS
  <2> HIDE DEF pick, step
  <2>3. Iterations(S, Int, 0, pick, step) # {}
        BY <1>3, <2>1, <2>2, FoldExists
  <2>4. QED BY <2>3
<1>5. it = Turn(it)
  <2>1. /\ it \in [SUBSET S -> Int]
        /\ it = [s \in SUBSET S |->
                    IF s = {} THEN 0 ELSE step[<<pick[s], it[s \ {pick[s]}]>>]]
        BY <1>4 DEF Iterations
  <2>2. \A s \in SUBSET S : pick[s] = any(s)
        OBVIOUS
  <2>3. ASSUME NEW s \in SUBSET S, s # {}
        PROVE  step[<<any(s), it[s \ {any(s)}]>>] = f[any(s)] + it[s \ {any(s)}]
    <3>1. any(s) \in S /\ it[s \ {any(s)}] \in Int
          BY <1>2, <2>1, <2>3
    <3> HIDE DEF any
    <3>2. QED BY <3>1
  <2> HIDE DEF any, pick, step
  <2>4. QED BY <2>1, <2>2, <2>3
<1>6. F = Turn(F)
  <2> HIDE DEF Turn
  <2>1. QED BY <1>5
<1>7. F \in [SUBSET S -> Int]
  <2> DEFINE Good == {s \in SUBSET S : F[s] = it[s]}
  <2>1. \A s \in SUBSET S : s \in Good
    <3> HIDE DEF F, any
    <3>1. {} \in Good
          BY <1>5, <1>6
    <3>2. ASSUME NEW s \in SUBSET S, s # {}, s \ {any(s)} \in Good PROVE s \in Good
      <4>1. F[s] = f[any(s)] + F[s \ {any(s)}] /\ it[s] = f[any(s)] + it[s \ {any(s)}]
            BY <1>5, <1>6, <3>2
      <4>2. QED BY <3>2, <4>1
    <3>3. \A s \in SUBSET S : s # {} /\ (\A x \in s : s \ {x} \in Good) => s \in Good
          BY <1>2, <3>2
    <3> HIDE DEF Good
    <3>4. QED BY <3>1, <3>3, AllSubsets
  <2>2. it \in [SUBSET S -> Int]
        BY <1>4 DEF Iterations
  <2>3. F = [s \in SUBSET S |-> F[s]]
    <3> HIDE DEF F
    <3>1. QED BY <1>6
  <2> HIDE DEF F
  <2>4. QED BY <2>1, <2>2, <2>3
<1>8. IsSum(F, f, S)
  <2> HIDE DEF F, any
  <2>1. F[{}] = 0
        BY <1>6
  <2>2. \A s \in SUBSET S : s # {} => \E p \in s : F[s] = f[p] + F[s \ {p}]
        BY <1>2, <1>6
  <2>3. QED BY <1>7, <2>1, <2>2, IterationIsSum
<1>9. QED BY <1>1, <1>8

\* A sum of integers is an integer.
LEMMA SumFunctionType ==
    ASSUME NEW S, IsFiniteSet(S), NEW f \in [S -> Int]
    PROVE  SumFunction(f) \in Int
<1>1. PICK F : IsSum(F, f, S) /\ SumFunction(f) = F[S]
      BY SumFunctionIsSum
<1>2. F \in [SUBSET S -> Int]
      BY <1>1 DEF IsSum
<1>3. QED BY <1>1, <1>2

\* Nothing adds up to 0.
LEMMA SumFunctionEmpty ==
    ASSUME NEW f \in [{} -> Int]
    PROVE  SumFunction(f) = 0
<1>1. IsFiniteSet({})
      BY FS_EmptySet
<1> DEFINE S == {}
<1>2. IsFiniteSet(S) /\ f \in [S -> Int]
      BY <1>1
<1> HIDE DEF S
<1>3. PICK F : IsSum(F, f, S) /\ SumFunction(f) = F[S]
      BY <1>2, SumFunctionIsSum
<1>4. QED BY <1>3 DEF IsSum, S

\* The sum over a set is that over a part of it and that over the rest.
LEMMA SumFunctionParts ==
    ASSUME NEW S, IsFiniteSet(S), NEW A \in SUBSET S, NEW B, B = S \ A,
           NEW f \in [S -> Int], NEW g \in [A -> Int], NEW h \in [B -> Int],
           \A x \in A : g[x] = f[x], \A x \in B : h[x] = f[x]
    PROVE  SumFunction(f) = SumFunction(g) + SumFunction(h)
<1>1. IsFiniteSet(A) /\ IsFiniteSet(B)
      BY FS_Subset
<1>2. /\ B \in SUBSET S /\ A \cap B = {} /\ A \cup B = S
      /\ \A x \in B : f[x] = h[x]
      /\ \A x \in A : f[x] = g[x]
      OBVIOUS
<1>3. PICK F : IsSum(F, f, S) /\ SumFunction(f) = F[S]
      BY SumFunctionIsSum
<1>4. PICK G : IsSum(G, g, A) /\ SumFunction(g) = G[A]
      BY <1>1, SumFunctionIsSum
<1>5. PICK H : IsSum(H, h, B) /\ SumFunction(h) = H[B]
      BY <1>1, <1>2, SumFunctionIsSum
<1>6. F[A \cup B] = F[A] + F[B]
      BY <1>2, <1>3, SumOfUnion
<1>7. F[A] = G[A]
      BY <1>2, <1>3, <1>4, SameSum
<1>8. F[B] = H[B]
      BY <1>2, <1>3, <1>5, SameSum
<1>9. QED BY <1>2, <1>3, <1>4, <1>5, <1>6, <1>7, <1>8

\* Two functions that differ in one place only, differ by as much in their sums.
LEMMA SumFunctionUpdate ==
    ASSUME NEW S, IsFiniteSet(S), NEW f \in [S -> Int], NEW g \in [S -> Int], NEW x \in S,
           \A y \in S \ {x} : g[y] = f[y]
    PROVE  SumFunction(g) = SumFunction(f) - f[x] + g[x]
<1> DEFINE A == S \ {x}
<1>1. A \in SUBSET S /\ S \in SUBSET S /\ \A y \in A : f[y] = g[y]
      OBVIOUS
<1>2. PICK F : IsSum(F, f, S) /\ SumFunction(f) = F[S]
      BY SumFunctionIsSum
<1>3. PICK G : IsSum(G, g, S) /\ SumFunction(g) = G[S]
      BY SumFunctionIsSum
<1>4. F[S] = f[x] + F[A] /\ G[S] = g[x] + G[A] /\ F[A] \in Int
      BY <1>1, <1>2, <1>3 DEF IsSum
<1>5. F[A] = G[A]
  <2> HIDE DEF A
  <2>1. QED BY <1>1, <1>2, <1>3, SameSum
<1>6. f[x] \in Int /\ g[x] \in Int
      OBVIOUS
<1>7. QED BY <1>2, <1>3, <1>4, <1>5, <1>6

\* A function that adds two others up has the sum of their sums.
AddsUp(f, g, h, S) ==
    /\ f \in [S -> Int] /\ g \in [S -> Int] /\ h \in [S -> Int]
    /\ \A x \in S : f[x] = g[x] + h[x]

\* The sum of the sums at each place is the sum of the two sums.
LEMMA SumOfSums ==
    ASSUME NEW S, IsFiniteSet(S), NEW f, NEW g, NEW h, AddsUp(f, g, h, S)
    PROVE  SumFunction(f) = SumFunction(g) + SumFunction(h)
<1> USE DEF AddsUp
<1>1. PICK F : IsSum(F, f, S) /\ SumFunction(f) = F[S]
      BY SumFunctionIsSum
<1>2. PICK G : IsSum(G, g, S) /\ SumFunction(g) = G[S]
      BY SumFunctionIsSum
<1>3. PICK H : IsSum(H, h, S) /\ SumFunction(h) = H[S]
      BY SumFunctionIsSum
<1> DEFINE Good == {s \in SUBSET S : F[s] = G[s] + H[s]}
<1>4. {} \in Good
      BY <1>1, <1>2, <1>3 DEF IsSum
<1>5. ASSUME NEW s \in SUBSET S, NEW x \in s, s \ {x} \in Good PROVE s \in Good
  <2>1. F[s] = f[x] + F[s \ {x}] /\ G[s] = g[x] + G[s \ {x}] /\ H[s] = h[x] + H[s \ {x}]
        BY <1>1, <1>2, <1>3 DEF IsSum
  <2>2. /\ g[x] \in Int /\ h[x] \in Int /\ G[s \ {x}] \in Int /\ H[s \ {x}] \in Int
        /\ f[x] = g[x] + h[x] /\ F[s \ {x}] = G[s \ {x}] + H[s \ {x}]
        BY <1>2, <1>3, <1>5 DEF IsSum
  <2>3. F[s] = G[s] + H[s]
    <3> DEFINE a == g[x]
               b == h[x]
               c == G[s \ {x}]
               d == H[s \ {x}]
    <3>1. F[s] = (a + b) + (c + d) /\ G[s] = a + c /\ H[s] = b + d
          BY <2>1, <2>2
    <3>2. a \in Int /\ b \in Int /\ c \in Int /\ d \in Int
          BY <2>2
    <3> HIDE DEF a, b, c, d
    <3>3. QED BY <3>1, <3>2
  <2>4. QED BY <2>3
<1>6. \A s \in SUBSET S : s \in Good
  <2> HIDE DEF Good
  <2>1. \A s \in SUBSET S : s # {} /\ (\A x \in s : s \ {x} \in Good) => s \in Good
        BY <1>5
  <2>2. QED BY <1>4, <2>1, AllSubsets
<1>7. QED BY <1>1, <1>2, <1>3, <1>6

\* The sum of larger numbers is larger.
LEMMA SumFunctionGrows ==
    ASSUME NEW S, IsFiniteSet(S), NEW f \in [S -> Int], NEW g \in [S -> Int],
           \A x \in S : f[x] <= g[x]
    PROVE  SumFunction(f) <= SumFunction(g)
<1>1. PICK F : IsSum(F, f, S) /\ SumFunction(f) = F[S]
      BY SumFunctionIsSum
<1>2. PICK G : IsSum(G, g, S) /\ SumFunction(g) = G[S]
      BY SumFunctionIsSum
<1>3. QED BY <1>1, <1>2, SumGrows

-----------------------------------------------------------------------------
(* The greatest of some numbers.                                           *)

\* Every finite set of naturals has a greatest member, and Max gives it.
LEMMA MaxOfFinite ==
    ASSUME NEW s \in SUBSET Nat, IsFiniteSet(s), s # {}
    PROVE  Max(s) \in s /\ \A y \in s : y <= Max(s)
<1> DEFINE Good == {r \in SUBSET s : r # {} => \E m \in r : \A y \in r : y <= m}
<1>1. {} \in Good
      OBVIOUS
<1>2. ASSUME NEW r \in SUBSET s, NEW x \in r, r \ {x} \in Good PROVE r \in Good
  <2>1. CASE r \ {x} = {}
        BY <1>2, <2>1
  <2>2. CASE r \ {x} # {}
    <3>1. PICK m \in r \ {x} : \A y \in r \ {x} : y <= m
          BY <1>2, <2>2
    <3>2. \A y \in r : y <= IF x <= m THEN m ELSE x
          BY <3>1
    <3>3. QED BY <3>1, <3>2
  <2>3. QED BY <2>1, <2>2
<1>3. \A r \in SUBSET s : r \in Good
  <2> HIDE DEF Good
  <2>1. \A r \in SUBSET s : r # {} /\ (\A x \in r : r \ {x} \in Good) => r \in Good
        BY <1>2
  <2>2. QED BY <1>1, <2>1, AllSubsets
<1>4. PICK m \in s : \A y \in s : m >= y
      BY <1>3
<1>5. Max(s) \in s /\ \A y \in s : Max(s) >= y
      BY <1>4 DEF Max
<1>6. QED BY <1>5
=============================================================================
