----------------------------- MODULE LoadRunProofs -----------------------------
(***************************************************************************)
(* Theorems about LoadRun: its types and the bound on the requests, the    *)
(* exact mix of Mixed, the report that accounts for the requests of the    *)
(* window, and its latencies, which are those of these requests.           *)
(*                                                                         *)
(* The sums of the report are folds over finite sets.  What a fold         *)
(* computes is proved by induction over the subsets in the order in which  *)
(* the fold takes them apart; the induction is over a set of subsets, not  *)
(* over a predicate, and rests on the least counterexample.                *)
(***************************************************************************)
EXTENDS LoadRun, TLAPS, FiniteSetTheorems, WellFoundedInduction

(* A nonempty set of natural numbers has a least element. *)
LEMMA LeastNatural ==
  ASSUME NEW T \in SUBSET Nat, T # {}
  PROVE  \E m \in T : \A k \in T : m <= k
<1> DEFINE R == OpToRel(<, Nat)
<1>1. IsWellFoundedOn(R, Nat)
  BY NatLessThanWellFounded, Zenon
<1> HIDE DEF R
<1>2. PICK m \in T : \A k \in T : ~ (<<k, m>> \in R)
  BY <1>1, WFMin
<1>3. \A k \in T : ~ (k < m)
  BY <1>2 DEF R, OpToRel
<1> QED
  BY <1>3

-----------------------------------------------------------------------------
(* Folds over finite sets. *)

(* The element a fold takes next, and what is left. *)
Pick(s) == CHOOSE x \in s : TRUE

Rest(s) == s \ {Pick(s)}

(* Taking the chosen element out of a finite set leaves one element less. *)
LEMMA RestSmaller ==
  ASSUME NEW S, IsFiniteSet(S), NEW s \in SUBSET S, s # {}
  PROVE  /\ Pick(s) \in s /\ Rest(s) \in SUBSET S
         /\ Cardinality(s) \in Nat /\ Cardinality(Rest(s)) \in Nat
         /\ Cardinality(Rest(s)) = Cardinality(s) - 1
<1>1. Pick(s) \in s
  BY Zenon DEF Pick
<1>2. IsFiniteSet(s)
  BY FS_Subset
<1>3. Cardinality(Rest(s)) = Cardinality(s) - 1 /\ IsFiniteSet(Rest(s))
  BY <1>1, <1>2, FS_RemoveElement DEF Rest
<1>4. Cardinality(s) \in Nat /\ Cardinality(Rest(s)) \in Nat
  BY <1>2, <1>3, FS_CardinalityType
<1> QED
  BY <1>1, <1>3, <1>4 DEF Rest

(* Induction over the subsets of a finite set. *)
LEMMA SubsetInduction ==
  ASSUME NEW S, IsFiniteSet(S), NEW Q, {} \in Q,
         \A s \in SUBSET S : s # {} /\ Rest(s) \in Q => s \in Q
  PROVE  \A s \in SUBSET S : s \in Q
<1> DEFINE Bad == {s \in SUBSET S : s \notin Q}
           T == {Cardinality(s) : s \in Bad}
<1> SUFFICES ASSUME Bad # {} PROVE FALSE
  OBVIOUS
<1>1. \A s \in Bad : s # {} /\ s \in SUBSET S
  OBVIOUS
<1>2. T \in SUBSET Nat
  <2> SUFFICES ASSUME NEW s \in Bad PROVE Cardinality(s) \in Nat
    OBVIOUS
  <2> QED
    BY <1>1, RestSmaller
<1>3. PICK m \in T : \A k \in T : m <= k
  <2>1. T # {}
    OBVIOUS
  <2> HIDE DEF T
  <2> QED
    BY <1>2, <2>1, LeastNatural
<1>4. PICK s \in Bad : m = Cardinality(s)
  OBVIOUS
<1>5. /\ Rest(s) \in SUBSET S /\ Cardinality(s) \in Nat
      /\ Cardinality(Rest(s)) = Cardinality(s) - 1
  BY <1>1, RestSmaller
<1>6. Rest(s) \notin Q
  BY <1>1
<1>7. Cardinality(Rest(s)) \in T
  BY <1>5, <1>6
<1> QED
  BY <1>3, <1>4, <1>5, <1>7

(* A fold as a function on the subsets, with step[<<x, v>>] for op(f(x), v). *)
FoldRound(it, base, step, s) == IF s = {} THEN base ELSE step[<<Pick(s), it[Rest(s)]>>]

IsFold(it, S, V, base, step) ==
  /\ it \in [SUBSET S -> V]
  /\ \A s \in SUBSET S : it[s] = FoldRound(it, base, step, s)

(* The recursion is well defined: it can be extended from the subsets with  *)
(* at most n elements to those with n + 1.                                  *)
LEMMA FoldRuns ==
  ASSUME NEW S, IsFiniteSet(S), NEW V, NEW base \in V, NEW step \in [S \X V -> V]
  PROVE  \E it : IsFold(it, S, V, base, step)
<1> DEFINE Upto(n) == {s \in SUBSET S : Cardinality(s) <= n}
           Good(it, n) == /\ it \in [SUBSET S -> V]
                          /\ \A s \in Upto(n) : it[s] = FoldRound(it, base, step, s)
           T == {n \in Nat : ~ \E it : Good(it, n)}
<1>1. T = {}
  <2> SUFFICES ASSUME T # {} PROVE FALSE
    OBVIOUS
  <2>1. T \in SUBSET Nat
    OBVIOUS
  <2> HIDE DEF T
  <2>2. PICK n \in T : \A k \in T : n <= k
    BY <2>1, LeastNatural
  <2>3. n \in Nat /\ ~ \E it : Good(it, n)
    BY DEF T
  <2>4. n # 0
    <3> SUFFICES ASSUME n = 0 PROVE FALSE
      OBVIOUS
    <3> DEFINE it == [s \in SUBSET S |-> base]
    <3>1. \A s \in Upto(0) : s = {}
      <4> SUFFICES ASSUME NEW s \in SUBSET S, Cardinality(s) <= 0, s # {} PROVE FALSE
        OBVIOUS
      <4> QED
        BY RestSmaller
    <3>2. Good(it, 0)
      BY <3>1 DEF FoldRound
    <3> QED
      BY <2>3, <3>2
  <2>5. n - 1 \in Nat /\ n - 1 \notin T
    BY <2>2, <2>3, <2>4
  <2>6. PICK it : Good(it, n - 1)
    BY <2>5 DEF T
  <2> DEFINE g == [s \in SUBSET S |->
                     IF Cardinality(s) = n THEN step[<<Pick(s), it[Rest(s)]>>] ELSE it[s]]
  <2>7. ASSUME NEW s \in SUBSET S, s # {}
        PROVE  /\ step[<<Pick(s), it[Rest(s)]>>] \in V
               /\ Rest(s) \in SUBSET S /\ Cardinality(s) \in Nat
               /\ Cardinality(Rest(s)) = Cardinality(s) - 1
    <3>1. /\ Pick(s) \in S /\ Rest(s) \in SUBSET S /\ Cardinality(s) \in Nat
          /\ Cardinality(Rest(s)) = Cardinality(s) - 1
      BY <2>7, RestSmaller
    <3>2. it[Rest(s)] \in V
      BY <2>6, <3>1
    <3> QED
      BY <3>1, <3>2
  <2>8. Cardinality({}) = 0
    BY FS_EmptySet
  <2>9. g \in [SUBSET S -> V]
    <3> SUFFICES ASSUME NEW s \in SUBSET S PROVE g[s] \in V
      OBVIOUS
    <3>1. Cardinality(s) = n => s # {}
      BY <2>4, <2>8
    <3> QED
      BY <2>6, <2>7, <3>1
  <2>10. ASSUME NEW s \in Upto(n) PROVE g[s] = FoldRound(g, base, step, s)
    <3>1. CASE s = {}
      <4>1. s \in Upto(n - 1)
        BY <2>5, <2>8, <3>1
      <4>2. it[s] = base
        BY <2>6, <3>1, <4>1 DEF FoldRound
      <4> QED
        BY <2>4, <2>8, <3>1, <4>2 DEF FoldRound
    <3>2. CASE s # {}
      <4>1. /\ Rest(s) \in SUBSET S /\ Cardinality(s) \in Nat
            /\ Cardinality(Rest(s)) = Cardinality(s) - 1 /\ Cardinality(s) <= n
        BY <2>7, <3>2
      <4>2. Cardinality(Rest(s)) # n
        BY <2>3, <4>1
      <4>3. g[Rest(s)] = it[Rest(s)]
        BY <4>1, <4>2
      <4>4. CASE Cardinality(s) = n
        BY <3>2, <4>3, <4>4 DEF FoldRound
      <4>5. CASE Cardinality(s) # n
        <5>1. s \in Upto(n - 1)
          BY <2>3, <4>1, <4>5
        <5>2. it[s] = step[<<Pick(s), it[Rest(s)]>>]
          BY <2>6, <3>2, <5>1 DEF FoldRound
        <5> QED
          BY <3>2, <4>3, <4>5, <5>2 DEF FoldRound
      <4> QED
        BY <4>4, <4>5
    <3> QED
      BY <3>1, <3>2
  <2> HIDE DEF g
  <2>11. Good(g, n)
    BY <2>9, <2>10
  <2> QED
    BY <2>3, <2>11
<1>2. Cardinality(S) \in Nat
  BY FS_CardinalityType
<1>3. PICK it : Good(it, Cardinality(S))
  BY <1>1, <1>2
<1>4. \A s \in SUBSET S : s \in Upto(Cardinality(S))
  BY FS_Subset
<1> QED
  BY <1>3, <1>4 DEF IsFold

-----------------------------------------------------------------------------
(* Sums. *)

SumRound(it, f, s) == IF s = {} THEN 0 ELSE f[Pick(s)] + it[Rest(s)]

(* A sum is computed one element after the other. *)
LEMMA SumIsRun ==
  ASSUME NEW S, IsFiniteSet(S), NEW f, \A x \in S : f[x] \in Nat
  PROVE  \E it \in [SUBSET S -> Nat] :
           /\ it[{}] = 0
           /\ \A s \in SUBSET S : s # {} => it[s] = f[Pick(s)] + it[Rest(s)]
           /\ SumFunctionOnSet(f, S) = it[S]
<1> DEFINE step == [p \in S \X Nat |-> f[p[1]] + p[2]]
           Is(it) == it = [s \in SUBSET S |-> SumRound(it, f, s)]
           sum == CHOOSE it : Is(it)
<1>1. SumFunctionOnSet(f, S) = sum[S]
  BY Zenon DEF SumFunctionOnSet, FoldFunctionOnSet, MapThenFoldSet, SumRound, Pick, Rest
<1>2. step \in [S \X Nat -> Nat] /\ 0 \in Nat
  OBVIOUS
<1>3. PICK g \in [SUBSET S -> Nat] : \A s \in SUBSET S : g[s] = FoldRound(g, 0, step, s)
  <2> HIDE DEF step
  <2> DEFINE V == Nat
             zero == 0
  <2>1. step \in [S \X V -> V] /\ zero \in V
    BY <1>2
  <2> HIDE DEF V, zero
  <2>2. \E g : IsFold(g, S, V, zero, step)
    BY <2>1, FoldRuns
  <2> QED
    BY <2>2 DEF V, zero, IsFold
<1>4. ASSUME NEW s \in SUBSET S PROVE g[s] = SumRound(g, f, s)
  <2>1. CASE s = {}
    BY <1>3, <2>1 DEF FoldRound, SumRound
  <2>2. CASE s # {}
    <3>1. Pick(s) \in S /\ Rest(s) \in SUBSET S
      BY <2>2, RestSmaller
    <3>2. g[Rest(s)] \in Nat
      BY <1>3, <3>1
    <3>3. g[s] = step[<<Pick(s), g[Rest(s)]>>]
      BY <1>3, <2>2 DEF FoldRound
    <3> QED
      BY <2>2, <3>1, <3>2, <3>3 DEF SumRound
  <2> QED
    BY <2>1, <2>2
<1>5. Is(g)
  <2> DEFINE h == [s \in SUBSET S |-> SumRound(g, f, s)]
  <2>1. \A s \in SUBSET S : g[s] = h[s]
    BY <1>4
  <2>2. g = h
    BY <1>3, <2>1
  <2> QED
    BY <2>2
<1>6. Is(sum)
  <2> HIDE DEF Is
  <2> QED
    BY <1>5, Zenon
<1> HIDE DEF sum
<1>7. \A s \in SUBSET S : sum[s] = SumRound(sum, f, s)
  BY <1>6, Zenon
<1>8. DOMAIN sum = SUBSET S
  BY <1>6, Zenon
<1>9. sum[{}] = 0 /\ \A s \in SUBSET S : s # {} => sum[s] = f[Pick(s)] + sum[Rest(s)]
  BY <1>7 DEF SumRound
<1>10. \A s \in SUBSET S : sum[s] \in Nat
  <2> DEFINE Q == {s \in SUBSET S : sum[s] \in Nat}
  <2>1. {} \in Q
    BY <1>9
  <2>2. ASSUME NEW s \in SUBSET S, s # {}, Rest(s) \in Q PROVE s \in Q
    <3>1. Pick(s) \in S
      BY <2>2, RestSmaller
    <3> QED
      BY <1>9, <2>2, <3>1
  <2>3. \A s \in SUBSET S : s \in Q
    <3> HIDE DEF Q
    <3> QED
      BY <2>1, <2>2, SubsetInduction
  <2> QED
    BY <2>3
<1>11. sum \in [SUBSET S -> Nat]
  <2>1. sum = [s \in SUBSET S |-> sum[s]]
    BY <1>6, <1>8
  <2> QED
    BY <1>10, <2>1
<1> QED
  BY <1>1, <1>9, <1>11

(* A finite sum of naturals is a natural. *)
LEMMA SumNat ==
  ASSUME NEW S, IsFiniteSet(S), NEW f, \A x \in S : f[x] \in Nat
  PROVE  SumFunctionOnSet(f, S) \in Nat
<1>1. PICK it \in [SUBSET S -> Nat] : SumFunctionOnSet(f, S) = it[S]
  BY SumIsRun
<1> QED
  BY <1>1

(* Equal functions have equal sums, and the sum of zeros is zero. *)
LEMMA SumSame ==
  ASSUME NEW S, IsFiniteSet(S), NEW f, NEW g,
         \A x \in S : f[x] \in Nat /\ g[x] = f[x]
  PROVE  SumFunctionOnSet(g, S) = SumFunctionOnSet(f, S)
<1>1. PICK a \in [SUBSET S -> Nat] :
        /\ a[{}] = 0
        /\ \A s \in SUBSET S : s # {} => a[s] = f[Pick(s)] + a[Rest(s)]
        /\ SumFunctionOnSet(f, S) = a[S]
  BY SumIsRun
<1>2. PICK b \in [SUBSET S -> Nat] :
        /\ b[{}] = 0
        /\ \A s \in SUBSET S : s # {} => b[s] = g[Pick(s)] + b[Rest(s)]
        /\ SumFunctionOnSet(g, S) = b[S]
  BY SumIsRun
<1> DEFINE Q == {s \in SUBSET S : a[s] = b[s]}
<1>3. {} \in Q
  BY <1>1, <1>2
<1>4. ASSUME NEW s \in SUBSET S, s # {}, Rest(s) \in Q PROVE s \in Q
  <2>1. Pick(s) \in S
    BY <1>4, RestSmaller
  <2> QED
    BY <1>1, <1>2, <1>4, <2>1
<1>5. \A s \in SUBSET S : s \in Q
  <2> HIDE DEF Q
  <2> QED
    BY <1>3, <1>4, SubsetInduction
<1> QED
  BY <1>1, <1>2, <1>5

(* A finite sum of zeros is zero. *)
LEMMA SumZero ==
  ASSUME NEW S, IsFiniteSet(S), NEW f, \A x \in S : f[x] = 0
  PROVE  SumFunctionOnSet(f, S) = 0
<1>0. \A x \in S : f[x] \in Nat
  OBVIOUS
<1>1. PICK a \in [SUBSET S -> Nat] :
        /\ a[{}] = 0
        /\ \A s \in SUBSET S : s # {} => a[s] = f[Pick(s)] + a[Rest(s)]
        /\ SumFunctionOnSet(f, S) = a[S]
  BY <1>0, SumIsRun
<1> DEFINE Q == {s \in SUBSET S : a[s] = 0}
<1>2. {} \in Q
  BY <1>1
<1>3. ASSUME NEW s \in SUBSET S, s # {}, Rest(s) \in Q PROVE s \in Q
  <2>1. Pick(s) \in S
    BY <1>3, RestSmaller
  <2> QED
    BY <1>1, <1>3, <2>1
<1>4. \A s \in SUBSET S : s \in Q
  <2> HIDE DEF Q
  <2> QED
    BY <1>2, <1>3, SubsetInduction
<1> QED
  BY <1>1, <1>4

(* Two functions that differ at d only have sums that differ as much. *)
LEMMA SumOne ==
  ASSUME NEW S, IsFiniteSet(S), NEW f, NEW g, NEW d \in S,
         \A x \in S : f[x] \in Nat /\ g[x] \in Nat,
         \A x \in S : x # d => g[x] = f[x]
  PROVE  SumFunctionOnSet(g, S) + f[d] = SumFunctionOnSet(f, S) + g[d]
<1>1. PICK a \in [SUBSET S -> Nat] :
        /\ a[{}] = 0
        /\ \A s \in SUBSET S : s # {} => a[s] = f[Pick(s)] + a[Rest(s)]
        /\ SumFunctionOnSet(f, S) = a[S]
  BY SumIsRun
<1>2. PICK b \in [SUBSET S -> Nat] :
        /\ b[{}] = 0
        /\ \A s \in SUBSET S : s # {} => b[s] = g[Pick(s)] + b[Rest(s)]
        /\ SumFunctionOnSet(g, S) = b[S]
  BY SumIsRun
<1> DEFINE Q == {s \in SUBSET S : IF d \in s THEN b[s] + f[d] = a[s] + g[d] ELSE b[s] = a[s]}
<1>3. {} \in Q
  BY <1>1, <1>2
<1>4. ASSUME NEW s \in SUBSET S, s # {}, Rest(s) \in Q PROVE s \in Q
  <2>1. Pick(s) \in s /\ Pick(s) \in S /\ Rest(s) \in SUBSET S
    BY <1>4, RestSmaller
  <2>2. /\ a[s] = f[Pick(s)] + a[Rest(s)] /\ b[s] = g[Pick(s)] + b[Rest(s)]
        /\ a[Rest(s)] \in Nat /\ b[Rest(s)] \in Nat
        /\ f[Pick(s)] \in Nat /\ g[Pick(s)] \in Nat /\ f[d] \in Nat /\ g[d] \in Nat
    BY <1>1, <1>2, <1>4, <2>1
  <2>3. IF d \in Rest(s) THEN b[Rest(s)] + f[d] = a[Rest(s)] + g[d] ELSE b[Rest(s)] = a[Rest(s)]
    BY <1>4
  <2>4. CASE d = Pick(s)
    <3>1. d \notin Rest(s) /\ d \in s
      BY <2>1, <2>4 DEF Rest
    <3> QED
      BY <2>2, <2>3, <2>4, <3>1
  <2>5. CASE d # Pick(s)
    <3>1. (d \in Rest(s) <=> d \in s) /\ g[Pick(s)] = f[Pick(s)]
      BY <2>1, <2>5 DEF Rest
    <3> QED
      BY <2>2, <2>3, <3>1
  <2> QED
    BY <2>4, <2>5
<1>5. \A s \in SUBSET S : s \in Q
  <2> HIDE DEF Q
  <2> QED
    BY <1>3, <1>4, SubsetInduction
<1> QED
  BY <1>1, <1>2, <1>5

(* Raising one value by one raises the sums it belongs to by one. *)
LEMMA SumBump ==
  ASSUME NEW S, IsFiniteSet(S), NEW f, NEW g, NEW d,
         \A x \in S : f[x] \in Nat /\ g[x] = IF x = d THEN f[x] + 1 ELSE f[x]
  PROVE  SumFunctionOnSet(g, S) = SumFunctionOnSet(f, S) + IF d \in S THEN 1 ELSE 0
<1>1. \A x \in S : f[x] \in Nat /\ g[x] \in Nat /\ (x # d => g[x] = f[x])
  OBVIOUS
<1>2. SumFunctionOnSet(f, S) \in Nat /\ SumFunctionOnSet(g, S) \in Nat
  BY <1>1, SumNat
<1>3. CASE d \in S
  <2>1. SumFunctionOnSet(g, S) + f[d] = SumFunctionOnSet(f, S) + g[d]
    BY <1>1, <1>3, SumOne
  <2>2. g[d] = f[d] + 1 /\ f[d] \in Nat
    BY <1>3
  <2> QED
    BY <1>2, <1>3, <2>1, <2>2
<1>4. CASE d \notin S
  <2>1. SumFunctionOnSet(g, S) = SumFunctionOnSet(f, S)
    BY <1>1, <1>4, SumSame
  <2> QED
    BY <1>2, <1>4, <2>1
<1> QED
  BY <1>3, <1>4

(* Smaller values have a smaller sum, unless all are equal. *)
LEMMA SumMono ==
  ASSUME NEW S, IsFiniteSet(S), NEW f, NEW g,
         \A x \in S : f[x] \in Nat /\ g[x] \in Nat /\ f[x] <= g[x]
  PROVE  /\ SumFunctionOnSet(f, S) <= SumFunctionOnSet(g, S)
         /\ SumFunctionOnSet(f, S) = SumFunctionOnSet(g, S) => \A x \in S : f[x] = g[x]
<1>1. PICK a \in [SUBSET S -> Nat] :
        /\ a[{}] = 0
        /\ \A s \in SUBSET S : s # {} => a[s] = f[Pick(s)] + a[Rest(s)]
        /\ SumFunctionOnSet(f, S) = a[S]
  BY SumIsRun
<1>2. PICK b \in [SUBSET S -> Nat] :
        /\ b[{}] = 0
        /\ \A s \in SUBSET S : s # {} => b[s] = g[Pick(s)] + b[Rest(s)]
        /\ SumFunctionOnSet(g, S) = b[S]
  BY SumIsRun
<1> DEFINE Q == {s \in SUBSET S : a[s] <= b[s] /\ (a[s] = b[s] => \A x \in s : f[x] = g[x])}
<1>3. {} \in Q
  BY <1>1, <1>2
<1>4. ASSUME NEW s \in SUBSET S, s # {}, Rest(s) \in Q PROVE s \in Q
  <2>1. Pick(s) \in S /\ Rest(s) \in SUBSET S
    BY <1>4, RestSmaller
  <2>2. /\ a[s] = f[Pick(s)] + a[Rest(s)] /\ b[s] = g[Pick(s)] + b[Rest(s)]
        /\ a[Rest(s)] \in Nat /\ b[Rest(s)] \in Nat
        /\ f[Pick(s)] \in Nat /\ g[Pick(s)] \in Nat /\ f[Pick(s)] <= g[Pick(s)]
    BY <1>1, <1>2, <1>4, <2>1
  <2>3. /\ a[Rest(s)] <= b[Rest(s)]
        /\ a[Rest(s)] = b[Rest(s)] => \A x \in Rest(s) : f[x] = g[x]
    BY <1>4
  <2>4. a[s] <= b[s]
    BY <2>2, <2>3
  <2>5. a[s] = b[s] => f[Pick(s)] = g[Pick(s)] /\ a[Rest(s)] = b[Rest(s)]
    BY <2>2, <2>3
  <2>6. \A x \in s : x = Pick(s) \/ x \in Rest(s)
    BY DEF Rest
  <2> QED
    BY <2>3, <2>4, <2>5, <2>6
<1>5. \A s \in SUBSET S : s \in Q
  <2> HIDE DEF Q
  <2> QED
    BY <1>3, <1>4, SubsetInduction
<1> QED
  BY <1>1, <1>2, <1>5

(* The sum over a subset is one over the whole set that skips the others. *)
LEMMA SumFilter ==
  ASSUME NEW S, IsFiniteSet(S), NEW T \in SUBSET S, NEW f, \A x \in S : f[x] \in Nat
  PROVE  SumFunctionOnSet(f, T) = SumFunctionOnSet([x \in S |-> IF x \in T THEN f[x] ELSE 0], S)
<1> DEFINE Only(s) == [x \in S |-> IF x \in s THEN f[x] ELSE 0]
<1>0. IsFiniteSet(T) /\ \A x \in T : f[x] \in Nat
  BY FS_Subset
<1>1. PICK a \in [SUBSET T -> Nat] :
        /\ a[{}] = 0
        /\ \A s \in SUBSET T : s # {} => a[s] = f[Pick(s)] + a[Rest(s)]
        /\ SumFunctionOnSet(f, T) = a[T]
  BY <1>0, SumIsRun
<1> DEFINE R == {s \in SUBSET T : SumFunctionOnSet(Only(s), S) = a[s]}
<1>2. {} \in R
  <2>1. \A x \in S : Only({})[x] = 0
    OBVIOUS
  <2>2. SumFunctionOnSet(Only({}), S) = 0
    <3> HIDE DEF Only
    <3> QED
      BY <2>1, SumZero
  <2> QED
    BY <1>1, <2>2
<1>3. ASSUME NEW s \in SUBSET T, s # {}, Rest(s) \in R PROVE s \in R
  <2> DEFINE p == Pick(s)
             F == Only(Rest(s))
             G == Only(s)
  <2>1. p \in s /\ p \in S /\ Rest(s) \in SUBSET T /\ p \notin Rest(s) /\ f[p] \in Nat
    BY <1>0, <1>3, RestSmaller DEF Rest
  <2>2. \A x \in S : x # p => (x \in s <=> x \in Rest(s))
    BY DEF Rest
  <2>3. /\ \A x \in S : F[x] \in Nat /\ G[x] \in Nat
        /\ \A x \in S : x # p => G[x] = F[x]
        /\ F[p] = 0 /\ G[p] = f[p]
    BY <2>1, <2>2
  <2>4. a[s] = f[p] + a[Rest(s)] /\ a[Rest(s)] \in Nat
    BY <1>1, <1>3, <2>1
  <2>5. SumFunctionOnSet(F, S) = a[Rest(s)]
    BY <1>3
  <2> HIDE DEF p, F, G
  <2>6. SumFunctionOnSet(G, S) + F[p] = SumFunctionOnSet(F, S) + G[p]
    BY <2>1, <2>3, SumOne
  <2>7. SumFunctionOnSet(G, S) = a[s]
    <3>1. SumFunctionOnSet(G, S) \in Nat
      BY <2>3, SumNat
    <3> QED
      BY <2>1, <2>3, <2>4, <2>5, <2>6, <3>1
  <2> QED
    BY <2>7 DEF G
<1>4. \A s \in SUBSET T : s \in R
  <2> HIDE DEF R
  <2> QED
    BY <1>0, <1>2, <1>3, SubsetInduction
<1> QED
  BY <1>1, <1>4

(* The sum over a larger set is larger. *)
LEMMA SumSubset ==
  ASSUME NEW S, IsFiniteSet(S), NEW T \in SUBSET S, NEW f, \A x \in S : f[x] \in Nat
  PROVE  SumFunctionOnSet(f, T) <= SumFunctionOnSet(f, S)
<1> DEFINE g == [x \in S |-> IF x \in T THEN f[x] ELSE 0]
<1>1. \A x \in S : g[x] \in Nat /\ f[x] \in Nat /\ g[x] <= f[x]
  OBVIOUS
<1>2. SumFunctionOnSet(f, T) = SumFunctionOnSet(g, S)
  BY SumFilter
<1> HIDE DEF g
<1>3. SumFunctionOnSet(g, S) <= SumFunctionOnSet(f, S)
  BY <1>1, SumMono
<1> QED
  BY <1>2, <1>3

-----------------------------------------------------------------------------
(* Types, and the bound on the requests. *)

(* The workers that have passed the loop's condition. *)
Begun == {w \in Workers : wpc[w] \in {"tick", "send"}}

(* A request may still be begun by everybody who has seen a counter below    *)
(* MaxSteps, which is less than a request per worker too many.               *)
BudgetInv == counter + Cardinality(Begun) <= MaxSteps + Cardinality(Workers) - 1

LoadTypeInv == LoadTypeOK /\ BudgetInv

(* The workers are finitely many and at least one. *)
LEMMA WorkersFinite ==
  /\ IsFiniteSet(Workers) /\ Cardinality(Workers) \in Nat \ {0}
  /\ \A S \in SUBSET Workers : /\ IsFiniteSet(S) /\ Cardinality(S) \in Nat
                               /\ Cardinality(S) <= Cardinality(Workers)
<1>1. IsFiniteSet(Workers) /\ Workers # {}
  BY LoadAssumption
<1>2. Cardinality(Workers) \in Nat /\ Cardinality(Workers) # 0
  BY <1>1, FS_CardinalityType, FS_EmptySet
<1>3. ASSUME NEW S \in SUBSET Workers
      PROVE  IsFiniteSet(S) /\ Cardinality(S) \in Nat /\ Cardinality(S) <= Cardinality(Workers)
  <2>1. IsFiniteSet(S) /\ Cardinality(S) <= Cardinality(Workers)
    BY <1>1, FS_Subset
  <2> QED
    BY <2>1, FS_CardinalityType
<1> QED
  BY <1>1, <1>2, <1>3

(* A status code falls in one of the six classes. *)
LEMMA ClassRange == ASSUME NEW c \in Nat PROVE Class(c) \in 0 .. 5
BY DEF Class

(* A latency falls in one of the buckets. *)
LEMMA BucketRange ==
  ASSUME NEW d \in Nat
  PROVE  BucketOf(d) \in 0 .. LastBucket /\ LastBucket \in Nat
<1>1. LastBucket \in Nat /\ d \div BucketWidth \in Nat
  BY HistAssumption DEF LastBucket
<1> QED
  BY <1>1 DEF BucketOf, Smaller

(* NewHist is a histogram. *)
LEMMA NewHistType == NewHist \in Histogram
BY HistAssumption DEF NewHist, Histogram

(* Observe returns a histogram. *)
LEMMA ObserveType ==
  ASSUME NEW h \in Histogram, NEW d \in Nat
  PROVE  Observe(h, d) \in Histogram
<1>1. /\ h.buckets \in [0 .. LastBucket -> Nat] /\ h.count \in Nat /\ h.sumNs \in Nat
      /\ h.minNs \in Nat /\ h.maxNs \in Nat
  BY DEF Histogram
<1>2. BucketOf(d) \in 0 .. LastBucket
  BY BucketRange
<1>3. [h.buckets EXCEPT ![BucketOf(d)] = @ + 1] \in [0 .. LastBucket -> Nat]
  <2> DEFINE b == h.buckets
             i == BucketOf(d)
             D == 0 .. LastBucket
  <2>1. b \in [D -> Nat] /\ i \in D
    BY <1>1, <1>2
  <2> HIDE DEF b, i, D
  <2>2. [b EXCEPT ![i] = @ + 1] \in [D -> Nat]
    BY <2>1
  <2> QED
    BY <2>2 DEF b, i, D
<1>4. Smaller(d, h.minNs) \in Nat /\ Larger(d, h.maxNs) \in Nat
  BY <1>1 DEF Smaller, Larger
<1> QED
  BY <1>1, <1>3, <1>4 DEF Observe, Histogram

(* The load generator starts well typed and within its budget. *)
LEMMA LoadTypeInit == LoadInit => LoadTypeInv
<1> SUFFICES ASSUME LoadInit PROVE LoadTypeInv
  OBVIOUS
<1>1. Begun = {} /\ counter = 0
  BY DEF LoadInit, Begun
<1>2. Cardinality(Begun) = 0
  BY <1>1, FS_EmptySet
<1>3. BudgetInv /\ counter \in 0 .. MaxSteps + Cardinality(Workers) - 1
  BY <1>1, <1>2, WorkersFinite, LoadAssumption DEF BudgetInv
<1>4. /\ scenario \in Scenarios /\ capped \in BOOLEAN
      /\ interrupted \in BOOLEAN /\ cancelled \in BOOLEAN
      /\ measuring \in BOOLEAN /\ tick \in BOOLEAN
  BY Zenon DEF LoadInit
<1>5. NoRequest \in [warm : BOOLEAN, code : Nat, lat : Nat]
  BY DEF NoRequest
<1>6. /\ wpc \in [Workers -> {"gate", "check", "tick", "send", "wait", "filter", "observe", "exited"}]
      /\ mpc \in {"setup", "run", "drain", "done", "failed"}
  BY DEF LoadInit
<1>7. /\ req \in [Workers -> [warm : BOOLEAN, code : Nat, lat : Nat]]
      /\ hists \in [Workers -> Histogram]
  BY <1>5, NewHistType, Zenon DEF LoadInit
<1>8. /\ loaded \in 0 .. NumKeys /\ status \in [0 .. 5 -> Nat] /\ errs \in Nat
      /\ reads \in Nat /\ answered \in [Outcomes -> Nat]
  BY LoadAssumption DEF LoadInit
<1>9. LoadTypeOK
  BY <1>3, <1>4, <1>6, <1>7, <1>8, Zenon DEF LoadTypeOK
<1> QED
  BY <1>3, <1>9 DEF LoadTypeInv

PCs == {"gate", "check", "tick", "send", "wait", "filter", "observe", "exited"}

Requests == [warm : BOOLEAN, code : Nat, lat : Nat]

(* The steps of a worker change its own place, request and histogram only.   *)
LEMMA WorkerOwn ==
  ASSUME LoadTypeOK, NEW w \in Workers, WorkerStep(w)
  PROVE  /\ \E p \in PCs : wpc' = [wpc EXCEPT ![w] = p]
         /\ \E r \in Requests : req' = [req EXCEPT ![w] = r]
         /\ \E h \in Histogram : hists' = [hists EXCEPT ![w] = h]
         /\ UNCHANGED <<scenario, capped, mpc, loaded, interrupted, cancelled, measuring, result>>
<1>0. /\ wpc \in [Workers -> PCs] /\ req \in [Workers -> Requests]
      /\ hists \in [Workers -> Histogram] /\ measuring \in BOOLEAN
  BY DEF LoadTypeOK, PCs, Requests
<1>1. \E p \in PCs : wpc' = [wpc EXCEPT ![w] = p]
  <2>1. Filter(w) => \E p \in PCs : wpc' = [wpc EXCEPT ![w] = p]
    BY DEF Filter, PCs
  <2>2. Check(w) => \E p \in PCs : wpc' = [wpc EXCEPT ![w] = p]
    BY DEF Check, PCs
  <2> QED
    BY <2>1, <2>2 DEF WorkerStep, TakeTick, TickCancelled, Send, Receive, Abort, ObserveLatency, PCs
<1>2. \E r \in Requests : req' = [req EXCEPT ![w] = r]
  <2>1. UNCHANGED req => \E r \in Requests : req' = [req EXCEPT ![w] = r]
    <3> SUFFICES ASSUME UNCHANGED req PROVE req' = [req EXCEPT ![w] = req[w]] /\ req[w] \in Requests
      BY Zenon
    <3> QED
      BY <1>0
  <2>2. NoRequest \in Requests /\ [NoRequest EXCEPT !.warm = ~measuring] \in Requests
    BY <1>0 DEF NoRequest, Requests
  <2>3. ASSUME NEW o \in Outcomes, Receive(w, o)
        PROVE  \E r \in Requests : req' = [req EXCEPT ![w] = r]
    <3>1. o.code \in Nat /\ o.lat \in Nat
      BY LoadAssumption
    <3>2. [req[w] EXCEPT !.code = o.code, !.lat = o.lat] \in Requests
      BY <1>0, <3>1 DEF Requests
    <3>3. req' = [req EXCEPT ![w] = [req[w] EXCEPT !.code = o.code, !.lat = o.lat]]
      BY <1>0, <2>3 DEF Receive
    <3> QED
      BY <3>2, <3>3, Zenon
  <2>4. ASSUME NEW l \in Latencies, Abort(w, l)
        PROVE  \E r \in Requests : req' = [req EXCEPT ![w] = r]
    <3>1. l \in Nat
      BY LoadAssumption DEF Latencies
    <3>2. [req[w] EXCEPT !.code = 0, !.lat = l] \in Requests
      BY <1>0, <3>1 DEF Requests
    <3>3. req' = [req EXCEPT ![w] = [req[w] EXCEPT !.code = 0, !.lat = l]]
      BY <1>0, <2>4 DEF Abort
    <3> QED
      BY <3>2, <3>3, Zenon
  <2> QED
    BY <2>1, <2>2, <2>3, <2>4, Zenon
       DEF WorkerStep, Check, TakeTick, TickCancelled, Send, Filter, ObserveLatency
<1>3. \E h \in Histogram : hists' = [hists EXCEPT ![w] = h]
  <2>1. UNCHANGED hists => \E h \in Histogram : hists' = [hists EXCEPT ![w] = h]
    <3> SUFFICES ASSUME UNCHANGED hists
                 PROVE  hists' = [hists EXCEPT ![w] = hists[w]] /\ hists[w] \in Histogram
      BY Zenon
    <3> QED
      BY <1>0
  <2>2. Observe(hists[w], req[w].lat) \in Histogram
    <3>1. req[w].lat \in Nat /\ hists[w] \in Histogram
      BY <1>0 DEF Requests
    <3> QED
      BY <3>1, ObserveType
  <2> QED
    BY <2>1, <2>2, Zenon
       DEF WorkerStep, Check, TakeTick, TickCancelled, Send, Receive, Abort, Filter, ObserveLatency
<1>4. UNCHANGED <<scenario, capped, mpc, loaded, interrupted, cancelled, measuring, result>>
  BY Zenon
     DEF WorkerStep, Check, TakeTick, TickCancelled, Send, Receive, Abort, Filter, ObserveLatency
<1> QED
  BY <1>1, <1>2, <1>3, <1>4

(* What is not a worker. *)
Others == MainStep \/ WarmUpOver \/ Tick \/ Interrupt

(* A step is one of a worker or one of the ticker, the deadline and Run itself. *)
LEMMA LoadNextParts == LoadNext <=> Others \/ \E w \in Workers : WorkerStep(w)
BY Zenon DEF LoadNext, Others

(* The other steps leave the counts alone; only Start moves workers.         *)
LEMMA OthersLeave ==
  ASSUME Others
  PROVE  /\ UNCHANGED <<scenario, capped, req, hists, status, errs, counter, reads, answered>>
         /\ UNCHANGED wpc \/ Start
BY Zenon
   DEF Others, MainStep, SetupPut, SetupFails, Start, Cancel, Finish, WarmUpOver, Tick, Interrupt

(* The flags. *)
LEMMA FlagsNext ==
  ASSUME LoadTypeOK, [LoadNext]_loadVars
  PROVE  /\ scenario' \in Scenarios /\ capped' \in BOOLEAN
         /\ interrupted' \in BOOLEAN /\ cancelled' \in BOOLEAN
         /\ measuring' \in BOOLEAN /\ tick' \in BOOLEAN
<1>0. /\ scenario \in Scenarios /\ capped \in BOOLEAN
      /\ interrupted \in BOOLEAN /\ cancelled \in BOOLEAN
      /\ measuring \in BOOLEAN /\ tick \in BOOLEAN
  BY Zenon DEF LoadTypeOK
<1>1. \A b \in BOOLEAN : TRUE \in BOOLEAN /\ FALSE \in BOOLEAN
  BY Zenon
<1>2. ASSUME Others
      PROVE  /\ UNCHANGED <<scenario, capped>> /\ (UNCHANGED interrupted \/ interrupted' = TRUE)
             /\ (UNCHANGED cancelled \/ cancelled' = TRUE)
             /\ (UNCHANGED measuring \/ measuring' = TRUE)
             /\ (UNCHANGED tick \/ tick' = TRUE)
  BY <1>2, Zenon
     DEF Others, MainStep, SetupPut, SetupFails, Start, Cancel, Finish, WarmUpOver, Tick, Interrupt
<1>3. ASSUME NEW w \in Workers, WorkerStep(w)
      PROVE  /\ UNCHANGED <<scenario, capped, interrupted, cancelled, measuring>>
             /\ (UNCHANGED tick \/ tick' = FALSE)
  BY <1>3, Zenon
     DEF WorkerStep, Check, TakeTick, TickCancelled, Send, Receive, Abort, Filter, ObserveLatency
<1>4. ASSUME UNCHANGED loadVars
      PROVE  UNCHANGED <<scenario, capped, interrupted, cancelled, measuring, tick>>
  BY <1>4, Zenon DEF loadVars
<1> QED
  BY <1>0, <1>1, <1>2, <1>3, <1>4, LoadNextParts, Zenon

(* The bound. *)
LEMMA BudgetNext ==
  ASSUME LoadTypeInv, [LoadNext]_loadVars
  PROVE  BudgetInv' /\ counter' \in 0 .. MaxSteps + Cardinality(Workers) - 1
<1>0. /\ counter \in Nat /\ MaxSteps \in Nat /\ BudgetInv
      /\ wpc \in [Workers -> PCs]
  BY LoadAssumption, WorkersFinite DEF LoadTypeInv, LoadTypeOK, PCs
<1>1. /\ Begun \in SUBSET Workers /\ Begun' \in SUBSET Workers
      /\ IsFiniteSet(Begun) /\ Cardinality(Begun) \in Nat
      /\ Cardinality(Begun') \in Nat /\ Cardinality(Begun') <= Cardinality(Workers)
      /\ Cardinality(Workers) \in Nat
  BY WorkersFinite DEF Begun
<1>2. SUFFICES counter' \in Nat /\ BudgetInv'
  BY <1>0, <1>1, <1>2 DEF BudgetInv
<1>3. ASSUME UNCHANGED counter, Begun' \subseteq Begun PROVE BudgetInv'
  <2>1. Cardinality(Begun') <= Cardinality(Begun)
    BY <1>1, <1>3, FS_Subset
  <2> QED
    BY <1>0, <1>1, <1>3, <2>1 DEF BudgetInv
<1>4. ASSUME NEW w \in Workers, Check(w) PROVE counter' \in Nat /\ BudgetInv'
  <2>1. CASE Stopped
    <3>1. UNCHANGED counter /\ wpc' = [wpc EXCEPT ![w] = "exited"]
      BY <1>4, <2>1 DEF Check
    <3>2. Begun' \subseteq Begun
      BY <1>0, <3>1 DEF Begun
    <3> QED
      BY <1>0, <1>3, <3>1, <3>2
  <2>2. CASE ~ Stopped
    <3>1. UNCHANGED counter /\ counter < MaxSteps
      BY <1>4, <2>2 DEF Check
    <3> QED
      BY <1>0, <1>1, <3>1 DEF BudgetInv
  <2> QED
    BY <2>1, <2>2
<1>5. ASSUME NEW w \in Workers, Send(w) PROVE counter' \in Nat /\ BudgetInv'
  <2>1. /\ counter' = counter + 1 /\ wpc[w] = "send" /\ wpc' = [wpc EXCEPT ![w] = "wait"]
    BY <1>5 DEF Send
  <2>2. w \in Begun /\ Begun' = Begun \ {w}
    BY <1>0, <2>1 DEF Begun
  <2>3. Cardinality(Begun') = Cardinality(Begun) - 1
    BY <1>1, <2>2, FS_RemoveElement
  <2> QED
    BY <1>0, <1>1, <2>1, <2>3 DEF BudgetInv
<1>6. ASSUME NEW w \in Workers, WorkerStep(w), ~ Check(w), ~ Send(w)
      PROVE  counter' \in Nat /\ BudgetInv'
  <2>1. UNCHANGED counter
    BY <1>6, Zenon
       DEF WorkerStep, TakeTick, TickCancelled, Receive, Abort, Filter, ObserveLatency
  <2>2. \/ wpc[w] = "tick" /\ wpc' = [wpc EXCEPT ![w] = "send"]
        \/ \E p \in {"exited", "filter", "check", "observe"} : wpc' = [wpc EXCEPT ![w] = p]
    BY <1>6
       DEF WorkerStep, TakeTick, TickCancelled, Receive, Abort, Filter, ObserveLatency
  <2>3. Begun' \subseteq Begun
    BY <1>0, <2>2 DEF Begun
  <2> QED
    BY <1>0, <1>3, <2>1, <2>3
<1>7. ASSUME Others PROVE counter' \in Nat /\ BudgetInv'
  <2>1. UNCHANGED counter /\ (UNCHANGED wpc \/ Start)
    BY <1>7, OthersLeave
  <2>2. Begun' \subseteq Begun
    BY <1>0, <2>1 DEF Begun, Start
  <2> QED
    BY <1>0, <1>3, <2>1, <2>2
<1>8. ASSUME UNCHANGED loadVars PROVE counter' \in Nat /\ BudgetInv'
  <2>1. UNCHANGED <<counter, wpc>>
    BY <1>8 DEF loadVars
  <2>2. Begun' \subseteq Begun
    BY <2>1 DEF Begun
  <2> QED
    BY <1>0, <1>3, <2>1, <2>2
<1>9. ASSUME NEW w \in Workers, WorkerStep(w) PROVE counter' \in Nat /\ BudgetInv'
  BY <1>4, <1>5, <1>6, <1>9
<1> QED
  BY <1>7, <1>8, <1>9, LoadNextParts

(* The type invariant and the budget are inductive. *)
LEMMA LoadTypeNext == LoadTypeInv /\ [LoadNext]_loadVars => LoadTypeInv'
<1> SUFFICES ASSUME LoadTypeInv, [LoadNext]_loadVars PROVE LoadTypeInv'
  OBVIOUS
<1>0. /\ LoadTypeOK
      /\ mpc \in {"setup", "run", "drain", "done", "failed"}
      /\ loaded \in 0 .. NumKeys /\ NumKeys \in Nat
      /\ wpc \in [Workers -> PCs] /\ req \in [Workers -> Requests]
      /\ hists \in [Workers -> Histogram]
      /\ status \in [0 .. 5 -> Nat] /\ errs \in Nat /\ reads \in Nat
      /\ answered \in [Outcomes -> Nat]
  BY LoadAssumption DEF LoadTypeInv, LoadTypeOK, PCs, Requests
<1> DEFINE Own == /\ wpc \in [Workers -> PCs] /\ req \in [Workers -> Requests]
                  /\ hists \in [Workers -> Histogram]
           Counts == /\ status \in [0 .. 5 -> Nat] /\ errs \in Nat /\ reads \in Nat
                     /\ answered \in [Outcomes -> Nat]
           Main == /\ mpc \in {"setup", "run", "drain", "done", "failed"}
                   /\ loaded \in 0 .. NumKeys
<1>1. Own'
  <2>1. ASSUME NEW w \in Workers, WorkerStep(w) PROVE Own'
    <3>1. /\ \E p \in PCs : wpc' = [wpc EXCEPT ![w] = p]
          /\ \E r \in Requests : req' = [req EXCEPT ![w] = r]
          /\ \E h \in Histogram : hists' = [hists EXCEPT ![w] = h]
      BY <1>0, <2>1, WorkerOwn
    <3>2. wpc' \in [Workers -> PCs]
      BY <1>0, <3>1
    <3>3. req' \in [Workers -> Requests]
      BY <1>0, <3>1
    <3>4. hists' \in [Workers -> Histogram]
      BY <1>0, <3>1
    <3> QED
      BY <3>2, <3>3, <3>4
  <2>2. ASSUME Others PROVE Own'
    <3>1. UNCHANGED <<req, hists>> /\ (UNCHANGED wpc \/ Start)
      BY <2>2, OthersLeave
    <3>2. wpc' \in [Workers -> PCs]
      BY <1>0, <3>1 DEF Start, PCs
    <3> QED
      BY <1>0, <3>1, <3>2
  <2>3. ASSUME UNCHANGED loadVars PROVE Own'
    BY <1>0, <2>3 DEF loadVars
  <2> QED
    BY <2>1, <2>2, <2>3, LoadNextParts
<1>2. Counts'
  <2>1. ASSUME NEW w \in Workers, Send(w) PROVE Counts'
    <3>1. UNCHANGED <<status, errs, answered>> /\ reads' \in {reads, reads + 1}
      BY <2>1 DEF Send
    <3> QED
      BY <1>0, <3>1
  <2>2. ASSUME NEW w \in Workers, NEW o \in Outcomes, Receive(w, o) PROVE Counts'
    <3>1. /\ UNCHANGED <<status, errs, reads>>
          /\ answered' = answered \/ answered' = [answered EXCEPT ![o] = @ + 1]
      BY <2>2 DEF Receive
    <3> QED
      BY <1>0, <3>1
  <2>3. ASSUME NEW w \in Workers, Filter(w) PROVE Counts'
    <3>1. req[w].code \in Nat
      BY <1>0 DEF Requests
    <3>2. Class(req[w].code) \in 0 .. 5
      BY <3>1, ClassRange
    <3> DEFINE c == Class(req[w].code)
    <3>3. /\ UNCHANGED <<reads, answered>>
          /\ status' = status \/ status' = [status EXCEPT ![c] = @ + 1]
          /\ errs' \in {errs, errs + 1}
      BY <2>3 DEF Filter
    <3> HIDE DEF c
    <3> QED
      BY <1>0, <3>2, <3>3 DEF c
  <2>4. ASSUME NEW w \in Workers, WorkerStep(w) PROVE Counts'
    <3>1. \/ UNCHANGED <<status, errs, reads, answered>>
          \/ Send(w) \/ Filter(w) \/ \E o \in Outcomes : Receive(w, o)
      BY <2>4, Zenon DEF WorkerStep, Check, TakeTick, TickCancelled, Abort, ObserveLatency
    <3> QED
      BY <1>0, <2>1, <2>2, <2>3, <3>1
  <2>5. ASSUME Others PROVE Counts'
    BY <1>0, <2>5, OthersLeave
  <2>6. ASSUME UNCHANGED loadVars PROVE Counts'
    BY <1>0, <2>6 DEF loadVars
  <2> QED
    BY <2>4, <2>5, <2>6, LoadNextParts
<1>3. Main'
  <2>1. ASSUME NEW w \in Workers, WorkerStep(w) PROVE Main'
    BY <1>0, <2>1, WorkerOwn
  <2>2. ASSUME Others PROVE Main'
    BY <1>0, <2>2
       DEF Others, MainStep, SetupPut, SetupFails, Start, Cancel, Finish, WarmUpOver, Tick, Interrupt
  <2>3. ASSUME UNCHANGED loadVars PROVE Main'
    BY <1>0, <2>3 DEF loadVars
  <2> QED
    BY <2>1, <2>2, <2>3, LoadNextParts
<1>4. /\ scenario' \in Scenarios /\ capped' \in BOOLEAN
      /\ interrupted' \in BOOLEAN /\ cancelled' \in BOOLEAN
      /\ measuring' \in BOOLEAN /\ tick' \in BOOLEAN
  BY <1>0, FlagsNext
<1>5. BudgetInv' /\ counter' \in 0 .. MaxSteps + Cardinality(Workers) - 1
  BY BudgetNext
<1> QED
  BY <1>1, <1>2, <1>3, <1>4, <1>5, Zenon DEF LoadTypeInv, LoadTypeOK, PCs, Requests

(* Type correctness, with the bound on the requests: the workers together     *)
(* exceed MaxSteps by less than one request each.                            *)
THEOREM LoadTypeCorrect == LoadSpec => []LoadTypeOK
<1>1. LoadInit => LoadTypeInv
  BY LoadTypeInit
<1>2. LoadTypeInv /\ [LoadNext]_loadVars => LoadTypeInv'
  BY LoadTypeNext
<1>3. LoadTypeInv => LoadTypeOK
  BY DEF LoadTypeInv
<1> QED
  BY <1>1, <1>2, <1>3, PTL DEF LoadSpec

-----------------------------------------------------------------------------
(* The mix. *)

(* Quotient and remainder are unique. *)
LEMMA DivMod ==
  ASSUME NEW c \in Nat \ {0}, NEW q \in Nat, NEW r \in 0 .. c - 1
  PROVE  (q * c + r) \div c = q /\ (q * c + r) % c = r
<1> DEFINE n == q * c + r
           p == n \div c
           t == n % c
<1>1. n \in Nat
  OBVIOUS
<1>2. p \in Int /\ t \in 0 .. c - 1 /\ n = c * p + t
  <2> HIDE DEF n
  <2> QED
    BY <1>1
<1>3. q * c + r = c * p + t
  BY <1>2
<1> HIDE DEF n, p, t
<1>4. c * (q - p) = t - r
  <2>1. c * (q - p) = q * c - c * p
    BY <1>2
  <2> QED
    BY <1>2, <1>3, <2>1
<1>5. q = p
  <2>1. CASE q - p >= 1
    <3>1. c * (q - p) >= c
      BY <1>2, <2>1
    <3> QED
      BY <1>2, <1>4, <3>1
  <2>2. CASE q - p <= -1
    <3>1. c * (q - p) <= -c
      BY <1>2, <2>2
    <3> QED
      BY <1>2, <1>4, <3>1
  <2> QED
    BY <1>2, <2>1, <2>2
<1>6. r = t
  BY <1>2, <1>3, <1>5
<1> QED
  BY <1>5, <1>6 DEF n, p, t

(* The reads among the first r requests of a cycle: the request that         *)
(* completes a cycle is its first read.                                      *)
Begin(r) == IF ReadShare = 0 THEN 0 ELSE Smaller(r, ReadShare - 1)

MixInv ==
  scenario = "mixed" =>
    \E q \in Nat, r \in 0 .. Cycle - 1 :
      counter = q * Cycle + r /\ reads = q * ReadShare + Begin(r)

(* Every step keeps the reads in their share of the requests begun. *)
LEMMA MixInvNext ==
  ASSUME LoadTypeInv, MixInv, [LoadNext]_loadVars
  PROVE  MixInv'
<1>0. /\ Cycle \in Nat \ {0} /\ ReadShare \in 0 .. Cycle /\ counter \in Nat /\ reads \in Nat
  BY LoadAssumption, WorkersFinite DEF LoadTypeInv, LoadTypeOK
<1>1. ASSUME UNCHANGED <<scenario, counter, reads>> PROVE MixInv'
  BY <1>1 DEF MixInv
<1>2. ASSUME NEW w \in Workers, Send(w) PROVE MixInv'
  <2>1. UNCHANGED scenario /\ counter' = counter + 1
    BY <1>2 DEF Send
  <2> SUFFICES ASSUME scenario = "mixed"
               PROVE  \E q \in Nat, r \in 0 .. Cycle - 1 :
                        counter' = q * Cycle + r /\ reads' = q * ReadShare + Begin(r)
    BY <2>1 DEF MixInv
  <2>2. PICK q \in Nat, r \in 0 .. Cycle - 1 :
          counter = q * Cycle + r /\ reads = q * ReadShare + Begin(r)
    BY DEF MixInv
  <2>3. reads' = IF (counter + 1) % Cycle < ReadShare THEN reads + 1 ELSE reads
    BY <1>2 DEF Send, IsRead
  <2> DEFINE a == q * Cycle
             b == q * ReadShare
  <2>4. a \in Nat /\ b \in Nat
    BY <1>0
  <2>5. (q + 1) * Cycle = a + Cycle /\ (q + 1) * ReadShare = b + ReadShare
    BY <1>0
  <2>6. CASE r < Cycle - 1
    <3>1. r + 1 \in 0 .. Cycle - 1
      BY <1>0, <2>6
    <3>2. counter' = q * Cycle + (r + 1)
      <4> HIDE DEF a
      <4>1. counter' = a + (r + 1)
        BY <2>1, <2>2, <2>4 DEF a
      <4> QED
        BY <4>1 DEF a
    <3>3. counter' % Cycle = r + 1
      BY <1>0, <3>1, <3>2, DivMod
    <3>4. reads' = b + Begin(r + 1)
      <4>1. reads = b + Begin(r)
        BY <2>2
      <4>2. reads' = IF r + 1 < ReadShare THEN reads + 1 ELSE reads
        BY <2>1, <2>3, <3>3
      <4> HIDE DEF b
      <4> QED
        BY <1>0, <2>4, <2>6, <4>1, <4>2 DEF Begin, Smaller
    <3> QED
      BY <3>1, <3>2, <3>4
  <2>7. CASE ~ (r < Cycle - 1)
    <3>1. r = Cycle - 1
      BY <1>0, <2>7
    <3>2. counter' = (q + 1) * Cycle + 0
      <4>1. counter = a + r
        BY <2>2
      <4> HIDE DEF a
      <4>2. counter' = a + Cycle
        BY <1>0, <2>1, <2>4, <3>1, <4>1
      <4>3. a + Cycle = (a + Cycle) + 0
        BY <1>0, <2>4
      <4> QED
        BY <2>5, <4>2, <4>3
    <3>3. 0 \in 0 .. Cycle - 1 /\ q + 1 \in Nat
      BY <1>0
    <3>4. counter' % Cycle = 0
      BY <1>0, <3>2, <3>3, DivMod
    <3>5. reads' = (q + 1) * ReadShare + Begin(0)
      <4>1. reads = b + Begin(r)
        BY <2>2
      <4>2. reads' = IF 0 < ReadShare THEN reads + 1 ELSE reads
        BY <2>1, <2>3, <3>4
      <4> HIDE DEF b
      <4>3. reads' = b + ReadShare
        BY <1>0, <2>4, <3>1, <4>1, <4>2 DEF Begin, Smaller
      <4>4. Begin(0) = 0
        BY <1>0 DEF Begin, Smaller
      <4> QED
        BY <1>0, <2>4, <2>5, <4>3, <4>4
    <3> QED
      BY <3>2, <3>3, <3>5
  <2> QED
    BY <2>6, <2>7
<1>3. ASSUME NEW w \in Workers, WorkerStep(w), ~ Send(w) PROVE MixInv'
  <2>1. UNCHANGED <<scenario, counter, reads>>
    BY <1>3, Zenon
       DEF WorkerStep, Check, TakeTick, TickCancelled, Receive, Abort, Filter, ObserveLatency
  <2> QED
    BY <1>1, <2>1
<1>4. ASSUME Others PROVE MixInv'
  BY <1>1, <1>4, OthersLeave
<1>5. ASSUME UNCHANGED loadVars PROVE MixInv'
  <2>1. UNCHANGED <<scenario, counter, reads>>
    BY <1>5 DEF loadVars
  <2> QED
    BY <1>1, <2>1
<1> QED
  BY <1>2, <1>3, <1>4, <1>5, LoadNextParts

(* Of every whole number of cycles the configured share is reads, for any    *)
(* cycle, any share and any number of workers.                               *)
THEOREM MixIsExactHolds == LoadSpec => []MixIsExact
<1>1. LoadInit => LoadTypeInv /\ MixInv
  <2> SUFFICES ASSUME LoadInit PROVE MixInv
    BY LoadTypeInit
  <2>1. counter = 0 /\ reads = 0
    BY DEF LoadInit
  <2>2. /\ 0 \in Nat /\ 0 \in 0 .. Cycle - 1
        /\ 0 = 0 * Cycle + 0 /\ 0 = 0 * ReadShare + Begin(0)
    BY LoadAssumption DEF Begin, Smaller
  <2> QED
    BY <2>1, <2>2 DEF MixInv
<1>2. LoadTypeInv /\ MixInv /\ [LoadNext]_loadVars => (LoadTypeInv /\ MixInv)'
  BY LoadTypeNext, MixInvNext
<1>3. LoadTypeInv /\ MixInv => MixIsExact
  <2> SUFFICES ASSUME MixInv, scenario = "mixed", counter % Cycle = 0
               PROVE  reads = (counter \div Cycle) * ReadShare
    BY DEF MixIsExact
  <2>0. Cycle \in Nat \ {0} /\ ReadShare \in 0 .. Cycle
    BY LoadAssumption
  <2>1. PICK q \in Nat, r \in 0 .. Cycle - 1 :
          counter = q * Cycle + r /\ reads = q * ReadShare + Begin(r)
    BY DEF MixInv
  <2>2. counter \div Cycle = q /\ counter % Cycle = r
    BY <2>0, <2>1, DivMod
  <2>3. Begin(r) = 0
    BY <2>0, <2>2 DEF Begin, Smaller
  <2>4. q * ReadShare \in Nat
    BY <2>0
  <2> QED
    BY <2>1, <2>2, <2>3, <2>4
<1> QED
  BY <1>1, <1>2, <1>3, PTL DEF LoadSpec

-----------------------------------------------------------------------------
(* The report. *)

(* Requests whose outcome will be counted and is not yet, by their code. *)
Waiting(C) == {w \in Workers : wpc[w] = "filter" /\ ~Dropped(req[w]) /\ req[w].code \in C}

(* Requests of the window that met a code of C. *)
Replies(C) == Met({o \in Outcomes : o.code \in C})

Codes(c) == {n \in Nat \ {0} : Class(n) = c}

ErrorCodes == {n \in Nat \ {0} : Class(n) # 0 /\ IsError(n)}

(* Workers between AddStatus and Observe, and the samples of each worker. *)
Observing == {w \in Workers : wpc[w] = "observe"}

Samples == [w \in Workers |-> hists[w].count]

(* What was met is counted or waits to be; transport errors may be dropped.  *)
StatusInv ==
  /\ \A c \in 1 .. 5 : status[c] + Cardinality(Waiting(Codes(c))) = Replies(Codes(c))
  /\ Replies(Codes(0)) <= status[0] + Cardinality(Waiting(Codes(0)))
  /\ status[0] + Cardinality(Waiting(Codes(0))) + Cardinality(Waiting({0}))
       <= Replies(Codes(0)) + Replies({0})
  /\ errs + Cardinality(Waiting(ErrorCodes)) = status[0] + Replies(ErrorCodes)

(* Every counted status has its sample, or its worker is about to add it.    *)
SamplesInv ==
  SumFunctionOnSet(status, 0 .. 5)
    = SumFunctionOnSet(Samples, Workers) + Cardinality(Observing)

(* No worker runs before the gate opens, and none after the result. *)
GateInv == mpc = "setup" => \A w \in Workers : wpc[w] = "gate"

ResultInv ==
  mpc = "done" =>
    /\ \A w \in Workers : wpc[w] = "exited"
    /\ result.Count = SumFunctionOnSet(Samples, Workers)
    /\ result.Errors = errs
    /\ result.StatusClass = status

(* The merge of all histograms H, one after the other. *)
MergeRound(it, H, s) == IF s = {} THEN NewHist ELSE Merge(it[Rest(s)], H[Pick(s)])

TotalOf(H) == FoldFunctionOnSet(LAMBDA h, t : Merge(t, h), NewHist, H, Workers)

(* Merge returns a histogram. *)
LEMMA MergeType ==
  ASSUME NEW h \in Histogram, NEW o \in Histogram
  PROVE  Merge(h, o) \in Histogram
<1>1. /\ h.buckets \in [0 .. LastBucket -> Nat] /\ o.buckets \in [0 .. LastBucket -> Nat]
      /\ h.count \in Nat /\ h.sumNs \in Nat /\ h.minNs \in Nat /\ h.maxNs \in Nat
      /\ o.count \in Nat /\ o.sumNs \in Nat /\ o.minNs \in Nat /\ o.maxNs \in Nat
  BY DEF Histogram
<1>2. [i \in 0 .. LastBucket |-> h.buckets[i] + o.buckets[i]] \in [0 .. LastBucket -> Nat]
  <2> DEFINE D == 0 .. LastBucket
             a == h.buckets
             b == o.buckets
  <2>1. a \in [D -> Nat] /\ b \in [D -> Nat]
    BY <1>1
  <2> HIDE DEF D, a, b
  <2>2. [i \in D |-> a[i] + b[i]] \in [D -> Nat]
    BY <2>1
  <2> QED
    BY <2>2 DEF D, a, b
<1>3. Smaller(o.minNs, h.minNs) \in Nat /\ Larger(o.maxNs, h.maxNs) \in Nat
  BY <1>1 DEF Smaller, Larger
<1> QED
  BY <1>1, <1>2, <1>3 DEF Merge, Histogram

(* The merged histogram is the end of a run that merges one worker at a time. *)
LEMMA TotalIsRun ==
  ASSUME NEW H \in [Workers -> Histogram]
  PROVE  \E it \in [SUBSET Workers -> Histogram] :
           /\ it[{}] = NewHist
           /\ \A s \in SUBSET Workers : s # {} => it[s] = Merge(it[Rest(s)], H[Pick(s)])
           /\ TotalOf(H) = it[Workers]
<1> DEFINE S == Workers
           V == Histogram
           step == [p \in S \X V |-> Merge(p[2], H[p[1]])]
           Is(it) == it = [s \in SUBSET S |-> MergeRound(it, H, s)]
           sum == CHOOSE it : Is(it)
<1>0. IsFiniteSet(S) /\ \A w \in S : H[w] \in V
  BY WorkersFinite
<1>1. TotalOf(H) = sum[S]
  BY Zenon DEF TotalOf, FoldFunctionOnSet, MapThenFoldSet, MergeRound, Pick, Rest
<1>2. NewHist \in V /\ \A h, o \in V : Merge(h, o) \in V
  BY NewHistType, MergeType
<1> HIDE DEF S, V
<1>3. step \in [S \X V -> V]
  BY <1>0, <1>2
<1>4. PICK g : IsFold(g, S, V, NewHist, step)
  <2> HIDE DEF step
  <2> QED
    BY <1>0, <1>2, <1>3, FoldRuns
<1>5. g \in [SUBSET S -> V] /\ \A s \in SUBSET S : g[s] = FoldRound(g, NewHist, step, s)
  BY <1>4 DEF IsFold
<1>6. ASSUME NEW s \in SUBSET S PROVE g[s] = MergeRound(g, H, s)
  <2>1. CASE s = {}
    BY <1>5, <2>1 DEF FoldRound, MergeRound
  <2>2. CASE s # {}
    <3>1. Pick(s) \in S /\ Rest(s) \in SUBSET S
      BY <1>0, <2>2, RestSmaller
    <3>2. g[Rest(s)] \in V
      BY <1>5, <3>1
    <3>3. g[s] = step[<<Pick(s), g[Rest(s)]>>]
      BY <1>5, <2>2 DEF FoldRound
    <3> QED
      BY <2>2, <3>1, <3>2, <3>3 DEF MergeRound
  <2> QED
    BY <2>1, <2>2
<1>7. Is(g)
  <2> DEFINE h == [s \in SUBSET S |-> MergeRound(g, H, s)]
  <2>1. \A s \in SUBSET S : g[s] = h[s]
    BY <1>6
  <2>2. g = h
    BY <1>5, <2>1
  <2> QED
    BY <2>2
<1>8. Is(sum)
  <2> HIDE DEF Is
  <2> QED
    BY <1>7, Zenon
<1> HIDE DEF sum
<1>9. (\A s \in SUBSET S : sum[s] = MergeRound(sum, H, s)) /\ DOMAIN sum = SUBSET S
  BY <1>8, Zenon
<1>10. /\ sum[{}] = NewHist
       /\ \A s \in SUBSET S : s # {} => sum[s] = Merge(sum[Rest(s)], H[Pick(s)])
  BY <1>9 DEF MergeRound
<1>11. \A s \in SUBSET S : sum[s] \in V
  <2> DEFINE Q == {s \in SUBSET S : sum[s] \in V}
  <2>1. {} \in Q
    BY <1>2, <1>10
  <2>2. ASSUME NEW s \in SUBSET S, s # {}, Rest(s) \in Q PROVE s \in Q
    <3>1. Pick(s) \in S
      BY <1>0, <2>2, RestSmaller
    <3> QED
      BY <1>0, <1>2, <1>10, <2>2, <3>1
  <2>3. \A s \in SUBSET S : s \in Q
    <3> HIDE DEF Q
    <3> QED
      BY <1>0, <2>1, <2>2, SubsetInduction
  <2> QED
    BY <2>3
<1>12. sum \in [SUBSET S -> V]
  <2>1. sum = [s \in SUBSET S |-> sum[s]]
    BY <1>8, <1>9
  <2> QED
    BY <1>11, <2>1
<1> QED
  BY <1>1, <1>10, <1>12 DEF S, V

(* An observation can be made before a merge or after it. *)
LEMMA MergeObserve ==
  ASSUME NEW h \in Histogram, NEW o \in Histogram, NEW d \in Nat
  PROVE  /\ Merge(Observe(h, d), o) = Observe(Merge(h, o), d)
         /\ Merge(h, Observe(o, d)) = Observe(Merge(h, o), d)
<1> DEFINE D == 0 .. LastBucket
           i == BucketOf(d)
           a == h.buckets
           b == o.buckets
           both == [j \in D |-> a[j] + b[j]]
           up == [both EXCEPT ![i] = @ + 1]
           left == [j \in D |-> [a EXCEPT ![i] = @ + 1][j] + b[j]]
           right == [j \in D |-> a[j] + [b EXCEPT ![i] = @ + 1][j]]
<1>1. /\ a \in [D -> Nat] /\ b \in [D -> Nat]
      /\ h.count \in Nat /\ h.sumNs \in Nat /\ h.minNs \in Nat /\ h.maxNs \in Nat
      /\ o.count \in Nat /\ o.sumNs \in Nat /\ o.minNs \in Nat /\ o.maxNs \in Nat
  BY DEF Histogram
<1>2. i \in D
  BY BucketRange
<1>3. left = up /\ right = up
  <2> HIDE DEF D, i, a, b
  <2>1. \A j \in D : a[j] \in Nat /\ b[j] \in Nat
    BY <1>1
  <2>2. \A j \in D : left[j] = up[j] /\ right[j] = up[j]
    BY <1>1, <1>2, <2>1
  <2> QED
    BY <2>2
<1>4. /\ h.count + 1 + o.count = h.count + o.count + 1
      /\ h.count + (o.count + 1) = h.count + o.count + 1
      /\ h.sumNs + d + o.sumNs = h.sumNs + o.sumNs + d
      /\ h.sumNs + (o.sumNs + d) = h.sumNs + o.sumNs + d
  <2>1. /\ h.count \in Nat /\ o.count \in Nat /\ h.sumNs \in Nat /\ o.sumNs \in Nat
    BY <1>1
  <2>2. \A x, y \in Nat : x + 1 + y = x + y + 1 /\ x + (y + 1) = x + y + 1
    OBVIOUS
  <2>3. \A x, y \in Nat : x + d + y = x + y + d /\ x + (y + d) = x + y + d
    OBVIOUS
  <2> HIDE DEF D, i, a, b, both, up, left, right
  <2> QED
    BY <2>1, <2>2, <2>3
<1>5. /\ Smaller(o.minNs, Smaller(d, h.minNs)) = Smaller(d, Smaller(o.minNs, h.minNs))
      /\ Smaller(Smaller(d, o.minNs), h.minNs) = Smaller(d, Smaller(o.minNs, h.minNs))
      /\ Larger(o.maxNs, Larger(d, h.maxNs)) = Larger(d, Larger(o.maxNs, h.maxNs))
      /\ Larger(Larger(d, o.maxNs), h.maxNs) = Larger(d, Larger(o.maxNs, h.maxNs))
  BY <1>1 DEF Smaller, Larger
<1>6. Observe(Merge(h, o), d) =
        [buckets |-> up, count |-> h.count + o.count + 1, sumNs |-> h.sumNs + o.sumNs + d,
         minNs |-> Smaller(d, Smaller(o.minNs, h.minNs)),
         maxNs |-> Larger(d, Larger(o.maxNs, h.maxNs))]
  BY DEF Observe, Merge
<1>7. Merge(Observe(h, d), o) =
        [buckets |-> left, count |-> h.count + 1 + o.count, sumNs |-> h.sumNs + d + o.sumNs,
         minNs |-> Smaller(o.minNs, Smaller(d, h.minNs)),
         maxNs |-> Larger(o.maxNs, Larger(d, h.maxNs))]
  BY DEF Observe, Merge
<1>8. Merge(h, Observe(o, d)) =
        [buckets |-> right, count |-> h.count + (o.count + 1), sumNs |-> h.sumNs + (o.sumNs + d),
         minNs |-> Smaller(Smaller(d, o.minNs), h.minNs),
         maxNs |-> Larger(Larger(d, o.maxNs), h.maxNs)]
  BY DEF Observe, Merge
<1> HIDE DEF left, right, up
<1> QED
  BY <1>3, <1>4, <1>5, <1>6, <1>7, <1>8

(* An observation of one worker is one of the merged histogram. *)
LEMMA TotalObserve ==
  ASSUME NEW H \in [Workers -> Histogram], NEW w \in Workers, NEW d \in Nat
  PROVE  TotalOf([H EXCEPT ![w] = Observe(@, d)]) = Observe(TotalOf(H), d)
<1> DEFINE K == [H EXCEPT ![w] = Observe(@, d)]
<1>0. /\ IsFiniteSet(Workers) /\ K \in [Workers -> Histogram]
      /\ K[w] = Observe(H[w], d) /\ \A v \in Workers : v # w => K[v] = H[v]
  BY WorkersFinite, ObserveType
<1> HIDE DEF K
<1>1. PICK a \in [SUBSET Workers -> Histogram] :
        /\ a[{}] = NewHist
        /\ \A s \in SUBSET Workers : s # {} => a[s] = Merge(a[Rest(s)], H[Pick(s)])
        /\ TotalOf(H) = a[Workers]
  BY TotalIsRun
<1>2. PICK b \in [SUBSET Workers -> Histogram] :
        /\ b[{}] = NewHist
        /\ \A s \in SUBSET Workers : s # {} => b[s] = Merge(b[Rest(s)], K[Pick(s)])
        /\ TotalOf(K) = b[Workers]
  BY <1>0, TotalIsRun
<1> DEFINE Q == {s \in SUBSET Workers : b[s] = IF w \in s THEN Observe(a[s], d) ELSE a[s]}
<1>3. {} \in Q
  BY <1>1, <1>2
<1>4. ASSUME NEW s \in SUBSET Workers, s # {}, Rest(s) \in Q PROVE s \in Q
  <2>1. /\ Pick(s) \in s /\ Pick(s) \in Workers /\ Rest(s) \in SUBSET Workers
    BY <1>0, <1>4, RestSmaller
  <2>2. /\ a[s] = Merge(a[Rest(s)], H[Pick(s)]) /\ b[s] = Merge(b[Rest(s)], K[Pick(s)])
        /\ a[Rest(s)] \in Histogram /\ H[Pick(s)] \in Histogram
    BY <1>1, <1>2, <1>4, <2>1
  <2>3. b[Rest(s)] = IF w \in Rest(s) THEN Observe(a[Rest(s)], d) ELSE a[Rest(s)]
    BY <1>4
  <2>4. CASE w = Pick(s)
    <3>1. w \notin Rest(s) /\ w \in s
      BY <2>1, <2>4 DEF Rest
    <3> QED
      BY <1>0, <2>2, <2>3, <2>4, <3>1, MergeObserve
  <2>5. CASE w # Pick(s)
    <3>1. (w \in Rest(s) <=> w \in s) /\ K[Pick(s)] = H[Pick(s)]
      BY <1>0, <2>1, <2>5 DEF Rest
    <3> QED
      BY <2>2, <2>3, <3>1, MergeObserve
  <2> QED
    BY <2>4, <2>5
<1>5. \A s \in SUBSET Workers : s \in Q
  <2> HIDE DEF Q
  <2> QED
    BY <1>0, <1>3, <1>4, SubsetInduction
<1>6. b[Workers] = Observe(a[Workers], d)
  BY <1>5
<1> QED
  BY <1>1, <1>2, <1>6 DEF K

(* Total is the merge of the histograms of the state. *)
LEMMA TotalIs == Total = TotalOf(hists) /\ Total' = TotalOf(hists')
<1>1. Total = TotalOf(hists)
  BY Zenon DEF Total, TotalOf
<1>2. Total' = TotalOf(hists')
  BY Zenon DEF Total, TotalOf, FoldFunctionOnSet, MapThenFoldSet
<1> QED
  BY <1>1, <1>2

(* The count of the merged histogram. *)
LEMMA TotalCount ==
  ASSUME LoadTypeOK
  PROVE  Total.count = SumFunctionOnSet(Samples, Workers)
<1>0. /\ IsFiniteSet(Workers)
      /\ \A w \in Workers : hists[w] \in Histogram /\ Samples[w] = hists[w].count
  BY WorkersFinite DEF LoadTypeOK, Samples
<1>1. \A w \in Workers : Samples[w] \in Nat
  BY <1>0 DEF Histogram
<1>2. PICK it \in [SUBSET Workers -> Histogram] :
        /\ it[{}] = NewHist
        /\ \A s \in SUBSET Workers : s # {} => it[s] = Merge(it[Rest(s)], hists[Pick(s)])
        /\ Total = it[Workers]
  <2>1. hists \in [Workers -> Histogram]
    BY DEF LoadTypeOK
  <2> QED
    BY <2>1, TotalIs, TotalIsRun
<1>3. PICK a \in [SUBSET Workers -> Nat] :
        /\ a[{}] = 0
        /\ \A s \in SUBSET Workers : s # {} => a[s] = Samples[Pick(s)] + a[Rest(s)]
        /\ SumFunctionOnSet(Samples, Workers) = a[Workers]
  BY <1>0, <1>1, SumIsRun
<1> DEFINE Q == {s \in SUBSET Workers : it[s].count = a[s]}
<1>4. {} \in Q
  BY <1>2, <1>3 DEF NewHist
<1>5. ASSUME NEW s \in SUBSET Workers, s # {}, Rest(s) \in Q PROVE s \in Q
  <2>1. Pick(s) \in Workers
    BY <1>0, <1>5, RestSmaller
  <2>2. it[s].count = it[Rest(s)].count + hists[Pick(s)].count
    <3>1. it[s] = Merge(it[Rest(s)], hists[Pick(s)])
      BY <1>2, <1>5
    <3>2. \A h, o : Merge(h, o).count = h.count + o.count
      BY DEF Merge
    <3> QED
      BY <3>1, <3>2
  <2>3. it[Rest(s)].count = a[Rest(s)] /\ a[Rest(s)] \in Nat
    BY <1>3, <1>5
  <2> QED
    BY <1>0, <1>1, <1>3, <1>5, <2>1, <2>2, <2>3
<1>6. \A s \in SUBSET Workers : s \in Q
  <2> HIDE DEF Q
  <2> QED
    BY <1>0, <1>4, <1>5, SubsetInduction
<1> QED
  BY <1>2, <1>3, <1>6

(* The counters and the sums over them are naturals. *)
LEMMA CountTypes ==
  ASSUME LoadTypeOK
  PROVE  /\ \A c \in 0 .. 5 : status[c] \in Nat
         /\ errs \in Nat
         /\ \A C : Waiting(C) \in SUBSET Workers /\ Cardinality(Waiting(C)) \in Nat
         /\ \A C : Replies(C) \in Nat
<1>1. \A C : Waiting(C) \in SUBSET Workers
  BY DEF Waiting
<1>2. \A C : Cardinality(Waiting(C)) \in Nat
  BY <1>1, WorkersFinite
<1>3. ASSUME NEW C PROVE Replies(C) \in Nat
  <2> DEFINE S == {o \in Outcomes : o.code \in C}
  <2>1. IsFiniteSet(S)
    BY LoadAssumption, FS_Subset
  <2>2. \A o \in S : answered[o] \in Nat
    BY DEF LoadTypeOK
  <2> HIDE DEF S
  <2>3. SumFunctionOnSet(answered, S) \in Nat
    BY <2>1, <2>2, SumNat
  <2> QED
    BY <2>3 DEF Replies, Met, S
<1>4. (\A c \in 0 .. 5 : status[c] \in Nat) /\ errs \in Nat
  BY DEF LoadTypeOK
<1> QED
  BY <1>1, <1>2, <1>3, <1>4

(* No step lets a worker run before the gate opens. *)
LEMMA GateNext ==
  ASSUME LoadTypeOK, GateInv, [LoadNext]_loadVars
  PROVE  GateInv'
<1>1. ASSUME NEW w \in Workers, WorkerStep(w) PROVE wpc[w] # "gate" /\ UNCHANGED mpc
  BY <1>1
     DEF WorkerStep, Check, TakeTick, TickCancelled, Send, Receive, Abort, Filter, ObserveLatency
<1>2. ASSUME Others PROVE GateInv'
  BY <1>2
     DEF GateInv, Others, MainStep, SetupPut, SetupFails, Start, Cancel, Finish, WarmUpOver,
         Tick, Interrupt
<1>3. ASSUME UNCHANGED loadVars PROVE GateInv'
  BY <1>3 DEF GateInv, loadVars
<1>4. ASSUME NEW w \in Workers, WorkerStep(w) PROVE GateInv'
  BY <1>1, <1>4 DEF GateInv
<1> QED
  BY <1>2, <1>3, <1>4, LoadNextParts

(* Nothing is counted, and at most transport errors stop waiting. *)
LEMMA StatusSteady ==
  ASSUME LoadTypeOK, LoadTypeOK', StatusInv, UNCHANGED <<status, errs, answered>>,
         \A C : Waiting(C)' \subseteq Waiting(C),
         \A C : 0 \notin C => Waiting(C)' = Waiting(C)
  PROVE  StatusInv'
<1>1. \A C : Replies(C)' = Replies(C)
  BY DEF Replies, Met
<1>2. \A c : 0 \notin Codes(c)
  BY DEF Codes
<1>3. 0 \notin ErrorCodes
  BY DEF ErrorCodes
<1>4. /\ \A c : Cardinality(Waiting(Codes(c)))' = Cardinality(Waiting(Codes(c)))
      /\ Cardinality(Waiting(ErrorCodes))' = Cardinality(Waiting(ErrorCodes))
  BY <1>2, <1>3
<1>5. Cardinality(Waiting({0}))' <= Cardinality(Waiting({0}))
  <2>1. IsFiniteSet(Waiting({0}))
    BY CountTypes, WorkersFinite
  <2> QED
    BY <2>1, FS_Subset
<1>6. /\ Cardinality(Waiting({0})) \in Nat /\ Cardinality(Waiting({0}))' \in Nat
      /\ Cardinality(Waiting(Codes(0))) \in Nat /\ status[0] \in Nat
      /\ Replies(Codes(0)) \in Nat /\ Replies({0}) \in Nat
  <2>1. Waiting({0})' \in SUBSET Workers
    BY DEF Waiting
  <2>2. Cardinality(Waiting({0}))' \in Nat
    BY <2>1, WorkersFinite
  <2>3. status[0] \in Nat
    BY DEF LoadTypeOK
  <2> QED
    BY <2>2, <2>3, CountTypes
<1>7. status[0] + Cardinality(Waiting(Codes(0))) + Cardinality(Waiting({0}))'
        <= Replies(Codes(0)) + Replies({0})
  BY <1>5, <1>6 DEF StatusInv
<1> QED
  BY <1>1, <1>4, <1>7 DEF StatusInv

(* The step of a worker that is not in "filter" before or after, or whose    *)
(* request is dropped.                                                       *)
LEMMA WaitingSame ==
  ASSUME LoadTypeOK, NEW w \in Workers, UNCHANGED <<cancelled, interrupted>>,
         NEW p, wpc' = [wpc EXCEPT ![w] = p],
         NEW r, req' = [req EXCEPT ![w] = r],
         wpc[w] = "filter" => Dropped(req[w]),
         p = "filter" => Dropped(r)
  PROVE  \A C : Waiting(C)' = Waiting(C)
<1>0. DOMAIN wpc = Workers /\ DOMAIN req = Workers
  BY DEF LoadTypeOK
<1>1. \A x : Dropped(x)' = Dropped(x)
  BY DEF Dropped, Stopped
<1>2. /\ wpc'[w] = p /\ req'[w] = r
      /\ \A v \in Workers : v # w => wpc'[v] = wpc[v] /\ req'[v] = req[v]
  BY <1>0
<1> QED
  BY <1>1, <1>2 DEF Waiting, Dropped, Stopped

(* Step returns: the outcome is met, and waits unless it will be dropped.    *)
LEMMA ReceiveEffect ==
  ASSUME LoadTypeOK, NEW w \in Workers, NEW o \in Outcomes, Receive(w, o), ~ req[w].warm
  PROVE  /\ o.code \in Nat
         /\ \A C : Replies(C)' = Replies(C) + IF o.code \in C THEN 1 ELSE 0
         /\ \A C : Cardinality(Waiting(C))' =
                     Cardinality(Waiting(C))
                       + IF o.code \in C /\ ~ (o.code = 0 /\ Stopped) THEN 1 ELSE 0
<1>0. /\ o.code \in Nat /\ DOMAIN wpc = Workers /\ req \in [Workers -> Requests]
      /\ answered \in [Outcomes -> Nat]
  BY LoadAssumption DEF LoadTypeOK, Requests
<1>1. /\ wpc[w] = "wait" /\ wpc' = [wpc EXCEPT ![w] = "filter"]
      /\ req' = [req EXCEPT ![w].code = o.code, ![w].lat = o.lat]
      /\ answered' = [answered EXCEPT ![o] = @ + 1]
      /\ UNCHANGED <<cancelled, interrupted>>
  BY DEF Receive
<1>2. ASSUME NEW C PROVE Replies(C)' = Replies(C) + IF o.code \in C THEN 1 ELSE 0
  <2> DEFINE S == {x \in Outcomes : x.code \in C}
  <2>1. IsFiniteSet(S) /\ (o \in S <=> o.code \in C)
    BY LoadAssumption, FS_Subset
  <2>2. \A x \in S : answered[x] \in Nat /\ answered'[x] = IF x = o THEN answered[x] + 1 ELSE answered[x]
    BY <1>0, <1>1
  <2> HIDE DEF S
  <2>3. SumFunctionOnSet(answered', S) = SumFunctionOnSet(answered, S) + IF o \in S THEN 1 ELSE 0
    BY <2>1, <2>2, SumBump
  <2> QED
    BY <2>1, <2>3 DEF Replies, Met, S
<1>3. \A x : Dropped(x)' = Dropped(x)
  BY <1>1 DEF Dropped, Stopped
<1>4. /\ wpc'[w] = "filter" /\ req'[w].code = o.code /\ req'[w].warm = req[w].warm
      /\ \A v \in Workers : v # w => wpc'[v] = wpc[v] /\ req'[v] = req[v]
  BY <1>0, <1>1 DEF Requests
<1>5. Dropped(req[w])' <=> o.code = 0 /\ Stopped
  BY <1>1, <1>4 DEF Dropped, Stopped
<1>6. ASSUME NEW C
      PROVE  /\ w \notin Waiting(C)
             /\ Waiting(C)' = IF o.code \in C /\ ~ (o.code = 0 /\ Stopped)
                              THEN Waiting(C) \cup {w} ELSE Waiting(C)
  <2>1. w \notin Waiting(C)
    BY <1>1 DEF Waiting
  <2>2. w \in Waiting(C)' <=> o.code \in C /\ ~ (o.code = 0 /\ Stopped)
    BY <1>4, <1>5 DEF Waiting
  <2>3. \A v \in Workers : v # w => (v \in Waiting(C)' <=> v \in Waiting(C))
    BY <1>1, <1>4 DEF Waiting, Dropped, Stopped
  <2>4. Waiting(C) \subseteq Workers /\ Waiting(C)' \subseteq Workers
    BY DEF Waiting
  <2> QED
    BY <2>1, <2>2, <2>3, <2>4
<1>7. ASSUME NEW C
      PROVE  Cardinality(Waiting(C))' =
               Cardinality(Waiting(C)) + IF o.code \in C /\ ~ (o.code = 0 /\ Stopped) THEN 1 ELSE 0
  <2>1. IsFiniteSet(Waiting(C)) /\ Cardinality(Waiting(C)) \in Nat
    BY CountTypes, WorkersFinite
  <2>2. Cardinality(Waiting(C) \cup {w}) = Cardinality(Waiting(C)) + 1
    BY <1>6, <2>1, FS_AddElement
  <2> QED
    BY <1>6, <2>1, <2>2
<1> QED
  BY <1>0, <1>2, <1>7

(* AddStatus: the outcome no longer waits. *)
LEMMA FilterEffect ==
  ASSUME LoadTypeOK, NEW w \in Workers, Filter(w), ~ Dropped(req[w])
  PROVE  /\ req[w].code \in Nat
         /\ \A C : Cardinality(Waiting(C))' =
                     Cardinality(Waiting(C)) - IF req[w].code \in C THEN 1 ELSE 0
         /\ UNCHANGED answered
         /\ status' = [status EXCEPT ![Class(req[w].code)] = @ + 1]
         /\ errs' = IF IsError(req[w].code) THEN errs + 1 ELSE errs
<1>0. DOMAIN wpc = Workers /\ req \in [Workers -> Requests] /\ req[w].code \in Nat
  BY DEF LoadTypeOK, Requests
<1>1. /\ wpc[w] = "filter" /\ wpc' = [wpc EXCEPT ![w] = "observe"] /\ UNCHANGED req
      /\ UNCHANGED <<cancelled, interrupted, answered>>
      /\ status' = [status EXCEPT ![Class(req[w].code)] = @ + 1]
      /\ errs' = IF IsError(req[w].code) THEN errs + 1 ELSE errs
  BY DEF Filter
<1>2. ASSUME NEW C
      PROVE  /\ w \in Waiting(C) <=> req[w].code \in C
             /\ Waiting(C)' = Waiting(C) \ {w}
  <2>1. w \in Waiting(C) <=> req[w].code \in C
    BY <1>1 DEF Waiting
  <2>2. w \notin Waiting(C)'
    BY <1>0, <1>1 DEF Waiting
  <2>3. \A v \in Workers : v # w => (v \in Waiting(C)' <=> v \in Waiting(C))
    BY <1>0, <1>1 DEF Waiting, Dropped, Stopped
  <2>4. Waiting(C) \subseteq Workers /\ Waiting(C)' \subseteq Workers
    BY DEF Waiting
  <2> QED
    BY <2>1, <2>2, <2>3, <2>4
<1>3. ASSUME NEW C
      PROVE  Cardinality(Waiting(C))' =
               Cardinality(Waiting(C)) - IF req[w].code \in C THEN 1 ELSE 0
  <2>1. IsFiniteSet(Waiting(C)) /\ Cardinality(Waiting(C)) \in Nat
    BY CountTypes, WorkersFinite
  <2>2. Cardinality(Waiting(C) \ {w}) =
          IF w \in Waiting(C) THEN Cardinality(Waiting(C)) - 1 ELSE Cardinality(Waiting(C))
    BY <2>1, FS_RemoveElement
  <2> QED
    BY <1>2, <2>1, <2>2
<1> QED
  BY <1>0, <1>1, <1>3

(* Every step keeps the status counters and the errors in step with the replies. *)
LEMMA StatusInvNext ==
  ASSUME LoadTypeInv, LoadTypeInv', GateInv, StatusInv, [LoadNext]_loadVars
  PROVE  StatusInv'
<1>0. /\ LoadTypeOK /\ LoadTypeOK' /\ wpc \in [Workers -> PCs] /\ req \in [Workers -> Requests]
      /\ status \in [0 .. 5 -> Nat]
  BY DEF LoadTypeInv, LoadTypeOK, PCs, Requests
<1> DEFINE W(C) == Cardinality(Waiting(C))
           M(C) == Replies(C)
<1>1. /\ \A C : W(C) \in Nat /\ M(C) \in Nat
      /\ \A c \in 0 .. 5 : status[c] \in Nat
      /\ errs \in Nat
  BY <1>0, CountTypes
<1>2. /\ \A c \in 1 .. 5 : status[c] + W(Codes(c)) = M(Codes(c))
      /\ M(Codes(0)) <= status[0] + W(Codes(0))
      /\ status[0] + W(Codes(0)) + W({0}) <= M(Codes(0)) + M({0})
      /\ errs + W(ErrorCodes) = status[0] + M(ErrorCodes)
  BY DEF StatusInv
<1>3. SUFFICES /\ \A c \in 1 .. 5 : status'[c] + W(Codes(c))' = M(Codes(c))'
               /\ M(Codes(0))' <= status'[0] + W(Codes(0))'
               /\ status'[0] + W(Codes(0))' + W({0})' <= M(Codes(0))' + M({0})'
               /\ errs' + W(ErrorCodes)' = status'[0] + M(ErrorCodes)'
  BY DEF StatusInv
<1> DEFINE Goal == /\ \A c \in 1 .. 5 : status'[c] + W(Codes(c))' = M(Codes(c))'
                   /\ M(Codes(0))' <= status'[0] + W(Codes(0))'
                   /\ status'[0] + W(Codes(0))' + W({0})' <= M(Codes(0))' + M({0})'
                   /\ errs' + W(ErrorCodes)' = status'[0] + M(ErrorCodes)'
<1>4. ASSUME UNCHANGED <<status, errs, answered>>, \A C : Waiting(C)' = Waiting(C)
      PROVE  Goal
  <2>1. StatusInv'
    BY <1>0, <1>4, StatusSteady
  <2> QED
    BY <2>1 DEF StatusInv
<1>5. ASSUME NEW w \in Workers, UNCHANGED <<status, errs, answered, cancelled, interrupted>>,
             NEW p, wpc' = [wpc EXCEPT ![w] = p],
             NEW r, req' = [req EXCEPT ![w] = r],
             wpc[w] = "filter" => Dropped(req[w]),
             p = "filter" => Dropped(r)
      PROVE  Goal
  <2>1. \A C : Waiting(C)' = Waiting(C)
    BY <1>0, <1>5, WaitingSame
  <2> QED
    BY <1>4, <1>5, <2>1
<1>6. ASSUME NEW w \in Workers, NEW o \in Outcomes, Receive(w, o), ~ req[w].warm
      PROVE  Goal
  <2>1. UNCHANGED <<status, errs>>
    BY <1>6 DEF Receive
  <2>2. /\ o.code \in Nat
        /\ \A C : M(C)' = M(C) + IF o.code \in C THEN 1 ELSE 0
        /\ \A C : W(C)' = W(C) + IF o.code \in C /\ ~ (o.code = 0 /\ Stopped) THEN 1 ELSE 0
    BY <1>0, <1>6, ReceiveEffect
  <2> DEFINE n == o.code
  <2>3. (\A c : 0 \notin Codes(c)) /\ 0 \notin ErrorCodes
    BY DEF Codes, ErrorCodes
  <2>4. \A c : W(Codes(c))' = W(Codes(c)) + IF n \in Codes(c) THEN 1 ELSE 0
    BY <2>2, <2>3
  <2>5. W(ErrorCodes)' = W(ErrorCodes) + IF n \in ErrorCodes THEN 1 ELSE 0
    BY <2>2, <2>3
  <2>6. /\ \A c : M(Codes(c))' = M(Codes(c)) + IF n \in Codes(c) THEN 1 ELSE 0
        /\ M(ErrorCodes)' = M(ErrorCodes) + IF n \in ErrorCodes THEN 1 ELSE 0
        /\ M({0})' = M({0}) + IF n \in {0} THEN 1 ELSE 0
        /\ W({0})' <= W({0}) + IF n \in {0} THEN 1 ELSE 0
        /\ W({0})' \in Nat
    BY <1>1, <2>2
  <2> HIDE DEF W, M, n
  <2>7. \A c \in 1 .. 5 : status'[c] + W(Codes(c))' = M(Codes(c))'
    BY <1>1, <1>2, <2>1, <2>4, <2>6
  <2>8. M(Codes(0))' <= status'[0] + W(Codes(0))'
    BY <1>1, <1>2, <2>1, <2>4, <2>6
  <2>9. status'[0] + W(Codes(0))' + W({0})' <= M(Codes(0))' + M({0})'
    BY <1>1, <1>2, <2>1, <2>4, <2>6
  <2>10. errs' + W(ErrorCodes)' = status'[0] + M(ErrorCodes)'
    BY <1>1, <1>2, <2>1, <2>5, <2>6
  <2> QED
    BY <2>7, <2>8, <2>9, <2>10
<1>7. ASSUME NEW w \in Workers, Filter(w), ~ Dropped(req[w]) PROVE Goal
  <2> DEFINE n == req[w].code
             k == Class(n)
  <2>1. /\ n \in Nat
        /\ \A C : W(C)' = W(C) - IF n \in C THEN 1 ELSE 0
        /\ UNCHANGED answered
        /\ status' = [status EXCEPT ![k] = @ + 1]
        /\ errs' = IF IsError(n) THEN errs + 1 ELSE errs
    BY <1>0, <1>7, FilterEffect
  <2>2. \A C : M(C)' = M(C)
    BY <2>1 DEF Replies, Met
  <2>3. k \in 0 .. 5 /\ (n = 0 => k = 0) /\ (k = 0 => IsError(n))
    BY <2>1 DEF Class, IsError
  <2>4. /\ \A c : n \in Codes(c) <=> n # 0 /\ k = c
        /\ n \in ErrorCodes <=> k # 0 /\ IsError(n)
    BY <2>1, <2>3 DEF Codes, ErrorCodes
  <2>5. /\ \A c \in 0 .. 5 : status'[c] = IF c = k THEN status[c] + 1 ELSE status[c]
        /\ errs' = IF IsError(n) THEN errs + 1 ELSE errs
    BY <1>0, <2>1, <2>3
  <2>6. /\ \A c : W(Codes(c))' = W(Codes(c)) - IF n \in Codes(c) THEN 1 ELSE 0
        /\ W(ErrorCodes)' = W(ErrorCodes) - IF n \in ErrorCodes THEN 1 ELSE 0
        /\ W({0})' = W({0}) - IF n \in {0} THEN 1 ELSE 0
    BY <2>1
  <2>7. M(Codes(0)) \in Nat /\ M({0}) \in Nat /\ M(ErrorCodes) \in Nat
        /\ W(Codes(0)) \in Nat /\ W({0}) \in Nat /\ W(ErrorCodes) \in Nat
        /\ status[0] \in Nat /\ errs \in Nat
    BY <1>1
  <2> HIDE DEF W, M, n, k
  <2>8. ASSUME NEW c \in 1 .. 5 PROVE status'[c] + W(Codes(c))' = M(Codes(c))'
    <3>1. c \in 0 .. 5 /\ c # 0
      OBVIOUS
    <3>2. status[c] \in Nat /\ W(Codes(c)) \in Nat /\ M(Codes(c)) \in Nat
      BY <1>1, <3>1
    <3>3. n \in Codes(c) <=> k = c
      BY <2>3, <2>4, <3>1
    <3> QED
      BY <1>2, <2>2, <2>5, <2>6, <3>1, <3>2, <3>3
  <2>9. M(Codes(0))' <= status'[0] + W(Codes(0))'
    <3>1. status'[0] = IF k = 0 THEN status[0] + 1 ELSE status[0]
      BY <2>5
    <3>2. W(Codes(0))' = W(Codes(0)) - IF n # 0 /\ k = 0 THEN 1 ELSE 0
      BY <2>4, <2>6
    <3> QED
      BY <1>2, <2>2, <2>7, <3>1, <3>2
  <2>10. status'[0] + W(Codes(0))' + W({0})' <= M(Codes(0))' + M({0})'
    <3>1. status'[0] = IF k = 0 THEN status[0] + 1 ELSE status[0]
      BY <2>5
    <3>2. W(Codes(0))' = W(Codes(0)) - IF n # 0 /\ k = 0 THEN 1 ELSE 0
      BY <2>4, <2>6
    <3>3. W({0})' = W({0}) - IF n = 0 THEN 1 ELSE 0
      BY <2>6
    <3> QED
      BY <1>2, <2>2, <2>3, <2>7, <3>1, <3>2, <3>3
  <2>11. errs' + W(ErrorCodes)' = status'[0] + M(ErrorCodes)'
    <3>1. status'[0] = IF k = 0 THEN status[0] + 1 ELSE status[0]
      BY <2>5
    <3>2. W(ErrorCodes)' = W(ErrorCodes) - IF k # 0 /\ IsError(n) THEN 1 ELSE 0
      BY <2>4, <2>6
    <3> QED
      BY <1>2, <2>2, <2>3, <2>5, <2>7, <3>1, <3>2
  <2> QED
    BY <2>8, <2>9, <2>10, <2>11
<1>8. ASSUME NEW w \in Workers, WorkerStep(w) PROVE Goal
  <2>0. req[w] \in Requests /\ (UNCHANGED req => req' = [req EXCEPT ![w] = req[w]])
    BY <1>0
  <2>1. UNCHANGED <<cancelled, interrupted>>
    BY <1>0, <1>8, WorkerOwn
  <2> HIDE DEF Goal
  <2>2. CASE Check(w) \/ TakeTick(w) \/ TickCancelled(w)
    <3>1. /\ UNCHANGED <<status, errs, answered, req>> /\ wpc[w] # "filter"
          /\ \E p \in {"exited", "tick", "send"} : wpc' = [wpc EXCEPT ![w] = p]
      BY <2>2 DEF Check, TakeTick, TickCancelled
    <3>2. PICK p \in {"exited", "tick", "send"} : wpc' = [wpc EXCEPT ![w] = p]
      BY <3>1
    <3>3. p # "filter"
      OBVIOUS
    <3> QED
      BY <1>5, <2>0, <2>1, <3>1, <3>2, <3>3
  <2>3. CASE Send(w) \/ ObserveLatency(w)
    <3>1. /\ UNCHANGED <<status, errs, answered>> /\ wpc[w] # "filter"
          /\ \E p \in {"wait", "check"} : wpc' = [wpc EXCEPT ![w] = p]
          /\ \E r : req' = [req EXCEPT ![w] = r]
      BY <2>3 DEF Send, ObserveLatency
    <3>2. PICK p \in {"wait", "check"} : wpc' = [wpc EXCEPT ![w] = p]
      BY <3>1
    <3>3. PICK r : req' = [req EXCEPT ![w] = r]
      BY <3>1
    <3>4. p # "filter"
      OBVIOUS
    <3> QED
      BY <1>5, <2>1, <3>1, <3>2, <3>3, <3>4
  <2>4. ASSUME NEW o \in Outcomes, Receive(w, o), req[w].warm PROVE Goal
    <3> DEFINE r == [req[w] EXCEPT !.code = o.code, !.lat = o.lat]
    <3>1. /\ UNCHANGED <<status, errs, answered>> /\ wpc[w] # "filter"
          /\ wpc' = [wpc EXCEPT ![w] = "filter"]
          /\ req' = [req EXCEPT ![w] = r]
      BY <1>0, <2>4 DEF Receive
    <3>2. Dropped(r)
      BY <2>0, <2>4 DEF Dropped, Requests
    <3> HIDE DEF r
    <3> QED
      BY <1>5, <2>1, <3>1, <3>2
  <2>5. ASSUME NEW l \in Latencies, Abort(w, l) PROVE Goal
    <3> DEFINE r == [req[w] EXCEPT !.code = 0, !.lat = l]
    <3>1. /\ UNCHANGED <<status, errs, answered>> /\ wpc[w] # "filter"
          /\ wpc' = [wpc EXCEPT ![w] = "filter"]
          /\ req' = [req EXCEPT ![w] = r] /\ Stopped
      BY <1>0, <2>5 DEF Abort
    <3>2. Dropped(r)
      BY <2>0, <3>1 DEF Dropped, Requests
    <3> HIDE DEF r
    <3> QED
      BY <1>5, <2>1, <3>1, <3>2
  <2>6. CASE Filter(w) /\ Dropped(req[w])
    <3> DEFINE p == "check"
               r == NoRequest
    <3>1. /\ UNCHANGED <<status, errs, answered>> /\ wpc' = [wpc EXCEPT ![w] = p]
          /\ req' = [req EXCEPT ![w] = r] /\ p # "filter"
      BY <2>6 DEF Filter
    <3> HIDE DEF p, r
    <3> QED
      BY <1>5, <2>1, <2>6, <3>1
  <2> QED
    BY <1>6, <1>7, <1>8, <2>2, <2>3, <2>4, <2>5, <2>6, Zenon DEF WorkerStep
<1>9. ASSUME Others PROVE Goal
  <2>1. UNCHANGED <<req, status, errs, answered>> /\ (UNCHANGED wpc \/ Start)
    BY <1>9, OthersLeave
  <2>2. Stopped => Stopped'
    BY <1>9
       DEF Others, MainStep, SetupPut, SetupFails, Start, Cancel, Finish, WarmUpOver, Tick,
           Interrupt, Stopped
  <2>3. \A x : Dropped(x) => Dropped(x)'
    BY <2>2 DEF Dropped
  <2>4. \A x : x.code # 0 => (Dropped(x)' <=> Dropped(x))
    BY DEF Dropped
  <2>5. \A w \in Workers : wpc'[w] = "filter" <=> wpc[w] = "filter"
    BY <1>0, <2>1 DEF Start, GateInv
  <2>6. ASSUME NEW C PROVE Waiting(C)' \subseteq Waiting(C)
    BY <2>1, <2>3, <2>5 DEF Waiting
  <2>7. ASSUME NEW C, 0 \notin C PROVE Waiting(C)' = Waiting(C)
    <3>1. \A w \in Workers : req[w].code \in C => (Dropped(req[w])' <=> Dropped(req[w]))
      BY <2>1, <2>4, <2>7 DEF Dropped
    <3> QED
      BY <2>1, <2>5, <3>1 DEF Waiting
  <2>8. StatusInv'
    BY <1>0, <2>1, <2>6, <2>7, StatusSteady
  <2> QED
    BY <2>8 DEF StatusInv
<1>10. ASSUME UNCHANGED loadVars PROVE Goal
  <2>1. UNCHANGED <<status, errs, answered, wpc, req, cancelled, interrupted>>
    BY <1>10 DEF loadVars
  <2>2. \A C : Waiting(C)' = Waiting(C)
    BY <2>1 DEF Waiting, Dropped, Stopped
  <2> QED
    BY <1>4, <2>1, <2>2
<1> HIDE DEF Goal
<1>11. Goal
  BY <1>8, <1>9, <1>10, LoadNextParts, Zenon
<1> QED
  BY <1>11 DEF Goal

(* There are finitely many status classes. *)
LEMMA ClassesFinite == IsFiniteSet(0 .. 5)
<1> DEFINE a == 0
           b == 5
<1>1. a \in Int /\ b \in Int
  OBVIOUS
<1> HIDE DEF a, b
<1>2. IsFiniteSet(a .. b)
  BY <1>1, FS_Interval
<1> QED
  BY <1>2 DEF a, b

(* Every step keeps a sample, taken or due, for every status counted. *)
LEMMA SamplesInvNext ==
  ASSUME LoadTypeInv, GateInv, SamplesInv, [LoadNext]_loadVars
  PROVE  SamplesInv'
<1>0. /\ LoadTypeOK /\ wpc \in [Workers -> PCs] /\ req \in [Workers -> Requests]
      /\ hists \in [Workers -> Histogram] /\ status \in [0 .. 5 -> Nat]
  BY DEF LoadTypeInv, LoadTypeOK, PCs, Requests
<1>1. /\ IsFiniteSet(Workers) /\ IsFiniteSet(Observing) /\ Cardinality(Observing) \in Nat
      /\ \A w \in Workers : Samples[w] \in Nat
  <2>1. Observing \in SUBSET Workers
    BY DEF Observing
  <2>2. \A w \in Workers : hists[w].count \in Nat
    BY <1>0 DEF Histogram
  <2> QED
    BY <2>1, <2>2, WorkersFinite DEF Samples
<1>2. IsFiniteSet(0 .. 5)
  BY ClassesFinite
<1> DEFINE A == SumFunctionOnSet(status, 0 .. 5)
           B == SumFunctionOnSet(Samples, Workers)
           N == Cardinality(Observing)
<1>3. A \in Nat /\ B \in Nat /\ N \in Nat /\ A = B + N
  <2>1. \A c \in 0 .. 5 : status[c] \in Nat
    BY <1>0
  <2> QED
    BY <1>1, <1>2, <2>1, SumNat DEF SamplesInv
<1>4. SUFFICES A' = B' + N'
  BY DEF SamplesInv
<1>5. ASSUME UNCHANGED <<status, hists>>, Observing' = Observing PROVE A' = B' + N'
  <2>1. Samples' = Samples
    BY <1>5 DEF Samples
  <2> QED
    BY <1>3, <1>5, <2>1
<1>6. ASSUME NEW w \in Workers, Filter(w), ~ Dropped(req[w]) PROVE A' = B' + N'
  <2> DEFINE n == req[w].code
             k == Class(n)
             D == 0 .. 5
  <2>1. /\ n \in Nat /\ status' = [status EXCEPT ![k] = @ + 1] /\ UNCHANGED hists
        /\ wpc[w] = "filter" /\ wpc' = [wpc EXCEPT ![w] = "observe"]
    BY <1>0, <1>6 DEF Filter, Requests
  <2>2. k \in D
    BY <2>1, ClassRange
  <2>3. Samples' = Samples
    BY <2>1 DEF Samples
  <2>4. \A c \in D : status[c] \in Nat /\ status'[c] = IF c = k THEN status[c] + 1 ELSE status[c]
    BY <1>0, <2>1, <2>2
  <2>5. SumFunctionOnSet(status', D) = SumFunctionOnSet(status, D) + 1
    <3> HIDE DEF D, k
    <3>1. SumFunctionOnSet(status', D) = SumFunctionOnSet(status, D) + IF k \in D THEN 1 ELSE 0
      <4>1. IsFiniteSet(D)
        BY <1>2 DEF D
      <4> QED
        BY <2>4, <4>1, SumBump
    <3> QED
      BY <2>2, <3>1
  <2>6. Observing' = Observing \cup {w} /\ w \notin Observing
    BY <1>0, <2>1 DEF Observing
  <2>7. N' = N + 1
    BY <1>1, <2>6, FS_AddElement
  <2>8. A' = A + 1 /\ B' = B
    BY <2>3, <2>5
  <2> HIDE DEF A, B, N
  <2> QED
    BY <1>3, <2>7, <2>8
<1>7. ASSUME NEW w \in Workers, ObserveLatency(w) PROVE A' = B' + N'
  <2>1. /\ wpc[w] = "observe" /\ wpc' = [wpc EXCEPT ![w] = "check"] /\ UNCHANGED status
        /\ hists' = [hists EXCEPT ![w] = Observe(@, req[w].lat)]
    BY <1>7 DEF ObserveLatency
  <2>2. \A h, d : Observe(h, d).count = h.count + 1
    BY DEF Observe
  <2>3. /\ hists'[w].count = hists[w].count + 1
        /\ \A v \in Workers : v # w => hists'[v] = hists[v]
    BY <1>0, <2>1, <2>2
  <2>4. \A v \in Workers : /\ Samples[v] \in Nat
                           /\ Samples'[v] = IF v = w THEN Samples[v] + 1 ELSE Samples[v]
    BY <1>1, <2>3 DEF Samples
  <2>5. SumFunctionOnSet(Samples', Workers) = SumFunctionOnSet(Samples, Workers) + 1
    <3> DEFINE f == Samples
               g == Samples'
    <3>1. \A v \in Workers : f[v] \in Nat /\ g[v] = IF v = w THEN f[v] + 1 ELSE f[v]
      BY <2>4
    <3> HIDE DEF f, g
    <3>2. SumFunctionOnSet(g, Workers) = SumFunctionOnSet(f, Workers) + IF w \in Workers THEN 1 ELSE 0
      BY <1>1, <3>1, SumBump
    <3> QED
      BY <3>2 DEF f, g
  <2>6. Observing' = Observing \ {w} /\ w \in Observing
    BY <1>0, <2>1 DEF Observing
  <2>7. N' = N - 1
    BY <1>1, <2>6, FS_RemoveElement
  <2>8. A' = A /\ B' = B + 1
    BY <2>1, <2>5
  <2> HIDE DEF A, B, N
  <2> QED
    BY <1>3, <2>7, <2>8
<1>8. ASSUME NEW w \in Workers, WorkerStep(w), ~ ObserveLatency(w),
             ~ (Filter(w) /\ ~ Dropped(req[w]))
      PROVE  A' = B' + N'
  <2>1. UNCHANGED <<status, hists>>
    BY <1>8, Zenon DEF WorkerStep, Check, TakeTick, TickCancelled, Send, Receive, Abort, Filter
  <2>2. \E p \in PCs \ {"observe"} : wpc[w] # "observe" /\ wpc' = [wpc EXCEPT ![w] = p]
    <3>1. Filter(w) => wpc[w] # "observe" /\ wpc' = [wpc EXCEPT ![w] = "check"]
      BY <1>8 DEF Filter
    <3> QED
      BY <1>8, <3>1 DEF WorkerStep, Check, TakeTick, TickCancelled, Send, Receive, Abort, PCs
  <2>3. Observing' = Observing
    BY <1>0, <2>2 DEF Observing
  <2> QED
    BY <1>5, <2>1, <2>3
<1>9. ASSUME Others PROVE A' = B' + N'
  <2>1. UNCHANGED <<status, hists>> /\ (UNCHANGED wpc \/ Start)
    BY <1>9, OthersLeave
  <2>2. Observing' = Observing
    BY <1>0, <2>1 DEF Observing, Start, GateInv
  <2> QED
    BY <1>5, <2>1, <2>2
<1>10. ASSUME UNCHANGED loadVars PROVE A' = B' + N'
  <2>1. UNCHANGED <<status, hists, wpc>>
    BY <1>10 DEF loadVars
  <2>2. Observing' = Observing
    BY <2>1 DEF Observing
  <2> QED
    BY <1>5, <2>1, <2>2
<1> HIDE DEF A, B, N
<1>11. ASSUME NEW w \in Workers, WorkerStep(w) PROVE A' = B' + N'
  BY <1>6, <1>7, <1>8, <1>11
<1> QED
  BY <1>9, <1>10, <1>11, LoadNextParts

(* Every step keeps the result equal to the totals it was built from. *)
LEMMA ResultInvNext ==
  ASSUME LoadTypeInv, ResultInv, [LoadNext]_loadVars
  PROVE  ResultInv'
<1>0. LoadTypeOK
  BY DEF LoadTypeInv
<1>1. ASSUME NEW w \in Workers, WorkerStep(w) PROVE ResultInv'
  <2>1. wpc[w] # "exited" /\ UNCHANGED mpc
    BY <1>1
       DEF WorkerStep, Check, TakeTick, TickCancelled, Send, Receive, Abort, Filter, ObserveLatency
  <2> QED
    BY <2>1 DEF ResultInv
<1>2. ASSUME Finish PROVE ResultInv'
  <2>1. /\ \A w \in Workers : wpc[w] = "exited"
        /\ UNCHANGED <<wpc, errs, status, hists>>
        /\ result' = [Count |-> Total.count, Errors |-> errs, StatusClass |-> status,
                      Latency |-> Summary(Total)]
    BY <1>2 DEF Finish
  <2>2. /\ result'.Count = Total.count /\ result'.Errors = errs
        /\ result'.StatusClass = status
    BY <2>1
  <2>3. Samples' = Samples
    BY <2>1 DEF Samples
  <2> QED
    BY <1>0, <2>1, <2>2, <2>3, TotalCount DEF ResultInv
<1>3. ASSUME Others, ~ Finish PROVE ResultInv'
  <2>1. mpc' # "done"
    BY <1>3
       DEF ResultInv, Others, MainStep, SetupPut, SetupFails, Start, Cancel, WarmUpOver, Tick,
           Interrupt
  <2> QED
    BY <2>1 DEF ResultInv
<1>4. ASSUME UNCHANGED loadVars PROVE ResultInv'
  <2>1. UNCHANGED <<wpc, errs, status, hists, result, mpc>>
    BY <1>4 DEF loadVars
  <2>2. Samples' = Samples
    BY <2>1 DEF Samples
  <2> QED
    BY <2>1, <2>2 DEF ResultInv
<1> QED
  BY <1>1, <1>2, <1>3, <1>4, LoadNextParts

ReportInv == LoadTypeInv /\ GateInv /\ StatusInv /\ SamplesInv /\ ResultInv

(* Every counter starts at zero. *)
LEMMA ReportInvInit == LoadInit => ReportInv
<1> SUFFICES ASSUME LoadInit PROVE ReportInv
  OBVIOUS
<1>0. LoadTypeInv /\ LoadTypeOK
  BY LoadTypeInit DEF LoadTypeInv
<1>1. /\ mpc = "setup" /\ wpc = [w \in Workers |-> "gate"] /\ status = [c \in 0 .. 5 |-> 0]
      /\ errs = 0 /\ hists = [w \in Workers |-> NewHist] /\ answered = [o \in Outcomes |-> 0]
  BY DEF LoadInit
<1>2. GateInv /\ ResultInv
  BY <1>1 DEF GateInv, ResultInv
<1>3. (\A C : Waiting(C) = {}) /\ Observing = {}
  BY <1>1 DEF Waiting, Observing
<1>4. (\A C : Cardinality(Waiting(C)) = 0) /\ Cardinality(Observing) = 0
  BY <1>3, FS_EmptySet
<1>5. ASSUME NEW C PROVE Replies(C) = 0
  <2> DEFINE S == {o \in Outcomes : o.code \in C}
  <2>1. IsFiniteSet(S) /\ \A o \in S : answered[o] = 0
    BY <1>1, LoadAssumption, FS_Subset
  <2> HIDE DEF S
  <2>2. SumFunctionOnSet(answered, S) = 0
    BY <2>1, SumZero
  <2> QED
    BY <2>2 DEF Replies, Met, S
<1>6. StatusInv
  BY <1>1, <1>4, <1>5 DEF StatusInv
<1>7. SamplesInv
  <2> DEFINE D == 0 .. 5
  <2>1. IsFiniteSet(D) /\ \A c \in D : status[c] = 0
    BY <1>1, ClassesFinite
  <2>2. \A w \in Workers : Samples[w] = 0
    BY <1>1 DEF Samples, NewHist
  <2> HIDE DEF D
  <2>3. SumFunctionOnSet(status, D) = 0
    BY <2>1, SumZero
  <2>4. SumFunctionOnSet(Samples, Workers) = 0
    BY <2>2, WorkersFinite, SumZero
  <2> QED
    BY <1>4, <2>3, <2>4 DEF SamplesInv, D
<1> QED
  BY <1>0, <1>2, <1>6, <1>7 DEF ReportInv

(* The invariant behind the report is inductive. *)
LEMMA ReportInvNext == ReportInv /\ [LoadNext]_loadVars => ReportInv'
<1> SUFFICES ASSUME ReportInv, [LoadNext]_loadVars PROVE ReportInv'
  OBVIOUS
<1>1. LoadTypeInv /\ LoadTypeOK /\ GateInv /\ StatusInv /\ SamplesInv /\ ResultInv
  BY DEF ReportInv, LoadTypeInv
<1>2. LoadTypeInv'
  BY <1>1, LoadTypeNext
<1>3. GateInv' /\ StatusInv' /\ SamplesInv' /\ ResultInv'
  BY <1>1, <1>2, GateNext, StatusInvNext, SamplesInvNext, ResultInvNext
<1> QED
  BY <1>2, <1>3 DEF ReportInv

(* It implies that the report adds up. *)
LEMMA ReportIsRight == ReportInv => ReportAddsUp
<1> SUFFICES ASSUME ReportInv, mpc = "done" PROVE ReportAddsUp
  BY DEF ReportAddsUp
<1> DEFINE replies == {o \in Outcomes : o.code # 0}
           odd == {o \in replies : Class(o.code) = 0}
           wrong == {o \in replies \ odd : IsError(o.code)}
<1>0. /\ LoadTypeOK /\ StatusInv /\ SamplesInv
      /\ \A w \in Workers : wpc[w] = "exited"
      /\ result.Count = SumFunctionOnSet(Samples, Workers)
      /\ result.Errors = errs
      /\ result.StatusClass = status
  BY DEF ReportInv, LoadTypeInv, ResultInv
<1>1. (\A C : Waiting(C) = {}) /\ Observing = {}
  BY <1>0 DEF Waiting, Observing
<1>2. (\A C : Cardinality(Waiting(C)) = 0) /\ Cardinality(Observing) = 0
  BY <1>1, FS_EmptySet
<1>3. \A o \in Outcomes : o.code \in Nat
  BY LoadAssumption
<1>4. /\ \A c : {o \in replies : Class(o.code) = c} = {o \in Outcomes : o.code \in Codes(c)}
      /\ odd = {o \in Outcomes : o.code \in Codes(0)}
      /\ OfCode(0) = {o \in Outcomes : o.code \in {0}}
      /\ wrong = {o \in Outcomes : o.code \in ErrorCodes}
  BY <1>3 DEF Codes, ErrorCodes, OfCode
<1>5. /\ \A c : Met({o \in replies : Class(o.code) = c}) = Replies(Codes(c))
      /\ Met(odd) = Replies(Codes(0)) /\ Met(OfCode(0)) = Replies({0})
      /\ Met(wrong) = Replies(ErrorCodes)
  BY <1>4 DEF Replies
<1> HIDE DEF replies, odd, wrong
<1>6. /\ \A c \in 0 .. 5 : status[c] \in Nat
      /\ errs \in Nat /\ \A C : Replies(C) \in Nat
  BY <1>0, CountTypes
<1>7. \A c \in 1 .. 5 : status[c] = Met({o \in replies : Class(o.code) = c})
  <2> SUFFICES ASSUME NEW c \in 1 .. 5
               PROVE  status[c] = Met({o \in replies : Class(o.code) = c})
    OBVIOUS
  <2>1. status[c] + 0 = Replies(Codes(c)) /\ status[c] \in Nat
    BY <1>0, <1>2, <1>6 DEF StatusInv
  <2> QED
    BY <1>5, <2>1
<1>8. Met(odd) <= status[0] /\ status[0] <= Met(odd) + Met(OfCode(0))
  <2>1. /\ Replies(Codes(0)) <= status[0] + 0
        /\ status[0] + 0 + 0 <= Replies(Codes(0)) + Replies({0})
        /\ status[0] \in Nat
    BY <1>0, <1>2, <1>6 DEF StatusInv
  <2> QED
    BY <1>5, <1>6, <2>1
<1>9. errs = status[0] + Met(wrong)
  <2>1. errs + 0 = status[0] + Replies(ErrorCodes)
    BY <1>0, <1>2 DEF StatusInv
  <2> QED
    BY <1>5, <1>6, <2>1
<1>10. result.Count = SumFunction(status)
  <2>1. DOMAIN status = 0 .. 5
    BY <1>0 DEF LoadTypeOK
  <2>2. SumFunction(status) = SumFunctionOnSet(status, 0 .. 5)
    BY <2>1 DEF SumFunction
  <2>3. SumFunctionOnSet(status, 0 .. 5) = SumFunctionOnSet(Samples, Workers) + 0
    BY <1>0, <1>2 DEF SamplesInv
  <2>4. SumFunctionOnSet(Samples, Workers) \in Nat
    <3>1. \A w \in Workers : hists[w].count \in Nat
      BY <1>0 DEF LoadTypeOK, Histogram
    <3> QED
      BY <3>1, WorkersFinite, SumNat DEF Samples
  <2> QED
    BY <1>0, <2>2, <2>3, <2>4
<1> QED
  BY <1>0, <1>7, <1>8, <1>9, <1>10, Zenon DEF ReportAddsUp, replies, odd, wrong

(* The report accounts for the requests of the window, one by one: for any   *)
(* number of workers and any outcomes, however the end of the run or an      *)
(* interrupt comes between a response and its entry in the counters.         *)
THEOREM ReportAddsUpHolds == LoadSpec => []ReportAddsUp
BY ReportInvInit, ReportInvNext, ReportIsRight, PTL DEF LoadSpec

-----------------------------------------------------------------------------
(* The latencies of the report.  The invariant says that the merged          *)
(* histogram is the one of some number B[o] of samples of each outcome, and  *)
(* that these and the samples still to come are requests that met o.         *)

Weighted(B) == [o \in Outcomes |-> o.lat * B[o]]

Within(i) == {o \in Outcomes : BucketOf(o.lat) <= i}

Summarises(h, B) ==
  /\ h.count = SumFunctionOnSet(B, Outcomes)
  /\ h.sumNs = SumFunctionOnSet(Weighted(B), Outcomes)
  /\ \A i \in 0 .. LastBucket : Cumulative(h, i) = SumFunctionOnSet(B, Within(i))
  /\ \A o \in Outcomes : B[o] > 0 => h.minNs <= o.lat /\ o.lat <= h.maxNs
  /\ \/ (\A o \in Outcomes : B[o] = 0) /\ h.minNs = MaxUint64 /\ h.maxNs = 0
     \/ /\ \E o \in Outcomes : B[o] > 0 /\ o.lat = h.minNs
        /\ \E o \in Outcomes : B[o] > 0 /\ o.lat = h.maxNs

(* What is known of the outcomes. *)
LEMMA OutcomesFinite ==
  /\ IsFiniteSet(Outcomes) /\ MaxUint64 \in Nat
  /\ \A o \in Outcomes : /\ o.code \in Nat /\ o.lat \in Nat /\ o.lat < MaxUint64
                         /\ o = [code |-> o.code, lat |-> o.lat]
BY LoadAssumption, HistAssumption

(* The buckets up to i are finitely many. *)
LEMMA BucketsFinite ==
  ASSUME NEW i \in 0 .. LastBucket
  PROVE  IsFiniteSet(0 .. i) /\ i \in Nat /\ 0 .. i \subseteq 0 .. LastBucket
<1> DEFINE a == 0
           b == i
<1>0. LastBucket \in Nat
  BY HistAssumption DEF LastBucket
<1>1. a \in Int /\ b \in Int
  BY <1>0
<1> HIDE DEF a, b
<1>2. IsFiniteSet(a .. b)
  BY <1>1, FS_Interval
<1> QED
  BY <1>0, <1>2 DEF a, b

(* An observation is counted in every bucket from its own on. *)
LEMMA CumulativeObserve ==
  ASSUME NEW h \in Histogram, NEW d \in Nat, NEW i \in 0 .. LastBucket
  PROVE  Cumulative(Observe(h, d), i) = Cumulative(h, i) + IF BucketOf(d) <= i THEN 1 ELSE 0
<1> DEFINE D == 0 .. LastBucket
           k == BucketOf(d)
           f == h.buckets
           g == [f EXCEPT ![k] = @ + 1]
           S == 0 .. i
<1>1. f \in [D -> Nat] /\ k \in D /\ IsFiniteSet(S) /\ S \subseteq D
  BY BucketRange, BucketsFinite DEF Histogram
<1>2. k \in S <=> k <= i
  BY BucketRange, BucketsFinite
<1>3. Cumulative(h, i) = SumFunctionOnSet(f, S) /\ Cumulative(Observe(h, d), i) = SumFunctionOnSet(g, S)
  BY DEF Cumulative, Observe
<1> HIDE DEF D, k, f, S
<1>4. \A x \in S : f[x] \in Nat /\ g[x] = IF x = k THEN f[x] + 1 ELSE f[x]
  BY <1>1
<1> HIDE DEF g
<1>5. SumFunctionOnSet(g, S) = SumFunctionOnSet(f, S) + IF k \in S THEN 1 ELSE 0
  BY <1>1, <1>4, SumBump
<1> QED
  BY <1>2, <1>3, <1>5 DEF k

(* No samples, and the new histogram. *)
LEMMA NewSummarises ==
  ASSUME NEW B \in [Outcomes -> Nat], \A o \in Outcomes : B[o] = 0
  PROVE  Summarises(NewHist, B)
<1>1. SumFunctionOnSet(B, Outcomes) = 0
  BY OutcomesFinite, SumZero
<1>2. SumFunctionOnSet(Weighted(B), Outcomes) = 0
  <2>1. \A o \in Outcomes : Weighted(B)[o] = 0
    BY OutcomesFinite DEF Weighted
  <2> QED
    BY <2>1, OutcomesFinite, SumZero
<1>3. ASSUME NEW i \in 0 .. LastBucket
      PROVE  Cumulative(NewHist, i) = 0 /\ SumFunctionOnSet(B, Within(i)) = 0
  <2> DEFINE f == NewHist.buckets
             S == 0 .. i
             T == Within(i)
  <2>1. IsFiniteSet(S) /\ \A x \in S : f[x] = 0
    BY BucketsFinite DEF NewHist
  <2>2. IsFiniteSet(T) /\ \A x \in T : B[x] = 0
    BY OutcomesFinite, FS_Subset DEF Within
  <2> HIDE DEF f, S, T
  <2>3. SumFunctionOnSet(f, S) = 0 /\ SumFunctionOnSet(B, T) = 0
    BY <2>1, <2>2, SumZero
  <2> QED
    BY <2>3 DEF Cumulative, f, S, T
<1>4. NewHist.count = 0 /\ NewHist.sumNs = 0 /\ NewHist.minNs = MaxUint64 /\ NewHist.maxNs = 0
  BY DEF NewHist
<1> QED
  BY <1>1, <1>2, <1>3, <1>4 DEF Summarises

(* One more sample of outcome o. *)
LEMMA ObserveSummarises ==
  ASSUME NEW h \in Histogram, NEW B \in [Outcomes -> Nat], NEW o \in Outcomes,
         Summarises(h, B)
  PROVE  Summarises(Observe(h, o.lat), [B EXCEPT ![o] = @ + 1])
<1> DEFINE C == [B EXCEPT ![o] = @ + 1]
           g == Observe(h, o.lat)
<1>0. o.lat \in Nat /\ o.lat < MaxUint64 /\ IsFiniteSet(Outcomes)
  BY OutcomesFinite
<1>1. /\ h.count \in Nat /\ h.sumNs \in Nat /\ h.minNs \in Nat /\ h.maxNs \in Nat
  BY DEF Histogram
<1>2. /\ g.count = h.count + 1 /\ g.sumNs = h.sumNs + o.lat
      /\ g.minNs = Smaller(o.lat, h.minNs) /\ g.maxNs = Larger(o.lat, h.maxNs)
  BY DEF Observe
<1>3. \A x \in Outcomes : B[x] \in Nat /\ C[x] = IF x = o THEN B[x] + 1 ELSE B[x]
  OBVIOUS
<1>4. \A i \in 0 .. LastBucket :
        Cumulative(g, i) = Cumulative(h, i) + IF BucketOf(o.lat) <= i THEN 1 ELSE 0
  BY <1>0, CumulativeObserve
<1> HIDE DEF C, g
<1>5. SumFunctionOnSet(C, Outcomes) = SumFunctionOnSet(B, Outcomes) + 1
  <2>1. SumFunctionOnSet(C, Outcomes) = SumFunctionOnSet(B, Outcomes) + IF o \in Outcomes THEN 1 ELSE 0
    BY <1>0, <1>3, SumBump
  <2> QED
    BY <2>1
<1>6. SumFunctionOnSet(Weighted(C), Outcomes) = SumFunctionOnSet(Weighted(B), Outcomes) + o.lat
  <2> DEFINE F == Weighted(B)
             G == Weighted(C)
  <2>1. \A x \in Outcomes : /\ F[x] \in Nat /\ G[x] \in Nat
                            /\ x # o => G[x] = F[x]
    BY <1>3, OutcomesFinite DEF Weighted
  <2>2. G[o] = F[o] + o.lat
    <3>1. F[o] = o.lat * B[o] /\ G[o] = o.lat * (B[o] + 1) /\ B[o] \in Nat
      BY <1>3 DEF Weighted
    <3> DEFINE l == o.lat
               n == B[o]
    <3>2. l \in Nat /\ n \in Nat
      BY <1>0, <3>1
    <3> HIDE DEF l, n
    <3>3. l * (n + 1) = l * n + l
      BY <3>2
    <3> QED
      BY <3>1, <3>3 DEF l, n
  <2> HIDE DEF F, G
  <2>3. SumFunctionOnSet(G, Outcomes) + F[o] = SumFunctionOnSet(F, Outcomes) + G[o]
    BY <1>0, <2>1, SumOne
  <2>4. SumFunctionOnSet(F, Outcomes) \in Nat /\ SumFunctionOnSet(G, Outcomes) \in Nat
    BY <1>0, <2>1, SumNat
  <2>5. F[o] \in Nat
    BY <2>1
  <2>6. SumFunctionOnSet(G, Outcomes) = SumFunctionOnSet(F, Outcomes) + o.lat
    BY <1>0, <2>2, <2>3, <2>4, <2>5
  <2> QED
    BY <2>6 DEF F, G
<1>7. ASSUME NEW i \in 0 .. LastBucket PROVE Cumulative(g, i) = SumFunctionOnSet(C, Within(i))
  <2> DEFINE T == Within(i)
  <2>1. IsFiniteSet(T) /\ \A x \in T : x \in Outcomes
    BY <1>0, FS_Subset DEF Within
  <2>2. o \in T <=> BucketOf(o.lat) <= i
    BY DEF Within
  <2> HIDE DEF T
  <2>3. \A x \in T : B[x] \in Nat /\ C[x] = IF x = o THEN B[x] + 1 ELSE B[x]
    BY <1>3, <2>1
  <2>4. SumFunctionOnSet(C, T) = SumFunctionOnSet(B, T) + IF o \in T THEN 1 ELSE 0
    BY <2>1, <2>3, SumBump
  <2>5. Cumulative(h, i) = SumFunctionOnSet(B, T)
    BY DEF Summarises, T
  <2> QED
    BY <1>4, <2>2, <2>4, <2>5 DEF T
<1>8. \A x \in Outcomes : C[x] > 0 => g.minNs <= x.lat /\ x.lat <= g.maxNs
  <2> SUFFICES ASSUME NEW x \in Outcomes, C[x] > 0 PROVE g.minNs <= x.lat /\ x.lat <= g.maxNs
    OBVIOUS
  <2>1. x = o \/ (h.minNs <= x.lat /\ x.lat <= h.maxNs)
    BY <1>3 DEF Summarises
  <2>2. x.lat \in Nat
    BY OutcomesFinite
  <2> QED
    BY <1>0, <1>1, <1>2, <2>1, <2>2 DEF Smaller, Larger
<1>9. /\ \E x \in Outcomes : C[x] > 0 /\ x.lat = g.minNs
      /\ \E x \in Outcomes : C[x] > 0 /\ x.lat = g.maxNs
  <2>1. C[o] > 0 /\ \A x \in Outcomes : B[x] > 0 => C[x] > 0
    BY <1>3
  <2>2. CASE h.minNs = MaxUint64 /\ h.maxNs = 0
    <3>1. g.minNs = o.lat /\ g.maxNs = o.lat
      BY <1>0, <1>2, <2>2 DEF Smaller, Larger
    <3> QED
      BY <2>1, <3>1
  <2>3. CASE /\ \E x \in Outcomes : B[x] > 0 /\ x.lat = h.minNs
             /\ \E x \in Outcomes : B[x] > 0 /\ x.lat = h.maxNs
    <3>1. (g.minNs = o.lat \/ g.minNs = h.minNs) /\ (g.maxNs = o.lat \/ g.maxNs = h.maxNs)
      BY <1>2 DEF Smaller, Larger
    <3> QED
      BY <2>1, <2>3, <3>1
  <2> QED
    BY <2>2, <2>3 DEF Summarises
<1>10. g.count = SumFunctionOnSet(C, Outcomes) /\ g.sumNs = SumFunctionOnSet(Weighted(C), Outcomes)
  BY <1>2, <1>5, <1>6 DEF Summarises
<1>11. Summarises(g, C)
  BY <1>7, <1>8, <1>9, <1>10 DEF Summarises
<1> QED
  BY <1>11 DEF C, g

(* A response of the window on its way into the histogram, and its outcome. *)
Live(w) == wpc[w] = "observe" \/ (wpc[w] = "filter" /\ ~Dropped(req[w]))

Origin(w) == [code |-> req[w].code, lat |-> req[w].lat]

DueTo(o) == {w \in Workers : Live(w) /\ Origin(w) = o}

OriginInv == \A w \in Workers : Live(w) => Origin(w) \in Outcomes

LatencyInv ==
  \E B \in [Outcomes -> Nat] :
    /\ Summarises(Total, B)
    /\ \A o \in Outcomes : B[o] + Cardinality(DueTo(o)) <= answered[o]

(* The report is that of the merged histogram, which stays as it is. *)
SummaryInv ==
  mpc = "done" => /\ \A w \in Workers : wpc[w] = "exited"
                  /\ result.Count = Total.count
                  /\ result.Latency = Summary(Total)

(* The responses due are finitely many. *)
LEMMA DueFinite ==
  ASSUME NEW o
  PROVE  /\ IsFiniteSet(DueTo(o)) /\ Cardinality(DueTo(o)) \in Nat
         /\ IsFiniteSet(DueTo(o)') /\ Cardinality(DueTo(o)') \in Nat
<1>1. DueTo(o) \in SUBSET Workers /\ DueTo(o)' \in SUBSET Workers
  BY DEF DueTo
<1> QED
  BY <1>1, WorkersFinite

(* A step that observes nothing and meets nothing, and adds no live response. *)
LEMMA LatencySteady ==
  ASSUME LoadTypeOK, OriginInv, LatencyInv, UNCHANGED <<hists, answered>>,
         \A w \in Workers : Live(w)' => Live(w) /\ Origin(w)' = Origin(w)
  PROVE  OriginInv' /\ LatencyInv'
<1>1. OriginInv'
  BY DEF OriginInv
<1>2. PICK B \in [Outcomes -> Nat] :
        /\ Summarises(Total, B)
        /\ \A o \in Outcomes : B[o] + Cardinality(DueTo(o)) <= answered[o]
  BY DEF LatencyInv
<1>3. Total' = Total
  BY TotalIs
<1>4. ASSUME NEW o \in Outcomes PROVE B[o] + Cardinality(DueTo(o)') <= answered'[o]
  <2>1. DueTo(o)' \subseteq DueTo(o)
    BY DEF DueTo
  <2>2. Cardinality(DueTo(o)') <= Cardinality(DueTo(o))
    BY <2>1, DueFinite, FS_Subset
  <2>3. /\ Cardinality(DueTo(o)) \in Nat /\ Cardinality(DueTo(o)') \in Nat
        /\ B[o] \in Nat /\ answered[o] \in Nat /\ answered'[o] = answered[o]
    BY DueFinite DEF LoadTypeOK
  <2>4. B[o] + Cardinality(DueTo(o)) <= answered[o]
    BY <1>2
  <2> QED
    BY <2>2, <2>3, <2>4
<1>5. Summarises(Total, B)'
  BY <1>2, <1>3 DEF Summarises, Cumulative
<1> QED
  BY <1>1, <1>4, <1>5 DEF LatencyInv

(* Receive brings a live response, which is one more request that met o. *)
LEMMA LatencyReceive ==
  ASSUME LoadTypeOK, OriginInv, LatencyInv,
         NEW w \in Workers, NEW p \in Outcomes, Receive(w, p), ~ req[w].warm
  PROVE  OriginInv' /\ LatencyInv'
<1>0. /\ wpc \in [Workers -> PCs] /\ req \in [Workers -> Requests]
      /\ answered \in [Outcomes -> Nat]
  BY DEF LoadTypeOK, PCs, Requests
<1>1. /\ wpc[w] = "wait" /\ wpc' = [wpc EXCEPT ![w] = "filter"]
      /\ req' = [req EXCEPT ![w].code = p.code, ![w].lat = p.lat]
      /\ answered' = [answered EXCEPT ![p] = @ + 1]
      /\ UNCHANGED <<hists, cancelled, interrupted>>
  BY DEF Receive
<1>2. /\ req'[w].code = p.code /\ req'[w].lat = p.lat
      /\ \A v \in Workers : v # w => wpc'[v] = wpc[v] /\ req'[v] = req[v]
  BY <1>0, <1>1 DEF Requests
<1>3. Origin(w)' = p
  BY <1>2, OutcomesFinite DEF Origin
<1>4. \A v \in Workers : v # w => (Live(v)' <=> Live(v)) /\ Origin(v)' = Origin(v)
  BY <1>1, <1>2 DEF Live, Origin, Dropped, Stopped
<1>5. OriginInv'
  BY <1>3, <1>4 DEF OriginInv
<1>6. PICK B \in [Outcomes -> Nat] :
        /\ Summarises(Total, B)
        /\ \A o \in Outcomes : B[o] + Cardinality(DueTo(o)) <= answered[o]
  BY DEF LatencyInv
<1>7. Total' = Total
  BY <1>1, TotalIs
<1>8. ASSUME NEW o \in Outcomes PROVE B[o] + Cardinality(DueTo(o)') <= answered'[o]
  <2>1. /\ Cardinality(DueTo(o)) \in Nat /\ Cardinality(DueTo(o)') \in Nat
        /\ B[o] \in Nat /\ answered[o] \in Nat /\ B[o] + Cardinality(DueTo(o)) <= answered[o]
    BY <1>0, <1>6, DueFinite
  <2>2. CASE o = p
    <3>1. answered'[o] = answered[o] + 1
      BY <1>0, <1>1, <2>2
    <3>2. DueTo(o)' \subseteq DueTo(o) \cup {w}
      BY <1>4 DEF DueTo
    <3>3. w \notin DueTo(o)
      BY <1>1 DEF DueTo, Live
    <3>4. /\ IsFiniteSet(DueTo(o) \cup {w})
          /\ Cardinality(DueTo(o) \cup {w}) = Cardinality(DueTo(o)) + 1
      BY <3>3, DueFinite, FS_AddElement
    <3>5. Cardinality(DueTo(o)') <= Cardinality(DueTo(o)) + 1
      BY <3>2, <3>4, FS_Subset
    <3> QED
      BY <2>1, <3>1, <3>5
  <2>3. CASE o # p
    <3>1. answered'[o] = answered[o]
      BY <1>0, <1>1, <2>3
    <3>2. DueTo(o)' \subseteq DueTo(o)
      BY <1>3, <1>4, <2>3 DEF DueTo
    <3>3. Cardinality(DueTo(o)') <= Cardinality(DueTo(o))
      BY <3>2, DueFinite, FS_Subset
    <3> QED
      BY <2>1, <3>1, <3>3
  <2> QED
    BY <2>2, <2>3
<1>9. Summarises(Total, B)'
  BY <1>6, <1>7 DEF Summarises, Cumulative
<1> QED
  BY <1>5, <1>8, <1>9 DEF LatencyInv

(* ObserveLatency makes a sample of a live response. *)
LEMMA LatencyObserve ==
  ASSUME LoadTypeOK, OriginInv, LatencyInv, NEW w \in Workers, ObserveLatency(w)
  PROVE  OriginInv' /\ LatencyInv'
<1>0. /\ wpc \in [Workers -> PCs] /\ req \in [Workers -> Requests]
      /\ hists \in [Workers -> Histogram] /\ answered \in [Outcomes -> Nat]
  BY DEF LoadTypeOK, PCs, Requests
<1>1. /\ wpc[w] = "observe" /\ wpc' = [wpc EXCEPT ![w] = "check"]
      /\ hists' = [hists EXCEPT ![w] = Observe(@, req[w].lat)]
      /\ req' = [req EXCEPT ![w] = NoRequest]
      /\ UNCHANGED <<answered, cancelled, interrupted>>
  BY DEF ObserveLatency
<1>2. /\ wpc'[w] = "check"
      /\ \A v \in Workers : v # w => wpc'[v] = wpc[v] /\ req'[v] = req[v]
  BY <1>0, <1>1
<1>3. ~ Live(w)' /\ Live(w)
  BY <1>1, <1>2 DEF Live
<1>4. \A v \in Workers : v # w => (Live(v)' <=> Live(v)) /\ Origin(v)' = Origin(v)
  BY <1>1, <1>2 DEF Live, Origin, Dropped, Stopped
<1>5. OriginInv'
  BY <1>3, <1>4 DEF OriginInv
<1>6. PICK B \in [Outcomes -> Nat] :
        /\ Summarises(Total, B)
        /\ \A o \in Outcomes : B[o] + Cardinality(DueTo(o)) <= answered[o]
  BY DEF LatencyInv
<1>7. PICK p \in Outcomes : p = Origin(w) /\ p.lat = req[w].lat /\ p.lat \in Nat
  <2>1. Origin(w) \in Outcomes /\ Origin(w).lat = req[w].lat
    BY <1>3 DEF OriginInv, Origin
  <2> QED
    BY <2>1, OutcomesFinite
<1> DEFINE C == [B EXCEPT ![p] = @ + 1]
<1>8. Total' = Observe(Total, p.lat) /\ Total \in Histogram
  <2>1. Total' = TotalOf(hists')
    BY TotalIs
  <2>2. TotalOf(hists) \in Histogram
    <3>1. PICK it \in [SUBSET Workers -> Histogram] : TotalOf(hists) = it[Workers]
      BY <1>0, TotalIsRun
    <3> QED
      BY <3>1
  <2>3. hists' = [hists EXCEPT ![w] = Observe(@, p.lat)]
    BY <1>1, <1>7
  <2>4. TotalOf([hists EXCEPT ![w] = Observe(@, p.lat)]) = Observe(TotalOf(hists), p.lat)
    BY <1>0, <1>7, TotalObserve
  <2> QED
    BY <2>1, <2>2, <2>3, <2>4, TotalIs
<1>9. C \in [Outcomes -> Nat] /\ Summarises(Total', C)
  <2>1. Summarises(Observe(Total, p.lat), C)
    BY <1>6, <1>8, ObserveSummarises
  <2> QED
    BY <1>8, <2>1
<1>10. ASSUME NEW o \in Outcomes PROVE C[o] + Cardinality(DueTo(o)') <= answered'[o]
  <2>1. /\ Cardinality(DueTo(o)) \in Nat /\ Cardinality(DueTo(o)') \in Nat
        /\ B[o] \in Nat /\ answered[o] \in Nat /\ B[o] + Cardinality(DueTo(o)) <= answered[o]
        /\ answered'[o] = answered[o]
    BY <1>0, <1>1, <1>6, DueFinite
  <2>2. CASE o = p
    <3>1. C[o] = B[o] + 1
      BY <1>7, <2>2
    <3>2. DueTo(o)' = DueTo(o) \ {w} /\ w \in DueTo(o)
      BY <1>3, <1>4, <1>7, <2>2 DEF DueTo
    <3>3. Cardinality(DueTo(o)') = Cardinality(DueTo(o)) - 1
      BY <3>2, DueFinite, FS_RemoveElement
    <3> QED
      BY <2>1, <3>1, <3>3
  <2>3. CASE o # p
    <3>1. C[o] = B[o]
      BY <1>7, <2>3
    <3>2. DueTo(o)' \subseteq DueTo(o)
      BY <1>3, <1>4 DEF DueTo
    <3>3. Cardinality(DueTo(o)') <= Cardinality(DueTo(o))
      BY <3>2, DueFinite, FS_Subset
    <3> QED
      BY <2>1, <3>1, <3>3
  <2> QED
    BY <2>2, <2>3
<1> HIDE DEF C
<1>11. Summarises(Total, C)'
  BY <1>9 DEF Summarises, Cumulative
<1> QED
  BY <1>5, <1>9, <1>10, <1>11 DEF LatencyInv

(* The end of the run stays the end. *)
LEMMA StoppedStays ==
  ASSUME [LoadNext]_loadVars
  PROVE  Stopped => Stopped'
<1>1. ASSUME NEW w \in Workers, WorkerStep(w) PROVE UNCHANGED <<cancelled, interrupted>>
  BY <1>1, Zenon
     DEF WorkerStep, Check, TakeTick, TickCancelled, Send, Receive, Abort, Filter, ObserveLatency
<1>2. ASSUME Others
      PROVE  (UNCHANGED cancelled \/ cancelled' = TRUE) /\ (UNCHANGED interrupted \/ interrupted' = TRUE)
  BY <1>2, Zenon
     DEF Others, MainStep, SetupPut, SetupFails, Start, Cancel, Finish, WarmUpOver, Tick, Interrupt
<1>3. ASSUME UNCHANGED loadVars PROVE UNCHANGED <<cancelled, interrupted>>
  BY <1>3, Zenon DEF loadVars
<1> QED
  BY <1>1, <1>2, <1>3, LoadNextParts, Zenon DEF Stopped

(* Every step keeps the merged histogram that of requests of the window. *)
LEMMA LatencyInvNext ==
  ASSUME LoadTypeInv, GateInv, OriginInv, LatencyInv, [LoadNext]_loadVars
  PROVE  OriginInv' /\ LatencyInv'
<1> DEFINE Goal == OriginInv' /\ LatencyInv'
<1>0. /\ LoadTypeOK /\ wpc \in [Workers -> PCs] /\ req \in [Workers -> Requests]
  BY DEF LoadTypeInv, LoadTypeOK, PCs, Requests
<1>1. ASSUME UNCHANGED <<hists, answered>>,
             \A v \in Workers : Live(v)' => Live(v) /\ Origin(v)' = Origin(v)
      PROVE  Goal
  BY <1>0, <1>1, LatencySteady
<1>2. ASSUME NEW v \in Workers, wpc'[v] = wpc[v], req'[v] = req[v], Live(v)'
      PROVE  Live(v) /\ Origin(v)' = Origin(v)
  BY <1>2, StoppedStays DEF Live, Origin, Dropped
<1>3. ASSUME NEW w \in Workers, WorkerStep(w), ~ Live(w)', UNCHANGED <<hists, answered>>
      PROVE  Goal
  <2>1. \A v \in Workers : v # w => wpc'[v] = wpc[v] /\ req'[v] = req[v]
    BY <1>0, <1>3, WorkerOwn
  <2>2. \A v \in Workers : Live(v)' => Live(v) /\ Origin(v)' = Origin(v)
    BY <1>2, <1>3, <2>1
  <2> QED
    BY <1>1, <1>3, <2>2
<1>4. ASSUME NEW w \in Workers, WorkerStep(w),
             Check(w) \/ TakeTick(w) \/ TickCancelled(w) \/ Send(w)
      PROVE  Goal
  <2>1. /\ UNCHANGED <<hists, answered>>
        /\ \E q \in {"exited", "tick", "send", "wait"} : wpc' = [wpc EXCEPT ![w] = q]
    BY <1>4 DEF Check, TakeTick, TickCancelled, Send
  <2>2. ~ Live(w)'
    BY <1>0, <2>1 DEF Live
  <2> QED
    BY <1>3, <1>4, <2>1, <2>2
<1>5. ASSUME NEW w \in Workers, WorkerStep(w), NEW o \in Outcomes, Receive(w, o) PROVE Goal
  <2>1. CASE ~ req[w].warm
    BY <1>0, <1>5, <2>1, LatencyReceive
  <2>2. CASE req[w].warm
    <3>1. /\ UNCHANGED <<hists, answered>> /\ wpc' = [wpc EXCEPT ![w] = "filter"]
          /\ req' = [req EXCEPT ![w].code = o.code, ![w].lat = o.lat]
      BY <1>5, <2>2 DEF Receive
    <3>2. wpc'[w] = "filter" /\ req'[w].warm
      BY <1>0, <2>2, <3>1 DEF Requests
    <3>3. ~ Live(w)'
      BY <3>2 DEF Live, Dropped
    <3> QED
      BY <1>3, <1>5, <3>1, <3>3
  <2> QED
    BY <2>1, <2>2
<1>6. ASSUME NEW w \in Workers, WorkerStep(w), NEW l \in Latencies, Abort(w, l) PROVE Goal
  <2>1. /\ UNCHANGED <<hists, answered>> /\ wpc' = [wpc EXCEPT ![w] = "filter"]
        /\ req' = [req EXCEPT ![w].code = 0, ![w].lat = l] /\ Stopped
    BY <1>6 DEF Abort
  <2>2. wpc'[w] = "filter" /\ req'[w].code = 0
    BY <1>0, <2>1 DEF Requests
  <2>3. ~ Live(w)'
    BY <2>1, <2>2, StoppedStays DEF Live, Dropped
  <2> QED
    BY <1>3, <1>6, <2>1, <2>3
<1>7. ASSUME NEW w \in Workers, WorkerStep(w), Filter(w) PROVE Goal
  <2>1. UNCHANGED <<hists, answered>> /\ wpc[w] = "filter"
    BY <1>7 DEF Filter
  <2>2. CASE Dropped(req[w])
    <3>1. wpc' = [wpc EXCEPT ![w] = "check"]
      BY <1>7, <2>2 DEF Filter
    <3>2. ~ Live(w)'
      BY <1>0, <3>1 DEF Live
    <3> QED
      BY <1>3, <1>7, <2>1, <3>2
  <2>3. CASE ~ Dropped(req[w])
    <3>1. req' = req /\ wpc' = [wpc EXCEPT ![w] = "observe"]
      BY <1>7, <2>3 DEF Filter
    <3>2. Live(w) /\ Origin(w)' = Origin(w)
      BY <2>1, <2>3, <3>1 DEF Live, Origin
    <3>3. \A v \in Workers : v # w => wpc'[v] = wpc[v] /\ req'[v] = req[v]
      BY <1>0, <3>1
    <3>4. \A v \in Workers : Live(v)' => Live(v) /\ Origin(v)' = Origin(v)
      BY <1>2, <3>2, <3>3
    <3> QED
      BY <1>1, <2>1, <3>4
  <2> QED
    BY <2>2, <2>3
<1>8. ASSUME NEW w \in Workers, WorkerStep(w) PROVE Goal
  <2>1. ASSUME ObserveLatency(w) PROVE Goal
    BY <1>0, <2>1, LatencyObserve
  <2> HIDE DEF Goal
  <2> QED
    BY <1>4, <1>5, <1>6, <1>7, <1>8, <2>1, Zenon DEF WorkerStep
<1>9. ASSUME Others PROVE Goal
  <2>1. UNCHANGED <<hists, answered, req>> /\ (UNCHANGED wpc \/ Start)
    BY <1>9, OthersLeave
  <2>2. CASE UNCHANGED wpc
    BY <1>1, <1>2, <2>1, <2>2
  <2>3. CASE Start
    <3>1. \A v \in Workers : ~ Live(v)'
      BY <2>3 DEF Start, Live
    <3> QED
      BY <1>1, <2>1, <3>1
  <2> QED
    BY <2>1, <2>2, <2>3
<1>10. ASSUME UNCHANGED loadVars PROVE Goal
  <2>1. UNCHANGED <<hists, answered, req, wpc>>
    BY <1>10 DEF loadVars
  <2> QED
    BY <1>1, <1>2, <2>1
<1> QED
  BY <1>8, <1>9, <1>10, LoadNextParts

(* Every step keeps the report that of the merged histogram. *)
LEMMA SummaryInvNext ==
  ASSUME LoadTypeInv, SummaryInv, [LoadNext]_loadVars
  PROVE  SummaryInv'
<1>1. ASSUME NEW w \in Workers, WorkerStep(w) PROVE SummaryInv'
  <2>1. wpc[w] # "exited" /\ UNCHANGED mpc
    BY <1>1
       DEF WorkerStep, Check, TakeTick, TickCancelled, Send, Receive, Abort, Filter, ObserveLatency
  <2> QED
    BY <2>1 DEF SummaryInv
<1>2. ASSUME Finish PROVE SummaryInv'
  <2>1. /\ \A w \in Workers : wpc[w] = "exited"
        /\ UNCHANGED <<wpc, hists>>
        /\ result' = [Count |-> Total.count, Errors |-> errs, StatusClass |-> status,
                      Latency |-> Summary(Total)]
    BY <1>2 DEF Finish
  <2>2. Total' = Total
    BY <2>1, TotalIs
  <2>3. result'.Count = Total.count /\ result'.Latency = Summary(Total)
    BY <2>1
  <2>4. result'.Count = Total'.count /\ result'.Latency = Summary(Total')
    BY <2>2, <2>3
  <2> QED
    BY <2>1, <2>4 DEF SummaryInv, Summary, MinOf, Mean, Percentile, Cumulative
<1>3. ASSUME Others, ~ Finish PROVE SummaryInv'
  <2>1. mpc' # "done"
    <3>1. \/ mpc' \in {"failed", "run", "drain"} \/ (UNCHANGED mpc /\ mpc # "done")
      BY <1>3
         DEF Others, MainStep, SetupPut, SetupFails, Start, Cancel, WarmUpOver, Tick, Interrupt
    <3> QED
      BY <3>1
  <2> QED
    BY <2>1 DEF SummaryInv
<1>4. ASSUME UNCHANGED loadVars PROVE SummaryInv'
  <2>1. UNCHANGED <<wpc, hists, result, mpc>>
    BY <1>4 DEF loadVars
  <2>2. Total' = Total
    BY <2>1, TotalIs
  <2> QED
    BY <2>1, <2>2 DEF SummaryInv, Summary, MinOf, Mean, Percentile, Cumulative
<1> QED
  BY <1>1, <1>2, <1>3, <1>4, LoadNextParts

SampleInv == LoadTypeInv /\ GateInv /\ OriginInv /\ LatencyInv /\ SummaryInv

(* Nothing was observed in the initial state. *)
LEMMA SampleInvInit == LoadInit => SampleInv
<1> SUFFICES ASSUME LoadInit PROVE SampleInv
  OBVIOUS
<1>0. LoadTypeInv /\ LoadTypeOK
  BY LoadTypeInit DEF LoadTypeInv
<1>1. /\ mpc = "setup" /\ wpc = [w \in Workers |-> "gate"]
      /\ hists = [w \in Workers |-> NewHist] /\ answered = [o \in Outcomes |-> 0]
  BY DEF LoadInit
<1>2. GateInv /\ SummaryInv
  BY <1>1 DEF GateInv, SummaryInv
<1>3. OriginInv /\ \A o : DueTo(o) = {}
  BY <1>1 DEF OriginInv, DueTo, Live
<1>4. Total = NewHist
  <2>1. PICK it \in [SUBSET Workers -> Histogram] :
          /\ it[{}] = NewHist
          /\ \A s \in SUBSET Workers : s # {} => it[s] = Merge(it[Rest(s)], hists[Pick(s)])
          /\ Total = it[Workers]
    <3>1. hists \in [Workers -> Histogram]
      BY <1>0 DEF LoadTypeOK
    <3> QED
      BY <3>1, TotalIs, TotalIsRun
  <2>2. Merge(NewHist, NewHist) = NewHist
    <3> DEFINE D == 0 .. LastBucket
               z == [i \in D |-> 0]
               twice == [i \in D |-> z[i] + z[i]]
    <3>1. twice = z
      <4> HIDE DEF D
      <4> QED
        OBVIOUS
    <3>2. Smaller(MaxUint64, MaxUint64) = MaxUint64 /\ Larger(0, 0) = 0
      BY DEF Smaller, Larger
    <3>3. Merge(NewHist, NewHist) =
            [buckets |-> twice, count |-> 0 + 0, sumNs |-> 0 + 0,
             minNs |-> Smaller(MaxUint64, MaxUint64), maxNs |-> Larger(0, 0)]
      BY Zenon DEF Merge, NewHist
    <3>4. NewHist = [buckets |-> z, count |-> 0, sumNs |-> 0, minNs |-> MaxUint64, maxNs |-> 0]
      BY Zenon DEF NewHist
    <3> HIDE DEF D, z, twice
    <3>5. 0 + 0 = 0
      OBVIOUS
    <3> QED
      BY <3>1, <3>2, <3>3, <3>4, <3>5
  <2> DEFINE Q == {s \in SUBSET Workers : it[s] = NewHist}
  <2>3. {} \in Q
    BY <2>1
  <2>4. ASSUME NEW s \in SUBSET Workers, s # {}, Rest(s) \in Q PROVE s \in Q
    <3>1. Pick(s) \in Workers
      BY <2>4, WorkersFinite, RestSmaller
    <3>2. hists[Pick(s)] = NewHist
      BY <1>1, <3>1
    <3> QED
      BY <2>1, <2>2, <2>4, <3>2
  <2>5. \A s \in SUBSET Workers : s \in Q
    <3> HIDE DEF Q
    <3> QED
      BY <2>3, <2>4, WorkersFinite, SubsetInduction
  <2> QED
    BY <2>1, <2>5
<1>5. LatencyInv
  <2> DEFINE B == [o \in Outcomes |-> 0]
  <2>1. B \in [Outcomes -> Nat] /\ \A o \in Outcomes : B[o] = 0
    OBVIOUS
  <2>2. Summarises(NewHist, B)
    <3> HIDE DEF B
    <3> QED
      BY <2>1, NewSummarises
  <2>3. \A o \in Outcomes : B[o] + Cardinality(DueTo(o)) <= answered[o]
    <3>1. \A o : Cardinality(DueTo(o)) = 0
      BY <1>3, FS_EmptySet
    <3> QED
      BY <1>1, <3>1
  <2> HIDE DEF B
  <2> QED
    BY <1>4, <2>1, <2>2, <2>3 DEF LatencyInv
<1> QED
  BY <1>0, <1>2, <1>3, <1>5 DEF SampleInv

(* The invariant behind the latencies is inductive. *)
LEMMA SampleInvNext == SampleInv /\ [LoadNext]_loadVars => SampleInv'
<1> SUFFICES ASSUME SampleInv, [LoadNext]_loadVars PROVE SampleInv'
  OBVIOUS
<1>1. LoadTypeInv /\ LoadTypeOK /\ GateInv /\ OriginInv /\ LatencyInv /\ SummaryInv
  BY DEF SampleInv, LoadTypeInv
<1>2. LoadTypeInv' /\ GateInv'
  BY <1>1, LoadTypeNext, GateNext
<1>3. OriginInv' /\ LatencyInv' /\ SummaryInv'
  BY <1>1, LatencyInvNext, SummaryInvNext
<1> QED
  BY <1>2, <1>3 DEF SampleInv

-----------------------------------------------------------------------------
(* What a histogram of the samples B reports. *)

(* One of finitely many outcomes took longest. *)
LEMMA SlowestOutcome ==
  ASSUME NEW K \in SUBSET Outcomes, K # {}
  PROVE  \E o \in K : \A x \in K : x.lat <= o.lat
<1> DEFINE Q == {s \in SUBSET Outcomes : s = {} \/ \E o \in s : \A x \in s : x.lat <= o.lat}
<1>1. {} \in Q
  OBVIOUS
<1>2. ASSUME NEW s \in SUBSET Outcomes, s # {}, Rest(s) \in Q PROVE s \in Q
  <2>1. Pick(s) \in s /\ Rest(s) \in SUBSET Outcomes
    BY <1>2, OutcomesFinite, RestSmaller
  <2>2. \A x \in s : x.lat \in Nat /\ (x = Pick(s) \/ x \in Rest(s))
    BY OutcomesFinite DEF Rest
  <2>3. CASE Rest(s) = {}
    BY <2>1, <2>2, <2>3
  <2>4. CASE Rest(s) # {}
    <3>1. PICK o \in Rest(s) : \A x \in Rest(s) : x.lat <= o.lat
      BY <1>2, <2>4
    <3>2. o \in s
      BY DEF Rest
    <3>3. CASE Pick(s).lat <= o.lat
      BY <2>2, <3>1, <3>2, <3>3
    <3>4. CASE ~ (Pick(s).lat <= o.lat)
      <4>1. \A x \in s : x.lat <= Pick(s).lat
        BY <2>1, <2>2, <3>1, <3>2, <3>4
      <4> QED
        BY <2>1, <4>1
    <3> QED
      BY <3>3, <3>4
  <2> QED
    BY <2>3, <2>4
<1>3. \A s \in SUBSET Outcomes : s \in Q
  <2> HIDE DEF Q
  <2> QED
    BY <1>1, <1>2, OutcomesFinite, SubsetInduction
<1> QED
  BY <1>3

(* The least number of a set of natural numbers. *)
LEMMA MinNat ==
  ASSUME NEW T \in SUBSET Nat, T # {}
  PROVE  Min(T) \in T /\ \A k \in T : Min(T) <= k
<1>1. \E m \in T : \A k \in T : m <= k
  BY LeastNatural
<1> QED
  BY <1>1 DEF Min

(* A longer latency is in no earlier bucket; where its bucket begins. *)
LEMMA BucketBounds ==
  ASSUME NEW l \in Nat
  PROVE  /\ \A m \in Nat : m <= l => BucketOf(m) <= BucketOf(l)
         /\ BucketOf(l) # LastBucket =>
              /\ BucketOf(l) * BucketWidth <= l
              /\ l < BucketOf(l) * BucketWidth + BucketWidth
<1>1. BucketWidth \in Nat \ {0} /\ LastBucket \in Nat
  BY HistAssumption, BucketRange
<1>2. ASSUME NEW x \in Nat
      PROVE  /\ x \div BucketWidth \in Nat
             /\ (x \div BucketWidth) * BucketWidth <= x
             /\ x < (x \div BucketWidth) * BucketWidth + BucketWidth
  BY <1>1
<1>3. ASSUME NEW m \in Nat, m <= l PROVE BucketOf(m) <= BucketOf(l)
  <2> DEFINE a == m \div BucketWidth
             b == l \div BucketWidth
  <2>1. /\ a \in Nat /\ a * BucketWidth <= m
        /\ b \in Nat /\ l < b * BucketWidth + BucketWidth
    BY <1>2
  <2> HIDE DEF a, b
  <2>2. a <= b
    <3> SUFFICES ASSUME ~ (a <= b) PROVE FALSE
      OBVIOUS
    <3>1. PICK c \in Nat : a = b + 1 + c
      <4>1. a - b - 1 \in Nat /\ a = b + 1 + (a - b - 1)
        BY <2>1
      <4> QED
        BY <4>1
    <3>2. a * BucketWidth = b * BucketWidth + BucketWidth + c * BucketWidth
      BY <1>1, <2>1, <3>1
    <3>3. c * BucketWidth \in Nat /\ a * BucketWidth \in Nat /\ b * BucketWidth \in Nat
      BY <1>1, <2>1, <3>1
    <3> QED
      BY <1>1, <1>3, <2>1, <3>2, <3>3
  <2> QED
    BY <1>1, <2>1, <2>2 DEF BucketOf, Smaller, a, b
<1>4. BucketOf(l) # LastBucket => BucketOf(l) = l \div BucketWidth
  BY DEF BucketOf, Smaller
<1> QED
  BY <1>2, <1>3, <1>4

(* Reaching the rank of a percentile is reaching its share of the samples. *)
LEMMA RankIsShare ==
  ASSUME NEW n \in Nat, n > 0, NEW p \in Percentiles, NEW c \in Nat
  PROVE  c >= Rank(n, p) <=> 1000 * c >= p * n
<1> DEFINE z == n * p + 999
           q == z \div 1000
<1>1. p \in Nat /\ p > 0 /\ n * p \in Nat /\ p * n = n * p /\ n * p >= 1
  <2>1. p \in {500, 900, 950, 990, 999}
    BY DEF Percentiles
  <2> QED
    BY <2>1
<1>2. z \in Nat /\ z = n * p + 999
  BY <1>1
<1> HIDE DEF z
<1>3. q \in Nat /\ q * 1000 <= z /\ z < q * 1000 + 1000
  BY <1>2
<1>4. Rank(n, p) = Larger(1, q)
  BY DEF Rank, z, q
<1> HIDE DEF q
<1> DEFINE y == n * p
<1>5. y \in Nat /\ y >= 1 /\ z = y + 999 /\ p * n = y
  BY <1>1, <1>2
<1> HIDE DEF y
<1>6. c >= Larger(1, q) <=> c >= 1 /\ c >= q
  BY <1>3 DEF Larger
<1>7. (c >= 1 /\ c >= q) <=> 1000 * c >= y
  BY <1>3, <1>5
<1> QED
  BY <1>4, <1>5, <1>6, <1>7

(* The percentile lies in the bucket of the sample of that rank. *)
LEMMA PercentileRight ==
  ASSUME NEW h \in Histogram, NEW B \in [Outcomes -> Nat], Summarises(h, B), h.count > 0,
         NEW p \in Percentiles, NEW t,
         t = Min({l \in Latencies :
                    SumFunctionOnSet(B, {o \in Outcomes : o.lat <= l}) >= Rank(h.count, p)})
  PROVE  IF BucketOf(t) = LastBucket THEN Percentile(h, p) = h.maxNs
         ELSE /\ 2 * Percentile(h, p) <= 2 * t + BucketWidth
              /\ 2 * t <= 2 * Percentile(h, p) + BucketWidth
<1> DEFINE rank == Rank(h.count, p)
           Upto(l) == {o \in Outcomes : o.lat <= l}
           ls == {l \in Latencies : SumFunctionOnSet(B, Upto(l)) >= rank}
           reached == {i \in 0 .. LastBucket : Cumulative(h, i) >= rank}
           bucket == Min(reached)
<1>0. /\ IsFiniteSet(Outcomes) /\ h.count \in Nat /\ LastBucket \in Nat
      /\ \A o \in Outcomes : B[o] \in Nat /\ o.lat \in Nat
  BY OutcomesFinite, BucketRange DEF Histogram
<1>1. rank \in Nat /\ 1 <= rank /\ rank <= h.count
  <2> DEFINE n == h.count
             q == (n * p + 999) \div 1000
  <2>1. n \in Nat /\ 1 <= n /\ p \in Nat /\ p <= 999
    BY <1>0 DEF Percentiles
  <2>2. n * p + 999 \in Nat /\ n * p <= n * 999
    <3>1. n * p \in Nat
      BY <2>1
    <3>2. CASE p = 500
      BY <2>1, <3>2
    <3>3. CASE p = 900
      BY <2>1, <3>3
    <3>4. CASE p = 950
      BY <2>1, <3>4
    <3>5. CASE p = 990
      BY <2>1, <3>5
    <3>6. CASE p = 999
      BY <2>1, <3>6
    <3>7. p \in {500, 900, 950, 990, 999}
      BY DEF Percentiles
    <3> QED
      BY <3>1, <3>2, <3>3, <3>4, <3>5, <3>6, <3>7
  <2>3. q \in Nat /\ q <= n
    <3> DEFINE z == n * p + 999
    <3>1. z \in Nat /\ z <= n * 999 + 999
      BY <2>1, <2>2
    <3> HIDE DEF z
    <3>2. z \div 1000 \in Nat /\ (z \div 1000) * 1000 <= z
      BY <3>1
    <3>3. z \div 1000 <= n
      BY <2>1, <3>1, <3>2
    <3> QED
      BY <3>2, <3>3 DEF z
  <2> HIDE DEF n, q
  <2>4. rank = Larger(1, q)
    BY DEF Rank, n, q
  <2>5. rank \in Nat /\ 1 <= rank /\ rank <= n
    BY <2>1, <2>3, <2>4 DEF Larger
  <2> QED
    BY <2>5 DEF n
<1> HIDE DEF rank
<1>2. ASSUME NEW K \in SUBSET Outcomes, NEW L \in SUBSET Outcomes, K \subseteq L
      PROVE  /\ SumFunctionOnSet(B, K) \in Nat /\ SumFunctionOnSet(B, L) \in Nat
             /\ SumFunctionOnSet(B, K) <= SumFunctionOnSet(B, L)
  <2>1. IsFiniteSet(K) /\ IsFiniteSet(L)
    BY <1>0, FS_Subset
  <2>2. (\A x \in K : B[x] \in Nat) /\ (\A x \in L : B[x] \in Nat)
    BY <1>0
  <2> QED
    BY <1>2, <2>1, <2>2, SumNat, SumSubset
<1>3. ASSUME NEW K \in SUBSET Outcomes, SumFunctionOnSet(B, K) >= rank
      PROVE  \E o \in K : o.lat \in ls
  <2>1. K # {}
    <3>1. ASSUME K = {} PROVE SumFunctionOnSet(B, K) = 0
      <4>1. IsFiniteSet(K) /\ \A x \in K : B[x] = 0
        BY <3>1, FS_EmptySet
      <4> QED
        BY <4>1, SumZero
    <3> QED
      BY <1>1, <1>3, <3>1
  <2>2. PICK o \in K : \A x \in K : x.lat <= o.lat
    BY <2>1, SlowestOutcome
  <2>3. K \subseteq Upto(o.lat) /\ Upto(o.lat) \in SUBSET Outcomes
    BY <2>2
  <2>4. SumFunctionOnSet(B, K) <= SumFunctionOnSet(B, Upto(o.lat))
        /\ SumFunctionOnSet(B, K) \in Nat /\ SumFunctionOnSet(B, Upto(o.lat)) \in Nat
    <3> HIDE DEF Upto
    <3> QED
      BY <1>2, <2>3
  <2>5. SumFunctionOnSet(B, Upto(o.lat)) >= rank /\ o.lat \in Latencies
    BY <1>1, <1>3, <2>4 DEF Latencies
  <2> QED
    BY <2>5
<1>4. t \in ls /\ t \in Nat /\ \A l \in ls : t <= l
  <2>1. ls \in SUBSET Nat
    BY <1>0 DEF Latencies
  <2>2. SumFunctionOnSet(B, Outcomes) >= rank
    BY <1>1 DEF Summarises
  <2>3. ls # {}
    <3> HIDE DEF ls
    <3> QED
      BY <1>3, <2>2
  <2>4. t = Min(ls)
    BY DEF rank
  <2> HIDE DEF ls
  <2>5. Min(ls) \in ls /\ \A l \in ls : Min(ls) <= l
    BY <2>1, <2>3, MinNat
  <2> QED
    BY <2>1, <2>4, <2>5, Zenon
<1>5. \A i \in 0 .. LastBucket : Cumulative(h, i) = SumFunctionOnSet(B, Within(i))
  BY DEF Summarises
<1>6. BucketOf(t) \in reached
  <2>1. BucketOf(t) \in 0 .. LastBucket
    BY <1>4, BucketRange
  <2>2. Upto(t) \subseteq Within(BucketOf(t))
    BY <1>0, <1>4, BucketBounds DEF Within
  <2>3. Upto(t) \in SUBSET Outcomes /\ Within(BucketOf(t)) \in SUBSET Outcomes
    BY DEF Within
  <2>4. SumFunctionOnSet(B, Upto(t)) >= rank
    BY <1>4
  <2>5. /\ SumFunctionOnSet(B, Upto(t)) \in Nat /\ SumFunctionOnSet(B, Within(BucketOf(t))) \in Nat
        /\ SumFunctionOnSet(B, Upto(t)) <= SumFunctionOnSet(B, Within(BucketOf(t)))
    <3> HIDE DEF Upto
    <3> QED
      BY <1>2, <2>2, <2>3
  <2>6. Cumulative(h, BucketOf(t)) >= rank
    BY <1>1, <1>5, <2>1, <2>4, <2>5
  <2> QED
    BY <2>1, <2>6
<1>7. bucket \in reached /\ bucket <= BucketOf(t) /\ bucket \in Nat
  <2>1. reached \in SUBSET Nat /\ reached # {}
    BY <1>0, <1>6
  <2> HIDE DEF reached
  <2> QED
    BY <1>6, <2>1, MinNat
<1>8. BucketOf(t) <= bucket
  <2>1. bucket \in 0 .. LastBucket /\ Cumulative(h, bucket) >= rank
    BY <1>7
  <2> HIDE DEF bucket, ls
  <2>2. SumFunctionOnSet(B, Within(bucket)) >= rank /\ Within(bucket) \in SUBSET Outcomes
    BY <1>5, <2>1 DEF Within
  <2>3. PICK o \in Within(bucket) : o.lat \in ls
    BY <1>3, <2>2
  <2>4. t <= o.lat /\ o.lat \in Nat /\ BucketOf(o.lat) <= bucket
    BY <1>0, <1>4, <2>3 DEF Within
  <2>5. BucketOf(t) <= BucketOf(o.lat)
    BY <1>4, <2>4, BucketBounds
  <2>6. BucketOf(t) \in Nat /\ BucketOf(o.lat) \in Nat
    BY <1>4, <2>4, BucketRange
  <2> QED
    BY <1>7, <2>4, <2>5, <2>6
<1>9. bucket = BucketOf(t)
  BY <1>4, <1>7, <1>8, BucketRange
<1>10. Percentile(h, p) = IF bucket = LastBucket THEN h.maxNs
                          ELSE bucket * BucketWidth + BucketWidth \div 2
  <2>1. h.count # 0
    BY <1>0
  <2> QED
    BY <2>1, Zenon DEF Percentile, rank
<1> HIDE DEF bucket
<1>11. CASE bucket = LastBucket
  BY <1>9, <1>10, <1>11
<1>12. CASE bucket # LastBucket
  <2> DEFINE c == bucket * BucketWidth
             half == BucketWidth \div 2
  <2>1. c <= t /\ t < c + BucketWidth /\ c \in Nat /\ BucketWidth \in Nat
    BY <1>4, <1>7, <1>9, <1>12, BucketBounds, HistAssumption
  <2>2. half \in Nat /\ 2 * half <= BucketWidth /\ BucketWidth <= 2 * half + 1
    BY <2>1
  <2>3. Percentile(h, p) = c + half
    BY <1>10, <1>12
  <2> HIDE DEF c, half
  <2>4. 2 * (c + half) <= 2 * t + BucketWidth /\ 2 * t <= 2 * (c + half) + BucketWidth
    BY <1>4, <2>1, <2>2
  <2> QED
    BY <1>9, <1>12, <2>3, <2>4
<1> QED
  BY <1>11, <1>12

(* The invariant implies what the report says of the latencies. *)
LEMMA LatenciesAreRight == SampleInv => LatenciesMatchSamples
<1> SUFFICES ASSUME SampleInv, mpc = "done", result.Count = Met(Outcomes), result.Count > 0
             PROVE  LatenciesMatchSamples
  BY DEF LatenciesMatchSamples
<1> DEFINE met == {o \in Outcomes : answered[o] > 0}
           s == result.Latency
           h == Total
<1>0. /\ LoadTypeOK /\ answered \in [Outcomes -> Nat]
      /\ \A w \in Workers : wpc[w] = "exited"
      /\ result.Count = h.count /\ s = Summary(h)
  BY DEF SampleInv, LoadTypeInv, SummaryInv, LoadTypeOK
<1>1. h \in Histogram
  <2>1. hists \in [Workers -> Histogram]
    BY <1>0 DEF LoadTypeOK
  <2>2. PICK it \in [SUBSET Workers -> Histogram] : Total = it[Workers]
    BY <2>1, TotalIs, TotalIsRun
  <2> QED
    BY <2>2
<1>2. /\ h.count \in Nat /\ h.count > 0 /\ h.minNs \in Nat /\ h.maxNs \in Nat
      /\ h.count = SumFunctionOnSet(answered, Outcomes)
  BY <1>0, <1>1 DEF Histogram, Met
<1>3. Summarises(h, answered)
  <2>1. PICK B \in [Outcomes -> Nat] :
          /\ Summarises(h, B)
          /\ \A o \in Outcomes : B[o] + Cardinality(DueTo(o)) <= answered[o]
    BY DEF SampleInv, LatencyInv
  <2>2. \A o : DueTo(o) = {}
    BY <1>0 DEF DueTo, Live
  <2>3. \A o \in Outcomes : B[o] \in Nat /\ answered[o] \in Nat /\ B[o] <= answered[o]
    <3>1. \A o : Cardinality(DueTo(o)) = 0
      BY <2>2, FS_EmptySet
    <3> QED
      BY <1>0, <2>1, <3>1
  <2>4. SumFunctionOnSet(B, Outcomes) = SumFunctionOnSet(answered, Outcomes)
    BY <1>2, <2>1 DEF Summarises
  <2>5. \A o \in Outcomes : B[o] = answered[o]
    BY <2>3, <2>4, OutcomesFinite, SumMono
  <2>6. B = answered
    BY <1>0, <2>1, <2>5
  <2> QED
    BY <2>1, <2>6
<1> HIDE DEF h
<1>4. /\ s.Count = h.count /\ s.Min = h.minNs /\ s.Max = h.maxNs
      /\ s.Mean = h.sumNs \div h.count
      /\ \A p \in Percentiles : s.P[p] = Percentile(h, p)
  BY <1>0, <1>2 DEF Summary, MinOf, Mean
<1> HIDE DEF s
<1>5. PICK a \in met, z \in met :
        /\ a.lat = h.minNs /\ z.lat = h.maxNs
        /\ \A o \in met : a.lat <= o.lat /\ o.lat <= z.lat
  <2>1. ~ \A o \in Outcomes : answered[o] = 0
    <3> SUFFICES ASSUME \A o \in Outcomes : answered[o] = 0 PROVE FALSE
      OBVIOUS
    <3>1. SumFunctionOnSet(answered, Outcomes) = 0
      BY OutcomesFinite, SumZero
    <3> QED
      BY <1>2, <3>1
  <2>2. /\ \E o \in Outcomes : answered[o] > 0 /\ o.lat = h.minNs
        /\ \E o \in Outcomes : answered[o] > 0 /\ o.lat = h.maxNs
        /\ \A o \in Outcomes : answered[o] > 0 => h.minNs <= o.lat /\ o.lat <= h.maxNs
    BY <1>3, <2>1 DEF Summarises
  <2>3. PICK x \in Outcomes : answered[x] > 0 /\ x.lat = h.minNs
    BY <2>2
  <2>4. PICK y \in Outcomes : answered[y] > 0 /\ y.lat = h.maxNs
    BY <2>2
  <2> QED
    BY <2>2, <2>3, <2>4
<1>6. s.Min = Min({o.lat : o \in met}) /\ s.Max = Max({o.lat : o \in met})
  <2> DEFINE T == {o.lat : o \in met}
  <2>1. T \in SUBSET Nat
    BY OutcomesFinite
  <2>2. /\ a.lat \in T /\ \A y \in T : a.lat <= y
        /\ z.lat \in T /\ \A y \in T : y <= z.lat
    BY <1>5
  <2> HIDE DEF T
  <2>3. Min(T) = a.lat
    <3>1. Min(T) \in T /\ \A k \in T : Min(T) <= k
      BY <2>1, <2>2, MinNat
    <3>2. Min(T) <= a.lat /\ a.lat <= Min(T) /\ Min(T) \in Nat /\ a.lat \in Nat
      BY <2>1, <2>2, <3>1
    <3> QED
      BY <3>2
  <2>4. Max(T) = z.lat
    <3> DEFINE top == Max(T)
    <3>1. \E x \in T : \A y \in T : x >= y
      BY <2>1, <2>2
    <3>2. top \in T /\ \A y \in T : top >= y
      BY <3>1 DEF Max
    <3> HIDE DEF top
    <3>3. top = z.lat
      <4>1. top >= z.lat /\ top <= z.lat /\ top \in Nat /\ z.lat \in Nat
        BY <2>1, <2>2, <3>2
      <4> QED
        BY <4>1
    <3> QED
      BY <3>3 DEF top
  <2> QED
    BY <1>4, <1>5, <2>3, <2>4 DEF T
<1>7. s.Mean = SumFunction([o \in met |-> o.lat * answered[o]]) \div s.Count
  <2> DEFINE f == [o \in met |-> o.lat * answered[o]]
             g == Weighted(answered)
             only == [o \in Outcomes |-> IF o \in met THEN g[o] ELSE 0]
  <2>1. \A o \in Outcomes : g[o] \in Nat /\ g[o] = o.lat * answered[o]
    BY <1>0, OutcomesFinite DEF Weighted
  <2>2. IsFiniteSet(met) /\ met \in SUBSET Outcomes
    BY OutcomesFinite, FS_Subset
  <2>3. \A o \in Outcomes : only[o] = g[o]
    <3> SUFFICES ASSUME NEW o \in Outcomes, o \notin met PROVE g[o] = 0
      OBVIOUS
    <3>1. answered[o] = 0 /\ o.lat \in Nat
      BY <1>0, OutcomesFinite
    <3> QED
      BY <2>1, <3>1
  <2>4. SumFunction(f) = SumFunctionOnSet(f, met)
    BY DEF SumFunction
  <2>5. \A o \in met : g[o] \in Nat /\ f[o] = g[o]
    BY <2>1
  <2>6. SumFunctionOnSet(g, met) = SumFunctionOnSet(only, Outcomes)
    <3> HIDE DEF met, g
    <3> QED
      BY <2>1, <2>2, OutcomesFinite, SumFilter
  <2> HIDE DEF f, g, only, met
  <2>7. SumFunctionOnSet(f, met) = SumFunctionOnSet(g, met)
    BY <2>2, <2>5, SumSame
  <2>8. SumFunctionOnSet(only, Outcomes) = SumFunctionOnSet(g, Outcomes)
    BY <2>1, <2>3, OutcomesFinite, SumSame
  <2>9. SumFunctionOnSet(g, Outcomes) = h.sumNs
    BY <1>3 DEF Summarises, g
  <2>10. SumFunction(f) = h.sumNs
    BY <2>4, <2>6, <2>7, <2>8, <2>9
  <2> QED
    BY <1>4, <2>10 DEF f, met
<1>8. ASSUME NEW p \in Percentiles
      PROVE  IF BucketOf(TruePercentile(p)) = LastBucket THEN s.P[p] = s.Max
             ELSE /\ 2 * s.P[p] <= 2 * TruePercentile(p) + BucketWidth
                  /\ 2 * TruePercentile(p) <= 2 * s.P[p] + BucketWidth
  <2> DEFINE t == TruePercentile(p)
  <2> DEFINE upto(l) == SumFunctionOnSet(answered, {o \in Outcomes : o.lat <= l})
  <2>0. t = Min({l \in Latencies : 1000 * upto(l) >= p * h.count})
    BY <1>0, Zenon DEF TruePercentile, SampleAtMost, Met, h
  <2>a. ASSUME NEW l \in Latencies PROVE upto(l) \in Nat
    <3> DEFINE os == {o \in Outcomes : o.lat <= l}
    <3>1. IsFiniteSet(os) /\ \A o \in os : answered[o] \in Nat
      BY <1>0, OutcomesFinite, FS_Subset
    <3> HIDE DEF os
    <3>2. SumFunctionOnSet(answered, os) \in Nat
      BY <3>1, SumNat
    <3> QED
      BY <3>2 DEF os
  <2> HIDE DEF upto, h
  <2>c. {l \in Latencies : 1000 * upto(l) >= p * h.count}
          = {l \in Latencies : upto(l) >= Rank(h.count, p)}
    BY <1>2, <2>a, RankIsShare
  <2>1. t = Min({l \in Latencies : SumFunctionOnSet(answered, {o \in Outcomes : o.lat <= l})
                                     >= Rank(h.count, p)})
    BY <2>0, <2>c DEF upto
  <2> HIDE DEF t
  <2>2. IF BucketOf(t) = LastBucket THEN Percentile(h, p) = h.maxNs
        ELSE /\ 2 * Percentile(h, p) <= 2 * t + BucketWidth
             /\ 2 * t <= 2 * Percentile(h, p) + BucketWidth
    BY <1>0, <1>1, <1>2, <1>3, <2>1, PercentileRight
  <2> QED
    BY <1>4, <2>2 DEF t
<1> QED
  BY <1>6, <1>7, <1>8, Zenon DEF LatenciesMatchSamples, s, met

(* The latencies of a report from which no error was left out are those of   *)
(* the requests of the window: minimum, maximum and mean exactly, each       *)
(* percentile to half a bucket.  For any number of workers, any outcomes and *)
(* any width and number of buckets, in whatever order Merge combines the     *)
(* histograms of the workers.                                                *)
THEOREM LatenciesMatchSamplesHolds == LoadSpec => []LatenciesMatchSamples
BY SampleInvInit, SampleInvNext, LatenciesAreRight, PTL DEF LoadSpec

=============================================================================
