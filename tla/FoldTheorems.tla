---------------------------- MODULE FoldTheorems ----------------------------
(***************************************************************************)
(* Facts about sums and folds that the proofs of several modules share:    *)
(* induction over numbers and over the subsets of a finite set, recursive  *)
(* functions over those subsets, sums over sets, folds over sequences.     *)
(***************************************************************************)
EXTENDS Integers, FiniteSets, SequencesExt, TLAPS, FiniteSetTheorems, WellFoundedInduction

-----------------------------------------------------------------------------
(* Finite sums. The community modules define a sum by a recursive function   *)
(* over the subsets of a finite set whose body chooses an element; that such *)
(* a function exists and is unique is shown by collecting the numbers, or    *)
(* the subsets, for which the claim holds in a set and showing that the set  *)
(* is all of them.                                                           *)

(* The pairs of numbers in ascending order, which are well-founded.          *)
Below == {pair \in Nat \X Nat : pair[1] < pair[2]}

(* Every set of numbers that is not empty has a least one.                   *)
LEMMA LeastNumber ==
  ASSUME NEW S \in SUBSET Nat, S # {}
  PROVE  \E x \in S : \A y \in S : x <= y
<1>1. IsWellFoundedOn(Below, Nat)
  <2>1. Below = OpToRel(<, Nat)
    BY DEF Below, OpToRel
  <2> QED
    BY <2>1, NatLessThanWellFounded
<1>2. PICK x \in S : \A y \in S : ~ (<<y, x>> \in Below)
  BY <1>1, WFMin
<1>3. \A y \in S : ~ (y < x)
  BY <1>2 DEF Below
<1>4. x \in Nat /\ \A y \in S : y \in Nat
  OBVIOUS
<1> QED
  BY <1>3, <1>4

(* Induction over the numbers, for a set of numbers.                         *)
LEMMA Counting ==
  ASSUME NEW P \in SUBSET Nat, 0 \in P, \A n \in P : n + 1 \in P
  PROVE  P = Nat
<1>1. SUFFICES ASSUME Nat \ P # {}
               PROVE  FALSE
  OBVIOUS
<1>2. PICK x \in Nat \ P : \A y \in Nat \ P : x <= y
  BY <1>1, LeastNumber
<1>3. x # 0 /\ x - 1 \in Nat /\ x - 1 < x
  BY <1>2
<1>4. x - 1 \in P
  BY <1>2, <1>3
<1>5. (x - 1) + 1 = x
  BY <1>2
<1> QED
  BY <1>2, <1>4, <1>5

(* Induction over the subsets of a finite set, for a set of subsets.         *)
LEMMA Removing ==
  ASSUME NEW S, IsFiniteSet(S), NEW P \in SUBSET SUBSET S, {} \in P,
         \A s \in SUBSET S : s # {} /\ (\A x \in s : s \ {x} \in P) => s \in P
  PROVE  P = SUBSET S
<1> DEFINE N == {n \in Nat : \A s \in SUBSET S : Cardinality(s) = n => s \in P}
<1>1. \A s \in SUBSET S : IsFiniteSet(s) /\ Cardinality(s) \in Nat
  BY FS_Subset, FS_CardinalityType
<1>2. 0 \in N
  BY <1>1, FS_EmptySet
<1>3. ASSUME NEW n \in N
      PROVE  n + 1 \in N
  <2>1. n \in Nat /\ \A s \in SUBSET S : Cardinality(s) = n => s \in P
    OBVIOUS
  <2>2. ASSUME NEW s \in SUBSET S, Cardinality(s) = n + 1
        PROVE  s \in P
    <3>1. s # {}
      <4>1. Cardinality({}) = 0 /\ n + 1 # 0
        BY <2>1, FS_EmptySet
      <4> QED
        BY <2>2, <4>1
    <3>2. ASSUME NEW x \in s
          PROVE  s \ {x} \in P
      <4>1. Cardinality(s \ {x}) = (n + 1) - 1
        BY <1>1, <2>2, FS_RemoveElement
      <4>2. s \ {x} \in SUBSET S /\ (n + 1) - 1 = n
        BY <2>1
      <4> QED
        BY <2>1, <4>1, <4>2
    <3> QED
      BY <3>1, <3>2
  <2> QED
    BY <2>1, <2>2
<1>4. N = Nat
  <2> HIDE DEF N
  <2>1. N \in SUBSET Nat
    BY DEF N
  <2> QED
    BY <1>2, <1>3, <2>1, Counting
<1>5. \A s \in SUBSET S : Cardinality(s) \in N
  BY <1>1, <1>4
<1> QED
  BY <1>5

(* A function by recursion over the subsets of S: pk picks the element that  *)
(* is taken off, st combines it with the result for the rest.                *)
Picks(S, pk) == \A s \in SUBSET S : s # {} => pk[s] \in s
Steps(S, A, st) == \A a \in A, x \in S : st[<<a, x>>] \in A
Fold(S, A, base, pk, st, g) ==
  /\ g \in [SUBSET S -> A]
  /\ g = [s \in SUBSET S |-> IF s = {} THEN base ELSE st[<<g[s \ {pk[s]}], pk[s]>>]]

(* Such a function exists, whatever it picks.                                *)
LEMMA FoldExists ==
  ASSUME NEW S, IsFiniteSet(S), NEW A, NEW base \in A, NEW pk, NEW st,
         Picks(S, pk), Steps(S, A, st)
  PROVE  \E g : Fold(S, A, base, pk, st, g)
<1> DEFINE D(n) == {s \in SUBSET S : Cardinality(s) <= n}
           Of(g, s) == IF s = {} THEN base ELSE st[<<g[s \ {pk[s]}], pk[s]>>]
           N == {n \in Nat : \E g \in [D(n) -> A] : \A s \in D(n) : g[s] = Of(g, s)}
<1>1. \A s \in SUBSET S :
        IsFiniteSet(s) /\ Cardinality(s) \in Nat /\ Cardinality(s) <= Cardinality(S)
  BY FS_Subset, FS_CardinalityType
<1>2. 0 \in N
  <2>1. D(0) = {{}}
    BY <1>1, FS_EmptySet
  <2> DEFINE g == [s \in D(0) |-> base]
  <2>2. g \in [D(0) -> A] /\ \A s \in D(0) : g[s] = Of(g, s)
    BY <2>1
  <2> QED
    BY <2>2
<1>3. ASSUME NEW n \in N
      PROVE  n + 1 \in N
  <2>0. n \in Nat
    OBVIOUS
  <2>1. PICK g \in [D(n) -> A] : \A s \in D(n) : g[s] = Of(g, s)
    OBVIOUS
  <2> DEFINE h == [s \in D(n + 1) |-> Of(g, s)]
  <2>2. ASSUME NEW s \in D(n + 1), s # {}
        PROVE  pk[s] \in s /\ s \ {pk[s]} \in D(n)
    <3>1. pk[s] \in s /\ s \in SUBSET S /\ s \ {pk[s]} \in SUBSET S
      BY <2>2 DEF Picks
    <3>2. Cardinality(s \ {pk[s]}) = Cardinality(s) - 1
      BY <1>1, <3>1, FS_RemoveElement
    <3>3. Cardinality(s) <= n + 1 /\ Cardinality(s) \in Nat
      BY <1>1, <2>2
    <3> QED
      BY <2>0, <3>1, <3>2, <3>3
  <2>3. \A s \in D(n + 1) : Of(g, s) \in A
    BY <2>2 DEF Steps
  <2>4. h \in [D(n + 1) -> A]
    BY <2>3
  <2>5. ASSUME NEW s \in D(n)
        PROVE  s \in D(n + 1) /\ h[s] = g[s]
    <3>1. s \in D(n + 1)
      BY <2>0, <1>1
    <3> QED
      BY <3>1, <2>1
  <2>6. ASSUME NEW s \in D(n + 1)
        PROVE  h[s] = Of(h, s)
    BY <2>2, <2>5
  <2>7. n + 1 \in Nat
    BY <2>0
  <2> HIDE DEF h
  <2> QED
    BY <2>4, <2>6, <2>7
<1>4. N = Nat
  <2> HIDE DEF N
  <2>1. N \in SUBSET Nat
    BY DEF N
  <2> QED
    BY <1>2, <1>3, <2>1, Counting
<1>5. Cardinality(S) \in N
  BY <1>1, <1>4
<1>6. D(Cardinality(S)) = SUBSET S
  BY <1>1
<1>7. PICK g \in [SUBSET S -> A] : \A s \in SUBSET S : g[s] = Of(g, s)
  BY <1>5, <1>6
<1>8. g = [s \in SUBSET S |-> Of(g, s)]
  BY <1>7
<1> QED
  BY <1>7, <1>8 DEF Fold

(* v gives every element of S a number; Chosen is the element that the sum   *)
(* of the community modules takes off next; SumIn is the sum of v over S.    *)
Numbers(v, S) == \A x \in S : v[x] \in Int
Chosen(s) == CHOOSE x \in s : TRUE
Sums(S, v, g) ==
  g = [s \in SUBSET S |-> IF s = {} THEN 0 ELSE v[Chosen(s)] + g[s \ {Chosen(s)}]]
SumIn(v, S) == MapThenSumSet(LAMBDA x : v[x], S)
PartialSums(S, v, g) ==
  g \in [SUBSET S -> Int] /\ Sums(S, v, g) /\ \A s \in SUBSET S : SumIn(v, s) = g[s]

(* A choice from a set that is not empty is an element.                      *)
LEMMA ChosenIn ==
  ASSUME NEW s, s # {}
  PROVE  Chosen(s) \in s
  BY DEF Chosen

(* The recursive sum exists and is a number.                                 *)
LEMMA SumsExist ==
  ASSUME NEW S, IsFiniteSet(S), NEW v, Numbers(v, S)
  PROVE  \E g : g \in [SUBSET S -> Int] /\ Sums(S, v, g)
<1> DEFINE pk(T) == [s \in SUBSET T |-> Chosen(s)]
           st(T) == [p \in Int \X T |-> v[p[2]] + p[1]]
<1>1. ASSUME NEW T, Numbers(v, T), NEW g \in [SUBSET T -> Int]
      PROVE  Fold(T, Int, 0, pk(T), st(T), g) <=> Sums(T, v, g)
  <2>1. ASSUME NEW s \in SUBSET T, s # {}
        PROVE  st(T)[<<g[s \ {pk(T)[s]}], pk(T)[s]>>] = v[Chosen(s)] + g[s \ {Chosen(s)}]
    BY <2>1, ChosenIn
  <2>2. [s \in SUBSET T |-> IF s = {} THEN 0 ELSE st(T)[<<g[s \ {pk(T)[s]}], pk(T)[s]>>]]
          = [s \in SUBSET T |-> IF s = {} THEN 0 ELSE v[Chosen(s)] + g[s \ {Chosen(s)}]]
    BY <2>1
  <2> QED
    BY <2>2 DEF Fold, Sums
<1>2. PICK g : Fold(S, Int, 0, pk(S), st(S), g)
  <2> DEFINE p == pk(S)
             t == st(S)
  <2>1. Picks(S, p) /\ Steps(S, Int, t)
    BY ChosenIn DEF Picks, Steps, Numbers
  <2> HIDE DEF p, t
  <2>2. \E g : Fold(S, Int, 0, p, t, g)
    BY <2>1, FoldExists
  <2> QED
    BY <2>2 DEF p, t
<1>3. g \in [SUBSET S -> Int]
  BY <1>2 DEF Fold
<1> QED
  BY <1>1, <1>2, <1>3

(* On the subsets of both sets, two recursive sums agree.                    *)
LEMMA SumsUnique ==
  ASSUME NEW S, IsFiniteSet(S), NEW v, NEW T, S \subseteq T,
         NEW h, NEW k, Sums(S, v, k), Sums(T, v, h)
  PROVE  \A s \in SUBSET S : k[s] = h[s]
<1> DEFINE P == {s \in SUBSET S : k[s] = h[s]}
<1>1. {} \in P
  BY DEF Sums
<1>2. \A s \in SUBSET S : s # {} /\ (\A x \in s : s \ {x} \in P) => s \in P
  <2> SUFFICES ASSUME NEW s \in SUBSET S, s # {}, \A x \in s : s \ {x} \in P
               PROVE  s \in P
    OBVIOUS
  <2>1. k[s] = v[Chosen(s)] + k[s \ {Chosen(s)}]
    BY DEF Sums
  <2>2. h[s] = v[Chosen(s)] + h[s \ {Chosen(s)}]
    BY DEF Sums
  <2> QED
    BY <2>1, <2>2, ChosenIn
<1>3. P = SUBSET S
  <2> HIDE DEF P
  <2>1. P \in SUBSET SUBSET S
    BY DEF P
  <2> QED
    BY <1>1, <1>2, <2>1, Removing
<1> QED
  BY <1>3

(* SumIn is what the recursive sum computes.                                 *)
LEMMA TotalIsSum ==
  ASSUME NEW S, IsFiniteSet(S), NEW v, Numbers(v, S)
  PROVE  \E g : PartialSums(S, v, g)
<1>1. PICK g : g \in [SUBSET S -> Int] /\ Sums(S, v, g)
  BY SumsExist
<1>2. ASSUME NEW s \in SUBSET S
      PROVE  SumIn(v, s) = g[s]
  <2>1. IsFiniteSet(s) /\ Numbers(v, s)
    BY FS_Subset DEF Numbers
  <2> DEFINE it == CHOOSE k : Sums(s, v, k)
  <2>2. SumIn(v, s) = it[s]
    BY DEF SumIn, MapThenSumSet, MapThenFoldSet, Sums, Chosen
  <2>3. \E k : k \in [SUBSET s -> Int] /\ Sums(s, v, k)
    BY <2>1, SumsExist
  <2>4. Sums(s, v, it)
    BY <2>3
  <2> HIDE DEF it
  <2>5. \A r \in SUBSET s : it[r] = g[r]
    BY <1>1, <2>1, <2>4, SumsUnique
  <2> QED
    BY <2>2, <2>5
<1> QED
  BY <1>1, <1>2 DEF PartialSums

(* SumIn is a number, 0 for the empty set, and takes off the chosen element. *)
LEMMA TotalStep ==
  ASSUME NEW S, IsFiniteSet(S), NEW v, Numbers(v, S)
  PROVE  /\ SumIn(v, S) \in Int
         /\ SumIn(v, {}) = 0
         /\ S # {} => SumIn(v, S) = v[Chosen(S)] + SumIn(v, S \ {Chosen(S)})
<1>1. PICK g : PartialSums(S, v, g)
  BY TotalIsSum
<1>2. S # {} => g[S] = v[Chosen(S)] + g[S \ {Chosen(S)}]
  BY <1>1 DEF PartialSums, Sums
<1>3. g[{}] = 0
  BY <1>1 DEF PartialSums, Sums
<1>4. {} \in SUBSET S /\ S \in SUBSET S /\ S \ {Chosen(S)} \in SUBSET S
  OBVIOUS
<1> QED
  BY <1>1, <1>2, <1>3, <1>4 DEF PartialSums

(* SumIn takes off any element, not only the chosen one.                     *)
LEMMA TotalRemove ==
  ASSUME NEW S, IsFiniteSet(S), NEW v, Numbers(v, S), NEW y \in S
  PROVE  SumIn(v, S) = v[y] + SumIn(v, S \ {y})
<1> DEFINE P == {s \in SUBSET S : \A x \in s : SumIn(v, s) = v[x] + SumIn(v, s \ {x})}
<1>0. \A s \in SUBSET S : IsFiniteSet(s) /\ Numbers(v, s)
  BY FS_Subset DEF Numbers
<1>1. {} \in P
  OBVIOUS
<1>2. \A s \in SUBSET S : s # {} /\ (\A x \in s : s \ {x} \in P) => s \in P
  <2> SUFFICES ASSUME NEW s \in SUBSET S, s # {}, \A z \in s : s \ {z} \in P, NEW x \in s
               PROVE  SumIn(v, s) = v[x] + SumIn(v, s \ {x})
    OBVIOUS
  <2> DEFINE a == Chosen(s)
  <2>1. a \in s
    BY ChosenIn
  <2>2. SumIn(v, s) = v[a] + SumIn(v, s \ {a})
    BY <1>0, TotalStep
  <2> HIDE DEF a
  <2>3. CASE a = x
    BY <2>2, <2>3
  <2>4. CASE a # x
    <3>1. SumIn(v, s \ {a}) = v[x] + SumIn(v, (s \ {a}) \ {x})
      BY <2>1, <2>4
    <3>2. SumIn(v, s \ {x}) = v[a] + SumIn(v, (s \ {x}) \ {a})
      BY <2>1, <2>4
    <3>3. (s \ {a}) \ {x} = (s \ {x}) \ {a} /\ (s \ {a}) \ {x} \in SUBSET S
      OBVIOUS
    <3>4. SumIn(v, (s \ {a}) \ {x}) \in Int /\ v[a] \in Int /\ v[x] \in Int
      BY <1>0, <2>1, <3>3, TotalStep DEF Numbers
    <3> QED
      BY <2>2, <3>1, <3>2, <3>3, <3>4
  <2> QED
    BY <2>3, <2>4
<1>3. P = SUBSET S
  <2> HIDE DEF P
  <2>1. P \in SUBSET SUBSET S
    BY DEF P
  <2> QED
    BY <1>1, <1>2, <2>1, Removing
<1> QED
  BY <1>3

-----------------------------------------------------------------------------
(* Sums and folds over a sequence, from its first element to its last: the   *)
(* fold of the community modules takes off the largest index.                *)

(* The largest of the first k indices is k, and the others are the first k - *)
(* 1.                                                                        *)
LEMMA LargestUpTo ==
  ASSUME NEW k \in Nat, k # 0
  PROVE  Max(1 .. k) = k /\ (1 .. k) \ {k} = 1 .. (k - 1)
<1>1. k \in 1 .. k /\ \A y \in 1 .. k : k >= y
  OBVIOUS
<1>2. \A x \in 1 .. k : (\A y \in 1 .. k : x >= y) => x = k
  OBVIOUS
<1> QED
  BY <1>1, <1>2 DEF Max

(* The fold over the indices 1 .. n, which takes off the largest.            *)
LeftFold(n, A, base, st, g) ==
  /\ g \in [SUBSET (1 .. n) -> A]
  /\ g = [s \in SUBSET (1 .. n) |->
            IF s = {} THEN base ELSE st[<<g[s \ {Max(s)}], Max(s)>>]]

(* A set of indices that is not empty contains its largest.                  *)
LEMMA LargestExists ==
  ASSUME NEW n \in Nat, NEW s \in SUBSET (1 .. n), s # {}
  PROVE  Max(s) \in s
<1> DEFINE D == {n - x : x \in s}
<1>1. D \in SUBSET Nat /\ D # {}
  <2>1. \A x \in s : n - x \in Nat
    OBVIOUS
  <2> QED
    BY <2>1
<1>2. PICK d \in D : \A e \in D : d <= e
  BY <1>1, LeastNumber
<1>3. PICK x \in s : d = n - x
  OBVIOUS
<1>4. \A y \in s : x >= y
  <2> SUFFICES ASSUME NEW y \in s PROVE x >= y
    OBVIOUS
  <2>1. n - y \in D /\ x \in Int /\ y \in Int
    OBVIOUS
  <2> QED
    BY <1>2, <1>3, <2>1
<1> QED
  BY <1>4 DEF Max

(* The fold over the indices exists.                                         *)
LEMMA LeftFoldExists ==
  ASSUME NEW n \in Nat, NEW A, NEW base \in A, NEW st, Steps(1 .. n, A, st)
  PROVE  \E g : LeftFold(n, A, base, st, g)
<1> DEFINE pk == [s \in SUBSET (1 .. n) |-> Max(s)]
<1>1. Picks(1 .. n, pk) /\ IsFiniteSet(1 .. n)
  <2>1. \A s \in SUBSET (1 .. n) : s # {} => Max(s) \in s
    BY LargestExists
  <2>2. 1 \in Int /\ n \in Int
    OBVIOUS
  <2> QED
    BY <2>1, <2>2, FS_Interval DEF Picks
<1>2. PICK g : Fold(1 .. n, A, base, pk, st, g)
  <2> HIDE DEF pk
  <2> QED
    BY <1>1, FoldExists
<1>3. LeftFold(n, A, base, st, g)
  BY <1>2 DEF Fold, LeftFold
<1> QED
  BY <1>3

(* Sums over sequences.                                                      *)
Runs(n, w, F) == F[0] = 0 /\ \A k \in 1 .. n : F[k] = F[k - 1] + w[k]

(* Running totals of the same numbers agree.                                 *)
LEMMA RunsAgree ==
  ASSUME NEW n \in Nat, NEW v, NEW w, \A k \in 1 .. n : v[k] = w[k],
         NEW F, NEW G, Runs(n, v, F), Runs(n, w, G)
  PROVE  F[n] = G[n]
<1> DEFINE P == {k \in Nat : k <= n => F[k] = G[k]}
<1>1. 0 \in P
  BY DEF Runs
<1>2. ASSUME NEW k \in P
      PROVE  k + 1 \in P
  <2>1. CASE k + 1 <= n
    <3>1. k + 1 \in 1 .. n /\ (k + 1) - 1 = k /\ k <= n
      BY <2>1
    <3>2. F[k + 1] = F[k] + v[k + 1] /\ G[k + 1] = G[k] + w[k + 1]
      BY <3>1 DEF Runs
    <3> QED
      BY <3>1, <3>2
  <2> QED
    BY <2>1
<1>3. P = Nat
  <2> HIDE DEF P
  <2>1. P \in SUBSET Nat
    BY DEF P
  <2> QED
    BY <1>1, <1>2, <2>1, Counting
<1> QED
  BY <1>3

(* The fold that adds up numbers exists.                                     *)
LEMMA RunsExist ==
  ASSUME NEW n \in Nat, NEW w, Numbers(w, 1 .. n)
  PROVE  \E g : LeftFold(n, Int, 0, [p \in Int \X (1 .. n) |-> p[1] + w[p[2]]], g)
<1> DEFINE st == [p \in Int \X (1 .. n) |-> p[1] + w[p[2]]]
<1>1. Steps(1 .. n, Int, st)
  BY DEF Steps, Numbers
<1> DEFINE A == Int
           b == 0
<1>2. b \in A /\ Steps(1 .. n, A, st)
  BY <1>1
<1> HIDE DEF st, A, b
<1>3. \E g : LeftFold(n, A, b, st, g)
  BY <1>2, LeftFoldExists
<1> QED
  BY <1>3 DEF st, A, b

-----------------------------------------------------------------------------
(* Sums of a set that gains, loses or replaces an element.                   *)

(* A new element adds its number.                                            *)
LEMMA TotalAdd ==
  ASSUME NEW S, IsFiniteSet(S), NEW v, Numbers(v, S), NEW x, x \notin S, v[x] \in Int
  PROVE  SumIn(v, S \cup {x}) = v[x] + SumIn(v, S)
<1>1. IsFiniteSet(S \cup {x}) /\ Numbers(v, S \cup {x})
  BY FS_AddElement DEF Numbers
<1>2. x \in S \cup {x} /\ (S \cup {x}) \ {x} = S
  OBVIOUS
<1> QED
  BY <1>1, <1>2, TotalRemove

(* An element replaced by another changes the sum by their difference.       *)
LEMMA TotalReplace ==
  ASSUME NEW S, IsFiniteSet(S), NEW v, Numbers(v, S), NEW x \in S, NEW y, y \notin S \ {x},
         v[y] \in Int
  PROVE  SumIn(v, (S \ {x}) \cup {y}) = (SumIn(v, S) - v[x]) + v[y]
<1>1. IsFiniteSet(S \ {x}) /\ Numbers(v, S \ {x})
  BY FS_RemoveElement DEF Numbers
<1>2. SumIn(v, (S \ {x}) \cup {y}) = v[y] + SumIn(v, S \ {x})
  BY <1>1, TotalAdd
<1>3. SumIn(v, S) = v[x] + SumIn(v, S \ {x})
  BY TotalRemove
<1>4. SumIn(v, S) \in Int /\ SumIn(v, S \ {x}) \in Int /\ v[x] \in Int
  BY <1>1, TotalStep DEF Numbers
<1> QED
  BY <1>2, <1>3, <1>4

(* The sum over two disjoint sets is the sum of the sums.                    *)
LEMMA TotalUnion ==
  ASSUME NEW S, IsFiniteSet(S), NEW v, Numbers(v, S), NEW T, IsFiniteSet(T), Numbers(v, T),
         S \cap T = {}
  PROVE  SumIn(v, S \cup T) = SumIn(v, S) + SumIn(v, T)
<1> DEFINE P == {s \in SUBSET S : SumIn(v, s \cup T) = SumIn(v, s) + SumIn(v, T)}
<1>1. {} \in P
  <2>1. {} \cup T = T /\ SumIn(v, T) \in Int /\ SumIn(v, {}) = 0
    BY TotalStep
  <2> QED
    BY <2>1
<1>2. \A s \in SUBSET S : s # {} /\ (\A x \in s : s \ {x} \in P) => s \in P
  <2> SUFFICES ASSUME NEW s \in SUBSET S, s # {}, \A x \in s : s \ {x} \in P
               PROVE  SumIn(v, s \cup T) = SumIn(v, s) + SumIn(v, T)
    OBVIOUS
  <2>1. PICK x \in s : TRUE
    OBVIOUS
  <2>2. /\ IsFiniteSet(s) /\ Numbers(v, s) /\ IsFiniteSet(s \cup T) /\ Numbers(v, s \cup T)
        /\ IsFiniteSet(s \ {x}) /\ Numbers(v, s \ {x})
    <3>1. IsFiniteSet(s) /\ s \subseteq S
      BY FS_Subset
    <3>2. IsFiniteSet(s \cup T) /\ IsFiniteSet(s \ {x})
      BY <3>1, FS_Union, FS_RemoveElement
    <3>3. Numbers(v, s) /\ Numbers(v, s \cup T) /\ Numbers(v, s \ {x})
      BY <3>1 DEF Numbers
    <3> QED
      BY <3>1, <3>2, <3>3
  <2>3. SumIn(v, s) = v[x] + SumIn(v, s \ {x})
    BY <2>2, TotalRemove
  <2>4. SumIn(v, s \cup T) = v[x] + SumIn(v, (s \cup T) \ {x})
    BY <2>2, TotalRemove
  <2>5. (s \cup T) \ {x} = (s \ {x}) \cup T
    OBVIOUS
  <2>6. SumIn(v, (s \ {x}) \cup T) = SumIn(v, s \ {x}) + SumIn(v, T)
    OBVIOUS
  <2>7. v[x] \in Int /\ SumIn(v, s \ {x}) \in Int /\ SumIn(v, T) \in Int
    <3>1. x \in S
      OBVIOUS
    <3> QED
      BY <2>2, <3>1, TotalStep DEF Numbers
  <2> DEFINE a == SumIn(v, s \ {x})
             b == SumIn(v, T)
             c == v[x]
  <2>8. SumIn(v, s \cup T) = c + (a + b) /\ SumIn(v, s) = c + a /\ SumIn(v, T) = b
    BY <2>3, <2>4, <2>5, <2>6
  <2>9. a \in Int /\ b \in Int /\ c \in Int
    BY <2>7
  <2> HIDE DEF a, b, c
  <2> QED
    BY <2>8, <2>9
<1>3. P = SUBSET S
  <2> HIDE DEF P
  <2>1. P \in SUBSET SUBSET S
    BY DEF P
  <2> QED
    BY <1>1, <1>2, <2>1, Removing
<1> QED
  BY <1>3

(* A one-to-one image whose elements keep their numbers keeps the sum.       *)
LEMMA TotalMoved ==
  ASSUME NEW S, IsFiniteSet(S), NEW v, Numbers(v, S), NEW w, NEW h,
         \A x, y \in S : h[x] = h[y] => x = y, \A x \in S : w[h[x]] = v[x]
  PROVE  SumIn(w, {h[x] : x \in S}) = SumIn(v, S)
<1> DEFINE Im(s) == {h[x] : x \in s}
           P == {s \in SUBSET S : IsFiniteSet(Im(s)) /\ SumIn(w, Im(s)) = SumIn(v, s)}
<1>1. {} \in P
  <2>1. Im({}) = {}
    OBVIOUS
  <2>2. IsFiniteSet({}) /\ Numbers(w, {}) /\ Numbers(v, {})
    BY FS_EmptySet DEF Numbers
  <2>3. SumIn(w, {}) = 0 /\ SumIn(v, {}) = 0
    BY <2>2, TotalStep
  <2> QED
    BY <2>1, <2>2, <2>3
<1>2. \A s \in SUBSET S : s # {} /\ (\A x \in s : s \ {x} \in P) => s \in P
  <2> SUFFICES ASSUME NEW s \in SUBSET S, s # {}, \A x \in s : s \ {x} \in P
               PROVE  IsFiniteSet(Im(s)) /\ SumIn(w, Im(s)) = SumIn(v, s)
    OBVIOUS
  <2>1. PICK x \in s : TRUE
    OBVIOUS
  <2>2. IsFiniteSet(s) /\ Numbers(v, s)
    BY FS_Subset DEF Numbers
  <2>3. SumIn(v, s) = v[x] + SumIn(v, s \ {x})
    BY <2>2, TotalRemove
  <2>4. Im(s) = Im(s \ {x}) \cup {h[x]} /\ h[x] \notin Im(s \ {x})
    OBVIOUS
  <2>5. IsFiniteSet(Im(s \ {x})) /\ SumIn(w, Im(s \ {x})) = SumIn(v, s \ {x})
    OBVIOUS
  <2>6. Numbers(w, Im(s \ {x})) /\ w[h[x]] \in Int
    BY DEF Numbers
  <2>7. IsFiniteSet(Im(s))
    <3> DEFINE I == Im(s \ {x})
               y == h[x]
    <3>1. IsFiniteSet(I)
      BY <2>5
    <3>2. Im(s) = I \cup {y}
      BY <2>4
    <3> HIDE DEF I, y
    <3>3. IsFiniteSet(I \cup {y})
      BY <3>1, FS_AddElement
    <3> QED
      BY <3>2, <3>3
  <2>8. SumIn(w, Im(s)) = w[h[x]] + SumIn(w, Im(s \ {x}))
    <3> DEFINE I == Im(s \ {x})
               y == h[x]
    <3>1. IsFiniteSet(I) /\ Numbers(w, I) /\ y \notin I /\ w[y] \in Int
      BY <2>4, <2>5, <2>6
    <3>2. Im(s) = I \cup {y}
      BY <2>4
    <3> HIDE DEF I, y
    <3>3. SumIn(w, I \cup {y}) = w[y] + SumIn(w, I)
      BY <3>1, TotalAdd
    <3> QED
      BY <3>2, <3>3 DEF I, y
  <2> QED
    BY <2>3, <2>5, <2>7, <2>8
<1>3. P = SUBSET S
  <2> HIDE DEF P
  <2>1. P \in SUBSET SUBSET S
    BY DEF P
  <2> QED
    BY <1>1, <1>2, <2>1, Removing
<1> QED
  BY <1>3

(* A sum of naturals is a natural.                                           *)
LEMMA TotalNat ==
  ASSUME NEW S, IsFiniteSet(S), NEW v, \A x \in S : v[x] \in Nat
  PROVE  SumIn(v, S) \in Nat
<1> DEFINE P == {s \in SUBSET S : SumIn(v, s) \in Nat}
<1>1. {} \in P
  <2>1. IsFiniteSet({}) /\ Numbers(v, {})
    BY FS_EmptySet DEF Numbers
  <2> QED
    BY <2>1, TotalStep
<1>2. \A s \in SUBSET S : s # {} /\ (\A x \in s : s \ {x} \in P) => s \in P
  <2> SUFFICES ASSUME NEW s \in SUBSET S, s # {}, \A x \in s : s \ {x} \in P
               PROVE  SumIn(v, s) \in Nat
    OBVIOUS
  <2>1. PICK x \in s : TRUE
    OBVIOUS
  <2>2. IsFiniteSet(s) /\ Numbers(v, s)
    BY FS_Subset DEF Numbers
  <2>3. SumIn(v, s) = v[x] + SumIn(v, s \ {x})
    BY <2>2, TotalRemove
  <2>4. v[x] \in Nat /\ SumIn(v, s \ {x}) \in Nat
    OBVIOUS
  <2> QED
    BY <2>3, <2>4
<1>3. P = SUBSET S
  <2> HIDE DEF P
  <2>1. P \in SUBSET SUBSET S
    BY DEF P
  <2> QED
    BY <1>1, <1>2, <2>1, Removing
<1> QED
  BY <1>3

(* A sum of zeros is zero.                                                   *)
LEMMA TotalZero ==
  ASSUME NEW S, IsFiniteSet(S), NEW v, \A x \in S : v[x] = 0
  PROVE  SumIn(v, S) = 0
<1> DEFINE P == {s \in SUBSET S : SumIn(v, s) = 0}
<1>0. \A s \in SUBSET S : IsFiniteSet(s) /\ Numbers(v, s)
  BY FS_Subset DEF Numbers
<1>1. {} \in P
  BY <1>0, TotalStep
<1>2. \A s \in SUBSET S : s # {} /\ (\A x \in s : s \ {x} \in P) => s \in P
  <2> SUFFICES ASSUME NEW s \in SUBSET S, s # {}, \A x \in s : s \ {x} \in P
               PROVE  SumIn(v, s) = 0
    OBVIOUS
  <2>1. PICK x \in s : TRUE
    OBVIOUS
  <2>3. SumIn(v, s) = v[x] + SumIn(v, s \ {x})
    BY <1>0, TotalRemove
  <2>4. v[x] = 0 /\ SumIn(v, s \ {x}) = 0
    OBVIOUS
  <2> QED
    BY <2>3, <2>4
<1>3. P = SUBSET S
  <2> HIDE DEF P
  <2>1. P \in SUBSET SUBSET S
    BY DEF P
  <2> QED
    BY <1>1, <1>2, <2>1, Removing
<1> QED
  BY <1>3

(* Two sums of the same numbers agree.                                       *)
LEMMA SumsSame ==
  ASSUME NEW S, IsFiniteSet(S), NEW v, Numbers(v, S), NEW w, \A x \in S : w[x] = v[x]
  PROVE  SumIn(w, S) = SumIn(v, S) /\ Numbers(w, S)
<1> DEFINE h == [x \in S |-> x]
<1>1. (\A x, y \in S : h[x] = h[y] => x = y) /\ (\A x \in S : w[h[x]] = v[x])
  OBVIOUS
<1>2. {h[x] : x \in S} = S
  OBVIOUS
<1> HIDE DEF h
<1>3. SumIn(w, {h[x] : x \in S}) = SumIn(v, S)
  BY <1>1, TotalMoved
<1> QED
  BY <1>2, <1>3 DEF Numbers

(* One number changed changes the sum by the difference.                     *)
LEMMA SumChange ==
  ASSUME NEW S, IsFiniteSet(S), NEW v, Numbers(v, S), NEW w, Numbers(w, S),
         NEW x \in S, \A y \in S \ {x} : w[y] = v[y]
  PROVE  SumIn(w, S) = (SumIn(v, S) - v[x]) + w[x]
<1> DEFINE T == S \ {x}
<1>1. IsFiniteSet(T) /\ Numbers(v, T) /\ \A y \in T : w[y] = v[y]
  BY FS_RemoveElement DEF Numbers
<1>2. SumIn(v, S) = v[x] + SumIn(v, T) /\ SumIn(w, S) = w[x] + SumIn(w, T)
  BY TotalRemove
<1> HIDE DEF T
<1>3. SumIn(w, T) = SumIn(v, T) /\ SumIn(v, T) \in Int
  BY <1>1, SumsSame, TotalStep
<1>4. v[x] \in Int /\ w[x] \in Int
  BY DEF Numbers
<1> QED
  BY <1>2, <1>3, <1>4

(* What a function makes of a finite set is finite.                          *)
LEMMA ImageFinite ==
  ASSUME NEW S, IsFiniteSet(S), NEW f
  PROVE  IsFiniteSet({f[x] : x \in S})
<1> DEFINE T == {f[x] : x \in S}
           g == [x \in S |-> f[x]]
<1>1. g \in Surjection(S, T)
  BY DEF Surjection
<1> HIDE DEF T, g
<1>2. IsFiniteSet(T)
  BY <1>1, FS_Surjection
<1> QED
  BY <1>2 DEF T

-----------------------------------------------------------------------------
(* Sums over a set that the community modules list first: SetToSeq chooses a *)
(* list of the elements, and FoldLeft adds up along it.                      *)

(* k is the recursive function by which FoldLeft adds up w[1], ..., w[n].    *)
LeftSums(n, w, k) ==
  k = [s \in SUBSET (1 .. n) |-> IF s = {} THEN 0 ELSE k[s \ {Max(s)}] + w[Max(s)]]

(* It exists, and computes the sum.                                          *)
LEMMA LeftSumsAdd ==
  ASSUME NEW n \in Nat, NEW w, Numbers(w, 1 .. n)
  PROVE  /\ \E k : LeftSums(n, w, k)
         /\ \A k : LeftSums(n, w, k) => k[1 .. n] = SumIn(w, 1 .. n)
<1>0. IsFiniteSet(1 .. n)
  <2>1. 1 \in Int /\ n \in Int
    OBVIOUS
  <2> QED
    BY <2>1, FS_Interval
<1>1. \E k : LeftSums(n, w, k)
  <2> DEFINE st == [p \in Int \X (1 .. n) |-> p[1] + w[p[2]]]
  <2>1. PICK g : LeftFold(n, Int, 0, st, g)
    BY RunsExist
  <2>2. ASSUME NEW s \in SUBSET (1 .. n), s # {}
        PROVE  st[<<g[s \ {Max(s)}], Max(s)>>] = g[s \ {Max(s)}] + w[Max(s)]
    <3>1. Max(s) \in 1 .. n /\ s \ {Max(s)} \in SUBSET (1 .. n)
      BY <2>2, LargestExists
    <3>2. g[s \ {Max(s)}] \in Int
      BY <2>1, <3>1 DEF LeftFold
    <3> QED
      BY <3>1, <3>2
  <2>3. g = [s \in SUBSET (1 .. n) |->
               IF s = {} THEN 0 ELSE st[<<g[s \ {Max(s)}], Max(s)>>]]
    BY <2>1 DEF LeftFold
  <2> HIDE DEF st
  <2>4. [s \in SUBSET (1 .. n) |-> IF s = {} THEN 0 ELSE st[<<g[s \ {Max(s)}], Max(s)>>]]
        = [s \in SUBSET (1 .. n) |-> IF s = {} THEN 0 ELSE g[s \ {Max(s)}] + w[Max(s)]]
    BY <2>2
  <2> QED
    BY <2>3, <2>4 DEF LeftSums
<1>2. ASSUME NEW k, LeftSums(n, w, k)
      PROVE  k[1 .. n] = SumIn(w, 1 .. n)
  <2> DEFINE P == {s \in SUBSET (1 .. n) : k[s] = SumIn(w, s)}
  <2>0. \A s \in SUBSET (1 .. n) : IsFiniteSet(s) /\ Numbers(w, s)
    BY <1>0, FS_Subset DEF Numbers
  <2>1. {} \in P
    <3>1. k[{}] = 0
      BY <1>2 DEF LeftSums
    <3> QED
      BY <1>0, <3>1, TotalStep
  <2>2. \A s \in SUBSET (1 .. n) : s # {} /\ (\A x \in s : s \ {x} \in P) => s \in P
    <3> SUFFICES ASSUME NEW s \in SUBSET (1 .. n), s # {}, \A x \in s : s \ {x} \in P
                 PROVE  k[s] = SumIn(w, s)
      OBVIOUS
    <3>1. Max(s) \in s
      BY LargestExists
    <3>2. k[s] = k[s \ {Max(s)}] + w[Max(s)]
      BY <1>2 DEF LeftSums
    <3>3. SumIn(w, s) = w[Max(s)] + SumIn(w, s \ {Max(s)})
      BY <2>0, <3>1, TotalRemove
    <3>4. k[s \ {Max(s)}] = SumIn(w, s \ {Max(s)})
      BY <3>1
    <3>5. w[Max(s)] \in Int /\ SumIn(w, s \ {Max(s)}) \in Int
      BY <2>0, <3>1, TotalStep DEF Numbers
    <3> QED
      BY <3>2, <3>3, <3>4, <3>5
  <2>3. P = SUBSET (1 .. n)
    <3> HIDE DEF P
    <3>1. P \in SUBSET SUBSET (1 .. n)
      BY DEF P
    <3> QED
      BY <1>0, <2>1, <2>2, <3>1, Removing
  <2> QED
    BY <2>3
<1> QED
  BY <1>1, <1>2

(* SetToSeq lists every element of a finite set, and each once.              *)
LEMMA SetIsListed ==
  ASSUME NEW S, IsFiniteSet(S)
  PROVE  LET n == Cardinality(S)
             q == SetToSeq(S)
         IN  /\ n \in Nat /\ q \in [1 .. n -> S]
             /\ \A i, j \in 1 .. n : q[i] = q[j] => i = j
             /\ {q[i] : i \in 1 .. n} = S
<1> DEFINE n == Cardinality(S)
           q == SetToSeq(S)
<1>1. n \in Nat /\ IsFiniteSet(1 .. n) /\ Cardinality(1 .. n) = n
  <2>1. n \in Nat
    BY FS_CardinalityType
  <2> HIDE DEF n
  <2>2. 1 \in Int /\ n \in Int /\ (IF 1 > n THEN 0 ELSE n - 1 + 1) = n
    BY <2>1
  <2> QED
    BY <2>1, <2>2, FS_Interval
<1>2. \E f \in [1 .. n -> S] : IsInjective(f)
  BY FS_CardinalityType DEF ExistsBijection, Bijection, Injection
<1>3. q \in [1 .. n -> S] /\ IsInjective(q)
  BY <1>2 DEF SetToSeq
<1>4. q \in Injection(1 .. n, S)
  BY <1>3 DEF Injection
<1>5. q \in Surjection(1 .. n, S)
  BY <1>1, <1>4, FS_Injection
<1> HIDE DEF n, q
<1>6. DOMAIN q = 1 .. n
  BY <1>3
<1>7. \A i, j \in 1 .. n : q[i] = q[j] => i = j
  BY <1>3, <1>6 DEF IsInjective
<1>8. {q[i] : i \in 1 .. n} = S
  BY <1>3, <1>5 DEF Surjection
<1> QED
  BY <1>1, <1>3, <1>7, <1>8 DEF n, q

(* Adding up along that list gives the sum over the set.                     *)
LEMMA ListedSum ==
  ASSUME NEW S, IsFiniteSet(S), NEW v, Numbers(v, S),
         NEW w, \A i \in 1 .. Cardinality(S) : w[i] = v[SetToSeq(S)[i]]
  PROVE  /\ \E k : LeftSums(Cardinality(S), w, k)
         /\ \A k : LeftSums(Cardinality(S), w, k) => k[1 .. Cardinality(S)] = SumIn(v, S)
<1> DEFINE n == Cardinality(S)
           q == SetToSeq(S)
<1>1. /\ n \in Nat /\ q \in [1 .. n -> S]
      /\ \A i, j \in 1 .. n : q[i] = q[j] => i = j
      /\ {q[i] : i \in 1 .. n} = S
  BY SetIsListed
<1>2. \A i \in 1 .. n : w[i] = v[q[i]]
  OBVIOUS
<1> HIDE DEF n, q
<1>3. Numbers(w, 1 .. n)
  BY <1>1, <1>2 DEF Numbers
<1>4. IsFiniteSet(1 .. n)
  <2>1. 1 \in Int /\ n \in Int
    BY <1>1
  <2> QED
    BY <2>1, FS_Interval
<1> DEFINE D == 1 .. n
<1>5. SumIn(v, {q[x] : x \in D}) = SumIn(w, D)
  <2>1. /\ IsFiniteSet(D) /\ Numbers(w, D)
        /\ \A x, y \in D : q[x] = q[y] => x = y
        /\ \A x \in D : v[q[x]] = w[x]
    BY <1>1, <1>2, <1>3, <1>4
  <2> HIDE DEF D
  <2> QED
    BY <2>1, TotalMoved
<1>6. SumIn(v, S) = SumIn(w, 1 .. n)
  BY <1>1, <1>5
<1>7. (\E k : LeftSums(n, w, k)) /\ (\A k : LeftSums(n, w, k) => k[1 .. n] = SumIn(w, 1 .. n))
  BY <1>1, <1>3, LeftSumsAdd
<1> QED
  BY <1>6, <1>7 DEF n

-----------------------------------------------------------------------------
(* A fold over the indices 1 .. n, one index after the other: h is any       *)
(* function that does what the definition of the fold says.                  *)
Unfolds(n, A, base, st, h) ==
  /\ h[{}] = base
  /\ \A s \in SUBSET (1 .. n) : s # {} /\ h[s \ {Max(s)}] \in A =>
       h[s] = st[<<h[s \ {Max(s)}], Max(s)>>]
Turns(n, A, base, st, F) ==
  /\ F \in [0 .. n -> A] /\ F[0] = base
  /\ \A k \in 1 .. n : F[k] = st[<<F[k - 1], k>>]

(* A fold along a list, as FoldLeft unfolds it, is a sequence of turns, each *)
(* a step from the one before.                                               *)
LEMMA FoldTurns ==
  ASSUME NEW n \in Nat, NEW A, NEW base \in A, NEW st, Steps(1 .. n, A, st),
         NEW h, Unfolds(n, A, base, st, h)
  PROVE  \E F : Turns(n, A, base, st, F) /\ F[n] = h[1 .. n]
<1> DEFINE F == [k \in 0 .. n |-> h[1 .. k]]
           P == {k \in Nat : k <= n => F[k] \in A /\ (k # 0 => F[k] = st[<<F[k - 1], k>>])}
<1>0. F[0] = base
  <2>1. 1 .. 0 = {} /\ 0 \in 0 .. n
    OBVIOUS
  <2> QED
    BY <2>1 DEF Unfolds
<1>1. 0 \in P
  BY <1>0
<1>2. ASSUME NEW k \in P
      PROVE  k + 1 \in P
  <2>1. CASE k + 1 <= n
    <3>1. k \in Nat /\ k + 1 \in Nat /\ k + 1 # 0 /\ (k + 1) - 1 = k /\ k + 1 \in 1 .. n /\ k \in 0 .. n
          /\ k + 1 \in 0 .. n
      BY <2>1
    <3>2. Max(1 .. (k + 1)) = k + 1 /\ (1 .. (k + 1)) \ {k + 1} = 1 .. k
      BY <3>1, LargestUpTo
    <3>3. 1 .. (k + 1) \in SUBSET (1 .. n) /\ 1 .. (k + 1) # {}
      <4>1. 1 \in 1 .. (k + 1) /\ \A x \in 1 .. (k + 1) : x \in 1 .. n
        BY <3>1
      <4> QED
        BY <4>1
    <3>4. F[k] \in A /\ F[k] = h[1 .. k]
      BY <3>1
    <3>5. h[1 .. (k + 1)] = st[<<h[1 .. k], k + 1>>]
      BY <3>2, <3>3, <3>4 DEF Unfolds
    <3>6. F[k + 1] = st[<<F[k], k + 1>>]
      BY <3>1, <3>4, <3>5
    <3>7. st[<<F[k], k + 1>>] \in A
      BY <3>1, <3>4 DEF Steps
    <3> HIDE DEF F
    <3> QED
      BY <3>1, <3>6, <3>7
  <2>2. CASE ~(k + 1 <= n)
    BY <2>2
  <2> QED
    BY <2>1, <2>2
<1>3. P = Nat
  <2> HIDE DEF P
  <2>1. P \in SUBSET Nat
    BY DEF P
  <2> QED
    BY <1>1, <1>2, <2>1, Counting
<1> HIDE DEF F
<1>4. \A k \in Nat : k <= n => F[k] \in A /\ (k # 0 => F[k] = st[<<F[k - 1], k>>])
  BY <1>3
<1> HIDE DEF P
<1>5. F \in [0 .. n -> A]
  <2>1. ASSUME NEW k \in 0 .. n
        PROVE  F[k] \in A
    <3>1. k \in Nat /\ k <= n
      OBVIOUS
    <3> QED
      BY <1>4, <3>1
  <2> QED
    BY <2>1 DEF F
<1>6. \A k \in 1 .. n : F[k] = st[<<F[k - 1], k>>]
  BY <1>4
<1>7. F[n] = h[1 .. n]
  BY DEF F
<1> QED
  BY <1>0, <1>5, <1>6, <1>7 DEF Turns

(* The numbers 1 .. n, and the domain of a list.                             *)
LEMMA UpToFinite ==
  ASSUME NEW n \in Nat
  PROVE  IsFiniteSet(1 .. n) /\ Cardinality(1 .. n) = n
<1>1. 1 \in Int /\ n \in Int
  OBVIOUS
<1> QED
  BY <1>1, FS_Interval

(* The sum over one element,                                                 *)
LEMMA SumSingle ==
  ASSUME NEW x, NEW v, v[x] \in Int
  PROVE  SumIn(v, {x}) = v[x]
<1>1. IsFiniteSet({x}) /\ Numbers(v, {x}) /\ {x} \ {x} = {} /\ x \in {x}
  BY FS_Singleton DEF Numbers
<1>0. v[x] + 0 = v[x]
  OBVIOUS
<1>2. SumIn(v, {x}) = v[x] + SumIn(v, {x} \ {x})
  BY <1>1, TotalRemove
<1>3. SumIn(v, {}) = 0
  BY <1>1, TotalStep
<1> QED
  BY <1>0, <1>1, <1>2, <1>3

(* Sums that agree term by term, and a factor of every term.                 *)
LEMMA SumFactor ==
  ASSUME NEW S, IsFiniteSet(S), NEW v, Numbers(v, S), NEW w, NEW k \in Int,
         \A x \in S : w[x] = v[x] * k
  PROVE  SumIn(w, S) = SumIn(v, S) * k
<1> DEFINE P == {s \in SUBSET S : SumIn(w, s) = SumIn(v, s) * k}
<1>0. \A s \in SUBSET S : IsFiniteSet(s) /\ Numbers(v, s) /\ Numbers(w, s)
  BY FS_Subset DEF Numbers
<1>1. {} \in P
  <2>1. SumIn(v, {}) = 0 /\ SumIn(w, {}) = 0
    BY <1>0, TotalStep
  <2> QED
    BY <2>1
<1>2. \A s \in SUBSET S : s # {} /\ (\A x \in s : s \ {x} \in P) => s \in P
  <2> SUFFICES ASSUME NEW s \in SUBSET S, s # {}, \A x \in s : s \ {x} \in P
               PROVE  SumIn(w, s) = SumIn(v, s) * k
    OBVIOUS
  <2>1. PICK x \in s : TRUE
    OBVIOUS
  <2> DEFINE a == v[x]
             b == SumIn(v, s \ {x})
  <2>2. SumIn(v, s) = a + b /\ SumIn(w, s) = w[x] + SumIn(w, s \ {x})
    BY <1>0, <2>1, TotalRemove
  <2>3. w[x] = a * k /\ SumIn(w, s \ {x}) = b * k
    BY <2>1
  <2>4. a \in Int /\ b \in Int
    BY <1>0, TotalStep DEF Numbers
  <2> HIDE DEF a, b
  <2>5. a * k + b * k = (a + b) * k
    BY <2>4
  <2> QED
    BY <2>2, <2>3, <2>5
<1>3. P = SUBSET S
  <2> HIDE DEF P
  <2>1. P \in SUBSET SUBSET S
    BY DEF P
  <2> QED
    BY <1>1, <1>2, <2>1, Removing
<1> QED
  BY <1>3

(* A sum is no less than one of no larger terms, and more if one is larger.  *)
LEMMA SumAtMost ==
  ASSUME NEW S, IsFiniteSet(S), NEW v, Numbers(v, S), NEW w, Numbers(w, S),
         \A x \in S : v[x] <= w[x]
  PROVE  SumIn(v, S) <= SumIn(w, S)
<1> DEFINE P == {s \in SUBSET S : SumIn(v, s) <= SumIn(w, s)}
<1>0. \A s \in SUBSET S : IsFiniteSet(s) /\ Numbers(v, s) /\ Numbers(w, s)
  BY FS_Subset DEF Numbers
<1>1. {} \in P
  <2>1. SumIn(v, {}) = 0 /\ SumIn(w, {}) = 0
    BY <1>0, TotalStep
  <2> QED
    BY <2>1
<1>2. \A s \in SUBSET S : s # {} /\ (\A x \in s : s \ {x} \in P) => s \in P
  <2> SUFFICES ASSUME NEW s \in SUBSET S, s # {}, \A x \in s : s \ {x} \in P
               PROVE  SumIn(v, s) <= SumIn(w, s)
    OBVIOUS
  <2>1. PICK x \in s : TRUE
    OBVIOUS
  <2>2. SumIn(v, s) = v[x] + SumIn(v, s \ {x}) /\ SumIn(w, s) = w[x] + SumIn(w, s \ {x})
    BY <1>0, <2>1, TotalRemove
  <2>3. v[x] <= w[x] /\ SumIn(v, s \ {x}) <= SumIn(w, s \ {x})
    BY <2>1
  <2>4. v[x] \in Int /\ w[x] \in Int /\ SumIn(v, s \ {x}) \in Int /\ SumIn(w, s \ {x}) \in Int
    BY <1>0, TotalStep DEF Numbers
  <2> QED
    BY <2>2, <2>3, <2>4
<1>3. P = SUBSET S
  <2> HIDE DEF P
  <2>1. P \in SUBSET SUBSET S
    BY DEF P
  <2> QED
    BY <1>1, <1>2, <2>1, Removing
<1> QED
  BY <1>3

(* and of numbers no greater and once smaller: it is smaller.                *)
LEMMA SumBelow ==
  ASSUME NEW S, IsFiniteSet(S), NEW v, Numbers(v, S), NEW w, Numbers(w, S),
         \A x \in S : v[x] <= w[x], NEW y \in S, v[y] < w[y]
  PROVE  SumIn(v, S) < SumIn(w, S)
<1>1. IsFiniteSet(S \ {y}) /\ Numbers(v, S \ {y}) /\ Numbers(w, S \ {y}) /\ \A x \in S \ {y} : v[x] <= w[x]
  BY FS_RemoveElement DEF Numbers
<1>2. SumIn(v, S \ {y}) <= SumIn(w, S \ {y})
  BY <1>1, SumAtMost
<1>3. SumIn(v, S) = v[y] + SumIn(v, S \ {y}) /\ SumIn(w, S) = w[y] + SumIn(w, S \ {y})
  BY TotalRemove
<1>4. v[y] \in Int /\ w[y] \in Int /\ SumIn(v, S \ {y}) \in Int /\ SumIn(w, S \ {y}) \in Int
  BY <1>1, TotalStep DEF Numbers
<1> QED
  BY <1>2, <1>3, <1>4

(* The sum of sums is the sum of the terms' sums.                            *)
LEMMA SumsAdd ==
  ASSUME NEW S, IsFiniteSet(S), NEW v, Numbers(v, S), NEW w, Numbers(w, S),
         NEW u, \A x \in S : u[x] = v[x] + w[x]
  PROVE  SumIn(u, S) = SumIn(v, S) + SumIn(w, S)
<1> DEFINE P == {s \in SUBSET S : SumIn(u, s) = SumIn(v, s) + SumIn(w, s)}
<1>0. \A s \in SUBSET S : IsFiniteSet(s) /\ Numbers(v, s) /\ Numbers(w, s) /\ Numbers(u, s)
  BY FS_Subset DEF Numbers
<1>1. {} \in P
  <2>1. SumIn(u, {}) = 0 /\ SumIn(v, {}) = 0 /\ SumIn(w, {}) = 0
    BY <1>0, TotalStep
  <2> QED
    BY <2>1
<1>2. \A s \in SUBSET S : s # {} /\ (\A x \in s : s \ {x} \in P) => s \in P
  <2> SUFFICES ASSUME NEW s \in SUBSET S, s # {}, \A x \in s : s \ {x} \in P
               PROVE  SumIn(u, s) = SumIn(v, s) + SumIn(w, s)
    OBVIOUS
  <2>1. PICK x \in s : TRUE
    OBVIOUS
  <2> DEFINE r == s \ {x}
  <2>2. SumIn(v, s) = v[x] + SumIn(v, r) /\ SumIn(w, s) = w[x] + SumIn(w, r)
        /\ SumIn(u, s) = u[x] + SumIn(u, r)
    BY <1>0, <2>1, TotalRemove
  <2>3. u[x] = v[x] + w[x] /\ SumIn(u, r) = SumIn(v, r) + SumIn(w, r)
    BY <2>1
  <2>4. v[x] \in Int /\ w[x] \in Int /\ SumIn(v, r) \in Int /\ SumIn(w, r) \in Int
    BY <1>0, TotalStep DEF Numbers
  <2> HIDE DEF r
  <2> QED
    BY <2>2, <2>3, <2>4
<1>3. P = SUBSET S
  <2> HIDE DEF P
  <2>1. P \in SUBSET SUBSET S
    BY DEF P
  <2> QED
    BY <1>1, <1>2, <2>1, Removing
<1> QED
  BY <1>3
=============================================================================
