-------------------- MODULE PortfolioLedgerProofs --------------------
(***************************************************************************)
(* Proofs about PortfolioLedger, for any numbers of symbols, lots, request *)
(* threads, workers and operations, any inputs the assumptions of the      *)
(* module admit, and operations that stop after any call.                  *)
(***************************************************************************)
EXTENDS PortfolioLedger, FoldTheorems, SequenceTheorems

-----------------------------------------------------------------------------
(* A fee that divides evenly.                                                *)
LEMMA Portion ==
  ASSUME NEW f \in Nat, NEW q \in Nat, q > 0, f % q = 0, NEW n \in Int
  PROVE  (f * n) \div q = (f \div q) * n /\ f \div q \in Nat
<1>1. f \div q \in Nat
  OBVIOUS
<1>2. f = q * (f \div q)
  OBVIOUS
<1>3. f * n = q * ((f \div q) * n)
  BY <1>1, <1>2
<1>4. \A k \in Int : (q * k) \div q = k
  OBVIOUS
<1> QED
  BY <1>1, <1>3, <1>4

-----------------------------------------------------------------------------
(* Lots of tax as the ledger keeps them, their cost basis, and the sums over *)
(* them.                                                                     *)

(* A lot that the database may hold: it was bought with at least one share,  *)
(* has at most as many left, and its fee divides evenly among them. A book   *)
(* is a finite set of such lots with an identifier each.                     *)
Held == {l \in Lot : l.quantity > 0 /\ l.left <= l.quantity /\ l.fees % l.quantity = 0}
OneEach(L) == \A l, k \in L : l.id = k.id => l = k
Book(L) == L \subseteq Held /\ IsFiniteSet(L) /\ OneEach(L)

(* The numbers that the sums over lots add up.                               *)
CostFn == [l \in Held |-> Basis(l)]
LeftFn == [l \in Held |-> l.left]
ValueFn == [l \in Held |-> l.left * l.cur]

(* The fields of a lot.                                                      *)
LEMMA HeldFields ==
  ASSUME NEW l \in Held
  PROVE  /\ l.id \in LotIds /\ l.id \in Nat /\ l.symbol \in Symbols /\ l.quantity \in Nat
         /\ l.left \in Nat /\ l.price \in Nat /\ l.cur \in Nat /\ l.fees \in Nat /\ l.at \in Nat
         /\ l.quantity > 0 /\ l.left <= l.quantity /\ l.fees % l.quantity = 0
  BY LotIdsAssumption DEF Held, Lot

(* A product of naturals is a natural.                                       *)
LEMMA NatTimes ==
  ASSUME NEW a \in Nat, NEW b \in Nat
  PROVE  a * b \in Nat
  OBVIOUS

(* The cost basis of a lot, per share left.                                  *)
LEMMA BasisOfHeld ==
  ASSUME NEW l \in Held
  PROVE  /\ Basis(l) = l.left * l.price + (l.fees \div l.quantity) * l.left
         /\ l.fees \div l.quantity \in Nat
         /\ Basis(l) \in Nat
<1>1. (l.fees * l.left) \div l.quantity = (l.fees \div l.quantity) * l.left
      /\ l.fees \div l.quantity \in Nat
  <2> DEFINE f == l.fees
             q == l.quantity
             n == l.left
  <2>1. f \in Nat /\ q \in Nat /\ q > 0 /\ f % q = 0 /\ n \in Int
    BY HeldFields
  <2> HIDE DEF f, q, n
  <2>2. (f * n) \div q = (f \div q) * n /\ f \div q \in Nat
    BY <2>1, Portion
  <2> QED
    BY <2>2 DEF f, q, n
<1>2. l.left * l.price \in Nat /\ (l.fees \div l.quantity) * l.left \in Nat
  BY <1>1, HeldFields, NatTimes
<1> QED
  BY <1>1, <1>2 DEF Basis

(* The basis, the shares left and the value of a lot are naturals.           *)
LEMMA LotNumbers ==
  ASSUME NEW S \in SUBSET Held
  PROVE  /\ Numbers(CostFn, S) /\ Numbers(LeftFn, S) /\ Numbers(ValueFn, S)
         /\ \A l \in S : CostFn[l] \in Nat /\ LeftFn[l] \in Nat /\ ValueFn[l] \in Nat
<1>1. ASSUME NEW l \in Held
      PROVE  Basis(l) \in Nat /\ l.left \in Nat /\ l.left * l.cur \in Nat
  BY HeldFields, BasisOfHeld
<1> QED
  BY <1>1 DEF Numbers, CostFn, LeftFn, ValueFn

(* BasisOf is a sum of naturals.                                             *)
LEMMA BasisIsTotal ==
  ASSUME NEW S \in SUBSET Held, IsFiniteSet(S)
  PROVE  BasisOf(S) = SumIn(CostFn, S) /\ BasisOf(S) \in Nat
<1> DEFINE C(k) == k = [s \in SUBSET S |-> IF s = {} THEN 0 ELSE
                          Basis(Chosen(s)) + k[s \ {Chosen(s)}]]
           it == CHOOSE k : C(k)
<1>1. BasisOf(S) = it[S]
  BY DEF BasisOf, MapThenSumSet, MapThenFoldSet, Chosen
<1>2. PICK g : PartialSums(S, CostFn, g)
  BY LotNumbers, TotalIsSum
<1>3. ASSUME NEW k
      PROVE  C(k) <=> Sums(S, CostFn, k)
  <2>1. ASSUME NEW s \in SUBSET S, s # {}
        PROVE  Basis(Chosen(s)) + k[s \ {Chosen(s)}] = CostFn[Chosen(s)] + k[s \ {Chosen(s)}]
    BY <2>1, ChosenIn DEF CostFn
  <2>2. [s \in SUBSET S |-> IF s = {} THEN 0 ELSE Basis(Chosen(s)) + k[s \ {Chosen(s)}]]
        = [s \in SUBSET S |-> IF s = {} THEN 0 ELSE CostFn[Chosen(s)] + k[s \ {Chosen(s)}]]
    BY <2>1
  <2> QED
    BY <2>2 DEF Sums
<1>4. Sums(S, CostFn, g) /\ SumIn(CostFn, S) = g[S]
  BY <1>2 DEF PartialSums
<1>5. C(g)
  BY <1>3, <1>4
<1>6. C(it)
  BY <1>5
<1>7. Sums(S, CostFn, it)
  BY <1>3, <1>6
<1> HIDE DEF it
<1>8. it[S] = g[S]
  BY <1>4, <1>7, SumsUnique
<1> QED
  BY <1>1, <1>4, <1>8, LotNumbers, TotalNat

(* So are the shares left,                                                   *)
LEMMA LeftIsTotal ==
  ASSUME NEW S \in SUBSET Held, IsFiniteSet(S)
  PROVE  /\ MapThenSumSet(LAMBDA l : l.left, S) = SumIn(LeftFn, S)
         /\ SumIn(LeftFn, S) \in Nat
<1> DEFINE C(k) == k = [s \in SUBSET S |-> IF s = {} THEN 0 ELSE
                          Chosen(s).left + k[s \ {Chosen(s)}]]
           it == CHOOSE k : C(k)
<1>1. MapThenSumSet(LAMBDA l : l.left, S) = it[S]
  BY DEF MapThenSumSet, MapThenFoldSet, Chosen
<1>2. PICK g : PartialSums(S, LeftFn, g)
  BY LotNumbers, TotalIsSum
<1>3. ASSUME NEW k
      PROVE  C(k) <=> Sums(S, LeftFn, k)
  <2>1. ASSUME NEW s \in SUBSET S, s # {}
        PROVE  Chosen(s).left + k[s \ {Chosen(s)}] = LeftFn[Chosen(s)] + k[s \ {Chosen(s)}]
    BY <2>1, ChosenIn DEF LeftFn
  <2>2. [s \in SUBSET S |-> IF s = {} THEN 0 ELSE Chosen(s).left + k[s \ {Chosen(s)}]]
        = [s \in SUBSET S |-> IF s = {} THEN 0 ELSE LeftFn[Chosen(s)] + k[s \ {Chosen(s)}]]
    BY <2>1
  <2> QED
    BY <2>2 DEF Sums
<1>4. Sums(S, LeftFn, g) /\ SumIn(LeftFn, S) = g[S]
  BY <1>2 DEF PartialSums
<1>5. C(g)
  BY <1>3, <1>4
<1>6. C(it)
  BY <1>5
<1>7. Sums(S, LeftFn, it)
  BY <1>3, <1>6
<1> HIDE DEF it
<1>8. it[S] = g[S]
  BY <1>4, <1>7, SumsUnique
<1>9. SumIn(LeftFn, S) \in Nat
  BY LotNumbers, TotalNat
<1> QED
  BY <1>1, <1>4, <1>8, <1>9

(* the shares of one symbol,                                                 *)
LEMMA SharesAreTotal ==
  ASSUME NEW L \in SUBSET Held, IsFiniteSet(L), NEW y
  PROVE  SharesIn(L, y) = SumIn(LeftFn, OfSymbol(L, y)) /\ SharesIn(L, y) \in Nat
<1>1. OfSymbol(L, y) \in SUBSET Held /\ IsFiniteSet(OfSymbol(L, y))
  BY FS_Subset DEF OfSymbol
<1> QED
  BY <1>1, LeftIsTotal DEF SharesIn

(* and the value at the current price.                                       *)
LEMMA ValueIsTotal ==
  ASSUME NEW S \in SUBSET Held, IsFiniteSet(S)
  PROVE  MapThenSumSet(LAMBDA l : l.left * l.cur, S) \in Nat
<1> DEFINE C(k) == k = [s \in SUBSET S |-> IF s = {} THEN 0 ELSE
                          Chosen(s).left * Chosen(s).cur + k[s \ {Chosen(s)}]]
           it == CHOOSE k : C(k)
<1>1. MapThenSumSet(LAMBDA l : l.left * l.cur, S) = it[S]
  BY DEF MapThenSumSet, MapThenFoldSet, Chosen
<1>2. PICK g : PartialSums(S, ValueFn, g)
  BY LotNumbers, TotalIsSum
<1>3. ASSUME NEW k
      PROVE  C(k) <=> Sums(S, ValueFn, k)
  <2>1. ASSUME NEW s \in SUBSET S, s # {}
        PROVE  Chosen(s).left * Chosen(s).cur + k[s \ {Chosen(s)}]
                 = ValueFn[Chosen(s)] + k[s \ {Chosen(s)}]
    BY <2>1, ChosenIn DEF ValueFn
  <2>2. [s \in SUBSET S |-> IF s = {} THEN 0 ELSE
                          Chosen(s).left * Chosen(s).cur + k[s \ {Chosen(s)}]]
        = [s \in SUBSET S |-> IF s = {} THEN 0 ELSE ValueFn[Chosen(s)] + k[s \ {Chosen(s)}]]
    BY <2>1
  <2> QED
    BY <2>2 DEF Sums
<1>4. Sums(S, ValueFn, g) /\ SumIn(ValueFn, S) = g[S]
  BY <1>2 DEF PartialSums
<1>5. C(g)
  BY <1>3, <1>4
<1>6. C(it)
  BY <1>5
<1>7. Sums(S, ValueFn, it)
  BY <1>3, <1>6
<1> HIDE DEF it
<1>8. it[S] = g[S]
  BY <1>4, <1>7, SumsUnique
<1> QED
  BY <1>1, <1>4, <1>8, LotNumbers, TotalNat

-----------------------------------------------------------------------------
(* The order in which a sale consumes lots: InOrder puts a book in the order *)
(* of purchase dates, and of identifiers on one date.                        *)

(* The lots of a book are ordered: of two different ones, one comes before   *)
(* the other.                                                                *)
LEMMA EarlierOrders ==
  ASSUME NEW L, Book(L)
  PROVE  /\ \A l, k \in L : l = k \/ Earlier(l, k) \/ Earlier(k, l)
         /\ \A l, k, j \in L : Earlier(l, k) /\ Earlier(k, j) => Earlier(l, j)
         /\ \A l \in L : ~Earlier(l, l)
<1>1. \A l \in L : l.at \in Nat /\ l.id \in Nat
  BY HeldFields DEF Book
<1>2. \A l, k \in L : l.id = k.id => l = k
  BY DEF Book, OneEach
<1> QED
  BY <1>1, <1>2 DEF Earlier

(* A book that is not empty has a lot that comes after all others.           *)
LEMMA LatestExists ==
  ASSUME NEW L, Book(L), L # {}
  PROVE  \E l \in L : \A k \in L : k = l \/ Earlier(k, l)
<1> DEFINE P == {s \in SUBSET L : s # {} => \E l \in s : \A k \in s : k = l \/ Earlier(k, l)}
<1>1. {} \in P
  OBVIOUS
<1>2. \A s \in SUBSET L : s # {} /\ (\A x \in s : s \ {x} \in P) => s \in P
  <2> SUFFICES ASSUME NEW s \in SUBSET L, s # {}, \A x \in s : s \ {x} \in P
               PROVE  \E l \in s : \A k \in s : k = l \/ Earlier(k, l)
    OBVIOUS
  <2>1. PICK z \in s : TRUE
    OBVIOUS
  <2>2. CASE s \ {z} = {}
    BY <2>1, <2>2
  <2>3. CASE s \ {z} # {}
    <3>1. PICK l \in s \ {z} : \A k \in s \ {z} : k = l \/ Earlier(k, l)
      BY <2>3
    <3>2. l \in L /\ z \in L /\ \A k \in s : k \in L
      BY <2>1
    <3>3. CASE Earlier(z, l)
      BY <3>1, <3>3
    <3>4. CASE Earlier(l, z)
      <4>1. \A k \in s : k = z \/ Earlier(k, z)
        BY <3>1, <3>2, <3>4, EarlierOrders
      <4> QED
        BY <4>1
    <3> QED
      BY <3>1, <3>2, <3>3, <3>4, EarlierOrders
  <2> QED
    BY <2>2, <2>3
<1>3. P = SUBSET L
  <2> HIDE DEF P
  <2>1. P \in SUBSET SUBSET L
    BY DEF P
  <2>2. IsFiniteSet(L)
    BY DEF Book
  <2> QED
    BY <1>1, <1>2, <2>1, <2>2, Removing
<1> QED
  BY <1>3

(* A sequence of lots in the order in which a sale consumes them.            *)
Sorted(q) == \A i, j \in DOMAIN q : i < j => Earlier(q[i], q[j])

(* Some lots of a book are a book.                                           *)
LEMMA SubBook ==
  ASSUME NEW L, Book(L), NEW S \in SUBSET L
  PROVE  Book(S)
  BY FS_Subset DEF Book, OneEach

(* Every book can be put in order.                                           *)
LEMMA OrderExists ==
  ASSUME NEW L, Book(L)
  PROVE  \E q \in Bijection(1 .. Cardinality(L), L) : Sorted(q)
<1> DEFINE P == {s \in SUBSET L : \E q \in Bijection(1 .. Cardinality(s), s) : Sorted(q)}
<1>0. \A s \in SUBSET L : IsFiniteSet(s) /\ Cardinality(s) \in Nat
  BY FS_Subset, FS_CardinalityType DEF Book
<1>1. {} \in P
  <2>1. 1 .. Cardinality({}) = {}
    BY FS_EmptySet
  <2> DEFINE q == [i \in {} |-> 0]
  <2>2. q \in Bijection({}, {}) /\ Sorted(q)
    BY DEF Bijection, Injection, Surjection, IsInjective, Sorted
  <2> HIDE DEF q
  <2> QED
    BY <2>1, <2>2
<1>2. \A s \in SUBSET L : s # {} /\ (\A x \in s : s \ {x} \in P) => s \in P
  <2> SUFFICES ASSUME NEW s \in SUBSET L, s # {}, \A x \in s : s \ {x} \in P
               PROVE  \E q \in Bijection(1 .. Cardinality(s), s) : Sorted(q)
    OBVIOUS
  <2>1. Book(s)
    BY SubBook
  <2>2. PICK x \in s : \A k \in s : k = x \/ Earlier(k, x)
    BY <2>1, LatestExists
  <2> DEFINE n == Cardinality(s \ {x})
  <2>3. Cardinality(s) = n + 1 /\ n \in Nat
    <3>1. Cardinality(s \ {x}) = Cardinality(s) - 1
      BY <1>0, <2>2, FS_RemoveElement
    <3>2. Cardinality(s \ {x}) \in Nat /\ Cardinality(s) \in Nat
      BY <1>0
    <3> QED
      BY <3>1, <3>2
  <2>4. PICK p \in Bijection(1 .. n, s \ {x}) : Sorted(p)
    BY <2>2
  <2> HIDE DEF n
  <2>5. /\ p \in [1 .. n -> s \ {x}]
        /\ \A i, j \in 1 .. n : p[i] = p[j] => i = j
        /\ \A y \in s \ {x} : \E i \in 1 .. n : p[i] = y
    BY <2>4 DEF Bijection, Injection, Surjection, IsInjective
  <2> DEFINE q == [i \in 1 .. (n + 1) |-> IF i = n + 1 THEN x ELSE p[i]]
  <2>6. ASSUME NEW i \in 1 .. (n + 1)
        PROVE  /\ i = n + 1 => q[i] = x
               /\ i # n + 1 => i \in 1 .. n /\ q[i] = p[i] /\ q[i] \in s \ {x}
    BY <2>3, <2>5
  <2>7. q \in [1 .. (n + 1) -> s]
    BY <2>2, <2>6
  <2>8. DOMAIN q = 1 .. (n + 1)
    OBVIOUS
  <2>9. ASSUME NEW y \in s
        PROVE  \E i \in 1 .. (n + 1) : q[i] = y
    <3>1. CASE y = x
      <4>1. n + 1 \in 1 .. (n + 1)
        BY <2>3
      <4> QED
        BY <3>1, <4>1
    <3>2. CASE y # x
      <4>1. PICK i \in 1 .. n : p[i] = y
        BY <2>5, <3>2
      <4>2. i \in 1 .. (n + 1) /\ i # n + 1
        BY <2>3
      <4> QED
        BY <4>1, <4>2
    <3> QED
      BY <3>1, <3>2
  <2> HIDE DEF q
  <2>10. \A i, j \in 1 .. (n + 1) : q[i] = q[j] => i = j
    BY <2>5, <2>6
  <2>11. Sorted(q)
    <3> SUFFICES ASSUME NEW i \in 1 .. (n + 1), NEW j \in 1 .. (n + 1), i < j
                 PROVE  Earlier(q[i], q[j])
      BY <2>8 DEF Sorted
    <3>1. i # n + 1
      BY <2>3
    <3>2. CASE j = n + 1
      BY <2>2, <2>6, <3>1, <3>2
    <3>3. CASE j # n + 1
      <4>1. i \in DOMAIN p /\ j \in DOMAIN p
        BY <2>5, <2>6, <3>1, <3>3
      <4>2. Earlier(p[i], p[j])
        BY <2>4, <4>1 DEF Sorted
      <4> QED
        BY <2>6, <3>1, <3>3, <4>2
    <3> QED
      BY <3>2, <3>3
  <2>12. q \in Bijection(1 .. (n + 1), s)
    BY <2>7, <2>8, <2>9, <2>10 DEF Bijection, Injection, Surjection, IsInjective
  <2> QED
    BY <2>3, <2>11, <2>12
<1>3. P = SUBSET L
  <2> HIDE DEF P
  <2>1. P \in SUBSET SUBSET L
    BY DEF P
  <2>2. IsFiniteSet(L)
    BY DEF Book
  <2> QED
    BY <1>1, <1>2, <2>1, <2>2, Removing
<1> QED
  BY <1>3

(* InOrder(L) is a sequence of all lots of L, each once, in order.           *)
LEMMA InOrderSorts ==
  ASSUME NEW L, Book(L)
  PROVE  LET n == Cardinality(L)
             q == InOrder(L)
         IN  /\ n \in Nat
             /\ q \in [1 .. n -> L] /\ q \in Seq(L) /\ Len(q) = n
             /\ \A i, j \in 1 .. n : q[i] = q[j] => i = j
             /\ \A l \in L : \E i \in 1 .. n : q[i] = l
             /\ \A i, j \in 1 .. n : i < j => Earlier(q[i], q[j])
<1> DEFINE n == Cardinality(L)
           q == InOrder(L)
<1>1. n \in Nat
  BY FS_CardinalityType DEF Book
<1>2. q \in Bijection(1 .. n, L) /\ Sorted(q)
  BY OrderExists DEF InOrder, Sorted
<1> HIDE DEF q, n
<1>3. /\ q \in [1 .. n -> L]
      /\ \A i, j \in 1 .. n : q[i] = q[j] => i = j
      /\ \A l \in L : \E i \in 1 .. n : q[i] = l
  BY <1>2 DEF Bijection, Injection, Surjection, IsInjective
<1>4. DOMAIN q = 1 .. n
  BY <1>3
<1>5. q \in Seq(L) /\ Len(q) = n
  BY <1>1, <1>3
<1>6. \A i, j \in 1 .. n : i < j => Earlier(q[i], q[j])
  BY <1>2, <1>4 DEF Sorted
<1> QED
  BY <1>1, <1>3, <1>5, <1>6 DEF q, n

-----------------------------------------------------------------------------
(* A sale: the loop of _apply_fifo_sale (portfolio_tasks.py:472) takes       *)
(* shares off one lot after the other. The loop is a fold over the lots in   *)
(* order; what it holds after each lot is the invariant SaleInv.             *)

(* The smaller of two numbers.                                               *)
LEMMA MinPair ==
  ASSUME NEW a \in Int, NEW b \in Int
  PROVE  Min({a, b}) = (IF a <= b THEN a ELSE b)
<1>1. \E x \in {a, b} : \A y \in {a, b} : x =< y
  OBVIOUS
<1>2. Min({a, b}) \in {a, b} /\ \A y \in {a, b} : Min({a, b}) =< y
  BY <1>1 DEF Min
<1> QED
  BY <1>2

(* The loop computes with whole numbers until it is known that no lot falls  *)
(* below zero.                                                               *)
Wide == [id: LotIds, symbol: Symbols, quantity: Nat, left: Int, price: Nat, cur: Nat,
         fees: Nat, at: Nat]

(* A lot is one of these records.                                            *)
LEMMA HeldIsWide ==
  ASSUME NEW l \in Held
  PROVE  l \in Wide
  BY DEF Held, Lot, Wide

(* The record of a lot after shares were taken off and the price was set.    *)
LEMMA LotSold ==
  ASSUME NEW l \in Wide, NEW n \in Int, NEW price \in Nat
  PROVE  LET y == [l EXCEPT !.left = @ - n, !.cur = price]
         IN  /\ y \in Wide
             /\ y.id = l.id /\ y.symbol = l.symbol /\ y.quantity = l.quantity
             /\ y.left = l.left - n /\ y.price = l.price /\ y.cur = price
             /\ y.fees = l.fees /\ y.at = l.at
<1>1. l.left - n \in Int
  BY DEF Wide
<1>2. [l EXCEPT !.left = @ - n, !.cur = price] \in Wide
  BY <1>1 DEF Wide
<1> QED
  BY <1>2 DEF Wide

(* What the loop carries: the shares still to sell, the basis of those sold, *)
(* the lots they came from and the book.                                     *)
Accumulators == [todo: Int, basis: Int, ids: SUBSET LotIds, lots: SUBSET Wide]

(* One turn of the loop keeps these types.                                   *)
LEMMA SellFromType ==
  ASSUME NEW acc \in Accumulators, NEW l \in Held, NEW price \in Nat
  PROVE  SellFrom(acc, l, price) \in Accumulators
<1> DEFINE n == Min({l.left, acc.todo})
           y == [l EXCEPT !.left = @ - n, !.cur = price]
<1>1. l.left \in Int /\ acc.todo \in Int /\ l.id \in LotIds /\ l.price \in Int /\ l.fees \in Int
      /\ l.quantity \in Nat /\ l.quantity > 0 /\ acc.basis \in Int
      /\ acc.ids \subseteq LotIds /\ acc.lots \subseteq Wide
  BY HeldFields DEF Accumulators
<1>2. n \in Int
  BY <1>1, MinPair
<1> HIDE DEF n
<1>3. y \in Wide
  BY <1>2, HeldIsWide, LotSold
<1> HIDE DEF y
<1>4. n * l.price \in Int /\ (l.fees * n) \div l.quantity \in Int
  <2> DEFINE a == l.fees * n
             q == l.quantity
  <2>1. a \in Int /\ q \in Nat /\ q > 0 /\ n * l.price \in Int
    BY <1>1, <1>2
  <2> HIDE DEF a, q
  <2>2. a \div q \in Int
    BY <2>1
  <2> QED
    BY <2>1, <2>2 DEF a, q
<1> DEFINE b == acc.basis + n * l.price + (l.fees * n) \div l.quantity
           t == acc.todo - n
           i == IF n > 0 THEN acc.ids \cup {l.id} ELSE acc.ids
           r == IF n > 0 THEN (acc.lots \ {l}) \cup {y} ELSE acc.lots
<1>5. b \in Int /\ t \in Int /\ i \in SUBSET LotIds /\ r \in SUBSET Wide
  BY <1>1, <1>2, <1>3, <1>4
<1>6. SellFrom(acc, l, price) = [todo |-> t, basis |-> b, ids |-> i, lots |-> r]
  BY DEF SellFrom, n, y
<1> HIDE DEF b, t, i, r
<1> QED
  BY <1>5, <1>6 DEF Accumulators

(* The lots that a sale o of the book L consumes, what the loop begins with, *)
(* and what it ends with.                                                    *)
Matching(L, o) == {l \in OfSymbol(L, o.symbol) : l.left > 0}
SaleStart(L, o) == [todo |-> o.quantity, basis |-> 0, ids |-> {}, lots |-> L]
Sold(L, o) == FoldLeft(LAMBDA acc, l : SellFrom(acc, l, o.price), SaleStart(L, o),
                       InOrder(Matching(L, o)))

(* F[k] is what the loop carries after k of the n lots of q.                 *)
Loop(L, o, n, q, F) ==
  F[0] = SaleStart(L, o) /\ \A k \in 1 .. n : F[k] = SellFrom(F[k - 1], q[k], o.price)

(* A sale of at least one share.                                             *)
SaleOf(o) ==
  /\ o.symbol \in Symbols /\ o.quantity \in Nat /\ o.quantity > 0
  /\ o.price \in Nat /\ o.fees \in Nat

(* The fold is the loop.                                                     *)
LEMMA SaleLoop ==
  ASSUME NEW L, Book(L), NEW o, SaleOf(o)
  PROVE  \E F : /\ Loop(L, o, Cardinality(Matching(L, o)), InOrder(Matching(L, o)), F)
                /\ Sold(L, o) = F[Cardinality(Matching(L, o))]
<1> DEFINE M == Matching(L, o)
           n == Cardinality(M)
           q == InOrder(M)
           start == SaleStart(L, o)
           st == [p \in Accumulators \X (1 .. n) |-> SellFrom(p[1], q[p[2]], o.price)]
           C(k) == k = [r \in SUBSET (1 .. n) |-> IF r = {} THEN start ELSE
                          SellFrom(k[r \ {Max(r)}], q[Max(r)], o.price)]
           it == CHOOSE k : C(k)
<1>0. Book(M)
  BY SubBook DEF Matching, OfSymbol
<1>1. n \in Nat /\ q \in [1 .. n -> M] /\ DOMAIN q = 1 .. n
  BY <1>0, InOrderSorts
<1>2. Sold(L, o) = it[1 .. n]
  <2>1. Sold(L, o) = (CHOOSE k : k = [r \in SUBSET DOMAIN q |-> IF r = {} THEN start ELSE
                          SellFrom(k[r \ {Max(r)}], q[Max(r)], o.price)])[DOMAIN q]
    BY DEF Sold, FoldLeft, MapThenFoldSet
  <2> QED
    BY <1>1, <2>1
<1>3. \A i \in 1 .. n : q[i] \in Held
  BY <1>0, <1>1 DEF Book
<1>4. start \in Accumulators
  <2>1. \A l \in L : l \in Wide
    BY DEF Book, Held, Lot, Wide
  <2> QED
    BY <2>1 DEF SaleStart, SaleOf, Accumulators
<1> HIDE DEF M, n, q, start
<1>5. PICK g : LeftFold(n, Accumulators, start, st, g)
  <2>1. Steps(1 .. n, Accumulators, st)
    BY <1>3, SellFromType DEF Steps, SaleOf
  <2> HIDE DEF st
  <2> QED
    BY <1>1, <1>4, <2>1, LeftFoldExists
<1>6. C(g)
  <2>1. ASSUME NEW r \in SUBSET (1 .. n), r # {}
        PROVE  st[<<g[r \ {Max(r)}], Max(r)>>] = SellFrom(g[r \ {Max(r)}], q[Max(r)], o.price)
    <3>1. Max(r) \in 1 .. n
      BY <1>1, <2>1, LargestExists
    <3> QED
      BY <1>5, <3>1 DEF LeftFold
  <2>2. [r \in SUBSET (1 .. n) |-> IF r = {} THEN start ELSE st[<<g[r \ {Max(r)}], Max(r)>>]]
        = [r \in SUBSET (1 .. n) |-> IF r = {} THEN start ELSE
                            SellFrom(g[r \ {Max(r)}], q[Max(r)], o.price)]
    BY <2>1
  <2> QED
    BY <1>5, <2>2 DEF LeftFold
<1>7. C(it)
  BY <1>6
<1> DEFINE F == [k \in 0 .. n |-> it[1 .. k]]
<1>8. F[0] = start
  <2>1. 0 \in 0 .. n /\ 1 .. 0 = {} /\ {} \in SUBSET (1 .. n)
    BY <1>1
  <2> HIDE DEF it
  <2> QED
    BY <1>7, <2>1
<1>9. ASSUME NEW k \in 1 .. n
      PROVE  F[k] = SellFrom(F[k - 1], q[k], o.price)
  <2>1. k \in Nat /\ k # 0 /\ k \in 0 .. n /\ k - 1 \in 0 .. n
    BY <1>1
  <2>2. it[1 .. k] = SellFrom(it[(1 .. k) \ {Max(1 .. k)}], q[Max(1 .. k)], o.price)
    <3>1. 1 .. k \in SUBSET (1 .. n) /\ 1 .. k # {}
      <4>1. k \in 1 .. k /\ k <= n
        BY <1>1, <2>1
      <4>2. \A i \in 1 .. k : i \in 1 .. n
        BY <1>1, <2>1, <4>1
      <4> QED
        BY <4>1, <4>2
    <3> HIDE DEF it
    <3> QED
      BY <1>7, <3>1
  <2>3. it[1 .. k] = SellFrom(it[1 .. (k - 1)], q[k], o.price)
    BY <2>1, <2>2, LargestUpTo
  <2> HIDE DEF it
  <2> QED
    BY <2>1, <2>3
<1>10. F[n] = Sold(L, o)
  BY <1>1, <1>2
<1> HIDE DEF F
<1> QED
  BY <1>8, <1>9, <1>10 DEF Loop, n, q, M, start

(* A lot with the identity, the date and the cost of another.                *)
Kin(l, x) ==
  /\ l.id = x.id /\ l.symbol = x.symbol /\ l.quantity = x.quantity
  /\ l.price = x.price /\ l.fees = x.fees /\ l.at = x.at

(* A lot that loses t shares loses the cost that the sale books for them.    *)
LEMMA TakenLot ==
  ASSUME NEW l \in Held, NEW t \in Nat, t <= l.left, NEW price \in Nat
  PROVE  LET y == [l EXCEPT !.left = @ - t, !.cur = price]
         IN  /\ y \in Held /\ Kin(y, l) /\ y.left = l.left - t /\ y.cur = price
             /\ Basis(y) = Basis(l) - (t * l.price + (l.fees * t) \div l.quantity)
             /\ t * l.price + (l.fees * t) \div l.quantity \in Nat
<1> DEFINE y == [l EXCEPT !.left = @ - t, !.cur = price]
<1>0. l \in Wide /\ t \in Int
  BY HeldIsWide
<1>1. /\ y \in Wide /\ y.left = l.left - t /\ y.cur = price
      /\ y.id = l.id /\ y.symbol = l.symbol /\ y.quantity = l.quantity
      /\ y.price = l.price /\ y.fees = l.fees /\ y.at = l.at
  <2>1. LET z == [l EXCEPT !.left = @ - t, !.cur = price]
        IN  /\ z \in Wide
            /\ z.id = l.id /\ z.symbol = l.symbol /\ z.quantity = l.quantity
            /\ z.left = l.left - t /\ z.price = l.price /\ z.cur = price
            /\ z.fees = l.fees /\ z.at = l.at
    BY <1>0, LotSold
  <2> QED
    BY <2>1
<1> HIDE DEF y
<1>2. Kin(y, l)
  BY <1>1 DEF Kin
<1>3. l.left - t \in Nat /\ l.left - t <= l.quantity
  BY HeldFields
<1>4. y \in Lot
  BY <1>1, <1>3 DEF Wide, Lot
<1>5. y \in Held
  BY <1>1, <1>3, <1>4, HeldFields DEF Held
<1> DEFINE c == l.fees \div l.quantity
           m == l.left
           p == l.price
<1>6. Basis(y) = (m - t) * p + c * (m - t) /\ Basis(l) = m * p + c * m
  BY <1>1, <1>5, BasisOfHeld
<1>7. (l.fees * t) \div l.quantity = c * t
  <2> DEFINE f == l.fees
             d == l.quantity
  <2>1. f \in Nat /\ d \in Nat /\ d > 0 /\ f % d = 0 /\ t \in Int
    BY HeldFields
  <2>2. c = f \div d
    OBVIOUS
  <2> HIDE DEF c, f, d
  <2>3. (f * t) \div d = (f \div d) * t
    BY <2>1, Portion
  <2> QED
    BY <2>2, <2>3 DEF f, d
<1>8. c \in Nat /\ m \in Nat /\ p \in Nat
  BY BasisOfHeld, HeldFields
<1> HIDE DEF c, m, p
<1>9. (m - t) * p + c * (m - t) = (m * p + c * m) - (t * p + c * t)
  BY <1>8
<1>10. t * p + c * t \in Nat
  <2>1. t * p \in Nat /\ c * t \in Nat
    BY <1>8, NatTimes
  <2> QED
    BY <2>1
<1> QED
  BY <1>1, <1>2, <1>5, <1>6, <1>7, <1>9, <1>10 DEF y, p

(* A book with one lot replaced is a book whose basis and shares change by   *)
(* that lot.                                                                 *)
LEMMA Replacing ==
  ASSUME NEW B, Book(B), NEW l \in B, NEW y \in Held, y.id = l.id, y.symbol = l.symbol
  PROVE  LET C == (B \ {l}) \cup {y}
         IN  /\ Book(C)
             /\ BasisOf(C) = (BasisOf(B) - Basis(l)) + Basis(y)
             /\ \A s : SharesIn(C, s) =
                         IF s = l.symbol THEN (SharesIn(B, s) - l.left) + y.left ELSE SharesIn(B, s)
<1> DEFINE C == (B \ {l}) \cup {y}
<1>1. B \subseteq Held /\ IsFiniteSet(B) /\ \A k, j \in B : k.id = j.id => k = j
  BY DEF Book, OneEach
<1>2. y \notin B \ {l}
  BY <1>1
<1>3. Book(C)
  <2>1. IsFiniteSet(C)
    BY <1>1, FS_RemoveElement, FS_AddElement
  <2>2. OneEach(C)
    BY <1>1 DEF OneEach
  <2> QED
    BY <1>1, <2>1, <2>2 DEF Book
<1>4. Numbers(CostFn, B) /\ CostFn[y] = Basis(y) /\ CostFn[l] = Basis(l) /\ Basis(y) \in Int
      /\ LeftFn[y] = y.left /\ LeftFn[l] = l.left /\ y.left \in Int
  <2>1. Numbers(CostFn, B)
    BY <1>1, LotNumbers
  <2>2. l \in Held /\ y \in Held
    BY <1>1
  <2>3. Basis(y) \in Int /\ y.left \in Int
    BY BasisOfHeld, HeldFields
  <2> QED
    BY <2>1, <2>2, <2>3 DEF CostFn, LeftFn
<1>5. BasisOf(C) = (BasisOf(B) - Basis(l)) + Basis(y)
  <2>1. SumIn(CostFn, C) = (SumIn(CostFn, B) - CostFn[l]) + CostFn[y]
    <3>1. IsFiniteSet(B) /\ Numbers(CostFn, B) /\ l \in B /\ y \notin B \ {l}
          /\ CostFn[y] \in Int
      BY <1>1, <1>2, <1>4
    <3>2. SumIn(CostFn, (B \ {l}) \cup {y}) = (SumIn(CostFn, B) - CostFn[l]) + CostFn[y]
      BY <3>1, TotalReplace
    <3> QED
      BY <3>2
  <2>2. BasisOf(C) = SumIn(CostFn, C) /\ BasisOf(B) = SumIn(CostFn, B)
    <3> HIDE DEF C
    <3> QED
      BY <1>1, <1>3, BasisIsTotal DEF Book
  <2> HIDE DEF C
  <2> QED
    BY <1>4, <2>1, <2>2
<1>6. ASSUME NEW s
      PROVE  SharesIn(C, s) =
               IF s = l.symbol THEN (SharesIn(B, s) - l.left) + y.left ELSE SharesIn(B, s)
  <2>1. SharesIn(C, s) = SumIn(LeftFn, OfSymbol(C, s))
        /\ SharesIn(B, s) = SumIn(LeftFn, OfSymbol(B, s))
    <3> HIDE DEF C
    <3> QED
      BY <1>1, <1>3, SharesAreTotal DEF Book
  <2>2. CASE s = l.symbol
    <3> DEFINE O == OfSymbol(B, s)
    <3>1. OfSymbol(C, s) = (O \ {l}) \cup {y} /\ l \in O /\ y \notin O \ {l} /\ O \subseteq B
      BY <1>2, <2>2 DEF OfSymbol
    <3>2. IsFiniteSet(O) /\ Numbers(LeftFn, O)
      <4>1. O \in SUBSET B /\ O \in SUBSET Held
        BY <1>1, <3>1
      <4> HIDE DEF O
      <4> QED
        BY <1>1, <4>1, FS_Subset, LotNumbers
    <3> HIDE DEF O
    <3>3. SumIn(LeftFn, (O \ {l}) \cup {y}) = (SumIn(LeftFn, O) - LeftFn[l]) + LeftFn[y]
      <4> DEFINE v == LeftFn
      <4>1. IsFiniteSet(O) /\ Numbers(v, O) /\ l \in O /\ y \notin O \ {l} /\ v[y] \in Int
        BY <1>4, <3>1, <3>2
      <4> HIDE DEF v
      <4>2. SumIn(v, (O \ {l}) \cup {y}) = (SumIn(v, O) - v[l]) + v[y]
        BY <4>1, TotalReplace
      <4> QED
        BY <4>2 DEF v
    <3>4. /\ SharesIn(C, s) = SumIn(LeftFn, (O \ {l}) \cup {y})
          /\ SharesIn(B, s) = SumIn(LeftFn, O)
      <4> HIDE DEF C
      <4> QED
        BY <2>1, <3>1 DEF O
    <3> HIDE DEF C
    <3>5. SharesIn(C, s) = (SharesIn(B, s) - l.left) + y.left
      BY <1>4, <3>3, <3>4
    <3> QED
      BY <2>2, <3>5
  <2>3. CASE s # l.symbol
    <3>1. OfSymbol(C, s) = OfSymbol(B, s)
      BY <2>3 DEF OfSymbol
    <3> HIDE DEF C
    <3> QED
      BY <2>1, <2>3, <3>1
  <2> QED
    BY <2>2, <2>3
<1> HIDE DEF C
<1>7. Book(C) /\ BasisOf(C) = (BasisOf(B) - Basis(l)) + Basis(y)
      /\ \A s : SharesIn(C, s) =
                  IF s = l.symbol THEN (SharesIn(B, s) - l.left) + y.left ELSE SharesIn(B, s)
  BY <1>3, <1>5, <1>6
<1> QED
  BY <1>7 DEF C

(* The larger of two numbers.                                                *)
LEMMA MaxPair ==
  ASSUME NEW a \in Int, NEW b \in Int
  PROVE  Max({a, b}) = (IF a >= b THEN a ELSE b)
<1>1. \E x \in {a, b} : \A y \in {a, b} : x >= y
  OBVIOUS
<1>2. Max({a, b}) \in {a, b} /\ \A y \in {a, b} : Max({a, b}) >= y
  BY <1>1 DEF Max
<1> QED
  BY <1>2

(* q is a sequence of n different lots that match the sale; Gone are the     *)
(* first k of them, and Rest is what these leave to sell.                    *)
Queue(L, o, n, q) ==
  /\ n \in Nat /\ q \in [1 .. n -> Matching(L, o)]
  /\ \A i, j \in 1 .. n : q[i] = q[j] => i = j
Gone(q, k) == {q[j] : j \in 1 .. k}
Rest(o, q, k) == Max({0, o.quantity - SumIn(LeftFn, Gone(q, k))})

(* The invariant of the loop after k lots: shares and cost only move from    *)
(* the lots to the sale, lots that were not reached are untouched, and each  *)
(* lot reached lost as much as it had or as was still to sell.               *)
SaleInv(L, o, q, k, acc) ==
  /\ acc.todo = Rest(o, q, k) /\ acc.basis \in Nat
  /\ Book(acc.lots)
  /\ \A l \in acc.lots : \E x \in L : Kin(l, x) /\ l.left <= x.left
  /\ \A x \in L : \E l \in acc.lots : Kin(l, x)
  /\ \A x \in L : x \notin Gone(q, k) => x \in acc.lots
  /\ BasisOf(acc.lots) + acc.basis = BasisOf(L)
  /\ \A s : SharesIn(acc.lots, s) =
              IF s = o.symbol THEN SharesIn(L, s) - (o.quantity - acc.todo) ELSE SharesIn(L, s)
  /\ acc.ids \subseteq Ids(L)
  /\ \A l \in acc.lots : l.id \in acc.ids => l.left < l.quantity
  /\ \A j \in 1 .. k : \A l \in acc.lots :
       l.id = q[j].id => l.left = q[j].left - Min({q[j].left, Rest(o, q, j - 1)})

(* What the k-th lot adds to the lots gone, and takes off the rest.          *)
LEMMA GoneGrows ==
  ASSUME NEW L, Book(L), NEW o, SaleOf(o), NEW n, NEW q, Queue(L, o, n, q), NEW k \in 1 .. n
  PROVE  /\ q[k] \in L /\ q[k] \in Held /\ q[k].symbol = o.symbol /\ q[k].left > 0
         /\ q[k] \notin Gone(q, k - 1) /\ Gone(q, k) = Gone(q, k - 1) \cup {q[k]}
         /\ Rest(o, q, k - 1) \in Nat
         /\ Rest(o, q, k) = Rest(o, q, k - 1) - Min({q[k].left, Rest(o, q, k - 1)})
<1>1. /\ n \in Nat /\ q \in [1 .. n -> Matching(L, o)] /\ k \in Nat /\ k <= n /\ k >= 1
      /\ \A i, j \in 1 .. n : q[i] = q[j] => i = j
  BY DEF Queue
<1>2. \A i \in 1 .. n : q[i] \in L /\ q[i] \in Held /\ q[i].symbol = o.symbol /\ q[i].left > 0
  BY <1>1 DEF Matching, OfSymbol, Book
<1>3. \A i \in 1 .. (k - 1) : i \in 1 .. n /\ i # k
  BY <1>1
<1>4. q[k] \notin Gone(q, k - 1)
  BY <1>1, <1>3 DEF Gone
<1>5. Gone(q, k) = Gone(q, k - 1) \cup {q[k]}
  <2>1. 1 .. k = (1 .. (k - 1)) \cup {k}
    BY <1>1
  <2> QED
    BY <2>1 DEF Gone
<1> DEFINE G == Gone(q, k - 1)
<1>6. G \in SUBSET L /\ G \in SUBSET Held
  BY <1>2, <1>3 DEF Gone
<1>7. q[k] \in Held /\ LeftFn[q[k]] = q[k].left /\ q[k].left \in Nat /\ q[k].left > 0
  BY <1>2, HeldFields DEF LeftFn
<1> HIDE DEF G
<1>8. IsFiniteSet(G) /\ Numbers(LeftFn, G) /\ \A l \in G : LeftFn[l] \in Nat
  BY <1>6, FS_Subset, LotNumbers DEF Book
<1>9. SumIn(LeftFn, G) \in Nat
  BY <1>8, TotalNat
<1>10. SumIn(LeftFn, G \cup {q[k]}) = q[k].left + SumIn(LeftFn, G)
  <2> DEFINE x == q[k]
  <2>1. x \notin G /\ LeftFn[x] \in Int /\ LeftFn[x] = x.left
    BY <1>4, <1>7 DEF G
  <2> HIDE DEF x
  <2>2. SumIn(LeftFn, G \cup {x}) = LeftFn[x] + SumIn(LeftFn, G)
    BY <1>8, <2>1, TotalAdd
  <2> QED
    BY <2>1, <2>2 DEF x
<1> DEFINE a == o.quantity
           T == SumIn(LeftFn, G)
           m == q[k].left
<1>11. a \in Nat /\ T \in Nat /\ m \in Nat /\ m > 0
  BY <1>7, <1>9 DEF SaleOf
<1>12. Rest(o, q, k) = Max({0, a - (m + T)}) /\ Rest(o, q, k - 1) = Max({0, a - T})
  BY <1>5, <1>10 DEF Rest, G
<1> HIDE DEF a, T, m
<1> DEFINE r == Max({0, a - T})
<1>13. Max({0, a - (m + T)}) = (IF 0 >= a - (m + T) THEN 0 ELSE a - (m + T))
       /\ r = (IF 0 >= a - T THEN 0 ELSE a - T) /\ r \in Nat
  BY <1>11, MaxPair
<1>14. Min({m, r}) = (IF m <= r THEN m ELSE r)
  <2> HIDE DEF r
  <2> QED
    BY <1>11, <1>13, MinPair
<1> HIDE DEF r
<1>15. Max({0, a - (m + T)}) = r - Min({m, r})
  BY <1>11, <1>13, <1>14
<1>16. Rest(o, q, k) = Rest(o, q, k - 1) - Min({q[k].left, Rest(o, q, k - 1)})
  BY <1>12, <1>15 DEF r, m
<1> QED
  BY <1>2, <1>4, <1>5, <1>12, <1>13, <1>16 DEF r

(* Kin is reflexive and transitive.                                          *)
LEMMA KinFollows ==
  /\ \A l : Kin(l, l)
  /\ \A l, x, z : Kin(l, x) /\ Kin(x, z) => Kin(l, z)
  BY DEF Kin

(* The invariant holds before the first lot,                                 *)
LEMMA SaleStarts ==
  ASSUME NEW L, Book(L), NEW o, SaleOf(o), NEW q
  PROVE  SaleInv(L, o, q, 0, SaleStart(L, o))
<1> DEFINE a == SaleStart(L, o)
<1>1. a.todo = o.quantity /\ a.basis = 0 /\ a.ids = {} /\ a.lots = L
  BY DEF SaleStart
<1> HIDE DEF a
<1>2. 1 .. 0 = {} /\ Gone(q, 0) = {}
  BY DEF Gone
<1>3. Rest(o, q, 0) = o.quantity
  <2>1. IsFiniteSet({}) /\ Numbers(LeftFn, {})
    BY FS_EmptySet DEF Numbers
  <2>2. SumIn(LeftFn, Gone(q, 0)) = 0
    BY <1>2, <2>1, TotalStep
  <2>3. o.quantity \in Nat
    BY DEF SaleOf
  <2>4. Max({0, o.quantity}) = o.quantity /\ o.quantity - 0 = o.quantity
    BY <2>3, MaxPair
  <2> QED
    BY <2>2, <2>4 DEF Rest
<1>4. /\ BasisOf(L) \in Nat
      /\ \A s : SharesIn(L, s) \in Nat
      /\ \A l \in L : l.left \in Nat
  BY BasisIsTotal, SharesAreTotal, HeldFields DEF Book
<1>5. o.quantity \in Nat
  BY DEF SaleOf
<1> QED
  BY <1>1, <1>2, <1>3, <1>4, <1>5, KinFollows DEF SaleInv, a

(* is kept by every turn,                                                    *)
LEMMA SaleStep ==
  ASSUME NEW L, Book(L), NEW o, SaleOf(o), NEW n, NEW q, Queue(L, o, n, q), NEW k \in 1 .. n,
         NEW acc, SaleInv(L, o, q, k - 1, acc)
  PROVE  SaleInv(L, o, q, k, SellFrom(acc, q[k], o.price))
<1> DEFINE l == q[k]
           t == Min({l.left, acc.todo})
           y == [l EXCEPT !.left = @ - t, !.cur = o.price]
           c == t * l.price + (l.fees * t) \div l.quantity
           new == SellFrom(acc, l, o.price)
<1>1. /\ l \in L /\ l \in Held /\ l.symbol = o.symbol /\ l.left > 0
      /\ l \notin Gone(q, k - 1) /\ Gone(q, k) = Gone(q, k - 1) \cup {l}
      /\ Rest(o, q, k - 1) \in Nat
      /\ Rest(o, q, k) = Rest(o, q, k - 1) - Min({l.left, Rest(o, q, k - 1)})
  <2> HIDE DEF l, t, y, c, new
  <2>1. /\ q[k] \in L /\ q[k] \in Held /\ q[k].symbol = o.symbol /\ q[k].left > 0
        /\ q[k] \notin Gone(q, k - 1) /\ Gone(q, k) = Gone(q, k - 1) \cup {q[k]}
        /\ Rest(o, q, k - 1) \in Nat
        /\ Rest(o, q, k) = Rest(o, q, k - 1) - Min({q[k].left, Rest(o, q, k - 1)})
    BY GoneGrows
  <2>2. l = q[k]
    BY DEF l
  <2> QED
    BY <2>1, <2>2
<1>2. /\ acc.todo = Rest(o, q, k - 1) /\ acc.basis \in Nat
      /\ Book(acc.lots)
      /\ \A j \in acc.lots : \E x \in L : Kin(j, x) /\ j.left <= x.left
      /\ \A x \in L : \E j \in acc.lots : Kin(j, x)
      /\ \A x \in L : x \notin Gone(q, k - 1) => x \in acc.lots
      /\ BasisOf(acc.lots) + acc.basis = BasisOf(L)
      /\ acc.ids \subseteq Ids(L)
      /\ \A j \in acc.lots : j.id \in acc.ids => j.left < j.quantity
  BY DEF SaleInv
<1>3. \A s : SharesIn(acc.lots, s) =
              IF s = o.symbol THEN SharesIn(L, s) - (o.quantity - acc.todo) ELSE SharesIn(L, s)
  BY DEF SaleInv
<1>4. \A j \in 1 .. (k - 1) : \A z \in acc.lots :
        z.id = q[j].id => z.left = q[j].left - Min({q[j].left, Rest(o, q, j - 1)})
  BY DEF SaleInv
<1>5. /\ l.left \in Nat /\ l.price \in Nat /\ l.fees \in Nat /\ l.quantity \in Nat
      /\ l.left <= l.quantity /\ l.quantity > 0 /\ acc.todo \in Nat /\ o.price \in Nat
  BY <1>1, <1>2, HeldFields DEF SaleOf
<1>6. t \in Nat /\ t <= l.left /\ t <= acc.todo /\ (t = 0 => acc.todo = 0)
  BY <1>1, <1>5, MinPair
<1>7. t = Min({l.left, Rest(o, q, k - 1)})
  BY <1>2
<1>8. new = [todo |-> acc.todo - t,
             basis |-> acc.basis + t * l.price + (l.fees * t) \div l.quantity,
             ids |-> IF t > 0 THEN acc.ids \cup {l.id} ELSE acc.ids,
             lots |-> IF t > 0 THEN (acc.lots \ {l}) \cup {y} ELSE acc.lots]
  BY DEF SellFrom
<1>9. l \in acc.lots
  BY <1>1, <1>2
<1> HIDE DEF t
<1>10. /\ y \in Held /\ Kin(y, l) /\ y.left = l.left - t
       /\ Basis(y) = Basis(l) - c /\ c \in Nat
  <2>1. LET z == [l EXCEPT !.left = @ - t, !.cur = o.price]
        IN  /\ z \in Held /\ Kin(z, l) /\ z.left = l.left - t /\ z.cur = o.price
            /\ Basis(z) = Basis(l) - (t * l.price + (l.fees * t) \div l.quantity)
            /\ t * l.price + (l.fees * t) \div l.quantity \in Nat
    <3> DEFINE p == o.price
    <3>1. l \in Held /\ t \in Nat /\ t <= l.left /\ p \in Nat
      BY <1>1, <1>5, <1>6
    <3> HIDE DEF l, p
    <3>2. LET z == [l EXCEPT !.left = @ - t, !.cur = p]
          IN  /\ z \in Held /\ Kin(z, l) /\ z.left = l.left - t /\ z.cur = p
              /\ Basis(z) = Basis(l) - (t * l.price + (l.fees * t) \div l.quantity)
              /\ t * l.price + (l.fees * t) \div l.quantity \in Nat
      BY <3>1, TakenLot
    <3> QED
      BY <3>2 DEF p
  <2> QED
    BY <2>1
<1>11. l.fees * t \in Nat /\ t * l.price \in Nat /\ (l.fees * t) \div l.quantity \in Int
  <2> DEFINE a == l.fees * t
             d == l.quantity
  <2>1. a \in Nat /\ t * l.price \in Nat /\ d \in Nat /\ d > 0
    BY <1>5, <1>6, NatTimes
  <2> HIDE DEF a, d
  <2>2. a \div d \in Int
    BY <2>1
  <2> QED
    BY <2>1, <2>2 DEF a, d
<1>12. new.basis = acc.basis + c
  BY <1>2, <1>8, <1>11
<1> HIDE DEF l, y, c, new
<1>13. new.todo = acc.todo - t /\ acc.todo - t = Rest(o, q, k)
  BY <1>1, <1>2, <1>7, <1>8
<1>14. \A j \in 1 .. k : j \in 1 .. (k - 1) \/ j = k
  BY DEF Queue
<1>15. \A j \in 1 .. n : q[j] \in L
  BY DEF Queue, Matching, OfSymbol
<1>16. \A x, z \in L : x.id = z.id => x = z
  BY DEF Book, OneEach
<1>17. \A j \in 1 .. (k - 1) : q[j] # l
  <2>1. \A j \in 1 .. (k - 1) : q[j] \in Gone(q, k - 1)
    BY DEF Gone
  <2> QED
    BY <1>1, <2>1
<1>18. \A x, z \in acc.lots : x.id = z.id => x = z
  BY <1>2 DEF Book, OneEach
<1>19. \A j \in 1 .. (k - 1) : j \in 1 .. n
  BY DEF Queue
<1>20. \A x \in acc.lots : x \in Held
  BY <1>2 DEF Book
<1>21. \A s : SharesIn(acc.lots, s) \in Nat /\ SharesIn(L, s) \in Nat
  BY <1>2, SharesAreTotal DEF Book
<1>22. o.quantity \in Nat
  BY DEF SaleOf
<1>23. CASE t = 0
  <2>1. new.lots = acc.lots /\ new.ids = acc.ids /\ new.todo = acc.todo
    BY <1>5, <1>6, <1>8, <1>23
  <2>2. c = 0
    <3> DEFINE d == l.quantity
    <3>1. d \in Nat /\ d > 0 /\ l.fees * 0 = 0 /\ 0 * l.price = 0
      BY <1>5
    <3> HIDE DEF d
    <3>2. 0 \div d = 0
      BY <3>1
    <3> QED
      BY <1>23, <3>1, <3>2 DEF c, d
  <2>3. new.basis = acc.basis
    BY <1>2, <1>12, <2>2
  <2>4. \A j \in 1 .. k : \A z \in new.lots :
          z.id = q[j].id => z.left = q[j].left - Min({q[j].left, Rest(o, q, j - 1)})
    <3> SUFFICES ASSUME NEW z \in new.lots, z.id = q[k].id
                 PROVE  z.left = q[k].left - Min({q[k].left, Rest(o, q, k - 1)})
      BY <1>4, <1>14, <2>1
    <3>1. z = l
      BY <1>9, <1>18, <2>1 DEF l
    <3>2. l.left = l.left - 0
      BY <1>5
    <3> QED
      BY <1>7, <1>23, <3>1, <3>2 DEF l
  <2>5. \A x \in L : x \notin Gone(q, k) => x \in new.lots
    BY <1>1, <1>2, <2>1
  <2> QED
    BY <1>2, <1>3, <1>13, <2>1, <2>3, <2>4, <2>5 DEF SaleInv, new, l
<1>24. CASE t # 0
  <2>1. new.lots = (acc.lots \ {l}) \cup {y} /\ new.ids = acc.ids \cup {l.id} /\ t > 0
    BY <1>6, <1>8, <1>24
  <2>2. y.id = l.id /\ y.symbol = l.symbol /\ y.quantity = l.quantity
    BY <1>10 DEF Kin
  <2>3. /\ Book(new.lots)
        /\ BasisOf(new.lots) = (BasisOf(acc.lots) - Basis(l)) + Basis(y)
        /\ \A s : SharesIn(new.lots, s) =
                    IF s = l.symbol THEN (SharesIn(acc.lots, s) - l.left) + y.left
                    ELSE SharesIn(acc.lots, s)
    <3> DEFINE B == acc.lots
    <3>1. Book(B) /\ l \in B /\ y \in Held
      BY <1>2, <1>9, <1>10
    <3> HIDE DEF B
    <3>2. LET C == (B \ {l}) \cup {y}
          IN  /\ Book(C)
              /\ BasisOf(C) = (BasisOf(B) - Basis(l)) + Basis(y)
              /\ \A s : SharesIn(C, s) =
                    IF s = l.symbol THEN (SharesIn(B, s) - l.left) + y.left ELSE SharesIn(B, s)
      BY <2>2, <3>1, Replacing
    <3> QED
      BY <2>1, <3>2 DEF B
  <2>4. BasisOf(new.lots) + new.basis = BasisOf(L) /\ new.basis \in Nat
    <3>1. BasisOf(acc.lots) \in Nat /\ Basis(l) \in Nat
      BY <1>1, <1>2, BasisIsTotal, BasisOfHeld DEF Book
    <3> QED
      BY <1>2, <1>10, <1>12, <2>3, <3>1
  <2>5. ASSUME NEW s
        PROVE  SharesIn(new.lots, s) =
                 IF s = o.symbol THEN SharesIn(L, s) - (o.quantity - new.todo) ELSE SharesIn(L, s)
    <3>1. SharesIn(acc.lots, s) =
              IF s = o.symbol THEN SharesIn(L, s) - (o.quantity - acc.todo) ELSE SharesIn(L, s)
      BY <1>3
    <3>2. SharesIn(new.lots, s) =
            IF s = l.symbol THEN (SharesIn(acc.lots, s) - l.left) + y.left
            ELSE SharesIn(acc.lots, s)
      BY <2>3
    <3>3. y.left = l.left - t /\ new.todo = acc.todo - t
      BY <1>10, <1>13
    <3>4. SharesIn(acc.lots, s) \in Nat /\ SharesIn(L, s) \in Nat
      BY <1>21
    <3> QED
      BY <1>1, <1>5, <1>6, <1>22, <3>1, <3>2, <3>3, <3>4
  <2>6. \A j \in new.lots : \E x \in L : Kin(j, x) /\ j.left <= x.left
    <3>1. y.left <= l.left
      BY <1>5, <1>6, <1>10
    <3> QED
      BY <1>1, <1>2, <1>10, <2>1, <3>1
  <2>7. \A x \in L : \E j \in new.lots : Kin(j, x)
    <3> SUFFICES ASSUME NEW x \in L
                 PROVE  \E j \in new.lots : Kin(j, x)
      OBVIOUS
    <3>1. PICK j \in acc.lots : Kin(j, x)
      BY <1>2
    <3>2. CASE j = l
      BY <1>10, <2>1, <3>1, <3>2, KinFollows
    <3>3. CASE j # l
      BY <2>1, <3>1, <3>3
    <3> QED
      BY <3>2, <3>3
  <2>8. \A x \in L : x \notin Gone(q, k) => x \in new.lots
    BY <1>1, <1>2, <2>1
  <2>9. new.ids \subseteq Ids(L)
    BY <1>1, <1>2, <2>1 DEF Ids
  <2>10. ASSUME NEW j \in new.lots, j.id \in new.ids
         PROVE  j.left < j.quantity
    <3>1. CASE j = y
      BY <1>5, <1>6, <1>10, <2>1, <2>2, <3>1
    <3>2. CASE j # y
      <4>1. j \in acc.lots /\ j # l
        BY <2>1, <3>2
      <4>2. j.id # l.id
        BY <1>9, <1>18, <4>1
      <4> QED
        BY <1>2, <2>1, <2>10, <4>1, <4>2
    <3> QED
      BY <3>1, <3>2
  <2>11. ASSUME NEW j \in 1 .. k, NEW z \in new.lots, z.id = q[j].id
         PROVE  z.left = q[j].left - Min({q[j].left, Rest(o, q, j - 1)})
    <3>1. CASE z = y
      <4>1. l.id = q[j].id
        BY <2>2, <2>11, <3>1
      <4>2. q[j] = l
        BY <1>1, <1>14, <1>15, <1>16, <1>19, <4>1 DEF l
      <4>3. j = k
        BY <1>14, <1>17, <4>2
      <4> QED
        BY <1>7, <1>10, <3>1, <4>3 DEF l
    <3>2. CASE z # y
      <4>1. z \in acc.lots /\ z # l
        BY <2>1, <3>2
      <4>2. z.id # l.id
        BY <1>9, <1>18, <4>1
      <4>3. j \in 1 .. (k - 1)
        BY <1>14, <2>11, <4>2 DEF l
      <4> QED
        BY <1>4, <2>11, <4>1, <4>3
    <3> QED
      BY <3>1, <3>2
  <2>12. new.todo = Rest(o, q, k)
    BY <1>13
  <2> QED
    BY <2>3, <2>4, <2>5, <2>6, <2>7, <2>8, <2>9, <2>10, <2>11, <2>12 DEF SaleInv, new, l
<1> QED
  BY <1>23, <1>24

(* and so holds after the last.                                              *)
LEMMA SaleEnds ==
  ASSUME NEW L, Book(L), NEW o, SaleOf(o)
  PROVE  LET n == Cardinality(Matching(L, o))
             q == InOrder(Matching(L, o))
         IN  Queue(L, o, n, q) /\ SaleInv(L, o, q, n, Sold(L, o))
<1> DEFINE M == Matching(L, o)
           n == Cardinality(M)
           q == InOrder(M)
<1>1. Book(M)
  BY SubBook DEF Matching, OfSymbol
<1>2. Queue(L, o, n, q)
  BY <1>1, InOrderSorts DEF Queue
<1>3. PICK F : Loop(L, o, n, q, F) /\ Sold(L, o) = F[n]
  BY SaleLoop
<1> HIDE DEF M, n, q
<1> DEFINE P == {k \in Nat : k <= n => SaleInv(L, o, q, k, F[k])}
<1>4. 0 \in P
  BY <1>3, SaleStarts DEF Loop
<1>5. ASSUME NEW k \in P
      PROVE  k + 1 \in P
  <2>1. CASE k + 1 <= n
    <3>1. n \in Nat
      BY <1>2 DEF Queue
    <3>2. k + 1 \in 1 .. n /\ (k + 1) - 1 = k /\ k <= n /\ k \in Nat
      BY <2>1, <3>1
    <3> DEFINE j == k + 1
    <3>3. SaleInv(L, o, q, j - 1, F[j - 1])
      BY <3>2
    <3>4. F[j] = SellFrom(F[j - 1], q[j], o.price)
      BY <1>3, <3>2 DEF Loop
    <3>5. j \in 1 .. n
      BY <3>2
    <3> HIDE DEF j
    <3>6. SaleInv(L, o, q, j, F[j])
      BY <1>2, <3>3, <3>4, <3>5, SaleStep
    <3> QED
      BY <3>2, <3>6 DEF j
  <2> QED
    BY <2>1
<1>6. P = Nat
  <2> HIDE DEF P
  <2>1. P \in SUBSET Nat
    BY DEF P
  <2> QED
    BY <1>4, <1>5, <2>1, Counting
<1>7. SaleInv(L, o, q, n, F[n])
  BY <1>2, <1>6 DEF Queue
<1> QED
  BY <1>2, <1>3, <1>7 DEF q, n, M

(* Lots that only get a new current price.                                   *)
LEMMA Repricing ==
  ASSUME NEW B, Book(B), NEW h,
         \A l \in B : h[l] \in Held /\ Kin(h[l], l) /\ h[l].left = l.left
  PROVE  LET C == {h[l] : l \in B}
         IN  /\ Book(C) /\ BasisOf(C) = BasisOf(B)
             /\ \A s : SharesIn(C, s) = SharesIn(B, s)
<1> DEFINE C == {h[l] : l \in B}
<1>1. B \subseteq Held /\ IsFiniteSet(B) /\ \A k, j \in B : k.id = j.id => k = j
  BY DEF Book, OneEach
<1>2. \A l, k \in B : h[l].id = h[k].id => l = k
  BY <1>1 DEF Kin
<1>3. \A l, k \in B : h[l] = h[k] => l = k
  BY <1>2
<1>4. IsFiniteSet(C)
  <2> DEFINE f == [l \in B |-> h[l]]
  <2>1. f \in Surjection(B, C)
    BY DEF Surjection
  <2> HIDE DEF f, C
  <2> QED
    BY <1>1, <2>1, FS_Surjection
<1>5. Book(C)
  <2>1. OneEach(C)
    BY <1>2 DEF OneEach
  <2>2. C \subseteq Held
    OBVIOUS
  <2> HIDE DEF C
  <2> QED
    BY <1>4, <2>1, <2>2 DEF Book
<1>6. \A l \in B : CostFn[h[l]] = CostFn[l] /\ LeftFn[h[l]] = LeftFn[l]
  <2> SUFFICES ASSUME NEW l \in B
               PROVE  CostFn[h[l]] = CostFn[l] /\ LeftFn[h[l]] = LeftFn[l]
    OBVIOUS
  <2>1. h[l] \in Held /\ l \in Held /\ Kin(h[l], l) /\ h[l].left = l.left
    BY <1>1
  <2>2. Basis(h[l]) = Basis(l)
    BY <2>1 DEF Basis, Kin
  <2> QED
    BY <2>1, <2>2 DEF CostFn, LeftFn
<1>7. Numbers(CostFn, B) /\ \A s : Numbers(LeftFn, OfSymbol(B, s))
  <2>1. \A s : OfSymbol(B, s) \in SUBSET Held
    BY <1>1 DEF OfSymbol
  <2> QED
    BY <1>1, <2>1, LotNumbers
<1>8. SumIn(CostFn, C) = SumIn(CostFn, B)
  BY <1>1, <1>3, <1>6, <1>7, TotalMoved
<1>9. ASSUME NEW s
      PROVE  SharesIn(C, s) = SharesIn(B, s)
  <2> DEFINE O == OfSymbol(B, s)
  <2>1. OfSymbol(C, s) = {h[l] : l \in O}
    BY DEF OfSymbol, Kin
  <2>2. IsFiniteSet(O) /\ O \in SUBSET B
    BY <1>1, FS_Subset DEF OfSymbol
  <2>3. Numbers(LeftFn, O)
    BY <1>7
  <2> HIDE DEF O
  <2>4. SumIn(LeftFn, {h[l] : l \in O}) = SumIn(LeftFn, O)
    BY <1>3, <1>6, <2>2, <2>3, TotalMoved
  <2> HIDE DEF C
  <2> QED
    BY <1>1, <1>5, <2>1, <2>4, SharesAreTotal DEF Book, O
<1>10. BasisOf(C) = BasisOf(B)
  <2> HIDE DEF C
  <2> QED
    BY <1>1, <1>5, <1>8, BasisIsTotal DEF Book
<1> QED
  BY <1>5, <1>9, <1>10

(* Lots without a share left do not count.                                   *)
LEMMA ZerosAside ==
  ASSUME NEW S \in SUBSET Held, IsFiniteSet(S), NEW T \in SUBSET S,
         \A l \in S \ T : l.left = 0
  PROVE  SumIn(LeftFn, S) = SumIn(LeftFn, T)
<1> DEFINE Z == S \ T
<1>1. /\ IsFiniteSet(T) /\ IsFiniteSet(Z) /\ T \cap Z = {} /\ T \cup Z = S
      /\ T \in SUBSET Held /\ Z \in SUBSET Held
  BY FS_Subset
<1>2. \A l \in Z : LeftFn[l] = 0
  BY DEF LeftFn
<1> HIDE DEF Z
<1>3. Numbers(LeftFn, T) /\ Numbers(LeftFn, Z)
  BY <1>1, LotNumbers
<1>4. SumIn(LeftFn, T \cup Z) = SumIn(LeftFn, T) + SumIn(LeftFn, Z)
  BY <1>1, <1>3, TotalUnion
<1>5. SumIn(LeftFn, Z) = 0
  BY <1>1, <1>2, TotalZero
<1>6. SumIn(LeftFn, T) \in Int
  BY <1>1, <1>3, TotalStep
<1>7. SumIn(LeftFn, S) = SumIn(LeftFn, T) + 0
  BY <1>1, <1>4, <1>5
<1> QED
  BY <1>6, <1>7

(* The shares in the lots that come before l, and what a sale in order takes *)
(* from l.                                                                   *)
Older(L, l) == MapThenSumSet(LAMBDA k : k.left, {k \in L : Before(k, l)})
Taken(L, o, l) == Min({l.left, Max({0, o.quantity - Older(L, l)})})

(* What a sale promises: a book of the same lots, which lost the shares      *)
(* sold, oldest lots first, and whose basis lost what the proceeds did not   *)
(* realise; every lot named was consumed at least in part.                   *)
SaleIsRight(L, o, r) ==
  /\ Book(r.lots) /\ r.realized \in Int
  /\ \A l \in r.lots : \E x \in L : Kin(l, x) /\ l.left <= x.left
  /\ \A x \in L : \E l \in r.lots : Kin(l, x)
  /\ BasisOf(r.lots) + (o.quantity * o.price - o.fees) = BasisOf(L) + r.realized
  /\ \A s : SharesIn(r.lots, s) =
              IF s = o.symbol THEN SharesIn(L, s) - o.quantity ELSE SharesIn(L, s)
  /\ r.ids \subseteq Ids(L)
  /\ \A l \in r.lots : l.id \in r.ids => l.left < l.quantity
  /\ \A l \in OfSymbol(L, o.symbol) :
       \E k \in r.lots : k.id = l.id /\ k.left = l.left - Taken(L, o, l)

(* _apply_fifo_sale keeps the promise, if the book holds the shares sold.    *)
LEMMA SaleResult ==
  ASSUME NEW L, Book(L), NEW o, SaleOf(o), SharesIn(L, o.symbol) >= o.quantity
  PROVE  SaleIsRight(L, o, ApplyFifoSale(L, o))
<1> DEFINE M == Matching(L, o)
           n == Cardinality(M)
           q == InOrder(M)
           acc == Sold(L, o)
           r == ApplyFifoSale(L, o)
           h == [l \in acc.lots |-> IF l.symbol = o.symbol /\ l.left > 0
                                    THEN [l EXCEPT !.cur = o.price] ELSE l]
<1>1. Queue(L, o, n, q) /\ SaleInv(L, o, q, n, acc)
  BY SaleEnds
<1>2. r.lots = {IF l.symbol = o.symbol /\ l.left > 0 THEN [l EXCEPT !.cur = o.price] ELSE l :
                  l \in acc.lots}
      /\ r.realized = o.quantity * o.price - o.fees - acc.basis /\ r.ids = acc.ids
  BY DEF ApplyFifoSale, Sold, SaleStart, Matching
<1>3. L \subseteq Held /\ IsFiniteSet(L) /\ M \in SUBSET L /\ Book(M)
  BY SubBook DEF Book, Matching, OfSymbol
<1>4. /\ n \in Nat /\ q \in [1 .. n -> M]
      /\ \A i, j \in 1 .. n : q[i] = q[j] => i = j
      /\ \A l \in M : \E i \in 1 .. n : q[i] = l
      /\ \A i, j \in 1 .. n : i < j => Earlier(q[i], q[j])
  BY <1>3, InOrderSorts
<1>5. o.quantity \in Nat /\ o.price \in Nat /\ o.fees \in Nat
  BY DEF SaleOf
<1>6. \A l \in L : l.symbol = o.symbol /\ l.left > 0 <=> l \in M
  BY DEF Matching, OfSymbol
<1>7. \A l \in M : l \in L /\ l.symbol = o.symbol /\ l.left > 0
  BY DEF Matching, OfSymbol
<1> HIDE DEF M, n, q, acc, r
<1>8. Book(acc.lots) /\ acc.basis \in Nat
  BY <1>1 DEF SaleInv
<1>9. \A l \in acc.lots : h[l] \in Held /\ Kin(h[l], l) /\ h[l].left = l.left
  <2> SUFFICES ASSUME NEW l \in acc.lots
               PROVE  h[l] \in Held /\ Kin(h[l], l) /\ h[l].left = l.left
    OBVIOUS
  <2>1. l \in Held /\ l \in Wide
    BY <1>8, HeldIsWide DEF Book
  <2> DEFINE y == [l EXCEPT !.cur = o.price]
             p == o.price
  <2>2. /\ y \in Wide
        /\ y.id = l.id /\ y.symbol = l.symbol /\ y.quantity = l.quantity
        /\ y.left = l.left /\ y.price = l.price /\ y.cur = o.price
        /\ y.fees = l.fees /\ y.at = l.at
    BY <1>5, <2>1 DEF Wide
  <2>3. h[l] = IF l.symbol = o.symbol /\ l.left > 0 THEN y ELSE l
    OBVIOUS
  <2> HIDE DEF y, h
  <2>4. y \in Held
    BY <1>5, <2>1, <2>2 DEF Held, Lot, Wide
  <2>5. Kin(y, l) /\ Kin(l, l)
    BY <2>2 DEF Kin
  <2> QED
    BY <2>1, <2>2, <2>3, <2>4, <2>5
<1>10. r.lots = {h[l] : l \in acc.lots}
  BY <1>2
<1> HIDE DEF h
<1>11. /\ Book(r.lots) /\ BasisOf(r.lots) = BasisOf(acc.lots)
       /\ \A s : SharesIn(r.lots, s) = SharesIn(acc.lots, s)
  <2> DEFINE B == acc.lots
  <2>1. Book(B) /\ \A l \in B : h[l] \in Held /\ Kin(h[l], l) /\ h[l].left = l.left
    BY <1>8, <1>9
  <2> HIDE DEF B
  <2>2. LET C == {h[l] : l \in B}
        IN  /\ Book(C) /\ BasisOf(C) = BasisOf(B)
            /\ \A s : SharesIn(C, s) = SharesIn(B, s)
    BY <2>1, Repricing
  <2> QED
    BY <1>10, <2>2 DEF B
<1>12. acc.todo = 0
  <2>1. Gone(q, n) = M
    BY <1>4 DEF Gone
  <2>2. OfSymbol(L, o.symbol) \in SUBSET Held /\ IsFiniteSet(OfSymbol(L, o.symbol))
        /\ M \in SUBSET OfSymbol(L, o.symbol)
    BY <1>3, <1>7, FS_Subset DEF OfSymbol
  <2>3. \A l \in OfSymbol(L, o.symbol) \ M : l.left = 0
    BY <1>3, <1>6, HeldFields DEF OfSymbol
  <2>4. SumIn(LeftFn, OfSymbol(L, o.symbol)) = SumIn(LeftFn, M)
    BY <2>2, <2>3, ZerosAside
  <2>5. SharesIn(L, o.symbol) = SumIn(LeftFn, M) /\ SharesIn(L, o.symbol) \in Nat
    BY <1>3, <2>4, SharesAreTotal
  <2>6. Max({0, o.quantity - SumIn(LeftFn, M)}) = 0
    BY <1>5, <2>5, MaxPair
  <2>7. acc.todo = Rest(o, q, n)
    BY <1>1 DEF SaleInv
  <2> QED
    BY <2>1, <2>6, <2>7 DEF Rest
<1>13. \A l \in r.lots : \E x \in acc.lots : Kin(l, x) /\ l.left = x.left
  BY <1>9, <1>10
<1>14. \A x \in acc.lots : \E l \in r.lots : Kin(l, x) /\ l.left = x.left
  BY <1>9, <1>10
<1>15. /\ \A l \in acc.lots : \E x \in L : Kin(l, x) /\ l.left <= x.left
       /\ \A x \in L : \E l \in acc.lots : Kin(l, x)
       /\ acc.ids \subseteq Ids(L)
       /\ \A l \in acc.lots : l.id \in acc.ids => l.left < l.quantity
       /\ \A x \in L : x \notin Gone(q, n) => x \in acc.lots
       /\ BasisOf(acc.lots) + acc.basis = BasisOf(L)
  BY <1>1 DEF SaleInv
<1>16. \A l \in r.lots : \E x \in L : Kin(l, x) /\ l.left <= x.left
  BY <1>13, <1>15, KinFollows
<1>17. \A x \in L : \E l \in r.lots : Kin(l, x)
  BY <1>14, <1>15, KinFollows
<1>18. /\ r.realized \in Int
       /\ BasisOf(r.lots) + (o.quantity * o.price - o.fees) = BasisOf(L) + r.realized
  <2> DEFINE a == o.quantity * o.price
             b == BasisOf(acc.lots)
  <2>1. a \in Int /\ b \in Int
    BY <1>5, <1>8, BasisIsTotal DEF Book
  <2>2. r.realized = a - o.fees - acc.basis /\ b + acc.basis = BasisOf(L) /\ BasisOf(r.lots) = b
    BY <1>2, <1>11, <1>15
  <2> HIDE DEF a, b
  <2>3. r.realized \in Int /\ b + (a - o.fees) = BasisOf(L) + r.realized
    BY <1>5, <1>8, <2>1, <2>2
  <2> QED
    BY <2>2, <2>3 DEF a
<1>19. \A s : SharesIn(r.lots, s) =
              IF s = o.symbol THEN SharesIn(L, s) - o.quantity ELSE SharesIn(L, s)
  <2>1. \A s : SharesIn(acc.lots, s) =
              IF s = o.symbol THEN SharesIn(L, s) - (o.quantity - acc.todo) ELSE SharesIn(L, s)
    BY <1>1 DEF SaleInv
  <2>2. o.quantity - acc.todo = o.quantity
    BY <1>5, <1>12
  <2> QED
    BY <1>11, <2>1, <2>2
<1>20. \A l \in r.lots : l.id \in r.ids => l.left < l.quantity
  BY <1>2, <1>13, <1>15 DEF Kin
<1>21. ASSUME NEW l \in OfSymbol(L, o.symbol)
       PROVE  \E k \in r.lots : k.id = l.id /\ k.left = l.left - Taken(L, o, l)
  <2> DEFINE S == {k \in L : Before(k, l)}
  <2>1. l \in L /\ l \in Held /\ l.symbol = o.symbol /\ l.left \in Nat
    BY <1>3, HeldFields DEF OfSymbol
  <2>2. S \in SUBSET Held /\ IsFiniteSet(S)
    BY <1>3, FS_Subset
  <2> HIDE DEF S
  <2>3. Older(L, l) = SumIn(LeftFn, S) /\ SumIn(LeftFn, S) \in Nat
    BY <2>2, LeftIsTotal DEF Older, S
  <2>4. CASE l.left = 0
    <3>1. Max({0, o.quantity - Older(L, l)}) \in Nat
      <4> DEFINE x == o.quantity - Older(L, l)
      <4>1. x \in Int
        BY <1>5, <2>3
      <4> HIDE DEF x
      <4>2. Max({0, x}) = (IF 0 >= x THEN 0 ELSE x)
        BY <4>1, MaxPair
      <4>3. Max({0, x}) \in Nat
        BY <4>1, <4>2
      <4> QED
        BY <4>3 DEF x
    <3> DEFINE m == Max({0, o.quantity - Older(L, l)})
    <3>2. Min({0, m}) = 0
      <4>1. m \in Nat
        BY <3>1
      <4> HIDE DEF m
      <4> QED
        BY <4>1, MinPair
    <3> HIDE DEF m
    <3>3. Taken(L, o, l) = 0
      BY <2>4, <3>2 DEF Taken, m
    <3>4. l \notin M
      BY <1>7, <2>4
    <3>5. Gone(q, n) \subseteq M
      BY <1>4 DEF Gone
    <3>6. l \in acc.lots
      BY <1>15, <2>1, <3>4, <3>5
    <3>7. PICK k \in r.lots : Kin(k, l) /\ k.left = l.left
      BY <1>14, <3>6
    <3> QED
      BY <2>4, <3>3, <3>7 DEF Kin
  <2>5. CASE l.left # 0
    <3>1. l \in M
      BY <1>6, <2>1, <2>5
    <3>2. PICK j \in 1 .. n : q[j] = l
      BY <1>4, <3>1
    <3> DEFINE G == Gone(q, j - 1)
    <3>3. G \subseteq S
      <4> SUFFICES ASSUME NEW i \in 1 .. (j - 1)
                   PROVE  q[i] \in S
        BY DEF Gone
      <4>1. i \in 1 .. n /\ i < j
        BY <1>4
      <4>2. Earlier(q[i], l) /\ q[i] \in M
        BY <1>4, <3>2, <4>1
      <4> QED
        BY <1>7, <2>1, <4>2 DEF S, Before, Earlier
    <3>4. \A k \in S \ G : k.left = 0
      <4> SUFFICES ASSUME NEW k \in S, k.left # 0
                   PROVE  k \in G
        OBVIOUS
      <4>1. k \in L /\ k.symbol = o.symbol /\ Earlier(k, l) /\ k \in Held
        BY <1>3, <2>1 DEF S, Before, Earlier
      <4>2. k \in M
        BY <1>6, <4>1, HeldFields
      <4>3. PICK i \in 1 .. n : q[i] = k
        BY <1>4, <4>2
      <4>4. i < j
        <5>1. ~Earlier(l, k) /\ k # l
          BY <1>3, <2>1, <4>1, EarlierOrders
        <5> QED
          BY <1>4, <3>2, <4>3, <5>1
      <4>5. i \in 1 .. (j - 1)
        BY <1>4, <4>4
      <4> QED
        BY <4>3, <4>5 DEF Gone
    <3> HIDE DEF G
    <3>5. SumIn(LeftFn, S) = SumIn(LeftFn, G)
      BY <2>2, <3>3, <3>4, ZerosAside
    <3>6. Taken(L, o, l) = Min({q[j].left, Rest(o, q, j - 1)})
      BY <2>3, <3>2, <3>5 DEF Taken, Rest, G
    <3>7. PICK x \in acc.lots : Kin(x, l)
      BY <1>15, <2>1
    <3>8. x.left = q[j].left - Min({q[j].left, Rest(o, q, j - 1)})
      BY <1>1, <3>2, <3>7 DEF SaleInv, Kin
    <3>9. PICK k \in r.lots : Kin(k, x) /\ k.left = x.left
      BY <1>14
    <3> QED
      BY <3>2, <3>6, <3>7, <3>8, <3>9 DEF Kin
  <2> QED
    BY <2>4, <2>5
<1> QED
  BY <1>2, <1>11, <1>15, <1>16, <1>17, <1>18, <1>19, <1>20, <1>21 DEF SaleIsRight, r

-----------------------------------------------------------------------------
(* The position rows that a rebuild makes out of the lots.                   *)

(* The row of one symbol, and rows of different symbols.                     *)
Row(L, s) == [symbol |-> s, quantity |-> SharesIn(L, s), basis |-> BasisOf(OfSymbol(L, s)),
              value |-> MapThenSumSet(LAMBDA l : l.left * l.cur, OfSymbol(L, s))]
OneRow(P) ==
  P \subseteq PositionRow /\ IsFiniteSet(P) /\ \A p, r \in P : p.symbol = r.symbol => p = r

(* A rebuild makes one row for each symbol that has lots.                    *)
LEMMA RollupRows ==
  ASSUME NEW L, Book(L)
  PROVE  OneRow(Rollup(L)) /\ \A p \in Rollup(L) : \E l \in L : l.symbol = p.symbol
<1> DEFINE S == {l.symbol : l \in {k \in L : k.left > 0}}
<1>1. Rollup(L) = {Row(L, s) : s \in S}
  BY DEF Rollup, Row
<1>2. ASSUME NEW s \in S
      PROVE  Row(L, s) \in PositionRow /\ Row(L, s).symbol = s /\ \E l \in L : l.symbol = s
  <2>1. PICK l \in L : l.symbol = s
    OBVIOUS
  <2>2. OfSymbol(L, s) \in SUBSET Held /\ IsFiniteSet(OfSymbol(L, s)) /\ L \in SUBSET Held
        /\ IsFiniteSet(L)
    BY FS_Subset DEF Book, OfSymbol
  <2>3. SharesIn(L, s) \in Nat /\ BasisOf(OfSymbol(L, s)) \in Nat
        /\ MapThenSumSet(LAMBDA k : k.left * k.cur, OfSymbol(L, s)) \in Nat
    BY <2>2, SharesAreTotal, BasisIsTotal, ValueIsTotal
  <2>4. s \in Symbols
    BY <2>1, HeldFields DEF Book
  <2> QED
    BY <2>1, <2>3, <2>4 DEF Row, PositionRow
<1>3. IsFiniteSet(Rollup(L))
  <2> DEFINE K == {k \in L : k.left > 0}
             f == [l \in K |-> Row(L, l.symbol)]
  <2>1. IsFiniteSet(K)
    BY FS_Subset DEF Book
  <2>2. Rollup(L) = {Row(L, l.symbol) : l \in K}
    BY <1>1
  <2>3. f \in Surjection(K, Rollup(L))
    <3> HIDE DEF K
    <3>1. \A l \in K : f[l] \in Rollup(L)
      BY <2>2
    <3>2. \A r \in Rollup(L) : \E l \in K : f[l] = r
      BY <2>2
    <3> QED
      BY <3>1, <3>2 DEF Surjection
  <2> HIDE DEF K, f
  <2> QED
    BY <2>1, <2>3, FS_Surjection
<1> HIDE DEF S
<1>4. \A p \in Rollup(L) : \E s \in S : p = Row(L, s)
  BY <1>1
<1>5. \A p \in Rollup(L) :
        p \in PositionRow /\ p = Row(L, p.symbol) /\ \E l \in L : l.symbol = p.symbol
  BY <1>2, <1>4
<1> QED
  BY <1>3, <1>5 DEF OneRow

(* No lots, no rows.                                                         *)
LEMMA EmptyBook ==
  Book({}) /\ OneRow({}) /\ Rollup({}) = {} /\ Ids({}) = {}
<1>1. Book({}) /\ OneRow({}) /\ Ids({}) = {}
  BY FS_EmptySet DEF Book, OneEach, OneRow, Ids
<1>2. Rollup({}) = {}
  BY <1>1, RollupRows
<1> QED
  BY <1>1, <1>2

(* A book has as many lots as identifiers,                                   *)
LEMMA BookCounts ==
  ASSUME NEW L, Book(L)
  PROVE  Cardinality(Ids(L)) = Cardinality(L)
<1> DEFINE f == [l \in L |-> l.id]
<1>1. f \in Bijection(L, Ids(L)) /\ IsFiniteSet(L)
  BY DEF Bijection, Injection, Surjection, IsInjective, Book, OneEach, Ids
<1>2. ExistsBijection(L, Ids(L))
  BY <1>1 DEF ExistsBijection
<1> QED
  BY <1>1, <1>2, FS_Bijection

(* and as many rows as symbols.                                              *)
LEMMA RowsCount ==
  ASSUME NEW P, OneRow(P)
  PROVE  Cardinality({p.symbol : p \in P}) = Cardinality(P)
<1> DEFINE S == {p.symbol : p \in P}
           f == [p \in P |-> p.symbol]
<1>1. f \in Bijection(P, S) /\ IsFiniteSet(P)
  BY DEF Bijection, Injection, Surjection, IsInjective, OneRow
<1> HIDE DEF f, S
<1>2. ExistsBijection(P, S)
  BY <1>1 DEF ExistsBijection
<1>3. Cardinality(S) = Cardinality(P)
  BY <1>1, <1>2, FS_Bijection
<1> QED
  BY <1>3 DEF S

(* A quote changes the value of a row and nothing else.                      *)
LEMMA RepricedRows ==
  ASSUME NEW P, OneRow(P), NEW q, q.price \in Nat
  PROVE  OneRow({IF p.symbol = q.symbol THEN [p EXCEPT !.value = p.quantity * q.price] ELSE p :
                   p \in P})
<1> DEFINE h(p) == IF p.symbol = q.symbol THEN [p EXCEPT !.value = p.quantity * q.price] ELSE p
           R == {h(p) : p \in P}
<1>1. ASSUME NEW p \in P
      PROVE  h(p) \in PositionRow /\ h(p).symbol = p.symbol
  <2>1. p \in PositionRow
    BY DEF OneRow
  <2>2. p.quantity * q.price \in Nat
    BY <2>1, NatTimes DEF PositionRow
  <2> QED
    BY <2>1, <2>2 DEF PositionRow
<1>2. IsFiniteSet(R)
  <2> DEFINE f == [p \in P |-> h(p)]
  <2>1. f \in Surjection(P, R)
    BY DEF Surjection
  <2>2. IsFiniteSet(P)
    BY DEF OneRow
  <2> HIDE DEF f, R
  <2> QED
    BY <2>1, <2>2, FS_Surjection
<1>3. \A p, r \in P : p.symbol = r.symbol => p = r
  BY DEF OneRow
<1> HIDE DEF h
<1>4. \A p, r \in R : p.symbol = r.symbol => p = r
  BY <1>1, <1>3
<1>5. OneRow(R)
  BY <1>1, <1>2, <1>4 DEF OneRow
<1> QED
  BY <1>5 DEF h

-----------------------------------------------------------------------------
(* The calls that an operation still has to make, as sequences: every tail   *)
(* of the sequences of the model has a name, and no two of them are equal.   *)

(* The ends of the operations of the model, from the last call backwards.    *)
Snapshot == <<"snapshot">>
Write == PositionSteps
WriteOnly == <<"update_positions">>
Roll == <<"rebuild", "update_positions", "snapshot">>
Pay == <<"update_cash", "rebuild", "update_positions", "snapshot">>
PayOnly == <<"update_cash", "snapshot">>
Record == <<"add_trade", "update_cash", "rebuild", "update_positions", "snapshot">>
Put == <<"replace_lots", "add_trade", "update_cash", "rebuild", "update_positions", "snapshot">>
Todos == {<<>>, Snapshot, Write, WriteOnly, Roll, Pay, PayOnly, Record, Put, BuySteps,
          SellSteps, MoveSteps, ManualSteps, ReplaceSteps, RebuildSteps}

(* The entry that an operation carries, and what a thread is.                *)
BuyEntry == [kind: {"buy"}, symbol: Symbols, quantity: Nat \ {0}, price: Nat, fees: Nat,
             ids: SUBSET LotIds]
SellEntry == [kind: {"sell"}, symbol: Symbols, quantity: Nat \ {0}, price: Nat, fees: Nat,
              ids: SUBSET LotIds, realized: Int]
TradeEntry == BuyEntry \cup SellEntry
Entries == TradeEntry \cup MoveInput \cup {NoEntry}
Threads == [todo: Todos, cash: Int, lots: SUBSET Held, positions: SUBSET PositionRow,
            entry: Entries, outside: BOOLEAN]

(* The length, the first call and all calls of a sequence, which tell them   *)
(* apart.                                                                    *)
Size(s) == Len(s)
First(s) == Head(s)
Shape(s, n, h, X) == Size(s) = n /\ First(s) = h /\ \A x : Contains(s, x) <=> x \in X

(* They are told apart by these.                                             *)
LEMMA Shapes ==
  /\ Shape(Snapshot, 1, "snapshot", {"snapshot"})
  /\ Shape(Write, 2, "update_positions", {"update_positions", "snapshot"})
  /\ Shape(WriteOnly, 1, "update_positions", {"update_positions"})
  /\ Shape(Roll, 3, "rebuild", {"rebuild", "update_positions", "snapshot"})
  /\ Shape(Pay, 4, "update_cash", {"update_cash", "rebuild", "update_positions",
       "snapshot"})
  /\ Shape(PayOnly, 2, "update_cash", {"update_cash", "snapshot"})
  /\ Shape(Record, 5, "add_trade", {"add_trade", "update_cash", "rebuild",
       "update_positions", "snapshot"})
  /\ Shape(Put, 6, "replace_lots", {"replace_lots", "add_trade", "update_cash", "rebuild",
       "update_positions", "snapshot"})
  /\ Shape(BuySteps, 6, "add_lots", {"add_lots", "add_trade", "update_cash", "rebuild",
       "update_positions", "snapshot"})
  /\ Shape(SellSteps, 7, "match_lots", {"match_lots", "replace_lots", "add_trade",
       "update_cash", "rebuild", "update_positions", "snapshot"})
  /\ Shape(MoveSteps, 3, "add_move", {"add_move", "update_cash", "snapshot"})
  /\ Shape(ManualSteps, 4, "add_lots", {"add_lots", "rebuild", "update_positions",
       "snapshot"})
  /\ Shape(ReplaceSteps, 4, "replace_lots", {"replace_lots", "rebuild",
       "update_positions", "snapshot"})
  /\ Shape(RebuildSteps, 2, "rebuild", {"rebuild", "update_positions"})
<1>1. Shape(Snapshot, 1, "snapshot", {"snapshot"})
  BY DEF Shape, Size, First, Contains, Snapshot
<1>2. Shape(Write, 2, "update_positions", {"update_positions", "snapshot"})
  BY DEF Shape, Size, First, Contains, Write, PositionSteps
<1>3. Shape(WriteOnly, 1, "update_positions", {"update_positions"})
  BY DEF Shape, Size, First, Contains, WriteOnly
<1>4. Shape(Roll, 3, "rebuild", {"rebuild", "update_positions", "snapshot"})
  BY DEF Shape, Size, First, Contains, Roll
<1>5. Shape(Pay, 4, "update_cash", {"update_cash", "rebuild", "update_positions",
     "snapshot"})
  BY DEF Shape, Size, First, Contains, Pay
<1>6. Shape(PayOnly, 2, "update_cash", {"update_cash", "snapshot"})
  BY DEF Shape, Size, First, Contains, PayOnly
<1>7. Shape(Record, 5, "add_trade", {"add_trade", "update_cash", "rebuild",
     "update_positions", "snapshot"})
  BY DEF Shape, Size, First, Contains, Record
<1>8. Shape(Put, 6, "replace_lots", {"replace_lots", "add_trade", "update_cash", "rebuild",
     "update_positions", "snapshot"})
  BY DEF Shape, Size, First, Contains, Put
<1>9. Shape(BuySteps, 6, "add_lots", {"add_lots", "add_trade", "update_cash", "rebuild",
     "update_positions", "snapshot"})
  BY DEF Shape, Size, First, Contains, BuySteps
<1>10. Shape(SellSteps, 7, "match_lots", {"match_lots", "replace_lots", "add_trade",
     "update_cash", "rebuild", "update_positions", "snapshot"})
  BY DEF Shape, Size, First, Contains, SellSteps
<1>11. Shape(MoveSteps, 3, "add_move", {"add_move", "update_cash", "snapshot"})
  BY DEF Shape, Size, First, Contains, MoveSteps
<1>12. Shape(ManualSteps, 4, "add_lots", {"add_lots", "rebuild", "update_positions",
     "snapshot"})
  BY DEF Shape, Size, First, Contains, ManualSteps
<1>13. Shape(ReplaceSteps, 4, "replace_lots", {"replace_lots", "rebuild",
     "update_positions", "snapshot"})
  BY DEF Shape, Size, First, Contains, ReplaceSteps
<1>14. Shape(RebuildSteps, 2, "rebuild", {"rebuild", "update_positions"})
  BY DEF Shape, Size, First, Contains, RebuildSteps
<1> QED
  BY <1>1, <1>2, <1>3, <1>4, <1>5, <1>6, <1>7, <1>8, <1>9, <1>10, <1>11, <1>12, <1>13, <1>14

(* The next call of a thread says where in which operation it is.            *)
LEMMA Chart ==
  ASSUME NEW s \in Todos, s # <<>>
  PROVE  /\ Head(s) = "add_lots" => s \in {BuySteps, ManualSteps}
         /\ Head(s) = "match_lots" => s = SellSteps
         /\ Head(s) = "replace_lots" => s \in {Put, ReplaceSteps}
         /\ Head(s) = "add_trade" => s = Record
         /\ Head(s) = "add_move" => s = MoveSteps
         /\ Head(s) = "update_cash" => s \in {Pay, PayOnly}
         /\ Head(s) = "rebuild" => s \in {Roll, RebuildSteps}
         /\ Head(s) = "update_positions" => s \in {Write, WriteOnly}
         /\ Head(s) = "snapshot" => s = Snapshot
<1>1. /\ First(s) = "add_lots" => s \in {BuySteps, ManualSteps}
      /\ First(s) = "match_lots" => s = SellSteps
      /\ First(s) = "replace_lots" => s \in {Put, ReplaceSteps}
      /\ First(s) = "add_trade" => s = Record
      /\ First(s) = "add_move" => s = MoveSteps
      /\ First(s) = "update_cash" => s \in {Pay, PayOnly}
      /\ First(s) = "rebuild" => s \in {Roll, RebuildSteps}
      /\ First(s) = "update_positions" => s \in {Write, WriteOnly}
      /\ First(s) = "snapshot" => s = Snapshot
  BY Shapes DEF Shape, Todos
<1> QED
  BY <1>1 DEF First

(* What is left after the next call.                                         *)
LEMMA Tails ==
  /\ Tail(BuySteps) = Record /\ Tail(ManualSteps) = Roll /\ Tail(SellSteps) = Put
  /\ Tail(Put) = Record /\ Tail(ReplaceSteps) = Roll /\ Tail(Record) = Pay
  /\ Tail(MoveSteps) = PayOnly /\ Tail(Pay) = Roll /\ Tail(PayOnly) = Snapshot
  /\ Tail(Roll) = Write /\ Tail(RebuildSteps) = WriteOnly /\ Tail(Write) = Snapshot
  BY DEF Snapshot, Write, PositionSteps, WriteOnly, Roll, Pay, PayOnly, Record, Put,
         BuySteps, SellSteps, MoveSteps, ManualSteps, ReplaceSteps, RebuildSteps

(* Only two operations end with the call that is next.                       *)
LEMMA Lengths ==
  ASSUME NEW s \in Todos, s # <<>>
  PROVE  Len(s) = 1 <=> s \in {Snapshot, WriteOnly}
<1>1. Size(s) = 1 <=> s \in {Snapshot, WriteOnly}
  BY Shapes DEF Shape, Todos
<1> QED
  BY <1>1 DEF Size

(* No two of the sequences are equal.                                        *)
LEMMA TodosApart ==
  /\ <<>> \notin {Snapshot, Write, WriteOnly, Roll, Pay, PayOnly, Record, Put,
       BuySteps, SellSteps, MoveSteps, ManualSteps, ReplaceSteps, RebuildSteps}
  /\ Snapshot \notin {Write, WriteOnly, Roll, Pay, PayOnly, Record, Put, BuySteps,
       SellSteps, MoveSteps, ManualSteps, ReplaceSteps, RebuildSteps}
  /\ Write \notin {WriteOnly, Roll, Pay, PayOnly, Record, Put, BuySteps, SellSteps,
       MoveSteps, ManualSteps, ReplaceSteps, RebuildSteps}
  /\ WriteOnly \notin {Roll, Pay, PayOnly, Record, Put, BuySteps, SellSteps, MoveSteps,
       ManualSteps, ReplaceSteps, RebuildSteps}
  /\ Roll \notin {Pay, PayOnly, Record, Put, BuySteps, SellSteps, MoveSteps,
       ManualSteps, ReplaceSteps, RebuildSteps}
  /\ Pay \notin {PayOnly, Record, Put, BuySteps, SellSteps, MoveSteps, ManualSteps,
       ReplaceSteps, RebuildSteps}
  /\ PayOnly \notin {Record, Put, BuySteps, SellSteps, MoveSteps, ManualSteps,
       ReplaceSteps, RebuildSteps}
  /\ Record \notin {Put, BuySteps, SellSteps, MoveSteps, ManualSteps, ReplaceSteps,
       RebuildSteps}
  /\ Put \notin {BuySteps, SellSteps, MoveSteps, ManualSteps, ReplaceSteps,
       RebuildSteps}
  /\ BuySteps \notin {SellSteps, MoveSteps, ManualSteps, ReplaceSteps, RebuildSteps}
  /\ SellSteps \notin {MoveSteps, ManualSteps, ReplaceSteps, RebuildSteps}
  /\ MoveSteps \notin {ManualSteps, ReplaceSteps, RebuildSteps}
  /\ ManualSteps \notin {ReplaceSteps, RebuildSteps}
  /\ ReplaceSteps # RebuildSteps
<1>1. \A s \in {Snapshot, Write, WriteOnly, Roll, Pay, PayOnly, Record, Put, BuySteps,
                SellSteps, MoveSteps, ManualSteps, ReplaceSteps, RebuildSteps} : Size(s) > 0
  BY Shapes DEF Shape
<1>2. Size(<<>>) = 0
  BY DEF Size
<1>3. Snapshot \notin {Write, WriteOnly, Roll, Pay, PayOnly, Record, Put, BuySteps,
      SellSteps, MoveSteps, ManualSteps, ReplaceSteps, RebuildSteps}
  BY Shapes DEF Shape
<1>4. Write \notin {WriteOnly, Roll, Pay, PayOnly, Record, Put, BuySteps, SellSteps,
      MoveSteps, ManualSteps, ReplaceSteps, RebuildSteps}
  BY Shapes DEF Shape
<1>5. WriteOnly \notin {Roll, Pay, PayOnly, Record, Put, BuySteps, SellSteps, MoveSteps,
      ManualSteps, ReplaceSteps, RebuildSteps}
  BY Shapes DEF Shape
<1>6. Roll \notin {Pay, PayOnly, Record, Put, BuySteps, SellSteps, MoveSteps, ManualSteps,
      ReplaceSteps, RebuildSteps}
  BY Shapes DEF Shape
<1>7. Pay \notin {PayOnly, Record, Put, BuySteps, SellSteps, MoveSteps, ManualSteps,
      ReplaceSteps, RebuildSteps}
  BY Shapes DEF Shape
<1>8. PayOnly \notin {Record, Put, BuySteps, SellSteps, MoveSteps, ManualSteps,
      ReplaceSteps, RebuildSteps}
  BY Shapes DEF Shape
<1>9. Record \notin {Put, BuySteps, SellSteps, MoveSteps, ManualSteps, ReplaceSteps,
      RebuildSteps}
  BY Shapes DEF Shape
<1>10. Put \notin {BuySteps, SellSteps, MoveSteps, ManualSteps, ReplaceSteps, RebuildSteps}
  BY Shapes DEF Shape
<1>11. BuySteps \notin {SellSteps, MoveSteps, ManualSteps, ReplaceSteps, RebuildSteps}
  BY Shapes DEF Shape
<1>12. SellSteps \notin {MoveSteps, ManualSteps, ReplaceSteps, RebuildSteps}
  BY Shapes DEF Shape
<1>13. MoveSteps \notin {ManualSteps, ReplaceSteps, RebuildSteps}
  BY Shapes DEF Shape
<1>14. ManualSteps \notin {ReplaceSteps, RebuildSteps}
  BY Shapes DEF Shape
<1>15. ReplaceSteps # RebuildSteps
  BY Shapes DEF Shape
<1> QED
  BY <1>1, <1>2, <1>3, <1>4, <1>5, <1>6, <1>7, <1>8, <1>9, <1>10, <1>11, <1>12, <1>13, <1>14,
     <1>15

(* A call owes x if it is past the first steps and the call that closes x is *)
(* still to come.                                                            *)
Owed(s, x) == s # <<>> /\ First(s) \notin FirstSteps /\ Contains(s, Closing[x])

(* The sequences that owe positions, valuation and books.                    *)
LEMMA OwingTodo ==
  ASSUME NEW s \in Todos
  PROVE  /\ Owed(s, "positions") <=> s \in {Record, Pay, Roll, Write, RebuildSteps, WriteOnly}
         /\ Owed(s, "valuation") <=> s \in {Record, Pay, Roll, Write, PayOnly, Snapshot}
         /\ Owed(s, "books") <=> s \in {Record, Pay, PayOnly}
<1>1. CASE s = <<>>
  BY <1>1, TodosApart DEF Owed
<1>2. CASE s = Snapshot
  BY <1>2, Shapes, TodosApart DEF Owed, Shape, Closing, FirstSteps
<1>3. CASE s = Write
  BY <1>3, Shapes, TodosApart DEF Owed, Shape, Closing, FirstSteps
<1>4. CASE s = WriteOnly
  BY <1>4, Shapes, TodosApart DEF Owed, Shape, Closing, FirstSteps
<1>5. CASE s = Roll
  BY <1>5, Shapes, TodosApart DEF Owed, Shape, Closing, FirstSteps
<1>6. CASE s = Pay
  BY <1>6, Shapes, TodosApart DEF Owed, Shape, Closing, FirstSteps
<1>7. CASE s = PayOnly
  BY <1>7, Shapes, TodosApart DEF Owed, Shape, Closing, FirstSteps
<1>8. CASE s = Record
  BY <1>8, Shapes, TodosApart DEF Owed, Shape, Closing, FirstSteps
<1>9. CASE s = Put
  BY <1>9, Shapes, TodosApart DEF Owed, Shape, Closing, FirstSteps
<1>10. CASE s = BuySteps
  BY <1>10, Shapes, TodosApart DEF Owed, Shape, Closing, FirstSteps
<1>11. CASE s = SellSteps
  BY <1>11, Shapes, TodosApart DEF Owed, Shape, Closing, FirstSteps
<1>12. CASE s = MoveSteps
  BY <1>12, Shapes, TodosApart DEF Owed, Shape, Closing, FirstSteps
<1>13. CASE s = ManualSteps
  BY <1>13, Shapes, TodosApart DEF Owed, Shape, Closing, FirstSteps
<1>14. CASE s = ReplaceSteps
  BY <1>14, Shapes, TodosApart DEF Owed, Shape, Closing, FirstSteps
<1>15. CASE s = RebuildSteps
  BY <1>15, Shapes, TodosApart DEF Owed, Shape, Closing, FirstSteps
<1> QED
  BY <1>1, <1>2, <1>3, <1>4, <1>5, <1>6, <1>7, <1>8, <1>9, <1>10, <1>11, <1>12, <1>13, <1>14,
     <1>15 DEF Todos

(* The same for a thread.                                                    *)
LEMMA Owing ==
  ASSUME NEW t, t.todo \in Todos
  PROVE  /\ Owes(t, "positions") <=>
              t.todo \in {Record, Pay, Roll, Write, RebuildSteps, WriteOnly}
         /\ Owes(t, "valuation") <=>
              t.todo \in {Record, Pay, Roll, Write, PayOnly, Snapshot}
         /\ Owes(t, "books") <=> t.todo \in {Record, Pay, PayOnly}
<1>1. \A x : Owes(t, x) <=> Owed(t.todo, x)
  BY DEF Owes, Owed, First
<1> QED
  BY <1>1, OwingTodo

(* A thread after its call: at rest if that was the last one.                *)
After(t) == IF Len(t.todo) = 1 THEN Idle ELSE [t EXCEPT !.todo = Tail(@)]

(* A thread at rest.                                                         *)
LEMMA IdleThread ==
  /\ Idle \in Threads /\ Idle.todo = <<>> /\ Idle.cash = 0 /\ Idle.lots = {}
  /\ Idle.positions = {} /\ Idle.entry = NoEntry /\ Idle.outside = FALSE
<1> DEFINE n == NoEntry
<1>1. n \in Entries /\ <<>> \in Todos
  BY DEF Entries, Todos
<1> HIDE DEF n
<1>2. Idle = [todo |-> <<>>, cash |-> 0, lots |-> {}, positions |-> {}, entry |-> n,
              outside |-> FALSE]
  BY DEF Idle, n
<1>3. Idle \in Threads /\ Idle.entry = n
  BY <1>1, <1>2 DEF Threads
<1> QED
  BY <1>2, <1>3 DEF n

(* A thread after its call is a thread, and keeps what it carries unless it  *)
(* is at rest.                                                               *)
LEMMA NextTodo ==
  ASSUME NEW t \in Threads, t.todo # <<>>
  PROVE  /\ After(t) \in Threads
         /\ t.todo \in {Snapshot, WriteOnly} => After(t) = Idle
         /\ t.todo \notin {Snapshot, WriteOnly} =>
              LET u == After(t)
              IN  /\ u.todo = Tail(t.todo) /\ u.cash = t.cash /\ u.lots = t.lots
                  /\ u.positions = t.positions /\ u.entry = t.entry /\ u.outside = t.outside
<1> DEFINE s == t.todo
           r == Tail(s)
           u == [t EXCEPT !.todo = r]
<1>1. s \in Todos /\ s # <<>>
  BY DEF Threads
<1>2. Len(s) = 1 <=> s \in {Snapshot, WriteOnly}
  BY <1>1, Lengths
<1>3. s \notin {Snapshot, WriteOnly} => r \in Todos
  BY <1>1, Tails DEF Todos
<1>4. After(t) = IF Len(s) = 1 THEN Idle ELSE u
  BY DEF After
<1>5. r \in Todos => /\ u \in Threads
                     /\ u.todo = r /\ u.cash = t.cash /\ u.lots = t.lots
                     /\ u.positions = t.positions /\ u.entry = t.entry /\ u.outside = t.outside
  <2> HIDE DEF r
  <2> QED
    BY DEF Threads
<1> HIDE DEF u, r
<1> QED
  BY <1>2, <1>3, <1>4, <1>5, IdleThread DEF r

-----------------------------------------------------------------------------
(* What the beginning of an operation and each of its calls do to the thread *)
(* that makes them.                                                          *)

(* What the operations and the calls do to a thread.                         *)
Became(t, s, c, L, P, e, x) ==
  /\ t \in Threads /\ t.todo = s /\ t.cash = c /\ t.lots = L /\ t.positions = P
  /\ t.entry = e /\ t.outside = x

(* A thread that begins, with rows, lots or an entry in hand.                *)
LEMMA Prepared ==
  ASSUME NEW s \in Todos
  PROVE  Became([Idle EXCEPT !.todo = s], s, 0, {}, {}, NoEntry, FALSE)
<1> DEFINE t == Idle
           n == NoEntry
<1>1. /\ t \in Threads /\ t.cash = 0 /\ t.lots = {} /\ t.positions = {} /\ t.entry = n
      /\ t.outside = FALSE
  BY IdleThread
<1> HIDE DEF t, n
<1>2. Became([t EXCEPT !.todo = s], s, 0, {}, {}, n, FALSE)
  BY <1>1 DEF Became, Threads
<1> QED
  BY <1>2 DEF t, n

LEMMA PreparedPositions ==
  ASSUME NEW s \in Todos, NEW P \in SUBSET PositionRow
  PROVE  Became([Idle EXCEPT !.todo = s, !.positions = P], s, 0, {}, P, NoEntry, FALSE)
<1> DEFINE t == Idle
           n == NoEntry
<1>1. /\ t \in Threads /\ t.cash = 0 /\ t.lots = {} /\ t.positions = {} /\ t.entry = n
      /\ t.outside = FALSE
  BY IdleThread
<1> HIDE DEF t, n
<1>2. Became([t EXCEPT !.todo = s, !.positions = P], s, 0, {}, P, n, FALSE)
  BY <1>1 DEF Became, Threads
<1> QED
  BY <1>2 DEF t, n

LEMMA PreparedLots ==
  ASSUME NEW s \in Todos, NEW L \in SUBSET Held
  PROVE  /\ Became([Idle EXCEPT !.todo = s, !.lots = L], s, 0, L, {}, NoEntry, FALSE)
         /\ Became([Idle EXCEPT !.todo = s, !.lots = L, !.outside = TRUE],
                   s, 0, L, {}, NoEntry, TRUE)
         /\ Became([Idle EXCEPT !.todo = s, !.outside = TRUE, !.lots = L],
                   s, 0, L, {}, NoEntry, TRUE)
<1> DEFINE t == Idle
           n == NoEntry
<1>1. /\ t \in Threads /\ t.cash = 0 /\ t.lots = {} /\ t.positions = {} /\ t.entry = n
      /\ t.outside = FALSE
  BY IdleThread
<1> HIDE DEF t, n
<1>2. Became([t EXCEPT !.todo = s, !.lots = L], s, 0, L, {}, n, FALSE)
  BY <1>1 DEF Became, Threads
<1>3. Became([t EXCEPT !.todo = s, !.lots = L, !.outside = TRUE], s, 0, L, {}, n, TRUE)
  BY <1>1 DEF Became, Threads
<1>4. Became([t EXCEPT !.todo = s, !.outside = TRUE, !.lots = L], s, 0, L, {}, n, TRUE)
  BY <1>1 DEF Became, Threads
<1> QED
  BY <1>2, <1>3, <1>4 DEF t, n

LEMMA PreparedEntry ==
  ASSUME NEW s \in Todos, NEW c \in Int, NEW L \in SUBSET Held, NEW e \in Entries
  PROVE  /\ Became([Idle EXCEPT !.todo = s, !.cash = c, !.entry = e], s, c, {}, {}, e, FALSE)
         /\ Became([Idle EXCEPT !.todo = s, !.cash = c, !.lots = L, !.entry = e],
                   s, c, L, {}, e, FALSE)
<1> DEFINE t == Idle
           n == NoEntry
<1>1. /\ t \in Threads /\ t.cash = 0 /\ t.lots = {} /\ t.positions = {} /\ t.entry = n
      /\ t.outside = FALSE
  BY IdleThread
<1> HIDE DEF t, n
<1>2. Became([t EXCEPT !.todo = s, !.cash = c, !.entry = e], s, c, {}, {}, e, FALSE)
  BY <1>1 DEF Became, Threads
<1>3. Became([t EXCEPT !.todo = s, !.cash = c, !.lots = L, !.entry = e], s, c, L, {}, e, FALSE)
  BY <1>1 DEF Became, Threads
<1> QED
  BY <1>2, <1>3 DEF t, n

(* A thread whose call changes none, or one, of its fields.                  *)
LEMMA Kept ==
  ASSUME NEW t \in Threads
  PROVE  Became(t, t.todo, t.cash, t.lots, t.positions, t.entry, t.outside)
  BY DEF Became

LEMMA KeptLots ==
  ASSUME NEW t \in Threads, NEW L \in SUBSET Held
  PROVE  Became([t EXCEPT !.lots = L], t.todo, t.cash, L, t.positions, t.entry, t.outside)
  BY DEF Became, Threads

LEMMA KeptPositions ==
  ASSUME NEW t \in Threads, NEW P \in SUBSET PositionRow
  PROVE  Became([t EXCEPT !.positions = P], t.todo, t.cash, t.lots, P, t.entry, t.outside)
  BY DEF Became, Threads

LEMMA KeptEntry ==
  ASSUME NEW t \in Threads, NEW L \in SUBSET Held, NEW e \in Entries
  PROVE  Became([t EXCEPT !.lots = L, !.entry = e],
                t.todo, t.cash, L, t.positions, e, t.outside)
  BY DEF Became, Threads

LEMMA KeptCash ==
  ASSUME NEW t \in Threads, NEW c \in Int, NEW e \in Entries
  PROVE  Became([t EXCEPT !.cash = c, !.entry = e],
                t.todo, c, t.lots, t.positions, e, t.outside)
  BY DEF Became, Threads

(* Goes: the thread of a has made its next call; in between it became t.     *)
LEMMA Passes ==
  ASSUME NEW t, NEW s, NEW c, NEW L, NEW P, NEW e, NEW x, Became(t, s, c, L, P, e, x),
         s # <<>>, s \notin {Snapshot, WriteOnly}
  PROVE  Became(After(t), Tail(s), c, L, P, e, x)
<1>1. t \in Threads /\ t.todo = s /\ t.todo # <<>>
  BY DEF Became
<1> DEFINE u == After(t)
<1>2. /\ u \in Threads /\ u.todo = Tail(s) /\ u.cash = t.cash /\ u.lots = t.lots
      /\ u.positions = t.positions /\ u.entry = t.entry /\ u.outside = t.outside
  BY <1>1, NextTodo
<1> HIDE DEF u
<1>3. Became(u, Tail(s), c, L, P, e, x)
  BY <1>2 DEF Became
<1> QED
  BY <1>3 DEF u

(* and the last one puts it to rest.                                         *)
LEMMA Ends ==
  ASSUME NEW t, NEW s, NEW c, NEW L, NEW P, NEW e, NEW x, Became(t, s, c, L, P, e, x),
         s # <<>>, s \in {Snapshot, WriteOnly}
  PROVE  After(t) = Idle /\ Became(Idle, <<>>, 0, {}, {}, NoEntry, FALSE)
  BY NextTodo, IdleThread DEF Became

(* A step changes the thread that makes it.                                  *)
LEMMA NewThread ==
  ASSUME NEW th \in [Actors -> Threads], NEW a \in Actors, NEW u \in Threads
  PROVE  /\ [th EXCEPT ![a] = u] \in [Actors -> Threads]
         /\ [th EXCEPT ![a] = u][a] = u
         /\ \A b \in Actors : b # a => [th EXCEPT ![a] = u][b] = th[b]
  OBVIOUS

(* New lots.                                                                 *)
Input(S) ==
  /\ IsFiniteSet(S) /\ S \subseteq NewLot
  /\ \A o \in S : o.left <= o.quantity /\ o.fees % o.quantity = 0

(* The inputs of the model are such rows.                                    *)
LEMMA Inputs ==
  /\ \A S \in Manuals \cup Uploads : Input(S)
  /\ \A o \in Buys : Input({o}) /\ o \in NewLot /\ o.left = o.quantity
  BY InputsAssumption DEF Input

(* An input row with an identifier is a lot.                                 *)
LEMMA NewLotOf ==
  ASSUME NEW o \in NewLot, o.left <= o.quantity, o.fees % o.quantity = 0, NEW i \in LotIds
  PROVE  /\ WithId(o, i) \in Held /\ WithId(o, i).id = i
         /\ WithId(o, i).symbol = o.symbol /\ WithId(o, i).quantity = o.quantity
         /\ WithId(o, i).left = o.left /\ WithId(o, i).price = o.price
         /\ WithId(o, i).fees = o.fees
<1>1. o.quantity \in Nat /\ o.quantity > 0 /\ o.left \in Nat /\ o.price \in Nat /\ o.cur \in Nat
      /\ o.fees \in Nat /\ o.at \in Nat /\ o.symbol \in Symbols
  BY DEF NewLot
<1>2. WithId(o, i) \in Lot
  BY <1>1 DEF WithId, Lot
<1> QED
  BY <1>1, <1>2 DEF WithId, Held

(* Input rows with new identifiers are a book with new identifiers.          *)
LEMMA NewBook ==
  ASSUME NEW S, Input(S), NEW L \in Created(S)
  PROVE  Book(L) /\ Ids(L) \subseteq LotIds /\ Ids(L) \cap issued = {}
<1>1. PICK f \in Injection(S, LotIds \ issued) : L = {WithId(o, f[o]) : o \in S}
  BY DEF Created
<1>2. f \in [S -> LotIds \ issued] /\ \A o, p \in S : f[o] = f[p] => o = p
  BY <1>1 DEF Injection, IsInjective
<1>3. \A o \in S : WithId(o, f[o]) \in Held /\ WithId(o, f[o]).id = f[o]
  BY <1>2, NewLotOf DEF Input
<1>4. IsFiniteSet(L)
  <2> DEFINE g == [o \in S |-> WithId(o, f[o])]
  <2>1. g \in Surjection(S, L)
    BY <1>1 DEF Surjection
  <2> HIDE DEF g
  <2> QED
    BY <2>1, FS_Surjection DEF Input
<1>5. L \subseteq Held /\ \A l \in L : \E o \in S : l = WithId(o, f[o])
  BY <1>1, <1>3
<1>6. OneEach(L)
  BY <1>2, <1>3, <1>5 DEF OneEach
<1>7. \A l \in L : l.id \in LotIds \ issued
  BY <1>2, <1>3, <1>5
<1> QED
  BY <1>4, <1>5, <1>6, <1>7 DEF Book, Ids

-----------------------------------------------------------------------------
(* The type invariant: what every thread, every row and every entry is, for  *)
(* any number of threads whose operations interleave and stop anywhere.      *)

(* What a thread about to make the calls s may carry: a book, rows, and an   *)
(* entry of the right kind, whose lots were given out.                       *)
Fit(s, L, P, e, given) ==
  /\ Book(L) /\ OneRow(P) /\ Ids(L) \subseteq given
  /\ s = BuySteps => e \in BuyEntry
  /\ s \in {SellSteps, Put} => e \in SellEntry
  /\ s \in {Record, Pay} => e \in TradeEntry
  /\ s \in {MoveSteps, PayOnly} => e \in MoveInput
  /\ s \in {BuySteps, SellSteps, Put, Record, Pay} => e.ids \subseteq given

Sound(t, given) == t \in Threads /\ Fit(t.todo, t.lots, t.positions, t.entry, given)

(* Lots that are about to be added are nowhere else.                         *)
Fresh(th, L) ==
  \A a \in Actors :
    th[a].todo \in {BuySteps, ManualSteps} =>
      /\ Ids(th[a].lots) \cap Ids(L) = {}
      /\ \A b \in Actors : b # a => Ids(th[b].lots) \cap Ids(th[a].lots) = {}

ThreadsOK(th, L, given) ==
  /\ th \in [Actors -> Threads]
  /\ \A a \in Actors : Sound(th[a], given)
  /\ Fresh(th, L)

(* Entries name lots that were given out.                                    *)
Known(s, M, given) == s \in Seq(M) /\ \A n \in DOMAIN s : s[n].ids \subseteq given

(* The inductive type invariant. It holds for any number of threads.         *)
TypeInv ==
  /\ ThreadsOK(thread, lots, issued)
  /\ Book(lots) /\ Ids(lots) \subseteq issued
  /\ OneRow(positions)
  /\ cash \in Int
  /\ issued \subseteq LotIds
  /\ begun \in 0 .. MaxOps
  /\ Known(trades, TradeEntry, issued)
  /\ moves \in Seq(MoveInput)
  /\ outside \in [basis: Int, shares: [Symbols -> Int], removed: SUBSET LotIds]
  /\ torn \subseteq DOMAIN Closing

(* The thread a goes to the calls s with these fields; Opens says that an    *)
(* operation begins.                                                         *)
Goes(a, s, c, L, P, e, x) ==
  \E u : Became(u, s, c, L, P, e, x) /\ thread' = [thread EXCEPT ![a] = u]

Opens(a) ==
  /\ thread[a].todo = <<>>
  /\ begun < MaxOps /\ begun' = begun + 1
  /\ UNCHANGED <<lots, cash, positions, trades, moves, valued, outside, torn>>

(* The entry of a purchase,                                                  *)
LEMMA EntryOfBuy ==
  ASSUME NEW o \in NewLot, NEW I \in SUBSET LotIds
  PROVE  LET e == [kind |-> "buy", symbol |-> o.symbol, quantity |-> o.quantity,
                   price |-> o.price, fees |-> o.fees, ids |-> I]
         IN  /\ e \in BuyEntry /\ e \in Entries
             /\ e.kind = "buy" /\ e.symbol = o.symbol /\ e.quantity = o.quantity
             /\ e.price = o.price /\ e.fees = o.fees /\ e.ids = I
<1> DEFINE e == [kind |-> "buy", symbol |-> o.symbol, quantity |-> o.quantity,
                 price |-> o.price, fees |-> o.fees, ids |-> I]
<1>1. /\ e \in BuyEntry
      /\ e.kind = "buy" /\ e.symbol = o.symbol /\ e.quantity = o.quantity
      /\ e.price = o.price /\ e.fees = o.fees /\ e.ids = I
  BY DEF NewLot, BuyEntry
<1> HIDE DEF e
<1>2. e \in Entries
  BY <1>1 DEF Entries, TradeEntry
<1> QED
  BY <1>1, <1>2 DEF e

(* and of a sale.                                                            *)
LEMMA EntryOfSell ==
  ASSUME NEW o \in SaleInput
  PROVE  LET e == [kind |-> "sell", symbol |-> o.symbol, quantity |-> o.quantity,
                   price |-> o.price, fees |-> o.fees, ids |-> {}, realized |-> 0]
         IN  e \in SellEntry /\ e \in Entries /\ e.ids = {}
<1> DEFINE z == 0
           e == [kind |-> "sell", symbol |-> o.symbol, quantity |-> o.quantity,
                 price |-> o.price, fees |-> o.fees, ids |-> {}, realized |-> z]
<1>0. z \in Int
  OBVIOUS
<1> HIDE DEF z
<1>1. e \in SellEntry /\ e.ids = {}
  BY <1>0 DEF SaleInput, SellEntry
<1> HIDE DEF e
<1>2. e \in Entries
  BY <1>1 DEF Entries, TradeEntry
<1> QED
  BY <1>1, <1>2 DEF e, z

-----------------------------------------------------------------------------
(* How each operation begins.                                                *)

LEMMA BuyBegins ==
  ASSUME TypeInv, NEW a \in Actors, NEW o \in Buys, BeginBuy(a, o)
  PROVE  \E L \in Created({o}) : \E e \in BuyEntry :
           /\ Opens(a) /\ issued' = issued \cup Ids(L)
           /\ Goes(a, BuySteps, cash, L, {}, e, FALSE)
           /\ e.symbol = o.symbol /\ e.quantity = o.quantity /\ e.price = o.price
           /\ e.fees = o.fees /\ e.ids = Ids(L)
<1>1. PICK L \in Created({o}) :
        /\ issued' = issued \cup Ids(L)
        /\ Begin(a, [Idle EXCEPT !.todo = BuySteps, !.cash = cash, !.lots = L,
                   !.entry = [kind |-> "buy", symbol |-> o.symbol, quantity |-> o.quantity,
                              price |-> o.price, fees |-> o.fees, ids |-> Ids(L)]])
  BY DEF BeginBuy
<1> DEFINE e == [kind |-> "buy", symbol |-> o.symbol, quantity |-> o.quantity,
                 price |-> o.price, fees |-> o.fees, ids |-> Ids(L)]
           s == BuySteps
           u == [Idle EXCEPT !.todo = s, !.cash = cash, !.lots = L, !.entry = e]
<1>2. L \in SUBSET Held /\ Ids(L) \in SUBSET LotIds /\ o \in NewLot
  BY <1>1, Inputs, NewBook DEF Book
<1>3. /\ e \in BuyEntry /\ e \in Entries
      /\ e.symbol = o.symbol /\ e.quantity = o.quantity
      /\ e.price = o.price /\ e.fees = o.fees /\ e.ids = Ids(L)
  BY <1>2, EntryOfBuy
<1>4. Begin(a, u)
  BY <1>1
<1>5. s \in Todos /\ cash \in Int
  BY DEF Todos, TypeInv
<1> HIDE DEF e, s
<1>6. Became(u, s, cash, L, {}, e, FALSE)
  BY <1>2, <1>3, <1>5, PreparedEntry
<1> HIDE DEF u
<1>7. Opens(a) /\ Goes(a, s, cash, L, {}, e, FALSE)
  BY <1>4, <1>6 DEF Begin, Opens, Goes, books, history
<1> QED
  BY <1>1, <1>3, <1>7 DEF s

LEMMA SellBegins ==
  ASSUME TypeInv, NEW a \in Actors, NEW o \in Sells, BeginSell(a, o)
  PROVE  \E e \in SellEntry :
           /\ Opens(a) /\ issued' = issued /\ e.ids = {}
           /\ Goes(a, SellSteps, cash, {}, {}, e, FALSE)
<1> DEFINE e == [kind |-> "sell", symbol |-> o.symbol, quantity |-> o.quantity,
                 price |-> o.price, fees |-> o.fees, ids |-> {}, realized |-> 0]
           s == SellSteps
           u == [Idle EXCEPT !.todo = s, !.cash = cash, !.entry = e]
<1>1. Begin(a, u) /\ issued' = issued
  BY DEF BeginSell
<1>2. o \in SaleInput
  BY InputsAssumption
<1>3. e \in SellEntry /\ e \in Entries /\ e.ids = {}
  BY <1>2, EntryOfSell
<1>4. s \in Todos /\ cash \in Int
  BY DEF Todos, TypeInv
<1> HIDE DEF e, s
<1>5. Became(u, s, cash, {}, {}, e, FALSE)
  BY <1>3, <1>4, PreparedEntry
<1> HIDE DEF u
<1>6. Opens(a) /\ Goes(a, s, cash, {}, {}, e, FALSE)
  BY <1>1, <1>5 DEF Begin, Opens, Goes, books, history
<1> QED
  BY <1>1, <1>3, <1>6 DEF s

LEMMA MoveBegins ==
  ASSUME TypeInv, NEW a \in Actors, NEW m \in Moves, BeginMove(a, m)
  PROVE  /\ Opens(a) /\ issued' = issued /\ m \in MoveInput
         /\ Goes(a, MoveSteps, cash, {}, {}, m, FALSE)
<1> DEFINE s == MoveSteps
           u == [Idle EXCEPT !.todo = s, !.cash = cash, !.entry = m]
<1>1. Begin(a, u) /\ issued' = issued
  BY DEF BeginMove
<1>2. m \in MoveInput /\ m \in Entries
  BY InputsAssumption DEF Entries
<1>3. s \in Todos /\ cash \in Int
  BY DEF Todos, TypeInv
<1> HIDE DEF s
<1>4. Became(u, s, cash, {}, {}, m, FALSE)
  BY <1>2, <1>3, PreparedEntry
<1> HIDE DEF u
<1>5. Opens(a) /\ Goes(a, s, cash, {}, {}, m, FALSE)
  BY <1>1, <1>4 DEF Begin, Opens, Goes, books, history
<1> QED
  BY <1>1, <1>2, <1>5 DEF s

LEMMA ManualBegins ==
  ASSUME TypeInv, NEW a \in Actors, NEW S \in Manuals, BeginManual(a, S)
  PROVE  \E L \in Created(S) :
           /\ Opens(a) /\ issued' = issued \cup Ids(L)
           /\ Goes(a, ManualSteps, 0, L, {}, NoEntry, TRUE)
<1> DEFINE s == ManualSteps
<1>1. PICK L \in Created(S) :
        /\ issued' = issued \cup Ids(L)
        /\ Begin(a, [Idle EXCEPT !.todo = s, !.lots = L, !.outside = TRUE])
  BY DEF BeginManual
<1> DEFINE u == [Idle EXCEPT !.todo = s, !.lots = L, !.outside = TRUE]
<1>2. L \in SUBSET Held
  BY Inputs, NewBook DEF Book
<1>3. s \in Todos
  BY DEF Todos
<1> HIDE DEF s
<1>4. Became(u, s, 0, L, {}, NoEntry, TRUE)
  BY <1>2, <1>3, PreparedLots
<1>5. Begin(a, u)
  BY <1>1
<1> HIDE DEF u
<1>6. Opens(a) /\ Goes(a, s, 0, L, {}, NoEntry, TRUE)
  BY <1>4, <1>5 DEF Begin, Opens, Goes, books, history
<1> QED
  BY <1>1, <1>6 DEF s

LEMMA UploadBegins ==
  ASSUME TypeInv, NEW a \in Actors, NEW S \in Uploads, BeginUpload(a, S)
  PROVE  \E L \in Created(S) :
           /\ Opens(a) /\ issued' = issued \cup Ids(L)
           /\ Goes(a, ReplaceSteps, 0, L, {}, NoEntry, TRUE)
<1> DEFINE s == ReplaceSteps
<1>1. PICK L \in Created(S) :
        /\ issued' = issued \cup Ids(L)
        /\ Begin(a, [Idle EXCEPT !.todo = s, !.lots = L, !.outside = TRUE])
  BY DEF BeginUpload
<1> DEFINE u == [Idle EXCEPT !.todo = s, !.lots = L, !.outside = TRUE]
<1>2. L \in SUBSET Held
  BY Inputs, NewBook DEF Book
<1>3. s \in Todos
  BY DEF Todos
<1> HIDE DEF s
<1>4. Became(u, s, 0, L, {}, NoEntry, TRUE)
  BY <1>2, <1>3, PreparedLots
<1>5. Begin(a, u)
  BY <1>1
<1> HIDE DEF u
<1>6. Opens(a) /\ Goes(a, s, 0, L, {}, NoEntry, TRUE)
  BY <1>4, <1>5 DEF Begin, Opens, Goes, books, history
<1> QED
  BY <1>1, <1>6 DEF s

(* Operations that write back some of the lots read.                         *)
LEMMA ReplaceBegins ==
  ASSUME NEW a \in Actors, NEW L \in SUBSET Held, NEW x \in BOOLEAN,
         \/ Begin(a, [Idle EXCEPT !.todo = ReplaceSteps, !.outside = TRUE, !.lots = L]) /\ x = TRUE
         \/ Begin(a, [Idle EXCEPT !.todo = ReplaceSteps, !.lots = L]) /\ x = FALSE
  PROVE  Opens(a) /\ Goes(a, ReplaceSteps, 0, L, {}, NoEntry, x)
<1> DEFINE s == ReplaceSteps
           u == [Idle EXCEPT !.todo = s, !.outside = TRUE, !.lots = L]
           v == [Idle EXCEPT !.todo = s, !.lots = L]
<1>1. (Begin(a, u) /\ x = TRUE) \/ (Begin(a, v) /\ x = FALSE)
  OBVIOUS
<1>2. s \in Todos
  BY DEF Todos
<1> HIDE DEF s
<1>3. Became(u, s, 0, L, {}, NoEntry, TRUE) /\ Became(v, s, 0, L, {}, NoEntry, FALSE)
  BY <1>2, PreparedLots
<1> HIDE DEF u, v
<1>4. Opens(a) /\ Goes(a, s, 0, L, {}, NoEntry, x)
  BY <1>1, <1>3 DEF Begin, Opens, Goes, books, history
<1> QED
  BY <1>4 DEF s

LEMMA PositionsBegin ==
  ASSUME NEW a \in Actors, NEW P \in SUBSET PositionRow,
         Begin(a, [Idle EXCEPT !.todo = PositionSteps, !.positions = P])
  PROVE  Opens(a) /\ Goes(a, Write, 0, {}, P, NoEntry, FALSE)
<1> DEFINE s == Write
           u == [Idle EXCEPT !.todo = s, !.positions = P]
<1>1. Begin(a, u)
  BY DEF Write
<1>2. s \in Todos
  BY DEF Todos
<1> HIDE DEF s
<1>3. Became(u, s, 0, {}, P, NoEntry, FALSE)
  BY <1>2, PreparedPositions
<1> HIDE DEF u
<1>4. Opens(a) /\ Goes(a, s, 0, {}, P, NoEntry, FALSE)
  BY <1>1, <1>3 DEF Begin, Opens, Goes, books, history
<1> QED
  BY <1>4 DEF s

LEMMA RebuildBegins ==
  ASSUME NEW a \in Actors, BeginRebuild(a)
  PROVE  Opens(a) /\ issued' = issued /\ Goes(a, RebuildSteps, 0, {}, {}, NoEntry, FALSE)
<1> DEFINE s == RebuildSteps
           u == [Idle EXCEPT !.todo = s]
<1>1. Begin(a, u) /\ issued' = issued
  BY DEF BeginRebuild
<1>2. s \in Todos
  BY DEF Todos
<1> HIDE DEF s
<1>3. Became(u, s, 0, {}, {}, NoEntry, FALSE)
  BY <1>2, Prepared
<1> HIDE DEF u
<1>4. Opens(a) /\ Goes(a, s, 0, {}, {}, NoEntry, FALSE)
  BY <1>1, <1>3 DEF Begin, Opens, Goes, books, history
<1> QED
  BY <1>1, <1>4 DEF s

-----------------------------------------------------------------------------
(* How each call goes on.                                                    *)

LEMMA GoesOn ==
  ASSUME NEW a, NEW t, NEW s, NEW c, NEW L, NEW P, NEW e, NEW x,
         Became(t, s, c, L, P, e, x), s # <<>>, Continue(a, t)
  PROVE  /\ s \notin {Snapshot, WriteOnly} => Goes(a, Tail(s), c, L, P, e, x)
         /\ s \in {Snapshot, WriteOnly} => Goes(a, <<>>, 0, {}, {}, NoEntry, FALSE)
<1>1. thread' = [thread EXCEPT ![a] = After(t)]
  BY DEF Continue, After
<1>2. CASE s \notin {Snapshot, WriteOnly}
  <2>1. Became(After(t), Tail(s), c, L, P, e, x)
    BY <1>2, Passes
  <2> QED
    BY <1>1, <1>2, <2>1 DEF Goes
<1>3. CASE s \in {Snapshot, WriteOnly}
  <2>1. After(t) = Idle /\ Became(Idle, <<>>, 0, {}, {}, NoEntry, FALSE)
    BY <1>3, Ends
  <2>2. Goes(a, <<>>, 0, {}, {}, NoEntry, FALSE)
    BY <1>1, <2>1 DEF Goes
  <2> QED
    BY <1>3, <2>2
<1> QED
  BY <1>2, <1>3

(* Every thread is one.                                                      *)
LEMMA TypedThread ==
  ASSUME TypeInv, NEW a \in Actors
  PROVE  thread[a] \in Threads /\ Sound(thread[a], issued) /\ thread[a].todo \in Todos
  BY DEF TypeInv, ThreadsOK, Threads

LEMMA AddLotsGoes ==
  ASSUME TypeInv, NEW a \in Actors, AddLots(a)
  PROVE  LET t == thread[a]
         IN  \/ /\ t.todo = BuySteps
                /\ Goes(a, Record, t.cash, {}, t.positions, t.entry, t.outside)
             \/ /\ t.todo = ManualSteps
                /\ Goes(a, Roll, t.cash, {}, t.positions, t.entry, t.outside)
<1> DEFINE t == thread[a]
           s == t.todo
           u == [t EXCEPT !.lots = {}]
<1>1. t \in Threads /\ s \in Todos /\ s # <<>> /\ s \in {BuySteps, ManualSteps}
  BY TypedThread, Chart DEF AddLots, At
<1>2. Became(u, s, t.cash, {}, t.positions, t.entry, t.outside)
  BY <1>1, KeptLots
<1>3. Continue(a, u)
  BY DEF AddLots
<1> HIDE DEF u
<1>4. s \notin {Snapshot, WriteOnly}
  BY <1>1, TodosApart
<1>5. Goes(a, Tail(s), t.cash, {}, t.positions, t.entry, t.outside)
  BY <1>1, <1>2, <1>3, <1>4, GoesOn
<1> QED
  BY <1>1, <1>5, Tails

LEMMA MatchLotsGoes ==
  ASSUME TypeInv, NEW a \in Actors, MatchLots(a)
  PROVE  LET t == thread[a]
             r == ApplyFifoSale(lots, t.entry)
         IN  /\ t.todo = SellSteps /\ t.entry \in SellEntry
             /\ SharesIn(lots, t.entry.symbol) >= t.entry.quantity
             /\ SaleIsRight(lots, t.entry, r)
             /\ \E e \in SellEntry :
                  /\ Goes(a, Put, t.cash, r.lots, t.positions, e, t.outside)
                  /\ e.kind = "sell" /\ e.symbol = t.entry.symbol
                  /\ e.quantity = t.entry.quantity /\ e.price = t.entry.price
                  /\ e.fees = t.entry.fees /\ e.ids = r.ids /\ e.realized = r.realized
<1> DEFINE t == thread[a]
           s == t.todo
           o == t.entry
           r == ApplyFifoSale(lots, o)
           e == [o EXCEPT !.ids = r.ids, !.realized = r.realized]
           M == r.lots
           u == [t EXCEPT !.lots = M, !.entry = e]
<1>1. t \in Threads /\ s \in Todos /\ s # <<>> /\ s = SellSteps
  BY TypedThread, Chart DEF MatchLots, At
<1>2. o \in SellEntry
  BY <1>1, TypedThread DEF Sound, Fit
<1>3. SaleOf(o)
  BY <1>2 DEF SellEntry, SaleOf
<1>4. Continue(a, u) /\ SharesIn(lots, o.symbol) >= o.quantity
  BY DEF MatchLots
<1>5. SaleIsRight(lots, o, r)
  BY <1>3, <1>4, SaleResult DEF TypeInv
<1>6. M \in SUBSET Held /\ r.ids \in SUBSET LotIds /\ r.realized \in Int
  <2>1. Ids(lots) \subseteq LotIds
    BY DEF TypeInv
  <2> QED
    BY <1>5, <2>1 DEF SaleIsRight, Book
<1> HIDE DEF r, M
<1>7. /\ e \in SellEntry
      /\ e.kind = "sell" /\ e.symbol = o.symbol /\ e.quantity = o.quantity
      /\ e.price = o.price /\ e.fees = o.fees /\ e.ids = r.ids /\ e.realized = r.realized
  BY <1>2, <1>6 DEF SellEntry
<1> HIDE DEF e
<1>8. e \in Entries
  BY <1>7 DEF Entries, TradeEntry
<1>9. Became(u, s, t.cash, M, t.positions, e, t.outside)
  BY <1>1, <1>6, <1>8, KeptEntry
<1> HIDE DEF u
<1>10. s \notin {Snapshot, WriteOnly}
  BY <1>1, TodosApart
<1>11. Goes(a, Tail(s), t.cash, M, t.positions, e, t.outside)
  BY <1>1, <1>4, <1>9, <1>10, GoesOn
<1>12. Goes(a, Put, t.cash, M, t.positions, e, t.outside)
  BY <1>1, <1>11, Tails
<1> QED
  BY <1>1, <1>2, <1>4, <1>5, <1>7, <1>12 DEF r, M

LEMMA ReplaceLotsGoes ==
  ASSUME TypeInv, NEW a \in Actors, ReplaceLots(a)
  PROVE  LET t == thread[a]
         IN  \/ /\ t.todo = Put
                /\ Goes(a, Record, t.cash, {}, t.positions, t.entry, t.outside)
             \/ /\ t.todo = ReplaceSteps
                /\ Goes(a, Roll, t.cash, {}, t.positions, t.entry, t.outside)
<1> DEFINE t == thread[a]
           s == t.todo
           u == [t EXCEPT !.lots = {}]
<1>1. t \in Threads /\ s \in Todos /\ s # <<>> /\ s \in {Put, ReplaceSteps}
  BY TypedThread, Chart DEF ReplaceLots, At
<1>2. Became(u, s, t.cash, {}, t.positions, t.entry, t.outside)
  BY <1>1, KeptLots
<1>3. Continue(a, u)
  BY DEF ReplaceLots
<1> HIDE DEF u
<1>4. s \notin {Snapshot, WriteOnly}
  BY <1>1, TodosApart
<1>5. Goes(a, Tail(s), t.cash, {}, t.positions, t.entry, t.outside)
  BY <1>1, <1>2, <1>3, <1>4, GoesOn
<1> QED
  BY <1>1, <1>5, Tails

LEMMA AddTradeGoes ==
  ASSUME TypeInv, NEW a \in Actors, AddTrade(a)
  PROVE  LET t == thread[a]
         IN  /\ t.todo = Record
             /\ Goes(a, Pay, t.cash, t.lots, t.positions, t.entry, t.outside)
<1> DEFINE t == thread[a]
           s == t.todo
<1>1. t \in Threads /\ s \in Todos /\ s # <<>> /\ s = Record
  BY TypedThread, Chart DEF AddTrade, At
<1>2. Became(t, s, t.cash, t.lots, t.positions, t.entry, t.outside) /\ Continue(a, t)
  BY <1>1, Kept DEF AddTrade, Proceed
<1>3. s \notin {Snapshot, WriteOnly}
  BY <1>1, TodosApart
<1>4. Goes(a, Tail(s), t.cash, t.lots, t.positions, t.entry, t.outside)
  BY <1>1, <1>2, <1>3, GoesOn
<1> QED
  BY <1>1, <1>4, Tails

LEMMA AddMoveGoes ==
  ASSUME TypeInv, NEW a \in Actors, AddCashTransaction(a)
  PROVE  LET t == thread[a]
         IN  /\ t.todo = MoveSteps
             /\ Goes(a, PayOnly, t.cash, t.lots, t.positions, t.entry, t.outside)
<1> DEFINE t == thread[a]
           s == t.todo
<1>1. t \in Threads /\ s \in Todos /\ s # <<>> /\ s = MoveSteps
  BY TypedThread, Chart DEF AddCashTransaction, At
<1>2. Became(t, s, t.cash, t.lots, t.positions, t.entry, t.outside) /\ Continue(a, t)
  BY <1>1, Kept DEF AddCashTransaction, Proceed
<1>3. s \notin {Snapshot, WriteOnly}
  BY <1>1, TodosApart
<1>4. Goes(a, Tail(s), t.cash, t.lots, t.positions, t.entry, t.outside)
  BY <1>1, <1>2, <1>3, GoesOn
<1> QED
  BY <1>1, <1>4, Tails

LEMMA UpdateCashGoes ==
  ASSUME TypeInv, NEW a \in Actors, UpdateCash(a)
  PROVE  LET t == thread[a]
         IN  \/ /\ t.todo = Pay
                /\ Goes(a, Roll, 0, t.lots, t.positions, NoEntry, t.outside)
             \/ /\ t.todo = PayOnly
                /\ Goes(a, Snapshot, 0, t.lots, t.positions, NoEntry, t.outside)
<1> DEFINE t == thread[a]
           s == t.todo
           z == 0
           n == NoEntry
           u == [t EXCEPT !.cash = z, !.entry = n]
<1>1. t \in Threads /\ s \in Todos /\ s # <<>> /\ s \in {Pay, PayOnly}
  BY TypedThread, Chart DEF UpdateCash, At
<1>2. Continue(a, u)
  BY DEF UpdateCash
<1>3. z \in Int /\ n \in Entries
  BY DEF Entries
<1> HIDE DEF z, n
<1>4. Became(u, s, z, t.lots, t.positions, n, t.outside)
  BY <1>1, <1>3, KeptCash
<1> HIDE DEF u
<1>5. s \notin {Snapshot, WriteOnly}
  BY <1>1, TodosApart
<1>6. Goes(a, Tail(s), z, t.lots, t.positions, n, t.outside)
  BY <1>1, <1>2, <1>4, <1>5, GoesOn
<1> QED
  BY <1>1, <1>6, Tails DEF z, n

LEMMA RebuildGoes ==
  ASSUME TypeInv, NEW a \in Actors, Rebuild(a)
  PROVE  LET t == thread[a]
         IN  \/ /\ t.todo = Roll
                /\ Goes(a, Write, t.cash, t.lots, Rollup(lots), t.entry, t.outside)
             \/ /\ t.todo = RebuildSteps
                /\ Goes(a, WriteOnly, t.cash, t.lots, Rollup(lots), t.entry, t.outside)
<1> DEFINE t == thread[a]
           s == t.todo
           P == Rollup(lots)
           u == [t EXCEPT !.positions = P]
<1>1. t \in Threads /\ s \in Todos /\ s # <<>> /\ s \in {Roll, RebuildSteps}
  BY TypedThread, Chart DEF Rebuild, At
<1>2. Continue(a, u)
  BY DEF Rebuild
<1>3. P \in SUBSET PositionRow
  BY RollupRows DEF OneRow, TypeInv
<1> HIDE DEF P
<1>4. Became(u, s, t.cash, t.lots, P, t.entry, t.outside)
  BY <1>1, <1>3, KeptPositions
<1> HIDE DEF u
<1>5. s \notin {Snapshot, WriteOnly}
  BY <1>1, TodosApart
<1>6. Goes(a, Tail(s), t.cash, t.lots, P, t.entry, t.outside)
  BY <1>1, <1>2, <1>4, <1>5, GoesOn
<1> QED
  BY <1>1, <1>6, Tails DEF P

LEMMA UpdatePositionsGoes ==
  ASSUME TypeInv, NEW a \in Actors, UpdatePositions(a)
  PROVE  LET t == thread[a]
         IN  \/ /\ t.todo = Write
                /\ Goes(a, Snapshot, t.cash, t.lots, {}, t.entry, t.outside)
             \/ /\ t.todo = WriteOnly
                /\ Goes(a, <<>>, 0, {}, {}, NoEntry, FALSE)
<1> DEFINE t == thread[a]
           s == t.todo
           u == [t EXCEPT !.positions = {}]
<1>1. t \in Threads /\ s \in Todos /\ s # <<>> /\ s \in {Write, WriteOnly}
  BY TypedThread, Chart DEF UpdatePositions, At
<1>2. Continue(a, u)
  BY DEF UpdatePositions
<1>3. Became(u, s, t.cash, t.lots, {}, t.entry, t.outside)
  BY <1>1, KeptPositions
<1> HIDE DEF u
<1>4. CASE s = Write
  <2>1. s \notin {Snapshot, WriteOnly}
    BY <1>4, TodosApart
  <2>2. Goes(a, Tail(s), t.cash, t.lots, {}, t.entry, t.outside)
    BY <1>1, <1>2, <1>3, <2>1, GoesOn
  <2> QED
    BY <1>4, <2>2, Tails
<1>5. CASE s = WriteOnly
  <2>1. Goes(a, <<>>, 0, {}, {}, NoEntry, FALSE)
    BY <1>1, <1>2, <1>3, <1>5, GoesOn
  <2> QED
    BY <1>5, <2>1
<1> QED
  BY <1>1, <1>4, <1>5

LEMMA SnapshotGoes ==
  ASSUME TypeInv, NEW a \in Actors, CreateValuationSnapshot(a)
  PROVE  thread[a].todo = Snapshot /\ Goes(a, <<>>, 0, {}, {}, NoEntry, FALSE)
<1> DEFINE t == thread[a]
           s == t.todo
<1>1. t \in Threads /\ s \in Todos /\ s # <<>> /\ s = Snapshot
  BY TypedThread, Chart DEF CreateValuationSnapshot, At
<1>2. Became(t, s, t.cash, t.lots, t.positions, t.entry, t.outside) /\ Continue(a, t)
  BY <1>1, Kept DEF CreateValuationSnapshot, Proceed
<1> QED
  BY <1>1, <1>2, GoesOn

LEMMA StopGoes ==
  ASSUME NEW a \in Actors, thread' = [thread EXCEPT ![a] = Idle]
  PROVE  Goes(a, <<>>, 0, {}, {}, NoEntry, FALSE)
  BY IdleThread DEF Goes, Became

-----------------------------------------------------------------------------
(* Every step keeps the type invariant.                                      *)

(* Identifiers given out later do not disturb a thread.                      *)
LEMMA FitMore ==
  ASSUME NEW s, NEW L, NEW P, NEW e, NEW g, NEW h, Fit(s, L, P, e, g), g \subseteq h
  PROVE  Fit(s, L, P, e, h)
  BY DEF Fit

(* A call leaves the threads sound that use only lots already there,         *)
LEMMA StepThreads ==
  ASSUME ThreadsOK(thread, lots, issued), NEW a \in Actors,
         NEW s, NEW c, NEW L, NEW P, NEW e, NEW x, Goes(a, s, c, L, P, e, x),
         Fit(s, L, P, e, issued), s \notin {BuySteps, ManualSteps},
         NEW M, Ids(M) \subseteq Ids(lots) \cup Ids(thread[a].lots),
         Ids(L) \subseteq Ids(lots) \cup Ids(thread[a].lots)
  PROVE  ThreadsOK(thread', M, issued)
<1>1. PICK u : Became(u, s, c, L, P, e, x) /\ thread' = [thread EXCEPT ![a] = u]
  BY DEF Goes
<1> DEFINE th == thread'
<1>2. thread \in [Actors -> Threads] /\ u \in Threads
  BY <1>1 DEF ThreadsOK, Became
<1>3. th \in [Actors -> Threads] /\ th[a] = u /\ \A b \in Actors : b # a => th[b] = thread[b]
  BY <1>1, <1>2, NewThread
<1> HIDE DEF th
<1>4. u.todo = s /\ u.lots = L /\ Sound(u, issued)
  BY <1>1 DEF Became, Sound
<1>5. \A b \in Actors : Sound(th[b], issued)
  BY <1>3, <1>4 DEF ThreadsOK
<1>6. Fresh(th, M)
  <2> SUFFICES ASSUME NEW b \in Actors, th[b].todo \in {BuySteps, ManualSteps}
               PROVE  /\ Ids(th[b].lots) \cap Ids(M) = {}
                      /\ \A d \in Actors : d # b => Ids(th[d].lots) \cap Ids(th[b].lots) = {}
    BY DEF Fresh
  <2>1. b # a /\ th[b] = thread[b]
    BY <1>3, <1>4
  <2>2. /\ Ids(thread[b].lots) \cap Ids(lots) = {}
        /\ \A d \in Actors : d # b => Ids(thread[d].lots) \cap Ids(thread[b].lots) = {}
    BY <2>1 DEF ThreadsOK, Fresh
  <2>3. Ids(thread[a].lots) \cap Ids(thread[b].lots) = {}
    BY <2>1, <2>2
  <2>4. Ids(u.lots) \cap Ids(thread[b].lots) = {}
    BY <1>4, <2>2, <2>3
  <2> QED
    BY <1>3, <2>1, <2>2, <2>3, <2>4
<1>7. ThreadsOK(th, M, issued)
  BY <1>3, <1>5, <1>6 DEF ThreadsOK
<1> QED
  BY <1>7 DEF th

(* and so does the beginning of an operation, with lots already there or new *)
(* ones.                                                                     *)
LEMMA BeginThreads ==
  ASSUME ThreadsOK(thread, lots, issued), Ids(lots) \subseteq issued, NEW a \in Actors,
         NEW s, NEW c, NEW L, NEW P, NEW e, NEW x, Goes(a, s, c, L, P, e, x),
         NEW h, issued \subseteq h, Fit(s, L, P, e, h),
         \/ Ids(L) \cap issued = {}
         \/ Ids(L) \subseteq Ids(lots) /\ s \notin {BuySteps, ManualSteps}
  PROVE  ThreadsOK(thread', lots, h)
<1>1. PICK u : Became(u, s, c, L, P, e, x) /\ thread' = [thread EXCEPT ![a] = u]
  BY DEF Goes
<1> DEFINE th == thread'
<1>2. thread \in [Actors -> Threads] /\ u \in Threads
  BY <1>1 DEF ThreadsOK, Became
<1>3. th \in [Actors -> Threads] /\ th[a] = u /\ \A b \in Actors : b # a => th[b] = thread[b]
  BY <1>1, <1>2, NewThread
<1> HIDE DEF th
<1>4. u.todo = s /\ u.lots = L /\ Sound(u, h)
  BY <1>1 DEF Became, Sound
<1>5. \A b \in Actors : Sound(thread[b], h) /\ Ids(thread[b].lots) \subseteq issued
  BY FitMore DEF ThreadsOK, Sound, Fit
<1>6. \A b \in Actors : Sound(th[b], h)
  BY <1>3, <1>4, <1>5
<1>7. Fresh(th, lots)
  <2> SUFFICES ASSUME NEW b \in Actors, th[b].todo \in {BuySteps, ManualSteps}
               PROVE  /\ Ids(th[b].lots) \cap Ids(lots) = {}
                      /\ \A d \in Actors : d # b => Ids(th[d].lots) \cap Ids(th[b].lots) = {}
    BY DEF Fresh
  <2>1. CASE b = a
    <3>1. Ids(L) \cap issued = {} /\ th[b].lots = L
      BY <1>3, <1>4, <2>1
    <3>2. \A d \in Actors : d # b => Ids(th[d].lots) \subseteq issued
      BY <1>3, <1>5, <2>1
    <3> QED
      BY <3>1, <3>2
  <2>2. CASE b # a
    <3>1. /\ Ids(thread[b].lots) \cap Ids(lots) = {}
          /\ \A d \in Actors : d # b => Ids(thread[d].lots) \cap Ids(thread[b].lots) = {}
      BY <1>3, <2>2 DEF ThreadsOK, Fresh
    <3>2. Ids(u.lots) \cap Ids(thread[b].lots) = {}
      BY <1>4, <1>5, <3>1
    <3> QED
      BY <1>3, <2>2, <3>1, <3>2
  <2> QED
    BY <2>1, <2>2
<1>8. ThreadsOK(th, lots, h)
  BY <1>3, <1>6, <1>7 DEF ThreadsOK
<1> QED
  BY <1>8 DEF th

(* Entries stay known when identifiers are given out,                        *)
LEMMA KnownMore ==
  ASSUME NEW s, NEW M, NEW g, NEW h, Known(s, M, g), g \subseteq h
  PROVE  Known(s, M, h)
  BY DEF Known

(* and when one that is known is added.                                      *)
LEMMA KnownAppend ==
  ASSUME NEW s, NEW M, NEW g, Known(s, M, g), NEW e \in M, e.ids \subseteq g
  PROVE  Known(Append(s, e), M, g)
<1>1. s \in Seq(M) /\ \A n \in DOMAIN s : s[n].ids \subseteq g
  BY DEF Known
<1>2. /\ Append(s, e) \in Seq(M) /\ Len(s) \in Nat /\ DOMAIN s = 1 .. Len(s)
      /\ DOMAIN Append(s, e) = 1 .. (Len(s) + 1)
      /\ \A n \in 1 .. Len(s) : Append(s, e)[n] = s[n]
      /\ Append(s, e)[Len(s) + 1] = e
  BY <1>1
<1>3. \A n \in DOMAIN Append(s, e) : Append(s, e)[n].ids \subseteq g
  BY <1>1, <1>2
<1> QED
  BY <1>2, <1>3 DEF Known

(* The beginning of an operation keeps the invariant if what it begins with  *)
(* fits.                                                                     *)
LEMMA BeginTypes ==
  ASSUME TypeInv, NEW a \in Actors, Opens(a),
         NEW s, NEW c, NEW L, NEW P, NEW e, NEW x, Goes(a, s, c, L, P, e, x),
         NEW I, I \subseteq LotIds, issued' = issued \cup I,
         Fit(s, L, P, e, issued \cup I),
         \/ Ids(L) \cap issued = {}
         \/ Ids(L) \subseteq Ids(lots) /\ s \notin {BuySteps, ManualSteps}
  PROVE  TypeInv'
<1> DEFINE h == issued \cup I
<1>1. ThreadsOK(thread, lots, issued) /\ Ids(lots) \subseteq issued
  BY DEF TypeInv
<1>2. issued \subseteq h /\ Fit(s, L, P, e, h) /\ issued' = h
  OBVIOUS
<1> HIDE DEF h
<1>3. ThreadsOK(thread', lots, h)
  BY <1>1, <1>2, BeginThreads
<1>4. ThreadsOK(thread', lots', issued')
  BY <1>2, <1>3 DEF Opens
<1>5. Known(trades, TradeEntry, h)
  BY <1>2, KnownMore DEF TypeInv
<1>6. /\ Book(lots') /\ Ids(lots') \subseteq issued' /\ OneRow(positions') /\ cash' \in Int
      /\ Known(trades', TradeEntry, issued') /\ moves' \in Seq(MoveInput)
      /\ outside' \in [basis: Int, shares: [Symbols -> Int], removed: SUBSET LotIds]
      /\ torn' \subseteq DOMAIN Closing
  BY <1>2, <1>5 DEF TypeInv, Opens
<1>7. issued' \subseteq LotIds /\ begun' \in 0 .. MaxOps
  BY FlagsAssumption DEF TypeInv, Opens
<1> QED
  BY <1>4, <1>6, <1>7 DEF TypeInv

(* The amount of an entry is a whole number.                                 *)
LEMMA DeltaIsInt ==
  ASSUME NEW e \in TradeEntry \cup MoveInput
  PROVE  CashDelta(e) \in Int
<1>1. CASE e \in TradeEntry
  <2> DEFINE b == e.quantity * e.price
  <2>1. e.quantity \in Nat /\ e.price \in Nat /\ e.fees \in Nat /\ e.kind \in {"buy", "sell"}
    BY <1>1 DEF TradeEntry, BuyEntry, SellEntry
  <2>2. b \in Nat
    BY <2>1, NatTimes
  <2> HIDE DEF b
  <2>3. -(b + e.fees) \in Int /\ b - e.fees \in Int
    BY <2>1, <2>2
  <2>4. CashDelta(e) = IF e.kind = "buy" THEN -(b + e.fees) ELSE b - e.fees
    <3>1. CASE e.kind = "buy"
      BY <3>1 DEF CashDelta, Inflows, Outflows, b
    <3>2. CASE e.kind = "sell"
      BY <3>2 DEF CashDelta, Inflows, Outflows, b
    <3> QED
      BY <2>1, <3>1, <3>2
  <2> QED
    BY <2>3, <2>4
<1>2. CASE e \in MoveInput
  <2>1. e.amount \in Nat /\ e.kind \in Inflows \cup Outflows
    BY <1>2 DEF MoveInput
  <2>2. CashDelta(e) = IF e.kind \in Inflows THEN e.amount ELSE -e.amount
    BY <2>1 DEF CashDelta, Inflows, Outflows
  <2> QED
    BY <2>1, <2>2
<1> QED
  BY <1>1, <1>2

(* What was entered by hand stays whole numbers.                             *)
LEMMA OutsideTypes ==
  ASSUME TypeInv, NEW a \in Actors, NEW L, Book(L), Ids(L) \subseteq LotIds, SetLots(a, L)
  PROVE  outside' \in [basis: Int, shares: [Symbols -> Int], removed: SUBSET LotIds]
<1>1. outside \in [basis: Int, shares: [Symbols -> Int], removed: SUBSET LotIds]
      /\ lots \in SUBSET Held /\ IsFiniteSet(lots) /\ L \in SUBSET Held /\ IsFiniteSet(L)
      /\ Ids(lots) \subseteq LotIds
  BY DEF TypeInv, Book
<1>2. BasisOf(L) \in Int /\ BasisOf(lots) \in Int
  BY <1>1, BasisIsTotal
<1>3. \A s \in Symbols : SharesIn(L, s) \in Int /\ SharesIn(lots, s) \in Int
  BY <1>1, SharesAreTotal
<1> DEFINE b == outside.basis + BasisOf(L) - BasisOf(lots)
           f == [s \in Symbols |-> outside.shares[s] + SharesIn(L, s) - SharesIn(lots, s)]
           r == outside.removed \cup (Ids(lots) \ Ids(L))
<1>4. b \in Int /\ f \in [Symbols -> Int] /\ r \in SUBSET LotIds
  <2>1. b \in Int
    BY <1>1, <1>2
  <2>2. f \in [Symbols -> Int]
    BY <1>1, <1>3
  <2>3. r \in SUBSET LotIds
    BY <1>1
  <2> QED
    BY <2>1, <2>2, <2>3
<1>5. outside' = IF thread[a].outside THEN [basis |-> b, shares |-> f, removed |-> r]
                 ELSE outside
  BY DEF SetLots
<1> HIDE DEF b, f, r
<1> QED
  BY <1>1, <1>4, <1>5

(* Two books without a common identifier are a book.                         *)
LEMMA UnionBook ==
  ASSUME NEW K, NEW L, Book(K), Book(L), Ids(K) \cap Ids(L) = {}
  PROVE  Book(K \cup L) /\ Ids(K \cup L) = Ids(K) \cup Ids(L)
<1>1. IsFiniteSet(K \cup L)
  BY FS_Union DEF Book
<1>2. OneEach(K \cup L)
  BY DEF Book, OneEach, Ids
<1> QED
  BY <1>1, <1>2 DEF Book, Ids

(* A step that leaves lots, issued and begun as they are.                    *)
LEMMA QuietTypes ==
  ASSUME TypeInv, NEW a \in Actors,
         NEW s, NEW c, NEW L, NEW P, NEW e, NEW x, Goes(a, s, c, L, P, e, x),
         Fit(s, L, P, e, issued), s \notin {BuySteps, ManualSteps},
         Ids(L) \subseteq Ids(lots) \cup Ids(thread[a].lots),
         UNCHANGED <<lots, issued, begun, outside>>
  PROVE  /\ ThreadsOK(thread', lots', issued')
         /\ Book(lots') /\ Ids(lots') \subseteq issued'
         /\ issued' \subseteq LotIds /\ begun' \in 0 .. MaxOps
         /\ outside' \in [basis: Int, shares: [Symbols -> Int], removed: SUBSET LotIds]
<1>1. ThreadsOK(thread, lots, issued) /\ Ids(lots) \subseteq Ids(lots) \cup Ids(thread[a].lots)
  BY DEF TypeInv
<1>2. ThreadsOK(thread', lots, issued)
  BY <1>1, StepThreads
<1> QED
  BY <1>2 DEF TypeInv

(* A call that changes none of the fields fits.                              *)
LEMMA SameFit ==
  ASSUME NEW t, NEW g, Sound(t, g)
  PROVE  /\ Fit(t.todo, t.lots, t.positions, t.entry, g)
         /\ t.todo \in {BuySteps, Put} => Fit(Record, {}, t.positions, t.entry, g)
         /\ t.todo = Record => Fit(Pay, t.lots, t.positions, t.entry, g)
         /\ t.todo = MoveSteps => Fit(PayOnly, t.lots, t.positions, t.entry, g)
<1>1. Fit(t.todo, t.lots, t.positions, t.entry, g)
  BY DEF Sound
<1>2. Book({}) /\ OneRow({}) /\ Ids({}) \subseteq g
  BY EmptyBook
<1>4. t.todo \in {BuySteps, Put} => Fit(Record, {}, t.positions, t.entry, g)
  BY <1>1, <1>2, TodosApart DEF Fit, TradeEntry
<1>5. t.todo = Record => Fit(Pay, t.lots, t.positions, t.entry, g)
  BY <1>1, TodosApart DEF Fit
<1>6. t.todo = MoveSteps => Fit(PayOnly, t.lots, t.positions, t.entry, g)
  BY <1>1, TodosApart DEF Fit
<1> QED
  BY <1>1, <1>4, <1>5, <1>6

(* The last calls need only a book and rows.                                 *)
LEMMA LateFit ==
  ASSUME NEW s \in {<<>>, Roll, Write, WriteOnly, Snapshot, RebuildSteps},
         NEW L, Book(L), NEW g, Ids(L) \subseteq g, NEW P, OneRow(P), NEW e
  PROVE  Fit(s, L, P, e, g) /\ s \notin {BuySteps, ManualSteps}
<1>1. s \notin {BuySteps, ManualSteps, SellSteps, Put, Record, Pay, MoveSteps, PayOnly}
  BY TodosApart
<1> QED
  BY <1>1 DEF Fit

(* A sound thread carries a book and rows.                                   *)
LEMMA Holds ==
  ASSUME NEW t, NEW g, Sound(t, g)
  PROVE  Book(t.lots) /\ Ids(t.lots) \subseteq g /\ OneRow(t.positions)
  BY DEF Sound, Fit

LEMMA BuyTypes ==
  ASSUME TypeInv, NEW a \in Actors, NEW o \in Buys, BeginBuy(a, o)
  PROVE  TypeInv'
<1>1. PICK L \in Created({o}), e \in BuyEntry :
        /\ Opens(a) /\ issued' = issued \cup Ids(L)
        /\ Goes(a, BuySteps, cash, L, {}, e, FALSE) /\ e.ids = Ids(L)
  BY BuyBegins
<1>2. Book(L) /\ Ids(L) \subseteq LotIds /\ Ids(L) \cap issued = {}
  BY Inputs, NewBook
<1>3. Fit(BuySteps, L, {}, e, issued \cup Ids(L))
  BY <1>1, <1>2, EmptyBook, TodosApart DEF Fit
<1> QED
  BY <1>1, <1>2, <1>3, BeginTypes

LEMMA SellTypes ==
  ASSUME TypeInv, NEW a \in Actors, NEW o \in Sells, BeginSell(a, o)
  PROVE  TypeInv'
<1>1. PICK e \in SellEntry :
        Opens(a) /\ issued' = issued /\ e.ids = {} /\ Goes(a, SellSteps, cash, {}, {}, e, FALSE)
  BY SellBegins
<1>2. Fit(SellSteps, {}, {}, e, issued \cup {}) /\ Ids({}) = {} /\ issued' = issued \cup {}
  BY <1>1, EmptyBook, TodosApart DEF Fit
<1> QED
  BY <1>1, <1>2, BeginTypes

LEMMA MoveTypes ==
  ASSUME TypeInv, NEW a \in Actors, NEW m \in Moves, BeginMove(a, m)
  PROVE  TypeInv'
<1>1. Opens(a) /\ issued' = issued /\ m \in MoveInput /\ Goes(a, MoveSteps, cash, {}, {}, m, FALSE)
  BY MoveBegins
<1>2. Fit(MoveSteps, {}, {}, m, issued \cup {}) /\ Ids({}) = {} /\ issued' = issued \cup {}
  BY <1>1, EmptyBook, TodosApart DEF Fit
<1> QED
  BY <1>1, <1>2, BeginTypes

(* Operations that bring new lots,                                           *)
LEMMA FreshLotsTypes ==
  ASSUME TypeInv, NEW a \in Actors, NEW S, Input(S), NEW L \in Created(S), Opens(a),
         issued' = issued \cup Ids(L), NEW s \in {ManualSteps, ReplaceSteps},
         Goes(a, s, 0, L, {}, NoEntry, TRUE)
  PROVE  TypeInv'
<1>1. Book(L) /\ Ids(L) \subseteq LotIds /\ Ids(L) \cap issued = {}
  BY NewBook
<1>2. Fit(s, L, {}, NoEntry, issued \cup Ids(L))
  BY <1>1, EmptyBook, TodosApart DEF Fit
<1> QED
  BY <1>1, <1>2, BeginTypes

(* and those that write back lots or rows that were read.                    *)
LEMMA KnownLotsTypes ==
  ASSUME TypeInv, NEW a \in Actors, Opens(a), issued' = issued, NEW L, Book(L),
         Ids(L) \subseteq Ids(lots), NEW P, OneRow(P), NEW x,
         NEW s \in {ReplaceSteps, Write, RebuildSteps}, Goes(a, s, 0, L, P, NoEntry, x)
  PROVE  TypeInv'
<1>1. Ids(L) \subseteq issued
  BY DEF TypeInv
<1>2. s \notin {BuySteps, ManualSteps, SellSteps, Put, Record, Pay, MoveSteps, PayOnly}
  BY TodosApart
<1> DEFINE I == {}
<1>3. Fit(s, L, P, NoEntry, issued \cup I)
  BY <1>1, <1>2 DEF Fit
<1>4. issued' = issued \cup I /\ I \subseteq LotIds
  OBVIOUS
<1>5. Ids(L) \subseteq Ids(lots) /\ s \notin {BuySteps, ManualSteps}
  BY <1>2
<1> HIDE DEF I
<1> QED
  BY <1>3, <1>4, <1>5, BeginTypes

(* Some of the lots are a book,                                              *)
LEMMA SomeLots ==
  ASSUME TypeInv, NEW L, L \subseteq lots
  PROVE  Book(L) /\ Ids(L) \subseteq Ids(lots) /\ L \in SUBSET Held
<1>1. Book(lots)
  BY DEF TypeInv
<1>2. Book(L)
  BY <1>1, SubBook
<1> QED
  BY <1>1, <1>2 DEF Book, Ids

(* and some of the rows are rows.                                            *)
LEMMA SomeRows ==
  ASSUME OneRow(positions), NEW P, P \subseteq positions
  PROVE  OneRow(P) /\ P \in SUBSET PositionRow
  BY FS_Subset DEF OneRow

(* A quote changes the current price of lots and neither shares nor basis.   *)
LEMMA RepricedBook ==
  ASSUME TypeInv, NEW q \in Quotes
  PROVE  /\ Book(RepricedLots(q)) /\ Ids(RepricedLots(q)) = Ids(lots)
         /\ BasisOf(RepricedLots(q)) = BasisOf(lots)
         /\ \A s : SharesIn(RepricedLots(q), s) = SharesIn(lots, s)
         /\ \A l \in RepricedLots(q) : \E k \in lots : Kin(l, k) /\ l.left = k.left
         /\ \A k \in lots : \E l \in RepricedLots(q) : Kin(l, k) /\ l.left = k.left
         /\ \A s : OfSymbol(RepricedLots(q), s) = {} <=> OfSymbol(lots, s) = {}
<1> DEFINE h == [l \in lots |-> IF l.symbol = q.symbol THEN [l EXCEPT !.cur = q.price] ELSE l]
           p == q.price
           B == lots
<1>1. p \in Nat /\ Book(B)
  BY InputsAssumption DEF TypeInv
<1>2. ASSUME NEW l \in B
      PROVE  h[l] \in Held /\ Kin(h[l], l) /\ h[l].left = l.left
  <2> DEFINE y == [l EXCEPT !.cur = p]
  <2>1. l \in Held /\ l \in Wide
    BY <1>1, HeldIsWide DEF Book
  <2>2. h[l] = IF l.symbol = q.symbol THEN y ELSE l
    OBVIOUS
  <2> HIDE DEF p, h
  <2>3. /\ y \in Wide
        /\ y.id = l.id /\ y.symbol = l.symbol /\ y.quantity = l.quantity
        /\ y.left = l.left /\ y.price = l.price /\ y.cur = p
        /\ y.fees = l.fees /\ y.at = l.at
    BY <1>1, <2>1 DEF Wide
  <2> HIDE DEF y
  <2>4. y \in Held /\ Kin(y, l) /\ Kin(l, l)
    BY <1>1, <2>1, <2>3 DEF Held, Lot, Wide, Kin
  <2> QED
    BY <2>1, <2>2, <2>3, <2>4
<1>3. RepricedLots(q) = {h[l] : l \in B}
  BY DEF RepricedLots
<1> HIDE DEF h, p, B
<1>4. LET C == {h[l] : l \in B}
      IN  /\ Book(C) /\ BasisOf(C) = BasisOf(B)
          /\ \A s : SharesIn(C, s) = SharesIn(B, s)
  BY <1>1, <1>2, Repricing
<1> DEFINE C == {h[l] : l \in B}
<1>5. /\ \A l \in C : \E k \in B : Kin(l, k) /\ l.left = k.left
      /\ \A k \in B : \E l \in C : Kin(l, k) /\ l.left = k.left
  BY <1>2
<1>6. Book(C) /\ BasisOf(C) = BasisOf(B) /\ \A s : SharesIn(C, s) = SharesIn(B, s)
  BY <1>4
<1> HIDE DEF C
<1>7. Ids(C) = Ids(B)
  BY <1>5 DEF Ids, Kin
<1>8. \A s : OfSymbol(C, s) = {} <=> OfSymbol(B, s) = {}
  BY <1>5 DEF OfSymbol, Kin
<1> QED
  BY <1>3, <1>5, <1>6, <1>7, <1>8 DEF B, C

LEMMA DeleteLotBegins ==
  ASSUME TypeInv, NEW a \in Actors, NEW i \in LotIds, BeginDeleteLot(a, i)
  PROVE  LET L == {l \in lots : l.id # i}
         IN  /\ Opens(a) /\ issued' = issued
             /\ Goes(a, ReplaceSteps, 0, L, {}, NoEntry, TRUE)
<1> DEFINE L == {l \in lots : l.id # i}
<1>1. L \in SUBSET Held
  BY SomeLots
<1>2. Begin(a, [Idle EXCEPT !.todo = ReplaceSteps, !.outside = TRUE, !.lots = L])
      /\ issued' = issued
  BY DEF BeginDeleteLot
<1> HIDE DEF L
<1>3. Opens(a) /\ Goes(a, ReplaceSteps, 0, L, {}, NoEntry, TRUE)
  BY <1>1, <1>2, ReplaceBegins
<1> QED
  BY <1>2, <1>3 DEF L

LEMMA DeletePositionBegins ==
  ASSUME TypeInv, NEW a \in Actors, NEW s \in Symbols, BeginDeletePosition(a, s)
  PROVE  /\ Opens(a) /\ issued' = issued
         /\ \/ Goes(a, ReplaceSteps, 0, lots \ OfSymbol(lots, s), {}, NoEntry, TRUE)
            \/ /\ OfSymbol(lots, s) = {} /\ OfSymbol(positions, s) # {}
               /\ Goes(a, Write, 0, {}, positions \ OfSymbol(positions, s), NoEntry, FALSE)
<1> DEFINE L == lots \ OfSymbol(lots, s)
           P == positions \ OfSymbol(positions, s)
<1>1. L \in SUBSET Held /\ P \in SUBSET PositionRow
  BY SomeLots, SomeRows DEF TypeInv
<1>2. /\ \/ Begin(a, [Idle EXCEPT !.todo = ReplaceSteps, !.outside = TRUE, !.lots = L])
         \/ /\ OfSymbol(lots, s) = {} /\ OfSymbol(positions, s) # {}
            /\ Begin(a, [Idle EXCEPT !.todo = PositionSteps, !.positions = P])
      /\ issued' = issued
  BY DEF BeginDeletePosition
<1> HIDE DEF L, P
<1>3. CASE Begin(a, [Idle EXCEPT !.todo = ReplaceSteps, !.outside = TRUE, !.lots = L])
  <2>1. Opens(a) /\ Goes(a, ReplaceSteps, 0, L, {}, NoEntry, TRUE)
    BY <1>1, <1>3, ReplaceBegins
  <2> QED
    BY <1>2, <2>1 DEF L
<1>4. CASE /\ OfSymbol(lots, s) = {} /\ OfSymbol(positions, s) # {}
           /\ Begin(a, [Idle EXCEPT !.todo = PositionSteps, !.positions = P])
  <2>1. Opens(a) /\ Goes(a, Write, 0, {}, P, NoEntry, FALSE)
    BY <1>1, <1>4, PositionsBegin
  <2> QED
    BY <1>2, <1>4, <2>1 DEF P
<1> QED
  BY <1>2, <1>3, <1>4

LEMMA QuotesBegin ==
  ASSUME TypeInv, NEW a \in Actors, NEW q \in Quotes, BeginQuotes(a, q)
  PROVE  /\ Opens(a) /\ issued' = issued
         /\ \/ Goes(a, ReplaceSteps, 0, RepricedLots(q), {}, NoEntry, FALSE)
            \/ /\ lots = {} /\ RepricedPositions(q) # positions
               /\ Goes(a, Write, 0, {}, RepricedPositions(q), NoEntry, FALSE)
         /\ OneRow(RepricedPositions(q))
<1> DEFINE L == RepricedLots(q)
           P == RepricedPositions(q)
<1>1. L \in SUBSET Held
  BY RepricedBook DEF Book
<1>2. OneRow(P) /\ P \in SUBSET PositionRow
  <2>1. q.price \in Nat /\ OneRow(positions)
    BY InputsAssumption DEF TypeInv
  <2>2. OneRow(P)
    BY <2>1, RepricedRows DEF RepricedPositions
  <2> HIDE DEF P
  <2> QED
    BY <2>2 DEF OneRow
<1>3. /\ \/ Begin(a, [Idle EXCEPT !.todo = ReplaceSteps, !.lots = L])
         \/ /\ lots = {} /\ P # positions
            /\ Begin(a, [Idle EXCEPT !.todo = PositionSteps, !.positions = P])
      /\ issued' = issued
  BY DEF BeginQuotes
<1> HIDE DEF L, P
<1>4. CASE Begin(a, [Idle EXCEPT !.todo = ReplaceSteps, !.lots = L])
  <2>1. Opens(a) /\ Goes(a, ReplaceSteps, 0, L, {}, NoEntry, FALSE)
    BY <1>1, <1>4, ReplaceBegins
  <2> QED
    BY <1>2, <1>3, <2>1 DEF L, P
<1>5. CASE /\ lots = {} /\ P # positions
           /\ Begin(a, [Idle EXCEPT !.todo = PositionSteps, !.positions = P])
  <2>1. Opens(a) /\ Goes(a, Write, 0, {}, P, NoEntry, FALSE)
    BY <1>2, <1>5, PositionsBegin
  <2> QED
    BY <1>2, <1>3, <1>5, <2>1 DEF P
<1> QED
  BY <1>3, <1>4, <1>5

LEMMA AddLotsTypes ==
  ASSUME TypeInv, NEW a \in Actors, AddLots(a)
  PROVE  TypeInv'
<1> DEFINE t == thread[a]
           M == lots \cup t.lots
<1>1. /\ ThreadsOK(thread, lots, issued) /\ Sound(t, issued) /\ Book(lots)
      /\ Ids(lots) \subseteq issued /\ issued \subseteq LotIds
  BY DEF TypeInv, ThreadsOK
<1>2. t.todo \in {BuySteps, ManualSteps}
  BY AddLotsGoes
<1>3. Book(t.lots) /\ Ids(t.lots) \subseteq issued /\ Ids(t.lots) \cap Ids(lots) = {}
  BY <1>1, <1>2 DEF Sound, Fit, ThreadsOK, Fresh
<1>4. Book(M) /\ Ids(M) = Ids(lots) \cup Ids(t.lots)
  BY <1>1, <1>3, UnionBook
<1>5. /\ lots' = M /\ SetLots(a, M)
      /\ UNCHANGED <<cash, positions, trades, moves, issued, begun, torn>>
  BY DEF AddLots, SetLots
<1> HIDE DEF M
<1>6. ThreadsOK(thread', M, issued)
  <2>1. CASE t.todo = BuySteps /\ Goes(a, Record, t.cash, {}, t.positions, t.entry, t.outside)
    <3>1. Fit(Record, {}, t.positions, t.entry, issued) /\ Record \notin {BuySteps, ManualSteps}
      BY <1>1, <2>1, SameFit, TodosApart
    <3> QED
      BY <1>1, <1>4, <2>1, <3>1, EmptyBook, StepThreads
  <2>2. CASE t.todo = ManualSteps /\ Goes(a, Roll, t.cash, {}, t.positions, t.entry, t.outside)
    <3>1. Fit(Roll, {}, t.positions, t.entry, issued) /\ Roll \notin {BuySteps, ManualSteps}
      BY <1>1, Holds, EmptyBook, LateFit
    <3> QED
      BY <1>1, <1>4, <2>2, <3>1, EmptyBook, StepThreads
  <2> QED
    BY <2>1, <2>2, AddLotsGoes
<1>7. outside' \in [basis: Int, shares: [Symbols -> Int], removed: SUBSET LotIds]
  BY <1>1, <1>3, <1>4, <1>5, OutsideTypes
<1> QED
  BY <1>1, <1>3, <1>4, <1>5, <1>6, <1>7 DEF TypeInv

LEMMA MatchLotsTypes ==
  ASSUME TypeInv, NEW a \in Actors, MatchLots(a)
  PROVE  TypeInv'
<1> DEFINE t == thread[a]
           r == ApplyFifoSale(lots, t.entry)
<1>1. PICK e \in SellEntry :
        Goes(a, Put, t.cash, r.lots, t.positions, e, t.outside) /\ e.ids = r.ids
  BY MatchLotsGoes
<1>2. SaleIsRight(lots, t.entry, r)
  BY MatchLotsGoes
<1>3. Ids(lots) \subseteq issued /\ Sound(t, issued)
  BY DEF TypeInv, ThreadsOK
<1> HIDE DEF r
<1>4. Book(r.lots) /\ Ids(r.lots) \subseteq Ids(lots) /\ r.ids \subseteq Ids(lots)
  BY <1>2 DEF SaleIsRight, Kin, Ids
<1>5. Fit(Put, r.lots, t.positions, e, issued) /\ Put \notin {BuySteps, ManualSteps}
  BY <1>1, <1>3, <1>4, TodosApart DEF Fit, Sound
<1>6. UNCHANGED <<lots, cash, positions, trades, moves, issued, begun, outside, torn>>
  BY DEF MatchLots, books, history
<1>7. /\ ThreadsOK(thread', lots', issued')
      /\ Book(lots') /\ Ids(lots') \subseteq issued'
      /\ issued' \subseteq LotIds /\ begun' \in 0 .. MaxOps
      /\ outside' \in [basis: Int, shares: [Symbols -> Int], removed: SUBSET LotIds]
  BY <1>1, <1>4, <1>5, <1>6, QuietTypes
<1> QED
  BY <1>6, <1>7 DEF TypeInv

LEMMA StopTypes ==
  ASSUME TypeInv, NEW a \in Actors, thread' = [thread EXCEPT ![a] = Idle],
         UNCHANGED <<lots, cash, positions, trades, moves, issued, begun, outside>>,
         torn' \subseteq DOMAIN Closing
  PROVE  TypeInv'
<1>1. Goes(a, <<>>, 0, {}, {}, NoEntry, FALSE)
  BY StopGoes
<1>2. Fit(<<>>, {}, {}, NoEntry, issued) /\ Ids({}) = {} /\ <<>> \notin {BuySteps, ManualSteps}
  BY EmptyBook, TodosApart DEF Fit
<1>3. /\ ThreadsOK(thread', lots', issued')
      /\ Book(lots') /\ Ids(lots') \subseteq issued'
      /\ issued' \subseteq LotIds /\ begun' \in 0 .. MaxOps
      /\ outside' \in [basis: Int, shares: [Symbols -> Int], removed: SUBSET LotIds]
  BY <1>1, <1>2, QuietTypes
<1> QED
  BY <1>3 DEF TypeInv

LEMMA ReplaceLotsTypes ==
  ASSUME TypeInv, NEW a \in Actors, ReplaceLots(a)
  PROVE  TypeInv'
<1> DEFINE t == thread[a]
           M == t.lots
<1>1. /\ ThreadsOK(thread, lots, issued) /\ Sound(t, issued) /\ issued \subseteq LotIds
  BY DEF TypeInv, ThreadsOK
<1>2. Book(M) /\ Ids(M) \subseteq issued
  BY <1>1 DEF Sound, Fit
<1>3. /\ lots' = M /\ SetLots(a, M)
      /\ UNCHANGED <<cash, positions, trades, moves, issued, begun, torn>>
  BY DEF ReplaceLots, SetLots
<1>4. ThreadsOK(thread', M, issued)
  <2>1. CASE t.todo = Put /\ Goes(a, Record, t.cash, {}, t.positions, t.entry, t.outside)
    <3>1. Fit(Record, {}, t.positions, t.entry, issued) /\ Record \notin {BuySteps, ManualSteps}
      BY <1>1, <2>1, SameFit, TodosApart
    <3> QED
      BY <1>1, <2>1, <3>1, EmptyBook, StepThreads
  <2>2. CASE t.todo = ReplaceSteps /\ Goes(a, Roll, t.cash, {}, t.positions, t.entry, t.outside)
    <3>1. Fit(Roll, {}, t.positions, t.entry, issued) /\ Roll \notin {BuySteps, ManualSteps}
      BY <1>1, Holds, EmptyBook, LateFit
    <3> QED
      BY <1>1, <2>2, <3>1, EmptyBook, StepThreads
  <2> QED
    BY <2>1, <2>2, ReplaceLotsGoes
<1> HIDE DEF M
<1>5. outside' \in [basis: Int, shares: [Symbols -> Int], removed: SUBSET LotIds]
  BY <1>1, <1>2, <1>3, OutsideTypes
<1> QED
  BY <1>1, <1>2, <1>3, <1>4, <1>5 DEF TypeInv

LEMMA AddTradeTypes ==
  ASSUME TypeInv, NEW a \in Actors, AddTrade(a)
  PROVE  TypeInv'
<1> DEFINE t == thread[a]
<1>1. t.todo = Record /\ Goes(a, Pay, t.cash, t.lots, t.positions, t.entry, t.outside)
  BY AddTradeGoes
<1>2. Sound(t, issued) /\ Known(trades, TradeEntry, issued)
  BY DEF TypeInv, ThreadsOK
<1>3. Fit(Pay, t.lots, t.positions, t.entry, issued) /\ Pay \notin {BuySteps, ManualSteps}
  BY <1>1, <1>2, SameFit, TodosApart
<1>4. t.entry \in TradeEntry /\ t.entry.ids \subseteq issued
  BY <1>1, <1>2 DEF Sound, Fit
<1>5. /\ UNCHANGED <<lots, cash, positions, moves, issued, begun, outside, torn>>
      /\ trades' = Append(trades, t.entry)
  BY DEF AddTrade, history
<1>6. Known(trades', TradeEntry, issued')
  BY <1>2, <1>4, <1>5, KnownAppend
<1>7. /\ ThreadsOK(thread', lots', issued')
      /\ Book(lots') /\ Ids(lots') \subseteq issued'
      /\ issued' \subseteq LotIds /\ begun' \in 0 .. MaxOps
      /\ outside' \in [basis: Int, shares: [Symbols -> Int], removed: SUBSET LotIds]
  BY <1>1, <1>3, <1>5, QuietTypes
<1> QED
  BY <1>5, <1>6, <1>7 DEF TypeInv

LEMMA AddMoveTypes ==
  ASSUME TypeInv, NEW a \in Actors, AddCashTransaction(a)
  PROVE  TypeInv'
<1> DEFINE t == thread[a]
<1>1. t.todo = MoveSteps /\ Goes(a, PayOnly, t.cash, t.lots, t.positions, t.entry, t.outside)
  BY AddMoveGoes
<1>2. Sound(t, issued)
  BY DEF TypeInv, ThreadsOK
<1>3. Fit(PayOnly, t.lots, t.positions, t.entry, issued) /\ PayOnly \notin {BuySteps, ManualSteps}
  BY <1>1, <1>2, SameFit, TodosApart
<1>4. t.entry \in MoveInput
  BY <1>1, <1>2 DEF Sound, Fit
<1>5. /\ UNCHANGED <<lots, cash, positions, trades, issued, begun, outside, torn>>
      /\ moves' = Append(moves, t.entry)
  BY DEF AddCashTransaction, history
<1>6. moves' \in Seq(MoveInput)
  BY <1>4, <1>5 DEF TypeInv
<1>7. /\ ThreadsOK(thread', lots', issued')
      /\ Book(lots') /\ Ids(lots') \subseteq issued'
      /\ issued' \subseteq LotIds /\ begun' \in 0 .. MaxOps
      /\ outside' \in [basis: Int, shares: [Symbols -> Int], removed: SUBSET LotIds]
  BY <1>1, <1>3, <1>5, QuietTypes
<1> QED
  BY <1>5, <1>6, <1>7 DEF TypeInv

LEMMA UpdateCashTypes ==
  ASSUME TypeInv, NEW a \in Actors, UpdateCash(a)
  PROVE  TypeInv'
<1> DEFINE t == thread[a]
<1>1. Sound(t, issued) /\ t \in Threads
  BY TypedThread
<1>2. t.entry \in TradeEntry \cup MoveInput
  BY <1>1, UpdateCashGoes DEF Sound, Fit
<1>3. t.cash \in Int
  BY <1>1 DEF Threads
<1>4. /\ UNCHANGED <<lots, positions, trades, moves, issued, begun, outside, torn>>
      /\ cash' = t.cash + CashDelta(t.entry)
  BY DEF UpdateCash, history
<1>5. cash' \in Int
  BY <1>2, <1>3, <1>4, DeltaIsInt
<1>6. \E s \in {Roll, Snapshot} : Goes(a, s, 0, t.lots, t.positions, NoEntry, t.outside)
  BY UpdateCashGoes
<1>7. PICK s \in {Roll, Snapshot} : Goes(a, s, 0, t.lots, t.positions, NoEntry, t.outside)
  BY <1>6
<1>9. Fit(s, t.lots, t.positions, NoEntry, issued) /\ s \notin {BuySteps, ManualSteps}
  BY <1>1, Holds, LateFit
<1>10. /\ ThreadsOK(thread', lots', issued')
      /\ Book(lots') /\ Ids(lots') \subseteq issued'
      /\ issued' \subseteq LotIds /\ begun' \in 0 .. MaxOps
      /\ outside' \in [basis: Int, shares: [Symbols -> Int], removed: SUBSET LotIds]
  BY <1>4, <1>7, <1>9, QuietTypes
<1> QED
  BY <1>4, <1>5, <1>10 DEF TypeInv

LEMMA RebuildTypes ==
  ASSUME TypeInv, NEW a \in Actors, Rebuild(a)
  PROVE  TypeInv'
<1> DEFINE t == thread[a]
           P == Rollup(lots)
<1>1. Sound(t, issued)
  BY TypedThread
<1>2. OneRow(P)
  BY RollupRows DEF TypeInv
<1>3. /\ UNCHANGED <<lots, cash, positions, trades, moves, issued, begun, outside>>
      /\ torn' = torn \ {"positions"}
  BY DEF Rebuild, books
<1>4. \E s \in {Write, WriteOnly} : Goes(a, s, t.cash, t.lots, P, t.entry, t.outside)
  BY RebuildGoes
<1> HIDE DEF P
<1>5. PICK s \in {Write, WriteOnly} : Goes(a, s, t.cash, t.lots, P, t.entry, t.outside)
  BY <1>4
<1>6. Fit(s, t.lots, P, t.entry, issued) /\ s \notin {BuySteps, ManualSteps}
  BY <1>1, <1>2, Holds, LateFit
<1>7. /\ ThreadsOK(thread', lots', issued')
      /\ Book(lots') /\ Ids(lots') \subseteq issued'
      /\ issued' \subseteq LotIds /\ begun' \in 0 .. MaxOps
      /\ outside' \in [basis: Int, shares: [Symbols -> Int], removed: SUBSET LotIds]
  BY <1>3, <1>5, <1>6, QuietTypes
<1> QED
  BY <1>3, <1>7 DEF TypeInv

LEMMA UpdatePositionsTypes ==
  ASSUME TypeInv, NEW a \in Actors, UpdatePositions(a)
  PROVE  TypeInv'
<1> DEFINE t == thread[a]
<1>1. Sound(t, issued)
  BY TypedThread
<1>2. OneRow(t.positions)
  BY <1>1 DEF Sound, Fit
<1>3. /\ UNCHANGED <<lots, cash, trades, moves, issued, begun, outside, torn>>
      /\ positions' = t.positions
  BY DEF UpdatePositions, history
<1>4. Fit(Snapshot, t.lots, {}, t.entry, issued) /\ Fit(<<>>, {}, {}, NoEntry, issued)
      /\ Snapshot \notin {BuySteps, ManualSteps} /\ <<>> \notin {BuySteps, ManualSteps}
  BY <1>1, Holds, EmptyBook, LateFit
<1>5. /\ ThreadsOK(thread', lots', issued')
      /\ Book(lots') /\ Ids(lots') \subseteq issued'
      /\ issued' \subseteq LotIds /\ begun' \in 0 .. MaxOps
      /\ outside' \in [basis: Int, shares: [Symbols -> Int], removed: SUBSET LotIds]
  <2>1. CASE Goes(a, Snapshot, t.cash, t.lots, {}, t.entry, t.outside)
    BY <1>3, <1>4, <2>1, QuietTypes
  <2>2. CASE Goes(a, <<>>, 0, {}, {}, NoEntry, FALSE)
    BY <1>3, <1>4, <2>2, EmptyBook, QuietTypes
  <2> QED
    BY <2>1, <2>2, UpdatePositionsGoes
<1> QED
  BY <1>2, <1>3, <1>5 DEF TypeInv

LEMMA SnapshotTypes ==
  ASSUME TypeInv, NEW a \in Actors, CreateValuationSnapshot(a)
  PROVE  TypeInv'
<1>1. Sound(thread[a], issued) /\ torn \subseteq DOMAIN Closing
  BY TypedThread DEF TypeInv
<1>2. /\ UNCHANGED <<lots, cash, positions, trades, moves, issued, begun, outside>>
      /\ torn' \subseteq torn
  BY DEF CreateValuationSnapshot
<1>3. Goes(a, <<>>, 0, {}, {}, NoEntry, FALSE)
  BY SnapshotGoes
<1>4. Fit(<<>>, {}, {}, NoEntry, issued) /\ <<>> \notin {BuySteps, ManualSteps} /\ Ids({}) = {}
  BY EmptyBook, LateFit
<1>5. /\ ThreadsOK(thread', lots', issued')
      /\ Book(lots') /\ Ids(lots') \subseteq issued'
      /\ issued' \subseteq LotIds /\ begun' \in 0 .. MaxOps
      /\ outside' \in [basis: Int, shares: [Symbols -> Int], removed: SUBSET LotIds]
  BY <1>2, <1>3, <1>4, QuietTypes
<1> QED
  BY <1>1, <1>2, <1>5 DEF TypeInv

LEMMA InitTypes ==
  ASSUME Init
  PROVE  TypeInv
<1>1. thread = [a \in Actors |-> Idle] /\ lots = {} /\ positions = {} /\ issued = {}
      /\ trades = <<>> /\ moves = <<>>
  BY DEF Init
<1>2. Fit(<<>>, {}, {}, NoEntry, issued)
  BY EmptyBook, TodosApart DEF Fit
<1>3. Sound(Idle, issued)
  BY <1>2, IdleThread DEF Sound
<1>4. ThreadsOK(thread, lots, issued)
  <2>1. thread \in [Actors -> Threads] /\ \A a \in Actors : thread[a] = Idle
    BY <1>1, IdleThread
  <2>2. Idle.todo \notin {BuySteps, ManualSteps}
    BY IdleThread, TodosApart
  <2> QED
    BY <1>3, <2>1, <2>2 DEF ThreadsOK, Fresh
<1>5. Known(trades, TradeEntry, issued) /\ moves \in Seq(MoveInput)
  BY <1>1 DEF Known
<1>6. outside \in [basis: Int, shares: [Symbols -> Int], removed: SUBSET LotIds]
  <2> DEFINE z == 0
             f == [s \in Symbols |-> z]
             r == {}
  <2>1. z \in Int /\ r \in SUBSET LotIds /\ outside = [basis |-> z, shares |-> f, removed |-> r]
    BY DEF Init
  <2>2. f \in [Symbols -> Int]
    BY <2>1
  <2> HIDE DEF z, f, r
  <2> QED
    BY <2>1, <2>2
<1>7. cash \in Int /\ begun \in 0 .. MaxOps /\ torn \subseteq DOMAIN Closing
  BY FlagsAssumption DEF Init
<1> QED
  BY <1>1, <1>4, <1>5, <1>6, <1>7, EmptyBook DEF TypeInv

LEMMA RequestTypes ==
  ASSUME TypeInv, NEW r \in Requests, Request(r)
  PROVE  TypeInv'
<1>0. r \in Actors
  BY DEF Actors
<1>1. ASSUME NEW o \in Buys, BeginBuy(r, o) PROVE TypeInv'
  BY <1>0, <1>1, BuyTypes
<1>2. ASSUME NEW o \in Sells, BeginSell(r, o) PROVE TypeInv'
  BY <1>0, <1>2, SellTypes
<1>3. ASSUME NEW m \in Moves, BeginMove(r, m) PROVE TypeInv'
  BY <1>0, <1>3, MoveTypes
<1>4. ASSUME NEW S \in Manuals, BeginManual(r, S) PROVE TypeInv'
  <2>1. PICK L \in Created(S) :
          /\ Opens(r) /\ issued' = issued \cup Ids(L)
          /\ Goes(r, ManualSteps, 0, L, {}, NoEntry, TRUE)
    BY <1>0, <1>4, ManualBegins
  <2>2. Input(S)
    BY Inputs
  <2> QED
    BY <1>0, <2>1, <2>2, FreshLotsTypes
<1>5. ASSUME NEW S \in Uploads, BeginUpload(r, S) PROVE TypeInv'
  <2>1. PICK L \in Created(S) :
          /\ Opens(r) /\ issued' = issued \cup Ids(L)
          /\ Goes(r, ReplaceSteps, 0, L, {}, NoEntry, TRUE)
    BY <1>0, <1>5, UploadBegins
  <2>2. Input(S)
    BY Inputs
  <2> QED
    BY <1>0, <2>1, <2>2, FreshLotsTypes
<1>6. ASSUME NEW i \in LotIds, BeginDeleteLot(r, i) PROVE TypeInv'
  <2> DEFINE L == {l \in lots : l.id # i}
  <2>1. Opens(r) /\ issued' = issued /\ Goes(r, ReplaceSteps, 0, L, {}, NoEntry, TRUE)
    BY <1>0, <1>6, DeleteLotBegins
  <2>2. Book(L) /\ Ids(L) \subseteq Ids(lots)
    BY SomeLots
  <2> HIDE DEF L
  <2> QED
    BY <1>0, <2>1, <2>2, EmptyBook, KnownLotsTypes
<1>7. ASSUME NEW s \in Symbols, BeginDeletePosition(r, s) PROVE TypeInv'
  <2> DEFINE L == lots \ OfSymbol(lots, s)
             P == positions \ OfSymbol(positions, s)
  <2>1. /\ Opens(r) /\ issued' = issued
        /\ \/ Goes(r, ReplaceSteps, 0, L, {}, NoEntry, TRUE)
           \/ Goes(r, Write, 0, {}, P, NoEntry, FALSE)
    BY <1>0, <1>7, DeletePositionBegins
  <2>2. Book(L) /\ Ids(L) \subseteq Ids(lots)
    BY SomeLots
  <2>3. OneRow(P)
    BY SomeRows DEF TypeInv
  <2> HIDE DEF L, P
  <2>4. CASE Goes(r, ReplaceSteps, 0, L, {}, NoEntry, TRUE)
    BY <1>0, <2>1, <2>2, <2>4, EmptyBook, KnownLotsTypes
  <2>5. CASE Goes(r, Write, 0, {}, P, NoEntry, FALSE)
    BY <1>0, <2>1, <2>3, <2>5, EmptyBook, KnownLotsTypes
  <2> QED
    BY <2>1, <2>4, <2>5
<1> QED
  BY <1>1, <1>2, <1>3, <1>4, <1>5, <1>6, <1>7 DEF Request

LEMMA JobTypes ==
  ASSUME TypeInv, NEW w \in Workers, Job(w)
  PROVE  TypeInv'
<1>0. w \in Actors
  BY DEF Actors
<1>1. CASE BeginRebuild(w)
  <2>1. Opens(w) /\ issued' = issued /\ Goes(w, RebuildSteps, 0, {}, {}, NoEntry, FALSE)
    BY <1>0, <1>1, RebuildBegins
  <2> QED
    BY <1>0, <2>1, EmptyBook, KnownLotsTypes
<1>2. ASSUME NEW q \in Quotes, BeginQuotes(w, q) PROVE TypeInv'
  <2> DEFINE L == RepricedLots(q)
             P == RepricedPositions(q)
  <2>1. /\ Opens(w) /\ issued' = issued /\ OneRow(P)
        /\ \/ Goes(w, ReplaceSteps, 0, L, {}, NoEntry, FALSE)
           \/ Goes(w, Write, 0, {}, P, NoEntry, FALSE)
    BY <1>0, <1>2, QuotesBegin
  <2>2. Book(L) /\ Ids(L) \subseteq Ids(lots)
    BY RepricedBook
  <2> HIDE DEF L, P
  <2>3. CASE Goes(w, ReplaceSteps, 0, L, {}, NoEntry, FALSE)
    BY <1>0, <2>1, <2>2, <2>3, EmptyBook, KnownLotsTypes
  <2>4. CASE Goes(w, Write, 0, {}, P, NoEntry, FALSE)
    BY <1>0, <2>1, <2>4, EmptyBook, KnownLotsTypes
  <2> QED
    BY <2>1, <2>3, <2>4
<1> QED
  BY <1>1, <1>2 DEF Job

LEMMA CallTypes ==
  ASSUME TypeInv, NEW a \in Actors, Step(a) \/ Crash(a)
  PROVE  TypeInv'
<1>1. CASE AddLots(a)
  BY <1>1, AddLotsTypes
<1>2. CASE MatchLots(a)
  BY <1>2, MatchLotsTypes
<1>3. CASE RefuseSale(a)
  <2>1. /\ thread' = [thread EXCEPT ![a] = Idle] /\ torn' = torn
        /\ UNCHANGED <<lots, cash, positions, trades, moves, issued, begun, outside>>
    BY <1>3 DEF RefuseSale, books, history
  <2>2. torn' \subseteq DOMAIN Closing
    BY <2>1 DEF TypeInv
  <2> QED
    BY <2>1, <2>2, StopTypes
<1>4. CASE ReplaceLots(a)
  BY <1>4, ReplaceLotsTypes
<1>5. CASE AddTrade(a)
  BY <1>5, AddTradeTypes
<1>6. CASE AddCashTransaction(a)
  BY <1>6, AddMoveTypes
<1>7. CASE UpdateCash(a)
  BY <1>7, UpdateCashTypes
<1>8. CASE Rebuild(a)
  BY <1>8, RebuildTypes
<1>9. CASE UpdatePositions(a)
  BY <1>9, UpdatePositionsTypes
<1>10. CASE CreateValuationSnapshot(a)
  BY <1>10, SnapshotTypes
<1>11. CASE Crash(a)
  <2>1. /\ thread' = [thread EXCEPT ![a] = Idle]
        /\ UNCHANGED <<lots, cash, positions, trades, moves, issued, begun, outside>>
        /\ torn' = torn \cup {x \in DOMAIN Closing : Owes(thread[a], x)}
    BY <1>11 DEF Crash, books
  <2>2. torn' \subseteq DOMAIN Closing
    BY <2>1 DEF TypeInv
  <2> QED
    BY <2>1, <2>2, StopTypes
<1> QED
  BY <1>1, <1>2, <1>3, <1>4, <1>5, <1>6, <1>7, <1>8, <1>9, <1>10, <1>11 DEF Step

LEMMA SameTypes ==
  ASSUME TypeInv, UNCHANGED vars
  PROVE  TypeInv'
  BY DEF TypeInv, vars

LEMMA StepTypes ==
  ASSUME TypeInv, [Next]_vars
  PROVE  TypeInv'
  BY RequestTypes, JobTypes, CallTypes, SameTypes DEF Next

(* The type invariant holds.                                                 *)
LEMMA TypeInvHolds == Spec => []TypeInv
  BY InitTypes, StepTypes, PTL DEF Spec

(* It implies the type invariant that the runs check.                        *)
LEMMA TypesFollow ==
  ASSUME TypeInv
  PROVE  TypeOK
<1>1. /\ lots \subseteq Lot /\ Cardinality(Ids(lots)) = Cardinality(lots)
      /\ \A l \in lots : l.left <= l.quantity
  <2>1. Book(lots)
    BY DEF TypeInv
  <2>2. \A l \in lots : l \in Lot /\ l.left <= l.quantity
    BY <2>1 DEF Book, Held
  <2> QED
    BY <2>1, <2>2, BookCounts
<1>2. /\ positions \subseteq PositionRow
      /\ Cardinality({p.symbol : p \in positions}) = Cardinality(positions)
  <2>1. OneRow(positions)
    BY DEF TypeInv
  <2> QED
    BY <2>1, RowsCount DEF OneRow
<1>3. \A i \in DOMAIN moves : moves[i].kind \in Inflows \cup Outflows
  <2>1. moves \in Seq(MoveInput)
    BY DEF TypeInv
  <2>2. \A i \in DOMAIN moves : moves[i] \in MoveInput
    BY <2>1
  <2> QED
    BY <2>2 DEF MoveInput
<1>4. \A a \in Actors : thread[a].lots \subseteq Lot /\ thread[a].cash \in Int
  <2> SUFFICES ASSUME NEW a \in Actors
               PROVE  thread[a].lots \subseteq Lot /\ thread[a].cash \in Int
    OBVIOUS
  <2>1. thread[a] \in Threads
    BY TypedThread
  <2> QED
    BY <2>1 DEF Threads, Held
<1>5. cash \in Int /\ issued \subseteq LotIds /\ begun \in 0 .. MaxOps
      /\ torn \subseteq DOMAIN Closing /\ \A i \in DOMAIN trades : trades[i].ids \subseteq issued
  BY DEF TypeInv, Known
<1> QED
  BY <1>1, <1>2, <1>3, <1>4, <1>5 DEF TypeOK

(* Every state of the ledger has its types: lots, position rows, entries and *)
(* what a thread carries from one call of an operation to the next. It holds *)
(* for any number of request threads and workers, whose operations           *)
(* interleave call by call and stop anywhere.                                *)
THEOREM TypeCorrect == Spec => []TypeOK
  BY TypeInvHolds, TypesFollow, PTL

-----------------------------------------------------------------------------
(* Operations that do not overlap. Which of the books agree depends on the   *)
(* call that the only operation under way makes next, and on what a stopped  *)
(* operation left torn. SerialInv says it for every call.                    *)

(* At most one operation is under way: the second begins when the first has  *)
(* made its last call or stopped.                                            *)
OneAtATime ==
  \A a, b \in Actors : thread[a].todo # <<>> /\ thread[b].todo # <<>> => a = b

(* The calls before which the positions, the valuation and the books do not  *)
(* agree with the lots, because the operation has still to write them.       *)
LatePositions == {Record, Pay, Roll, Write, RebuildSteps, WriteOnly}
LateValuation == {Record, Pay, Roll, Write, PayOnly, Snapshot}
LateBooks == {Record, Pay, PayOnly}

(* A stopped operation that left positions and valuation behind.             *)
BothTorn(T) == {"positions", "valuation"} \subseteq T

(* Positions and valuation.                                                  *)
Track(s, P, L, Q, v, w, T) ==
  /\ ~BothTorn(T) /\ s \notin LatePositions => Q = Rollup(L)
  /\ ~BothTorn(T) /\ s \in {Write, WriteOnly} => P = Rollup(L)
  /\ "valuation" \notin T /\ s \in {RebuildSteps, WriteOnly} => Q = Rollup(L)
  /\ "valuation" \notin T /\ s \notin LateValuation => v = w

(* Trades and lots.                                                          *)
Backs(e, B, R) ==
  \A i \in e.ids \ R : \E l \in B : l.id = i /\ (e.kind = "sell" => l.left < l.quantity)
Backed(s, M, e, x, B, tr, R) ==
  /\ \A n \in DOMAIN tr : Backs(tr[n], B, R)
  /\ s \in {ReplaceSteps, Put} /\ ~x => \A k \in B : \E l \in M : Kin(l, k) /\ l.left <= k.left
  /\ s = ReplaceSteps /\ x => \A l \in M : l.id \in Ids(B) => l \in B
  /\ s \in {BuySteps, SellSteps, Put} => ~x
  /\ s = BuySteps => e.ids = Ids(M)
  /\ s = Record => Backs(e, B, R)
  /\ s = Put => Backs(e, M, R)

(* Books.                                                                    *)
Booked == SumOver(moves, CashDelta) + SumOver(trades, Income) + outside.basis
Entered == [y \in Symbols |-> SumOver(trades, LAMBDA t : Shares(y, t)) + outside.shares[y]]
Balanced(s, c, M, e, x, C, B, D, H) ==
  /\ s \notin LateBooks => C + BasisOf(B) = D /\ \A y \in Symbols : SharesIn(B, y) = H[y]
  /\ s \in {BuySteps, SellSteps, MoveSteps, Put, Record, Pay, PayOnly} => c = C
  /\ s = BuySteps => /\ ~x /\ BasisOf(M) + CashDelta(e) = 0
                     /\ \A y \in Symbols : SharesIn(M, y) = Shares(y, e)
  /\ s = ManualSteps => x
  /\ s = Put => /\ ~x /\ BasisOf(M) + CashDelta(e) = BasisOf(B) + Income(e)
                /\ \A y \in Symbols : SharesIn(M, y) = SharesIn(B, y) + Shares(y, e)
  /\ s = ReplaceSteps /\ ~x => /\ BasisOf(M) = BasisOf(B)
                               /\ \A y \in Symbols : SharesIn(M, y) = SharesIn(B, y)
  /\ s = Record => /\ C + CashDelta(e) + BasisOf(B) = D + Income(e)
                   /\ \A y \in Symbols : SharesIn(B, y) = H[y] + Shares(y, e)
  /\ s \in {Pay, PayOnly} => /\ C + CashDelta(e) + BasisOf(B) = D
                             /\ \A y \in Symbols : SharesIn(B, y) = H[y]

(* A sale between the reading of the lots and the writing.                   *)
Fifo(s, M, e, B) ==
  /\ s = ReplaceSteps => e = NoEntry
  /\ s = Put => \A l \in OfSymbol(B, e.symbol) :
                  \E k \in M : k.id = l.id /\ k.left = l.left - Taken(B, e, l)

Along(s, c, M, P, e, x) ==
  /\ Track(s, P, lots, positions, valued, Valuation, torn)
  /\ Backed(s, M, e, x, lots, trades, outside.removed)
  /\ "books" \notin torn => Balanced(s, c, M, e, x, cash, lots, Booked, Entered)
  /\ Fifo(s, M, e, lots)

Alone(a) == \A b \in Actors \ {a} : thread[b].todo = <<>>
SerialInv ==
  /\ (\A a \in Actors : thread[a].todo = <<>>) => Along(<<>>, 0, {}, {}, NoEntry, FALSE)
  /\ \A a \in Actors :
       Alone(a) => LET t == thread[a]
                   IN  Along(t.todo, t.cash, t.lots, t.positions, t.entry, t.outside)

-----------------------------------------------------------------------------
(* One thread at a time: SerialInv after a step follows from what the step   *)
(* leaves for the thread that made it.                                       *)

(* The thread that is under way is the only one.                             *)
LEMMA AloneNow ==
  ASSUME OneAtATime, NEW a \in Actors, thread[a].todo # <<>>
  PROVE  Alone(a)
  BY DEF OneAtATime, Alone

(* The fields of the thread after a step.                                    *)
LEMMA Fields ==
  ASSUME TypeInv, NEW a \in Actors,
         NEW s, NEW c, NEW L, NEW P, NEW e, NEW x, Goes(a, s, c, L, P, e, x)
  PROVE  /\ thread'[a].todo = s /\ thread'[a].cash = c /\ thread'[a].lots = L
         /\ thread'[a].positions = P /\ thread'[a].entry = e /\ thread'[a].outside = x
         /\ \A b \in Actors : b # a => thread'[b] = thread[b]
<1>1. PICK u : Became(u, s, c, L, P, e, x) /\ thread' = [thread EXCEPT ![a] = u]
  BY DEF Goes
<1>2. thread \in [Actors -> Threads] /\ u \in Threads
  BY <1>1 DEF TypeInv, ThreadsOK, Became
<1> DEFINE th == thread'
<1>3. th[a] = u /\ \A b \in Actors : b # a => th[b] = thread[b]
  BY <1>1, <1>2, NewThread
<1> QED
  BY <1>1, <1>3 DEF Became

(* The thread that begins was not joining another.                           *)
LEMMA AloneNext ==
  ASSUME TypeInv, OneAtATime', NEW a \in Actors,
         NEW s, NEW c, NEW L, NEW P, NEW e, NEW x, Goes(a, s, c, L, P, e, x), s # <<>>
  PROVE  Alone(a)
<1>1. /\ thread'[a].todo = s
      /\ \A b \in Actors : b # a => thread'[b] = thread[b]
  BY Fields
<1>2. \A b \in Actors : thread'[a].todo # <<>> /\ thread'[b].todo # <<>> => a = b
  BY DEF OneAtATime
<1> QED
  BY <1>1, <1>2 DEF Alone

(* A thread at rest has nothing in hand that matters.                        *)
LEMMA AtRest ==
  ASSUME NEW L, NEW Q, NEW v, NEW w, NEW T, NEW B, NEW tr, NEW R, NEW C, NEW D, NEW H,
         NEW c, NEW M, NEW P, NEW e, NEW x, NEW c2, NEW M2, NEW P2, NEW e2, NEW x2
  PROVE  /\ Track(<<>>, P, L, Q, v, w, T) => Track(<<>>, P2, L, Q, v, w, T)
         /\ Backed(<<>>, M, e, x, B, tr, R) => Backed(<<>>, M2, e2, x2, B, tr, R)
         /\ Balanced(<<>>, c, M, e, x, C, B, D, H) => Balanced(<<>>, c2, M2, e2, x2, C, B, D, H)
         /\ Fifo(<<>>, M2, e2, B)
<1>1. <<>> \notin {Snapshot, Write, WriteOnly, Roll, Pay, PayOnly, Record, Put, BuySteps,
                   SellSteps, MoveSteps, ManualSteps, ReplaceSteps, RebuildSteps}
  BY TodosApart
<1> DEFINE n == <<>>
<1>2. n \notin {Snapshot, Write, WriteOnly, Roll, Pay, PayOnly, Record, Put, BuySteps,
                   SellSteps, MoveSteps, ManualSteps, ReplaceSteps, RebuildSteps}
  BY <1>1
<1> HIDE DEF n
<1>3. Track(n, P, L, Q, v, w, T) => Track(n, P2, L, Q, v, w, T)
  BY <1>2 DEF Track
<1>4. Backed(n, M, e, x, B, tr, R) => Backed(n, M2, e2, x2, B, tr, R)
  BY <1>2 DEF Backed
<1>5. Balanced(n, c, M, e, x, C, B, D, H) => Balanced(n, c2, M2, e2, x2, C, B, D, H)
  BY <1>2 DEF Balanced, LateBooks
<1>6. Fifo(n, M2, e2, B)
  BY <1>2 DEF Fifo
<1> QED
  BY <1>3, <1>4, <1>5, <1>6 DEF n

(* SerialInv after a step is what holds for the thread that made it.         *)
LEMMA GoesAlong ==
  ASSUME TypeInv, NEW a \in Actors, Alone(a),
         NEW s, NEW c, NEW M, NEW P, NEW e, NEW x, Goes(a, s, c, M, P, e, x),
         Track(s, P, lots', positions', valued', Valuation', torn'),
         Backed(s, M, e, x, lots', trades', outside'.removed),
         "books" \notin torn' => Balanced(s, c, M, e, x, cash', lots', Booked', Entered'),
         Fifo(s, M, e, lots')
  PROVE  SerialInv'
<1>1. /\ thread'[a].todo = s /\ thread'[a].cash = c /\ thread'[a].lots = M
      /\ thread'[a].positions = P /\ thread'[a].entry = e /\ thread'[a].outside = x
      /\ \A b \in Actors : b # a => thread'[b].todo = <<>>
  BY Fields DEF Alone
<1> DEFINE Fine(s1, c1, M1, P1, e1, x1) ==
             /\ Track(s1, P1, lots', positions', valued', Valuation', torn')
             /\ Backed(s1, M1, e1, x1, lots', trades', outside'.removed)
             /\ "books" \notin torn' =>
                  Balanced(s1, c1, M1, e1, x1, cash', lots', Booked', Entered')
             /\ Fifo(s1, M1, e1, lots')
<1>2. ASSUME s = <<>>, NEW c2, NEW M2, NEW P2, NEW e2, NEW x2
      PROVE  Fine(<<>>, c2, M2, P2, e2, x2)
  BY <1>2, AtRest
<1>3. (\A b \in Actors : thread'[b].todo = <<>>) => Fine(<<>>, 0, {}, {}, NoEntry, FALSE)
  BY <1>1, <1>2
<1>4. ASSUME NEW b \in Actors, \A d \in Actors \ {b} : thread'[d].todo = <<>>
      PROVE  LET t == thread'[b]
             IN  Fine(t.todo, t.cash, t.lots, t.positions, t.entry, t.outside)
  <2>1. CASE b = a
    BY <1>1, <2>1
  <2>2. CASE b # a
    <3>1. s = <<>> /\ thread'[b].todo = <<>>
      BY <1>1, <1>4, <2>2
    <3> HIDE DEF Fine
    <3> QED
      BY <1>2, <3>1
  <2> QED
    BY <2>1, <2>2
<1> QED
  BY <1>3, <1>4 DEF SerialInv, Along, Alone

-----------------------------------------------------------------------------
(* Positions and valuation along an operation.                               *)

(* Before these calls nothing is owed.                                       *)
Quiet == {<<>>, BuySteps, SellSteps, MoveSteps, Put, ManualSteps, ReplaceSteps}

(* They owe neither positions nor valuation.                                 *)
LEMMA QuietTodos ==
  \A s \in Quiet :
    s \notin LatePositions \cup LateValuation /\ s \notin {Write, WriteOnly, RebuildSteps}
  BY TodosApart DEF Quiet, LatePositions, LateValuation

(* Track is the same before all of them.                                     *)
LEMMA TrackQuiet ==
  ASSUME NEW s \in Quiet, NEW s2 \in Quiet, NEW P, NEW P2, NEW L, NEW Q, NEW v, NEW w, NEW T,
         Track(s, P, L, Q, v, w, T)
  PROVE  Track(s2, P2, L, Q, v, w, T)
  BY QuietTodos DEF Track

(* Before these calls Track asks nothing,                                    *)
LEMMA TrackLate ==
  ASSUME NEW s \in {Record, Pay, Roll}, NEW P, NEW L, NEW Q, NEW v, NEW w, NEW T
  PROVE  Track(s, P, L, Q, v, w, T)
<1>1. s \in LatePositions /\ s \in LateValuation /\ s \notin {Write, WriteOnly, RebuildSteps}
  BY TodosApart DEF LatePositions, LateValuation
<1> QED
  BY <1>1 DEF Track

(* and before these, no more than at rest.                                   *)
LEMMA TrackRebuild ==
  ASSUME NEW P, NEW P2, NEW L, NEW Q, NEW v, NEW w, NEW T, Track(<<>>, P, L, Q, v, w, T)
  PROVE  Track(RebuildSteps, P2, L, Q, v, w, T)
<1>1. RebuildSteps \in LatePositions /\ RebuildSteps \notin LateValuation
      /\ RebuildSteps \notin {Write, WriteOnly}
  BY TodosApart DEF LatePositions, LateValuation
<1>2. <<>> \notin LatePositions \cup LateValuation
  BY TodosApart DEF LatePositions, LateValuation
<1>3. (~BothTorn(T) => Q = Rollup(L)) /\ ("valuation" \notin T => v = w)
  BY <1>2 DEF Track
<1> QED
  BY <1>1, <1>3 DEF Track, BothTorn

LEMMA TrackWrite ==
  ASSUME NEW P, NEW L, NEW Q, NEW v, NEW w, NEW T, ~BothTorn(T) => P = Rollup(L)
  PROVE  Track(Write, P, L, Q, v, w, T)
<1>1. Write \in LatePositions /\ Write \in LateValuation /\ Write \notin {WriteOnly, RebuildSteps}
  BY TodosApart DEF LatePositions, LateValuation
<1> QED
  BY <1>1 DEF Track

LEMMA TrackPay ==
  ASSUME NEW s \in {PayOnly, Snapshot}, NEW P, NEW L, NEW Q, NEW v, NEW w, NEW T,
         ~BothTorn(T) => Q = Rollup(L)
  PROVE  Track(s, P, L, Q, v, w, T)
<1>1. s \in LateValuation /\ s \notin {Write, WriteOnly, RebuildSteps}
  BY TodosApart DEF LateValuation
<1> QED
  BY <1>1 DEF Track

(* When positions are not owed they are the rollup of the lots.              *)
LEMMA TrackRolled ==
  ASSUME NEW s, s \notin LatePositions, NEW P, NEW L, NEW Q, NEW v, NEW w, NEW T,
         Track(s, P, L, Q, v, w, T), ~BothTorn(T)
  PROVE  Q = Rollup(L)
  BY DEF Track

(* The positions agree with the lots when a step begins to write positions.  *)
LEMMA NoStrayRows ==
  ASSUME TypeInv, positions = Rollup(lots), NEW s, OfSymbol(lots, s) = {}
  PROVE  OfSymbol(positions, s) = {}
<1>1. Book(lots)
  BY DEF TypeInv
<1>2. \A p \in Rollup(lots) : \E l \in lots : l.symbol = p.symbol
  BY <1>1, RollupRows
<1> QED
  BY <1>2 DEF OfSymbol

(* Track in the state after a step.                                          *)
TrackedNext(s, P) == Track(s, P, lots', positions', valued', Valuation', torn')

(* A valuation of the cash, rows and moves given.                            *)
Worth(c, P, m) == [cash |-> c, value |-> MapThenSumSet(LAMBDA p : p.value, P),
                   contributed |-> SumOver(m, ExternalFlow)]

(* A step that changes none of these keeps the valuation.                    *)
LEMMA SameValuation ==
  ASSUME UNCHANGED <<cash, positions, moves>>
  PROVE  Valuation' = Valuation
<1>1. Valuation = Worth(cash, positions, moves)
  BY DEF Valuation, Worth
<1>2. Valuation' = Worth(cash', positions', moves')
  BY DEF Valuation, Worth, MapThenSumSet, MapThenFoldSet, SumOver, FoldLeft, ExternalFlow
<1> QED
  BY <1>1, <1>2

(* The calls that write positions and valuation.                             *)
LEMMA RebuildTracks ==
  ASSUME NEW a \in Actors, NEW s \in {Roll, RebuildSteps}, NEW P, Rebuild(a),
         Track(s, P, lots, positions, valued, Valuation, torn)
  PROVE  TrackedNext(IF s = Roll THEN Write ELSE WriteOnly, Rollup(lots))
<1>1. /\ UNCHANGED <<lots, cash, positions, moves, valued>> /\ torn' = torn \ {"positions"}
  BY DEF Rebuild, books
<1>2. Valuation' = Valuation
  BY <1>1, SameValuation
<1>3. CASE s = Roll
  BY <1>1, <1>3, TrackWrite DEF TrackedNext
<1>4. CASE s = RebuildSteps
  <2>1. s # Roll /\ s \notin LateValuation /\ WriteOnly \in LatePositions
        /\ WriteOnly \notin LateValuation
    BY <1>4, TodosApart DEF LateValuation, LatePositions
  <2>2. ("valuation" \notin torn => positions = Rollup(lots))
        /\ ("valuation" \notin torn => valued = Valuation)
    BY <1>4, <2>1 DEF Track
  <2>3. Track(WriteOnly, Rollup(lots), lots, positions, valued, Valuation, torn')
    BY <1>1, <2>1, <2>2 DEF Track
  <2> QED
    BY <1>1, <1>2, <1>4, <2>1, <2>3 DEF TrackedNext
<1> QED
  BY <1>3, <1>4

LEMMA UpdateTracks ==
  ASSUME NEW a \in Actors, NEW s \in {Write, WriteOnly}, NEW P, UpdatePositions(a),
         P = thread[a].positions, Track(s, P, lots, positions, valued, Valuation, torn)
  PROVE  TrackedNext(IF s = Write THEN Snapshot ELSE <<>>, {})
<1>1. /\ UNCHANGED <<lots, cash, moves, valued, torn>> /\ positions' = P
  BY DEF UpdatePositions, history
<1>2. ~BothTorn(torn) => P = Rollup(lots)
  BY DEF Track
<1>3. CASE s = Write
  BY <1>1, <1>2, <1>3, TrackPay DEF TrackedNext
<1>4. CASE s = WriteOnly
  <2>1. s # Write /\ s \notin LateValuation /\ <<>> \notin LatePositions
        /\ <<>> \notin LateValuation /\ <<>> \notin {RebuildSteps, Write, WriteOnly}
    BY <1>4, TodosApart DEF LateValuation, LatePositions
  <2>2. "valuation" \notin torn => positions = Rollup(lots) /\ valued = Valuation
                                    /\ ~BothTorn(torn)
    BY <1>4, <2>1 DEF Track, BothTorn
  <2>3. "valuation" \notin torn => positions' = positions /\ Valuation' = Valuation
    BY <1>1, <1>2, <2>2, SameValuation
  <2> DEFINE n == <<>>
  <2>4. /\ n \notin LatePositions /\ n \notin LateValuation
        /\ n \notin {RebuildSteps, Write, WriteOnly}
    BY <2>1
  <2> HIDE DEF n
  <2>5. Track(n, {}, lots', positions', valued', Valuation', torn')
    BY <1>1, <1>2, <2>2, <2>3, <2>4 DEF Track
  <2> QED
    BY <1>4, <2>1, <2>5 DEF TrackedNext, n
<1> QED
  BY <1>3, <1>4

LEMMA SnapshotTracks ==
  ASSUME NEW a \in Actors, NEW P, CreateValuationSnapshot(a),
         Track(Snapshot, P, lots, positions, valued, Valuation, torn)
  PROVE  TrackedNext(<<>>, {})
<1>1. /\ UNCHANGED <<lots, cash, moves, positions>> /\ valued' = Valuation
      /\ torn' = IF "positions" \in torn THEN torn ELSE torn \ {"valuation"}
  BY DEF CreateValuationSnapshot
<1>2. Valuation' = Valuation
  BY <1>1, SameValuation
<1>3. Snapshot \notin LatePositions
  BY TodosApart DEF LatePositions
<1>4. ~BothTorn(torn) => positions = Rollup(lots)
  BY <1>3, TrackRolled
<1>5. ~BothTorn(torn') => ~BothTorn(torn)
  BY <1>1 DEF BothTorn
<1> DEFINE n == <<>>
<1>6. n \notin {RebuildSteps, Write, WriteOnly}
  BY TodosApart
<1> HIDE DEF n
<1>7. Track(n, {}, lots', positions', valued', Valuation', torn')
  BY <1>1, <1>2, <1>4, <1>5, <1>6 DEF Track
<1> QED
  BY <1>7 DEF TrackedNext, n

LEMMA CrashTracks ==
  ASSUME TypeInv, NEW a \in Actors, Crash(a),
         Track(thread[a].todo, thread[a].positions, lots, positions, valued, Valuation, torn)
  PROVE  TrackedNext(<<>>, {})
<1> DEFINE t == thread[a]
           s == t.todo
<1>1. /\ UNCHANGED <<lots, cash, moves, positions, valued>>
      /\ torn' = torn \cup {y \in DOMAIN Closing : Owes(t, y)}
  BY DEF Crash, books
<1>2. Valuation' = Valuation
  BY <1>1, SameValuation
<1>3. s \in Todos
  BY TypedThread
<1>4. /\ s \in LatePositions => "positions" \in torn'
      /\ s \in LateValuation => "valuation" \in torn'
  <2>1. "positions" \in DOMAIN Closing /\ "valuation" \in DOMAIN Closing
    BY DEF Closing
  <2>2. /\ s \in LatePositions => Owes(t, "positions")
        /\ s \in LateValuation => Owes(t, "valuation")
    BY <1>3, Owing DEF LatePositions, LateValuation
  <2> QED
    BY <1>1, <2>1, <2>2
<1>5. LatePositions \subseteq LateValuation \cup {RebuildSteps, WriteOnly}
  BY DEF LatePositions, LateValuation
<1> DEFINE n == <<>>
<1>6. n \notin {RebuildSteps, Write, WriteOnly}
  BY TodosApart
<1> HIDE DEF n, s
<1>7. Track(s, t.positions, lots, positions, valued, Valuation, torn) /\ torn \subseteq torn'
  BY <1>1 DEF s
<1>8. ~BothTorn(torn') => positions = Rollup(lots)
  <2>1. CASE s \in LatePositions
    <3>1. ~BothTorn(torn') => s \in {RebuildSteps, WriteOnly} /\ "valuation" \notin torn
      BY <1>4, <1>5, <1>7, <2>1 DEF BothTorn
    <3> QED
      BY <1>7, <3>1 DEF Track
  <2>2. CASE s \notin LatePositions
    BY <1>7, <2>2 DEF Track, BothTorn
  <2> QED
    BY <2>1, <2>2
<1>9. "valuation" \notin torn' => valued = Valuation
  BY <1>4, <1>7 DEF Track
<1>10. Track(n, {}, lots', positions', valued', Valuation', torn')
  BY <1>1, <1>2, <1>6, <1>8, <1>9 DEF Track
<1> QED
  BY <1>10 DEF TrackedNext, n

-----------------------------------------------------------------------------
(* The lots that trades name, along an operation.                            *)

(* More lots back a trade as well.                                           *)
LEMMA MoreBacks ==
  ASSUME NEW e, NEW B, NEW B2, NEW R, Backs(e, B, R), B \subseteq B2
  PROVE  Backs(e, B2, R)
  BY DEF Backs

(* A sale or a repricing keeps every lot and takes no share back.            *)
LEMMA KinBacks ==
  ASSUME NEW e, NEW B, NEW M, NEW R, Backs(e, B, R), B \subseteq Held, M \subseteq Held,
         \A k \in B : \E l \in M : Kin(l, k) /\ l.left <= k.left
  PROVE  Backs(e, M, R)
<1> SUFFICES ASSUME NEW i \in e.ids \ R
             PROVE  \E l \in M : l.id = i /\ (e.kind = "sell" => l.left < l.quantity)
  BY DEF Backs
<1>1. PICK k \in B : k.id = i /\ (e.kind = "sell" => k.left < k.quantity)
  BY DEF Backs
<1>2. PICK l \in M : Kin(l, k) /\ l.left <= k.left
  OBVIOUS
<1>3. l.left \in Nat /\ l.quantity \in Nat /\ k.left \in Nat /\ k.quantity \in Nat
  BY HeldFields
<1>4. l.id = i /\ l.quantity = k.quantity
  BY <1>1, <1>2 DEF Kin
<1>5. e.kind = "sell" => l.left < l.quantity
  BY <1>1, <1>2, <1>3, <1>4
<1> QED
  BY <1>4, <1>5

(* A lot that is gone was taken away by hand.                                *)
LEMMA RestBacks ==
  ASSUME NEW e, NEW B, NEW M, NEW R, Backs(e, B, R), OneEach(B),
         \A l \in M : l.id \in Ids(B) => l \in B
  PROVE  Backs(e, M, R \cup (Ids(B) \ Ids(M)))
<1> SUFFICES ASSUME NEW i \in e.ids, i \notin R, i \notin Ids(B) \ Ids(M)
             PROVE  \E l \in M : l.id = i /\ (e.kind = "sell" => l.left < l.quantity)
  BY DEF Backs
<1>1. PICK k \in B : k.id = i /\ (e.kind = "sell" => k.left < k.quantity)
  BY DEF Backs
<1>2. PICK l \in M : l.id = i
  BY <1>1 DEF Ids
<1>3. l = k
  BY <1>1, <1>2 DEF OneEach, Ids
<1> QED
  BY <1>1, <1>3

(* A sale leaves the lots it names, in part consumed.                        *)
LEMMA SaleBacks ==
  ASSUME NEW L, NEW o, NEW r, SaleIsRight(L, o, r), NEW e, e.ids = r.ids, NEW R
  PROVE  Backs(e, r.lots, R)
<1> SUFFICES ASSUME NEW i \in e.ids
             PROVE  \E l \in r.lots : l.id = i /\ (e.kind = "sell" => l.left < l.quantity)
  BY DEF Backs
<1>1. PICK k \in L : k.id = i
  BY DEF SaleIsRight, Ids
<1>2. PICK l \in r.lots : Kin(l, k)
  BY DEF SaleIsRight
<1>3. l.id = i /\ l.left < l.quantity
  BY <1>1, <1>2 DEF SaleIsRight, Kin
<1> QED
  BY <1>3

(* Calls before which a thread carries no lots or entry that trades depend   *)
(* on.                                                                       *)
Plain == {<<>>, MoveSteps, ManualSteps, RebuildSteps, Write, WriteOnly, Roll, Pay,
          PayOnly, Snapshot}

(* They are none of the others.                                              *)
LEMMA PlainTodos ==
  \A s \in Plain : s \notin {BuySteps, SellSteps, ReplaceSteps, Put, Record}
  BY TodosApart DEF Plain

(* Before these calls only the trades recorded count.                        *)
LEMMA BackedPlain ==
  ASSUME NEW s, NEW M, NEW e, NEW x, NEW B, NEW tr, NEW R, Backed(s, M, e, x, B, tr, R),
         NEW s2 \in Plain, NEW M2, NEW e2, NEW x2
  PROVE  Backed(s2, M2, e2, x2, B, tr, R)
<1>1. s2 \notin {BuySteps, SellSteps, ReplaceSteps, Put, Record}
  BY PlainTodos
<1>2. \A n \in DOMAIN tr : Backs(tr[n], B, R)
  BY DEF Backed
<1> QED
  BY <1>1, <1>2 DEF Backed

(* The beginnings of operations,                                             *)
LEMMA BackedSell ==
  ASSUME NEW M, NEW M2, NEW e, NEW e2, NEW x, NEW B, NEW tr, NEW R,
         Backed(<<>>, M, e, x, B, tr, R)
  PROVE  Backed(SellSteps, M2, e2, FALSE, B, tr, R)
<1>1. SellSteps \notin {BuySteps, ReplaceSteps, Put, Record}
  BY TodosApart
<1>2. \A n \in DOMAIN tr : Backs(tr[n], B, R)
  BY DEF Backed
<1> QED
  BY <1>1, <1>2 DEF Backed

LEMMA BackedBuy ==
  ASSUME NEW M, NEW M2, NEW e, NEW e2, NEW x, NEW B, NEW tr, NEW R,
         Backed(<<>>, M, e, x, B, tr, R), e2.ids = Ids(M2)
  PROVE  Backed(BuySteps, M2, e2, FALSE, B, tr, R)
<1>1. BuySteps \notin {ReplaceSteps, Put, Record}
  BY TodosApart
<1>2. \A n \in DOMAIN tr : Backs(tr[n], B, R)
  BY DEF Backed
<1> QED
  BY <1>1, <1>2 DEF Backed

LEMMA BackedReplace ==
  ASSUME NEW M, NEW M2, NEW e, NEW e2, NEW x, NEW x2, NEW B, NEW tr, NEW R,
         Backed(<<>>, M, e, x, B, tr, R),
         ~x2 => \A k \in B : \E l \in M2 : Kin(l, k) /\ l.left <= k.left,
         x2 => \A l \in M2 : l.id \in Ids(B) => l \in B
  PROVE  Backed(ReplaceSteps, M2, e2, x2, B, tr, R)
<1>1. ReplaceSteps \notin {BuySteps, SellSteps, Put, Record}
  BY TodosApart
<1>2. \A n \in DOMAIN tr : Backs(tr[n], B, R)
  BY DEF Backed
<1> QED
  BY <1>1, <1>2 DEF Backed

(* and a sale that has matched its lots.                                     *)
LEMMA BackedPut ==
  ASSUME NEW M, NEW e, NEW e2, NEW x, NEW B, NEW tr, NEW R, NEW o, NEW r,
         Backed(SellSteps, M, e, x, B, tr, R), SaleIsRight(B, o, r), e2.ids = r.ids,
         OneEach(B)
  PROVE  Backed(Put, r.lots, e2, FALSE, B, tr, R)
<1>1. Put \notin {BuySteps, ReplaceSteps, Record}
  BY TodosApart
<1>2. \A n \in DOMAIN tr : Backs(tr[n], B, R)
  BY DEF Backed
<1>3. \A k \in B : \E l \in r.lots : Kin(l, k) /\ l.left <= k.left
  <2> SUFFICES ASSUME NEW k \in B
               PROVE  \E l \in r.lots : Kin(l, k) /\ l.left <= k.left
    OBVIOUS
  <2>1. PICK l \in r.lots : Kin(l, k)
    BY DEF SaleIsRight
  <2>2. PICK y \in B : Kin(l, y) /\ l.left <= y.left
    BY DEF SaleIsRight
  <2>3. y = k
    BY <2>1, <2>2 DEF Kin, OneEach
  <2> QED
    BY <2>1, <2>2, <2>3
<1>4. Backs(e2, r.lots, R)
  BY SaleBacks
<1> QED
  BY <1>1, <1>2, <1>3, <1>4 DEF Backed

(* Steps of Backed.                                                          *)
LEMMA BackedAddLots ==
  ASSUME NEW a \in Actors, AddLots(a), NEW s \in {BuySteps, ManualSteps}, NEW e, NEW x,
         Backed(s, thread[a].lots, e, x, lots, trades, outside.removed),
         x = thread[a].outside, s = BuySteps => e.kind = "buy"
  PROVE  Backed(IF s = BuySteps THEN Record ELSE Roll, {}, e, x, lots', trades', outside'.removed)
<1> DEFINE M == thread[a].lots
           B == lots \cup M
           R == outside.removed
<1>1. lots' = B /\ trades' = trades /\ SetLots(a, B)
  BY DEF AddLots, SetLots
<1>2. Ids(lots) \ Ids(B) = {}
  BY DEF Ids
<1>3. outside'.removed = R
  <2>1. CASE x
    BY <1>1, <1>2, <2>1 DEF SetLots
  <2>2. CASE ~x
    BY <1>1, <2>2 DEF SetLots
  <2> QED
    BY <2>1, <2>2
<1>4. \A n \in DOMAIN trades : Backs(trades[n], B, R)
  BY MoreBacks DEF Backed
<1>5. /\ Record \notin {BuySteps, SellSteps, ReplaceSteps, Put}
      /\ Roll \notin {BuySteps, SellSteps, ReplaceSteps, Put, Record}
      /\ ManualSteps # BuySteps
  BY TodosApart
<1>6. CASE s = BuySteps
  <2>1. e.ids = Ids(M)
    BY <1>6 DEF Backed
  <2>2. Backs(e, B, R)
    BY <1>6, <2>1 DEF Backs, Ids
  <2> QED
    BY <1>1, <1>3, <1>4, <1>5, <1>6, <2>2 DEF Backed
<1>7. CASE s = ManualSteps
  <2>1. Backed(Roll, {}, e, x, B, trades, R)
    BY <1>4, <1>5 DEF Backed
  <2> QED
    BY <1>1, <1>3, <1>5, <1>7, <2>1
<1> QED
  BY <1>6, <1>7

LEMMA BackedReplaceLots ==
  ASSUME TypeInv, NEW a \in Actors, ReplaceLots(a), NEW s \in {Put, ReplaceSteps}, NEW e, NEW x,
         x \in BOOLEAN, Backed(s, thread[a].lots, e, x, lots, trades, outside.removed),
         x = thread[a].outside
  PROVE  Backed(IF s = Put THEN Record ELSE Roll, {}, e, x, lots', trades', outside'.removed)
<1> DEFINE M == thread[a].lots
           B == lots
           R == outside.removed
<1>1. lots' = M /\ trades' = trades /\ SetLots(a, M)
  BY DEF ReplaceLots, SetLots
<1>2. Book(B) /\ Book(M)
  BY TypedThread DEF TypeInv, Sound, Fit
<1>3. /\ Record \notin {BuySteps, SellSteps, ReplaceSteps, Put}
      /\ Roll \notin {BuySteps, SellSteps, ReplaceSteps, Put, Record}
      /\ ReplaceSteps # Put
  BY TodosApart
<1>4. \A n \in DOMAIN trades : Backs(trades[n], B, R)
  BY DEF Backed
<1>5. CASE ~x
  <2>1. outside'.removed = R
    BY <1>1, <1>5 DEF SetLots
  <2>2. \A k \in B : \E l \in M : Kin(l, k) /\ l.left <= k.left
    BY <1>5 DEF Backed
  <2>3. \A n \in DOMAIN trades : Backs(trades[n], M, R)
    BY <1>2, <1>4, <2>2, KinBacks DEF Book
  <2>4. s = Put => Backs(e, M, R)
    BY DEF Backed
  <2>5. s = Put => Backed(Record, {}, e, x, M, trades, R)
    BY <1>3, <2>3, <2>4 DEF Backed
  <2>6. Backed(Roll, {}, e, x, M, trades, R)
    BY <1>3, <2>3 DEF Backed
  <2> QED
    BY <1>1, <2>1, <2>5, <2>6
<1>6. CASE x
  <2>1. s # Put
    BY <1>6 DEF Backed
  <2>2. outside'.removed = R \cup (Ids(B) \ Ids(M))
    BY <1>1, <1>6 DEF SetLots
  <2>3. \A l \in M : l.id \in Ids(B) => l \in B
    BY <1>6, <2>1 DEF Backed
  <2> DEFINE R2 == R \cup (Ids(B) \ Ids(M))
  <2>4. \A n \in DOMAIN trades : Backs(trades[n], M, R2)
    BY <1>2, <1>4, <2>3, RestBacks DEF Book
  <2> HIDE DEF R2
  <2>5. Backed(Roll, {}, e, x, M, trades, R2)
    BY <1>3, <2>4 DEF Backed
  <2> QED
    BY <1>1, <2>1, <2>2, <2>5 DEF R2
<1> QED
  BY <1>5, <1>6

LEMMA BackedAddTrade ==
  ASSUME TypeInv, NEW a \in Actors, AddTrade(a), NEW M, NEW x,
         Backed(Record, M, thread[a].entry, x, lots, trades, outside.removed)
  PROVE  Backed(Pay, M, thread[a].entry, x, lots', trades', outside'.removed)
<1> DEFINE e == thread[a].entry
           R == outside.removed
<1>1. lots' = lots /\ trades' = Append(trades, e) /\ outside' = outside
  BY DEF AddTrade, history
<1>2. Backs(e, lots, R) /\ \A n \in DOMAIN trades : Backs(trades[n], lots, R)
  BY DEF Backed
<1>3. trades \in Seq(TradeEntry) /\ e \in TradeEntry
  <2>1. thread[a].todo = Record
    BY AddTradeGoes
  <2> QED
    BY <2>1, TypedThread DEF TypeInv, Known, Sound, Fit
<1> HIDE DEF e
<1>4. /\ Len(trades) \in Nat /\ DOMAIN trades = 1 .. Len(trades)
      /\ DOMAIN Append(trades, e) = 1 .. (Len(trades) + 1)
      /\ \A n \in 1 .. Len(trades) : Append(trades, e)[n] = trades[n]
      /\ Append(trades, e)[Len(trades) + 1] = e
  BY <1>3
<1>5. \A n \in DOMAIN trades' : Backs(trades'[n], lots, R)
  BY <1>1, <1>2, <1>4
<1>6. Pay \notin {BuySteps, SellSteps, ReplaceSteps, Put, Record}
  BY TodosApart
<1>7. Backed(Pay, M, e, x, lots, trades', R)
  BY <1>5, <1>6 DEF Backed
<1> QED
  BY <1>1, <1>7 DEF e

-----------------------------------------------------------------------------
(* Sums of the entries, which grow by one entry at a time.                   *)

(* The fold of the community modules, for numbers.                           *)
Weighing(n, w, k) ==
  k = [r \in SUBSET (1 .. n) |-> IF r = {} THEN 0 ELSE k[r \ {Max(r)}] + w[Max(r)]]

(* It exists,                                                                *)
LEMMA WeighingExists ==
  ASSUME NEW n \in Nat, NEW w, Numbers(w, 1 .. n)
  PROVE  \E g : Weighing(n, w, g)
<1> DEFINE st == [p \in Int \X (1 .. n) |-> p[1] + w[p[2]]]
<1>1. PICK g : LeftFold(n, Int, 0, st, g)
  BY RunsExist
<1>2. ASSUME NEW r \in SUBSET (1 .. n), r # {}
      PROVE  st[<<g[r \ {Max(r)}], Max(r)>>] = g[r \ {Max(r)}] + w[Max(r)]
  <2>1. Max(r) \in 1 .. n
    BY <1>2, LargestExists
  <2> QED
    BY <1>1, <2>1 DEF LeftFold
<1>3. [r \in SUBSET (1 .. n) |-> IF r = {} THEN 0 ELSE st[<<g[r \ {Max(r)}], Max(r)>>]]
      = [r \in SUBSET (1 .. n) |-> IF r = {} THEN 0 ELSE g[r \ {Max(r)}] + w[Max(r)]]
  BY <1>2
<1>4. Weighing(n, w, g)
  BY <1>1, <1>3 DEF LeftFold, Weighing
<1> QED
  BY <1>4

(* and ends with the running total.                                          *)
LEMMA WeighingRuns ==
  ASSUME NEW n \in Nat, NEW w, NEW k, Weighing(n, w, k)
  PROVE  \E F : Runs(n, w, F) /\ k[1 .. n] = F[n]
<1> DEFINE F == [i \in 0 .. n |-> k[1 .. i]]
<1>1. F[0] = 0
  <2>1. 0 \in 0 .. n /\ 1 .. 0 = {} /\ {} \in SUBSET (1 .. n)
    OBVIOUS
  <2> QED
    BY <2>1 DEF Weighing
<1>2. ASSUME NEW i \in 1 .. n
      PROVE  F[i] = F[i - 1] + w[i]
  <2>1. i \in Nat /\ i # 0 /\ i \in 0 .. n /\ i - 1 \in 0 .. n
    OBVIOUS
  <2>2. 1 .. i \in SUBSET (1 .. n) /\ 1 .. i # {}
    BY <2>1
  <2>3. k[1 .. i] = k[(1 .. i) \ {Max(1 .. i)}] + w[Max(1 .. i)]
    BY <2>2 DEF Weighing
  <2>4. k[1 .. i] = k[1 .. (i - 1)] + w[i]
    BY <2>1, <2>3, LargestUpTo
  <2> QED
    BY <2>1, <2>4
<1>3. F[n] = k[1 .. n]
  OBVIOUS
<1> HIDE DEF F
<1> QED
  BY <1>1, <1>2, <1>3 DEF Runs

(* A running total of whole numbers is one.                                  *)
LEMMA RunsInt ==
  ASSUME NEW n \in Nat, NEW w, Numbers(w, 1 .. n), NEW F, Runs(n, w, F)
  PROVE  F[n] \in Int
<1> DEFINE P == {k \in Nat : k <= n => F[k] \in Int}
<1>1. 0 \in P
  BY DEF Runs
<1>2. ASSUME NEW k \in P
      PROVE  k + 1 \in P
  <2>1. CASE k + 1 <= n
    <3>1. k + 1 \in 1 .. n /\ (k + 1) - 1 = k /\ k <= n
      BY <2>1
    <3>2. F[k + 1] = F[k] + w[k + 1] /\ w[k + 1] \in Int
      BY <3>1 DEF Runs, Numbers
    <3> QED
      BY <3>1, <3>2
  <2> QED
    BY <2>1
<1>3. P = Nat
  <2> HIDE DEF P
  <2>1. P \in SUBSET Nat
    BY DEF P
  <2> QED
    BY <1>1, <1>2, <2>1, Counting
<1> QED
  BY <1>3

(* v and w agree on the first n.                                             *)
Alike(n, v, w) == \A k \in 1 .. n : v[k] = w[k]

(* One more number adds itself.                                              *)
LEMMA RunsGrow ==
  ASSUME NEW n \in Nat, NEW v, NEW w, Alike(n, v, w),
         NEW F, NEW G, Runs(n, v, F), Runs(n + 1, w, G)
  PROVE  G[n + 1] = F[n] + w[n + 1]
<1>1. Runs(n, w, G) /\ G[n + 1] = G[n] + w[n + 1]
  <2>1. n + 1 \in 1 .. (n + 1) /\ (n + 1) - 1 = n /\ \A k \in 1 .. n : k \in 1 .. (n + 1)
    OBVIOUS
  <2> QED
    BY <2>1 DEF Runs
<1>2. F[n] = G[n]
  BY <1>1, RunsAgree DEF Alike
<1> QED
  BY <1>1, <1>2

(* A sequence with one more element.                                         *)
LEMMA Appended ==
  ASSUME NEW M, NEW s \in Seq(M), NEW e \in M
  PROVE  /\ Append(s, e) \in Seq(M) /\ Len(s) \in Nat /\ Len(Append(s, e)) = Len(s) + 1
         /\ \A k \in 1 .. Len(s) : s[k] \in M /\ Append(s, e)[k] = s[k]
         /\ Append(s, e)[Len(s) + 1] = e
  OBVIOUS

(* The gain of a trade is a whole number,                                    *)
LEMMA IncomeIsInt ==
  ASSUME NEW e \in TradeEntry
  PROVE  Income(e) \in Int
<1>1. CASE e \in BuyEntry
  BY <1>1 DEF BuyEntry, Income
<1>2. CASE e \in SellEntry
  BY <1>2 DEF SellEntry, Income
<1> QED
  BY <1>1, <1>2 DEF TradeEntry

(* and so are its shares.                                                    *)
LEMMA SharesIsInt ==
  ASSUME NEW e \in TradeEntry, NEW y
  PROVE  Shares(y, e) \in Int
<1>1. e.quantity \in Nat
  BY DEF TradeEntry, BuyEntry, SellEntry
<1> QED
  BY <1>1 DEF Shares

(* The amounts of entries,                                                   *)
Deltas(s) == SumOver(s, CashDelta)
DeltaOf(s) == [i \in 1 .. Len(s) |-> CashDelta(s[i])]

(* Their sum is a running total,                                             *)
LEMMA DeltaRuns ==
  ASSUME NEW M, NEW s \in Seq(M), Numbers(DeltaOf(s), 1 .. Len(s))
  PROVE  \E F : Runs(Len(s), DeltaOf(s), F) /\ Deltas(s) = F[Len(s)]
<1> DEFINE n == Len(s)
           w == DeltaOf(s)
           C(k) == k = [r \in SUBSET (1 .. n) |-> IF r = {} THEN 0 ELSE
                          k[r \ {Max(r)}] + CashDelta(s[Max(r)])]
           it == CHOOSE k : C(k)
<1>1. n \in Nat /\ DOMAIN s = 1 .. n
  OBVIOUS
<1>2. Deltas(s) = it[1 .. n]
  BY <1>1 DEF Deltas, SumOver, FoldLeft, MapThenFoldSet
<1>3. ASSUME NEW k
      PROVE  C(k) <=> Weighing(n, w, k)
  <2>1. ASSUME NEW r \in SUBSET (1 .. n), r # {}
        PROVE  CashDelta(s[Max(r)]) = w[Max(r)]
    <3>1. Max(r) \in 1 .. n
      BY <1>1, <2>1, LargestExists
    <3> QED
      BY <3>1 DEF DeltaOf
  <2>2. [r \in SUBSET (1 .. n) |-> IF r = {} THEN 0 ELSE
           k[r \ {Max(r)}] + CashDelta(s[Max(r)])]
        = [r \in SUBSET (1 .. n) |-> IF r = {} THEN 0 ELSE k[r \ {Max(r)}] + w[Max(r)]]
    BY <2>1
  <2> QED
    BY <2>2 DEF Weighing
<1>4. \E g : C(g)
  BY <1>1, <1>3, WeighingExists
<1>5. C(it)
  BY <1>4
<1>6. Weighing(n, w, it)
  BY <1>3, <1>5
<1> HIDE DEF it
<1> QED
  BY <1>1, <1>2, <1>6, WeighingRuns

(* to which an entry adds its amount.                                        *)
LEMMA DeltaAppend ==
  ASSUME NEW s \in Seq(MoveInput), NEW e \in MoveInput
  PROVE  /\ Deltas(s) \in Int /\ CashDelta(e) \in Int
         /\ Deltas(Append(s, e)) = Deltas(s) + CashDelta(e)
<1> DEFINE q == Append(s, e)
           n == Len(s)
           v == DeltaOf(s)
           w == DeltaOf(q)
<1>1. /\ q \in Seq(MoveInput) /\ n \in Nat /\ Len(q) = n + 1
      /\ \A k \in 1 .. n : s[k] \in MoveInput /\ q[k] = s[k]
      /\ q[n + 1] = e
  BY Appended
<1>2. \A b \in MoveInput : CashDelta(b) \in Int
  BY DeltaIsInt
<1>3. /\ \A k \in 1 .. n : v[k] = CashDelta(s[k]) /\ w[k] = CashDelta(s[k])
      /\ w[n + 1] = CashDelta(e)
  <2>1. \A k \in 1 .. n : k \in 1 .. (n + 1)
    BY <1>1
  <2>2. n + 1 \in 1 .. (n + 1)
    BY <1>1
  <2> QED
    BY <1>1, <2>1, <2>2 DEF DeltaOf
<1>4. Numbers(v, 1 .. n) /\ Numbers(w, 1 .. (n + 1))
  <2>1. \A k \in 1 .. (n + 1) : k \in 1 .. n \/ k = n + 1
    BY <1>1
  <2> QED
    BY <1>1, <1>2, <1>3, <2>1 DEF Numbers
<1> HIDE DEF q, v, w, n
<1>5. PICK F : Runs(n, v, F) /\ Deltas(s) = F[n]
  BY <1>4, DeltaRuns DEF v, n
<1>6. PICK G : Runs(n + 1, w, G) /\ Deltas(q) = G[n + 1]
  BY <1>1, <1>4, DeltaRuns DEF w
<1>7. G[n + 1] = F[n] + w[n + 1]
  <2>1. Alike(n, v, w)
    BY <1>3 DEF Alike
  <2>2. n \in Nat /\ Runs(n, v, F) /\ Runs(n + 1, w, G)
    BY <1>1, <1>5, <1>6
  <2> QED
    BY <2>1, <2>2, RunsGrow
<1>8. F[n] \in Int
  BY <1>1, <1>4, <1>5, RunsInt
<1> QED
  BY <1>2, <1>3, <1>5, <1>6, <1>7, <1>8 DEF q

(* the gains of trades,                                                      *)
Gains(s) == SumOver(s, Income)
GainOf(s) == [i \in 1 .. Len(s) |-> Income(s[i])]

(* Their sum is a running total,                                             *)
LEMMA GainRuns ==
  ASSUME NEW M, NEW s \in Seq(M), Numbers(GainOf(s), 1 .. Len(s))
  PROVE  \E F : Runs(Len(s), GainOf(s), F) /\ Gains(s) = F[Len(s)]
<1> DEFINE n == Len(s)
           w == GainOf(s)
           C(k) == k = [r \in SUBSET (1 .. n) |-> IF r = {} THEN 0 ELSE
                          k[r \ {Max(r)}] + Income(s[Max(r)])]
           it == CHOOSE k : C(k)
<1>1. n \in Nat /\ DOMAIN s = 1 .. n
  OBVIOUS
<1>2. Gains(s) = it[1 .. n]
  BY <1>1 DEF Gains, SumOver, FoldLeft, MapThenFoldSet
<1>3. ASSUME NEW k
      PROVE  C(k) <=> Weighing(n, w, k)
  <2>1. ASSUME NEW r \in SUBSET (1 .. n), r # {}
        PROVE  Income(s[Max(r)]) = w[Max(r)]
    <3>1. Max(r) \in 1 .. n
      BY <1>1, <2>1, LargestExists
    <3> QED
      BY <3>1 DEF GainOf
  <2>2. [r \in SUBSET (1 .. n) |-> IF r = {} THEN 0 ELSE
           k[r \ {Max(r)}] + Income(s[Max(r)])]
        = [r \in SUBSET (1 .. n) |-> IF r = {} THEN 0 ELSE k[r \ {Max(r)}] + w[Max(r)]]
    BY <2>1
  <2> QED
    BY <2>2 DEF Weighing
<1>4. \E g : C(g)
  BY <1>1, <1>3, WeighingExists
<1>5. C(it)
  BY <1>4
<1>6. Weighing(n, w, it)
  BY <1>3, <1>5
<1> HIDE DEF it
<1> QED
  BY <1>1, <1>2, <1>6, WeighingRuns

(* to which a trade adds its gain.                                           *)
LEMMA GainAppend ==
  ASSUME NEW s \in Seq(TradeEntry), NEW e \in TradeEntry
  PROVE  /\ Gains(s) \in Int /\ Income(e) \in Int
         /\ Gains(Append(s, e)) = Gains(s) + Income(e)
<1> DEFINE q == Append(s, e)
           n == Len(s)
           v == GainOf(s)
           w == GainOf(q)
<1>1. /\ q \in Seq(TradeEntry) /\ n \in Nat /\ Len(q) = n + 1
      /\ \A k \in 1 .. n : s[k] \in TradeEntry /\ q[k] = s[k]
      /\ q[n + 1] = e
  BY Appended
<1>2. \A b \in TradeEntry : Income(b) \in Int
  BY IncomeIsInt
<1>3. /\ \A k \in 1 .. n : v[k] = Income(s[k]) /\ w[k] = Income(s[k])
      /\ w[n + 1] = Income(e)
  <2>1. \A k \in 1 .. n : k \in 1 .. (n + 1)
    BY <1>1
  <2>2. n + 1 \in 1 .. (n + 1)
    BY <1>1
  <2> QED
    BY <1>1, <2>1, <2>2 DEF GainOf
<1>4. Numbers(v, 1 .. n) /\ Numbers(w, 1 .. (n + 1))
  <2>1. \A k \in 1 .. (n + 1) : k \in 1 .. n \/ k = n + 1
    BY <1>1
  <2> QED
    BY <1>1, <1>2, <1>3, <2>1 DEF Numbers
<1> HIDE DEF q, v, w, n
<1>5. PICK F : Runs(n, v, F) /\ Gains(s) = F[n]
  BY <1>4, GainRuns DEF v, n
<1>6. PICK G : Runs(n + 1, w, G) /\ Gains(q) = G[n + 1]
  BY <1>1, <1>4, GainRuns DEF w
<1>7. G[n + 1] = F[n] + w[n + 1]
  <2>1. Alike(n, v, w)
    BY <1>3 DEF Alike
  <2>2. n \in Nat /\ Runs(n, v, F) /\ Runs(n + 1, w, G)
    BY <1>1, <1>5, <1>6
  <2> QED
    BY <2>1, <2>2, RunsGrow
<1>8. F[n] \in Int
  BY <1>1, <1>4, <1>5, RunsInt
<1> QED
  BY <1>2, <1>3, <1>5, <1>6, <1>7, <1>8 DEF q

(* and the shares of a symbol in trades.                                     *)
Counts(y, s) == SumOver(s, LAMBDA t : Shares(y, t))
CountOf(y, s) == [i \in 1 .. Len(s) |-> Shares(y, s[i])]

(* Their sum is a running total,                                             *)
LEMMA CountRuns ==
  ASSUME NEW y, NEW M, NEW s \in Seq(M), Numbers(CountOf(y, s), 1 .. Len(s))
  PROVE  \E F : Runs(Len(s), CountOf(y, s), F) /\ Counts(y, s) = F[Len(s)]
<1> DEFINE n == Len(s)
           w == CountOf(y, s)
           C(k) == k = [r \in SUBSET (1 .. n) |-> IF r = {} THEN 0 ELSE
                          k[r \ {Max(r)}] + Shares(y, s[Max(r)])]
           it == CHOOSE k : C(k)
<1>1. n \in Nat /\ DOMAIN s = 1 .. n
  OBVIOUS
<1>2. Counts(y, s) = it[1 .. n]
  BY <1>1 DEF Counts, SumOver, FoldLeft, MapThenFoldSet
<1>3. ASSUME NEW k
      PROVE  C(k) <=> Weighing(n, w, k)
  <2>1. ASSUME NEW r \in SUBSET (1 .. n), r # {}
        PROVE  Shares(y, s[Max(r)]) = w[Max(r)]
    <3>1. Max(r) \in 1 .. n
      BY <1>1, <2>1, LargestExists
    <3> QED
      BY <3>1 DEF CountOf
  <2>2. [r \in SUBSET (1 .. n) |-> IF r = {} THEN 0 ELSE
           k[r \ {Max(r)}] + Shares(y, s[Max(r)])]
        = [r \in SUBSET (1 .. n) |-> IF r = {} THEN 0 ELSE k[r \ {Max(r)}] + w[Max(r)]]
    BY <2>1
  <2> QED
    BY <2>2 DEF Weighing
<1>4. \E g : C(g)
  BY <1>1, <1>3, WeighingExists
<1>5. C(it)
  BY <1>4
<1>6. Weighing(n, w, it)
  BY <1>3, <1>5
<1> HIDE DEF it
<1> QED
  BY <1>1, <1>2, <1>6, WeighingRuns

(* to which a trade adds its shares.                                         *)
LEMMA CountAppend ==
  ASSUME NEW y, NEW s \in Seq(TradeEntry), NEW e \in TradeEntry
  PROVE  /\ Counts(y, s) \in Int /\ Shares(y, e) \in Int
         /\ Counts(y, Append(s, e)) = Counts(y, s) + Shares(y, e)
<1> DEFINE q == Append(s, e)
           n == Len(s)
           v == CountOf(y, s)
           w == CountOf(y, q)
<1>1. /\ q \in Seq(TradeEntry) /\ n \in Nat /\ Len(q) = n + 1
      /\ \A k \in 1 .. n : s[k] \in TradeEntry /\ q[k] = s[k]
      /\ q[n + 1] = e
  BY Appended
<1>2. \A b \in TradeEntry : Shares(y, b) \in Int
  BY SharesIsInt
<1>3. /\ \A k \in 1 .. n : v[k] = Shares(y, s[k]) /\ w[k] = Shares(y, s[k])
      /\ w[n + 1] = Shares(y, e)
  <2>1. \A k \in 1 .. n : k \in 1 .. (n + 1)
    BY <1>1
  <2>2. n + 1 \in 1 .. (n + 1)
    BY <1>1
  <2> QED
    BY <1>1, <2>1, <2>2 DEF CountOf
<1>4. Numbers(v, 1 .. n) /\ Numbers(w, 1 .. (n + 1))
  <2>1. \A k \in 1 .. (n + 1) : k \in 1 .. n \/ k = n + 1
    BY <1>1
  <2> QED
    BY <1>1, <1>2, <1>3, <2>1 DEF Numbers
<1> HIDE DEF q, v, w, n
<1>5. PICK F : Runs(n, v, F) /\ Counts(y, s) = F[n]
  BY <1>4, CountRuns DEF v, n
<1>6. PICK G : Runs(n + 1, w, G) /\ Counts(y, q) = G[n + 1]
  BY <1>1, <1>4, CountRuns DEF w
<1>7. G[n + 1] = F[n] + w[n + 1]
  <2>1. Alike(n, v, w)
    BY <1>3 DEF Alike
  <2>2. n \in Nat /\ Runs(n, v, F) /\ Runs(n + 1, w, G)
    BY <1>1, <1>5, <1>6
  <2> QED
    BY <2>1, <2>2, RunsGrow
<1>8. F[n] \in Int
  BY <1>1, <1>4, <1>5, RunsInt
<1> QED
  BY <1>2, <1>3, <1>5, <1>6, <1>7, <1>8 DEF q

-----------------------------------------------------------------------------
(* What the entries add up to: the money the books should hold, and the      *)
(* shares.                                                                   *)

(* The books by cash entries m, trades tr and what was entered by hand.      *)
Ledger(m, tr, b) == Deltas(m) + Gains(tr) + b
Sides(tr, h) == [y \in Symbols |-> Counts(y, tr) + h[y]]

(* Booked and Entered in these terms, in this state and the next.            *)
LEMMA BookedNow == Booked = Ledger(moves, trades, outside.basis)
  BY DEF Booked, Ledger, Deltas, Gains

LEMMA EnteredNow == Entered = Sides(trades, outside.shares)
  BY DEF Entered, Sides, Counts

LEMMA BookedNext == Booked' = Ledger(moves', trades', outside'.basis)
  BY DEF Booked, Ledger, Deltas, Gains, SumOver, FoldLeft, MapThenFoldSet, CashDelta, Income

LEMMA EnteredNext == Entered' = Sides(trades', outside'.shares)
  BY DEF Entered, Sides, Counts, SumOver, FoldLeft, MapThenFoldSet, Shares

(* All these sums are whole numbers.                                         *)
LEMMA SumsAreInts ==
  /\ \A s \in Seq(MoveInput) : Deltas(s) \in Int
  /\ \A s \in Seq(TradeEntry) : Gains(s) \in Int
  /\ \A s \in Seq(TradeEntry) : \A y : Counts(y, s) \in Int
<1>1. ASSUME NEW s \in Seq(MoveInput)
      PROVE  Deltas(s) \in Int
  <2> DEFINE n == Len(s)
             w == DeltaOf(s)
  <2>1. n \in Nat /\ \A k \in 1 .. n : s[k] \in MoveInput
    OBVIOUS
  <2>2. Numbers(w, 1 .. n)
    BY <2>1, DeltaIsInt DEF Numbers, DeltaOf
  <2> HIDE DEF w, n
  <2>3. PICK F : Runs(n, w, F) /\ Deltas(s) = F[n]
    BY <2>2, DeltaRuns DEF w, n
  <2> QED
    BY <2>1, <2>2, <2>3, RunsInt
<1>2. ASSUME NEW s \in Seq(TradeEntry)
      PROVE  Gains(s) \in Int
  <2> DEFINE n == Len(s)
             w == GainOf(s)
  <2>1. n \in Nat /\ \A k \in 1 .. n : s[k] \in TradeEntry
    OBVIOUS
  <2>2. Numbers(w, 1 .. n)
    BY <2>1, IncomeIsInt DEF Numbers, GainOf
  <2> HIDE DEF w, n
  <2>3. PICK F : Runs(n, w, F) /\ Gains(s) = F[n]
    BY <2>2, GainRuns DEF w, n
  <2> QED
    BY <2>1, <2>2, <2>3, RunsInt
<1>3. ASSUME NEW s \in Seq(TradeEntry), NEW y
      PROVE  Counts(y, s) \in Int
  <2> DEFINE n == Len(s)
             w == CountOf(y, s)
  <2>1. n \in Nat /\ \A k \in 1 .. n : s[k] \in TradeEntry
    OBVIOUS
  <2>2. Numbers(w, 1 .. n)
    BY <2>1, SharesIsInt DEF Numbers, CountOf
  <2> HIDE DEF w, n
  <2>3. PICK F : Runs(n, w, F) /\ Counts(y, s) = F[n]
    BY <2>2, CountRuns DEF w, n
  <2> QED
    BY <2>1, <2>2, <2>3, RunsInt
<1> QED
  BY <1>1, <1>2, <1>3

(* So are the entries of every state,                                        *)
LEMMA EntriesAreInts ==
  ASSUME TypeInv
  PROVE  /\ Deltas(moves) \in Int /\ Gains(trades) \in Int
         /\ \A y \in Symbols : Counts(y, trades) \in Int /\ outside.shares[y] \in Int
         /\ outside.basis \in Int /\ cash \in Int
         /\ Booked \in Int /\ \A y \in Symbols : Entered[y] \in Int
<1>1. /\ moves \in Seq(MoveInput) /\ trades \in Seq(TradeEntry) /\ outside.basis \in Int
      /\ \A y \in Symbols : outside.shares[y] \in Int
      /\ cash \in Int
  BY DEF TypeInv, Known
<1>2. /\ Deltas(moves) \in Int /\ Gains(trades) \in Int
      /\ \A y \in Symbols : Counts(y, trades) \in Int
  BY <1>1, SumsAreInts
<1>3. Booked \in Int
  BY <1>1, <1>2, BookedNow DEF Ledger
<1>4. \A y \in Symbols : Entered[y] \in Int
  BY <1>1, <1>2, EnteredNow DEF Sides
<1> QED
  BY <1>1, <1>2, <1>3, <1>4

(* and what a book holds.                                                    *)
LEMMA HoldingsAreInts ==
  ASSUME NEW L, Book(L)
  PROVE  BasisOf(L) \in Int /\ \A y : SharesIn(L, y) \in Int
  BY BasisIsTotal, SharesAreTotal DEF Book

(* A step that enters nothing keeps both sides.                              *)
LEMMA SameEntries ==
  ASSUME UNCHANGED <<moves, trades, outside>>
  PROVE  Booked' = Booked /\ Entered' = Entered
  BY BookedNow, BookedNext, EnteredNow, EnteredNext

(* Lots that change by hand are entered; by a trade they are not.            *)
LEMMA SetLotsEnters ==
  ASSUME TypeInv, NEW a \in Actors, NEW L, Book(L), SetLots(a, L), UNCHANGED <<moves, trades>>
  PROVE  /\ thread[a].outside =>
              /\ Booked' = (Booked + BasisOf(L)) - BasisOf(lots)
              /\ \A y \in Symbols :
                   Entered'[y] = (Entered[y] + SharesIn(L, y)) - SharesIn(lots, y)
         /\ ~thread[a].outside => Booked' = Booked /\ Entered' = Entered
<1>1. CASE ~thread[a].outside
  BY <1>1, SameEntries DEF SetLots
<1>2. CASE thread[a].outside
  <2>1. Book(lots)
    BY DEF TypeInv
  <2>2. /\ BasisOf(L) \in Int /\ BasisOf(lots) \in Int
        /\ \A y : SharesIn(L, y) \in Int /\ SharesIn(lots, y) \in Int
    BY <2>1, HoldingsAreInts
  <2>3. outside' = [basis |-> outside.basis + BasisOf(L) - BasisOf(lots),
                    shares |-> [s \in Symbols |-> outside.shares[s] + SharesIn(L, s)
                                                    - SharesIn(lots, s)],
                    removed |-> outside.removed \cup (Ids(lots) \ Ids(L))]
    BY <1>2 DEF SetLots
  <2>4. /\ outside'.basis = outside.basis + BasisOf(L) - BasisOf(lots)
        /\ \A y \in Symbols :
             outside'.shares[y] = outside.shares[y] + SharesIn(L, y) - SharesIn(lots, y)
    BY <2>3
  <2>5. Booked' = (Booked + BasisOf(L)) - BasisOf(lots)
    BY <2>2, <2>4, EntriesAreInts, BookedNow, BookedNext DEF Ledger
  <2>6. ASSUME NEW y \in Symbols
        PROVE  Entered'[y] = (Entered[y] + SharesIn(L, y)) - SharesIn(lots, y)
    <3>1. Entered[y] = Counts(y, trades) + outside.shares[y]
      BY EnteredNow DEF Sides
    <3>2. Entered'[y] = Counts(y, trades) + outside'.shares[y]
      BY EnteredNext DEF Sides
    <3> QED
      BY <2>2, <2>4, <3>1, <3>2, EntriesAreInts
  <2> QED
    BY <1>2, <2>5, <2>6
<1> QED
  BY <1>1, <1>2

(* A trade enters its gain and its shares,                                   *)
LEMMA TradeEnters ==
  ASSUME TypeInv, NEW e \in TradeEntry, trades' = Append(trades, e), UNCHANGED <<moves, outside>>
  PROVE  /\ Booked' = Booked + Income(e) /\ Income(e) \in Int
         /\ \A y \in Symbols : Entered'[y] = Entered[y] + Shares(y, e) /\ Shares(y, e) \in Int
<1>1. trades \in Seq(TradeEntry)
  BY DEF TypeInv, Known
<1>2. Gains(trades') = Gains(trades) + Income(e) /\ Income(e) \in Int
  BY <1>1, GainAppend
<1>3. Booked' = Booked + Income(e)
  BY <1>2, EntriesAreInts, BookedNow, BookedNext DEF Ledger
<1>4. ASSUME NEW y \in Symbols
      PROVE  Entered'[y] = Entered[y] + Shares(y, e) /\ Shares(y, e) \in Int
  <2>1. Counts(y, trades') = Counts(y, trades) + Shares(y, e) /\ Shares(y, e) \in Int
    BY <1>1, CountAppend
  <2>2. Entered[y] = Counts(y, trades) + outside.shares[y]
    BY EnteredNow DEF Sides
  <2>3. Entered'[y] = Counts(y, trades') + outside.shares[y]
    BY EnteredNext DEF Sides
  <2> QED
    BY <2>1, <2>2, <2>3, EntriesAreInts
<1> QED
  BY <1>2, <1>3, <1>4

(* and a cash entry its amount.                                              *)
LEMMA MoveEnters ==
  ASSUME TypeInv, NEW e \in MoveInput, moves' = Append(moves, e), UNCHANGED <<trades, outside>>
  PROVE  Booked' = Booked + CashDelta(e) /\ CashDelta(e) \in Int /\ Entered' = Entered
<1>1. moves \in Seq(MoveInput)
  BY DEF TypeInv
<1>2. Deltas(moves') = Deltas(moves) + CashDelta(e) /\ CashDelta(e) \in Int
  BY <1>1, DeltaAppend
<1>3. Booked' = Booked + CashDelta(e)
  BY <1>2, EntriesAreInts, BookedNow, BookedNext DEF Ledger
<1>4. Entered' = Entered
  BY EnteredNow, EnteredNext
<1> QED
  BY <1>2, <1>3, <1>4

-----------------------------------------------------------------------------
(* The books along an operation.                                             *)

(* The books agree with the lots.                                            *)
Even(C, B, D, H) == C + BasisOf(B) = D /\ \A y \in Symbols : SharesIn(B, y) = H[y]
Still == {<<>>, Roll, Write, WriteOnly, Snapshot, RebuildSteps}

(* Before these calls the books agree, and nothing is carried.               *)
LEMMA StillTodos ==
  \A s \in Still : s \notin {BuySteps, SellSteps, MoveSteps, Put, Record, Pay, PayOnly,
                             ManualSteps, ReplaceSteps}
  BY TodosApart DEF Still

(* So Balanced says no more than Even,                                       *)
LEMMA EvenStill ==
  ASSUME NEW C, NEW B, NEW D, NEW H, Even(C, B, D, H), NEW s \in Still,
         NEW c, NEW M, NEW e, NEW x
  PROVE  Balanced(s, c, M, e, x, C, B, D, H)
<1>1. s \notin {BuySteps, SellSteps, MoveSteps, Put, Record, Pay, PayOnly, ManualSteps,
                ReplaceSteps}
  BY StillTodos
<1> QED
  BY <1>1 DEF Balanced, LateBooks, Even

(* and before every call that is not late, no less.                          *)
LEMMA BalancedEven ==
  ASSUME NEW s, NEW c, NEW M, NEW e, NEW x, NEW C, NEW B, NEW D, NEW H,
         Balanced(s, c, M, e, x, C, B, D, H), s \notin LateBooks
  PROVE  Even(C, B, D, H)
  BY DEF Balanced, Even

(* The calls that are not late.                                              *)
LEMMA LateTodos ==
  /\ \A s \in Still : s \notin LateBooks
  /\ \A s \in {BuySteps, SellSteps, MoveSteps, Put, ManualSteps, ReplaceSteps} : s \notin LateBooks
<1>1. \A s \in Still : s \notin LateBooks
  BY StillTodos DEF LateBooks
<1>2. \A s \in {BuySteps, SellSteps, MoveSteps, Put, ManualSteps, ReplaceSteps} : s \notin LateBooks
  BY TodosApart DEF LateBooks
<1> QED
  BY <1>1, <1>2

(* What an operation that begins keeps in mind.                              *)
LEMMA BuyBalanced ==
  ASSUME NEW C, NEW B, NEW D, NEW H, Even(C, B, D, H), NEW M, NEW e,
         BasisOf(M) + CashDelta(e) = 0, \A y \in Symbols : SharesIn(M, y) = Shares(y, e)
  PROVE  Balanced(BuySteps, C, M, e, FALSE, C, B, D, H)
<1>1. BuySteps \notin {ManualSteps, Put, ReplaceSteps, Record, Pay, PayOnly}
  BY TodosApart
<1> QED
  BY <1>1 DEF Balanced, Even

(* A sale or a cash entry has read the cash.                                 *)
LEMMA CashBalanced ==
  ASSUME NEW C, NEW B, NEW D, NEW H, Even(C, B, D, H), NEW s \in {SellSteps, MoveSteps},
         NEW M, NEW e, NEW x
  PROVE  Balanced(s, C, M, e, x, C, B, D, H)
<1>1. s \notin {BuySteps, ManualSteps, Put, ReplaceSteps, Record, Pay, PayOnly}
  BY TodosApart
<1> QED
  BY <1>1 DEF Balanced, Even

(* Lots added by hand are entered by hand.                                   *)
LEMMA ManualBalanced ==
  ASSUME NEW C, NEW B, NEW D, NEW H, Even(C, B, D, H), NEW c, NEW M, NEW e
  PROVE  Balanced(ManualSteps, c, M, e, TRUE, C, B, D, H)
<1>1. ManualSteps \notin {BuySteps, SellSteps, MoveSteps, Put, ReplaceSteps, Record, Pay, PayOnly}
  BY TodosApart
<1> QED
  BY <1>1 DEF Balanced, Even

(* Lots written back are entered by hand, or add up to the same.             *)
LEMMA ReplaceBalanced ==
  ASSUME NEW C, NEW B, NEW D, NEW H, Even(C, B, D, H), NEW c, NEW M, NEW e, NEW x,
         ~x => BasisOf(M) = BasisOf(B) /\ \A y \in Symbols : SharesIn(M, y) = SharesIn(B, y)
  PROVE  Balanced(ReplaceSteps, c, M, e, x, C, B, D, H)
<1>1. ReplaceSteps \notin {BuySteps, SellSteps, MoveSteps, Put, ManualSteps, Record, Pay, PayOnly}
  BY TodosApart
<1> QED
  BY <1>1 DEF Balanced, Even

(* A sale moves cost from the lots to the gain.                              *)
LEMMA PutBalanced ==
  ASSUME NEW c, NEW M, NEW e, NEW x, NEW C, NEW B, NEW D, NEW H,
         Balanced(SellSteps, c, M, e, x, C, B, D, H), NEW M2, NEW e2,
         BasisOf(M2) + CashDelta(e2) = BasisOf(B) + Income(e2),
         \A y \in Symbols : SharesIn(M2, y) = SharesIn(B, y) + Shares(y, e2)
  PROVE  Balanced(Put, c, M2, e2, FALSE, C, B, D, H)
<1>1. Put \notin {BuySteps, ManualSteps, ReplaceSteps, Record, Pay, PayOnly}
  BY TodosApart
<1>2. SellSteps \notin LateBooks
  BY LateTodos
<1>3. Even(C, B, D, H)
  BY <1>2, BalancedEven
<1>4. c = C
  BY DEF Balanced
<1> QED
  BY <1>1, <1>3, <1>4 DEF Balanced, Even

(* Before its trade is recorded, an operation owes the gain and the amount,  *)
LEMMA RecordBalanced ==
  ASSUME NEW C, NEW B, NEW D, NEW H, NEW e, NEW M, NEW x,
         C + CashDelta(e) + BasisOf(B) = D + Income(e),
         \A y \in Symbols : SharesIn(B, y) = H[y] + Shares(y, e)
  PROVE  Balanced(Record, C, M, e, x, C, B, D, H)
<1>1. Record \notin {BuySteps, ManualSteps, Put, ReplaceSteps, Pay, PayOnly} /\ Record \in LateBooks
  BY TodosApart DEF LateBooks
<1> QED
  BY <1>1 DEF Balanced

(* and before the cash is written, the amount.                               *)
LEMMA PayBalanced ==
  ASSUME NEW C, NEW B, NEW D, NEW H, NEW e, NEW M, NEW x, NEW s \in {Pay, PayOnly},
         C + CashDelta(e) + BasisOf(B) = D, \A y \in Symbols : SharesIn(B, y) = H[y]
  PROVE  Balanced(s, C, M, e, x, C, B, D, H)
<1>1. s \notin {BuySteps, ManualSteps, Put, ReplaceSteps, Record} /\ s \in LateBooks
  BY TodosApart DEF LateBooks
<1> QED
  BY <1>1 DEF Balanced

(* The sum over one element.                                                 *)
LEMMA TotalOne ==
  ASSUME NEW v, NEW x, v[x] \in Int
  PROVE  SumIn(v, {x}) = v[x]
<1> DEFINE n == {}
<1>1. IsFiniteSet(n) /\ Numbers(v, n) /\ x \notin n /\ n \cup {x} = {x}
  BY FS_EmptySet DEF Numbers
<1>2. SumIn(v, n) = 0
  BY <1>1, TotalStep
<1> HIDE DEF n
<1>3. SumIn(v, n \cup {x}) = v[x] + SumIn(v, n)
  BY <1>1, TotalAdd
<1>4. SumIn(v, n \cup {x}) = v[x]
  BY <1>2, <1>3
<1>5. n \cup {x} = {x}
  BY <1>1
<1> QED
  BY <1>4, <1>5

(* The lot of a purchase is worth what it cost.                              *)
LEMMA PurchaseIsWorth ==
  ASSUME NEW o \in Buys, NEW L \in Created({o}), NEW e \in BuyEntry,
         e.symbol = o.symbol, e.quantity = o.quantity, e.price = o.price, e.fees = o.fees
  PROVE  /\ BasisOf(L) + CashDelta(e) = 0 /\ \A y : SharesIn(L, y) = Shares(y, e)
<1>1. PICK f \in Injection({o}, LotIds \ issued) : L = {WithId(p, f[p]) : p \in {o}}
  BY DEF Created
<1> DEFINE l == WithId(o, f[o])
<1>2. L = {l} /\ f[o] \in LotIds
  BY <1>1 DEF Injection
<1>3. o \in NewLot /\ o.left = o.quantity /\ o.left <= o.quantity /\ o.fees % o.quantity = 0
  BY Inputs DEF Input
<1>4. /\ l \in Held /\ l.symbol = o.symbol /\ l.quantity = o.quantity /\ l.left = o.quantity
      /\ l.price = o.price /\ l.fees = o.fees
  BY <1>2, <1>3, NewLotOf
<1> HIDE DEF l
<1>5. Book({l}) /\ Book({})
  BY <1>4, EmptyBook, FS_Singleton DEF Book, OneEach
<1>6. /\ o.quantity \in Nat /\ o.quantity > 0 /\ o.price \in Nat /\ o.fees \in Nat
  BY <1>3 DEF NewLot
<1>7. BasisOf({l}) = o.quantity * o.price + o.fees
  <2>1. CostFn[l] = Basis(l) /\ Basis(l) \in Nat
    BY <1>4, BasisOfHeld DEF CostFn
  <2>2. SumIn(CostFn, {l}) = Basis(l)
    BY <2>1, TotalOne
  <2>3. BasisOf({l}) = SumIn(CostFn, {l})
    BY <1>5, BasisIsTotal DEF Book
  <2>5. BasisOf({l}) = Basis(l)
    BY <2>2, <2>3
  <2>6. Basis(l) = o.quantity * o.price + (o.fees * o.quantity) \div o.quantity
    BY <1>4 DEF Basis
  <2>7. (o.fees * o.quantity) \div o.quantity = (o.fees \div o.quantity) * o.quantity
    BY <1>3, <1>6, Portion
  <2>8. (o.fees \div o.quantity) * o.quantity = o.fees
    BY <1>3, <1>6, Z3
  <2> QED
    BY <2>5, <2>6, <2>7, <2>8
<1>8. ASSUME NEW y
      PROVE  SharesIn({l}, y) = Shares(y, e)
  <2>1. Shares(y, e) = IF y = o.symbol THEN o.quantity ELSE 0
    BY DEF Shares, BuyEntry
  <2>2. LeftFn[l] = o.quantity
    BY <1>4 DEF LeftFn
  <2>3. SharesIn({l}, y) = SumIn(LeftFn, OfSymbol({l}, y))
    BY <1>5, SharesAreTotal DEF Book
  <2>4. CASE y = o.symbol
    <3>1. OfSymbol({l}, y) = {l}
      BY <1>4, <2>4 DEF OfSymbol
    <3>2. SumIn(LeftFn, {l}) = o.quantity
      BY <1>6, <2>2, TotalOne
    <3> QED
      BY <2>1, <2>3, <2>4, <3>1, <3>2
  <2>5. CASE y # o.symbol
    <3>1. OfSymbol({l}, y) = {}
      BY <1>4, <2>5 DEF OfSymbol
    <3> DEFINE n == {}
    <3>2. IsFiniteSet(n) /\ Numbers(LeftFn, n)
      BY FS_EmptySet DEF Numbers
    <3>3. SumIn(LeftFn, n) = 0
      BY <3>2, TotalStep
    <3> QED
      BY <2>1, <2>3, <2>5, <3>1, <3>3
  <2> QED
    BY <2>4, <2>5
<1>9. CashDelta(e) = -(o.quantity * o.price + o.fees)
  <2>1. e.kind = "buy"
    BY DEF BuyEntry
  <2> QED
    BY <2>1 DEF CashDelta, Inflows, Outflows
<1> DEFINE z == o.quantity * o.price
<1>10. z \in Nat
  BY <1>6, NatTimes
<1>11. BasisOf({l}) = z + o.fees /\ CashDelta(e) = -(z + o.fees)
  BY <1>7, <1>9
<1> HIDE DEF z
<1>12. BasisOf({l}) + CashDelta(e) = 0
  BY <1>6, <1>10, <1>11
<1> QED
  BY <1>2, <1>8, <1>12

-----------------------------------------------------------------------------
(* Every beginning of an operation keeps SerialInv.                          *)

(* Only before lots are replaced is there a sale to speak of,                *)
LEMMA FifoOther ==
  ASSUME NEW s, s \notin {Put, ReplaceSteps}, NEW M, NEW e, NEW B
  PROVE  Fifo(s, M, e, B)
  BY DEF Fifo

(* and only if there is an entry.                                            *)
LEMMA FifoNone ==
  ASSUME NEW M, NEW B
  PROVE  Fifo(ReplaceSteps, M, NoEntry, B)
<1>1. ReplaceSteps # Put
  BY TodosApart
<1> QED
  BY <1>1 DEF Fifo

(* The parts of SerialInv in this state.                                     *)
Tracked(s, P) == Track(s, P, lots, positions, valued, Valuation, torn)
BackedNow(s, M, e, x) == Backed(s, M, e, x, lots, trades, outside.removed)
BalancedNow(s, c, M, e, x) ==
  "books" \notin torn => Balanced(s, c, M, e, x, cash, lots, Booked, Entered)
EvenNow == "books" \notin torn => Even(cash, lots, Booked, Entered)

(* The state in which an operation begins: no other is under way.            *)
LEMMA AtBegin ==
  ASSUME TypeInv, SerialInv, OneAtATime', NEW a \in Actors, Opens(a),
         NEW s, NEW c, NEW M, NEW P, NEW e, NEW x, Goes(a, s, c, M, P, e, x), s # <<>>
  PROVE  Alone(a) /\ Tracked(<<>>, {}) /\ BackedNow(<<>>, {}, NoEntry, FALSE) /\ EvenNow
<1>1. Alone(a)
  BY AloneNext
<1>2. \A b \in Actors : thread[b].todo = <<>>
  BY <1>1 DEF Alone, Opens
<1>3. Along(<<>>, 0, {}, {}, NoEntry, FALSE)
  BY <1>2 DEF SerialInv
<1> DEFINE n == <<>>
<1>4. n \in Still
  BY DEF Still
<1>5. Along(n, 0, {}, {}, NoEntry, FALSE)
  BY <1>3
<1> HIDE DEF n
<1>6. n \notin LateBooks
  BY <1>4, LateTodos
<1>7. Tracked(n, {}) /\ BackedNow(n, {}, NoEntry, FALSE)
  BY <1>5 DEF Along, Tracked, BackedNow
<1> DEFINE z == 0
<1>8. "books" \notin torn => Balanced(n, z, {}, NoEntry, FALSE, cash, lots, Booked, Entered)
  BY <1>5 DEF Along
<1> HIDE DEF z
<1>9. EvenNow
  BY <1>6, <1>8, BalancedEven DEF EvenNow
<1> QED
  BY <1>1, <1>7, <1>9 DEF n

(* What must hold of the operation that begins.                              *)
LEMMA GoesBegin ==
  ASSUME TypeInv, NEW a \in Actors, Opens(a), Alone(a),
         NEW s, NEW c, NEW M, NEW P, NEW e, NEW x, Goes(a, s, c, M, P, e, x),
         Tracked(s, P), BackedNow(s, M, e, x), BalancedNow(s, c, M, e, x), Fifo(s, M, e, lots)
  PROVE  SerialInv'
<1>1. UNCHANGED <<lots, cash, positions, trades, moves, valued, outside, torn>>
  BY DEF Opens
<1>2. Valuation' = Valuation
  BY <1>1, SameValuation
<1>3. Booked' = Booked /\ Entered' = Entered
  BY <1>1, SameEntries
<1>4. Track(s, P, lots', positions', valued', Valuation', torn')
  BY <1>1, <1>2 DEF Tracked
<1>5. Backed(s, M, e, x, lots', trades', outside'.removed)
  BY <1>1 DEF BackedNow
<1>6. "books" \notin torn' => Balanced(s, c, M, e, x, cash', lots', Booked', Entered')
  BY <1>1, <1>3 DEF BalancedNow
<1>7. Fifo(s, M, e, lots')
  BY <1>1
<1> QED
  BY <1>4, <1>5, <1>6, <1>7, GoesAlong

(* An operation that begins owes nothing.                                    *)
LEMMA QuietTracked ==
  ASSUME Tracked(<<>>, {}), NEW s \in Quiet, NEW P
  PROVE  Tracked(s, P)
<1> DEFINE n == <<>>
<1>1. n \in Quiet /\ Tracked(n, {})
  BY DEF Quiet
<1> HIDE DEF n
<1> QED
  BY <1>1, TrackQuiet DEF Tracked

LEMMA BuyAlong ==
  ASSUME TypeInv, SerialInv, OneAtATime', NEW a \in Actors, NEW o \in Buys, BeginBuy(a, o)
  PROVE  SerialInv'
<1>1. PICK L \in Created({o}), e \in BuyEntry :
        /\ Opens(a)
        /\ Goes(a, BuySteps, cash, L, {}, e, FALSE)
        /\ e.symbol = o.symbol /\ e.quantity = o.quantity /\ e.price = o.price
        /\ e.fees = o.fees /\ e.ids = Ids(L)
  BY BuyBegins
<1>2. BuySteps # <<>> /\ BuySteps \notin {Put, ReplaceSteps} /\ BuySteps \in Quiet
  BY TodosApart DEF Quiet
<1>3. Alone(a) /\ Tracked(<<>>, {}) /\ BackedNow(<<>>, {}, NoEntry, FALSE) /\ EvenNow
  BY <1>1, <1>2, AtBegin
<1>4. Tracked(BuySteps, {})
  BY <1>2, <1>3, QuietTracked
<1>5. BackedNow(BuySteps, L, e, FALSE)
  BY <1>1, <1>3, BackedBuy DEF BackedNow
<1>6. BasisOf(L) + CashDelta(e) = 0 /\ \A y \in Symbols : SharesIn(L, y) = Shares(y, e)
  BY <1>1, PurchaseIsWorth
<1>7. BalancedNow(BuySteps, cash, L, e, FALSE)
  BY <1>3, <1>6, BuyBalanced DEF BalancedNow, EvenNow
<1>8. Fifo(BuySteps, L, e, lots)
  BY <1>2, FifoOther
<1> QED
  BY <1>1, <1>3, <1>4, <1>5, <1>7, <1>8, GoesBegin

LEMMA CashAlong ==
  ASSUME TypeInv, SerialInv, OneAtATime', NEW a \in Actors, Opens(a),
         NEW s \in {SellSteps, MoveSteps},
         NEW e, Goes(a, s, cash, {}, {}, e, FALSE)
  PROVE  SerialInv'
<1>2. s # <<>> /\ s \notin {Put, ReplaceSteps} /\ s \in Quiet /\ MoveSteps \in Plain
  BY TodosApart DEF Quiet, Plain
<1>3. Alone(a) /\ Tracked(<<>>, {}) /\ BackedNow(<<>>, {}, NoEntry, FALSE) /\ EvenNow
  BY <1>2, AtBegin
<1>4. Tracked(s, {})
  BY <1>2, <1>3, QuietTracked
<1>5. BackedNow(s, {}, e, FALSE)
  BY <1>2, <1>3, BackedPlain, BackedSell DEF BackedNow
<1>7. BalancedNow(s, cash, {}, e, FALSE)
  BY <1>3, CashBalanced DEF BalancedNow, EvenNow
<1>8. Fifo(s, {}, e, lots)
  BY <1>2, FifoOther
<1> QED
  BY <1>3, <1>4, <1>5, <1>7, <1>8, GoesBegin

LEMMA ManualAlong ==
  ASSUME TypeInv, SerialInv, OneAtATime', NEW a \in Actors, NEW S \in Manuals, BeginManual(a, S)
  PROVE  SerialInv'
<1> DEFINE n == NoEntry
           z == 0
<1>1. PICK L : Opens(a) /\ Goes(a, ManualSteps, z, L, {}, n, TRUE)
  BY ManualBegins
<1>2. ManualSteps # <<>> /\ ManualSteps \notin {Put, ReplaceSteps} /\ ManualSteps \in Quiet
      /\ ManualSteps \in Plain
  BY TodosApart DEF Quiet, Plain
<1> HIDE DEF z
<1>3. Alone(a) /\ Tracked(<<>>, {}) /\ BackedNow(<<>>, {}, n, FALSE) /\ EvenNow
  BY <1>1, <1>2, AtBegin
<1> HIDE DEF n
<1>4. Tracked(ManualSteps, {})
  BY <1>2, <1>3, QuietTracked
<1>5. BackedNow(ManualSteps, L, n, TRUE)
  BY <1>2, <1>3, BackedPlain DEF BackedNow
<1>7. BalancedNow(ManualSteps, z, L, n, TRUE)
  BY <1>3, ManualBalanced DEF BalancedNow, EvenNow
<1>8. Fifo(ManualSteps, L, n, lots)
  BY <1>2, FifoOther
<1> QED
  BY <1>1, <1>3, <1>4, <1>5, <1>7, <1>8, GoesBegin

LEMMA ReplaceAlong ==
  ASSUME TypeInv, SerialInv, OneAtATime', NEW a \in Actors, Opens(a), NEW L, NEW x,
         Goes(a, ReplaceSteps, 0, L, {}, NoEntry, x),
         x => \A l \in L : l.id \in Ids(lots) => l \in lots,
         ~x => /\ \A k \in lots : \E l \in L : Kin(l, k) /\ l.left <= k.left
               /\ BasisOf(L) = BasisOf(lots)
               /\ \A y \in Symbols : SharesIn(L, y) = SharesIn(lots, y)
  PROVE  SerialInv'
<1> DEFINE n == NoEntry
           z == 0
<1>1. Goes(a, ReplaceSteps, z, L, {}, n, x)
  OBVIOUS
<1> HIDE DEF z
<1>2. ReplaceSteps # <<>> /\ ReplaceSteps \in Quiet
  BY TodosApart DEF Quiet
<1>3. Alone(a) /\ Tracked(<<>>, {}) /\ BackedNow(<<>>, {}, n, FALSE) /\ EvenNow
  BY <1>1, <1>2, AtBegin
<1>4. Tracked(ReplaceSteps, {})
  BY <1>2, <1>3, QuietTracked
<1>8. Fifo(ReplaceSteps, L, n, lots)
  BY FifoNone
<1> HIDE DEF n
<1>5. BackedNow(ReplaceSteps, L, n, x)
  BY <1>3, BackedReplace DEF BackedNow
<1>6. ~x => BasisOf(L) = BasisOf(lots) /\ \A y \in Symbols : SharesIn(L, y) = SharesIn(lots, y)
  OBVIOUS
<1>7. BalancedNow(ReplaceSteps, z, L, n, x)
  BY <1>3, <1>6, ReplaceBalanced DEF BalancedNow, EvenNow
<1> QED
  BY <1>1, <1>3, <1>4, <1>5, <1>7, <1>8, GoesBegin

LEMMA UploadAlong ==
  ASSUME TypeInv, SerialInv, OneAtATime', NEW a \in Actors, NEW S \in Uploads, BeginUpload(a, S)
  PROVE  SerialInv'
<1>1. PICK L \in Created(S) : Opens(a) /\ Goes(a, ReplaceSteps, 0, L, {}, NoEntry, TRUE)
  BY UploadBegins
<1>2. Ids(L) \cap issued = {} /\ Ids(lots) \subseteq issued
  BY Inputs, NewBook DEF TypeInv
<1>3. \A l \in L : l.id \in Ids(lots) => l \in lots
  BY <1>2 DEF Ids
<1> QED
  BY <1>1, <1>3, ReplaceAlong

LEMMA DeleteLotAlong ==
  ASSUME TypeInv, SerialInv, OneAtATime', NEW a \in Actors, NEW i \in LotIds, BeginDeleteLot(a, i)
  PROVE  SerialInv'
<1> DEFINE L == {l \in lots : l.id # i}
<1>1. Opens(a) /\ Goes(a, ReplaceSteps, 0, L, {}, NoEntry, TRUE)
  BY DeleteLotBegins
<1>2. \A l \in L : l.id \in Ids(lots) => l \in lots
  OBVIOUS
<1> HIDE DEF L
<1> QED
  BY <1>1, <1>2, ReplaceAlong

(* Positions are written alone only where they do not agree with the lots.   *)
LEMMA StrayAlong ==
  ASSUME TypeInv, SerialInv, OneAtATime', NEW a \in Actors, Opens(a), NEW P,
         Goes(a, Write, 0, {}, P, NoEntry, FALSE), positions # Rollup(lots)
  PROVE  SerialInv'
<1> DEFINE n == NoEntry
           z == 0
           u == <<>>
           k == {}
<1>1. Goes(a, Write, z, k, P, n, FALSE)
  OBVIOUS
<1>2. Write # u /\ Write \notin {Put, ReplaceSteps} /\ Write \in Plain /\ Write \in Still
      /\ u \notin LatePositions
  BY TodosApart DEF Plain, Still, LatePositions
<1> HIDE DEF z
<1>3. Alone(a) /\ Tracked(u, k) /\ BackedNow(u, k, n, FALSE) /\ EvenNow
  BY <1>1, <1>2, AtBegin
<1> HIDE DEF n, u, k
<1>4. BothTorn(torn)
  BY <1>2, <1>3 DEF Tracked, Track
<1>5. Tracked(Write, P)
  BY <1>4, TrackWrite DEF Tracked
<1>6. BackedNow(Write, k, n, FALSE)
  BY <1>2, <1>3, BackedPlain DEF BackedNow
<1>7. BalancedNow(Write, z, k, n, FALSE)
  BY <1>2, <1>3, EvenStill DEF BalancedNow, EvenNow
<1>8. Fifo(Write, k, n, lots)
  BY <1>2, FifoOther
<1> QED
  BY <1>1, <1>3, <1>5, <1>6, <1>7, <1>8, GoesBegin

LEMMA DeletePositionAlong ==
  ASSUME TypeInv, SerialInv, OneAtATime', NEW a \in Actors, NEW s \in Symbols,
         BeginDeletePosition(a, s)
  PROVE  SerialInv'
<1> DEFINE L == lots \ OfSymbol(lots, s)
           P == positions \ OfSymbol(positions, s)
<1>1. /\ Opens(a)
      /\ \/ Goes(a, ReplaceSteps, 0, L, {}, NoEntry, TRUE)
         \/ /\ OfSymbol(lots, s) = {} /\ OfSymbol(positions, s) # {}
            /\ Goes(a, Write, 0, {}, P, NoEntry, FALSE)
  BY DeletePositionBegins
<1>2. \A l \in L : l.id \in Ids(lots) => l \in lots
  OBVIOUS
<1> HIDE DEF L, P
<1>3. CASE Goes(a, ReplaceSteps, 0, L, {}, NoEntry, TRUE)
  BY <1>1, <1>2, <1>3, ReplaceAlong
<1>4. CASE /\ OfSymbol(lots, s) = {} /\ OfSymbol(positions, s) # {}
           /\ Goes(a, Write, 0, {}, P, NoEntry, FALSE)
  <2>1. positions # Rollup(lots)
    BY <1>4, NoStrayRows
  <2> QED
    BY <1>1, <1>4, <2>1, StrayAlong
<1> QED
  BY <1>1, <1>3, <1>4

LEMMA QuotesAlong ==
  ASSUME TypeInv, SerialInv, OneAtATime', NEW a \in Actors, NEW q \in Quotes, BeginQuotes(a, q)
  PROVE  SerialInv'
<1> DEFINE L == RepricedLots(q)
           P == RepricedPositions(q)
<1>1. /\ Opens(a)
      /\ \/ Goes(a, ReplaceSteps, 0, L, {}, NoEntry, FALSE)
         \/ /\ lots = {} /\ P # positions
            /\ Goes(a, Write, 0, {}, P, NoEntry, FALSE)
  BY QuotesBegin
<1>2. CASE Goes(a, ReplaceSteps, 0, L, {}, NoEntry, FALSE)
  <2>1. /\ BasisOf(L) = BasisOf(lots) /\ \A y \in Symbols : SharesIn(L, y) = SharesIn(lots, y)
        /\ \A k \in lots : \E l \in L : Kin(l, k) /\ l.left = k.left
    BY RepricedBook
  <2>2. Book(L) /\ Book(lots)
    BY RepricedBook DEF TypeInv
  <2> HIDE DEF L
  <2>3. \A k \in lots : \E l \in L : Kin(l, k) /\ l.left <= k.left
    <3> SUFFICES ASSUME NEW k \in lots
                 PROVE  \E l \in L : Kin(l, k) /\ l.left <= k.left
      OBVIOUS
    <3>1. PICK l \in L : Kin(l, k) /\ l.left = k.left
      BY <2>1
    <3>2. l.left \in Nat
      BY <2>2, HeldFields DEF Book
    <3> QED
      BY <3>1, <3>2
  <2> QED
    BY <1>1, <1>2, <2>1, <2>3, ReplaceAlong
<1>3. CASE /\ lots = {} /\ P # positions
           /\ Goes(a, Write, 0, {}, P, NoEntry, FALSE)
  <2>1. positions = {} => P = {}
    BY DEF RepricedPositions
  <2>2. Rollup(lots) = {}
    BY <1>3, EmptyBook
  <2> HIDE DEF P
  <2>3. positions # Rollup(lots)
    BY <1>3, <2>1, <2>2
  <2> QED
    BY <1>1, <1>3, <2>3, StrayAlong
<1> QED
  BY <1>1, <1>2, <1>3

LEMMA RebuildAlong ==
  ASSUME TypeInv, SerialInv, OneAtATime', NEW a \in Actors, BeginRebuild(a)
  PROVE  SerialInv'
<1> DEFINE n == NoEntry
           z == 0
           k == {}
<1>1. Opens(a) /\ Goes(a, RebuildSteps, z, k, k, n, FALSE)
  BY RebuildBegins
<1>2. RebuildSteps # <<>> /\ RebuildSteps \notin {Put, ReplaceSteps} /\ RebuildSteps \in Plain
      /\ RebuildSteps \in Still
  BY TodosApart DEF Plain, Still
<1> HIDE DEF z
<1>3. Alone(a) /\ Tracked(<<>>, k) /\ BackedNow(<<>>, k, n, FALSE) /\ EvenNow
  BY <1>1, <1>2, AtBegin
<1> HIDE DEF n, k
<1>5. Tracked(RebuildSteps, k)
  BY <1>3, TrackRebuild DEF Tracked
<1>6. BackedNow(RebuildSteps, k, n, FALSE)
  BY <1>2, <1>3, BackedPlain DEF BackedNow
<1>7. BalancedNow(RebuildSteps, z, k, n, FALSE)
  BY <1>2, <1>3, EvenStill DEF BalancedNow, EvenNow
<1>8. Fifo(RebuildSteps, k, n, lots)
  BY <1>2, FifoOther
<1> QED
  BY <1>1, <1>3, <1>5, <1>6, <1>7, <1>8, GoesBegin

LEMMA RequestAlong ==
  ASSUME TypeInv, SerialInv, OneAtATime', NEW r \in Requests, Request(r)
  PROVE  SerialInv'
<1>0. r \in Actors
  BY DEF Actors
<1>1. ASSUME NEW o \in Buys, BeginBuy(r, o) PROVE SerialInv'
  BY <1>0, <1>1, BuyAlong
<1>2. ASSUME NEW o \in Sells, BeginSell(r, o) PROVE SerialInv'
  BY <1>0, <1>2, SellBegins, CashAlong
<1>3. ASSUME NEW m \in Moves, BeginMove(r, m) PROVE SerialInv'
  BY <1>0, <1>3, MoveBegins, CashAlong
<1>4. ASSUME NEW S \in Manuals, BeginManual(r, S) PROVE SerialInv'
  BY <1>0, <1>4, ManualAlong
<1>5. ASSUME NEW S \in Uploads, BeginUpload(r, S) PROVE SerialInv'
  BY <1>0, <1>5, UploadAlong
<1>6. ASSUME NEW i \in LotIds, BeginDeleteLot(r, i) PROVE SerialInv'
  BY <1>0, <1>6, DeleteLotAlong
<1>7. ASSUME NEW s \in Symbols, BeginDeletePosition(r, s) PROVE SerialInv'
  BY <1>0, <1>7, DeletePositionAlong
<1> QED
  BY <1>1, <1>2, <1>3, <1>4, <1>5, <1>6, <1>7 DEF Request

LEMMA JobAlong ==
  ASSUME TypeInv, SerialInv, OneAtATime', NEW w \in Workers, Job(w)
  PROVE  SerialInv'
<1>0. w \in Actors
  BY DEF Actors
<1> QED
  BY <1>0, RebuildAlong, QuotesAlong DEF Job

-----------------------------------------------------------------------------
(* Every call keeps SerialInv: the books first.                              *)

(* The state in which a call is made: no other operation is under way.       *)
LEMMA AtCall ==
  ASSUME SerialInv, OneAtATime, NEW a \in Actors, thread[a].todo # <<>>
  PROVE  LET t == thread[a]
         IN  /\ Alone(a) /\ Tracked(t.todo, t.positions)
             /\ BackedNow(t.todo, t.lots, t.entry, t.outside)
             /\ BalancedNow(t.todo, t.cash, t.lots, t.entry, t.outside)
             /\ Fifo(t.todo, t.lots, t.entry, lots)
             /\ t.todo \notin LateBooks => EvenNow
<1>1. Alone(a)
  BY AloneNow
<1> DEFINE t == thread[a]
<1>2. Along(t.todo, t.cash, t.lots, t.positions, t.entry, t.outside)
  BY <1>1 DEF SerialInv
<1>3. /\ Tracked(t.todo, t.positions) /\ BackedNow(t.todo, t.lots, t.entry, t.outside)
      /\ BalancedNow(t.todo, t.cash, t.lots, t.entry, t.outside)
      /\ Fifo(t.todo, t.lots, t.entry, lots)
  BY <1>2 DEF Along, Tracked, BackedNow, BalancedNow
<1>4. t.todo \notin LateBooks => EvenNow
  BY <1>3, BalancedEven DEF EvenNow, BalancedNow
<1> QED
  BY <1>1, <1>3, <1>4

(* Balanced in the state after a step.                                       *)
BalancedNext(s, c, M, e, x) ==
  "books" \notin torn' => Balanced(s, c, M, e, x, cash', lots', Booked', Entered')

LEMMA AddLotsBalanced ==
  ASSUME TypeInv, NEW a \in Actors, AddLots(a), NEW s \in {BuySteps, ManualSteps},
         s = thread[a].todo,
         BalancedNow(s, thread[a].cash, thread[a].lots, thread[a].entry, thread[a].outside)
  PROVE  BalancedNext(IF s = BuySteps THEN Record ELSE Roll, thread[a].cash, {},
                      thread[a].entry, thread[a].outside)
<1> DEFINE t == thread[a]
           B == lots \cup t.lots
           c == t.cash
           M == t.lots
           e == t.entry
           x == t.outside
           k == {}
<1>1. /\ lots' = B /\ SetLots(a, B) /\ UNCHANGED <<cash, moves, trades, torn>>
  BY DEF AddLots, SetLots
<1>2. Book(lots) /\ Book(M) /\ Ids(lots) \cap Ids(M) = {}
  BY TypedThread DEF TypeInv, ThreadsOK, Sound, Fit, Fresh
<1>3. /\ Book(B) /\ BasisOf(B) = BasisOf(lots) + BasisOf(M)
      /\ \A y : SharesIn(B, y) = SharesIn(lots, y) + SharesIn(M, y)
  <2>1. Book(B)
    BY <1>2, UnionBook
  <2>2. lots \cap M = {} /\ \A y : OfSymbol(lots, y) \cap OfSymbol(M, y) = {}
    BY <1>2 DEF Ids, OfSymbol
  <2>3. /\ lots \in SUBSET Held /\ M \in SUBSET Held /\ IsFiniteSet(lots) /\ IsFiniteSet(M)
    BY <1>2 DEF Book
  <2>4. BasisOf(B) = BasisOf(lots) + BasisOf(M)
    <3>1. SumIn(CostFn, B) = SumIn(CostFn, lots) + SumIn(CostFn, M)
      BY <2>2, <2>3, LotNumbers, TotalUnion
    <3>2. BasisOf(B) = SumIn(CostFn, B)
      BY <2>1, BasisIsTotal DEF Book
    <3> QED
      BY <2>3, <3>1, <3>2, BasisIsTotal
  <2>5. ASSUME NEW y
        PROVE  SharesIn(B, y) = SharesIn(lots, y) + SharesIn(M, y)
    <3> DEFINE S == OfSymbol(lots, y)
               T == OfSymbol(M, y)
    <3>1. OfSymbol(B, y) = S \cup T /\ S \cap T = {}
      BY <2>2 DEF OfSymbol
    <3>2. S \in SUBSET Held /\ T \in SUBSET Held /\ IsFiniteSet(S) /\ IsFiniteSet(T)
      <4>1. S \subseteq lots /\ T \subseteq M
        BY DEF OfSymbol
      <4> QED
        BY <2>3, <4>1, FS_Subset
    <3> HIDE DEF S, T
    <3>3. SumIn(LeftFn, S \cup T) = SumIn(LeftFn, S) + SumIn(LeftFn, T)
      BY <3>1, <3>2, LotNumbers, TotalUnion
    <3>4. SharesIn(B, y) = SumIn(LeftFn, S \cup T)
      BY <2>1, <3>1, SharesAreTotal DEF Book
    <3>5. SharesIn(lots, y) = SumIn(LeftFn, S) /\ SharesIn(M, y) = SumIn(LeftFn, T)
      BY <2>3, SharesAreTotal DEF S, T
    <3> QED
      BY <3>3, <3>4, <3>5
  <2> QED
    BY <2>1, <2>4, <2>5
<1>4. /\ BasisOf(B) \in Int /\ BasisOf(lots) \in Int /\ BasisOf(M) \in Int
      /\ \A y : SharesIn(B, y) \in Int /\ SharesIn(lots, y) \in Int /\ SharesIn(M, y) \in Int
  BY <1>2, <1>3, HoldingsAreInts
<1>5. /\ x => /\ Booked' = (Booked + BasisOf(B)) - BasisOf(lots)
              /\ \A y \in Symbols :
                   Entered'[y] = (Entered[y] + SharesIn(B, y)) - SharesIn(lots, y)
      /\ ~x => Booked' = Booked /\ Entered' = Entered
  BY <1>1, <1>3, SetLotsEnters
<1>6. /\ cash \in Int /\ Booked \in Int /\ \A y \in Symbols : Entered[y] \in Int
  BY EntriesAreInts
<1> SUFFICES ASSUME "books" \notin torn
             PROVE  Balanced(IF s = BuySteps THEN Record ELSE Roll, c, k, e, x, cash, B,
                             Booked', Entered')
  BY <1>1 DEF BalancedNext
<1>7. Balanced(s, c, M, e, x, cash, lots, Booked, Entered)
  BY DEF BalancedNow
<1>8. Even(cash, lots, Booked, Entered)
  BY <1>7, LateTodos, BalancedEven
<1>9. CASE s = BuySteps
  <2>1. /\ ~x /\ BasisOf(M) + CashDelta(e) = 0 /\ c = cash
        /\ \A y \in Symbols : SharesIn(M, y) = Shares(y, e)
    BY <1>7, <1>9 DEF Balanced
  <2>2. e \in BuyEntry
    BY <1>9, TypedThread DEF Sound, Fit
  <2>3. Income(e) = 0 /\ CashDelta(e) \in Int
    <3>1. e.kind = "buy" /\ e \in TradeEntry
      BY <2>2 DEF BuyEntry, TradeEntry
    <3> QED
      BY <3>1, DeltaIsInt DEF Income
  <2>4. cash + CashDelta(e) + BasisOf(B) = Booked' + Income(e)
    BY <1>3, <1>4, <1>5, <1>6, <1>8, <2>1, <2>3 DEF Even
  <2>5. \A y \in Symbols : SharesIn(B, y) = Entered'[y] + Shares(y, e)
    BY <1>3, <1>5, <1>8, <2>1 DEF Even
  <2> HIDE DEF B, e, k
  <2>6. Balanced(Record, cash, k, e, x, cash, B, Booked', Entered')
    BY <2>4, <2>5, RecordBalanced
  <2> QED
    BY <1>9, <2>1, <2>6
<1>10. CASE s = ManualSteps
  <2>1. x /\ ManualSteps # BuySteps /\ Roll \in Still
    <3>1. x
      BY <1>7, <1>10 DEF Balanced
    <3>2. ManualSteps # BuySteps
      BY TodosApart
    <3>3. Roll \in Still
      BY DEF Still
    <3> QED
      BY <3>1, <3>2, <3>3
  <2>2. Even(cash, B, Booked', Entered')
    <3>1. /\ Booked' = (Booked + BasisOf(B)) - BasisOf(lots)
          /\ \A y \in Symbols :
               Entered'[y] = (Entered[y] + SharesIn(B, y)) - SharesIn(lots, y)
      BY <1>5, <2>1
    <3>2. cash + BasisOf(lots) = Booked /\ \A y \in Symbols : SharesIn(lots, y) = Entered[y]
      BY <1>8 DEF Even
    <3> HIDE DEF B
    <3>3. cash + BasisOf(B) = Booked'
      BY <1>4, <1>6, <3>1, <3>2
    <3>4. \A y \in Symbols : SharesIn(B, y) = Entered'[y]
      BY <1>4, <1>6, <3>1, <3>2
    <3> QED
      BY <3>3, <3>4 DEF Even
  <2> HIDE DEF B, e, k
  <2>3. Balanced(Roll, c, k, e, x, cash, B, Booked', Entered')
    BY <2>1, <2>2, EvenStill
  <2> QED
    BY <1>10, <2>1, <2>3
<1> QED
  BY <1>9, <1>10

LEMMA ReplaceLotsBalanced ==
  ASSUME TypeInv, NEW a \in Actors, ReplaceLots(a), NEW s \in {Put, ReplaceSteps},
         s = thread[a].todo,
         BalancedNow(s, thread[a].cash, thread[a].lots, thread[a].entry, thread[a].outside)
  PROVE  BalancedNext(IF s = Put THEN Record ELSE Roll, thread[a].cash, {},
                      thread[a].entry, thread[a].outside)
<1> DEFINE t == thread[a]
           c == t.cash
           M == t.lots
           e == t.entry
           x == t.outside
           k == {}
<1>1. /\ lots' = M /\ SetLots(a, M) /\ UNCHANGED <<cash, moves, trades, torn>>
  BY DEF ReplaceLots, SetLots
<1>2. Book(lots) /\ Book(M)
  BY TypedThread DEF TypeInv, Sound, Fit
<1>4. /\ BasisOf(lots) \in Int /\ BasisOf(M) \in Int
      /\ \A y : SharesIn(lots, y) \in Int /\ SharesIn(M, y) \in Int
  BY <1>2, HoldingsAreInts
<1>5. /\ x => /\ Booked' = (Booked + BasisOf(M)) - BasisOf(lots)
              /\ \A y \in Symbols :
                   Entered'[y] = (Entered[y] + SharesIn(M, y)) - SharesIn(lots, y)
      /\ ~x => Booked' = Booked /\ Entered' = Entered
  BY <1>1, <1>2, SetLotsEnters
<1>6. /\ cash \in Int /\ Booked \in Int /\ \A y \in Symbols : Entered[y] \in Int
  BY EntriesAreInts
<1> SUFFICES ASSUME "books" \notin torn
             PROVE  Balanced(IF s = Put THEN Record ELSE Roll, c, k, e, x, cash, M,
                             Booked', Entered')
  BY <1>1 DEF BalancedNext
<1>7. Balanced(s, c, M, e, x, cash, lots, Booked, Entered)
  BY DEF BalancedNow
<1>8. Even(cash, lots, Booked, Entered)
  BY <1>7, LateTodos, BalancedEven
<1>9. CASE s = Put
  <2>1. /\ ~x /\ BasisOf(M) + CashDelta(e) = BasisOf(lots) + Income(e) /\ c = cash
        /\ \A y \in Symbols : SharesIn(M, y) = SharesIn(lots, y) + Shares(y, e)
    BY <1>7, <1>9 DEF Balanced
  <2>2. e \in TradeEntry
    BY <1>9, TypedThread DEF Sound, Fit, TradeEntry
  <2>3. Income(e) \in Int /\ CashDelta(e) \in Int
    BY <2>2, DeltaIsInt, IncomeIsInt
  <2>4. cash + CashDelta(e) + BasisOf(M) = Booked' + Income(e)
    BY <1>4, <1>5, <1>6, <1>8, <2>1, <2>3 DEF Even
  <2>5. \A y \in Symbols : SharesIn(M, y) = Entered'[y] + Shares(y, e)
    BY <1>5, <1>8, <2>1 DEF Even
  <2> HIDE DEF M, e, k
  <2>6. Balanced(Record, cash, k, e, x, cash, M, Booked', Entered')
    BY <2>4, <2>5, RecordBalanced
  <2> QED
    BY <1>9, <2>1, <2>6
<1>10. CASE s = ReplaceSteps
  <2>1. ReplaceSteps # Put /\ Roll \in Still
    BY TodosApart DEF Still
  <2>2. Even(cash, M, Booked', Entered')
    <3>1. CASE x
      BY <1>4, <1>5, <1>6, <1>8, <3>1 DEF Even
    <3>2. CASE ~x
      <4>1. BasisOf(M) = BasisOf(lots) /\ \A y \in Symbols : SharesIn(M, y) = SharesIn(lots, y)
        BY <1>7, <1>10, <3>2 DEF Balanced
      <4> QED
        BY <1>5, <1>8, <3>2, <4>1 DEF Even
    <3> QED
      BY <3>1, <3>2
  <2> HIDE DEF M, e, k
  <2>3. Balanced(Roll, c, k, e, x, cash, M, Booked', Entered')
    BY <2>1, <2>2, EvenStill
  <2> QED
    BY <1>10, <2>1, <2>3
<1> QED
  BY <1>9, <1>10

(* What is owed when the trade is recorded,                                  *)
LEMMA ShiftedRecord ==
  ASSUME NEW c, NEW M, NEW e, NEW x, NEW C, NEW B, NEW D, NEW H,
         Balanced(Record, c, M, e, x, C, B, D, H)
  PROVE  /\ c = C /\ C + CashDelta(e) + BasisOf(B) = D + Income(e)
         /\ \A y \in Symbols : SharesIn(B, y) = H[y] + Shares(y, e)
  BY DEF Balanced

(* and when the cash is written.                                             *)
LEMMA ShiftedPay ==
  ASSUME NEW c, NEW M, NEW e, NEW x, NEW C, NEW B, NEW D, NEW H, NEW s \in {Pay, PayOnly},
         Balanced(s, c, M, e, x, C, B, D, H)
  PROVE  /\ c = C /\ C + CashDelta(e) + BasisOf(B) = D
         /\ \A y \in Symbols : SharesIn(B, y) = H[y]
  BY DEF Balanced

LEMMA AddTradeBalanced ==
  ASSUME TypeInv, NEW a \in Actors, AddTrade(a), thread[a].todo = Record, NEW M, NEW x,
         BalancedNow(Record, thread[a].cash, M, thread[a].entry, x)
  PROVE  BalancedNext(Pay, thread[a].cash, M, thread[a].entry, x)
<1> DEFINE e == thread[a].entry
           c == thread[a].cash
<1>1. /\ trades' = Append(trades, e) /\ UNCHANGED <<lots, cash, moves, outside, torn>>
  BY DEF AddTrade, history
<1>2. e \in TradeEntry
  BY TypedThread DEF Sound, Fit
<1>3. /\ Booked' = Booked + Income(e) /\ Income(e) \in Int
      /\ \A y \in Symbols : Entered'[y] = Entered[y] + Shares(y, e) /\ Shares(y, e) \in Int
  BY <1>1, <1>2, TradeEnters
<1> SUFFICES ASSUME "books" \notin torn
             PROVE  Balanced(Pay, c, M, e, x, cash, lots, Booked', Entered')
  BY <1>1 DEF BalancedNext
<1>4. Balanced(Record, c, M, e, x, cash, lots, Booked, Entered)
  BY DEF BalancedNow
<1> HIDE DEF c, e
<1>5. /\ c = cash /\ cash + CashDelta(e) + BasisOf(lots) = Booked + Income(e)
      /\ \A y \in Symbols : SharesIn(lots, y) = Entered[y] + Shares(y, e)
  BY <1>4, ShiftedRecord
<1>6. cash + CashDelta(e) + BasisOf(lots) = Booked'
      /\ \A y \in Symbols : SharesIn(lots, y) = Entered'[y]
  BY <1>3, <1>5
<1> QED
  BY <1>5, <1>6, PayBalanced

LEMMA AddMoveBalanced ==
  ASSUME TypeInv, NEW a \in Actors, AddCashTransaction(a), thread[a].todo = MoveSteps,
         NEW M, NEW x, BalancedNow(MoveSteps, thread[a].cash, M, thread[a].entry, x)
  PROVE  BalancedNext(PayOnly, thread[a].cash, M, thread[a].entry, x)
<1> DEFINE e == thread[a].entry
           c == thread[a].cash
<1>1. /\ moves' = Append(moves, e) /\ UNCHANGED <<lots, cash, trades, outside, torn>>
  BY DEF AddCashTransaction, history
<1>2. e \in MoveInput
  BY TypedThread DEF Sound, Fit
<1>3. Booked' = Booked + CashDelta(e) /\ CashDelta(e) \in Int /\ Entered' = Entered
  BY <1>1, <1>2, MoveEnters
<1>7. cash \in Int /\ Booked \in Int /\ BasisOf(lots) \in Int
  BY EntriesAreInts, HoldingsAreInts DEF TypeInv
<1> SUFFICES ASSUME "books" \notin torn
             PROVE  Balanced(PayOnly, c, M, e, x, cash, lots, Booked', Entered')
  BY <1>1 DEF BalancedNext
<1>4. Balanced(MoveSteps, c, M, e, x, cash, lots, Booked, Entered)
  BY DEF BalancedNow
<1> HIDE DEF c, e
<1>5. Even(cash, lots, Booked, Entered) /\ c = cash
  <2>1. c = cash
    BY <1>4 DEF Balanced
  <2>2. MoveSteps \notin LateBooks
    BY LateTodos
  <2> QED
    BY <1>4, <2>1, <2>2, BalancedEven
<1>6. cash + CashDelta(e) + BasisOf(lots) = Booked'
      /\ \A y \in Symbols : SharesIn(lots, y) = Entered'[y]
  BY <1>3, <1>5, <1>7 DEF Even
<1> QED
  BY <1>5, <1>6, PayBalanced

LEMMA UpdateCashBalanced ==
  ASSUME TypeInv, NEW a \in Actors, UpdateCash(a), NEW s \in {Pay, PayOnly}, s = thread[a].todo,
         NEW M, NEW x, BalancedNow(s, thread[a].cash, M, thread[a].entry, x)
  PROVE  BalancedNext(IF s = Pay THEN Roll ELSE Snapshot, 0, M, NoEntry, x)
<1> DEFINE e == thread[a].entry
           c == thread[a].cash
           n == NoEntry
           z == 0
           r == IF s = Pay THEN Roll ELSE Snapshot
<1>1. cash' = c + CashDelta(e) /\ UNCHANGED <<lots, moves, trades, outside, torn>>
  BY DEF UpdateCash, history
<1>3. Booked' = Booked /\ Entered' = Entered
  BY <1>1, SameEntries
<1>2. r \in Still
  BY DEF Still
<1> HIDE DEF n, z, r
<1> SUFFICES ASSUME "books" \notin torn
             PROVE  Balanced(r, z, M, n, x, cash', lots, Booked, Entered)
  BY <1>1, <1>3 DEF BalancedNext, n, z, r
<1>4. Balanced(s, c, M, e, x, cash, lots, Booked, Entered)
  BY DEF BalancedNow
<1>5. Even(cash', lots, Booked, Entered)
  BY <1>1, <1>4, ShiftedPay DEF Even
<1> QED
  BY <1>5, <1>2, EvenStill

LEMMA MatchLotsBalanced ==
  ASSUME TypeInv, NEW o \in SellEntry, NEW r, SaleIsRight(lots, o, r), NEW e \in SellEntry,
         e.kind = "sell", e.symbol = o.symbol, e.quantity = o.quantity, e.price = o.price,
         e.fees = o.fees, e.realized = r.realized,
         NEW c, NEW M, NEW x, BalancedNow(SellSteps, c, M, o, x)
  PROVE  BalancedNow(Put, c, r.lots, e, FALSE)
<1>1. /\ BasisOf(r.lots) + (o.quantity * o.price - o.fees) = BasisOf(lots) + r.realized
      /\ \A y : SharesIn(r.lots, y) =
                  IF y = o.symbol THEN SharesIn(lots, y) - o.quantity ELSE SharesIn(lots, y)
  BY DEF SaleIsRight
<1>2. CashDelta(e) = o.quantity * o.price - o.fees /\ Income(e) = r.realized
  BY DEF CashDelta, Income, Inflows, Outflows
<1>3. BasisOf(r.lots) + CashDelta(e) = BasisOf(lots) + Income(e)
  BY <1>1, <1>2
<1>4. o.quantity \in Int /\ \A y : SharesIn(lots, y) \in Int
  BY HoldingsAreInts DEF SellEntry, TypeInv
<1>5. ASSUME NEW y \in Symbols
      PROVE  SharesIn(r.lots, y) = SharesIn(lots, y) + Shares(y, e)
  <2>1. Shares(y, e) = IF y = o.symbol THEN -o.quantity ELSE 0
    BY DEF Shares
  <2> QED
    BY <1>1, <1>4, <2>1
<1> QED
  BY <1>3, <1>5, PutBalanced DEF BalancedNow

-----------------------------------------------------------------------------
(* Every call keeps SerialInv: the calls one by one.                         *)

(* A call after which an operation goes on.                                  *)
LEMMA GoesCall ==
  ASSUME TypeInv, NEW a \in Actors, Alone(a),
         NEW s, NEW c, NEW M, NEW P, NEW e, NEW x, Goes(a, s, c, M, P, e, x),
         TrackedNext(s, P), Backed(s, M, e, x, lots', trades', outside'.removed),
         BalancedNext(s, c, M, e, x), s \notin {Put, ReplaceSteps}
  PROVE  SerialInv'
<1>1. Fifo(s, M, e, lots')
  BY FifoOther
<1>2. Track(s, P, lots', positions', valued', Valuation', torn')
  BY DEF TrackedNext
<1>3. "books" \notin torn' => Balanced(s, c, M, e, x, cash', lots', Booked', Entered')
  BY DEF BalancedNext
<1> QED
  BY <1>1, <1>2, <1>3, GoesAlong

LEMMA AddLotsAlong ==
  ASSUME TypeInv, SerialInv, OneAtATime, NEW a \in Actors, AddLots(a)
  PROVE  SerialInv'
<1> DEFINE t == thread[a]
           s == t.todo
           r == IF s = BuySteps THEN Record ELSE Roll
           k == {}
<1>1. s \in {BuySteps, ManualSteps} /\ Goes(a, r, t.cash, k, t.positions, t.entry, t.outside)
  BY AddLotsGoes, TodosApart
<1>2. s # <<>> /\ r \in {Record, Roll} /\ r \notin {Put, ReplaceSteps}
  BY TodosApart DEF AddLots, At
<1>3. /\ Alone(a) /\ BackedNow(s, t.lots, t.entry, t.outside)
      /\ BalancedNow(s, t.cash, t.lots, t.entry, t.outside)
  BY <1>2, AtCall
<1>4. s = BuySteps => t.entry.kind = "buy"
  BY TypedThread DEF Sound, Fit, BuyEntry
<1>5. BalancedNext(r, t.cash, k, t.entry, t.outside)
  BY <1>1, <1>3, AddLotsBalanced
<1>6. Backed(r, k, t.entry, t.outside, lots', trades', outside'.removed)
  BY <1>1, <1>3, <1>4, BackedAddLots DEF BackedNow
<1> HIDE DEF r, k
<1>7. TrackedNext(r, t.positions)
  BY <1>2, TrackLate DEF TrackedNext
<1> QED
  BY <1>1, <1>2, <1>3, <1>5, <1>6, <1>7, GoesCall

LEMMA ReplaceLotsAlong ==
  ASSUME TypeInv, SerialInv, OneAtATime, NEW a \in Actors, ReplaceLots(a)
  PROVE  SerialInv'
<1> DEFINE t == thread[a]
           s == t.todo
           r == IF s = Put THEN Record ELSE Roll
           k == {}
<1>1. s \in {Put, ReplaceSteps} /\ Goes(a, r, t.cash, k, t.positions, t.entry, t.outside)
  BY ReplaceLotsGoes, TodosApart
<1>2. s # <<>> /\ r \in {Record, Roll} /\ r \notin {Put, ReplaceSteps}
  BY TodosApart DEF ReplaceLots, At
<1>3. /\ Alone(a) /\ BackedNow(s, t.lots, t.entry, t.outside)
      /\ BalancedNow(s, t.cash, t.lots, t.entry, t.outside)
  BY <1>2, AtCall
<1>4. t.outside \in BOOLEAN
  BY TypedThread DEF Threads
<1>5. BalancedNext(r, t.cash, k, t.entry, t.outside)
  BY <1>1, <1>3, ReplaceLotsBalanced
<1>6. Backed(r, k, t.entry, t.outside, lots', trades', outside'.removed)
  BY <1>1, <1>3, <1>4, BackedReplaceLots DEF BackedNow
<1> HIDE DEF r, k
<1>7. TrackedNext(r, t.positions)
  BY <1>2, TrackLate DEF TrackedNext
<1> QED
  BY <1>1, <1>2, <1>3, <1>5, <1>6, <1>7, GoesCall

LEMMA AddTradeAlong ==
  ASSUME TypeInv, SerialInv, OneAtATime, NEW a \in Actors, AddTrade(a)
  PROVE  SerialInv'
<1> DEFINE t == thread[a]
           s == t.todo
<1>1. s = Record /\ Goes(a, Pay, t.cash, t.lots, t.positions, t.entry, t.outside)
  BY AddTradeGoes
<1>2. s # <<>> /\ Pay \notin {Put, ReplaceSteps}
  BY TodosApart DEF AddTrade, At
<1>3. /\ Alone(a) /\ BackedNow(Record, t.lots, t.entry, t.outside)
      /\ BalancedNow(Record, t.cash, t.lots, t.entry, t.outside)
  BY <1>1, <1>2, AtCall
<1>5. BalancedNext(Pay, t.cash, t.lots, t.entry, t.outside)
  BY <1>1, <1>3, AddTradeBalanced
<1>6. Backed(Pay, t.lots, t.entry, t.outside, lots', trades', outside'.removed)
  BY <1>1, <1>3, BackedAddTrade DEF BackedNow
<1>7. TrackedNext(Pay, t.positions)
  BY TrackLate DEF TrackedNext
<1> QED
  BY <1>1, <1>2, <1>3, <1>5, <1>6, <1>7, GoesCall

LEMMA AddMoveAlong ==
  ASSUME TypeInv, SerialInv, OneAtATime, NEW a \in Actors, AddCashTransaction(a)
  PROVE  SerialInv'
<1> DEFINE t == thread[a]
           s == t.todo
<1>1. s = MoveSteps /\ Goes(a, PayOnly, t.cash, t.lots, t.positions, t.entry, t.outside)
  BY AddMoveGoes
<1>2. s # <<>> /\ PayOnly \notin {Put, ReplaceSteps} /\ PayOnly \in Plain
      /\ MoveSteps \notin LatePositions
  BY TodosApart DEF AddCashTransaction, At, Plain, LatePositions
<1>3. /\ Alone(a) /\ Tracked(MoveSteps, t.positions)
      /\ BackedNow(MoveSteps, t.lots, t.entry, t.outside)
      /\ BalancedNow(MoveSteps, t.cash, t.lots, t.entry, t.outside)
  BY <1>1, <1>2, AtCall
<1>4. UNCHANGED <<lots, trades, positions, outside, torn>>
  BY DEF AddCashTransaction, history
<1>5. BalancedNext(PayOnly, t.cash, t.lots, t.entry, t.outside)
  BY <1>1, <1>3, AddMoveBalanced
<1>6. Backed(PayOnly, t.lots, t.entry, t.outside, lots', trades', outside'.removed)
  BY <1>2, <1>3, <1>4, BackedPlain DEF BackedNow
<1>7. ~BothTorn(torn) => positions = Rollup(lots)
  BY <1>2, <1>3, TrackRolled DEF Tracked
<1>8. TrackedNext(PayOnly, t.positions)
  BY <1>4, <1>7, TrackPay DEF TrackedNext
<1> QED
  BY <1>1, <1>2, <1>3, <1>5, <1>6, <1>8, GoesCall

LEMMA UpdateCashAlong ==
  ASSUME TypeInv, SerialInv, OneAtATime, NEW a \in Actors, UpdateCash(a)
  PROVE  SerialInv'
<1> DEFINE t == thread[a]
           s == t.todo
           r == IF s = Pay THEN Roll ELSE Snapshot
           n == NoEntry
           z == 0
<1>1. s \in {Pay, PayOnly} /\ Goes(a, r, z, t.lots, t.positions, n, t.outside)
  BY UpdateCashGoes, TodosApart
<1>2. /\ s # <<>> /\ r \in Plain /\ r \notin {Put, ReplaceSteps}
      /\ PayOnly \notin LatePositions
  <2>1. Roll \in Plain /\ Snapshot \in Plain
    BY DEF Plain
  <2> QED
    BY <2>1, TodosApart DEF UpdateCash, At, LatePositions
<1>3. /\ Alone(a) /\ Tracked(s, t.positions) /\ BackedNow(s, t.lots, t.entry, t.outside)
      /\ BalancedNow(s, t.cash, t.lots, t.entry, t.outside)
  BY <1>2, AtCall
<1>4. UNCHANGED <<lots, trades, positions, outside, torn>>
  BY DEF UpdateCash, history
<1>5. BalancedNext(r, z, t.lots, n, t.outside)
  BY <1>1, <1>3, UpdateCashBalanced
<1> HIDE DEF n, z
<1>6. Backed(r, t.lots, n, t.outside, lots', trades', outside'.removed)
  BY <1>2, <1>3, <1>4, BackedPlain DEF BackedNow
<1>7. s = PayOnly => (~BothTorn(torn) => positions = Rollup(lots))
  BY <1>2, <1>3, TrackRolled DEF Tracked
<1>8. TrackedNext(r, t.positions)
  <2>1. CASE s = Pay
    BY <2>1, TrackLate DEF TrackedNext
  <2>2. CASE s = PayOnly
    <3>1. r = Snapshot
      BY <2>2, TodosApart
    <3>2. TrackedNext(Snapshot, t.positions)
      BY <1>4, <1>7, <2>2, TrackPay DEF TrackedNext
    <3> QED
      BY <3>1, <3>2
  <2> QED
    BY <1>1, <2>1, <2>2
<1> HIDE DEF r
<1> QED
  BY <1>1, <1>2, <1>3, <1>5, <1>6, <1>8, GoesCall

LEMMA MatchLotsAlong ==
  ASSUME TypeInv, SerialInv, OneAtATime, NEW a \in Actors, MatchLots(a)
  PROVE  SerialInv'
<1> DEFINE t == thread[a]
           o == t.entry
           r == ApplyFifoSale(lots, o)
<1>1. t.todo = SellSteps /\ o \in SellEntry /\ SaleIsRight(lots, o, r)
  BY MatchLotsGoes
<1>2. PICK e \in SellEntry :
        /\ Goes(a, Put, t.cash, r.lots, t.positions, e, t.outside)
        /\ e.kind = "sell" /\ e.symbol = o.symbol /\ e.quantity = o.quantity
        /\ e.price = o.price /\ e.fees = o.fees /\ e.ids = r.ids /\ e.realized = r.realized
  BY MatchLotsGoes
<1> HIDE DEF r
<1>3. SellSteps # <<>> /\ SellSteps \in Quiet /\ Put \in Quiet
  BY TodosApart DEF Quiet
<1>4. /\ Alone(a) /\ Tracked(SellSteps, t.positions)
      /\ BackedNow(SellSteps, t.lots, o, t.outside)
      /\ BalancedNow(SellSteps, t.cash, t.lots, o, t.outside)
  BY <1>1, <1>3, AtCall
<1>5. UNCHANGED <<lots, cash, positions, trades, moves, valued, outside, torn>>
  BY DEF MatchLots, books, history
<1>6. Book(lots) /\ OneEach(lots)
  BY DEF TypeInv, Book
<1>7. Valuation' = Valuation /\ Booked' = Booked /\ Entered' = Entered
  BY <1>5, SameValuation, SameEntries
<1>8. Track(Put, t.positions, lots', positions', valued', Valuation', torn')
  BY <1>3, <1>4, <1>5, <1>7, TrackQuiet DEF Tracked
<1>9. t.outside = FALSE
  <2>1. t.outside \in BOOLEAN
    BY TypedThread DEF Threads
  <2> QED
    BY <1>4, <2>1 DEF BackedNow, Backed
<1>10. Backed(Put, r.lots, e, FALSE, lots', trades', outside'.removed)
  BY <1>1, <1>2, <1>4, <1>5, <1>6, BackedPut DEF BackedNow
<1>11. "books" \notin torn' =>
         Balanced(Put, t.cash, r.lots, e, FALSE, cash', lots', Booked', Entered')
  <2>1. BalancedNow(Put, t.cash, r.lots, e, FALSE)
    BY <1>1, <1>2, <1>4, MatchLotsBalanced
  <2> QED
    BY <1>5, <1>7, <2>1 DEF BalancedNow
<1>12. Fifo(Put, r.lots, e, lots')
  <2>1. \A l \in OfSymbol(lots, o.symbol) :
          \E k \in r.lots : k.id = l.id /\ k.left = l.left - Taken(lots, o, l)
    BY <1>1 DEF SaleIsRight
  <2>2. \A l : Taken(lots, e, l) = Taken(lots, o, l)
    BY <1>2 DEF Taken
  <2>3. Put # ReplaceSteps
    BY TodosApart
  <2> QED
    BY <1>2, <1>5, <2>1, <2>2, <2>3 DEF Fifo
<1> QED
  BY <1>2, <1>4, <1>8, <1>9, <1>10, <1>11, <1>12, GoesAlong

(* Calls and stops that leave the books as they are.                         *)
LEMMA StillCall ==
  ASSUME TypeInv, NEW a \in Actors, Alone(a), UNCHANGED <<lots, cash, trades, moves, outside>>,
         NEW s \in Still, NEW c, NEW M, NEW P, NEW e, NEW x,
         Goes(a, s, c, M, P, e, x), TrackedNext(s, P),
         NEW s0, NEW M0, NEW e0, NEW x0, BackedNow(s0, M0, e0, x0),
         "books" \notin torn' => Even(cash, lots, Booked, Entered)
  PROVE  SerialInv'
<1>1. s \in Plain /\ s \notin {Put, ReplaceSteps}
  <2>1. s \in Plain
    BY DEF Still, Plain
  <2> QED
    BY <2>1, StillTodos
<1>2. Booked' = Booked /\ Entered' = Entered
  BY SameEntries
<1>3. Backed(s, M, e, x, lots, trades, outside.removed)
  BY <1>1, BackedPlain DEF BackedNow
<1>4. Backed(s, M, e, x, lots', trades', outside'.removed)
  BY <1>3
<1>5. BalancedNext(s, c, M, e, x)
  BY <1>2, EvenStill DEF BalancedNext
<1> QED
  BY <1>1, <1>4, <1>5, GoesCall

LEMMA RefuseSaleAlong ==
  ASSUME TypeInv, SerialInv, OneAtATime, NEW a \in Actors, RefuseSale(a)
  PROVE  SerialInv'
<1> DEFINE t == thread[a]
           n == NoEntry
           z == 0
           k == {}
           u == <<>>
<1>1. t.todo = SellSteps /\ Goes(a, u, z, k, k, n, FALSE)
  <2>1. t.todo \in Todos /\ t.todo # <<>> /\ Head(t.todo) = "match_lots"
    BY TypedThread DEF RefuseSale, At
  <2>2. t.todo = SellSteps
    BY <2>1, Chart
  <2>3. thread' = [thread EXCEPT ![a] = Idle]
    BY DEF RefuseSale
  <2> QED
    BY <2>2, <2>3, StopGoes
<1>2. SellSteps # <<>> /\ SellSteps \in Quiet /\ u \in Quiet /\ u \in Plain /\ u \in Still
      /\ u \notin {Put, ReplaceSteps} /\ SellSteps \notin LateBooks
  <2>1. SellSteps \notin LateBooks
    BY LateTodos
  <2> QED
    BY <2>1, TodosApart DEF Quiet, Plain, Still
<1>3. /\ Alone(a) /\ Tracked(SellSteps, t.positions)
      /\ BackedNow(SellSteps, t.lots, t.entry, t.outside) /\ EvenNow
  BY <1>1, <1>2, AtCall
<1>4. UNCHANGED <<lots, cash, positions, trades, moves, valued, outside, torn>>
  BY DEF RefuseSale, books, history
<1>5. TrackedNext(u, k)
  <2>1. Valuation' = Valuation
    BY <1>4, SameValuation
  <2> HIDE DEF n, z, k, u
  <2> QED
    BY <2>1, <1>2, <1>3, <1>4, TrackQuiet DEF Tracked, TrackedNext
<1>6. "books" \notin torn' => Even(cash, lots, Booked, Entered)
  BY <1>3, <1>4 DEF EvenNow
<1> HIDE DEF n, z, k, u
<1> QED
  BY <1>1, <1>2, <1>3, <1>4, <1>5, <1>6, StillCall

LEMMA RebuildCallAlong ==
  ASSUME TypeInv, SerialInv, OneAtATime, NEW a \in Actors, Rebuild(a)
  PROVE  SerialInv'
<1> DEFINE t == thread[a]
           s == t.todo
           r == IF s = Roll THEN Write ELSE WriteOnly
<1>1. s \in {Roll, RebuildSteps}
      /\ Goes(a, r, t.cash, t.lots, Rollup(lots), t.entry, t.outside)
  BY RebuildGoes, TodosApart
<1>2. s # <<>> /\ r \in Still /\ s \notin LateBooks
  <2>1. Write \in Still /\ WriteOnly \in Still /\ s \in Still
    BY <1>1 DEF Still
  <2> QED
    BY <2>1, LateTodos DEF Rebuild, At
<1>3. /\ Alone(a) /\ Tracked(s, t.positions) /\ BackedNow(s, t.lots, t.entry, t.outside)
      /\ EvenNow
  BY <1>2, AtCall
<1>4. UNCHANGED <<lots, cash, trades, moves, outside>> /\ torn' = torn \ {"positions"}
  BY DEF Rebuild, books
<1>5. TrackedNext(r, Rollup(lots))
  BY <1>1, <1>3, RebuildTracks DEF Tracked
<1>6. "books" \notin torn' => Even(cash, lots, Booked, Entered)
  BY <1>3, <1>4 DEF EvenNow
<1> HIDE DEF r
<1> QED
  BY <1>1, <1>2, <1>3, <1>4, <1>5, <1>6, StillCall

LEMMA UpdatePositionsAlong ==
  ASSUME TypeInv, SerialInv, OneAtATime, NEW a \in Actors, UpdatePositions(a)
  PROVE  SerialInv'
<1> DEFINE t == thread[a]
           s == t.todo
           n == NoEntry
           z == 0
           k == {}
           u == <<>>
<1>1. \/ s = Write /\ Goes(a, Snapshot, t.cash, t.lots, k, t.entry, t.outside)
      \/ s = WriteOnly /\ Goes(a, u, z, k, k, n, FALSE)
  BY UpdatePositionsGoes
<1>2. s # <<>> /\ Snapshot \in Still /\ u \in Still /\ s \notin LateBooks /\ Write # WriteOnly
  <2>1. Snapshot \in Still /\ u \in Still /\ s \in Still
    BY <1>1 DEF Still
  <2> QED
    BY <2>1, LateTodos, TodosApart DEF UpdatePositions, At
<1>3. /\ Alone(a) /\ Tracked(s, t.positions) /\ BackedNow(s, t.lots, t.entry, t.outside)
      /\ EvenNow
  BY <1>2, AtCall
<1>4. UNCHANGED <<lots, cash, trades, moves, outside, torn>>
  BY DEF UpdatePositions, history
<1>5. TrackedNext(IF s = Write THEN Snapshot ELSE u, k)
  BY <1>1, <1>3, UpdateTracks DEF Tracked
<1>6. "books" \notin torn' => Even(cash, lots, Booked, Entered)
  BY <1>3, <1>4 DEF EvenNow
<1> HIDE DEF n, z, k, u
<1>7. CASE s = Write
  BY <1>1, <1>2, <1>3, <1>4, <1>5, <1>6, <1>7, StillCall
<1>8. CASE s = WriteOnly
  BY <1>1, <1>2, <1>3, <1>4, <1>5, <1>6, <1>8, StillCall
<1> QED
  BY <1>1, <1>7, <1>8

LEMMA SnapshotAlong ==
  ASSUME TypeInv, SerialInv, OneAtATime, NEW a \in Actors, CreateValuationSnapshot(a)
  PROVE  SerialInv'
<1> DEFINE t == thread[a]
           n == NoEntry
           z == 0
           k == {}
           u == <<>>
<1>1. t.todo = Snapshot /\ Goes(a, u, z, k, k, n, FALSE)
  BY SnapshotGoes
<1>2. t.todo # <<>> /\ u \in Still /\ Snapshot \notin LateBooks
  <2>1. Snapshot \in Still /\ u \in Still
    BY DEF Still
  <2> QED
    BY <2>1, LateTodos DEF CreateValuationSnapshot, At
<1>3. /\ Alone(a) /\ Tracked(Snapshot, t.positions)
      /\ BackedNow(Snapshot, t.lots, t.entry, t.outside) /\ EvenNow
  BY <1>1, <1>2, AtCall
<1>4. /\ UNCHANGED <<lots, cash, trades, moves, outside>>
      /\ torn' = torn \/ torn' = torn \ {"valuation"}
  BY DEF CreateValuationSnapshot
<1>5. TrackedNext(u, k)
  BY <1>3, SnapshotTracks DEF Tracked
<1>6. "books" \notin torn' => Even(cash, lots, Booked, Entered)
  BY <1>3, <1>4 DEF EvenNow
<1> HIDE DEF n, z, k, u
<1> QED
  BY <1>1, <1>2, <1>3, <1>4, <1>5, <1>6, StillCall

LEMMA CrashAlong ==
  ASSUME TypeInv, SerialInv, OneAtATime, NEW a \in Actors, Crash(a)
  PROVE  SerialInv'
<1> DEFINE t == thread[a]
           s == t.todo
           n == NoEntry
           z == 0
           k == {}
           u == <<>>
<1>1. s # <<>> /\ Goes(a, u, z, k, k, n, FALSE)
  BY StopGoes DEF Crash
<1>2. u \in Still
  BY DEF Still
<1>3. /\ Alone(a) /\ Tracked(s, t.positions) /\ BackedNow(s, t.lots, t.entry, t.outside)
      /\ s \notin LateBooks => EvenNow
  BY <1>1, AtCall
<1>4. /\ UNCHANGED <<lots, cash, trades, moves, outside>>
      /\ torn' = torn \cup {y \in DOMAIN Closing : Owes(t, y)}
  BY DEF Crash, books
<1>5. TrackedNext(u, k)
  BY <1>3, CrashTracks DEF Tracked
<1>6. s \in LateBooks => "books" \in torn'
  <2>1. "books" \in DOMAIN Closing
    BY DEF Closing
  <2>2. s \in LateBooks => Owes(t, "books")
    BY <1>1, TypedThread, Owing DEF LateBooks
  <2> QED
    BY <1>4, <2>1, <2>2
<1>7. "books" \notin torn' => Even(cash, lots, Booked, Entered)
  BY <1>3, <1>4, <1>6 DEF EvenNow
<1> HIDE DEF n, z, k, u
<1> QED
  BY <1>1, <1>2, <1>3, <1>4, <1>5, <1>7, StillCall

-----------------------------------------------------------------------------
(* Every step keeps SerialInv.                                               *)

LEMMA CallAlong ==
  ASSUME TypeInv, SerialInv, OneAtATime, NEW a \in Actors, Step(a) \/ Crash(a)
  PROVE  SerialInv'
  BY AddLotsAlong, MatchLotsAlong, RefuseSaleAlong, ReplaceLotsAlong, AddTradeAlong, AddMoveAlong,
     UpdateCashAlong, RebuildCallAlong, UpdatePositionsAlong, SnapshotAlong, CrashAlong DEF Step

(* Nothing changes.                                                          *)
LEMMA SameAlong ==
  ASSUME SerialInv, UNCHANGED vars
  PROVE  SerialInv'
<1>1. UNCHANGED <<lots, cash, positions, trades, moves, valued, thread, outside, torn>>
  BY DEF vars
<1>2. Valuation' = Valuation /\ Booked' = Booked /\ Entered' = Entered
  BY <1>1, SameValuation, SameEntries
<1> QED
  BY <1>1, <1>2 DEF SerialInv, Along, Alone

LEMMA NextAlong ==
  ASSUME TypeInv, SerialInv, OneAtATime, OneAtATime', [Next]_vars
  PROVE  SerialInv'
  BY RequestAlong, JobAlong, CallAlong, SameAlong DEF Next

(* Nothing adds up to nothing.                                               *)
LEMMA NothingYet ==
  /\ Deltas(<<>>) = 0 /\ Gains(<<>>) = 0 /\ \A y : Counts(y, <<>>) = 0
  /\ SumOver(<<>>, ExternalFlow) = 0 /\ MapThenSumSet(LAMBDA p : p.value, {}) = 0
  /\ BasisOf({}) = 0 /\ \A y : SharesIn({}, y) = 0
<1> DEFINE n == <<>>
           k == {}
<1>1. n \in Seq(MoveInput) /\ n \in Seq(TradeEntry) /\ Len(n) = 0
  OBVIOUS
<1>2. Deltas(n) = 0
  <2>1. Numbers(DeltaOf(n), 1 .. Len(n))
    BY <1>1 DEF Numbers
  <2> HIDE DEF n
  <2>2. PICK F : Runs(0, DeltaOf(n), F) /\ Deltas(n) = F[0]
    BY <1>1, <2>1, DeltaRuns
  <2> QED
    BY <2>2 DEF Runs
<1>3. Gains(n) = 0
  <2>1. Numbers(GainOf(n), 1 .. Len(n))
    BY <1>1 DEF Numbers
  <2> HIDE DEF n
  <2>2. PICK F : Runs(0, GainOf(n), F) /\ Gains(n) = F[0]
    BY <1>1, <2>1, GainRuns
  <2> QED
    BY <2>2 DEF Runs
<1>4. ASSUME NEW y PROVE Counts(y, n) = 0
  <2>1. Numbers(CountOf(y, n), 1 .. Len(n))
    BY <1>1 DEF Numbers
  <2> HIDE DEF n
  <2>2. PICK F : Runs(0, CountOf(y, n), F) /\ Counts(y, n) = F[0]
    BY <1>1, <2>1, CountRuns
  <2> QED
    BY <2>2 DEF Runs
<1>5. Book(k) /\ IsFiniteSet(k) /\ k \in SUBSET Held /\ \A y : OfSymbol(k, y) = k
  BY EmptyBook DEF Book, OfSymbol
<1>6. Numbers(CostFn, k) /\ Numbers(LeftFn, k) /\ IsFiniteSet(k)
  BY <1>5 DEF Numbers
<1>7. SumIn(CostFn, k) = 0 /\ SumIn(LeftFn, k) = 0
  BY <1>6, TotalStep
<1>8. BasisOf(k) = 0
  <2> HIDE DEF k
  <2> QED
    BY <1>5, <1>7, BasisIsTotal
<1>9. ASSUME NEW y PROVE SharesIn(k, y) = 0
  <2> HIDE DEF k
  <2> QED
    BY <1>5, <1>7, SharesAreTotal
<1>10. SumOver(n, ExternalFlow) = 0
  <2> DEFINE C(g) == g = [r \in SUBSET (1 .. 0) |-> IF r = {} THEN 0 ELSE
                            g[r \ {Max(r)}] + ExternalFlow(n[Max(r)])]
             it == CHOOSE g : C(g)
  <2>1. SumOver(n, ExternalFlow) = it[1 .. 0]
    BY DEF SumOver, FoldLeft, MapThenFoldSet
  <2>2. \A r \in SUBSET (1 .. 0) : r = {}
    OBVIOUS
  <2>3. C([r \in SUBSET (1 .. 0) |-> 0])
    BY <2>2
  <2>4. C(it)
    BY <2>3
  <2>5. it[1 .. 0] = 0
    <3> HIDE DEF it
    <3> QED
      BY <2>2, <2>4
  <2> QED
    BY <2>1, <2>5
<1>11. MapThenSumSet(LAMBDA p : p.value, {}) = 0
  BY DEF MapThenSumSet, MapThenFoldSet
<1> QED
  BY <1>2, <1>3, <1>4, <1>8, <1>9, <1>10, <1>11

(* At the start the books are empty.                                         *)
LEMMA InitAlong ==
  ASSUME Init
  PROVE  SerialInv
<1> DEFINE n == NoEntry
           z == 0
           k == {}
           u == <<>>
           h == [s \in Symbols |-> 0]
<1>1. /\ lots = k /\ cash = 0 /\ positions = k /\ trades = u /\ moves = u /\ torn = k
      /\ valued = [cash |-> 0, value |-> 0, contributed |-> 0]
      /\ outside = [basis |-> 0, shares |-> h, removed |-> k]
      /\ \A a \in Actors : thread[a] = Idle
  BY DEF Init
<1>2. /\ u \in Still
      /\ u \notin {BuySteps, SellSteps, MoveSteps, ManualSteps, ReplaceSteps, Put, Record,
                   Pay, PayOnly, RebuildSteps, Write, WriteOnly}
  BY TodosApart DEF Still
<1>3. Valuation = valued
  BY <1>1, NothingYet DEF Valuation
<1>4. Tracked(u, k)
  <2>1. positions = Rollup(lots)
    BY <1>1, EmptyBook
  <2> HIDE DEF u
  <2> QED
    BY <1>2, <1>3, <2>1 DEF Tracked, Track
<1>5. BackedNow(u, k, n, FALSE)
  <2>1. DOMAIN trades = {}
    BY <1>1
  <2> HIDE DEF u, n, k
  <2> QED
    BY <1>2, <2>1 DEF BackedNow, Backed
<1>6. Even(cash, lots, Booked, Entered)
  <2>1. Booked = 0
    BY <1>1, BookedNow, NothingYet DEF Ledger
  <2>2. \A y \in Symbols : Entered[y] = 0
    BY <1>1, EnteredNow, NothingYet DEF Sides
  <2>3. BasisOf(lots) = 0 /\ \A y : SharesIn(lots, y) = 0
    BY <1>1, NothingYet
  <2> HIDE DEF u, k, h
  <2> QED
    BY <1>1, <2>1, <2>2, <2>3 DEF Even
<1>7. Balanced(u, z, k, n, FALSE, cash, lots, Booked, Entered)
  <2> HIDE DEF u, z, k, n
  <2> QED
    BY <1>2, <1>6, EvenStill
<1>8. Fifo(u, k, n, lots)
  <2> HIDE DEF u, k, n
  <2> QED
    BY <1>2, FifoOther
<1>9. Along(u, z, k, k, n, FALSE)
  BY <1>4, <1>5, <1>7, <1>8 DEF Along, Tracked, BackedNow
<1>10. \A a \in Actors : LET t == thread[a]
                         IN  /\ t.todo = u /\ t.cash = z /\ t.lots = k /\ t.positions = k
                             /\ t.entry = n /\ t.outside = FALSE
  BY <1>1, IdleThread
<1>11. (\A a \in Actors : thread[a].todo = u) => Along(u, z, k, k, n, FALSE)
  BY <1>9
<1>12. ASSUME NEW a \in Actors
       PROVE  LET t == thread[a]
              IN  Along(t.todo, t.cash, t.lots, t.positions, t.entry, t.outside)
  <2> HIDE DEF u, z, k, n
  <2> QED
    BY <1>9, <1>10
<1> QED
  BY <1>11, <1>12 DEF SerialInv

(* SerialInv holds as long as operations do not overlap.                     *)
LEMMA SerialInvHolds == Spec /\ []OneAtATime => []SerialInv
<1>1. Spec => []TypeInv
  BY TypeInvHolds
<1> QED
  BY <1>1, InitAlong, NextAlong, PTL DEF Spec

-----------------------------------------------------------------------------
(* What SerialInv says to an observer.                                       *)

(* What the invariant says when no operation owes the positions, the         *)
(* valuation or the books anything.                                          *)
LEMMA SomeTodo ==
  ASSUME TypeInv, SerialInv, OneAtATime
  PROVE  \E s \in Todos : \E c, M, P, e, x :
           /\ Along(s, c, M, P, e, x)
           /\ \/ s = <<>>
              \/ \E a \in Actors : thread[a].todo = s
           /\ Settled("positions") => "positions" \notin torn /\ s \notin LatePositions
           /\ Settled("valuation") => "valuation" \notin torn /\ s \notin LateValuation
           /\ Settled("books") => "books" \notin torn /\ s \notin LateBooks
<1>1. CASE \A a \in Actors : thread[a].todo = <<>>
  <2> DEFINE u == <<>>
             n == NoEntry
             z == 0
             k == {}
  <2>1. Along(u, z, k, k, n, FALSE)
    BY <1>1 DEF SerialInv
  <2>2. u \in Todos /\ u \notin LatePositions /\ u \notin LateValuation /\ u \notin LateBooks
    BY TodosApart DEF Todos, LatePositions, LateValuation, LateBooks
  <2>3. u = <<>>
    OBVIOUS
  <2> HIDE DEF u, n, z, k
  <2> QED
    BY <2>1, <2>2, <2>3 DEF Settled
<1>2. CASE \E a \in Actors : thread[a].todo # <<>>
  <2>1. PICK a \in Actors : thread[a].todo # <<>>
    BY <1>2
  <2> DEFINE t == thread[a]
  <2>2. Alone(a)
    BY <2>1, AloneNow
  <2>3. Along(t.todo, t.cash, t.lots, t.positions, t.entry, t.outside)
    BY <2>2 DEF SerialInv
  <2>4. t.todo \in Todos
    BY TypedThread
  <2>5. /\ Settled("positions") => "positions" \notin torn /\ t.todo \notin LatePositions
        /\ Settled("valuation") => "valuation" \notin torn /\ t.todo \notin LateValuation
        /\ Settled("books") => "books" \notin torn /\ t.todo \notin LateBooks
    BY <2>4, Owing DEF Settled, LatePositions, LateValuation, LateBooks
  <2> HIDE DEF t
  <2>6. \E b \in Actors : thread[b].todo = t.todo
    BY DEF t
  <2> QED
    BY <2>3, <2>4, <2>5, <2>6
<1> QED
  BY <1>1, <1>2

LEMMA PositionsThen ==
  ASSUME TypeInv, SerialInv, OneAtATime
  PROVE  PositionsFollowLots
<1> SUFFICES ASSUME Settled("positions")
             PROVE  positions = Rollup(lots)
  BY DEF PositionsFollowLots
<1>1. PICK s, c, M, P, e, x : Along(s, c, M, P, e, x) /\ "positions" \notin torn
                              /\ s \notin LatePositions
  BY SomeTodo
<1> QED
  BY <1>1 DEF Along, Track, BothTorn

LEMMA ValuationThen ==
  ASSUME TypeInv, SerialInv, OneAtATime
  PROVE  ValuationIsCurrent
<1> SUFFICES ASSUME Settled("positions"), Settled("valuation")
             PROVE  valued = Valuation
  BY DEF ValuationIsCurrent
<1>1. PICK s, c, M, P, e, x : Along(s, c, M, P, e, x) /\ "valuation" \notin torn
                              /\ s \notin LateValuation
  BY SomeTodo
<1> QED
  BY <1>1 DEF Along, Track

LEMMA BooksThen ==
  ASSUME TypeInv, SerialInv, OneAtATime
  PROVE  BooksBalance
<1> SUFFICES ASSUME Settled("books")
             PROVE  /\ cash + BasisOf(lots) = SumOver(moves, CashDelta) + SumOver(trades, Income)
                                                + outside.basis
                    /\ \A y \in Symbols :
                         SharesIn(lots, y) = SumOver(trades, LAMBDA t : Shares(y, t))
                                               + outside.shares[y]
  BY DEF BooksBalance
<1>1. PICK s, c, M, P, e, x : Along(s, c, M, P, e, x) /\ "books" \notin torn
                              /\ s \notin LateBooks
  BY SomeTodo
<1>2. Even(cash, lots, Booked, Entered)
  BY <1>1, BalancedEven DEF Along
<1>3. cash + BasisOf(lots) = Booked /\ \A y \in Symbols : SharesIn(lots, y) = Entered[y]
  BY <1>2 DEF Even
<1> QED
  BY <1>3 DEF Booked, Entered

LEMMA TradesThen ==
  ASSUME TypeInv, SerialInv, OneAtATime
  PROVE  TradesAreBacked
<1>1. PICK s, c, M, P, e, x : Along(s, c, M, P, e, x)
  BY SomeTodo
<1>2. \A n \in DOMAIN trades : Backs(trades[n], lots, outside.removed)
  BY <1>1 DEF Along, Backed
<1> QED
  BY <1>2 DEF TradesAreBacked, Backs

LEMMA SalesThen ==
  ASSUME TypeInv, SerialInv, OneAtATime
  PROVE  SalesAreFifo
<1> SUFFICES ASSUME NEW a \in Actors, At(a, "replace_lots"), thread[a].entry.kind = "sell",
                    NEW l \in OfSymbol(lots, thread[a].entry.symbol)
             PROVE  \E k \in thread[a].lots :
                      k.id = l.id /\ k.left = l.left - Taken(lots, thread[a].entry, l)
  BY DEF SalesAreFifo, Taken, Older
<1> DEFINE t == thread[a]
           n == NoEntry
<1>1. t.todo \in Todos /\ t.todo # <<>> /\ Head(t.todo) = "replace_lots"
  BY TypedThread DEF At
<1>2. t.todo \in {Put, ReplaceSteps}
  BY <1>1, Chart
<1>3. Alone(a)
  BY <1>1, AloneNow
<1>4. Along(t.todo, t.cash, t.lots, t.positions, t.entry, t.outside)
  BY <1>3 DEF SerialInv
<1>5. Fifo(t.todo, t.lots, t.entry, lots)
  BY <1>4 DEF Along
<1>6. n.kind # "sell"
  BY DEF NoEntry
<1> HIDE DEF n
<1>7. t.todo # ReplaceSteps
  BY <1>5, <1>6 DEF Fifo, n
<1> QED
  BY <1>2, <1>5, <1>7 DEF Fifo

(* As long as operations do not overlap, the positions are the rollup of the *)
(* lots whenever no operation owes them (portfolio_tasks.py:403 rebuilds     *)
(* them after every change), stopped operations included.                    *)
THEOREM PositionsFollow == Spec /\ []OneAtATime => []PositionsFollowLots
  BY TypeInvHolds, SerialInvHolds, PositionsThen, PTL

(* As long as operations do not overlap, the last valuation snapshot is the  *)
(* value of the cash, the positions and the contributions whenever no        *)
(* operation owes one.                                                       *)
THEOREM ValuationCurrent == Spec /\ []OneAtATime => []ValuationIsCurrent
  BY TypeInvHolds, SerialInvHolds, ValuationThen, PTL

(* As long as operations do not overlap, cash and cost basis of the lots add *)
(* up to the cash entries, the realised gains of the trades and what was     *)
(* entered by hand, and for every symbol the shares in lots to the shares    *)
(* traded and entered by hand.                                               *)
THEOREM BooksBalanced == Spec /\ []OneAtATime => []BooksBalance
  BY TypeInvHolds, SerialInvHolds, BooksThen, PTL

(* As long as operations do not overlap, the lots that a trade names are     *)
(* there unless they were removed by hand, and those a sale names lost       *)
(* shares.                                                                   *)
THEOREM TradesBacked == Spec /\ []OneAtATime => []TradesAreBacked
  BY TypeInvHolds, SerialInvHolds, TradesThen, PTL

(* As long as operations do not overlap, a sale about to write its lots      *)
(* takes from every lot exactly what first in, first out takes.              *)
THEOREM SalesFifo == Spec /\ []OneAtATime => []SalesAreFifo
  BY TypeInvHolds, SerialInvHolds, SalesThen, PTL
=============================================================================
