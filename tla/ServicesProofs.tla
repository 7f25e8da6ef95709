----------------------------- MODULE ServicesProofs -----------------------------
(***************************************************************************)
(* Proofs about what the services compute: BrokerCsv (an uploaded export   *)
(* and the lots it becomes), PortfolioAnalysis (optimisation, trades and   *)
(* reweighting) and BondStrategies (recommended and analysed bonds), for   *)
(* any files, portfolios, quotes and requests that the assumptions of      *)
(* these modules admit. First what holds of the fractions they count in.   *)
(***************************************************************************)
EXTENDS BrokerCsv, PortfolioAnalysis, BondStrategies, FoldTheorems, SequenceTheorems

-----------------------------------------------------------------------------
(* Fractions: quotients and remainders, and the greatest common divisor.     *)

Natural1 == Nat \ {0}

(* Division leaves a remainder below the divisor.                            *)
LEMMA Division ==
  ASSUME NEW a \in Int, NEW b \in Natural1
  PROVE  /\ a \div b \in Int /\ a % b \in 0 .. (b - 1)
         /\ a = b * (a \div b) + (a % b)
         /\ a \in Nat => a \div b \in Nat
  BY DEF Natural1

(* ... and quotient and remainder are determined by that.                    *)
LEMMA DivisionUnique ==
  ASSUME NEW a \in Int, NEW b \in Natural1, NEW q \in Int, NEW r \in 0 .. (b - 1), a = b * q + r
  PROVE  a \div b = q /\ a % b = r
<1> DEFINE d == a \div b
           m == a % b
<1>1. d \in Int /\ m \in 0 .. (b - 1) /\ a = b * d + m
  BY Division
<1> HIDE DEF d, m
<1>2. b * (d - q) = r - m
  BY <1>1 DEF Natural1
<1>3. CASE d - q >= 1
  <2>1. b * (d - q) >= b * 1
    BY <1>1, <1>3 DEF Natural1
  <2> QED
    BY <1>1, <1>2, <2>1 DEF Natural1
<1>4. CASE d - q <= -1
  <2>1. b * (d - q) <= b * (-1)
    BY <1>1, <1>4 DEF Natural1
  <2> QED
    BY <1>1, <1>2, <2>1 DEF Natural1
<1>5. CASE d = q
  BY <1>1, <1>5 DEF Natural1, d, m
<1> QED
  BY <1>1, <1>3, <1>4, <1>5

-----------------------------------------------------------------------------
Rule(h, p) == IF p[2] = 0 THEN p[1] ELSE h[<<p[2], p[1] % p[2]>>]
UpTo(n) == Nat \X (0 .. n)
Follows(h, n) == h \in [UpTo(n) -> Nat] /\ \A p \in UpTo(n) : h[p] = Rule(h, p)

(* A step of the rule that computes it makes the second number smaller.      *)
LEMMA RuleDescends ==
  ASSUME NEW n \in Nat, NEW p \in UpTo(n), p[2] # 0
  PROVE  <<p[2], p[1] % p[2]>> \in UpTo(n) /\ p[1] % p[2] < p[2] /\ n # 0
         /\ <<p[2], p[1] % p[2]>> \in UpTo(n - 1)
<1>1. p[1] \in Nat /\ p[2] \in Natural1 /\ p[2] <= n
  BY DEF UpTo, Natural1
<1>2. p[1] % p[2] \in 0 .. (p[2] - 1)
  BY <1>1, Division
<1> QED
  BY <1>1, <1>2 DEF UpTo, Natural1

(* Below any bound some function follows that rule,                          *)
LEMMA FollowerExists ==
  ASSUME NEW n \in Nat
  PROVE  \E h : Follows(h, n)
<1> DEFINE N == {k \in Nat : \E h : Follows(h, k)}
<1>1. 0 \in N
  <2> DEFINE h == [p \in UpTo(0) |-> p[1]]
  <2>1. \A p \in UpTo(0) : p[1] \in Nat /\ p[2] = 0
    BY DEF UpTo
  <2>2. Follows(h, 0)
    BY <2>1 DEF Follows, Rule
  <2> QED
    BY <2>2
<1>2. ASSUME NEW k \in N
      PROVE  k + 1 \in N
  <2>0. k \in Nat /\ k + 1 \in Nat /\ (k + 1) - 1 = k
    OBVIOUS
  <2>1. PICK g : Follows(g, k)
    OBVIOUS
  <2> DEFINE h == [p \in UpTo(k + 1) |-> Rule(g, p)]
  <2>2. ASSUME NEW p \in UpTo(k + 1), p[2] # 0
        PROVE  <<p[2], p[1] % p[2]>> \in UpTo(k) /\ <<p[2], p[1] % p[2]>> \in UpTo(k + 1)
    BY <2>0, <2>2, RuleDescends
  <2>3. \A p \in UpTo(k + 1) : Rule(g, p) \in Nat
    <3>1. \A p \in UpTo(k + 1) : p[1] \in Nat
      BY DEF UpTo
    <3> QED
      BY <2>1, <2>2, <3>1 DEF Follows, Rule
  <2>4. h \in [UpTo(k + 1) -> Nat]
    BY <2>3
  <2>5. ASSUME NEW p \in UpTo(k)
        PROVE  p \in UpTo(k + 1) /\ h[p] = g[p]
    <3>1. p \in UpTo(k + 1)
      BY <2>0 DEF UpTo
    <3> QED
      BY <2>1, <3>1 DEF Follows
  <2>6. \A p \in UpTo(k + 1) : h[p] = Rule(h, p)
    BY <2>2, <2>5 DEF Rule
  <2> HIDE DEF h
  <2>7. Follows(h, k + 1)
    BY <2>4, <2>6 DEF Follows
  <2> QED
    BY <2>0, <2>7
<1>3. N = Nat
  <2> HIDE DEF N
  <2>1. N \in SUBSET Nat
    BY DEF N
  <2> QED
    BY <1>1, <1>2, <2>1, Counting
<1> QED
  BY <1>3

(* and two of them agree wherever both are defined.                          *)
LEMMA FollowersAgree ==
  ASSUME NEW n \in Nat, NEW m \in Nat, NEW g, NEW h, Follows(g, n), Follows(h, m),
         NEW p \in UpTo(n), p \in UpTo(m)
  PROVE  g[p] = h[p]
<1> DEFINE N == {k \in Nat : \A q \in UpTo(k) : q \in UpTo(n) /\ q \in UpTo(m) => g[q] = h[q]}
<1>1. 0 \in N
  <2>1. ASSUME NEW q \in UpTo(0), q \in UpTo(n), q \in UpTo(m)
        PROVE  g[q] = h[q]
    <3>1. q[2] = 0
      BY DEF UpTo
    <3> QED
      BY <2>1, <3>1 DEF Follows, Rule
  <2> QED
    BY <2>1
<1>2. ASSUME NEW k \in N
      PROVE  k + 1 \in N
  <2>1. ASSUME NEW q \in UpTo(k + 1), q \in UpTo(n), q \in UpTo(m)
        PROVE  g[q] = h[q]
    <3>0. k \in Nat /\ k + 1 \in Nat /\ (k + 1) - 1 = k
      OBVIOUS
    <3>1. CASE q[2] = 0
      BY <2>1, <3>1 DEF Follows, Rule
    <3>2. CASE q[2] # 0
      <4> DEFINE r == <<q[2], q[1] % q[2]>>
      <4>1. r \in UpTo(k) /\ r \in UpTo(n) /\ r \in UpTo(m)
        BY <2>1, <3>0, <3>2, RuleDescends
      <4>2. g[r] = h[r]
        BY <4>1
      <4> QED
        BY <2>1, <3>2, <4>2 DEF Follows, Rule
    <3> QED
      BY <3>1, <3>2
  <2> QED
    BY <2>1
<1>3. N = Nat
  <2> HIDE DEF N
  <2>1. N \in SUBSET Nat
    BY DEF N
  <2> QED
    BY <1>1, <1>2, <2>1, Counting
<1> QED
  BY <1>3

(* Euclid's recursion: GreatestDivisor is the function the definition says.  *)
LEMMA Euclid ==
  /\ GreatestDivisor \in [Nat \X Nat -> Nat]
  /\ \A p \in Nat \X Nat : GreatestDivisor[p] = Rule(GreatestDivisor, p)
<1> DEFINE F(n) == CHOOSE h : Follows(h, n)
           g == [p \in Nat \X Nat |-> F(p[2])[p]]
<1>1. \A n \in Nat : Follows(F(n), n)
  BY FollowerExists
<1>2. ASSUME NEW p \in Nat \X Nat
      PROVE  g[p] \in Nat /\ g[p] = Rule(g, p)
  <2>1. p[2] \in Nat /\ p \in UpTo(p[2])
    BY DEF UpTo
  <2>2. Follows(F(p[2]), p[2])
    BY <1>1, <2>1
  <2> HIDE DEF F
  <2>3. g[p] = F(p[2])[p] /\ g[p] \in Nat /\ g[p] = Rule(F(p[2]), p)
    BY <2>1, <2>2 DEF Follows
  <2>4. CASE p[2] = 0
    BY <2>3, <2>4 DEF Rule
  <2>5. CASE p[2] # 0
    <3> DEFINE r == <<p[2], p[1] % p[2]>>
    <3>1. r \in UpTo(p[2])
      BY <2>1, <2>5, RuleDescends
    <3>2. r \in Nat \X Nat /\ r[2] \in Nat /\ r \in UpTo(r[2])
      BY <3>1 DEF UpTo
    <3>3. g[r] = F(r[2])[r] /\ Follows(F(r[2]), r[2])
      BY <1>1, <3>2
    <3> HIDE DEF r, g
    <3>4. F(r[2])[r] = F(p[2])[r]
      BY <2>1, <2>2, <3>1, <3>2, <3>3, FollowersAgree
    <3> QED
      BY <2>3, <2>5, <3>3, <3>4 DEF Rule, r
  <2> QED
    BY <2>3, <2>4, <2>5
<1>3. g = [p \in Nat \X Nat |-> IF p[2] = 0 THEN p[1] ELSE g[<<p[2], p[1] % p[2]>>]]
  BY <1>2 DEF Rule
<1>4. GreatestDivisor = [p \in Nat \X Nat |->
         IF p[2] = 0 THEN p[1] ELSE GreatestDivisor[<<p[2], p[1] % p[2]>>]]
  <2> HIDE DEF g
  <2> QED
    BY <1>3 DEF GreatestDivisor
<1> HIDE DEF g
<1>5. \A p \in Nat \X Nat : GreatestDivisor[p] = Rule(GreatestDivisor, p)
  BY <1>4 DEF Rule
<1>6. \A n \in Nat : \A p \in UpTo(n) : GreatestDivisor[p] \in Nat
  <2> DEFINE N == {n \in Nat : \A p \in UpTo(n) : GreatestDivisor[p] \in Nat}
  <2>1. 0 \in N
    <3>1. \A p \in UpTo(0) : p \in Nat \X Nat /\ p[1] \in Nat /\ p[2] = 0
      BY DEF UpTo
    <3> QED
      BY <1>5, <3>1 DEF Rule
  <2>2. ASSUME NEW k \in N
        PROVE  k + 1 \in N
    <3>1. ASSUME NEW p \in UpTo(k + 1)
          PROVE  GreatestDivisor[p] \in Nat
      <4>0. k \in Nat /\ k + 1 \in Nat /\ (k + 1) - 1 = k /\ p \in Nat \X Nat /\ p[1] \in Nat
        BY DEF UpTo
      <4>1. p[2] # 0 => <<p[2], p[1] % p[2]>> \in UpTo(k)
        BY <4>0, RuleDescends
      <4> QED
        BY <1>5, <4>0, <4>1 DEF Rule
    <3> QED
      BY <3>1
  <2>3. N = Nat
    <3> HIDE DEF N
    <3>1. N \in SUBSET Nat
      BY DEF N
    <3> QED
      BY <2>1, <2>2, <3>1, Counting
  <2> QED
    BY <2>3
<1>7. ASSUME NEW p \in Nat \X Nat
      PROVE  GreatestDivisor[p] \in Nat
  <2>1. p[2] \in Nat /\ p \in UpTo(p[2])
    BY DEF UpTo
  <2> QED
    BY <1>6, <2>1
<1> QED
  BY <1>4, <1>5, <1>7

(* A positive factor can be cancelled.                                       *)
LEMMA Cancel ==
  ASSUME NEW a \in Int, NEW b \in Int, NEW c \in Natural1
  PROVE  /\ a * c = b * c => a = b
         /\ a * c < b * c <=> a < b
         /\ a * c <= b * c <=> a <= b
<1>0. c \in Int /\ c > 0
  BY DEF Natural1
<1>1. a < b => a * c < b * c
  BY <1>0
<1>2. b < a => b * c < a * c
  BY <1>0
<1> QED
  BY <1>0, <1>1, <1>2

(* The greatest divisor divides both numbers, and is 0 only of 0 and 0.      *)
Multiple(a, g) == \E x \in Nat : a = x * g

(* GreatestDivisor is a number that divides both, 0 only for two zeros.      *)
LEMMA DivisorDivides ==
  ASSUME NEW a \in Nat, NEW b \in Nat
  PROVE  LET g == GreatestDivisor[<<a, b>>]
         IN  /\ g \in Nat /\ Multiple(a, g) /\ Multiple(b, g)
             /\ a # 0 \/ b # 0 => g # 0
<1> DEFINE G(p) == GreatestDivisor[p]
           Good(p) == Multiple(p[1], G(p)) /\ Multiple(p[2], G(p)) /\ (p[1] # 0 \/ p[2] # 0 => G(p) # 0)
           N == {n \in Nat : \A p \in UpTo(n) : Good(p)}
<1>0. \A p \in Nat \X Nat : G(p) \in Nat /\ G(p) = Rule(GreatestDivisor, p)
  BY Euclid
<1> HIDE DEF G
<1>1. ASSUME NEW p \in Nat \X Nat, p[2] = 0
      PROVE  Good(p)
  <2>1. G(p) = p[1] /\ p[1] \in Nat
    BY <1>0, <1>1 DEF Rule
  <2>2. p[1] = 1 * p[1] /\ p[2] = 0 * p[1]
    BY <1>1, <2>1
  <2> QED
    BY <1>1, <2>1, <2>2 DEF Multiple
<1>2. 0 \in N
  <2>1. \A p \in UpTo(0) : p \in Nat \X Nat /\ p[2] = 0
    BY DEF UpTo
  <2> HIDE DEF Good
  <2> QED
    BY <1>1, <2>1
<1>3. ASSUME NEW k \in N
      PROVE  k + 1 \in N
  <2>1. ASSUME NEW p \in UpTo(k + 1)
        PROVE  Good(p)
    <3>0. k \in Nat /\ k + 1 \in Nat /\ (k + 1) - 1 = k /\ p \in Nat \X Nat
      BY DEF UpTo
    <3>1. CASE p[2] = 0
      BY <1>1, <3>0, <3>1
    <3>2. CASE p[2] # 0
      <4> DEFINE c == p[1]
                 d == p[2]
                 q == c \div d
                 r == c % d
      <4>1. c \in Nat /\ d \in Natural1 /\ q \in Nat /\ r \in Nat /\ c = d * q + r
        <5>1. c \in Nat /\ d \in Natural1
          BY <3>0, <3>2 DEF Natural1
        <5> HIDE DEF c, d
        <5>2. /\ c \div d \in Int /\ c % d \in 0 .. (d - 1)
              /\ c = d * (c \div d) + (c % d) /\ c \div d \in Nat
          BY <5>1, Division
        <5> DEFINE u == c \div d
                   v == c % d
        <5>3. u \in Nat /\ v \in 0 .. (d - 1) /\ c = d * u + v
          BY <5>2
        <5> HIDE DEF u, v
        <5>4. v \in Nat
          BY <5>1, <5>3 DEF Natural1
        <5> QED
          BY <5>1, <5>3, <5>4 DEF u, v
      <4>2. <<d, r>> \in UpTo(k)
        BY <3>0, <3>2, RuleDescends
      <4>3. G(p) = GreatestDivisor[<<d, r>>]
        BY <1>0, <3>0, <3>2 DEF Rule, G
      <4>4. Good(<<d, r>>) /\ G(<<d, r>>) = G(p) /\ G(p) \in Nat
        BY <1>0, <3>0, <4>2, <4>3 DEF G
      <4> DEFINE g == G(p)
      <4> HIDE DEF c, d, q, r, g
      <4>5. PICK x \in Nat, y \in Nat : d = x * g /\ r = y * g
        BY <4>4 DEF Multiple, g
      <4>6. c = (x * q + y) * g
        <5>1. g \in Nat
          BY <4>4 DEF g
        <5>2. (x * g) * q + y * g = (x * q + y) * g
          BY <4>1, <5>1
        <5> QED
          BY <4>1, <4>5, <5>2
      <4>7. x * q + y \in Nat
        BY <4>1
      <4>8. g # 0
        BY <4>1, <4>4 DEF Natural1, g
      <4>9. Multiple(c, g) /\ Multiple(d, g)
        BY <4>5, <4>6, <4>7 DEF Multiple
      <4> QED
        BY <4>8, <4>9 DEF c, d, g
    <3> QED
      BY <3>1, <3>2
  <2> HIDE DEF Good
  <2> QED
    BY <2>1
<1>4. N = Nat
  <2> HIDE DEF N
  <2>1. N \in SUBSET Nat
    BY DEF N
  <2> QED
    BY <1>2, <1>3, <2>1, Counting
<1>5. <<a, b>> \in UpTo(b) /\ <<a, b>> \in Nat \X Nat
  BY DEF UpTo
<1>6. Good(<<a, b>>)
  <2> HIDE DEF Good
  <2> QED
    BY <1>4, <1>5
<1> QED
  BY <1>0, <1>5, <1>6 DEF G

(* It is multiplied with them.                                               *)
LEMMA DivisorScales ==
  ASSUME NEW k \in Natural1, NEW a \in Nat, NEW b \in Nat
  PROVE  GreatestDivisor[<<k * a, k * b>>] = k * GreatestDivisor[<<a, b>>]
<1> DEFINE Good(p) == GreatestDivisor[<<k * p[1], k * p[2]>>] = k * GreatestDivisor[p]
           N == {n \in Nat : \A p \in UpTo(n) : Good(p)}
<1>0. \A p \in Nat \X Nat : GreatestDivisor[p] = Rule(GreatestDivisor, p)
  BY Euclid
<1>1. ASSUME NEW p \in Nat \X Nat
      PROVE  k * p[1] \in Nat /\ k * p[2] \in Nat /\ (k * p[2] = 0 <=> p[2] = 0)
             /\ <<k * p[1], k * p[2]>> \in Nat \X Nat
  <2>1. p[1] \in Nat /\ p[2] \in Nat
    OBVIOUS
  <2>2. \A x \in Nat : k * x \in Nat /\ (k * x = 0 <=> x = 0)
    BY DEF Natural1
  <2> QED
    BY <2>1, <2>2
<1>2. ASSUME NEW p \in Nat \X Nat, p[2] = 0
      PROVE  Good(p)
  <2>1. GreatestDivisor[p] = p[1]
    BY <1>0, <1>2 DEF Rule
  <2>2. GreatestDivisor[<<k * p[1], k * p[2]>>] = k * p[1]
    BY <1>0, <1>1, <1>2 DEF Rule
  <2> QED
    BY <2>1, <2>2
<1>3. 0 \in N
  <2>1. \A p \in UpTo(0) : p \in Nat \X Nat /\ p[2] = 0
    BY DEF UpTo
  <2> HIDE DEF Good
  <2> QED
    BY <1>2, <2>1
<1>4. ASSUME NEW n \in N
      PROVE  n + 1 \in N
  <2>1. ASSUME NEW p \in UpTo(n + 1)
        PROVE  Good(p)
    <3>0. n \in Nat /\ n + 1 \in Nat /\ (n + 1) - 1 = n /\ p \in Nat \X Nat
      BY DEF UpTo
    <3>1. CASE p[2] = 0
      BY <1>2, <3>0, <3>1
    <3>2. CASE p[2] # 0
      <4> DEFINE c == p[1]
                 d == p[2]
                 q == c \div d
                 r == c % d
      <4>1. c \in Nat /\ d \in Natural1 /\ q \in Nat /\ r \in 0 .. (d - 1) /\ c = d * q + r
        <5>1. c \in Nat /\ d \in Natural1
          BY <3>0, <3>2 DEF Natural1
        <5> HIDE DEF c, d
        <5>2. /\ c \div d \in Int /\ c % d \in 0 .. (d - 1)
              /\ c = d * (c \div d) + (c % d) /\ c \div d \in Nat
          BY <5>1, Division
        <5> DEFINE u == c \div d
                   v == c % d
        <5>3. u \in Nat /\ v \in 0 .. (d - 1) /\ c = d * u + v
          BY <5>2
        <5> HIDE DEF u, v
        <5>4. v \in Nat
          BY <5>1, <5>3 DEF Natural1
        <5> QED
          BY <5>1, <5>3, <5>4 DEF u, v
      <4>2. <<d, r>> \in UpTo(n)
        BY <3>0, <3>2, RuleDescends
      <4>3. GreatestDivisor[p] = GreatestDivisor[<<d, r>>]
        BY <1>0, <3>0, <3>2 DEF Rule
      <4>4. GreatestDivisor[<<k * c, k * d>>] = GreatestDivisor[<<k * d, (k * c) % (k * d)>>]
        <5>1. <<k * c, k * d>> \in Nat \X Nat /\ k * d # 0
          BY <1>1, <3>0, <3>2
        <5> QED
          BY <1>0, <5>1 DEF Rule
      <4>5. Good(<<d, r>>)
        BY <4>2
      <4>6. GreatestDivisor[<<k * d, k * r>>] = k * GreatestDivisor[<<d, r>>]
        BY <4>5
      <4>7. (k * c) % (k * d) = k * r
        <5> HIDE DEF c, d, q, r
        <5>1. k * d \in Natural1 /\ k * c \in Int
          BY <4>1 DEF Natural1
        <5>2. k * r \in 0 .. (k * d - 1)
          <6>1. r + 1 <= d /\ r >= 0 /\ k > 0 /\ r \in Int /\ d \in Int /\ k \in Int
            BY <4>1 DEF Natural1
          <6>2. k * (r + 1) <= k * d /\ k * r >= 0
            BY <6>1
          <6>3. k * (r + 1) = k * r + k
            BY <6>1
          <6> QED
            BY <6>1, <6>2, <6>3
        <5>3. k * c = (k * d) * q + k * r
          <6>1. k * (d * q + r) = (k * d) * q + k * r
            BY <4>1 DEF Natural1
          <6> QED
            BY <4>1, <6>1
        <5> QED
          BY <4>1, <5>1, <5>2, <5>3, DivisionUnique
      <4> QED
        BY <4>3, <4>4, <4>6, <4>7
    <3> QED
      BY <3>1, <3>2
  <2> HIDE DEF Good
  <2> QED
    BY <2>1
<1>5. N = Nat
  <2> HIDE DEF N
  <2>1. N \in SUBSET Nat
    BY DEF N
  <2> QED
    BY <1>3, <1>4, <2>1, Counting
<1>6. <<a, b>> \in UpTo(b)
  BY DEF UpTo
<1>7. Good(<<a, b>>)
  <2> HIDE DEF Good
  <2> QED
    BY <1>5, <1>6
<1> QED
  BY <1>7

-----------------------------------------------------------------------------
(* Fractions.                                                                *)
Pairs == Int \X Natural1
Size(n) == IF n < 0 THEN -n ELSE n

(* A fraction in lowest terms is the pair it was made of, divided.           *)
LEMMA FractionReduces ==
  ASSUME NEW n \in Int, NEW d \in Natural1
  PROVE  /\ Fraction(n, d) \in Pairs
         /\ \E g \in Natural1 : /\ g = GreatestDivisor[<<Size(n), d>>]
                                /\ n = Fraction(n, d)[1] * g /\ d = Fraction(n, d)[2] * g
<1> DEFINE g == GreatestDivisor[<<Size(n), d>>]
<1>1. Size(n) \in Nat /\ d \in Nat /\ d # 0
  BY DEF Size, Natural1
<1>2. g \in Natural1 /\ Multiple(Size(n), g) /\ Multiple(d, g)
  <2> DEFINE s == Size(n)
  <2> HIDE DEF s
  <2>1. s \in Nat
    BY <1>1 DEF s
  <2>2. LET h == GreatestDivisor[<<s, d>>]
        IN h \in Nat /\ Multiple(s, h) /\ Multiple(d, h) /\ (s # 0 \/ d # 0 => h # 0)
    BY <1>1, <2>1, DivisorDivides
  <2> QED
    BY <1>1, <2>2 DEF Natural1, s
<1>3. Fraction(n, d) = <<n \div g, d \div g>>
  BY DEF Fraction, Size
<1> HIDE DEF g
<1>4. PICK x \in Nat, y \in Nat : Size(n) = x * g /\ d = y * g
  BY <1>2 DEF Multiple
<1>5. d \div g = y /\ y \in Natural1
  <2>1. d = g * y + 0 /\ 0 \in 0 .. (g - 1) /\ g \in Int
    BY <1>2, <1>4 DEF Natural1
  <2>2. d \div g = y
    BY <1>1, <1>2, <1>4, <2>1, DivisionUnique
  <2>3. y # 0
    BY <1>1, <1>2, <1>4 DEF Natural1
  <2> QED
    BY <2>2, <2>3 DEF Natural1
<1>6. PICK z \in Int : n = z * g
  <2>1. CASE n < 0
    <3>1. n = (-x) * g /\ -x \in Int
      BY <1>2, <1>4, <2>1 DEF Size, Natural1
    <3> QED
      BY <3>1
  <2>2. CASE ~(n < 0)
    BY <1>4, <2>2 DEF Size
  <2> QED
    BY <2>1, <2>2
<1>7. n \div g = z
  <2>1. n = g * z + 0 /\ 0 \in 0 .. (g - 1) /\ g \in Int
    BY <1>2, <1>6 DEF Natural1
  <2> QED
    BY <1>2, <2>1, DivisionUnique
<1> QED
  <2>1. Fraction(n, d) = <<z, y>> /\ n = z * g /\ d = y * g
    BY <1>3, <1>4, <1>5, <1>6, <1>7
  <2>2. <<z, y>> \in Pairs
    BY <1>5 DEF Pairs
  <2> QED
    BY <1>2, <2>1, <2>2 DEF g

(* Numerator and denominator can be multiplied by the same number.           *)
LEMMA FractionScales ==
  ASSUME NEW n \in Int, NEW d \in Natural1, NEW k \in Natural1
  PROVE  Fraction(k * n, k * d) = Fraction(n, d)
<1> DEFINE g == GreatestDivisor[<<Size(n), d>>]
           f == Fraction(n, d)
<1>1. g \in Natural1 /\ f \in Pairs /\ n = f[1] * g /\ d = f[2] * g
  BY FractionReduces
<1>2. k * d \in Natural1 /\ k * n \in Int /\ Size(k * n) = k * Size(n) /\ Size(n) \in Nat /\ d \in Nat
  BY DEF Natural1, Size
<1>3. GreatestDivisor[<<Size(k * n), k * d>>] = k * g
  <2> DEFINE a == Size(n)
  <2>1. a \in Nat /\ d \in Nat /\ Size(k * n) = k * a
    BY <1>2
  <2> HIDE DEF a, f
  <2>2. GreatestDivisor[<<k * a, k * d>>] = k * GreatestDivisor[<<a, d>>]
    BY <2>1, DivisorScales
  <2> QED
    BY <2>1, <2>2 DEF a
<1>4. Fraction(k * n, k * d) = <<(k * n) \div (k * g), (k * d) \div (k * g)>>
  <2>1. Fraction(k * n, k * d)
          = LET h == GreatestDivisor[<<Size(k * n), k * d>>] IN <<(k * n) \div h, (k * d) \div h>>
    BY DEF Fraction, Size
  <2> QED
    BY <1>3, <2>1
<1> HIDE DEF g, f
<1>5. k * g \in Natural1 /\ 0 \in 0 .. (k * g - 1)
  BY <1>1 DEF Natural1
<1>6. k * n = (k * g) * f[1] + 0 /\ k * d = (k * g) * f[2] + 0
  <2>1. f[1] \in Int /\ f[2] \in Int /\ g \in Int /\ k \in Int
    BY <1>1 DEF Pairs, Natural1
  <2>2. k * (f[1] * g) = (k * g) * f[1] /\ k * (f[2] * g) = (k * g) * f[2]
    BY <2>1
  <2>3. (k * g) * f[1] \in Int /\ (k * g) * f[2] \in Int
    BY <2>1
  <2> QED
    BY <1>1, <2>2, <2>3
<1>7. f[1] \in Int /\ f[2] \in Int /\ k * d \in Int /\ f = <<f[1], f[2]>>
  BY <1>1, <1>2 DEF Pairs, Natural1
<1>8. (k * n) \div (k * g) = f[1]
  BY <1>2, <1>5, <1>6, <1>7, DivisionUnique
<1>9. (k * d) \div (k * g) = f[2]
  BY <1>5, <1>6, <1>7, DivisionUnique
<1> QED
  BY <1>4, <1>7, <1>8, <1>9 DEF f

(* Pairs of the same value are the same fraction.                            *)
LEMMA FractionSame ==
  ASSUME NEW n \in Int, NEW d \in Natural1, NEW m \in Int, NEW e \in Natural1, n * e = m * d
  PROVE  Fraction(n, d) = Fraction(m, e)
<1>1. Fraction(e * n, e * d) = Fraction(n, d)
  BY FractionScales
<1>2. Fraction(d * m, d * e) = Fraction(m, e)
  BY FractionScales
<1>3. e * n = d * m /\ e * d = d * e
  BY DEF Natural1
<1> QED
  BY <1>1, <1>2, <1>3

-----------------------------------------------------------------------------
(* Fractions: what a pair stands for.                                        *)

(* f is the number n / d, whatever its own denominator.                      *)
Stands(f, n, d) == f \in Pairs /\ n \in Int /\ d \in Natural1 /\ f[1] * d = n * f[2]

(* A pair is its own value, and has one numerator for a denominator.         *)
LEMMA StandsItself ==
  ASSUME NEW n \in Int, NEW d \in Natural1
  PROVE  Stands(<<n, d>>, n, d)
  BY DEF Stands, Pairs

(* Over one denominator a fraction has one numerator.                        *)
LEMMA StandsOnce ==
  ASSUME NEW f, NEW n, NEW m, NEW d, Stands(f, n, d), Stands(f, m, d)
  PROVE  n = m
<1>1. n * f[2] = m * f[2] /\ f[2] \in Natural1 /\ n \in Int /\ m \in Int
  BY DEF Stands, Pairs
<1> QED
  BY <1>1, Cancel

(* Numerator and denominator may be multiplied by a factor,                  *)
LEMMA StandsScaledUp ==
  ASSUME NEW f, NEW n, NEW d, Stands(f, n, d), NEW k \in Natural1
  PROVE  Stands(f, n * k, d * k)
<1>1. f[1] \in Int /\ f[2] \in Int /\ n \in Int /\ d \in Int /\ k \in Int /\ f[1] * d = n * f[2]
  BY DEF Stands, Pairs, Natural1
<1>2. f[1] * (d * k) = (f[1] * d) * k /\ (n * k) * f[2] = (n * f[2]) * k
  BY <1>1
<1>3. d * k \in Natural1 /\ n * k \in Int
  BY <1>1 DEF Stands, Natural1
<1> QED
  BY <1>1, <1>2, <1>3 DEF Stands

(* and divided by a common one.                                              *)
LEMMA StandsScaledDown ==
  ASSUME NEW f, NEW n \in Int, NEW d \in Natural1, NEW k \in Natural1, Stands(f, n * k, d * k)
  PROVE  Stands(f, n, d)
<1>1. f[1] \in Int /\ f[2] \in Int /\ n \in Int /\ d \in Int /\ k \in Int
      /\ f[1] * (d * k) = (n * k) * f[2]
  BY DEF Stands, Pairs, Natural1
<1>2. f[1] * (d * k) = (f[1] * d) * k /\ (n * k) * f[2] = (n * f[2]) * k
  BY <1>1
<1>3. f[1] * d = n * f[2]
  <2> DEFINE a == f[1] * d
             b == n * f[2]
  <2>1. a \in Int /\ b \in Int /\ a * k = b * k
    BY <1>1, <1>2
  <2> HIDE DEF a, b
  <2>2. a = b
    BY <2>1, Cancel
  <2> QED
    BY <2>2 DEF a, b
<1> QED
  BY <1>3 DEF Stands

(* What stands for the same numbers as a fraction is that fraction.          *)
LEMMA StandsMove ==
  ASSUME NEW f, NEW n, NEW d, Stands(f, n, d), NEW m \in Int, NEW e \in Natural1, n * e = m * d
  PROVE  Stands(f, m, e)
<1>1. f[1] \in Int /\ f[2] \in Int /\ n \in Int /\ d \in Natural1 /\ d \in Int /\ e \in Int
      /\ f[1] * d = n * f[2]
  BY DEF Stands, Pairs, Natural1
<1>2. (f[1] * e) * d = (f[1] * d) * e /\ (n * f[2]) * e = (n * e) * f[2]
      /\ (m * d) * f[2] = (m * f[2]) * d
  BY <1>1
<1>3. (f[1] * e) * d = (m * f[2]) * d
  BY <1>1, <1>2
<1>4. f[1] * e = m * f[2]
  <2> DEFINE a == f[1] * e
             b == m * f[2]
  <2>1. a \in Int /\ b \in Int /\ a * d = b * d
    BY <1>1, <1>3
  <2> HIDE DEF a, b
  <2>2. a = b
    BY <1>1, <2>1, Cancel
  <2> QED
    BY <2>2 DEF a, b
<1> QED
  BY <1>4 DEF Stands

(* Fraction brings to lowest terms and changes no value.                     *)
LEMMA FractionStands ==
  ASSUME NEW n \in Int, NEW d \in Natural1
  PROVE  /\ Stands(Fraction(n, d), n, d)
         /\ IsFraction(Fraction(n, d))
<1> DEFINE f == Fraction(n, d)
<1>1. PICK g \in Natural1 : f \in Pairs /\ n = f[1] * g /\ d = f[2] * g
  BY FractionReduces
<1> HIDE DEF f
<1>2. f[1] \in Int /\ f[2] \in Natural1 /\ f[2] \in Int /\ g \in Int
  BY <1>1 DEF Pairs, Natural1
<1>3. f[1] * (f[2] * g) = (f[1] * g) * f[2]
  BY <1>2
<1>4. Stands(f, n, d)
  BY <1>1, <1>3 DEF Stands
<1>5. Fraction(f[1], f[2]) = f
  <2>1. Fraction(g * f[1], g * f[2]) = Fraction(f[1], f[2])
    BY <1>1, <1>2, FractionScales
  <2>2. g * f[1] = n /\ g * f[2] = d
    BY <1>1, <1>2
  <2> QED
    BY <2>1, <2>2 DEF f
<1> QED
  BY <1>1, <1>4, <1>5 DEF IsFraction, Pairs, Natural1, f

(* Of one value there is one pair in lowest terms.                           *)
LEMMA StandsEqual ==
  ASSUME NEW f, NEW g, IsFraction(f), IsFraction(g), NEW n, NEW d, Stands(f, n, d), Stands(g, n, d)
  PROVE  f = g
<1>1. f[1] \in Int /\ f[2] \in Natural1 /\ g[1] \in Int /\ g[2] \in Natural1 /\ n \in Int /\ d \in Natural1
      /\ f[1] * d = n * f[2] /\ g[1] * d = n * g[2]
  BY DEF Stands, Pairs
<1>2. Fraction(f[1], f[2]) = Fraction(n, d)
  BY <1>1, FractionSame
<1>3. Fraction(g[1], g[2]) = Fraction(n, d)
  BY <1>1, FractionSame
<1> QED
  BY <1>2, <1>3 DEF IsFraction

(* A whole number over any denominator.                                      *)
LEMMA WholeStands ==
  ASSUME NEW k \in Int, NEW d \in Natural1
  PROVE  Stands(Whole(k), k * d, d) /\ IsFraction(Whole(k))
<1>1. Stands(Whole(k), k * d, d)
  BY DEF Stands, Whole, Pairs, Natural1
<1>2. IsFraction(Whole(k))
  <2>1. 1 \in Natural1
    BY DEF Natural1
  <2>2. Stands(Fraction(k, 1), k, 1)
    BY <2>1, FractionStands
  <2>3. PICK g \in Natural1 : Fraction(k, 1) \in Pairs /\ k = Fraction(k, 1)[1] * g /\ 1 = Fraction(k, 1)[2] * g
    BY <2>1, FractionReduces
  <2> DEFINE f == Fraction(k, 1)
  <2>4. f \in Pairs /\ k = f[1] * g /\ 1 = f[2] * g
    BY <2>3
  <2> HIDE DEF f
  <2>5. f[2] \in Natural1 /\ f[1] \in Int
    BY <2>4 DEF Pairs
  <2>6. \A x \in Natural1, y \in Natural1 : x * y = 1 => x = 1 /\ y = 1
    <3> SUFFICES ASSUME NEW x \in Natural1, NEW y \in Natural1, x * y = 1
                 PROVE  x = 1 /\ y = 1
      OBVIOUS
    <3>1. x \in Int /\ y \in Int /\ x >= 1 /\ y >= 1
      BY DEF Natural1
    <3>2. x * y >= x * 1 /\ x * y >= 1 * y
      BY <3>1
    <3> QED
      BY <3>1, <3>2
  <2>7. f[2] = 1 /\ g = 1
    BY <2>4, <2>5, <2>6
  <2>8. f[1] = k
    BY <2>4, <2>5, <2>7
  <2>9. f = <<k, 1>>
    BY <2>4, <2>7, <2>8 DEF Pairs
  <2>10. Whole(k) \in Int \X (Nat \ {0})
    BY DEF Whole
  <2> QED
    BY <2>9, <2>10 DEF IsFraction, Whole, f
<1> QED
  BY <1>1, <1>2

(* Plus adds the numerators over a common denominator,                       *)
LEMMA PlusStands ==
  ASSUME NEW f, NEW g, NEW n, NEW m, NEW d, Stands(f, n, d), Stands(g, m, d)
  PROVE  Stands(Plus(f, g), n + m, d) /\ IsFraction(Plus(f, g))
<1> DEFINE a == f[1] * g[2] + g[1] * f[2]
           b == f[2] * g[2]
<1>1. f[1] \in Int /\ f[2] \in Natural1 /\ g[1] \in Int /\ g[2] \in Natural1 /\ n \in Int /\ m \in Int
      /\ f[2] \in Int /\ g[2] \in Int /\ d \in Int
      /\ d \in Natural1 /\ f[1] * d = n * f[2] /\ g[1] * d = m * g[2]
  BY DEF Stands, Pairs, Natural1
<1>2. a \in Int /\ b \in Natural1
  BY <1>1 DEF Natural1
<1>3. a * d = (n + m) * b
  <2>1. a * d = (f[1] * d) * g[2] + (g[1] * d) * f[2]
    BY <1>1
  <2>2. (n * f[2]) * g[2] + (m * g[2]) * f[2] = (n + m) * b
    BY <1>1
  <2> QED
    BY <1>1, <2>1, <2>2
<1>4. Plus(f, g) = Fraction(a, b)
  BY DEF Plus
<1> HIDE DEF a, b
<1>5. Stands(Fraction(a, b), a, b) /\ IsFraction(Fraction(a, b))
  BY <1>2, FractionStands
<1>6. n + m \in Int
  BY <1>1
<1> QED
  BY <1>1, <1>3, <1>4, <1>5, <1>6, StandsMove

(* Minus subtracts them,                                                     *)
LEMMA MinusStands ==
  ASSUME NEW f, NEW g, NEW n, NEW m, NEW d, Stands(f, n, d), Stands(g, m, d)
  PROVE  Stands(Minus(f, g), n - m, d) /\ IsFraction(Minus(f, g))
<1> DEFINE h == <<-g[1], g[2]>>
<1>1. Stands(h, -m, d)
  <2>1. g[1] \in Int /\ g[2] \in Int /\ m \in Int /\ d \in Int /\ g[1] * d = m * g[2]
    BY DEF Stands, Pairs, Natural1
  <2>2. (-g[1]) * d = -(g[1] * d) /\ (-m) * g[2] = -(m * g[2])
    BY <2>1
  <2> QED
    BY <2>1, <2>2 DEF Stands, Pairs
<1>2. Minus(f, g) = Plus(f, h)
  BY DEF Minus
<1>3. n + (-m) = n - m
  BY DEF Stands
<1> HIDE DEF h
<1>4. Stands(Plus(f, h), n + (-m), d) /\ IsFraction(Plus(f, h))
  BY <1>1, PlusStands
<1> QED
  BY <1>2, <1>3, <1>4

(* Scaled multiplies by k and divides by e.                                  *)
LEMMA ScaledStands ==
  ASSUME NEW f, NEW n, NEW d, Stands(f, n, d), NEW k \in Int, NEW e \in Natural1
  PROVE  Stands(Scaled(f, k, e), n * k, d * e) /\ IsFraction(Scaled(f, k, e))
<1>1. f[1] \in Int /\ f[2] \in Natural1 /\ n \in Int /\ d \in Natural1 /\ f[2] \in Int /\ d \in Int
      /\ e \in Int /\ f[1] * d = n * f[2]
  BY DEF Stands, Pairs, Natural1
<1> DEFINE a == f[1] * k
           b == f[2] * e
<1>2. a \in Int /\ b \in Natural1 /\ d * e \in Natural1 /\ n * k \in Int
  BY <1>1 DEF Natural1
<1>3. a * (d * e) = (n * k) * b
  <2>1. a * (d * e) = (f[1] * d) * (k * e) /\ (n * k) * b = (n * f[2]) * (k * e)
    BY <1>1
  <2> QED
    BY <1>1, <2>1
<1>4. Scaled(f, k, e) = Fraction(a, b)
  BY DEF Scaled
<1> HIDE DEF a, b
<1>5. Stands(Fraction(a, b), a, b) /\ IsFraction(Fraction(a, b))
  BY <1>2, FractionStands
<1> QED
  BY <1>2, <1>3, <1>4, <1>5, StandsMove

(* Two factors change places.                                                *)
LEMMA FactorsSwap ==
  ASSUME NEW x \in Int, NEW y \in Int, NEW z \in Int
  PROVE  (x * y) * z = (x * z) * y
  OBVIOUS

(* Exceeds compares the numerators over a common denominator.                *)
LEMMA ExceedsStands ==
  ASSUME NEW f, NEW g, NEW n, NEW m, NEW d, Stands(f, n, d), Stands(g, m, d)
  PROVE  Exceeds(f, g) <=> n > m
<1> DEFINE p == f[1]
           q == f[2]
           r == g[1]
           s == g[2]
<1>1. /\ p \in Int /\ q \in Natural1 /\ r \in Int /\ s \in Natural1 /\ n \in Int /\ m \in Int
      /\ d \in Natural1 /\ p * d = n * q /\ r * d = m * s
  BY DEF Stands, Pairs
<1>2. Exceeds(f, g) <=> r * q < p * s
  <2>1. p * s \in Int /\ r * q \in Int
    BY <1>1 DEF Natural1
  <2> QED
    BY <2>1 DEF Exceeds
<1> HIDE DEF p, q, r, s
<1>3. q \in Int /\ s \in Int /\ d \in Int /\ q * s \in Natural1
  BY <1>1 DEF Natural1
<1>4. (p * s) * d = n * (q * s)
  <2>1. (p * s) * d = (p * d) * s /\ (n * q) * s = n * (q * s)
    BY <1>1, <1>3
  <2> QED
    BY <1>1, <2>1
<1>5. (r * q) * d = m * (q * s)
  <2>1. (r * q) * d = (r * d) * q /\ (m * s) * q = m * (q * s)
    BY <1>1, <1>3
  <2> QED
    BY <1>1, <2>1
<1> DEFINE a == p * s
           b == r * q
           c == q * s
<1>6. a \in Int /\ b \in Int /\ c \in Natural1 /\ a * d = n * c /\ b * d = m * c
  BY <1>1, <1>3, <1>4, <1>5
<1>7. Exceeds(f, g) <=> b < a
  BY <1>2
<1> HIDE DEF a, b, c
<1>8. b * d < a * d <=> b < a
  BY <1>1, <1>6, Cancel
<1>9. m * c < n * c <=> m < n
  BY <1>1, <1>6, Cancel
<1> QED
  BY <1>1, <1>6, <1>7, <1>8, <1>9

-----------------------------------------------------------------------------
(* Sums of fractions.                                                        *)

(* The sum of a function's numbers is the sum over its domain.               *)
LEMMA TotalIs ==
  ASSUME NEW v
  PROVE  Total(v) = SumIn(v, DOMAIN v)
  BY DEF Total, FoldFunction, FoldFunctionOnSet, SumIn, MapThenSumSet

(* Fractions over a common denominator are added by their numerators.        *)
LEMMA FractionTotal ==
  ASSUME NEW S, IsFiniteSet(S), NEW v, DOMAIN v = S, NEW d \in Natural1, NEW N,
         \A x \in S : Stands(v[x], N[x], d)
  PROVE  /\ Stands(TotalFraction(v), SumIn(N, S), d)
         /\ IsFraction(TotalFraction(v))
<1> DEFINE C(g) == g = [s \in SUBSET S |-> IF s = {} THEN <<0, 1>>
                                           ELSE Plus(v[Chosen(s)], g[s \ {Chosen(s)}])]
           it == CHOOSE g : C(g)
<1>1. TotalFraction(v) = it[S]
  BY DEF TotalFraction, FoldFunction, FoldFunctionOnSet, MapThenFoldSet, Chosen
<1>2. \A f, g \in Pairs : Plus(f, g) \in Pairs
  <2> SUFFICES ASSUME NEW f \in Pairs, NEW g \in Pairs
               PROVE  Plus(f, g) \in Pairs
    OBVIOUS
  <2>1. f[1] \in Int /\ f[2] \in Natural1 /\ g[1] \in Int /\ g[2] \in Natural1
    BY DEF Pairs
  <2>2. f[1] * g[2] + g[1] * f[2] \in Int /\ f[2] * g[2] \in Natural1
    BY <2>1 DEF Natural1
  <2> QED
    BY <2>2, FractionReduces DEF Plus
<1>3. \E g : C(g)
  <2> DEFINE A == Pairs
             base == <<0, 1>>
             pk == [s \in SUBSET S |-> Chosen(s)]
             st == [p \in A \X S |-> Plus(v[p[2]], p[1])]
  <2>1. base \in A /\ Picks(S, pk) /\ Steps(S, A, st)
    <3>1. \A x \in S : v[x] \in Pairs
      BY DEF Stands
    <3>2. base \in A
      BY DEF Pairs, Natural1
    <3> QED
      BY <1>2, <3>1, <3>2, ChosenIn DEF Picks, Steps
  <2> HIDE DEF A, base, pk, st
  <2>2. PICK g : Fold(S, A, base, pk, st, g)
    BY <2>1, FoldExists
  <2>3. ASSUME NEW s \in SUBSET S, s # {}
        PROVE  st[<<g[s \ {pk[s]}], pk[s]>>] = Plus(v[Chosen(s)], g[s \ {Chosen(s)}])
    <3>1. pk[s] = Chosen(s) /\ pk[s] \in S /\ s \ {pk[s]} \in SUBSET S
      BY <2>3, ChosenIn DEF pk
    <3>2. g[s \ {pk[s]}] \in A
      BY <2>2, <3>1 DEF Fold
    <3> QED
      BY <3>1, <3>2 DEF st
  <2>4. g = [s \in SUBSET S |-> IF s = {} THEN base ELSE st[<<g[s \ {pk[s]}], pk[s]>>]]
    BY <2>2 DEF Fold
  <2>5. C(g)
    BY <2>3, <2>4 DEF base
  <2> QED
    BY <2>5
<1>4. C(it)
  <2> HIDE DEF C
  <2> QED
    BY <1>3
<1> HIDE DEF it
<1> DEFINE P == {s \in SUBSET S : Stands(it[s], SumIn(N, s), d) /\ IsFraction(it[s])}
<1>5. \A s \in SUBSET S : IsFiniteSet(s) /\ Numbers(N, s)
  BY FS_Subset DEF Numbers, Stands
<1>6. {} \in P
  <2>1. it[{}] = Whole(0) /\ SumIn(N, {}) = 0
    BY <1>4, <1>5, TotalStep DEF Whole
  <2>2. Stands(Whole(0), 0 * d, d) /\ IsFraction(Whole(0)) /\ 0 * d = 0
    BY WholeStands DEF Natural1
  <2> QED
    BY <2>1, <2>2
<1>7. \A s \in SUBSET S : s # {} /\ (\A x \in s : s \ {x} \in P) => s \in P
  <2> SUFFICES ASSUME NEW s \in SUBSET S, s # {}, \A x \in s : s \ {x} \in P
               PROVE  Stands(it[s], SumIn(N, s), d) /\ IsFraction(it[s])
    OBVIOUS
  <2> DEFINE x == Chosen(s)
             r == s \ {x}
  <2>1. x \in s
    BY ChosenIn
  <2>2. SumIn(N, s) = N[x] + SumIn(N, r)
    BY <1>5, TotalStep
  <2>3. it[s] = Plus(v[x], it[r])
    BY <1>4
  <2>4. Stands(it[r], SumIn(N, r), d) /\ Stands(v[x], N[x], d)
    BY <2>1
  <2> HIDE DEF x, r
  <2>5. Stands(Plus(v[x], it[r]), N[x] + SumIn(N, r), d) /\ IsFraction(Plus(v[x], it[r]))
    BY <2>4, PlusStands
  <2> QED
    BY <2>2, <2>3, <2>5
<1>8. P = SUBSET S
  <2> HIDE DEF P
  <2>1. P \in SUBSET SUBSET S
    BY DEF P
  <2> QED
    BY <1>6, <1>7, <2>1, Removing
<1>9. S \in P
  BY <1>8
<1> QED
  BY <1>1, <1>9

(* Finitely many fractions have a common denominator.                        *)
Common(v, S, N, d) == d \in Natural1 /\ N \in [S -> Int] /\ \A x \in S : Stands(v[x], N[x], d)

(* Finitely many fractions have a common denominator.                        *)
LEMMA CommonDenominator ==
  ASSUME NEW S, IsFiniteSet(S), NEW v, \A x \in S : v[x] \in Pairs
  PROVE  \E N, d : Common(v, S, N, d)
<1> DEFINE Over(s, d) == \A x \in s : \E n \in Int : Stands(v[x], n, d)
           P == {s \in SUBSET S : \E d \in Natural1 : Over(s, d)}
<1>1. {} \in P
  <2>1. 1 \in Natural1
    BY DEF Natural1
  <2> QED
    BY <2>1
<1>2. \A s \in SUBSET S : s # {} /\ (\A x \in s : s \ {x} \in P) => s \in P
  <2> SUFFICES ASSUME NEW s \in SUBSET S, s # {}, \A x \in s : s \ {x} \in P
               PROVE  \E d \in Natural1 : Over(s, d)
    OBVIOUS
  <2>1. PICK x \in s : TRUE
    OBVIOUS
  <2>2. PICK d \in Natural1 : Over(s \ {x}, d)
    OBVIOUS
  <2> DEFINE k == v[x][2]
  <2>3. k \in Natural1 /\ v[x][1] \in Int /\ Stands(v[x], v[x][1], k)
    BY DEF Pairs, Stands, Natural1
  <2>4. k * d \in Natural1 /\ d * k = k * d
    BY <2>3 DEF Natural1
  <2>5. ASSUME NEW y \in s
        PROVE  \E n \in Int : Stands(v[y], n, k * d)
    <3>1. CASE y = x
      <4> HIDE DEF k
      <4>1. Stands(v[x], v[x][1] * d, k * d)
        BY <2>3, StandsScaledUp
      <4>2. v[x][1] * d \in Int
        BY <4>1 DEF Stands
      <4> QED
        BY <3>1, <4>1, <4>2
    <3>2. CASE y # x
      <4>1. PICK n \in Int : Stands(v[y], n, d)
        BY <2>2, <3>2
      <4> HIDE DEF k
      <4>2. Stands(v[y], n * k, d * k)
        BY <2>3, <4>1, StandsScaledUp
      <4>3. n * k \in Int
        BY <4>2 DEF Stands
      <4> QED
        BY <2>4, <4>2, <4>3
    <3> QED
      BY <3>1, <3>2
  <2> QED
    BY <2>4, <2>5
<1>3. P = SUBSET S
  <2> HIDE DEF P
  <2>1. P \in SUBSET SUBSET S
    BY DEF P
  <2> QED
    BY <1>1, <1>2, <2>1, Removing
<1>4. PICK d \in Natural1 : Over(S, d)
  BY <1>3
<1> DEFINE N == [x \in S |-> CHOOSE n \in Int : Stands(v[x], n, d)]
<1>5. ASSUME NEW x \in S
      PROVE  N[x] \in Int /\ Stands(v[x], N[x], d)
  BY <1>4
<1> HIDE DEF N
<1>6. N \in [S -> Int]
  BY <1>5 DEF N
<1> QED
  BY <1>5, <1>6 DEF Common

-----------------------------------------------------------------------------
(* simulate_trade_impact moves value at the price of the trade.              *)

(* PortfolioAnalysis: trades move value.                                     *)

Rows(p) == DOMAIN p.positions
RowOf(p, n) == p.positions[n]
(* The rows of a portfolio are numbered, hold natural numbers, and each has  *)
(* a symbol of its own.                                                      *)
LEMMA RowsOfPortfolio ==
  ASSUME NEW p \in Portfolios
  PROVE  /\ p.cash \in Int /\ IsFiniteSet(Rows(p))
         /\ Rows(p) = 1 .. Len(p.positions) /\ Len(p.positions) \in Nat
         /\ \A n \in Rows(p) : RowOf(p, n) \in HeldRows
         /\ \A m, n \in Rows(p) : RowOf(p, m).symbol = RowOf(p, n).symbol => m = n
<1>1. /\ p.cash \in Int /\ p.positions \in Seq(HeldRows)
      /\ \A m, n \in DOMAIN p.positions : p.positions[m].symbol = p.positions[n].symbol => m = n
  BY PortfolioRows
<1>2. Len(p.positions) \in Nat /\ DOMAIN p.positions = 1 .. Len(p.positions)
      /\ \A n \in DOMAIN p.positions : p.positions[n] \in HeldRows
  BY <1>1
<1>3. IsFiniteSet(1 .. Len(p.positions))
  BY <1>2, UpToFinite
<1> QED
  BY <1>1, <1>2, <1>3 DEF Rows, RowOf

(* A row of a portfolio has numbers in it.                                   *)
LEMMA RowNumbers ==
  ASSUME NEW r \in HeldRows
  PROVE  r.quantity \in Nat /\ r.price \in Nat /\ MarketValue(r) \in Nat /\ r.score \in Int
  BY DEF HeldRows, MarketValue

Values(p) == [n \in Rows(p) |-> MarketValue(RowOf(p, n))]
Equity(p) == SumIn(Values(p), Rows(p)) + p.cash

(* TotalEquity is the sum of the market values, and the cash.                *)
LEMMA EquityIs ==
  ASSUME portfolio \in Portfolios
  PROVE  /\ TotalEquity = Equity(portfolio) /\ Numbers(Values(portfolio), Rows(portfolio))
         /\ Equity(portfolio) \in Int
<1> DEFINE p == portfolio
           v == Values(p)
<1>1. p \in Portfolios
  OBVIOUS
<1>2. v = [n \in DOMAIN p.positions |-> MarketValue(p.positions[n])] /\ DOMAIN v = Rows(p)
  BY DEF Values, Rows, RowOf
<1>3. TotalEquity = Total(v) + p.cash
  BY <1>2 DEF TotalEquity, PositionsMarketValue
<1>4. Total(v) = SumIn(v, Rows(p))
  BY <1>2, TotalIs
<1>5. Numbers(v, Rows(p))
  BY <1>1, RowsOfPortfolio, RowNumbers DEF Numbers, Values
<1>6. SumIn(v, Rows(p)) \in Int
  BY <1>1, <1>5, RowsOfPortfolio, TotalStep
<1> QED
  BY <1>1, <1>3, <1>4, <1>5, <1>6, RowsOfPortfolio DEF Equity

(* A sum over a function made for the purpose.                               *)
LEMMA TotalOf ==
  ASSUME NEW S, IsFiniteSet(S), NEW v, Numbers(v, S), NEW w, DOMAIN w = S, \A x \in S : w[x] = v[x]
  PROVE  Total(w) = SumIn(v, S)
<1>1. Total(w) = SumIn(w, S)
  BY TotalIs
<1>2. SumIn(w, S) = SumIn(v, S)
  BY SumsSame
<1> QED
  BY <1>1, <1>2

(* A simulated purchase costs its costs, a sale also what it is made below   *)
(* the price.                                                                *)
SimulationMoves(t, r) ==
  /\ r.trade = t
  /\ r.equity = TotalEquity - r.cost
                  - (IF t.side = "buy" THEN 0
                     ELSE Total([p \in Holding(t.symbol) |-> t.quantity * (p.price - t.price)]))

(* A simulated trade moves value at its price: what simulate_trade_impact    *)
(* answers.                                                                  *)
LEMMA SimulateMoves ==
  ASSUME portfolio \in Portfolios, NEW t \in SingleTrades, SimulateTrade(t).kind = "simulated"
  PROVE  SimulationMoves(t, SimulateTrade(t))
<1> DEFINE P == portfolio
           S == Rows(P)
           v == Values(P)
           held == Holding(t.symbol)
           notional == t.quantity * t.price
           cost == (notional * t.bps) \div 10000
           after == IF held = {} THEN [quantity |-> t.quantity, value |-> notional]
                    ELSE PositionAfterTrade(CHOOSE p \in held : TRUE, t.side, t.quantity, t.price)
           cash == IF t.side = "buy" THEN -(notional + cost) ELSE notional - cost
           others == {n \in DOMAIN portfolio.positions : portfolio.positions[n].symbol # t.symbol}
           rest == Total([n \in others |-> MarketValue(portfolio.positions[n])])
           r == SimulateTrade(t)
<1>1. /\ t.side \in Sides /\ t.quantity \in Nat /\ t.price \in Nat /\ t.bps \in Nat
  BY AnalysisRequests
<1>2. notional \in Nat /\ cost \in Int
  <2>1. notional \in Nat /\ notional * t.bps \in Int
    BY <1>1
  <2> DEFINE c == notional * t.bps
  <2> HIDE DEF c
  <2>2. c \div 10000 \in Int
    BY <2>1 DEF c
  <2> QED
    BY <2>1, <2>2 DEF c
<1>3. P \in Portfolios /\ P.cash \in Int /\ IsFiniteSet(S) /\ Numbers(v, S)
      /\ (\A n \in S : RowOf(P, n) \in HeldRows)
      /\ (\A m, n \in S : RowOf(P, m).symbol = RowOf(P, n).symbol => m = n)
      /\ TotalEquity = SumIn(v, S) + P.cash /\ SumIn(v, S) \in Int
  BY RowsOfPortfolio, EquityIs, TotalStep DEF Equity
<1>4. /\ r.trade = t /\ r.cost = cost
      /\ r.equity = rest + after.value + P.cash + cash
      /\ ~(t.side = "sell" /\ ~(\E p \in held : p.quantity >= t.quantity))
  BY DEF SimulateTrade, Refusal
<1>5. held = {RowOf(P, n) : n \in S \ others} /\ others \in SUBSET S
  BY DEF Holding, Elements, Rows, RowOf
<1>6. rest = SumIn(v, others)
  <2>1. IsFiniteSet(others) /\ Numbers(v, others)
    BY <1>3, <1>5, FS_Subset DEF Numbers
  <2> DEFINE w == [n \in others |-> MarketValue(portfolio.positions[n])]
  <2>2. DOMAIN w = others /\ \A n \in others : w[n] = v[n]
    BY DEF Values, Rows, RowOf
  <2> HIDE DEF w, others, v
  <2>3. Total(w) = SumIn(v, others)
    BY <2>1, <2>2, TotalOf
  <2> QED
    BY <2>3 DEF w
<1> HIDE DEF rest, notional, cost, r
<1>7. CASE held = {}
  <2>1. others = S
    BY <1>5, <1>7
  <2>2. t.side = "buy"
    BY <1>1, <1>4, <1>7 DEF Sides
  <2>3. after.value = notional /\ cash = -(notional + cost)
    BY <1>7, <2>2
  <2>4. r.equity = TotalEquity - cost
    <3> HIDE DEF after, cash, others, S, v
    <3> QED
      BY <1>2, <1>3, <1>4, <1>6, <2>1, <2>3
  <2>5. r.equity = TotalEquity - cost - 0
    BY <1>2, <1>3, <2>4
  <2> QED
    BY <1>4, <2>2, <2>5 DEF SimulationMoves, r
<1>8. CASE held # {}
  <2>1. PICK m \in S : m \notin others
    BY <1>5, <1>8
  <2>2. others = S \ {m}
    <3>1. RowOf(P, m).symbol = t.symbol
      BY <2>1 DEF Rows, RowOf
    <3>2. \A n \in S \ {m} : RowOf(P, n).symbol # t.symbol
      BY <1>3, <3>1
    <3> QED
      BY <1>5, <2>1, <3>2 DEF Rows, RowOf
  <2> DEFINE p == RowOf(P, m)
  <2>3. held = {p} /\ p \in HeldRows
    BY <1>3, <1>5, <2>1, <2>2
  <2>4. p.quantity \in Nat /\ p.price \in Nat /\ v[m] = p.quantity * p.price /\ v[m] \in Nat
        /\ MarketValue(p) = v[m]
    BY <2>3, RowNumbers DEF Values, MarketValue
  <2>5. SumIn(v, S) = v[m] + rest /\ rest \in Int
    <3>1. SumIn(v, S) = v[m] + SumIn(v, S \ {m})
      BY <1>3, TotalRemove
    <3>2. SumIn(v, S) \in Int /\ IsFiniteSet(S \ {m}) /\ Numbers(v, S \ {m})
      BY <1>3, FS_RemoveElement DEF Numbers
    <3>3. SumIn(v, S \ {m}) \in Int
      BY <3>2, TotalStep
    <3> QED
      BY <1>6, <2>2, <3>1, <3>3
  <2>6. after = PositionAfterTrade(p, t.side, t.quantity, t.price)
    BY <1>8, <2>3
  <2> HIDE DEF p, others, v, S, after, held
  <2>7. CASE t.side = "buy"
    <3>1. after.value = v[m] + notional /\ cash = -(notional + cost)
      BY <2>4, <2>6, <2>7 DEF PositionAfterTrade, notional
    <3> HIDE DEF cash
    <3> DEFINE a == v[m]
               c == P.cash
    <3>3. /\ a \in Int /\ c \in Int /\ rest \in Int /\ notional \in Int /\ cost \in Int
          /\ r.equity = rest + (a + notional) + c + (-(notional + cost))
          /\ TotalEquity = (a + rest) + c
      BY <1>2, <1>3, <1>4, <2>4, <2>5, <3>1
    <3> HIDE DEF a, c
    <3>2. r.equity = TotalEquity - cost - 0
      BY <3>3
    <3> QED
      BY <1>4, <2>7, <3>2 DEF SimulationMoves, r
  <2>8. CASE t.side # "buy"
    <3> DEFINE loss == t.quantity * (p.price - t.price)
               w == [q \in held |-> t.quantity * (q.price - t.price)]
    <3>1. after.value = v[m] - t.quantity * p.price /\ cash = notional - cost
      <4>1. after.value = (p.quantity - t.quantity) * p.price
        BY <2>6, <2>8 DEF PositionAfterTrade
      <4>2. (p.quantity - t.quantity) * p.price = p.quantity * p.price - t.quantity * p.price
        BY <1>1, <2>4
      <4>3. after.value = v[m] - t.quantity * p.price
        BY <2>4, <4>1, <4>2
      <4>4. cash = notional - cost
        BY <2>8
      <4> QED
        BY <4>3, <4>4
    <3>2. loss = t.quantity * p.price - notional /\ loss \in Int /\ t.quantity * p.price \in Int
      BY <1>1, <2>4 DEF notional
    <3>3. Total(w) = loss
      <4>1. DOMAIN w = {p} /\ w[p] = loss
        BY <2>3
      <4> HIDE DEF w, loss
      <4>2. Total(w) = SumIn(w, {p}) /\ SumIn(w, {p}) = w[p]
        BY <3>2, <4>1, TotalIs, SumSingle
      <4> QED
        BY <4>1, <4>2
    <3> DEFINE gone == t.quantity * p.price
    <3> HIDE DEF cash, w, loss, gone
    <3>4. r.equity = TotalEquity - cost - loss
      <4>1. after.value = v[m] - gone /\ loss = gone - notional /\ loss \in Int /\ gone \in Int
        BY <3>1, <3>2 DEF gone
      <4> QED
        BY <1>2, <1>3, <1>4, <2>4, <2>5, <3>1, <4>1
    <3>5. r.equity = TotalEquity - cost - Total(w)
      BY <3>3, <3>4
    <3> QED
      BY <1>4, <2>8, <3>5 DEF SimulationMoves, r, w, held
  <2> QED
    BY <2>7, <2>8
<1> QED
  BY <1>7, <1>8

-----------------------------------------------------------------------------
(* analyze_trade_impact: what is held stays worth its shares.                *)

Frs == {f \in Pairs : IsFraction(f)}
HoldingStates ==
  [values : [CovarianceTickers -> Int], quantities : [CovarianceTickers -> Frs],
   prices : [CovarianceTickers -> Int], refused : BOOLEAN]
Trade == [ticker : STRING, side : Sides, quantity : Nat, price : Nat, notional : Nat]

(* Whole numbers are fractions;                                              *)
LEMMA WholeFr ==
  ASSUME NEW k \in Int
  PROVE  Whole(k) \in Frs
<1>1. 1 \in Natural1
  BY DEF Natural1
<1>2. Stands(Whole(k), k * 1, 1) /\ IsFraction(Whole(k))
  BY <1>1, WholeStands
<1> QED
  BY <1>2 DEF Stands, Frs

(* a pair that stands for something, in lowest terms, is one;                *)
LEMMA StandsFr ==
  ASSUME NEW f, NEW n, NEW d, Stands(f, n, d), IsFraction(f)
  PROVE  f \in Frs
  BY DEF Stands, Frs

(* a fraction stands for its own numerator and denominator;                  *)
LEMMA FrStands ==
  ASSUME NEW f \in Frs
  PROVE  Stands(f, f[1], f[2]) /\ IsFraction(f)
<1>1. f[1] \in Int /\ f[2] \in Natural1 /\ f \in Pairs /\ IsFraction(f)
  BY DEF Frs, Pairs
<1> QED
  BY <1>1 DEF Stands

(* and sums and differences are fractions.                                   *)
LEMMA SumsAreFractions ==
  ASSUME NEW f \in Frs, NEW g \in Frs
  PROVE  Plus(f, g) \in Frs /\ Minus(f, g) \in Frs
<1>1. f \in Pairs /\ f[1] \in Int /\ f[2] \in Natural1 /\ g \in Pairs /\ g[1] \in Int /\ g[2] \in Natural1
  BY DEF Frs, Pairs
<1>2. Stands(f, f[1], f[2]) /\ Stands(g, g[1], g[2])
  BY FrStands
<1>3. Stands(f, f[1] * g[2], f[2] * g[2])
  BY <1>1, <1>2, StandsScaledUp
<1>4. Stands(g, g[1] * f[2], g[2] * f[2])
  BY <1>1, <1>2, StandsScaledUp
<1>5. g[2] * f[2] = f[2] * g[2]
  BY <1>1 DEF Natural1
<1> DEFINE a == f[1] * g[2]
           b == g[1] * f[2]
           d == f[2] * g[2]
<1>6. Stands(f, a, d) /\ Stands(g, b, d)
  BY <1>3, <1>4, <1>5
<1> HIDE DEF a, b, d
<1>7. Stands(Plus(f, g), a + b, d) /\ IsFraction(Plus(f, g))
  BY <1>6, PlusStands
<1>8. Stands(Minus(f, g), a - b, d) /\ IsFraction(Minus(f, g))
  BY <1>6, MinusStands
<1> QED
  BY <1>7, <1>8, StandsFr

(* What is held of a ticker.                                                 *)
OfTicker(x) == {n \in DOMAIN portfolio.positions : portfolio.positions[n].symbol = x}

(* What is held before the first trade is worth its shares (the position     *)
(* vectors of trade_impact.py).                                              *)
LEMMA HoldingsAre ==
  ASSUME portfolio \in Portfolios
  PROVE  /\ HoldingVectors \in HoldingStates
         /\ \A x \in CovarianceTickers : HoldingVectors.prices[x] > 0 =>
              Stands(HoldingVectors.quantities[x], HoldingVectors.values[x], HoldingVectors.prices[x])
<1> DEFINE P == portfolio
           S == Rows(P)
           q == [n \in S |-> RowOf(P, n).quantity]
           v == Values(P)
<1>1. P \in Portfolios /\ IsFiniteSet(S) /\ Numbers(v, S) /\ Numbers(q, S)
      /\ (\A n \in S : RowOf(P, n) \in HeldRows)
      /\ (\A m, n \in S : RowOf(P, m).symbol = RowOf(P, n).symbol => m = n)
  BY RowsOfPortfolio, EquityIs, RowNumbers DEF Numbers
<1>2. ASSUME NEW x
      PROVE  /\ Total([n \in OfTicker(x) |-> MarketValue(portfolio.positions[n])]) = SumIn(v, OfTicker(x))
             /\ Total([n \in OfTicker(x) |-> portfolio.positions[n].quantity]) = SumIn(q, OfTicker(x))
             /\ SumIn(v, OfTicker(x)) \in Int /\ SumIn(q, OfTicker(x)) \in Int
             /\ OfTicker(x) \in SUBSET S
  <2> DEFINE T == OfTicker(x)
             w == [n \in T |-> MarketValue(portfolio.positions[n])]
             u == [n \in T |-> portfolio.positions[n].quantity]
  <2>1. T \in SUBSET S
    BY DEF OfTicker, Rows
  <2>2. DOMAIN w = T /\ DOMAIN u = T /\ \A n \in T : w[n] = v[n] /\ u[n] = q[n]
    BY <2>1 DEF Values, RowOf
  <2> HIDE DEF T, w, u, v, q
  <2>3. IsFiniteSet(T) /\ Numbers(v, T) /\ Numbers(q, T)
    BY <1>1, <2>1, FS_Subset DEF Numbers
  <2>4. Total(w) = SumIn(v, T)
    BY <2>2, <2>3, TotalOf
  <2>5. Total(u) = SumIn(q, T)
    BY <2>2, <2>3, TotalOf
  <2>6. SumIn(v, T) \in Int /\ SumIn(q, T) \in Int
    BY <2>3, TotalStep
  <2> QED
    BY <2>1, <2>4, <2>5, <2>6 DEF w, u, T
<1> DEFINE vals == [x \in CovarianceTickers |-> SumIn(v, OfTicker(x))]
           nums == [x \in CovarianceTickers |-> Whole(SumIn(q, OfTicker(x)))]
           pric == [x \in CovarianceTickers |->
                      IF OfTicker(x) = {} THEN NoPrice
                      ELSE portfolio.positions[CHOOSE n \in OfTicker(x) : \A m \in OfTicker(x) : m <= n].price]
<1>3. HoldingVectors = [values |-> vals, quantities |-> nums, prices |-> pric, refused |-> FALSE]
  <2>1. HoldingVectors =
          [values |-> [x \in CovarianceTickers |->
              Total([n \in OfTicker(x) |-> MarketValue(portfolio.positions[n])])],
           quantities |-> [x \in CovarianceTickers |->
              Whole(Total([n \in OfTicker(x) |-> portfolio.positions[n].quantity]))],
           prices |-> pric, refused |-> FALSE]
    BY DEF HoldingVectors, OfTicker
  <2>2. vals = [x \in CovarianceTickers |->
              Total([n \in OfTicker(x) |-> MarketValue(portfolio.positions[n])])]
    BY <1>2
  <2>3. nums = [x \in CovarianceTickers |->
              Whole(Total([n \in OfTicker(x) |-> portfolio.positions[n].quantity]))]
    BY <1>2
  <2> HIDE DEF vals, nums, pric
  <2> QED
    BY <2>1, <2>2, <2>3
<1>4. ASSUME NEW x, NEW m \in OfTicker(x)
      PROVE  /\ OfTicker(x) = {m} /\ RowOf(P, m) \in HeldRows
             /\ (CHOOSE n \in OfTicker(x) : \A k \in OfTicker(x) : k <= n) = m
             /\ portfolio.positions[m] = RowOf(P, m)
             /\ SumIn(v, OfTicker(x)) = RowOf(P, m).quantity * RowOf(P, m).price
             /\ SumIn(q, OfTicker(x)) = RowOf(P, m).quantity
  <2>1. m \in S /\ RowOf(P, m) \in HeldRows /\ RowOf(P, m).symbol = x /\ portfolio.positions[m] = RowOf(P, m)
    BY <1>1 DEF OfTicker, Rows, RowOf
  <2>2. OfTicker(x) = {m}
    <3>1. \A n \in OfTicker(x) : n \in S /\ RowOf(P, n).symbol = x
      BY DEF OfTicker, Rows, RowOf
    <3> QED
      BY <1>1, <2>1, <3>1
  <2>3. m \in Nat
    BY <1>1, <2>1, RowsOfPortfolio
  <2>4. (CHOOSE n \in OfTicker(x) : \A k \in OfTicker(x) : k <= n) = m
    BY <2>2, <2>3
  <2>5. v[m] = RowOf(P, m).quantity * RowOf(P, m).price /\ q[m] = RowOf(P, m).quantity
        /\ v[m] \in Int /\ q[m] \in Int
    BY <1>1, <2>1 DEF Values, MarketValue, Numbers
  <2> HIDE DEF v, q
  <2>6. SumIn(v, {m}) = v[m] /\ SumIn(q, {m}) = q[m]
    BY <2>5, SumSingle
  <2> QED
    BY <2>1, <2>2, <2>4, <2>5, <2>6
<1>5. \A x \in CovarianceTickers : pric[x] \in Int
  <2>1. ASSUME NEW x \in CovarianceTickers, OfTicker(x) # {}
        PROVE  pric[x] \in Int
    <3>1. PICK m \in OfTicker(x) : TRUE
      BY <2>1
    <3>2. pric[x] = RowOf(P, m).price
      BY <1>4, <2>1, <3>1
    <3>3. RowOf(P, m) \in HeldRows
      BY <1>4, <3>1
    <3> DEFINE r == RowOf(P, m)
    <3> HIDE DEF r, pric
    <3>4. r.price \in Nat
      BY <3>3, RowNumbers DEF r
    <3> QED
      BY <3>2, <3>4 DEF r
  <2>2. NoPrice \in Int
    BY DEF NoPrice
  <2> QED
    BY <2>1, <2>2
<1>6. HoldingVectors \in HoldingStates
  <2>1. vals \in [CovarianceTickers -> Int] /\ nums \in [CovarianceTickers -> Frs]
    BY <1>2, WholeFr
  <2>2. pric \in [CovarianceTickers -> Int]
    BY <1>5
  <2> HIDE DEF vals, nums, pric
  <2> QED
    BY <1>3, <2>1, <2>2 DEF HoldingStates
<1>7. ASSUME NEW x \in CovarianceTickers, HoldingVectors.prices[x] > 0
      PROVE  Stands(HoldingVectors.quantities[x], HoldingVectors.values[x], HoldingVectors.prices[x])
  <2>1. HoldingVectors.prices[x] = pric[x] /\ HoldingVectors.quantities[x] = Whole(SumIn(q, OfTicker(x)))
        /\ HoldingVectors.values[x] = SumIn(v, OfTicker(x))
    BY <1>3
  <2>2. OfTicker(x) # {}
    BY <1>7, <2>1 DEF NoPrice
  <2>3. PICK m \in OfTicker(x) : TRUE
    BY <2>2
  <2>4. pric[x] = RowOf(P, m).price
    BY <1>4, <2>2, <2>3
  <2> DEFINE a == RowOf(P, m).quantity
             b == RowOf(P, m).price
  <2>5. a \in Nat /\ b \in Nat
    BY <1>4, <2>3, RowNumbers
  <2> HIDE DEF a, b, pric
  <2>6. b \in Natural1
    BY <1>7, <2>1, <2>4, <2>5 DEF b, Natural1
  <2>7. Stands(Whole(a), a * b, b)
    BY <2>5, <2>6, WholeStands
  <2>8. SumIn(v, OfTicker(x)) = a * b /\ SumIn(q, OfTicker(x)) = a
    BY <1>4, <2>3 DEF a, b
  <2> QED
    BY <2>1, <2>4, <2>7, <2>8 DEF b
<1> QED
  BY <1>6, <1>7

(* A trade leaves numbers.                                                   *)
LEMMA TradeNumbers ==
  ASSUME NEW s \in HoldingStates, NEW t \in Trade, t.ticker \in CovarianceTickers
  PROVE  /\ TradePrice(s, t) \in Int
         /\ Number(s, t) \in Frs
         /\ ~PriceMissing(s, t) => Notional(s, t) \in Int
<1>1. s.prices[t.ticker] \in Int /\ t.price \in Nat /\ t.quantity \in Nat /\ t.notional \in Nat
  BY DEF HoldingStates, Trade
<1>2. TradePrice(s, t) \in Int
  BY <1>1 DEF TradePrice
<1>3. Notional(s, t) \in Int
  BY <1>1, <1>2 DEF Notional
<1>4. Number(s, t) \in Frs
  <2>1. Whole(t.quantity) \in Frs /\ Whole(0) \in Frs
    BY <1>1, WholeFr
  <2>2. ASSUME TradePrice(s, t) > 0
        PROVE  Fraction(t.notional, TradePrice(s, t)) \in Frs
    <3>1. TradePrice(s, t) \in Natural1 /\ t.notional \in Int
      BY <1>1, <1>2, <2>2 DEF Natural1
    <3> DEFINE d == TradePrice(s, t)
               n == t.notional
    <3> HIDE DEF d, n
    <3>2. Stands(Fraction(n, d), n, d) /\ IsFraction(Fraction(n, d))
      BY <3>1, FractionStands DEF d, n
    <3> QED
      BY <3>2, StandsFr DEF d, n
  <2> QED
    BY <2>1, <2>2 DEF Number
<1> QED
  BY <1>2, <1>3, <1>4

(* A trade leaves an amount and a number of shares                           *)
LEMMA AfterNumbers ==
  ASSUME NEW t, NEW v \in Int, NEW n \in Int, NEW f \in Frs, NEW g \in Frs
  PROVE  ValueAfter(t, v, n) \in Int /\ NumberAfter(t, f, g) \in Frs
<1>1. Plus(f, g) \in Frs /\ Minus(f, g) \in Frs /\ Whole(0) \in Frs
  BY SumsAreFractions, WholeFr
<1> QED
  BY <1>1 DEF ValueAfter, NumberAfter, Larger

(* for each ticker,                                                          *)
LEMMA ApplyTyped ==
  ASSUME NEW s \in HoldingStates, NEW t \in Trade
  PROVE  ApplyTrade(s, t) \in HoldingStates
<1>1. CASE s.refused \/ Invalid(s, t)
  BY <1>1 DEF ApplyTrade, HoldingStates
<1>2. CASE ~(s.refused \/ Invalid(s, t))
  <2> DEFINE x == t.ticker
             v == ValueAfter(t, s.values[x], Notional(s, t))
             q == NumberAfter(t, s.quantities[x], Number(s, t))
             p == TradePrice(s, t)
  <2>1. x \in CovarianceTickers /\ ~PriceMissing(s, t)
    BY <1>2 DEF Invalid
  <2>2. s.values[x] \in Int /\ s.quantities[x] \in Frs
    BY <2>1 DEF HoldingStates
  <2>3. v \in Int /\ q \in Frs /\ p \in Int
    BY <2>1, <2>2, TradeNumbers, AfterNumbers
  <2>4. ApplyTrade(s, t) = [s EXCEPT !.values[x] = v, !.quantities[x] = q, !.prices[x] = p]
    BY <1>2 DEF ApplyTrade
  <2> DEFINE A == [s.values EXCEPT ![x] = v]
             B == [s.quantities EXCEPT ![x] = q]
             C == [s.prices EXCEPT ![x] = p]
  <2> HIDE DEF v, q, p, x
  <2>5. A \in [CovarianceTickers -> Int] /\ B \in [CovarianceTickers -> Frs]
        /\ C \in [CovarianceTickers -> Int]
    BY <2>1, <2>3 DEF HoldingStates
  <2>6. ApplyTrade(s, t) = [s EXCEPT !.values = A, !.quantities = B, !.prices = C]
    BY <2>4 DEF HoldingStates
  <2> HIDE DEF A, B, C
  <2> QED
    BY <2>5, <2>6 DEF HoldingStates
<1> QED
  BY <1>1, <1>2

(* At the price of the holdings, what is held stays worth its shares.        *)
WorthItsShares(s, x, p) == s.prices[x] = p /\ Stands(s.quantities[x], s.values[x], p)

(* and what is held of one, traded at its price, stays worth its shares      *)
(* (_apply_trade).                                                           *)
LEMMA ApplyKeepsWorth ==
  ASSUME NEW s \in HoldingStates, NEW t \in Trade, NEW x \in CovarianceTickers, NEW p \in Natural1,
         t.ticker = x => t.price \in {NotGiven, p}, WorthItsShares(s, x, p)
  PROVE  WorthItsShares(ApplyTrade(s, t), x, p)
<1>1. CASE s.refused \/ Invalid(s, t)
  <2>1. ApplyTrade(s, t) = [s EXCEPT !.refused = TRUE]
    BY <1>1 DEF ApplyTrade
  <2> QED
    BY <2>1 DEF WorthItsShares, HoldingStates
<1>2. CASE ~(s.refused \/ Invalid(s, t)) /\ t.ticker # x
  <2>1. ApplyTrade(s, t) = [s EXCEPT !.values[t.ticker] = ValueAfter(t, @, Notional(s, t)),
                 !.quantities[t.ticker] = NumberAfter(t, @, Number(s, t)),
                 !.prices[t.ticker] = TradePrice(s, t)]
    BY <1>2 DEF ApplyTrade
  <2>2. /\ ApplyTrade(s, t).values[x] = s.values[x] /\ ApplyTrade(s, t).prices[x] = s.prices[x]
        /\ ApplyTrade(s, t).quantities[x] = s.quantities[x]
    BY <1>2, <2>1 DEF HoldingStates
  <2> QED
    BY <2>2 DEF WorthItsShares
<1>3. CASE ~(s.refused \/ Invalid(s, t)) /\ t.ticker = x
  <2> DEFINE value == s.values[x]
             held == s.quantities[x]
             n == Notional(s, t)
             f == Number(s, t)
             v == ValueAfter(t, value, n)
             q == NumberAfter(t, held, f)
  <2>0. t.quantity \in Nat /\ t.notional \in Nat /\ t.price \in Nat /\ p \in Nat /\ p > 0
        /\ value \in Int
    BY DEF Trade, Natural1, HoldingStates
  <2>1. TradePrice(s, t) = p
    BY <1>3, <2>0 DEF TradePrice, WorthItsShares, NoPrice, NotGiven
  <2>2. Stands(f, n, p) /\ IsFraction(f)
    <3>1. CASE t.quantity # NotGiven
      <4>1. f = Whole(t.quantity) /\ n = t.quantity * p
        BY <2>1, <3>1 DEF Number, Notional
      <4> HIDE DEF f, n
      <4> QED
        BY <2>0, <4>1, WholeStands
    <3>2. CASE t.quantity = NotGiven
      <4>1. f = Fraction(t.notional, p) /\ n = t.notional
        BY <2>0, <2>1, <3>2 DEF Number, Notional
      <4> HIDE DEF f, n
      <4> QED
        BY <2>0, <4>1, FractionStands
    <3> QED
      BY <3>1, <3>2
  <2>3. Stands(held, value, p)
    BY DEF WorthItsShares
  <2>4. ApplyTrade(s, t) = [s EXCEPT !.values[x] = v, !.quantities[x] = q, !.prices[x] = p]
    BY <1>3, <2>1 DEF ApplyTrade
  <2> DEFINE now == IF t.side = "buy" THEN value + n ELSE value - n
             got == IF t.side = "buy" THEN Plus(held, f) ELSE Minus(held, f)
  <2>5. v = Larger(now, 0) /\ q = IF Exceeds(Whole(0), got) THEN Whole(0) ELSE got
    BY DEF ValueAfter, NumberAfter
  <2> HIDE DEF value, held, n, f
  <2>6. Stands(got, now, p) /\ IsFraction(got)
    <3>1. Stands(Plus(held, f), value + n, p) /\ IsFraction(Plus(held, f))
      BY <2>2, <2>3, PlusStands
    <3>2. Stands(Minus(held, f), value - n, p) /\ IsFraction(Minus(held, f))
      BY <2>2, <2>3, MinusStands
    <3> QED
      BY <3>1, <3>2
  <2>7. Stands(Whole(0), 0, p)
    <3>1. Stands(Whole(0), 0 * p, p) /\ 0 * p = 0
      BY <2>0, WholeStands
    <3> QED
      BY <3>1
  <2> HIDE DEF now, got, v, q
  <2>8. Exceeds(Whole(0), got) <=> 0 > now
    BY <2>6, <2>7, ExceedsStands
  <2>9. now \in Int
    BY <2>6 DEF Stands
  <2>10. Stands(q, v, p)
    BY <2>5, <2>6, <2>7, <2>8, <2>9 DEF Larger
  <2>11. ApplyTrade(s, t).values[x] = v /\ ApplyTrade(s, t).quantities[x] = q /\ ApplyTrade(s, t).prices[x] = p
    BY <2>4 DEF HoldingStates
  <2> QED
    BY <2>10, <2>11 DEF WorthItsShares
<1> QED
  BY <1>1, <1>2, <1>3

TradeSteps(trades) ==
  [p \in HoldingStates \X (1 .. Len(trades)) |-> ApplyTrade(p[1], trades[p[2]])]

(* analyze_trade_impact applies the trades in turn.                          *)
LEMMA TradesInTurn ==
  ASSUME portfolio \in Portfolios, NEW trades \in TradeLists
  PROVE  /\ Len(trades) \in Nat /\ DOMAIN trades = 1 .. Len(trades)
         /\ \A k \in 1 .. Len(trades) : trades[k] \in Trade
         /\ \E F : /\ Turns(Len(trades), HoldingStates, HoldingVectors, TradeSteps(trades), F)
                   /\ F[Len(trades)] = FoldLeft(ApplyTrade, HoldingVectors, trades)
<1> DEFINE n == Len(trades)
           A == HoldingStates
           base == HoldingVectors
           st == TradeSteps(trades)
           C(k) == k = [s \in SUBSET (1 .. n) |-> IF s = {} THEN base ELSE
                          ApplyTrade(k[s \ {Max(s)}], trades[Max(s)])]
           it == CHOOSE k : C(k)
<1>1. trades \in Seq(Trade)
  BY AnalysisRequests DEF Trade
<1>2. n \in Nat /\ DOMAIN trades = 1 .. n /\ \A k \in 1 .. n : trades[k] \in Trade
  BY <1>1, LenProperties
<1>3. FoldLeft(ApplyTrade, base, trades) = it[1 .. n]
  <2>1. FoldLeft(ApplyTrade, base, trades)
          = (CHOOSE k : k = [s \in SUBSET DOMAIN trades |-> IF s = {} THEN base ELSE
                               ApplyTrade(k[s \ {Max(s)}], trades[Max(s)])])[DOMAIN trades]
    BY DEF FoldLeft, MapThenFoldSet
  <2> HIDE DEF n, base
  <2> QED
    BY <1>2, <2>1
<1>4. Steps(1 .. n, A, st)
  BY <1>2, ApplyTyped DEF Steps, TradeSteps
<1>5. base \in A
  BY HoldingsAre
<1> HIDE DEF base, n, A
<1>6. \A a \in A, k \in 1 .. n : st[<<a, k>>] = ApplyTrade(a, trades[k])
  BY DEF TradeSteps, A, n
<1> HIDE DEF st
<1>7. PICK g : LeftFold(n, A, base, st, g)
  BY <1>2, <1>4, <1>5, LeftFoldExists
<1>8. C(g)
  <2>1. ASSUME NEW s \in SUBSET (1 .. n), s # {}
        PROVE  st[<<g[s \ {Max(s)}], Max(s)>>] = ApplyTrade(g[s \ {Max(s)}], trades[Max(s)])
    <3>1. Max(s) \in 1 .. n
      BY <1>2, <2>1, LargestExists
    <3>2. g[s \ {Max(s)}] \in A
      BY <1>7 DEF LeftFold
    <3> QED
      BY <1>6, <3>1, <3>2
  <2>2. [s \in SUBSET (1 .. n) |-> IF s = {} THEN base ELSE st[<<g[s \ {Max(s)}], Max(s)>>]]
        = [s \in SUBSET (1 .. n) |-> IF s = {} THEN base ELSE
                            ApplyTrade(g[s \ {Max(s)}], trades[Max(s)])]
    BY <2>1
  <2> QED
    BY <1>7, <2>2 DEF LeftFold
<1>9. C(it)
  BY <1>8
<1>10. Unfolds(n, A, base, st, it)
  <2>1. it[{}] = base
    <3>1. {} \in SUBSET (1 .. n)
      OBVIOUS
    <3> HIDE DEF it
    <3> QED
      BY <1>9, <3>1
  <2>2. ASSUME NEW s \in SUBSET (1 .. n), s # {}, it[s \ {Max(s)}] \in A
        PROVE  it[s] = st[<<it[s \ {Max(s)}], Max(s)>>]
    <3>1. Max(s) \in 1 .. n
      BY <1>2, <2>2, LargestExists
    <3> HIDE DEF it
    <3>2. it[s] = ApplyTrade(it[s \ {Max(s)}], trades[Max(s)])
      BY <1>9, <2>2
    <3> QED
      BY <1>6, <2>2, <3>1, <3>2
  <2> HIDE DEF it
  <2> QED
    BY <2>1, <2>2 DEF Unfolds
<1> HIDE DEF it
<1>11. \E F : Turns(n, A, base, st, F) /\ F[n] = it[1 .. n]
  BY <1>2, <1>4, <1>5, <1>10, FoldTurns
<1> QED
  BY <1>2, <1>3, <1>11 DEF n, A, base, st

(* After a list of trades at the holding's price, what is held of a ticker   *)
(* is worth its shares.                                                      *)
LEMMA TradesKeepWorth ==
  ASSUME portfolio \in Portfolios, NEW trades \in TradeLists, NEW x \in CovarianceTickers,
         HoldingVectors.prices[x] > 0,
         \A t \in Elements(trades) : t.ticker = x => t.price \in {NotGiven, HoldingVectors.prices[x]}
  PROVE  LET end == FoldLeft(ApplyTrade, HoldingVectors, trades)
         IN  Whole(end.values[x]) = Scaled(end.quantities[x], HoldingVectors.prices[x], 1)
<1> DEFINE n == Len(trades)
           p == HoldingVectors.prices[x]
           st == TradeSteps(trades)
           end == FoldLeft(ApplyTrade, HoldingVectors, trades)
<1>1. n \in Nat /\ DOMAIN trades = 1 .. n /\ \A k \in 1 .. n : trades[k] \in Trade
  BY TradesInTurn
<1>2. PICK F : Turns(n, HoldingStates, HoldingVectors, st, F) /\ F[n] = end
  BY TradesInTurn
<1>3. p \in Natural1 /\ HoldingVectors \in HoldingStates /\ WorthItsShares(HoldingVectors, x, p)
  <2>1. HoldingVectors \in HoldingStates
        /\ Stands(HoldingVectors.quantities[x], HoldingVectors.values[x], HoldingVectors.prices[x])
    BY HoldingsAre
  <2>2. p \in Int
    BY <2>1 DEF HoldingStates
  <2> QED
    BY <2>1, <2>2 DEF Natural1, WorthItsShares
<1>4. \A k \in 1 .. n : trades[k].ticker = x => trades[k].price \in {NotGiven, p}
  BY <1>1 DEF Elements
<1>5. \A a \in HoldingStates, k \in 1 .. n : st[<<a, k>>] = ApplyTrade(a, trades[k])
  BY DEF TradeSteps
<1> HIDE DEF n, p, st, end
<1> DEFINE P == {k \in Nat : k <= n => WorthItsShares(F[k], x, p)}
<1>6. 0 \in P
  BY <1>2, <1>3 DEF Turns
<1>7. ASSUME NEW k \in P
      PROVE  k + 1 \in P
  <2>1. CASE k + 1 <= n
    <3>1. k \in 0 .. n /\ k + 1 \in 1 .. n /\ (k + 1) - 1 = k /\ WorthItsShares(F[k], x, p)
      BY <1>1, <2>1
    <3>2. F[k] \in HoldingStates /\ F[k + 1] = st[<<F[k], k + 1>>]
      BY <1>2, <3>1 DEF Turns
    <3>3. F[k + 1] = ApplyTrade(F[k], trades[k + 1])
      BY <1>5, <3>1, <3>2
    <3>4. WorthItsShares(ApplyTrade(F[k], trades[k + 1]), x, p)
      BY <1>1, <1>3, <1>4, <3>1, <3>2, ApplyKeepsWorth
    <3> QED
      BY <3>3, <3>4
  <2>2. CASE ~(k + 1 <= n)
    BY <2>2
  <2> QED
    BY <2>1, <2>2
<1>8. P = Nat
  <2> HIDE DEF P
  <2>1. P \in SUBSET Nat
    BY DEF P
  <2> QED
    BY <1>6, <1>7, <2>1, Counting
<1>9. WorthItsShares(F[n], x, p) /\ F[n] \in HoldingStates
  <2>1. n \in P /\ n \in 0 .. n
    BY <1>1, <1>8
  <2> QED
    BY <1>1, <1>2, <2>1 DEF Turns
<1> DEFINE v == end.values[x]
           q == end.quantities[x]
<1>10. Stands(q, v, p) /\ v \in Int
  BY <1>2, <1>9 DEF WorthItsShares, HoldingStates
<1> HIDE DEF v, q
<1>11. Whole(v) = Scaled(q, p, 1)
  <2>0. 1 \in Natural1 /\ p \in Int
    BY <1>3 DEF Natural1
  <2>1. Stands(Scaled(q, p, 1), v * p, p * 1) /\ IsFraction(Scaled(q, p, 1))
    BY <1>10, <2>0, ScaledStands
  <2>2. p * 1 = p
    BY <2>0
  <2>3. Stands(Whole(v), v * p, p) /\ IsFraction(Whole(v))
    BY <1>3, <1>10, WholeStands
  <2>4. Stands(Scaled(q, p, 1), v * p, p)
    BY <2>1, <2>2
  <2> QED
    BY <2>1, <2>3, <2>4, StandsEqual
<1> QED
  BY <1>11 DEF v, q, p, end

-----------------------------------------------------------------------------

(* Nothing is answered at first.                                             *)
LEMMA AnalysisStarts ==
  ASSUME AnalysisInit
  PROVE  portfolio \in Portfolios /\ TradesMoveValue
  BY DEF AnalysisInit, TradesMoveValue

(* Each call has its own kinds of answer.                                    *)
LEMMA OtherAnswers ==
  /\ \A o, a, b : OptimizePortfolio(o, a, b).kind \in {"refused", "unoptimized", "optimized"}
  /\ \A t : SimulateTrade(t).kind \in {"refused", "simulated"}
  /\ \A t : AnalyzeTradeImpact(t).kind \in {"refused", "impact"}
  /\ \A s, b, m : ReweightForRisk(s, b, m).kind \in {"refused", "reweighted"}
<1>1. \A o, a, b : OptimizePortfolio(o, a, b).kind \in {"refused", "unoptimized", "optimized"}
  BY DEF OptimizePortfolio, Refusal
<1>2. \A t : SimulateTrade(t).kind \in {"refused", "simulated"}
  BY DEF SimulateTrade, Refusal
<1>3. \A t : AnalyzeTradeImpact(t).kind \in {"refused", "impact"}
  BY DEF AnalyzeTradeImpact, Refusal
<1>4. \A s, b, m : ReweightForRisk(s, b, m).kind \in {"refused", "reweighted"}
  BY DEF ReweightForRisk, Refusal
<1> QED
  BY <1>1, <1>2, <1>3, <1>4

AnalysisInv == portfolio \in Portfolios /\ TradesMoveValue

(* Each call answers a simulation, or an impact, that moves value.           *)
LEMMA AnalysisKept ==
  ASSUME AnalysisInv, [AnalysisNext]_analysisVars
  PROVE  AnalysisInv'
<1>0. portfolio \in Portfolios /\ portfolio' = portfolio
  BY DEF AnalysisInv, AnalysisNext, analysisVars
<1>1. CASE UNCHANGED analysisVars
  BY <1>1 DEF AnalysisInv, analysisVars, TradesMoveValue, TotalEquity, PositionsMarketValue, Holding
<1>2. ASSUME analysis'.kind \notin {"simulated", "impact"}
      PROVE  AnalysisInv'
  BY <1>0, <1>2 DEF AnalysisInv, TradesMoveValue
<1>3. ASSUME NEW t \in SingleTrades, analysis' = SimulateTrade(t), SimulateTrade(t).kind = "simulated"
      PROVE  AnalysisInv'
  <2>1. SimulationMoves(t, SimulateTrade(t))
    BY <1>0, <1>3, SimulateMoves
  <2>2. TotalEquity' = TotalEquity /\ \A s : Holding(s)' = Holding(s)
    BY <1>0 DEF TotalEquity, PositionsMarketValue, Holding
  <2> QED
    BY <1>0, <1>3, <2>1, <2>2 DEF AnalysisInv, TradesMoveValue, SimulationMoves
<1>4. ASSUME NEW trades \in TradeLists, analysis' = AnalyzeTradeImpact(trades),
             AnalyzeTradeImpact(trades).kind = "impact"
      PROVE  AnalysisInv'
  <2>1. AnalyzeTradeImpact(trades)
          = [kind |-> "impact", trades |-> trades, before |-> HoldingVectors,
             after |-> FoldLeft(ApplyTrade, HoldingVectors, trades)]
    BY <1>4 DEF AnalyzeTradeImpact, Refusal
  <2>2. /\ analysis'.kind = "impact" /\ analysis'.trades = trades /\ analysis'.before = HoldingVectors
        /\ analysis'.after = FoldLeft(ApplyTrade, HoldingVectors, trades)
    BY <1>4, <2>1
  <2>3. \A x \in CovarianceTickers :
          HoldingVectors.prices[x] > 0
          /\ (\A t \in Elements(trades) : t.ticker = x => t.price \in {NotGiven, HoldingVectors.prices[x]})
          => Whole(analysis'.after.values[x])
               = Scaled(analysis'.after.quantities[x], HoldingVectors.prices[x], 1)
    BY <1>0, <2>2, TradesKeepWorth
  <2> QED
    BY <1>0, <2>2, <2>3 DEF AnalysisInv, TradesMoveValue
<1> QED
  <2>1. AnalysisNext \/ UNCHANGED analysisVars
    OBVIOUS
  <2> QED
    BY <1>1, <1>2, <1>3, <1>4, <2>1, OtherAnswers DEF AnalysisNext

(* A trade moves value and makes none, simulated alone or in a list.         *)
THEOREM TradesMove == AnalysisSpec => []TradesMoveValue
<1>1. AnalysisInit => AnalysisInv
  BY AnalysisStarts DEF AnalysisInv
<1>2. AnalysisInv /\ [AnalysisNext]_analysisVars => AnalysisInv'
  BY AnalysisKept
<1>3. AnalysisInv => TradesMoveValue
  BY DEF AnalysisInv
<1> QED
  BY <1>1, <1>2, <1>3, PTL DEF AnalysisSpec

-----------------------------------------------------------------------------
(* _bounded_normalize: weights within their bounds.                          *)

LEMMA SumConstant ==
  ASSUME NEW S, IsFiniteSet(S), NEW k \in Int, NEW v, \A x \in S : v[x] = k
  PROVE  SumIn(v, S) = k * Cardinality(S) /\ Cardinality(S) \in Nat
<1> DEFINE P == {s \in SUBSET S : SumIn(v, s) = k * Cardinality(s)}
<1>0. \A s \in SUBSET S : IsFiniteSet(s) /\ Numbers(v, s)
  BY FS_Subset DEF Numbers
<1>1. {} \in P
  <2>1. SumIn(v, {}) = 0 /\ Cardinality({}) = 0
    BY <1>0, TotalStep, FS_EmptySet
  <2>2. k * 0 = 0
    OBVIOUS
  <2> QED
    BY <2>1, <2>2
<1>2. \A s \in SUBSET S : s # {} /\ (\A x \in s : s \ {x} \in P) => s \in P
  <2> SUFFICES ASSUME NEW s \in SUBSET S, s # {}, \A x \in s : s \ {x} \in P
               PROVE  SumIn(v, s) = k * Cardinality(s)
    OBVIOUS
  <2>1. PICK x \in s : TRUE
    OBVIOUS
  <2> DEFINE c == Cardinality(s)
             r == s \ {x}
  <2>2. IsFiniteSet(r) /\ Cardinality(r) = c - 1 /\ c \in Nat
    BY <1>0, <2>1, FS_RemoveElement, FS_CardinalityType
  <2>3. SumIn(v, s) = v[x] + SumIn(v, r) /\ v[x] = k
    BY <1>0, <2>1, TotalRemove
  <2>4. SumIn(v, r) = k * Cardinality(r)
    BY <2>1
  <2> HIDE DEF c, r
  <2>5. k + k * (c - 1) = k * c
    BY <2>2
  <2> QED
    BY <2>2, <2>3, <2>4, <2>5 DEF c
<1>3. P = SUBSET S
  <2> HIDE DEF P
  <2>1. P \in SUBSET SUBSET S
    BY DEF P
  <2> QED
    BY <1>1, <1>2, <2>1, Removing
<1> QED
  BY <1>3, FS_CardinalityType

(* The sum over a set is that over a part of it and that over the rest.      *)
LEMMA SumSplit ==
  ASSUME NEW S, IsFiniteSet(S), NEW v, Numbers(v, S), NEW T \in SUBSET S
  PROVE  /\ SumIn(v, S) = SumIn(v, T) + SumIn(v, S \ T)
         /\ SumIn(v, T) \in Int /\ SumIn(v, S \ T) \in Int
         /\ IsFiniteSet(T) /\ IsFiniteSet(S \ T) /\ Numbers(v, T) /\ Numbers(v, S \ T)
         /\ Cardinality(T) \in Nat /\ Cardinality(S) \in Nat
         /\ Cardinality(S \ T) = Cardinality(S) - Cardinality(T)
<1>1. IsFiniteSet(T) /\ IsFiniteSet(S \ T) /\ Numbers(v, T) /\ Numbers(v, S \ T)
      /\ T \cap (S \ T) = {} /\ T \cup (S \ T) = S /\ S \cap T = T
  BY FS_Subset DEF Numbers
<1>2. SumIn(v, T \cup (S \ T)) = SumIn(v, T) + SumIn(v, S \ T)
  BY <1>1, TotalUnion
<1>3. SumIn(v, T) \in Int /\ SumIn(v, S \ T) \in Int
  BY <1>1, TotalStep
<1>4. Cardinality(T) \in Nat /\ Cardinality(S) \in Nat
      /\ Cardinality(S \ T) = Cardinality(S) - Cardinality(S \cap T)
  BY <1>1, FS_CardinalityType, FS_Difference
<1> QED
  BY <1>1, <1>2, <1>3, <1>4

-----------------------------------------------------------------------------
(* What the scores are worth keeps their order.                              *)
LEMMA WorthsKeepOrder ==
  ASSUME NEW scores, \A x \in DOMAIN scores : scores[x] \in Int
  PROVE  /\ Worths(scores) \in [DOMAIN scores -> Nat]
         /\ \A x, y \in DOMAIN scores : scores[x] <= scores[y] => Worths(scores)[x] <= Worths(scores)[y]
<1>1. CASE \A x \in DOMAIN scores : scores[x] <= 0
  BY <1>1 DEF Worths
<1>2. CASE ~(\A x \in DOMAIN scores : scores[x] <= 0)
  <2>1. Worths(scores) = [x \in DOMAIN scores |-> Larger(scores[x], 0)]
    BY <1>2 DEF Worths
  <2> QED
    BY <2>1 DEF Larger
<1> QED
  BY <1>1, <1>2

(* What weights must be at the end: numerators over one denominator.         *)
Weighed(weights, S, w, min, max, N, d) ==
  /\ d \in Natural1 /\ N \in [S -> Int] /\ SumIn(N, S) = 100 * d
  /\ \A x \in S : Stands(weights[x], N[x], d) /\ min * d <= N[x] /\ N[x] <= max * d
  /\ \A x, y \in S : w[x] <= w[y] => N[x] <= N[y]
AreWeighed(weights, S, w, min, max) == \E N, d : Weighed(weights, S, w, min, max, N, d)

SharingStates(S, w, min, max) ==
  [min : {min}, max : {max}, active : SUBSET S, remaining : Nat, weights : [S -> Pairs], scores : {w}]
Sharing(s, S, w, min, max) ==
  /\ s.weights = [x \in S |-> IF x \in s.active THEN Whole(min) ELSE Whole(max)]
  /\ s.remaining + min * Cardinality(s.active) + max * Cardinality(S \ s.active) = 100
  /\ \A x \in S \ s.active, y \in s.active : w[y] < w[x]
WasShared(s, S, w, min, max) == s.remaining = 0 /\ AreWeighed(s.weights, S, w, min, max)
Sharings(S, w, min, max) ==
  {s \in SharingStates(S, w, min, max) :
     Sharing(s, S, w, min, max) \/ WasShared(s, S, w, min, max)}
Shareable(S, w, min, max) ==
  /\ IsFiniteSet(S) /\ w \in [S -> Nat]
  /\ min \in Nat /\ max \in Nat /\ min <= max /\ max * Cardinality(S) >= 100

(* A whole number is a pair.                                                 *)
LEMMA WholePairs ==
  ASSUME NEW k \in Int
  PROVE  Whole(k) \in Pairs
  BY DEF Whole, Pairs, Natural1

(* Nothing left to share: the weights are done.                              *)
LEMMA SharedOut ==
  ASSUME NEW S, NEW w, NEW min, NEW max, Shareable(S, w, min, max),
         NEW s \in SharingStates(S, w, min, max), Sharing(s, S, w, min, max), s.remaining = 0
  PROVE  AreWeighed(s.weights, S, w, min, max)
<1> DEFINE T == s.active
           N == [x \in S |-> IF x \in T THEN min ELSE max]
           m == Cardinality(T)
           r == Cardinality(S \ T)
<1>1. T \in SUBSET S /\ IsFiniteSet(S) /\ min \in Nat /\ max \in Nat /\ min <= max /\ Numbers(N, S)
  BY DEF SharingStates, Shareable, Numbers
<1>2. /\ \A x \in T : N[x] = min
      /\ \A x \in S \ T : N[x] = max
      /\ 0 + min * m + max * r = 100
      /\ \A x \in S \ T, y \in T : w[y] < w[x]
      /\ \A x \in S : s.weights[x] = Whole(N[x])
  BY <1>1 DEF Sharing
<1>3. \A x \in S : N[x] \in Int /\ min <= N[x] /\ N[x] <= max
  BY <1>1
<1>a. N \in [S -> Int]
  BY <1>1
<1> HIDE DEF N, T
<1>4. SumIn(N, S) = SumIn(N, T) + SumIn(N, S \ T) /\ IsFiniteSet(T) /\ IsFiniteSet(S \ T)
  BY <1>1, SumSplit
<1>5. SumIn(N, T) = min * m /\ SumIn(N, S \ T) = max * r /\ m \in Nat /\ r \in Nat
  BY <1>1, <1>2, <1>4, SumConstant
<1>6. SumIn(N, S) = 100 * 1
  <2> DEFINE a == min * m
             b == max * r
  <2>1. a \in Int /\ b \in Int
    BY <1>1, <1>5
  <2> HIDE DEF a, b
  <2> QED
    BY <1>2, <1>4, <1>5, <2>1 DEF a, b
<1>7. 1 \in Natural1
  BY DEF Natural1
<1>8. ASSUME NEW x \in S
      PROVE  Stands(s.weights[x], N[x], 1) /\ min * 1 <= N[x] /\ N[x] <= max * 1
  <2>1. N[x] \in Int /\ N[x] * 1 = N[x] /\ min * 1 = min /\ max * 1 = max
    BY <1>1, <1>3
  <2>2. Stands(Whole(N[x]), N[x] * 1, 1)
    BY <1>7, <2>1, WholeStands
  <2> QED
    BY <1>2, <1>3, <2>1, <2>2
<1>9. \A x, y \in S : w[x] <= w[y] => N[x] <= N[y]
  <2>1. ASSUME NEW x \in S, NEW y \in S, w[x] <= w[y]
        PROVE  N[x] <= N[y]
    <3>0. w[x] \in Nat /\ w[y] \in Nat
      BY DEF Shareable
    <3>1. CASE x \in T
      BY <1>2, <1>3, <3>1
    <3>2. CASE x \notin T
      <4>1. y \notin T
        BY <1>2, <2>1, <3>0, <3>2
      <4> QED
        BY <1>1, <1>2, <3>2, <4>1
    <3> QED
      BY <3>1, <3>2
  <2> QED
    BY <2>1
<1> QED
  <2>1. Weighed(s.weights, S, w, min, max, N, 1)
    BY <1>6, <1>7, <1>8, <1>9, <1>a DEF Weighed
  <2> QED
    BY <2>1 DEF AreWeighed

(* What an active one gets: its part u of a.                                 *)
Parts(s, A, w, u, a) ==
  /\ a \in Natural1 /\ u \in [A -> Nat] /\ SumIn(u, A) = a
  /\ \A x \in A : Shared(s, x) = <<s.min * a + s.remaining * u[x], a>>
  /\ \A x, y \in A : /\ w[x] <= w[y] => u[x] <= u[y]
                     /\ u[x] < u[y] => w[x] < w[y]

(* What remains is shared by parts: the scores, or one part each when every  *)
(* score is 0.                                                               *)
LEMMA PartsExist ==
  ASSUME NEW s, NEW w, s.scores = w, NEW A, A = s.active, A # {}, IsFiniteSet(A),
         \A x \in A : w[x] \in Nat, s.min \in Nat, s.remaining \in Nat
  PROVE  \E u, a : Parts(s, A, w, u, a)
<1> DEFINE v == [y \in A |-> w[y]]
           all == Total(v)
<1>1. all = SumIn(v, A) /\ all \in Nat
  <2>1. all = SumIn(v, DOMAIN v) /\ DOMAIN v = A /\ \A x \in A : v[x] \in Nat
    BY TotalIs
  <2> HIDE DEF v
  <2> QED
    BY <2>1, TotalNat
<1>2. Shared(s, s.active) = Shared(s, A) /\ Total([y \in s.active |-> s.scores[y]]) = all
  OBVIOUS
<1>3. CASE all = 0
  <2> DEFINE u == [x \in A |-> 1]
             a == Cardinality(A)
  <2>1. a \in Nat /\ a # 0
    BY FS_CardinalityType, FS_EmptySet
  <2>2. a \in Natural1
    BY <2>1 DEF Natural1
  <2>3. SumIn(u, A) = 1 * a
    BY SumConstant
  <2>4. ASSUME NEW x \in A
        PROVE  Shared(s, x) = <<s.min * a + s.remaining * u[x], a>>
    <3>1. Shared(s, x) = <<s.min * a + s.remaining, a>>
      BY <1>2, <1>3 DEF Shared
    <3>2. s.remaining * 1 = s.remaining /\ u[x] = 1
      OBVIOUS
    <3> QED
      BY <3>1, <3>2
  <2>5. \A x \in A : w[x] = 0
    <3>1. ASSUME NEW x \in A
          PROVE  w[x] = 0
      <4>1. v[x] = w[x] /\ w[x] \in Nat /\ Numbers(v, A) /\ \A y \in A : v[y] \in Nat
        BY DEF Numbers
      <4> HIDE DEF v, all
      <4>2. SumIn(v, A) = v[x] + SumIn(v, A \ {x})
        BY <4>1, TotalRemove
      <4>3. SumIn(v, A \ {x}) \in Nat
        BY <4>1, FS_RemoveElement, TotalNat
      <4>4. SumIn(v, A) = 0
        BY <1>1, <1>3
      <4> DEFINE k == SumIn(v, A \ {x})
      <4> HIDE DEF k
      <4>5. v[x] \in Nat /\ k \in Nat /\ 0 = v[x] + k
        BY <4>1, <4>2, <4>3, <4>4 DEF k
      <4>6. v[x] = 0
        BY <4>5
      <4> QED
        BY <4>1, <4>6
    <3> QED
      BY <3>1
  <2>6. 1 * a = a /\ u \in [A -> Nat] /\ \A x \in A : u[x] = 1
    BY <2>1
  <2> HIDE DEF u, a
  <2>7. Parts(s, A, w, u, a)
    BY <2>2, <2>3, <2>4, <2>5, <2>6 DEF Parts
  <2> QED
    BY <2>7
<1>4. CASE all # 0
  <2>1. all \in Natural1
    BY <1>1, <1>4 DEF Natural1
  <2>2. \A x \in A : Shared(s, x) = <<s.min * all + s.remaining * v[x], all>>
    BY <1>2, <1>4 DEF Shared
  <2>3. v \in [A -> Nat] /\ \A x \in A : v[x] = w[x]
    OBVIOUS
  <2> HIDE DEF v, all
  <2>4. Parts(s, A, w, v, all)
    BY <1>1, <2>1, <2>2, <2>3 DEF Parts
  <2> QED
    BY <2>4
<1> QED
  BY <1>3, <1>4

(* A round that caps nobody hands out the rest.                              *)
NoneCapped(s, u, a) == \A x \in s.active : s.min * a + s.remaining * u[x] <= s.max * a

(* A round in which none reaches the maximum hands out all that is left,     *)
(* within the bounds.                                                        *)
LEMMA ShareAll ==
  ASSUME NEW S, NEW w, NEW min, NEW max, Shareable(S, w, min, max),
         NEW s \in SharingStates(S, w, min, max), Sharing(s, S, w, min, max),
         NEW u, NEW a, Parts(s, s.active, w, u, a),
         NoneCapped(s, u, a)
  PROVE  AreWeighed([x \in S |-> IF x \in s.active THEN Shared(s, x) ELSE s.weights[x]], S, w, min, max)
<1> DEFINE T == s.active
           rem == s.remaining
           N == [x \in S |-> IF x \in T THEN min * a + rem * u[x] ELSE max * a]
           W == [x \in S |-> IF x \in s.active THEN Shared(s, x) ELSE s.weights[x]]
           m == Cardinality(T)
           r == Cardinality(S \ T)
           c == [x \in T |-> min * a]
           f == [x \in T |-> rem * u[x]]
<1>1. T \in SUBSET S /\ IsFiniteSet(S) /\ min \in Nat /\ max \in Nat /\ min <= max
      /\ rem \in Nat /\ s.min = min /\ s.max = max
  BY DEF SharingStates, Shareable
<1>2. /\ a \in Natural1 /\ a \in Nat /\ u \in [T -> Nat] /\ SumIn(u, T) = a
      /\ \A x \in T : Shared(s, x) = <<min * a + rem * u[x], a>>
      /\ \A x, y \in T : w[x] <= w[y] => u[x] <= u[y]
  BY <1>1 DEF Parts, Natural1
<1>3. /\ \A x \in S : s.weights[x] = IF x \in T THEN Whole(min) ELSE Whole(max)
      /\ rem + min * m + max * r = 100
      /\ \A x \in S \ T, y \in T : w[y] < w[x]
  BY DEF Sharing
<1>4. \A x \in T : min * a + rem * u[x] <= max * a
  BY <1>1 DEF NoneCapped
<1> HIDE DEF T, rem
<1>5. ASSUME NEW x \in T
      PROVE  u[x] \in Nat /\ rem * u[x] \in Nat /\ min * a \in Nat /\ max * a \in Nat
  BY <1>1, <1>2
<1>6. min * a \in Nat /\ max * a \in Nat /\ min * a <= max * a
  BY <1>1, <1>2
<1>7. N \in [S -> Int] /\ (\A x \in T : N[x] = c[x] + f[x] /\ c[x] = min * a /\ f[x] = u[x] * rem)
      /\ \A x \in S \ T : N[x] = max * a
  <2>1. \A x \in T : rem * u[x] = u[x] * rem
    BY <1>1, <1>5
  <2> QED
    BY <1>1, <1>5, <1>6, <2>1
<1>8. \A x \in S : min * a <= N[x] /\ N[x] <= max * a
  BY <1>4, <1>5, <1>6
<1> HIDE DEF N, c, f
<1>9. Numbers(N, S) /\ IsFiniteSet(T) /\ IsFiniteSet(S \ T) /\ m \in Nat /\ r \in Nat
      /\ SumIn(N, S) = SumIn(N, T) + SumIn(N, S \ T)
  <2>1. Numbers(N, S)
    BY <1>7 DEF Numbers
  <2>2. T \in SUBSET S /\ IsFiniteSet(S)
    BY <1>1
  <2> HIDE DEF W
  <2>3. IsFiniteSet(T) /\ IsFiniteSet(S \ T)
    BY <2>2, FS_Subset
  <2>4. SumIn(N, S) = SumIn(N, T) + SumIn(N, S \ T)
    BY <2>1, <2>2, SumSplit
  <2> QED
    BY <2>1, <2>3, <2>4, FS_CardinalityType
<1>10. SumIn(N, T) = (min * a) * m + a * rem
  <2>1. Numbers(c, T) /\ Numbers(f, T) /\ Numbers(u, T)
    <3>1. ASSUME NEW x \in T
          PROVE  c[x] \in Int /\ f[x] \in Int /\ u[x] \in Int
      <4>1. c[x] = min * a /\ f[x] = u[x] * rem /\ u[x] \in Nat /\ u[x] * rem \in Int
        BY <1>1, <1>5, <1>7
      <4> QED
        BY <1>6, <4>1
    <3> QED
      BY <3>1 DEF Numbers
  <2>2. SumIn(N, T) = SumIn(c, T) + SumIn(f, T)
    BY <1>7, <1>9, <2>1, SumsAdd
  <2>3. SumIn(c, T) = (min * a) * m
    <3> DEFINE k == min * a
    <3>1. k \in Int /\ \A x \in T : c[x] = k
      BY <1>6, <1>7
    <3> HIDE DEF k
    <3>2. SumIn(c, T) = k * m
      BY <1>9, <3>1, SumConstant
    <3> QED
      BY <3>2 DEF k
  <2>4. SumIn(f, T) = SumIn(u, T) * rem
    BY <1>1, <1>7, <1>9, <2>1, SumFactor
  <2> QED
    BY <1>2, <2>2, <2>3, <2>4
<1>11. SumIn(N, S \ T) = (max * a) * r
  <2> DEFINE k == max * a
  <2>1. k \in Int /\ \A x \in S \ T : N[x] = k
    BY <1>6, <1>7
  <2> HIDE DEF k
  <2>2. SumIn(N, S \ T) = k * r
    BY <1>9, <2>1, SumConstant
  <2> QED
    BY <2>2 DEF k
<1>12. SumIn(N, S) = 100 * a
  <2>1. (min * a) * m + a * rem + (max * a) * r = (rem + min * m + max * r) * a
    <3>1. (min * a) * m = (min * m) * a /\ (max * a) * r = (max * r) * a /\ a * rem = rem * a
      BY <1>1, <1>2, <1>9
    <3> DEFINE i == min * m
               j == max * r
    <3>2. i \in Int /\ j \in Int
      BY <1>1, <1>9
    <3> HIDE DEF i, j
    <3>3. i * a + rem * a + j * a = (rem + i + j) * a
      BY <1>1, <1>2, <3>2
    <3> QED
      BY <3>1, <3>3 DEF i, j
  <2> QED
    BY <1>3, <1>9, <1>10, <1>11, <2>1
<1>13. ASSUME NEW x \in S
       PROVE  Stands(W[x], N[x], a)
  <2>1. CASE x \in T
    <3>1. W[x] = <<N[x], a>> /\ N[x] \in Int
      BY <1>2, <1>7, <2>1 DEF N, T
    <3> HIDE DEF W
    <3> QED
      BY <1>2, <3>1, StandsItself
  <2>2. CASE x \notin T
    <3>1. W[x] = Whole(max) /\ N[x] = max * a
      BY <1>3, <1>7, <2>2 DEF T
    <3> HIDE DEF W
    <3> QED
      BY <1>1, <1>2, <3>1, WholeStands
  <2> QED
    BY <2>1, <2>2
<1>14. \A x, y \in S : w[x] <= w[y] => N[x] <= N[y]
  <2>1. ASSUME NEW x \in S, NEW y \in S, w[x] <= w[y]
        PROVE  N[x] <= N[y]
    <3>0. w[x] \in Nat /\ w[y] \in Nat /\ N[x] \in Int /\ N[y] \in Int
      BY <1>7 DEF Shareable
    <3>1. CASE y \notin T
      BY <1>7, <1>8, <3>1
    <3>2. CASE y \in T
      <4>1. x \in T
        BY <1>3, <2>1, <3>0, <3>2
      <4>2. u[x] <= u[y] /\ u[x] \in Nat /\ u[y] \in Nat
        BY <1>2, <2>1, <3>2, <4>1
      <4>3. u[x] * rem <= u[y] * rem
        BY <1>1, <4>2
      <4>4. N[x] = min * a + u[x] * rem /\ N[y] = min * a + u[y] * rem
            /\ u[x] * rem \in Int /\ u[y] * rem \in Int
        BY <1>1, <1>7, <3>2, <4>1, <4>2
      <4> QED
        BY <1>6, <4>3, <4>4
    <3> QED
      BY <3>1, <3>2
  <2> QED
    BY <2>1
<1> QED
  <2> HIDE DEF W
  <2>1. Weighed(W, S, w, min, max, N, a)
    BY <1>2, <1>7, <1>8, <1>12, <1>13, <1>14 DEF Weighed
  <2> QED
    BY <2>1 DEF AreWeighed, W

Capped(s) == {x \in s.active : Exceeds(Shared(s, x), Whole(s.max))}

(* Who would get more than the maximum, told by the parts.                   *)
LEMMA CappedParts ==
  ASSUME NEW s, NEW w, NEW u, NEW a, Parts(s, s.active, w, u, a), s.min \in Nat, s.remaining \in Nat
  PROVE  Capped(s) = {x \in s.active : s.min * a + s.remaining * u[x] > s.max * a}
<1>2. ASSUME NEW x \in s.active
      PROVE  Exceeds(Shared(s, x), Whole(s.max)) <=> s.min * a + s.remaining * u[x] > s.max * a
  <2> DEFINE n == s.min * a + s.remaining * u[x]
             m == s.max * a
  <2>1. Shared(s, x) = <<n, a>>
    BY DEF Parts
  <2>2. n \in Int
    <3>1. a \in Int /\ u[x] \in Int /\ s.min \in Int /\ s.remaining \in Int
      BY DEF Parts, Natural1
    <3> QED
      BY <3>1
  <2> HIDE DEF n
  <2>3. Exceeds(Shared(s, x), Whole(s.max)) <=> n * 1 > m
    BY <2>1 DEF Exceeds, Whole
  <2> HIDE DEF m
  <2>4. n * 1 = n
    BY <2>2
  <2> QED
    BY <2>3, <2>4 DEF n, m
<1> QED
  BY <1>2 DEF Capped

(* Those capped take no more than is there.                                  *)
LEMMA CapsAffordable ==
  ASSUME NEW A, IsFiniteSet(A), NEW K \in SUBSET A, NEW u \in [A -> Nat], NEW a \in Natural1,
         SumIn(u, A) = a, NEW rem \in Nat, NEW gap \in Nat,
         \A x \in K : gap * a <= rem * u[x]
  PROVE  Cardinality(K) * gap <= rem /\ Cardinality(K) \in Nat
<1> DEFINE k == Cardinality(K)
           v == [x \in K |-> u[x] * rem]
           c == [x \in K |-> gap * a]
<1>0. a \in Nat /\ Numbers(u, A)
  BY DEF Natural1, Numbers
<1>1. IsFiniteSet(K) /\ IsFiniteSet(A \ K) /\ Numbers(u, K) /\ k \in Nat
      /\ SumIn(u, A) = SumIn(u, K) + SumIn(u, A \ K) /\ SumIn(u, K) \in Int
  BY <1>0, SumSplit
<1>2. SumIn(u, A \ K) \in Nat
  BY <1>1, TotalNat
<1>3. SumIn(u, K) <= a
  <2> DEFINE f == SumIn(u, K)
             g == SumIn(u, A \ K)
  <2>1. a = f + g /\ f \in Int /\ g \in Nat
    BY <1>1, <1>2
  <2> HIDE DEF f, g
  <2> QED
    BY <1>0, <2>1 DEF f
<1>4. ASSUME NEW x \in K
      PROVE  v[x] \in Int /\ c[x] \in Int /\ c[x] <= v[x] /\ v[x] = u[x] * rem /\ c[x] = gap * a
  <2>1. u[x] \in Nat /\ u[x] * rem = rem * u[x] /\ u[x] * rem \in Int /\ gap * a \in Int
    BY <1>0
  <2> QED
    BY <2>1
<1> HIDE DEF v, c
<1>5. Numbers(v, K) /\ Numbers(c, K)
  BY <1>4 DEF Numbers
<1>6. SumIn(c, K) <= SumIn(v, K)
  BY <1>1, <1>4, <1>5, SumAtMost
<1>7. SumIn(v, K) = SumIn(u, K) * rem
  BY <1>1, <1>4, SumFactor
<1>8. SumIn(c, K) = (gap * a) * k
  <2> DEFINE e == gap * a
  <2>1. e \in Int /\ \A x \in K : c[x] = e
    BY <1>0, <1>4
  <2> HIDE DEF e
  <2>2. SumIn(c, K) = e * k
    BY <1>1, <2>1, SumConstant
  <2> QED
    BY <2>2 DEF e
<1>9. (gap * a) * k = (k * gap) * a
  BY <1>0, <1>1
<1>10. SumIn(u, K) * rem <= rem * a
  <2> DEFINE f == SumIn(u, K)
  <2>1. f \in Int /\ f <= a
    BY <1>1, <1>3
  <2> HIDE DEF f
  <2>2. f * rem <= a * rem /\ a * rem = rem * a
    BY <1>0, <2>1
  <2> QED
    BY <2>2 DEF f
<1>11. (k * gap) * a <= rem * a
  <2> DEFINE f == SumIn(u, K) * rem
             g == rem * a
             h == (k * gap) * a
  <2>1. f \in Int /\ g \in Int /\ h \in Int /\ f <= g /\ h <= f
    <3>1. SumIn(u, K) * rem \in Int /\ rem * a \in Int /\ (k * gap) * a \in Int
      BY <1>0, <1>1
    <3> QED
      BY <1>6, <1>7, <1>8, <1>9, <1>10, <3>1
  <2> HIDE DEF f, g, h
  <2>2. h <= g
    BY <2>1
  <2> QED
    BY <2>2 DEF g, h
<1>12. k * gap \in Int
  BY <1>1
<1> DEFINE e == k * gap
<1> HIDE DEF e
<1>13. e <= rem
  BY <1>11, <1>12, Cancel DEF e
<1> QED
  BY <1>1, <1>13 DEF e

(* A round that caps some gives them max, and keeps the others in their     *)
(* order.                                                                    *)
CappedRound(s) ==
  [s EXCEPT !.weights = [x \in DOMAIN @ |-> IF x \in Capped(s) THEN Whole(s.max) ELSE @[x]],
            !.remaining = @ - Cardinality(Capped(s)) * (s.max - s.min),
            !.active = @ \ Capped(s)]

(* A round in which some reach it leaves fewer that are active, and what     *)
(* remains still fits.                                                       *)
LEMMA ShareCapped ==
  ASSUME NEW S, NEW w, NEW min, NEW max, Shareable(S, w, min, max),
         NEW s \in SharingStates(S, w, min, max), Sharing(s, S, w, min, max),
         NEW u, NEW a, Parts(s, s.active, w, u, a), Capped(s) # {}
  PROVE  /\ CappedRound(s) \in SharingStates(S, w, min, max)
         /\ Sharing(CappedRound(s), S, w, min, max)
         /\ Cardinality(CappedRound(s).active) < Cardinality(s.active)
<1> DEFINE T == s.active
           K == Capped(s)
           rem == s.remaining
           gap == max - min
           k == Cardinality(K)
           m == Cardinality(T)
           r == Cardinality(S \ T)
           next == CappedRound(s)
<1> HIDE DEF next
<1>1. T \in SUBSET S /\ IsFiniteSet(S) /\ min \in Nat /\ max \in Nat /\ min <= max
      /\ rem \in Nat /\ s.min = min /\ s.max = max /\ s.weights \in [S -> Pairs] /\ s.scores = w
  BY DEF SharingStates, Shareable
<1>2. /\ a \in Natural1 /\ a \in Nat /\ u \in [T -> Nat] /\ SumIn(u, T) = a
      /\ \A x, y \in T : u[x] < u[y] => w[x] < w[y]
  BY DEF Parts, Natural1
<1>3. /\ \A x \in S : s.weights[x] = IF x \in T THEN Whole(min) ELSE Whole(max)
      /\ rem + min * m + max * r = 100
      /\ \A x \in S \ T, y \in T : w[y] < w[x]
  BY DEF Sharing
<1>4. K = {x \in T : min * a + rem * u[x] > max * a}
  <2>1. K = {x \in s.active : s.min * a + s.remaining * u[x] > s.max * a}
    BY <1>1, CappedParts
  <2> QED
    BY <1>1, <2>1
<1>5. K \in SUBSET T /\ IsFiniteSet(T) /\ IsFiniteSet(S \ T) /\ IsFiniteSet(K) /\ K # {} /\ K \in SUBSET S
  BY <1>1, <1>4, FS_Subset
<1>6. m \in Nat /\ r \in Nat /\ k \in Nat /\ k # 0
  BY <1>5, FS_CardinalityType, FS_EmptySet
<1> HIDE DEF T, rem, K
<1>7. k * gap <= rem
  <2>1. gap \in Nat
    BY <1>1
  <2>2. ASSUME NEW x \in K
        PROVE  gap * a <= rem * u[x]
    <3>1. x \in T /\ min * a + rem * u[x] > max * a /\ u[x] \in Nat
      BY <1>2, <1>4, <1>5
    <3>2. (max - min) * a = max * a - min * a
      BY <1>1, <1>2
    <3>3. min * a \in Int /\ max * a \in Int /\ rem * u[x] \in Int
      BY <1>1, <1>2, <3>1
    <3> QED
      BY <3>1, <3>2, <3>3
  <2> HIDE DEF gap
  <2> QED
    BY <1>1, <1>2, <1>5, <2>1, <2>2, CapsAffordable
<1>8. Cardinality(T \ K) = m - k
  <2>1. T \cap K = K
    BY <1>5
  <2>2. Cardinality(T \ K) = Cardinality(T) - Cardinality(T \cap K)
    BY <1>5, FS_Difference
  <2> QED
    BY <2>1, <2>2
<1>9. S \ (T \ K) = (S \ T) \cup K /\ (S \ T) \cap K = {}
  BY <1>1, <1>5
<1>10. Cardinality(S \ (T \ K)) = r + k
  <2>1. Cardinality((S \ T) \cup K) = Cardinality(S \ T) + Cardinality(K) - Cardinality((S \ T) \cap K)
    BY <1>5, FS_Union
  <2>2. Cardinality({}) = 0
    BY FS_EmptySet
  <2>3. Cardinality((S \ T) \cap K) = 0
    BY <1>9, <2>2
  <2>4. Cardinality(S \ (T \ K)) = Cardinality((S \ T) \cup K)
    BY <1>9
  <2> QED
    BY <1>6, <2>1, <2>3, <2>4
<1> DEFINE W == [x \in S |-> IF x \in T \ K THEN Whole(min) ELSE Whole(max)]
<1>11. [x \in DOMAIN s.weights |-> IF x \in K THEN Whole(max) ELSE s.weights[x]] = W
  BY <1>1, <1>3, <1>5
<1>12. W \in [S -> Pairs]
  BY <1>1, WholePairs
<1>13. next = [s EXCEPT !.weights = W, !.remaining = rem - k * gap, !.active = T \ K]
  BY <1>1, <1>11 DEF CappedRound, K, T, rem, next
<1>14. rem - k * gap \in Nat
  <2> DEFINE e == k * gap
  <2>1. e \in Int /\ e <= rem
    BY <1>1, <1>6, <1>7
  <2> HIDE DEF e
  <2> QED
    BY <1>1, <2>1 DEF e
<1> HIDE DEF W, next, gap, k, m, r
<1>15. next.weights = W /\ next.remaining = rem - k * gap /\ next.active = T \ K
  BY <1>13 DEF SharingStates
<1>16. next \in SharingStates(S, w, min, max)
  <2> DEFINE e == rem - k * gap
             R == T \ K
  <2>1. e \in Nat /\ R \in SUBSET S /\ next = [s EXCEPT !.weights = W, !.remaining = e, !.active = R]
    BY <1>1, <1>13, <1>14
  <2> HIDE DEF e, R
  <2> QED
    BY <1>12, <2>1 DEF SharingStates
<1>17. (rem - k * gap) + min * (m - k) + max * (r + k) = 100
  <2>1. k * gap = max * k - min * k
    BY <1>1, <1>6 DEF gap
  <2>2. min * (m - k) = min * m - min * k /\ max * (r + k) = max * r + max * k
    BY <1>1, <1>6
  <2> DEFINE a1 == max * k
             a2 == min * k
             a3 == min * m
             a4 == max * r
  <2>3. a1 \in Int /\ a2 \in Int /\ a3 \in Int /\ a4 \in Int
    BY <1>1, <1>6
  <2>4. k * gap = a1 - a2 /\ min * (m - k) = a3 - a2 /\ max * (r + k) = a4 + a1 /\ rem + a3 + a4 = 100
    BY <1>3, <2>1, <2>2 DEF m, r
  <2> HIDE DEF a1, a2, a3, a4
  <2> QED
    BY <1>1, <2>3, <2>4
<1>18. \A x \in S \ (T \ K), y \in T \ K : w[y] < w[x]
  <2>1. ASSUME NEW x \in S \ (T \ K), NEW y \in T \ K
        PROVE  w[y] < w[x]
    <3>1. CASE x \notin T
      BY <1>3, <2>1, <3>1
    <3>2. CASE x \in K
      <4>1. x \in T /\ y \in T /\ u[x] \in Nat /\ u[y] \in Nat
        BY <1>2, <1>5, <2>1, <3>2
      <4> DEFINE i == rem * u[x]
                 j == rem * u[y]
                 b == min * a
                 c == max * a
      <4>2. b + i > c /\ ~(b + j > c) /\ b \in Int /\ c \in Int /\ i \in Int /\ j \in Int
        BY <1>1, <1>2, <1>4, <2>1, <3>2, <4>1
      <4> HIDE DEF i, j, b, c
      <4>3. ~(i <= j)
        BY <4>2
      <4>4. u[x] <= u[y] => rem * u[x] <= rem * u[y]
        BY <1>1, <4>1
      <4>5. u[y] < u[x]
        BY <4>1, <4>3, <4>4 DEF i, j
      <4> QED
        BY <1>2, <4>1, <4>5
    <3> QED
      BY <1>1, <2>1, <3>1, <3>2
  <2> QED
    BY <2>1
<1>19. Sharing(next, S, w, min, max)
  <2>1. next.weights = [x \in S |-> IF x \in next.active THEN Whole(min) ELSE Whole(max)]
    BY <1>15 DEF W
  <2>2. next.remaining + min * Cardinality(next.active) + max * Cardinality(S \ next.active) = 100
    BY <1>8, <1>10, <1>15, <1>17
  <2>3. \A x \in S \ next.active, y \in next.active : w[y] < w[x]
    BY <1>15, <1>18
  <2> QED
    BY <2>1, <2>2, <2>3 DEF Sharing
<1>20. Cardinality(next.active) < m
  BY <1>6, <1>8, <1>15 DEF m, k
<1> QED
  BY <1>16, <1>19, <1>20 DEF next, m, T

(* A round ends the sharing or leaves fewer active.                          *)
LEMMA ShareRound ==
  ASSUME NEW S, NEW w, NEW min, NEW max, Shareable(S, w, min, max), NEW s \in Sharings(S, w, min, max)
  PROVE  /\ ShareRemaining(s) \in Sharings(S, w, min, max)
         /\ \/ WasShared(ShareRemaining(s), S, w, min, max)
            \/ /\ ~WasShared(s, S, w, min, max)
               /\ Cardinality(ShareRemaining(s).active) < Cardinality(s.active)
<1> DEFINE next == ShareRemaining(s)
<1>0. s \in SharingStates(S, w, min, max)
  BY DEF Sharings
<1>1. CASE WasShared(s, S, w, min, max)
  <2>1. next = s
    BY <1>1 DEF WasShared, ShareRemaining
  <2> QED
    BY <1>1, <2>1
<1>2. CASE Sharing(s, S, w, min, max) /\ s.remaining = 0
  <2>1. next = s
    BY <1>2 DEF ShareRemaining
  <2>2. WasShared(s, S, w, min, max)
    BY <1>0, <1>2, SharedOut DEF WasShared
  <2> QED
    BY <2>1, <2>2
<1>3. CASE Sharing(s, S, w, min, max) /\ s.remaining # 0
  <2>1. /\ IsFiniteSet(S) /\ min \in Nat /\ max \in Nat /\ min <= max /\ s.remaining \in Nat
        /\ s.min = min /\ s.max = max /\ s.scores = w /\ s.active \in SUBSET S
        /\ s.weights \in [S -> Pairs] /\ w \in [S -> Nat] /\ max * Cardinality(S) >= 100
    BY <1>0 DEF SharingStates, Shareable
  <2>2. s.active # {}
    <3>1. ASSUME s.active = {}
          PROVE  FALSE
      <4>1. s.remaining + min * Cardinality({}) + max * Cardinality(S \ {}) = 100
        BY <1>3, <3>1 DEF Sharing
      <4>2. Cardinality({}) = 0 /\ S \ {} = S /\ Cardinality(S) \in Nat
        BY <2>1, FS_EmptySet, FS_CardinalityType
      <4> DEFINE e == max * Cardinality(S)
      <4>3. min * 0 = 0 /\ e \in Int /\ e >= 100
        BY <2>1, <4>2
      <4> HIDE DEF e
      <4>4. s.remaining + 0 + e = 100
        BY <4>1, <4>2, <4>3 DEF e
      <4> QED
        BY <1>3, <2>1, <4>3, <4>4
    <3> QED
      BY <3>1
  <2>3. IsFiniteSet(s.active) /\ \A x \in s.active : w[x] \in Nat
    BY <2>1, FS_Subset
  <2>4. PICK u, a : Parts(s, s.active, w, u, a)
    BY <2>1, <2>2, <2>3, PartsExist
  <2>5. CASE Capped(s) = {}
    <3> DEFINE W == [x \in S |-> IF x \in s.active THEN Shared(s, x) ELSE s.weights[x]]
    <3>1. next = [s EXCEPT !.weights = W, !.remaining = 0]
      BY <1>3, <2>1, <2>2, <2>5 DEF ShareRemaining, Capped
    <3>2. NoneCapped(s, u, a)
      <4>1. ASSUME NEW x \in s.active
            PROVE  s.min * a + s.remaining * u[x] <= s.max * a
        <5>0. Capped(s) = {y \in s.active : s.min * a + s.remaining * u[y] > s.max * a}
          BY <2>1, <2>4, CappedParts
        <5>1. ~(s.min * a + s.remaining * u[x] > s.max * a)
          BY <2>5, <4>1, <5>0
        <5>2. a \in Nat /\ u[x] \in Nat
          BY <2>4, <4>1 DEF Parts, Natural1
        <5>3. s.min * a \in Int /\ s.remaining * u[x] \in Int /\ s.max * a \in Int
          BY <2>1, <5>2
        <5> QED
          BY <5>1, <5>3
      <4> QED
        BY <4>1 DEF NoneCapped
    <3>3. AreWeighed(W, S, w, min, max)
      BY <1>0, <1>3, <2>4, <3>2, ShareAll
    <3>4. W \in [S -> Pairs]
      <4>1. \A x \in S : W[x] \in Pairs
        BY <3>3 DEF AreWeighed, Weighed, Stands
      <4> QED
        BY <4>1
    <3> HIDE DEF W, next
    <3>5. next \in SharingStates(S, w, min, max) /\ next.weights = W /\ next.remaining = 0
      BY <1>0, <3>1, <3>4 DEF SharingStates
    <3> QED
      BY <3>3, <3>5 DEF Sharings, WasShared, next
  <2>6. CASE Capped(s) # {}
    <3>1. next = CappedRound(s)
      BY <1>3, <2>2, <2>6 DEF ShareRemaining, Capped, CappedRound
    <3>2. /\ CappedRound(s) \in SharingStates(S, w, min, max)
          /\ Sharing(CappedRound(s), S, w, min, max)
          /\ Cardinality(CappedRound(s).active) < Cardinality(s.active)
      BY <1>0, <1>3, <2>4, <2>6, ShareCapped
    <3>3. ~WasShared(s, S, w, min, max)
      BY <1>3 DEF WasShared
    <3> QED
      BY <3>1, <3>2, <3>3 DEF Sharings
  <2> QED
    BY <2>5, <2>6
<1> QED
  BY <1>1, <1>2, <1>3 DEF Sharings

(* As many rounds as there are positions end it.                             *)
LEMMA RoundsShare ==
  ASSUME NEW S, NEW w, NEW min, NEW max, Shareable(S, w, min, max),
         NEW base \in Sharings(S, w, min, max), base.active = S
  PROVE  /\ WasShared(Rounds(Cardinality(S), ShareRemaining, base), S, w, min, max)
         /\ Rounds(Cardinality(S), ShareRemaining, base) \in Sharings(S, w, min, max)
<1> DEFINE n == Cardinality(S)
           A == Sharings(S, w, min, max)
           st == [p \in A \X (1 .. n) |-> ShareRemaining(p[1])]
           C(k) == k = [s \in SUBSET (1 .. n) |-> IF s = {} THEN base ELSE
                          ShareRemaining(k[s \ {Max(s)}])]
           it == CHOOSE k : C(k)
           end == Rounds(n, ShareRemaining, base)
<1>1. n \in Nat /\ IsFiniteSet(S)
  BY FS_CardinalityType DEF Shareable
<1>2. end = it[1 .. n]
  <2>1. end = (CHOOSE k : k = [s \in SUBSET DOMAIN [i \in 1 .. n |-> i] |-> IF s = {} THEN base ELSE
                               ShareRemaining(k[s \ {Max(s)}])])[DOMAIN [i \in 1 .. n |-> i]]
    BY DEF Rounds, FoldLeft, MapThenFoldSet
  <2>2. DOMAIN [i \in 1 .. n |-> i] = 1 .. n
    OBVIOUS
  <2> HIDE DEF n, end
  <2> QED
    BY <2>1, <2>2
<1> HIDE DEF end
<1>3. Steps(1 .. n, A, st)
  BY ShareRound DEF Steps
<1> HIDE DEF n, A
<1>4. \A a \in A, k \in 1 .. n : st[<<a, k>>] = ShareRemaining(a)
  OBVIOUS
<1> HIDE DEF st
<1>5. base \in A
  BY DEF A
<1>6. PICK g : LeftFold(n, A, base, st, g)
  BY <1>1, <1>3, <1>5, LeftFoldExists
<1>7. C(g)
  <2>1. ASSUME NEW s \in SUBSET (1 .. n), s # {}
        PROVE  st[<<g[s \ {Max(s)}], Max(s)>>] = ShareRemaining(g[s \ {Max(s)}])
    <3>1. Max(s) \in 1 .. n
      BY <1>1, <2>1, LargestExists
    <3>2. g[s \ {Max(s)}] \in A
      BY <1>6 DEF LeftFold
    <3> QED
      BY <1>4, <3>1, <3>2
  <2>2. [s \in SUBSET (1 .. n) |-> IF s = {} THEN base ELSE st[<<g[s \ {Max(s)}], Max(s)>>]]
        = [s \in SUBSET (1 .. n) |-> IF s = {} THEN base ELSE ShareRemaining(g[s \ {Max(s)}])]
    BY <2>1
  <2> QED
    BY <1>6, <2>2 DEF LeftFold
<1>8. C(it)
  BY <1>7
<1>9. Unfolds(n, A, base, st, it)
  <2>1. it[{}] = base
    <3>1. {} \in SUBSET (1 .. n)
      OBVIOUS
    <3> HIDE DEF it
    <3> QED
      BY <1>8, <3>1
  <2>2. ASSUME NEW s \in SUBSET (1 .. n), s # {}, it[s \ {Max(s)}] \in A
        PROVE  it[s] = st[<<it[s \ {Max(s)}], Max(s)>>]
    <3>1. Max(s) \in 1 .. n
      BY <1>1, <2>2, LargestExists
    <3> HIDE DEF it
    <3>2. it[s] = ShareRemaining(it[s \ {Max(s)}])
      BY <1>8, <2>2
    <3> QED
      BY <1>4, <2>2, <3>1, <3>2
  <2> HIDE DEF it
  <2> QED
    BY <2>1, <2>2 DEF Unfolds
<1> HIDE DEF it
<1>10. PICK F : Turns(n, A, base, st, F) /\ F[n] = it[1 .. n]
  BY <1>1, <1>3, <1>5, <1>9, FoldTurns
<1> DEFINE Ends(k) == \/ WasShared(F[k], S, w, min, max)
                      \/ Cardinality(F[k].active) <= n - k
           P == {k \in Nat : k <= n => Ends(k)}
<1>11. 0 \in P
  <2>1. F[0].active = S /\ n <= n - 0
    BY <1>1, <1>10 DEF Turns
  <2>2. Ends(0)
    BY <2>1 DEF n
  <2> QED
    BY <2>2
<1>12. ASSUME NEW k \in P
       PROVE  k + 1 \in P
  <2>1. CASE k + 1 <= n
    <3>1. k \in Nat /\ k \in 0 .. n /\ k + 1 \in 1 .. n /\ (k + 1) - 1 = k /\ Ends(k)
      BY <1>1, <2>1
    <3>2. F[k] \in A /\ F[k + 1] = st[<<F[k], k + 1>>]
      BY <1>10, <3>1 DEF Turns
    <3>3. F[k + 1] = ShareRemaining(F[k])
      BY <1>4, <3>1, <3>2
    <3>4. \/ WasShared(F[k + 1], S, w, min, max)
          \/ /\ ~WasShared(F[k], S, w, min, max)
             /\ Cardinality(F[k + 1].active) < Cardinality(F[k].active)
      BY <3>2, <3>3, ShareRound DEF A
    <3>5. F[k + 1] \in A
      BY <1>3, <3>1, <3>2 DEF Steps
    <3>6. \A s \in A : Cardinality(s.active) \in Nat
      BY <1>1, FS_Subset, FS_CardinalityType DEF A, Sharings, SharingStates
    <3> DEFINE i == Cardinality(F[k].active)
               j == Cardinality(F[k + 1].active)
    <3>7. i \in Nat /\ j \in Nat
      BY <3>2, <3>5, <3>6
    <3>8. WasShared(F[k + 1], S, w, min, max) \/ (j < i /\ i <= n - k)
      BY <3>1, <3>4
    <3> HIDE DEF i, j
    <3>9. j < i /\ i <= n - k => j <= n - (k + 1)
      BY <1>1, <3>1, <3>7
    <3>10. Ends(k + 1)
      BY <3>8, <3>9 DEF j
    <3> QED
      BY <3>1, <3>10
  <2>2. CASE ~(k + 1 <= n)
    BY <2>2
  <2> QED
    BY <2>1, <2>2
<1>13. P = Nat
  <2> HIDE DEF P
  <2>1. P \in SUBSET Nat
    BY DEF P
  <2> QED
    BY <1>11, <1>12, <2>1, Counting
<1>14. Ends(n) /\ F[n] \in A
  <2>1. n \in P /\ n \in 0 .. n /\ n <= n
    BY <1>1, <1>13
  <2> QED
    BY <1>10, <2>1 DEF Turns
<1>15. WasShared(F[n], S, w, min, max)
  <2>1. CASE Cardinality(F[n].active) <= n - n
    <3> DEFINE s == F[n]
    <3>1. s \in SharingStates(S, w, min, max) /\ s.active \in SUBSET S /\ s.remaining \in Nat
          /\ max \in Nat /\ max * Cardinality(S) >= 100 /\ min \in Nat
      BY <1>14 DEF A, Sharings, SharingStates, Shareable
    <3>2. IsFiniteSet(s.active) /\ Cardinality(s.active) \in Nat
      BY <1>1, <3>1, FS_Subset, FS_CardinalityType
    <3>3. Cardinality(s.active) = 0
      BY <1>1, <2>1, <3>2
    <3>4. s.active = {}
      BY <3>2, <3>3, FS_EmptySet
    <3>5. CASE Sharing(s, S, w, min, max)
      <4>1. s.remaining + min * Cardinality({}) + max * Cardinality(S \ {}) = 100
        BY <3>4, <3>5 DEF Sharing
      <4>2. Cardinality({}) = 0 /\ S \ {} = S
        BY FS_EmptySet
      <4> DEFINE e == max * Cardinality(S)
      <4>3. min * 0 = 0 /\ e \in Int /\ e >= 100
        BY <1>1, <3>1 DEF n
      <4> HIDE DEF e
      <4>4. s.remaining + 0 + e = 100
        BY <4>1, <4>2, <4>3 DEF e
      <4>5. s.remaining = 0
        BY <3>1, <4>3, <4>4
      <4> QED
        BY <3>1, <3>5, <4>5, SharedOut DEF WasShared
    <3>6. CASE ~Sharing(s, S, w, min, max)
      BY <1>14, <3>6 DEF A, Sharings
    <3> QED
      BY <3>5, <3>6
  <2> QED
    BY <1>14, <2>1
<1> QED
  BY <1>2, <1>10, <1>14, <1>15 DEF end, n, A

(* Weights that add up to the whole are left alone by the division by their  *)
(* sum, and are what was promised.                                           *)
Promised(weights, S, scores, min, max) ==
  /\ DOMAIN weights = S /\ TotalFraction(weights) = Whole(100)
  /\ \A x \in S : ~Exceeds(Whole(min), weights[x]) /\ ~Exceeds(weights[x], Whole(max))
  /\ \A x, y \in S : scores[x] <= scores[y] => ~Exceeds(weights[x], weights[y])

(* Weights that add up, divided by their total, keep what an optimisation    *)
(* promises.                                                                 *)
LEMMA WeighedPromised ==
  ASSUME NEW S, IsFiniteSet(S), NEW w, NEW scores, NEW min \in Nat, NEW max \in Nat,
         \A x, y \in S : scores[x] <= scores[y] => w[x] <= w[y],
         NEW end, DOMAIN end = S, AreWeighed(end, S, w, min, max)
  PROVE  LET total == TotalFraction(end)
         IN  Promised([x \in S |-> Scaled(end[x], 100 * total[2], total[1])], S, scores, min, max)
<1>1. PICK N, d : Weighed(end, S, w, min, max, N, d)
  BY DEF AreWeighed
<1>2. d \in Natural1 /\ d \in Nat /\ N \in [S -> Int] /\ SumIn(N, S) = 100 * d
  BY <1>1 DEF Weighed, Natural1
<1>3. /\ \A x \in S : Stands(end[x], N[x], d) /\ min * d <= N[x] /\ N[x] <= max * d
      /\ \A x, y \in S : w[x] <= w[y] => N[x] <= N[y]
  BY <1>1 DEF Weighed
<1>4. TotalFraction(end) = Whole(100)
  <2>1. Stands(TotalFraction(end), SumIn(N, S), d) /\ IsFraction(TotalFraction(end))
    BY <1>2, <1>3, FractionTotal
  <2>2. Stands(Whole(100), 100 * d, d) /\ IsFraction(Whole(100))
    BY <1>2, WholeStands
  <2>3. Stands(TotalFraction(end), 100 * d, d)
    BY <1>2, <2>1
  <2> QED
    BY <2>1, <2>2, <2>3, StandsEqual
<1> DEFINE out == [x \in S |-> Scaled(end[x], 100, 100)]
<1>5. [x \in S |-> Scaled(end[x], 100 * TotalFraction(end)[2], TotalFraction(end)[1])] = out
  BY <1>4 DEF Whole
<1>6. DOMAIN out = S /\ \A x \in S : out[x] = Scaled(end[x], 100, 100)
  OBVIOUS
<1> HIDE DEF out
<1>7. ASSUME NEW x \in S
      PROVE  Stands(out[x], N[x], d)
  <2>1. 100 \in Natural1 /\ 100 \in Int /\ N[x] \in Int
    BY <1>2 DEF Natural1
  <2>2. Stands(Scaled(end[x], 100, 100), N[x] * 100, d * 100)
    BY <1>3, <2>1, ScaledStands
  <2> QED
    BY <1>2, <1>6, <2>1, <2>2, StandsScaledDown
<1>8. TotalFraction(out) = Whole(100)
  <2>1. Stands(TotalFraction(out), SumIn(N, S), d) /\ IsFraction(TotalFraction(out))
    BY <1>2, <1>6, <1>7, FractionTotal
  <2>2. Stands(Whole(100), 100 * d, d) /\ IsFraction(Whole(100))
    BY <1>2, WholeStands
  <2>3. Stands(TotalFraction(out), 100 * d, d)
    BY <1>2, <2>1
  <2> QED
    BY <2>1, <2>2, <2>3, StandsEqual
<1>9. ASSUME NEW x \in S
      PROVE  ~Exceeds(Whole(min), out[x]) /\ ~Exceeds(out[x], Whole(max))
  <2>1. Stands(Whole(min), min * d, d) /\ Stands(Whole(max), max * d, d)
    BY <1>2, WholeStands
  <2>2. Stands(out[x], N[x], d) /\ min * d <= N[x] /\ N[x] <= max * d
    BY <1>3, <1>7
  <2>3. (Exceeds(Whole(min), out[x]) <=> min * d > N[x]) /\ (Exceeds(out[x], Whole(max)) <=> N[x] > max * d)
    BY <2>1, <2>2, ExceedsStands
  <2> DEFINE a == min * d
             b == max * d
  <2>4. a \in Int /\ b \in Int /\ N[x] \in Int
    BY <1>2
  <2> HIDE DEF a, b
  <2>5. ~(a > N[x]) /\ ~(N[x] > b)
    BY <2>2, <2>4 DEF a, b
  <2> QED
    BY <2>3, <2>5 DEF a, b
<1>10. ASSUME NEW x \in S, NEW y \in S, scores[x] <= scores[y]
       PROVE  ~Exceeds(out[x], out[y])
  <2>1. N[x] <= N[y] /\ N[x] \in Int /\ N[y] \in Int
    BY <1>2, <1>3, <1>10
  <2>2. Exceeds(out[x], out[y]) <=> N[x] > N[y]
    BY <1>7, ExceedsStands
  <2> QED
    BY <2>1, <2>2
<1> QED
  BY <1>5, <1>6, <1>8, <1>9, <1>10 DEF Promised

(* _bounded_normalize: the weights add up to 100, keep within the bounds and *)
(* follow the scores.                                                        *)
LEMMA BoundedNormalizeKeeps ==
  ASSUME NEW scores, NEW S, S = DOMAIN scores, IsFiniteSet(S), \A x \in S : scores[x] \in Int,
         NEW min \in Nat, NEW max \in Nat, min <= max,
         min * Cardinality(S) <= 100, max * Cardinality(S) >= 100
  PROVE  Promised(BoundedNormalize(scores, min, max), S, scores, min, max)
<1> DEFINE n == Cardinality(S)
           w == Worths(scores)
           W == [x \in S |-> Whole(min)]
           start == [min |-> min, max |-> max, active |-> S, remaining |-> 100 - min * n,
                     weights |-> W, scores |-> w]
           end == Rounds(n, ShareRemaining, start).weights
           total == TotalFraction(end)
<1>1. w \in [S -> Nat] /\ \A x, y \in S : scores[x] <= scores[y] => w[x] <= w[y]
  BY WorthsKeepOrder
<1>2. BoundedNormalize(scores, min, max) = [x \in S |-> Scaled(end[x], 100 * total[2], total[1])]
  BY DEF BoundedNormalize
<1> HIDE DEF w
<1>3. n \in Nat /\ 100 - min * n \in Nat /\ W \in [S -> Pairs]
  <2>1. n \in Nat
    BY FS_CardinalityType
  <2> DEFINE e == min * n
  <2>2. e \in Int /\ e <= 100
    BY <2>1
  <2> HIDE DEF e
  <2>3. 100 - e \in Nat
    BY <2>2
  <2> QED
    BY <2>1, <2>3, WholePairs DEF e
<1>4. Shareable(S, w, min, max)
  BY <1>1 DEF Shareable
<1> DEFINE rem == 100 - min * n
<1>5. start = [min |-> min, max |-> max, active |-> S, remaining |-> rem, weights |-> W, scores |-> w]
      /\ rem \in Nat /\ rem + min * n + max * 0 = 100
  <2>1. min * n \in Int /\ max * 0 = 0
    BY <1>3
  <2> QED
    BY <1>3, <2>1
<1>6. \A x \in S : W[x] = Whole(min)
  OBVIOUS
<1>a. W = [x \in S |-> IF x \in S THEN Whole(min) ELSE Whole(max)]
  OBVIOUS
<1> HIDE DEF W, rem, start, end, n
<1>7. start \in SharingStates(S, w, min, max) /\ start.active = S
  BY <1>3, <1>5 DEF SharingStates
<1>8. Sharing(start, S, w, min, max)
  <2>1. S \ S = {} /\ Cardinality({}) = 0
    BY FS_EmptySet
  <2>2. start.weights = W /\ start.active = S /\ start.remaining = rem
    BY <1>5
  <2>3. rem + min * Cardinality(S) + max * Cardinality(S \ S) = 100
    BY <1>5, <2>1 DEF n
  <2> QED
    BY <1>a, <2>1, <2>2, <2>3 DEF Sharing
<1>9. WasShared(Rounds(n, ShareRemaining, start), S, w, min, max)
      /\ Rounds(n, ShareRemaining, start) \in Sharings(S, w, min, max)
  BY <1>4, <1>7, <1>8, RoundsShare DEF Sharings, n
<1>10. AreWeighed(end, S, w, min, max) /\ DOMAIN end = S
  BY <1>9 DEF WasShared, end, Sharings, SharingStates
<1> QED
  BY <1>1, <1>2, <1>10, WeighedPromised

OptimizedWell(r) ==
  LET w == r.weights
  IN /\ TotalFraction(w) = Whole(100)
     /\ \A x \in DOMAIN w : /\ ~Exceeds(Whole(r.bounds[1]), w[x])
                            /\ ~Exceeds(w[x], Whole(r.bounds[2]))
     /\ \A x, y \in DOMAIN w : r.scores[x] <= r.scores[y] => ~Exceeds(w[x], w[y])

(* So does optimize_portfolio, for every portfolio and bounds that a request *)
(* can have.                                                                 *)
LEMMA OptimizeKeeps ==
  ASSUME portfolio \in Portfolios, NEW o \in {"equal_weight", "max_sharpe"}, NEW b \in WeightBounds,
         OptimizePortfolio(o, b[1], b[2]).kind = "optimized"
  PROVE  OptimizedWell(OptimizePortfolio(o, b[1], b[2]))
<1> DEFINE positions == portfolio.positions
           S == {p.symbol : p \in Elements(positions)}
           of(x) == CHOOSE p \in Elements(positions) : p.symbol = x
           scores == [x \in S |-> Score(of(x), o)]
           min == b[1]
           max == b[2]
           r == OptimizePortfolio(o, b[1], b[2])
<1>1. min \in Nat /\ max \in Nat
  <2>1. b \in (0 .. 100) \X (0 .. 100)
    BY AnalysisRequests
  <2> QED
    BY <2>1
<1>2. /\ r.bounds = <<min, max>> /\ r.scores = scores /\ r.weights = BoundedNormalize(scores, min, max)
      /\ ~(min > max) /\ ~(min * Cardinality(S) > 100) /\ ~(max * Cardinality(S) < 100)
  <2> DEFINE n == Cardinality(S)
             good == [kind |-> "optimized", bounds |-> <<min, max>>, scores |-> scores,
                      weights |-> BoundedNormalize(scores, min, max)]
  <2>1. r = IF min > max THEN Refusal
            ELSE IF positions = <<>> THEN [kind |-> "unoptimized"]
            ELSE IF TotalEquity <= 0 \/ min * n > 100 \/ max * n < 100 THEN Refusal
            ELSE good
    BY DEF OptimizePortfolio
  <2>2. Refusal.kind = "refused" /\ [kind |-> "unoptimized"].kind = "unoptimized"
        /\ r.kind = "optimized"
    BY DEF Refusal
  <2>3. good.bounds = <<min, max>> /\ good.scores = scores /\ good.weights = BoundedNormalize(scores, min, max)
    OBVIOUS
  <2> HIDE DEF r, good, scores, S, min, max, positions, n
  <2>4. r = good /\ ~(min > max) /\ ~(min * n > 100) /\ ~(max * n < 100)
    BY <2>1, <2>2
  <2> QED
    BY <2>3, <2>4 DEF n
<1>3. IsFiniteSet(S)
  <2> DEFINE P == portfolio
             f == [n \in Rows(P) |-> RowOf(P, n).symbol]
  <2>1. IsFiniteSet(Rows(P))
    BY RowsOfPortfolio
  <2>2. S = {f[n] : n \in Rows(P)}
    BY DEF Elements, Rows, RowOf
  <2> HIDE DEF f, S
  <2> QED
    BY <2>1, <2>2, ImageFinite
<1>4. ASSUME NEW x \in S
      PROVE  Score(of(x), o) \in Int
  <2>1. of(x) \in Elements(positions)
    OBVIOUS
  <2>2. \A p \in Elements(positions) : p \in HeldRows
    BY RowsOfPortfolio DEF Elements, Rows, RowOf
  <2> HIDE DEF of
  <2>3. of(x) \in HeldRows
    BY <2>1, <2>2
  <2>4. of(x).score \in Int
    BY <2>3, RowNumbers
  <2> QED
    BY <2>4 DEF Score
<1> HIDE DEF r, S, of
<1>5. S = DOMAIN scores /\ \A x \in S : scores[x] \in Int
  BY <1>4
<1> HIDE DEF scores
<1>6. min <= max /\ min * Cardinality(S) <= 100 /\ max * Cardinality(S) >= 100
  <2>1. Cardinality(S) \in Nat
    BY <1>3, FS_CardinalityType
  <2> DEFINE i == min * Cardinality(S)
             j == max * Cardinality(S)
  <2>2. i \in Int /\ j \in Int /\ ~(i > 100) /\ ~(j < 100) /\ ~(min > max)
    BY <1>1, <1>2, <2>1
  <2> HIDE DEF i, j, min, max
  <2>3. i <= 100 /\ j >= 100 /\ min <= max
    BY <1>1, <2>2
  <2> QED
    BY <2>3 DEF i, j
<1> HIDE DEF min, max
<1>7. Promised(r.weights, S, scores, min, max)
  BY <1>1, <1>2, <1>3, <1>5, <1>6, BoundedNormalizeKeeps
<1>8. r.bounds[1] = min /\ r.bounds[2] = max
  BY <1>2
<1> QED
  BY <1>2, <1>7, <1>8 DEF Promised, OptimizedWell, r

OptimizedInv == portfolio \in Portfolios /\ WeightsWithinBounds

(* Each call answers weights that do.                                        *)
LEMMA OptimizedKept ==
  ASSUME OptimizedInv, [AnalysisNext]_analysisVars
  PROVE  OptimizedInv'
<1>0. portfolio \in Portfolios /\ portfolio' = portfolio
  BY DEF OptimizedInv, AnalysisNext, analysisVars
<1>1. CASE UNCHANGED analysisVars
  BY <1>1 DEF OptimizedInv, analysisVars, WeightsWithinBounds
<1>2. ASSUME analysis'.kind # "optimized"
      PROVE  OptimizedInv'
  BY <1>0, <1>2 DEF OptimizedInv, WeightsWithinBounds
<1>3. ASSUME NEW o \in {"equal_weight", "max_sharpe"}, NEW b \in WeightBounds,
             analysis' = OptimizePortfolio(o, b[1], b[2]), analysis'.kind = "optimized"
      PROVE  OptimizedInv'
  <2>1. OptimizedWell(OptimizePortfolio(o, b[1], b[2]))
    BY <1>0, <1>3, OptimizeKeeps
  <2>2. OptimizedWell(analysis')
    BY <1>3, <2>1
  <2> QED
    BY <1>0, <2>2 DEF OptimizedInv, WeightsWithinBounds, OptimizedWell
<1> QED
  <2>1. AnalysisNext \/ UNCHANGED analysisVars
    OBVIOUS
  <2> QED
    BY <1>1, <1>2, <1>3, <2>1, OtherAnswers DEF AnalysisNext

(* The weights of an optimisation add up to one, keep within the bounds and  *)
(* give no more to a lower score.                                            *)
THEOREM WeightsKept == AnalysisSpec => []WeightsWithinBounds
<1>1. AnalysisInit => OptimizedInv
  BY DEF AnalysisInit, OptimizedInv, WeightsWithinBounds
<1>2. OptimizedInv /\ [AnalysisNext]_analysisVars => OptimizedInv'
  BY OptimizedKept
<1>3. OptimizedInv => WeightsWithinBounds
  BY DEF OptimizedInv
<1> QED
  BY <1>1, <1>2, <1>3, PTL DEF AnalysisSpec

-----------------------------------------------------------------------------
(* Recommended bonds: the terms, the curve and the coupons.                  *)

LEMMA SumNext ==
  ASSUME NEW n \in Nat, NEW v, Numbers(v, 1 .. (n + 1))
  PROVE  SumIn(v, 1 .. (n + 1)) = SumIn(v, 1 .. n) + v[n + 1] /\ SumIn(v, 1 .. n) \in Int
<1>1. IsFiniteSet(1 .. (n + 1)) /\ IsFiniteSet(1 .. n)
  BY UpToFinite
<1>2. n + 1 \in 1 .. (n + 1) /\ (1 .. (n + 1)) \ {n + 1} = 1 .. n
  OBVIOUS
<1>3. Numbers(v, 1 .. n) /\ v[n + 1] \in Int
  BY <1>2 DEF Numbers
<1>4. SumIn(v, 1 .. n) \in Int
  BY <1>1, <1>3, TotalStep
<1>5. SumIn(v, 1 .. (n + 1)) = v[n + 1] + SumIn(v, 1 .. n)
  BY <1>1, <1>2, TotalRemove
<1> QED
  BY <1>3, <1>4, <1>5

(* of two numbers;                                                           *)
LEMMA SumOfTwo ==
  ASSUME NEW v, v[1] \in Int, v[2] \in Int
  PROVE  SumIn(v, 1 .. 2) = v[1] + v[2]
<1>0. 1 .. 2 = {1, 2} /\ 1 .. 1 = {1} /\ 1 .. (0 + 1) = 1 .. 1 /\ 1 .. (1 + 1) = 1 .. 2
  OBVIOUS
<1>1. Numbers(v, 1 .. (1 + 1))
  BY <1>0 DEF Numbers
<1>2. SumIn(v, 1 .. (1 + 1)) = SumIn(v, 1 .. 1) + v[1 + 1]
  BY <1>1, SumNext
<1>3. SumIn(v, 1 .. 1) = v[1]
  BY <1>0, SumSingle
<1> QED
  BY <1>0, <1>2, <1>3

(* and of five.                                                              *)
LEMMA SumOfFive ==
  ASSUME NEW v, \A n \in 1 .. 5 : v[n] \in Int
  PROVE  SumIn(v, 1 .. 5) = v[1] + v[2] + v[3] + v[4] + v[5]
<1>1. Numbers(v, 1 .. (2 + 1)) /\ Numbers(v, 1 .. (3 + 1)) /\ Numbers(v, 1 .. (4 + 1))
  BY DEF Numbers
<1>2. SumIn(v, 1 .. 2) = v[1] + v[2]
  BY SumOfTwo
<1>3. SumIn(v, 1 .. (2 + 1)) = SumIn(v, 1 .. 2) + v[2 + 1]
      /\ SumIn(v, 1 .. (3 + 1)) = SumIn(v, 1 .. 3) + v[3 + 1]
      /\ SumIn(v, 1 .. (4 + 1)) = SumIn(v, 1 .. 4) + v[4 + 1]
  BY <1>1, SumNext
<1>4. 2 + 1 = 3 /\ 3 + 1 = 4 /\ 4 + 1 = 5
  OBVIOUS
<1> QED
  BY <1>2, <1>3, <1>4

(* Rounding moves a number by half at most.                                  *)
LEMMA RoundedByHalf ==
  ASSUME NEW n \in Int, NEW d \in Natural1
  PROVE  LET k == RoundHalfEven(n, d)
         IN  k \in Int /\ 2 * n <= 2 * (k * d) + d /\ 2 * (k * d) <= 2 * n + d
<1> DEFINE q == n \div d
           m == (n % d)
           k == RoundHalfEven(n, d)
<1>1. q \in Int /\ m \in 0 .. (d - 1) /\ n = d * q + m /\ d \in Int /\ d > 0
  BY Division DEF Natural1
<1>2. \/ k = q + 1 /\ 2 * m >= d
      \/ k = q /\ 2 * m <= d
  <2>1. k = IF 2 * m > d \/ (2 * m = d /\ q % 2 = 1) THEN q + 1 ELSE q
    BY DEF RoundHalfEven
  <2> HIDE DEF k, q, m
  <2> QED
    BY <1>1, <2>1
<1> HIDE DEF k, q, m
<1>3. (q + 1) * d = d * q + d /\ q * d = d * q
  BY <1>1
<1> DEFINE e == d * q
<1>4. e \in Int
  BY <1>1
<1> HIDE DEF e
<1>5. CASE k = q + 1 /\ 2 * m >= d
  <2>1. k * d = e + d /\ n = e + m
    BY <1>1, <1>3, <1>5 DEF e
  <2> DEFINE kd == k * d
  <2> HIDE DEF kd
  <2>2. 2 * n <= 2 * kd + d /\ 2 * kd <= 2 * n + d
    BY <1>1, <1>4, <1>5, <2>1 DEF kd
  <2> QED
    BY <1>1, <1>5, <2>2 DEF kd, k
<1>6. CASE k = q /\ 2 * m <= d
  <2>1. k * d = e /\ n = e + m
    BY <1>1, <1>3, <1>6 DEF e
  <2> DEFINE kd == k * d
  <2> HIDE DEF kd
  <2>2. 2 * n <= 2 * kd + d /\ 2 * kd <= 2 * n + d
    BY <1>1, <1>4, <1>6, <2>1 DEF kd
  <2> QED
    BY <1>1, <1>6, <2>2 DEF kd, k
<1> QED
  BY <1>2, <1>5, <1>6

-----------------------------------------------------------------------------
(* BondStrategies: a higher risk score never shortens the average maturity.  *)

Types == {"ladder", "barbell"}
Weight(score, type, n) == RecommendedWeights(score, type)[n]
Term(score, type, n) == RecommendedTerms(score, type)[n]
Parts100(score) == <<ShortWeight(score), 100 - ShortWeight(score)>>

(* The average maturity, over 100 or over 5.                                 *)
AverageYears(score, type) ==
  IF type = "barbell" THEN IF score <= 3 THEN 280 ELSE IF score <= 6 THEN 505 ELSE 1370
  ELSE IF score <= 3 THEN 15 ELSE IF score <= 6 THEN 26 ELSE 52
AverageOver(type) == IF type = "barbell" THEN 100 ELSE 5

(* The terms that are recommended are points of the Treasury curve.          *)
LEMMA TermsAre ==
  ASSUME NEW score \in 1 .. 10, NEW type \in Types
  PROVE  /\ type = "barbell" => DOMAIN RecommendedTerms(score, type) = 1 .. 2
         /\ type = "ladder" => DOMAIN RecommendedTerms(score, type) = 1 .. 5
         /\ \A n \in DOMAIN RecommendedTerms(score, type) :
              Term(score, type, n) \in {1, 2, 3, 4, 5, 7, 10, 15, 20}
<1>1. CASE type = "barbell"
  BY <1>1 DEF RecommendedTerms, Term
<1>2. CASE type = "ladder"
  BY <1>2 DEF RecommendedTerms, Term
<1> QED
  BY <1>1, <1>2 DEF Types

(* The average term of a recommendation, from the table of its terms and     *)
(* weights.                                                                  *)
LEMMA AverageIs ==
  ASSUME NEW score \in 1 .. 10, NEW type \in Types,
         NEW v, DOMAIN v = DOMAIN RecommendedTerms(score, type),
         \A n \in DOMAIN v : v[n] = Scaled(Weight(score, type, n), Term(score, type, n), 1)
  PROVE  Stands(TotalFraction(v), AverageYears(score, type), AverageOver(type))
<1>0. 1 \in Natural1 /\ 5 \in Natural1 /\ 100 \in Natural1
  BY DEF Natural1
<1>1. CASE type = "barbell"
  <2> DEFINE p == Parts100(score)
             N == [n \in 1 .. 2 |-> p[n] * Term(score, type, n)]
  <2>1. p[1] \in Int /\ p[2] \in Int /\ DOMAIN v = 1 .. 2
        /\ \A n \in 1 .. 2 : Weight(score, type, n) = Fraction(p[n], 100)
                             /\ Term(score, type, n) \in Int
    BY <1>1, TermsAre DEF Parts100, ShortWeight, Weight, RecommendedWeights
  <2>2. ASSUME NEW n \in 1 .. 2
        PROVE  Stands(v[n], N[n], 100)
    <3> DEFINE w == Weight(score, type, n)
               t == Term(score, type, n)
               q == p[n]
    <3>1. w = Fraction(q, 100) /\ t \in Int /\ q \in Int /\ v[n] = Scaled(w, t, 1) /\ N[n] = q * t
      BY <2>1
    <3> HIDE DEF w, t, q, N, p
    <3>2. Stands(w, q, 100)
      BY <1>0, <3>1, FractionStands
    <3>3. Stands(v[n], q * t, 100 * 1)
      BY <1>0, <3>1, <3>2, ScaledStands
    <3>4. 100 * 1 = 100
      OBVIOUS
    <3> QED
      BY <3>1, <3>3, <3>4
  <2>3. SumIn(N, 1 .. 2) = AverageYears(score, type)
    <3>1. N[1] + N[2] = AverageYears(score, type) /\ N[1] \in Int /\ N[2] \in Int
      BY <1>1 DEF Parts100, ShortWeight, Term, RecommendedTerms, AverageYears
    <3> HIDE DEF N
    <3> QED
      BY <3>1, SumOfTwo
  <2>4. IsFiniteSet(1 .. 2)
    BY UpToFinite
  <2> HIDE DEF N
  <2>5. Stands(TotalFraction(v), SumIn(N, 1 .. 2), 100)
    BY <1>0, <2>1, <2>2, <2>4, FractionTotal
  <2> QED
    BY <1>1, <2>3, <2>5 DEF AverageOver
<1>2. CASE type = "ladder"
  <2> DEFINE N == [n \in 1 .. 5 |-> 1 * Term(score, type, n)]
  <2>1. DOMAIN v = 1 .. 5
        /\ \A n \in 1 .. 5 : Weight(score, type, n) = Fraction(1, 5) /\ Term(score, type, n) \in Int
    BY <1>2, TermsAre DEF Weight, RecommendedWeights
  <2>2. ASSUME NEW n \in 1 .. 5
        PROVE  Stands(v[n], N[n], 5)
    <3> DEFINE w == Weight(score, type, n)
               t == Term(score, type, n)
    <3>1. w = Fraction(1, 5) /\ t \in Int /\ v[n] = Scaled(w, t, 1) /\ N[n] = 1 * t
      BY <2>1
    <3> HIDE DEF w, t, N
    <3>2. Stands(w, 1, 5)
      BY <1>0, <3>1, FractionStands
    <3>3. Stands(v[n], 1 * t, 5 * 1)
      BY <1>0, <3>1, <3>2, ScaledStands
    <3>4. 5 * 1 = 5
      OBVIOUS
    <3> QED
      BY <3>1, <3>3, <3>4
  <2>3. SumIn(N, 1 .. 5) = AverageYears(score, type)
    <3>1. N[1] + N[2] + N[3] + N[4] + N[5] = AverageYears(score, type) /\ \A n \in 1 .. 5 : N[n] \in Int
      <4>1. \A n \in 1 .. 5 : N[n] = Term(score, type, n) /\ N[n] \in Int
        BY <2>1
      <4> HIDE DEF N
      <4>2. Term(score, type, 1) + Term(score, type, 2) + Term(score, type, 3)
            + Term(score, type, 4) + Term(score, type, 5) = AverageYears(score, type)
        BY <1>2 DEF Term, RecommendedTerms, AverageYears
      <4> QED
        BY <4>1, <4>2
    <3> HIDE DEF N
    <3> QED
      BY <3>1, SumOfFive
  <2>4. IsFiniteSet(1 .. 5)
    BY UpToFinite
  <2> HIDE DEF N
  <2>5. Stands(TotalFraction(v), SumIn(N, 1 .. 5), 5)
    BY <1>0, <2>1, <2>2, <2>4, FractionTotal
  <2> QED
    BY <1>2, <2>3, <2>5 DEF AverageOver
<1> QED
  BY <1>1, <1>2 DEF Types

Points == {1, 20, 40, 120}
Curves == [Points -> Nat]

(* The curve has a yield at every point.                                     *)
LEMMA CurveIs ==
  ASSUME quotes \in CurveQuotes
  PROVE  TreasuryCurve \in Curves
<1>1. quotes \in [Points -> Nat]
  BY BondRequests DEF Points
<1>2. DefaultCurve \in [Points -> Nat]
  BY DEF DefaultCurve, Points
<1>3. ASSUME NEW q \in Points
      PROVE  (quotes[q] * 100000) \div Divisor(q) \in Nat
  <2>1. quotes[q] * 100000 \in Nat
    BY <1>1
  <2>2. Divisor(q) \in Natural1
    BY DEF Divisor, Natural1
  <2> DEFINE a == quotes[q] * 100000
             b == Divisor(q)
  <2> HIDE DEF a, b
  <2>3. a \div b \in Nat
    BY <2>1, <2>2, Division DEF a, b
  <2> QED
    BY <2>3 DEF a, b
<1> DEFINE f(q) == (quotes[q] * 100000) \div Divisor(q)
<1>4. TreasuryCurve = [q \in Points |-> IF 0 < f(q) /\ f(q) < 100000 THEN f(q) ELSE DefaultCurve[q]]
  BY <1>2 DEF TreasuryCurve
<1>5. \A q \in Points : f(q) \in Nat
  BY <1>3
<1> HIDE DEF f
<1> QED
  BY <1>2, <1>4, <1>5 DEF Curves

(* The points next to a term, and that there is none between them.           *)
Neighbours(q, l, r) ==
  /\ l \in Points /\ r \in Points /\ l <= q /\ q <= r
  /\ \A p \in Points : p <= l \/ r <= p

(* Around a maturity up to 30 years lie two points of the curve, and none    *)
(* between them.                                                             *)
LEMMA PointsAround ==
  ASSUME NEW curve \in Curves, NEW q \in 1 .. 120
  PROVE  Neighbours(q, LeftOf(q, curve), RightOf(q, curve))
<1>0. DOMAIN curve = Points
  BY DEF Curves
<1>1. LeftOf(q, curve) \in Points /\ LeftOf(q, curve) <= q
      /\ \A p \in Points : p <= q => p <= LeftOf(q, curve)
  <2> DEFINE Is(l) == l <= q /\ \A p \in Points : p <= q => p <= l
  <2>1. LeftOf(q, curve) = CHOOSE l \in Points : Is(l)
    BY <1>0 DEF LeftOf
  <2>2. \E l \in Points : Is(l)
    <3>1. CASE q < 20
      <4>1. Is(1) /\ 1 \in Points
        BY <3>1 DEF Points
      <4> QED
        BY <4>1
    <3>2. CASE 20 <= q /\ q < 40
      <4>1. Is(20) /\ 20 \in Points
        BY <3>2 DEF Points
      <4> QED
        BY <4>1
    <3>3. CASE 40 <= q /\ q < 120
      <4>1. Is(40) /\ 40 \in Points
        BY <3>3 DEF Points
      <4> QED
        BY <4>1
    <3>4. CASE 120 <= q
      <4>1. Is(120) /\ 120 \in Points
        BY <3>4 DEF Points
      <4> QED
        BY <4>1
    <3> QED
      BY <3>1, <3>2, <3>3, <3>4
  <2>3. LeftOf(q, curve) \in Points /\ Is(LeftOf(q, curve))
    <3> HIDE DEF Is
    <3> QED
      BY <2>1, <2>2
  <2> QED
    BY <2>3
<1>2. RightOf(q, curve) \in Points /\ RightOf(q, curve) >= q
      /\ \A p \in Points : p >= q => RightOf(q, curve) <= p
  <2> DEFINE Is(l) == l >= q /\ \A p \in Points : p >= q => l <= p
  <2>1. RightOf(q, curve) = CHOOSE l \in Points : Is(l)
    BY <1>0 DEF RightOf
  <2>2. \E l \in Points : Is(l)
    <3>1. CASE q <= 1
      <4>1. Is(1) /\ 1 \in Points
        BY <3>1 DEF Points
      <4> QED
        BY <4>1
    <3>2. CASE 1 < q /\ q <= 20
      <4>1. Is(20) /\ 20 \in Points
        BY <3>2 DEF Points
      <4> QED
        BY <4>1
    <3>3. CASE 20 < q /\ q <= 40
      <4>1. Is(40) /\ 40 \in Points
        BY <3>3 DEF Points
      <4> QED
        BY <4>1
    <3>4. CASE 40 < q
      <4>1. Is(120) /\ 120 \in Points
        BY <3>4 DEF Points
      <4> QED
        BY <4>1
    <3> QED
      BY <3>1, <3>2, <3>3, <3>4
  <2>3. RightOf(q, curve) \in Points /\ Is(RightOf(q, curve))
    <3> HIDE DEF Is
    <3> QED
      BY <2>1, <2>2
  <2> QED
    BY <2>3
<1> DEFINE l == LeftOf(q, curve)
           r == RightOf(q, curve)
<1>3. \A p \in Points : p \in Nat
  BY DEF Points
<1> HIDE DEF l, r
<1>4. l \in Points /\ r \in Points /\ l <= q /\ q <= r /\ \A p \in Points : p <= l \/ r <= p
  BY <1>1, <1>2, <1>3 DEF l, r
<1> QED
  BY <1>4 DEF Neighbours, l, r

(* The yield lies between those of the neighbours.                           *)
LEMMA YieldBetween ==
  ASSUME NEW curve \in Curves, NEW q \in 1 .. 120
  PROVE  LET l == LeftOf(q, curve)
             r == RightOf(q, curve)
             y == InterpolatedYield(q, curve)
         IN  /\ y \in Frs
             /\ \/ ~Exceeds(Whole(curve[l]), y) /\ ~Exceeds(y, Whole(curve[r]))
                \/ ~Exceeds(Whole(curve[r]), y) /\ ~Exceeds(y, Whole(curve[l]))
<1> DEFINE l == LeftOf(q, curve)
           r == RightOf(q, curve)
           y == InterpolatedYield(q, curve)
           a == curve[l]
           b == curve[r]
<1>1. /\ l \in Nat /\ r \in Nat /\ l <= q /\ q <= r /\ a \in Nat /\ b \in Nat /\ q \in Nat
  BY PointsAround DEF Neighbours, Points, Curves
<1>2. y = IF l = r THEN Whole(a) ELSE Plus(Whole(a), Fraction((b - a) * (q - l), r - l))
  BY DEF InterpolatedYield
<1> HIDE DEF l, r, y, a, b
<1>3. CASE l = r
  <2>0. a = b
    BY <1>3 DEF a, b
  <2>1. y = Whole(a)
    BY <1>2, <1>3
  <2>2. y \in Frs
    BY <1>1, <2>1, WholeFr
  <2>3. ~Exceeds(Whole(a), y) /\ ~Exceeds(y, Whole(b))
    BY <1>1, <2>0, <2>1 DEF Exceeds, Whole
  <2> QED
    BY <2>2, <2>3 DEF l, r, y, a, b
<1>4. CASE l # r
  <2> DEFINE d == r - l
             k == q - l
             c == (b - a) * k
  <2>1. d \in Natural1 /\ d \in Nat /\ k \in Nat /\ k <= d /\ c \in Int
    <3>1. d \in Nat /\ d # 0 /\ k \in Nat /\ k <= d /\ b - a \in Int
      BY <1>1, <1>4
    <3> HIDE DEF d, k
    <3> QED
      BY <3>1 DEF Natural1
  <2> HIDE DEF d, k
  <2>2. Stands(Fraction(c, d), c, d) /\ IsFraction(Fraction(c, d))
    <3> HIDE DEF c
    <3> QED
      BY <2>1, FractionStands
  <2>3. Stands(Whole(a), a * d, d) /\ Stands(Whole(b), b * d, d)
    <3>1. a \in Int /\ b \in Int
      BY <1>1
    <3>2. Stands(Whole(a), a * d, d)
      BY <2>1, <3>1, WholeStands
    <3>3. Stands(Whole(b), b * d, d)
      BY <2>1, <3>1, WholeStands
    <3> QED
      BY <3>2, <3>3
  <2>4. y = Plus(Whole(a), Fraction(c, d))
    BY <1>2, <1>4 DEF d, k
  <2> DEFINE m == a * d
             n == b * d
  <2>5. m \in Int /\ n \in Int
    BY <1>1, <2>1
  <2>6. \/ 0 <= c /\ m + c <= n
        \/ c <= 0 /\ n <= m + c
    <3>1. CASE a <= b
      <4> DEFINE e == b - a
      <4>1. e \in Nat /\ e * k <= e * d /\ 0 <= e * k
        <5>1. e \in Nat
          BY <1>1, <3>1
        <5> HIDE DEF e
        <5> QED
          BY <2>1, <5>1
      <4>2. e * d = n - m
        <5>1. (b - a) * d = b * d - a * d
          BY <1>1, <2>1
        <5> QED
          BY <5>1
      <4>3. c = e * k
        OBVIOUS
      <4> HIDE DEF c, m, n, e
      <4> QED
        BY <2>1, <2>5, <4>1, <4>2, <4>3
    <3>2. CASE b < a
      <4> DEFINE e == a - b
      <4>1. e \in Nat /\ e * k <= e * d /\ 0 <= e * k /\ e * k \in Int
        <5>1. e \in Nat
          BY <1>1, <3>2
        <5> HIDE DEF e
        <5> QED
          BY <2>1, <5>1
      <4>2. e * d = m - n
        <5>1. (a - b) * d = a * d - b * d
          BY <1>1, <2>1
        <5> QED
          BY <5>1
      <4>3. c = -(e * k)
        BY <1>1, <2>1
      <4> DEFINE f == e * k
      <4> HIDE DEF f
      <4>4. f \in Int /\ f <= m - n /\ 0 <= f /\ c = -f
        BY <4>1, <4>2, <4>3 DEF f
      <4> HIDE DEF c, m, n, e
      <4> QED
        BY <2>1, <2>5, <4>4
    <3> QED
      BY <1>1, <3>1, <3>2
  <2> HIDE DEF c, m, n
  <2>7. Stands(y, m + c, d) /\ IsFraction(y) /\ Stands(Whole(a), m, d) /\ Stands(Whole(b), n, d)
    BY <2>2, <2>3, <2>4, PlusStands DEF m, n
  <2>8. y \in Frs
    BY <2>7, StandsFr
  <2>9. /\ Exceeds(Whole(a), y) <=> m > m + c
        /\ Exceeds(y, Whole(b)) <=> m + c > n
        /\ Exceeds(Whole(b), y) <=> n > m + c
        /\ Exceeds(y, Whole(a)) <=> m + c > m
    BY <2>7, ExceedsStands
  <2>10. \/ ~Exceeds(Whole(a), y) /\ ~Exceeds(y, Whole(b))
         \/ ~Exceeds(Whole(b), y) /\ ~Exceeds(y, Whole(a))
    BY <2>1, <2>5, <2>6, <2>9
  <2> QED
    BY <2>8, <2>10 DEF l, r, y, a, b
<1> QED
  BY <1>3, <1>4

(* A coupon lies within half a step of the yield it rounds.                  *)
HalfStep == <<125, 2>>

(* A coupon rounded to eighths of a percent is within a sixteenth of the     *)
(* yield.                                                                    *)
LEMMA CouponNear ==
  ASSUME NEW term \in Nat, term > 1, NEW y \in Frs, Exceeds(y, Whole(125))
  PROVE  /\ ~Exceeds(Minus(y, Whole(CouponFor(term, y))), HalfStep)
         /\ ~Exceeds(Minus(Whole(CouponFor(term, y)), y), HalfStep)
<1> DEFINE n == y[1]
           p == y[2]
           d == p * 125
           k == RoundHalfEven(n, d)
<1>1. n \in Int /\ p \in Natural1 /\ p \in Nat /\ n * 1 > 125 * p /\ Stands(y, n, p)
  <2>1. n \in Int /\ p \in Natural1
    BY DEF Frs, Pairs
  <2>2. n * 1 > 125 * p
    BY DEF Exceeds, Whole
  <2> QED
    BY <2>1, <2>2, FrStands DEF Natural1
<1>2. CouponFor(term, y) = 125 * (IF k < 1 THEN 1 ELSE k)
  BY DEF CouponFor
<1> HIDE DEF n, p
<1>3. d \in Natural1 /\ d = 125 * p
  BY <1>1 DEF Natural1
<1>4. k \in Int /\ 2 * n <= 2 * (k * d) + d /\ 2 * (k * d) <= 2 * n + d
  BY <1>1, <1>3, RoundedByHalf
<1> HIDE DEF k
<1>5. k * d = (125 * k) * p
  <2>1. k * (p * 125) = (125 * k) * p
    BY <1>1, <1>4
  <2> QED
    BY <2>1
<1> DEFINE c == 125 * k
           e == c * p
<1>6. c \in Int /\ e \in Int
  BY <1>1, <1>4
<1>7. k >= 1
  <2>1. CASE k <= 0
    <3>1. e <= 0
      BY <1>1, <1>4, <2>1
    <3> HIDE DEF e
    <3> QED
      BY <1>1, <1>3, <1>4, <1>5, <1>6, <3>1 DEF e
  <2> QED
    BY <1>4, <2>1
<1>8. CouponFor(term, y) = c
  BY <1>2, <1>4, <1>7
<1> HIDE DEF c
<1>9. Stands(Whole(c), e, p)
  BY <1>1, <1>6, WholeStands
<1> HIDE DEF e
<1>10. 2 * n <= 2 * e + 125 * p /\ 2 * e <= 2 * n + 125 * p
  BY <1>3, <1>4, <1>5 DEF e, c
<1>11. Stands(Minus(y, Whole(c)), n - e, p) /\ Stands(Minus(Whole(c), y), e - n, p)
  BY <1>1, <1>9, MinusStands
<1>12. 2 \in Natural1
  BY DEF Natural1
<1>13. Stands(Minus(y, Whole(c)), (n - e) * 2, p * 2) /\ Stands(Minus(Whole(c), y), (e - n) * 2, p * 2)
  BY <1>11, <1>12, StandsScaledUp
<1>14. Stands(HalfStep, 125 * p, 2 * p) /\ 2 * p = p * 2
  <2>1. Stands(HalfStep, 125, 2)
    BY <1>12, StandsItself DEF HalfStep
  <2>2. Stands(HalfStep, 125 * p, 2 * p)
    BY <1>1, <2>1, StandsScaledUp
  <2> QED
    BY <1>1, <2>2
<1> DEFINE h == 125 * p
           g == 2 * p
           i == (n - e) * 2
           j == (e - n) * 2
<1>15. h \in Int /\ i \in Int /\ j \in Int /\ i <= h /\ j <= h
  BY <1>1, <1>6, <1>10
<1>16. Stands(HalfStep, h, g) /\ Stands(Minus(y, Whole(c)), i, g) /\ Stands(Minus(Whole(c), y), j, g)
  BY <1>13, <1>14
<1> HIDE DEF h, i, j, g
<1>17. /\ Exceeds(Minus(y, Whole(c)), HalfStep) <=> i > h
       /\ Exceeds(Minus(Whole(c), y), HalfStep) <=> j > h
  BY <1>16, ExceedsStands
<1> QED
  BY <1>8, <1>15, <1>17

Averaged(rungs) == TotalFraction([n \in DOMAIN rungs |-> Scaled(rungs[n].weight, rungs[n].term, 1)])
Around(curve, q) ==
  {p \in (DOMAIN curve) \X (DOMAIN curve) :
     p[1] <= q /\ q <= p[2] /\ \A r \in DOMAIN curve : r <= p[1] \/ p[2] <= r}
FairRung(curve, r) ==
  /\ \E p \in Around(curve, 4 * r.term), low \in {1, 2} :
       /\ ~Exceeds(Whole(curve[p[low]]), r.yield)
       /\ ~Exceeds(r.yield, Whole(curve[p[3 - low]]))
  /\ r.term > 1 /\ Exceeds(r.yield, Whole(125)) =>
       /\ ~Exceeds(Minus(r.yield, Whole(r.coupon)), HalfStep)
       /\ ~Exceeds(Minus(Whole(r.coupon), r.yield), HalfStep)

(* The rungs of a recommendation yield what the curve says, at coupons near  *)
(* it.                                                                       *)
LEMMA RungsFair ==
  ASSUME quotes \in CurveQuotes, NEW score \in 1 .. 10, NEW type \in Types
  PROVE  LET rungs == RecommendedBondRungs(score, type)
         IN  /\ Stands(Averaged(rungs), AverageYears(score, type), AverageOver(type))
             /\ \A n \in DOMAIN rungs : FairRung(TreasuryCurve, rungs[n])
<1> DEFINE rungs == RecommendedBondRungs(score, type)
           terms == RecommendedTerms(score, type)
           curve == TreasuryCurve
           v == [n \in DOMAIN rungs |-> Scaled(rungs[n].weight, rungs[n].term, 1)]
           y(n) == InterpolatedYield(4 * terms[n], curve)
<1>1. rungs = [n \in DOMAIN terms |->
                 [term |-> terms[n], weight |-> RecommendedWeights(score, type)[n], yield |-> y(n),
                  coupon |-> CouponFor(terms[n], y(n)), payments |-> IF terms[n] <= 1 THEN 1 ELSE 2]]
  BY DEF RecommendedBondRungs
<1> HIDE DEF rungs, y
<1>2. DOMAIN rungs = DOMAIN terms
      /\ \A n \in DOMAIN terms : rungs[n].term = Term(score, type, n)
                                 /\ rungs[n].weight = Weight(score, type, n)
                                 /\ rungs[n].yield = y(n)
                                 /\ rungs[n].coupon = CouponFor(Term(score, type, n), y(n))
  BY <1>1 DEF Term, Weight
<1> HIDE DEF terms
<1>3. Stands(Averaged(rungs), AverageYears(score, type), AverageOver(type))
  <2>1. DOMAIN v = DOMAIN terms
        /\ \A n \in DOMAIN v : v[n] = Scaled(Weight(score, type, n), Term(score, type, n), 1)
    BY <1>2
  <2>2. Averaged(rungs) = TotalFraction(v)
    BY DEF Averaged
  <2> HIDE DEF v
  <2> QED
    BY <2>1, <2>2, AverageIs DEF terms
<1>4. ASSUME NEW n \in DOMAIN rungs
      PROVE  FairRung(curve, rungs[n])
  <2> DEFINE t == Term(score, type, n)
             q == 4 * t
             l == LeftOf(q, curve)
             r == RightOf(q, curve)
             z == InterpolatedYield(q, curve)
  <2>1. t \in {1, 2, 3, 4, 5, 7, 10, 15, 20}
    BY <1>2, TermsAre DEF terms
  <2>2. t \in Nat /\ q \in 1 .. 120
    BY <2>1
  <2>3. curve \in Curves
    BY CurveIs
  <2>4. rungs[n].term = t /\ rungs[n].yield = z /\ rungs[n].coupon = CouponFor(t, z)
    BY <1>2 DEF y, Term, terms
  <2> HIDE DEF t, curve, rungs
  <2>5. Neighbours(q, l, r)
    BY <2>2, <2>3, PointsAround
  <2>6. /\ z \in Frs
        /\ \/ ~Exceeds(Whole(curve[l]), z) /\ ~Exceeds(z, Whole(curve[r]))
           \/ ~Exceeds(Whole(curve[r]), z) /\ ~Exceeds(z, Whole(curve[l]))
    BY <2>2, <2>3, YieldBetween
  <2>7. t > 1 /\ Exceeds(z, Whole(125)) =>
          /\ ~Exceeds(Minus(z, Whole(CouponFor(t, z))), HalfStep)
          /\ ~Exceeds(Minus(Whole(CouponFor(t, z)), z), HalfStep)
    BY <2>2, <2>6, CouponNear
  <2> HIDE DEF l, r, z, q
  <2>8. <<l, r>> \in Around(curve, q)
    BY <2>3, <2>5 DEF Around, Neighbours, Curves
  <2>9. \E p \in Around(curve, q), low \in {1, 2} :
          ~Exceeds(Whole(curve[p[low]]), z) /\ ~Exceeds(z, Whole(curve[p[3 - low]]))
    <3> DEFINE p == <<l, r>>
    <3>1. p[1] = l /\ p[2] = r /\ 3 - 1 = 2 /\ 3 - 2 = 1
      OBVIOUS
    <3>2. CASE ~Exceeds(Whole(curve[l]), z) /\ ~Exceeds(z, Whole(curve[r]))
      <4>1. ~Exceeds(Whole(curve[p[1]]), z) /\ ~Exceeds(z, Whole(curve[p[3 - 1]]))
        BY <3>1, <3>2
      <4> QED
        BY <2>8, <4>1
    <3>3. CASE ~Exceeds(Whole(curve[r]), z) /\ ~Exceeds(z, Whole(curve[l]))
      <4>1. ~Exceeds(Whole(curve[p[2]]), z) /\ ~Exceeds(z, Whole(curve[p[3 - 2]]))
        BY <3>1, <3>3
      <4> QED
        BY <2>8, <4>1
    <3> QED
      BY <2>6, <3>2, <3>3
  <2>10. 4 * rungs[n].term = q
    BY <2>4 DEF q
  <2> QED
    BY <2>4, <2>7, <2>9, <2>10 DEF FairRung
<1> QED
  BY <1>3, <1>4 DEF rungs

(* A higher score never has a shorter average term.                          *)
LEMMA AveragesGrow ==
  ASSUME quotes \in CurveQuotes, NEW type \in Types, NEW score \in 1 .. 10, NEW higher \in score .. 10
  PROVE  ~Exceeds(Averaged(RecommendedBondRungs(score, type)), Averaged(RecommendedBondRungs(higher, type)))
<1>1. higher \in 1 .. 10 /\ score <= higher
  OBVIOUS
<1>2. /\ Stands(Averaged(RecommendedBondRungs(score, type)), AverageYears(score, type), AverageOver(type))
      /\ Stands(Averaged(RecommendedBondRungs(higher, type)), AverageYears(higher, type), AverageOver(type))
  BY <1>1, RungsFair
<1>3. ~(AverageYears(score, type) > AverageYears(higher, type))
  BY <1>1 DEF AverageYears
<1> QED
  BY <1>2, <1>3, ExceedsStands

FairStrategy(s) ==
  s.kind = "recommended" =>
    \A score \in 1 .. 10 :
      /\ \A higher \in score .. 10 : ~Exceeds(Averaged(s.rungs[score]), Averaged(s.rungs[higher]))
      /\ \A n \in DOMAIN s.rungs[score] : FairRung(s.curve, s.rungs[score][n])
BondsInv == quotes \in CurveQuotes /\ FairStrategy(strategy)

(* Each call leaves a recommendation with these properties.                  *)
LEMMA RecommendedKept ==
  ASSUME BondsInv, [BondsNext]_bondVars
  PROVE  BondsInv'
<1>0. quotes \in CurveQuotes /\ quotes' = quotes
  BY DEF BondsInv, BondsNext, bondVars, AnalyzeStrategy, RecommendRungs
<1>1. CASE UNCHANGED bondVars
  BY <1>1 DEF BondsInv, bondVars
<1>2. CASE AnalyzeStrategy
  <2>1. \A t, c, s, r : AnalyzeBondStrategy(t, c, s, r).kind = "analyzed"
    BY DEF AnalyzeBondStrategy
  <2>2. strategy'.kind = "analyzed"
    BY <1>2, <2>1 DEF AnalyzeStrategy
  <2> QED
    BY <1>0, <2>2 DEF BondsInv, FairStrategy
<1>3. CASE RecommendRungs
  <2>1. PICK type \in Types :
          strategy' = [kind |-> "recommended", curve |-> TreasuryCurve,
                       rungs |-> [score \in 1 .. 10 |-> RecommendedBondRungs(score, type)]]
    BY <1>3 DEF RecommendRungs, Types
  <2> DEFINE rungs(score) == RecommendedBondRungs(score, type)
  <2>2. strategy'.curve = TreasuryCurve /\ \A score \in 1 .. 10 : strategy'.rungs[score] = rungs(score)
    BY <2>1
  <2>3. ASSUME NEW score \in 1 .. 10
        PROVE  /\ \A higher \in score .. 10 : ~Exceeds(Averaged(rungs(score)), Averaged(rungs(higher)))
               /\ \A n \in DOMAIN rungs(score) : FairRung(TreasuryCurve, rungs(score)[n])
    BY <1>0, AveragesGrow, RungsFair
  <2> HIDE DEF rungs
  <2>4. ASSUME NEW score \in 1 .. 10
        PROVE  /\ \A higher \in score .. 10 :
                    ~Exceeds(Averaged(strategy'.rungs[score]), Averaged(strategy'.rungs[higher]))
               /\ \A n \in DOMAIN strategy'.rungs[score] : FairRung(strategy'.curve, strategy'.rungs[score][n])
    <3>1. \A higher \in score .. 10 : higher \in 1 .. 10
      OBVIOUS
    <3> QED
      BY <2>2, <2>3, <3>1
  <2>5. FairStrategy(strategy')
    BY <2>4 DEF FairStrategy
  <2> QED
    BY <1>0, <2>5 DEF BondsInv
<1> QED
  BY <1>1, <1>2, <1>3 DEF BondsNext

(* A higher risk score is never recommended a shorter average maturity, and  *)
(* a recommended rung yields what its neighbours on the curve do.            *)
THEOREM MaturityBought == BondsSpec => []RiskBuysMaturity
<1>1. BondsInit => BondsInv
  BY DEF BondsInit, BondsInv, FairStrategy
<1>2. BondsInv /\ [BondsNext]_bondVars => BondsInv'
  BY RecommendedKept
<1>3. BondsInv => RiskBuysMaturity
  BY DEF BondsInv, FairStrategy, RiskBuysMaturity, Averaged, FairRung, Around, HalfStep
<1> QED
  BY <1>1, <1>2, <1>3, PTL DEF BondsSpec

-----------------------------------------------------------------------------
(* Sums over the rungs of a strategy, by the year in which they mature.      *)

LEMMA ProductStands ==
  ASSUME NEW f, NEW g, NEW n, NEW d, NEW m, NEW e, Stands(f, n, d), Stands(g, m, e)
  PROVE  Stands(Product(f, g), n * m, d * e) /\ IsFraction(Product(f, g))
<1> DEFINE p == g[1]
           q == g[2]
<1>1. /\ n \in Int /\ d \in Natural1 /\ m \in Int /\ e \in Natural1 /\ p \in Int /\ q \in Natural1
      /\ p * e = m * q
  BY DEF Stands, Pairs
<1>2. Product(f, g) = Scaled(f, p, q)
  BY DEF Product
<1> HIDE DEF p, q
<1>3. Stands(Scaled(f, p, q), n * p, d * q) /\ IsFraction(Scaled(f, p, q))
  BY <1>1, ScaledStands
<1>4. d \in Int /\ e \in Int /\ q \in Int /\ d * e \in Natural1 /\ n * m \in Int
  <2>1. d \in Nat /\ e \in Nat /\ d # 0 /\ e # 0 /\ q \in Nat
    BY <1>1 DEF Natural1
  <2>2. d * e \in Nat /\ d * e # 0
    BY <2>1
  <2> QED
    BY <1>1, <2>1, <2>2 DEF Natural1
<1>5. (n * p) * (d * e) = (n * m) * (d * q)
  <2>1. (n * p) * (d * e) = (n * d) * (p * e)
    BY <1>1, <1>4
  <2>2. (n * m) * (d * q) = (n * d) * (m * q)
    BY <1>1, <1>4
  <2> QED
    BY <1>1, <2>1, <2>2
<1> DEFINE a == n * p
           b == d * q
           c == n * m
           k == d * e
<1> HIDE DEF a, b, c, k
<1>6. Stands(Scaled(f, p, q), a, b) /\ c \in Int /\ k \in Natural1 /\ a * k = c * b
  BY <1>3, <1>4, <1>5 DEF a, b, c, k
<1>7. Stands(Scaled(f, p, q), c, k)
  BY <1>6, StandsMove
<1> QED
  BY <1>2, <1>3, <1>7 DEF c, k

(* and Quotient crosswise.                                                   *)
LEMMA QuotientStands ==
  ASSUME NEW f, NEW g, NEW n, NEW d, NEW m, NEW e, Stands(f, n, d), Stands(g, m, e), m > 0
  PROVE  Stands(Quotient(f, g), n * e, d * m) /\ IsFraction(Quotient(f, g))
<1> DEFINE p == g[1]
           q == g[2]
<1>1. /\ n \in Int /\ d \in Natural1 /\ m \in Int /\ e \in Natural1 /\ p \in Int /\ q \in Natural1
      /\ p * e = m * q
  BY DEF Stands, Pairs
<1>2. Quotient(f, g) = IF p < 0 THEN Scaled(f, -q, -p) ELSE Scaled(f, q, p)
  BY DEF Quotient
<1> HIDE DEF p, q
<1>3. m \in Natural1 /\ d \in Int /\ e \in Int /\ q \in Int /\ e > 0 /\ q > 0
  BY <1>1 DEF Natural1
<1>4. p \in Natural1
  <2>1. m * q > 0
    BY <1>1, <1>3
  <2>2. p <= 0 => p * e <= 0
    BY <1>1, <1>3
  <2> DEFINE a == m * q
             b == p * e
  <2>3. a \in Int /\ b \in Int /\ a = b /\ a > 0
    BY <1>1, <1>3, <2>1
  <2> HIDE DEF a, b
  <2>4. p > 0
    BY <1>1, <2>2, <2>3 DEF b
  <2> QED
    BY <1>1, <2>4 DEF Natural1
<1>5. Quotient(f, g) = Scaled(f, q, p)
  <2>1. p > 0
    BY <1>4 DEF Natural1
  <2> QED
    BY <1>1, <1>2, <2>1
<1>6. Stands(Scaled(f, q, p), n * q, d * p) /\ IsFraction(Scaled(f, q, p))
  BY <1>1, <1>3, <1>4, ScaledStands
<1>7. d * m \in Natural1 /\ n * e \in Int
  <2>1. d \in Nat /\ d # 0 /\ m \in Nat /\ m # 0
    BY <1>1, <1>3 DEF Natural1
  <2>2. d * m \in Nat /\ d * m # 0
    BY <2>1
  <2> QED
    BY <1>1, <1>3, <2>2 DEF Natural1
<1>8. (n * q) * (d * m) = (n * e) * (d * p)
  <2>1. (n * q) * (d * m) = (n * d) * (m * q)
    BY <1>1, <1>3
  <2>2. (n * e) * (d * p) = (n * d) * (p * e)
    BY <1>1, <1>3
  <2> QED
    BY <1>1, <2>1, <2>2
<1> DEFINE a == n * q
           b == d * p
           c == n * e
           k == d * m
<1> HIDE DEF a, b, c, k
<1>9. Stands(Scaled(f, q, p), a, b) /\ c \in Int /\ k \in Natural1 /\ a * k = c * b
  BY <1>6, <1>7, <1>8 DEF a, b, c, k
<1>10. Stands(Scaled(f, q, p), c, k)
  BY <1>9, StandsMove
<1> QED
  BY <1>5, <1>6, <1>10 DEF c, k

-----------------------------------------------------------------------------
(* What is paid in the years up to one.                                      *)
Reached(S, last, y) == {n \in S : last[n] <= y}
Maturing(S, last, y) == {n \in S : y = last[n]}
Running(S, last, y) == {n \in S : y <= last[n]}

(* A sum by the year in which each matures is the sum of those that matured  *)
(* by then.                                                                  *)
LEMMA SumByClass ==
  ASSUME NEW S, IsFiniteSet(S), NEW N, Numbers(N, S), NEW last, \A n \in S : last[n] \in Nat \ {0},
         NEW w, NEW Y \in Nat, \A z \in 1 .. Y : w[z] = SumIn(N, Maturing(S, last, z))
  PROVE  SumIn(w, 1 .. Y) = SumIn(N, Reached(S, last, Y))
<1> DEFINE P == {y \in Nat : y <= Y => SumIn(w, 1 .. y) = SumIn(N, Reached(S, last, y))}
<1>0. \A T \in SUBSET S : IsFiniteSet(T) /\ Numbers(N, T) /\ SumIn(N, T) \in Int
  BY FS_Subset, TotalStep DEF Numbers
<1>a. Numbers(w, 1 .. Y)
  BY <1>0 DEF Numbers, Maturing
<1>1. 0 \in P
  <2>1. Reached(S, last, 0) = {} /\ 1 .. 0 = {}
    BY DEF Reached
  <2>2. SumIn(N, {}) = 0
    BY TotalStep
  <2>3. SumIn(w, {}) = 0
    BY <1>a, UpToFinite, TotalStep
  <2> QED
    BY <2>1, <2>2, <2>3
<1>2. ASSUME NEW y \in P
      PROVE  y + 1 \in P
  <2>1. CASE y + 1 <= Y
    <3> DEFINE T == Maturing(S, last, y + 1)
    <3>1. y \in Nat /\ y + 1 \in 1 .. Y /\ SumIn(w, 1 .. y) = SumIn(N, Reached(S, last, y))
      BY <2>1
    <3>2. Numbers(w, 1 .. (y + 1))
      BY <1>a, <3>1 DEF Numbers
    <3>3. SumIn(w, 1 .. (y + 1)) = SumIn(w, 1 .. y) + w[y + 1]
      BY <3>1, <3>2, SumNext
    <3>4. w[y + 1] = SumIn(N, T)
      BY <3>1
    <3> DEFINE A == Reached(S, last, y)
    <3>5. Reached(S, last, y + 1) = A \cup T /\ A \cap T = {} /\ A \in SUBSET S /\ T \in SUBSET S
      BY <3>1 DEF Reached, Maturing
    <3>6. SumIn(w, 1 .. y) = SumIn(N, A)
      BY <3>1
    <3> HIDE DEF T, A
    <3>7. IsFiniteSet(A) /\ Numbers(N, A) /\ IsFiniteSet(T) /\ Numbers(N, T)
      BY <1>0, <3>5
    <3>8. SumIn(N, A \cup T) = SumIn(N, A) + SumIn(N, T)
      BY <3>5, <3>7, TotalUnion
    <3>9. SumIn(w, 1 .. (y + 1)) = SumIn(N, Reached(S, last, y + 1))
      BY <3>3, <3>4, <3>5, <3>6, <3>8
    <3> QED
      BY <3>1, <3>9
  <2>2. CASE ~(y + 1 <= Y)
    BY <2>2
  <2> QED
    BY <2>1, <2>2
<1>3. P = Nat
  <2> HIDE DEF P
  <2>1. P \in SUBSET Nat
    BY DEF P
  <2> QED
    BY <1>1, <1>2, <2>1, Counting
<1>4. Y \in P
  BY <1>3
<1> QED
  BY <1>4

(* What is zero outside of a part is summed over that part.                  *)
LEMMA SumOfPart ==
  ASSUME NEW S, IsFiniteSet(S), NEW one, Numbers(one, S), NEW T, T \in SUBSET S, NEW N,
         \A n \in T : one[n] = N[n], \A n \in S \ T : one[n] = 0
  PROVE  SumIn(one, S) = SumIn(N, T)
<1>1. SumIn(one, S) = SumIn(one, T) + SumIn(one, S \ T) /\ SumIn(one, T) \in Int
  <2>1. SumIn(one, S) = SumIn(one, T) + SumIn(one, S \ T)
    BY SumSplit
  <2>2. SumIn(one, T) \in Int
    BY SumSplit
  <2> QED
    BY <2>1, <2>2
<1>2. IsFiniteSet(T) /\ IsFiniteSet(S \ T) /\ Numbers(one, T)
  <2>1. IsFiniteSet(T) /\ IsFiniteSet(S \ T)
    BY FS_Subset
  <2> QED
    BY <2>1 DEF Numbers
<1>3. SumIn(one, S \ T) = 0
  BY <1>2, TotalZero
<1>4. \A n \in T : N[n] = one[n]
  OBVIOUS
<1>5. SumIn(N, T) = SumIn(one, T)
  BY <1>2, <1>4, SumsSame
<1> QED
  BY <1>1, <1>3, <1>5

(* What is paid every year until the last is paid as many times as there are *)
(* years.                                                                    *)
TimesPaid(S, N, last, y) == [n \in S |-> N[n] * (IF last[n] <= y THEN last[n] ELSE y)]

(* Paid every year until the last, each number is paid as many times as it   *)
(* has years.                                                                *)
LEMMA SumByReach ==
  ASSUME NEW S, IsFiniteSet(S), NEW N, Numbers(N, S), NEW Y \in Nat,
         NEW last, \A n \in S : last[n] \in 0 .. Y,
         NEW w, \A y \in 1 .. Y : w[y] = SumIn(N, Running(S, last, y)),
         NEW u, \A n \in S : u[n] = N[n] * last[n]
  PROVE  SumIn(w, 1 .. Y) = SumIn(u, S)
<1> DEFINE P == {y \in Nat : y <= Y => SumIn(w, 1 .. y) = SumIn(TimesPaid(S, N, last, y), S)}
<1>0. \A T \in SUBSET S : IsFiniteSet(T) /\ Numbers(N, T) /\ SumIn(N, T) \in Int
  BY FS_Subset, TotalStep DEF Numbers
<1>a. Numbers(w, 1 .. Y)
  BY <1>0 DEF Numbers, Running
<1>b. ASSUME NEW y \in Nat
      PROVE  Numbers(TimesPaid(S, N, last, y), S)
  <2>1. ASSUME NEW n \in S
        PROVE  TimesPaid(S, N, last, y)[n] \in Int
    <3> DEFINE a == N[n]
               b == IF last[n] <= y THEN last[n] ELSE y
    <3>1. a \in Int /\ b \in Int
      BY DEF Numbers
    <3>2. TimesPaid(S, N, last, y)[n] = a * b
      BY DEF TimesPaid
    <3> HIDE DEF a, b
    <3> QED
      BY <3>1, <3>2
  <2> QED
    BY <2>1 DEF Numbers
<1>1. 0 \in P
  <2>1. ASSUME NEW n \in S
        PROVE  TimesPaid(S, N, last, 0)[n] = 0
    <3>1. N[n] \in Int /\ last[n] \in Nat
      BY DEF Numbers
    <3>2. N[n] * 0 = 0
      BY <3>1
    <3>3. (IF last[n] <= 0 THEN last[n] ELSE 0) = 0
      BY <3>1
    <3>4. TimesPaid(S, N, last, 0)[n] = N[n] * (IF last[n] <= 0 THEN last[n] ELSE 0)
      BY DEF TimesPaid
    <3> QED
      BY <3>2, <3>3, <3>4
  <2>2. SumIn(TimesPaid(S, N, last, 0), S) = 0
    BY <2>1, TotalZero
  <2>3. SumIn(w, {}) = 0
    BY <1>a, UpToFinite, TotalStep
  <2>4. 1 .. 0 = {}
    OBVIOUS
  <2> QED
    BY <2>2, <2>3, <2>4
<1>2. ASSUME NEW y \in P
      PROVE  y + 1 \in P
  <2>1. CASE y + 1 <= Y
    <3> DEFINE T == Running(S, last, y + 1)
               one == [n \in S |-> IF y + 1 <= last[n] THEN N[n] ELSE 0]
    <3>1. y \in Nat /\ y + 1 \in 1 .. Y /\ SumIn(w, 1 .. y) = SumIn(TimesPaid(S, N, last, y), S) /\ y + 1 \in Nat
      BY <2>1
    <3>2. Numbers(w, 1 .. (y + 1))
      BY <1>a, <3>1 DEF Numbers
    <3>3. SumIn(w, 1 .. (y + 1)) = SumIn(w, 1 .. y) + w[y + 1]
      BY <3>1, <3>2, SumNext
    <3>4. w[y + 1] = SumIn(N, T)
      BY <3>1
    <3>5. Numbers(one, S)
      BY DEF Numbers
    <3>6. SumIn(one, S) = SumIn(N, T)
      <4>1. T \in SUBSET S /\ (\A n \in T : one[n] = N[n]) /\ (\A n \in S \ T : one[n] = 0)
        BY DEF Running
      <4> HIDE DEF T, one
      <4> QED
        BY <3>5, <4>1, SumOfPart
    <3>7. ASSUME NEW n \in S
          PROVE  TimesPaid(S, N, last, y + 1)[n] = TimesPaid(S, N, last, y)[n] + one[n]
      <4> DEFINE a == N[n]
                 l == last[n]
      <4>1. a \in Int /\ l \in Nat
        BY DEF Numbers
      <4>2. /\ TimesPaid(S, N, last, y + 1)[n] = a * (IF l <= y + 1 THEN l ELSE y + 1)
            /\ TimesPaid(S, N, last, y)[n] = a * (IF l <= y THEN l ELSE y)
            /\ one[n] = IF y + 1 <= l THEN a ELSE 0
        BY DEF TimesPaid
      <4> HIDE DEF a, l, one
      <4>3. CASE y + 1 <= l
        <5>1. (IF l <= y + 1 THEN l ELSE y + 1) = y + 1 /\ (IF l <= y THEN l ELSE y) = y
          BY <3>1, <4>1, <4>3
        <5>2. a * (y + 1) = a * y + a
          BY <3>1, <4>1
        <5> QED
          BY <4>2, <4>3, <5>1, <5>2
      <4>4. CASE ~(y + 1 <= l)
        <5>1. (IF l <= y + 1 THEN l ELSE y + 1) = l /\ (IF l <= y THEN l ELSE y) = l
          BY <3>1, <4>1, <4>4
        <5>2. a * l \in Int
          BY <4>1
        <5>3. TimesPaid(S, N, last, y + 1)[n] = a * l /\ TimesPaid(S, N, last, y)[n] = a * l /\ one[n] = 0
          BY <4>2, <4>4, <5>1
        <5> QED
          BY <5>2, <5>3
      <4> QED
        BY <4>3, <4>4
    <3>8. Numbers(TimesPaid(S, N, last, y), S)
      BY <1>b, <3>1
    <3> HIDE DEF one, T
    <3>9. SumIn(TimesPaid(S, N, last, y + 1), S) = SumIn(TimesPaid(S, N, last, y), S) + SumIn(one, S)
      BY <3>5, <3>7, <3>8, SumsAdd
    <3> QED
      BY <3>1, <3>3, <3>4, <3>6, <3>9
  <2>2. CASE ~(y + 1 <= Y)
    BY <2>2
  <2> QED
    BY <2>1, <2>2
<1>3. P = Nat
  <2> HIDE DEF P
  <2>1. P \in SUBSET Nat
    BY DEF P
  <2> QED
    BY <1>1, <1>2, <2>1, Counting
<1>4. SumIn(w, 1 .. Y) = SumIn(TimesPaid(S, N, last, Y), S)
  <2>1. Y \in P
    BY <1>3
  <2> QED
    BY <2>1
<1>5. ASSUME NEW n \in S
      PROVE  u[n] = TimesPaid(S, N, last, Y)[n]
  <2>1. last[n] <= Y
    OBVIOUS
  <2> QED
    BY <2>1 DEF TimesPaid
<1>6. Numbers(TimesPaid(S, N, last, Y), S)
  BY <1>b
<1>7. SumIn(u, S) = SumIn(TimesPaid(S, N, last, Y), S)
  BY <1>5, <1>6, SumsSame
<1> QED
  BY <1>4, <1>7

(* A finite set of numbers has a greatest.                                   *)
LEMMA GreatestExists ==
  ASSUME NEW S, IsFiniteSet(S), S # {}, S \in SUBSET Int
  PROVE  \E y \in S : \A x \in S : x <= y
<1> DEFINE P == {s \in SUBSET S : s # {} => \E y \in s : \A x \in s : x <= y}
<1>1. {} \in P
  OBVIOUS
<1>2. \A s \in SUBSET S : s # {} /\ (\A x \in s : s \ {x} \in P) => s \in P
  <2> SUFFICES ASSUME NEW s \in SUBSET S, s # {}, \A x \in s : s \ {x} \in P
               PROVE  \E y \in s : \A x \in s : x <= y
    OBVIOUS
  <2>1. PICK z \in s : TRUE
    OBVIOUS
  <2>2. CASE s \ {z} = {}
    BY <2>1, <2>2
  <2>3. CASE s \ {z} # {}
    <3>1. PICK y \in s \ {z} : \A x \in s \ {z} : x <= y
      BY <2>1, <2>3
    <3>2. y \in Int /\ z \in Int
      BY <2>1, <3>1
    <3>3. CASE z <= y
      BY <2>1, <3>1, <3>3
    <3>4. CASE ~(z <= y)
      <4>1. \A x \in s : x <= z
        BY <2>1, <3>1, <3>2, <3>4
      <4> QED
        BY <2>1, <4>1
    <3> QED
      BY <3>3, <3>4
  <2> QED
    BY <2>2, <2>3
<1>3. P = SUBSET S
  <2> HIDE DEF P
  <2>1. P \in SUBSET SUBSET S
    BY DEF P
  <2> QED
    BY <1>1, <1>2, <2>1, Removing
<1> QED
  BY <1>3

(* The year of a maturity given in quarters.                                 *)
LEMMA YearIs ==
  ASSUME NEW q \in Nat \ {0}
  PROVE  /\ MaturityYear(q) \in Nat \ {0}
         /\ \A y \in Nat : MaturityYear(q) <= y <=> q <= 4 * y
         /\ q % 4 = 0 => q = 4 * MaturityYear(q)
<1> DEFINE m == (q + 3) \div 4
           r == ((q + 3) % 4)
           k == q \div 4
<1>1. 4 \in Natural1 /\ q + 3 \in Nat
  BY DEF Natural1
<1>2. m \in Int /\ r \in 0 .. 3 /\ q + 3 = 4 * m + r
  BY <1>1, Division
<1>3. k \in Int /\ q = 4 * k + (q % 4)
  BY <1>1, Division
<1>4. MaturityYear(q) = m
  BY DEF MaturityYear
<1> DEFINE s == (q % 4)
<1> HIDE DEF m, r, k, s
<1>5. m \in Nat \ {0}
  BY <1>2
<1>6. \A y \in Nat : m <= y <=> q <= 4 * y
  BY <1>2
<1>7. s = 0 => q = 4 * m
  BY <1>2, <1>3 DEF s
<1> QED
  BY <1>4, <1>5, <1>6, <1>7 DEF s

(* A rung pays at least once, and over whole years so many times a year.     *)
LEMMA PeriodsAre ==
  ASSUME NEW b \in Rung
  PROVE  /\ Periods(b) \in Nat \ {0}
         /\ b.quarters % 4 = 0 => Periods(b) = MaturityYear(b.quarters) * b.payments
<1> DEFINE q == b.quarters
           p == b.payments
           m == MaturityYear(q)
           k == RoundHalfEven(q * p, 4)
<1>1. q \in Nat \ {0} /\ p \in Nat \ {0}
  BY DEF Rung
<1>2. 4 \in Natural1 /\ q * p \in Int
  BY <1>1 DEF Natural1
<1>3. Periods(b) = IF k < 1 THEN 1 ELSE k
  BY DEF Periods
<1>4. k \in Int
  BY <1>2, RoundedByHalf
<1>5. m \in Nat \ {0} /\ (q % 4 = 0 => q = 4 * m)
  BY <1>1, YearIs
<1>6. ASSUME q % 4 = 0
      PROVE  k = m * p /\ m * p \in Nat /\ m * p # 0
  <2>1. q * p = 4 * (m * p) + 0
    <3>1. q * p = (4 * m) * p
      BY <1>5, <1>6
    <3>2. (4 * m) * p = 4 * (m * p)
      BY <1>1, <1>5
    <3>3. 4 * (m * p) \in Int
      BY <1>1, <1>5
    <3> QED
      BY <3>1, <3>2, <3>3
  <2>2. m * p \in Nat /\ m * p # 0
    BY <1>1, <1>5
  <2> DEFINE a == q * p
             c == m * p
  <2>3. a \in Int /\ c \in Int /\ 0 \in 0 .. (4 - 1) /\ a = 4 * c + 0
    BY <1>2, <2>1, <2>2
  <2> HIDE DEF a, c
  <2>4. a \div 4 = c /\ a % 4 = 0
    BY <1>2, <2>3, DivisionUnique
  <2>5. RoundHalfEven(a, 4) = c
    BY <2>4 DEF RoundHalfEven
  <2> QED
    BY <2>2, <2>5 DEF a, c
<1> HIDE DEF k, m, q
<1>7. Periods(b) \in Nat \ {0}
  BY <1>3, <1>4
<1>8. q % 4 = 0 => Periods(b) = m * p
  <2> SUFFICES ASSUME q % 4 = 0
               PROVE  Periods(b) = m * p
    OBVIOUS
  <2> DEFINE c == m * p
  <2>1. k = c /\ c \in Nat /\ c # 0
    BY <1>6
  <2> HIDE DEF c
  <2>2. Periods(b) = c
    BY <1>3, <2>1
  <2> QED
    BY <2>2 DEF c
<1> QED
  BY <1>7, <1>8 DEF q, m

-----------------------------------------------------------------------------
(* The rungs of an analysed strategy and its schedule of payments.           *)

(* The rungs of a request.                                                   *)
LEMMA RungsAre ==
  ASSUME NEW rungs \in RungLists
  PROVE  /\ Len(rungs) \in Nat \ {0} /\ DOMAIN rungs = 1 .. Len(rungs) /\ IsFiniteSet(DOMAIN rungs)
         /\ \A n \in DOMAIN rungs :
              /\ rungs[n] \in Rung
              /\ IsFraction(rungs[n].coupon) /\ rungs[n].coupon[1] >= 0
              /\ IsFraction(rungs[n].yield) /\ rungs[n].yield[1] > -rungs[n].yield[2]
<1>1. rungs \in Seq(Rung) /\ rungs # <<>>
  BY BondRequests
<1>2. Len(rungs) \in Nat /\ DOMAIN rungs = 1 .. Len(rungs) /\ \A n \in DOMAIN rungs : rungs[n] \in Rung
  BY <1>1, LenProperties
<1>3. Len(rungs) # 0
  BY <1>1, EmptySeq
<1>4. IsFiniteSet(1 .. Len(rungs))
  BY <1>2, UpToFinite
<1> QED
  BY <1>2, <1>3, <1>4, BondRequests

(* The weights of the rungs: N over d, d in all.                             *)
Shares(w, S, N, d) ==
  d \in Natural1 /\ (\A n \in S : Stands(w[n], N[n], d)) /\ SumIn(N, S) = d

(* The weights of the rungs of a request add up to one.                      *)
LEMMA RungShares ==
  ASSUME NEW rungs \in RungLists, NEW type \in Types, NEW score \in 1 .. 10
  PROVE  LET w == NormalizedRungWeights(rungs, type, score)
         IN  DOMAIN w = DOMAIN rungs /\ \E N, d : Shares(w, DOMAIN rungs, N, d)
<1> DEFINE count == Len(rungs)
           S == 1 .. count
           v == [n \in DOMAIN rungs |-> rungs[n].weight]
           all == Total(v)
           w == NormalizedRungWeights(rungs, type, score)
           short == ShortWeight(score)
<1>1. count \in Nat \ {0} /\ DOMAIN rungs = S /\ IsFiniteSet(S) /\ \A n \in S : rungs[n] \in Rung
  BY RungsAre
<1>2. v \in [S -> Nat] /\ all = SumIn(v, S) /\ all \in Nat
  <2>1. v \in [S -> Nat] /\ DOMAIN v = S
    BY <1>1 DEF Rung
  <2>2. all = SumIn(v, DOMAIN v)
    BY TotalIs
  <2> HIDE DEF v, all, S
  <2>3. SumIn(v, S) \in Nat
    BY <1>1, <2>1, TotalNat
  <2> QED
    BY <2>1, <2>2, <2>3
<1>3. w = [n \in S |->
             CASE all > 0 -> Fraction(rungs[n].weight, all)
               [] all = 0 /\ (type = "ladder" \/ count = 1) -> Fraction(1, count)
               [] OTHER -> IF n = 1 THEN Fraction(short, 100)
                           ELSE IF n = count THEN Fraction(100 - short, 100) ELSE Whole(0)]
  BY DEF NormalizedRungWeights
<1> HIDE DEF w, all
<1>4. DOMAIN w = S
  BY <1>3
<1>5. CASE all > 0
  <2>1. all \in Natural1
    BY <1>2, <1>5 DEF Natural1
  <2>2. ASSUME NEW n \in S
        PROVE  Stands(w[n], v[n], all)
    <3>1. w[n] = Fraction(v[n], all) /\ v[n] \in Int
      BY <1>1, <1>2, <1>3, <1>5
    <3> HIDE DEF v
    <3> QED
      BY <2>1, <3>1, FractionStands
  <2> HIDE DEF v
  <2>3. Shares(w, S, v, all)
    BY <1>2, <2>1, <2>2 DEF Shares
  <2> QED
    BY <1>1, <1>4, <2>3 DEF w
<1>6. CASE all = 0 /\ (type = "ladder" \/ count = 1)
  <2> DEFINE N == [n \in S |-> 1]
  <2>1. count \in Natural1
    BY <1>1 DEF Natural1
  <2>2. ASSUME NEW n \in S
        PROVE  Stands(w[n], N[n], count)
    <3>1. w[n] = Fraction(1, count) /\ N[n] = 1
      BY <1>3, <1>6
    <3> HIDE DEF N
    <3> QED
      BY <2>1, <3>1, FractionStands
  <2>3. \A n \in S : N[n] = 1
    OBVIOUS
  <2>4. Cardinality(S) = count
    BY <1>1, UpToFinite
  <2> HIDE DEF N, S
  <2>5. SumIn(N, S) = 1 * Cardinality(S)
    BY <1>1, <2>3, SumConstant
  <2>6. 1 * count = count
    BY <1>1
  <2>7. Shares(w, S, N, count)
    BY <2>1, <2>2, <2>4, <2>5, <2>6 DEF Shares
  <2> QED
    BY <1>1, <1>4, <2>7 DEF w
<1>7. CASE ~(all > 0) /\ ~(all = 0 /\ (type = "ladder" \/ count = 1))
  <2> DEFINE N == [n \in S |-> IF n = 1 THEN short ELSE IF n = count THEN 100 - short ELSE 0]
  <2>1. 100 \in Natural1 /\ count > 1 /\ short \in Int
    BY <1>1, <1>2, <1>7 DEF Natural1, ShortWeight
  <2>2. ASSUME NEW n \in S
        PROVE  Stands(w[n], N[n], 100)
    <3>1. w[n] = (IF n = 1 THEN Fraction(short, 100)
                  ELSE IF n = count THEN Fraction(100 - short, 100) ELSE Whole(0))
      BY <1>3, <1>7
    <3>2. Stands(Fraction(short, 100), short, 100)
      <4> HIDE DEF short
      <4> QED
        BY <2>1, FractionStands
    <3>3. Stands(Fraction(100 - short, 100), 100 - short, 100)
      <4> DEFINE e == 100 - short
      <4>1. e \in Int
        BY <2>1
      <4> HIDE DEF e
      <4> QED
        BY <2>1, <4>1, FractionStands DEF e
    <3>4. Stands(Whole(0), 0, 100)
      BY DEF Stands, Whole, Pairs, Natural1
    <3> HIDE DEF short
    <3>5. N[n] = IF n = 1 THEN short ELSE IF n = count THEN 100 - short ELSE 0
      OBVIOUS
    <3> HIDE DEF N
    <3> QED
      BY <3>1, <3>2, <3>3, <3>4, <3>5
  <2>3. SumIn(N, S) = 100
    <3> HIDE DEF short
    <3>1. Numbers(N, S) /\ 1 \in S /\ count \in S
      BY <1>1, <2>1 DEF Numbers
    <3>2. N[1] = short /\ N[count] = 100 - short /\ \A n \in (S \ {1}) \ {count} : N[n] = 0
      <4>1. N[1] = short
        BY <3>1
      <4>2. N[count] = 100 - short
        <5>1. count # 1
          BY <1>1, <2>1
        <5>2. count \in S
          BY <3>1
        <5> HIDE DEF count, S
        <5> QED
          BY <5>1, <5>2
      <4>3. ASSUME NEW n \in (S \ {1}) \ {count} PROVE N[n] = 0
        OBVIOUS
      <4> QED
        BY <4>1, <4>2, <4>3
    <3> HIDE DEF N, S
    <3>3. SumIn(N, S) = N[1] + SumIn(N, S \ {1})
      BY <1>1, <3>1, TotalRemove
    <3>4. IsFiniteSet(S \ {1}) /\ Numbers(N, S \ {1}) /\ count \in S \ {1}
      BY <1>1, <2>1, <3>1, FS_RemoveElement DEF Numbers
    <3>5. SumIn(N, S \ {1}) = N[count] + SumIn(N, (S \ {1}) \ {count})
      BY <3>4, TotalRemove
    <3>6. IsFiniteSet((S \ {1}) \ {count})
      BY <3>4, FS_RemoveElement
    <3>7. SumIn(N, (S \ {1}) \ {count}) = 0
      BY <3>2, <3>6, TotalZero
    <3> QED
      BY <2>1, <3>2, <3>3, <3>5, <3>7
  <2> HIDE DEF N
  <2>4. Shares(w, S, N, 100)
    BY <2>1, <2>2, <2>3 DEF Shares
  <2> QED
    BY <1>1, <1>4, <2>4 DEF w
<1> QED
  BY <1>5, <1>6, <1>7

(* What a rung is allocated, and what that makes it pay.                     *)
LEMMA RungPays ==
  ASSUME NEW b \in Rung, IsFraction(b.coupon), NEW capital \in Nat \ {0}, NEW weight, NEW n, NEW d, Stands(weight, n, d)
  PROVE  LET r == AnalyzeRung(b, capital, weight)
         IN  /\ Stands(r.allocated, capital * n, d)
             /\ r.principal \in Frs /\ r.income \in Frs
             /\ r.bond = b /\ r.income = Product(r.principal, b.coupon)
<1> DEFINE r == AnalyzeRung(b, capital, weight)
           allocated == Product(Whole(capital), weight)
           price == Scaled(Whole(b.face), b.percent, 100)
           units == Quotient(allocated, price)
           principal == Product(units, Whole(b.face))
<1>1. r.bond = b /\ r.allocated = allocated /\ r.principal = principal /\ r.income = Product(principal, b.coupon)
  BY DEF AnalyzeRung
<1>2. b.face \in Nat \ {0} /\ b.percent \in Nat \ {0} /\ b.coupon \in Pairs
  BY DEF Rung, IsFraction, Pairs, Natural1
<1>3. 1 \in Natural1 /\ 100 \in Natural1 /\ d \in Natural1 /\ n \in Int /\ capital \in Int
  BY DEF Natural1, Stands
<1>4. Stands(Whole(capital), capital, 1) /\ Stands(Whole(b.face), b.face, 1)
  BY <1>2, <1>3 DEF Stands, Whole, Pairs
<1>5. Stands(allocated, capital * n, d)
  <2>1. Stands(allocated, capital * n, 1 * d)
    BY <1>4, ProductStands
  <2>2. 1 * d = d
    BY <1>3 DEF Natural1
  <2> QED
    BY <2>1, <2>2
<1>6. Stands(price, b.face * b.percent, 1 * 100) /\ b.face * b.percent > 0
  <2>1. Stands(price, b.face * b.percent, 1 * 100)
    BY <1>2, <1>3, <1>4, ScaledStands
  <2> QED
    BY <1>2, <2>1
<1> DEFINE a == capital * n
           p == b.face * b.percent
<1> HIDE DEF a, p, price, allocated
<1>7. Stands(units, a * (1 * 100), d * p)
  BY <1>5, <1>6, QuotientStands DEF a, p
<1> HIDE DEF units
<1>8. principal \in Frs
  <2>1. IsFraction(principal) /\ Stands(principal, (a * (1 * 100)) * b.face, (d * p) * 1)
    BY <1>4, <1>7, ProductStands
  <2> HIDE DEF principal
  <2> QED
    BY <2>1, StandsFr
<1> HIDE DEF principal
<1>9. Product(principal, b.coupon) \in Frs
  <2>1. b.coupon \in Frs
    BY <1>2 DEF Frs
  <2>2. Stands(principal, principal[1], principal[2]) /\ Stands(b.coupon, b.coupon[1], b.coupon[2])
    BY <1>8, <2>1, FrStands
  <2>3. IsFraction(Product(principal, b.coupon))
        /\ Stands(Product(principal, b.coupon), principal[1] * b.coupon[1], principal[2] * b.coupon[2])
    BY <2>2, ProductStands
  <2> QED
    BY <2>3, StandsFr
<1> QED
  BY <1>1, <1>5, <1>8, <1>9 DEF a

(* The rungs of a request, analysed.                                         *)
Results(type, capital, score, rungs) ==
  [n \in DOMAIN rungs |-> AnalyzeRung(rungs[n], capital, NormalizedRungWeights(rungs, type, score)[n])]
Paying(results, S) ==
  /\ DOMAIN results = S /\ IsFiniteSet(S) /\ S # {}
  /\ \A n \in S : /\ results[n].bond \in Rung /\ IsFraction(results[n].bond.coupon)
                  /\ results[n].principal \in Frs /\ results[n].income \in Frs
                  /\ results[n].income = Product(results[n].principal, results[n].bond.coupon)

(* The rungs spend the capital.                                              *)
LEMMA CapitalSpent ==
  ASSUME NEW rungs \in RungLists, NEW type \in Types, NEW score \in 1 .. 10, NEW capital \in Nat \ {0}
  PROVE  LET r == Results(type, capital, score, rungs)
         IN  /\ Paying(r, DOMAIN rungs)
             /\ TotalFraction([n \in DOMAIN r |-> r[n].allocated]) = Whole(capital)
<1> DEFINE S == DOMAIN rungs
           weights == NormalizedRungWeights(rungs, type, score)
           r == Results(type, capital, score, rungs)
           v == [n \in DOMAIN r |-> r[n].allocated]
<1>1. IsFiniteSet(S) /\ S # {} /\ \A n \in S : rungs[n] \in Rung /\ IsFraction(rungs[n].coupon)
  BY RungsAre
<1>2. PICK N, d : Shares(weights, S, N, d)
  BY RungShares
<1>3. DOMAIN r = S /\ \A n \in S : r[n] = AnalyzeRung(rungs[n], capital, weights[n])
  BY DEF Results
<1> HIDE DEF r, weights
<1>4. ASSUME NEW n \in S
      PROVE  /\ Stands(r[n].allocated, capital * N[n], d)
             /\ r[n].principal \in Frs /\ r[n].income \in Frs
             /\ r[n].bond = rungs[n] /\ r[n].income = Product(r[n].principal, rungs[n].coupon)
  <2>1. Stands(weights[n], N[n], d) /\ rungs[n] \in Rung /\ IsFraction(rungs[n].coupon)
    BY <1>1, <1>2 DEF Shares
  <2>2. r[n] = AnalyzeRung(rungs[n], capital, weights[n])
    BY <1>3
  <2> DEFINE b == rungs[n]
             w == weights[n]
             k == N[n]
  <2> HIDE DEF b, w, k
  <2>3. b \in Rung /\ IsFraction(b.coupon) /\ Stands(w, k, d)
    BY <2>1 DEF b, w, k
  <2>4. LET a == AnalyzeRung(b, capital, w)
        IN  /\ Stands(a.allocated, capital * k, d)
            /\ a.principal \in Frs /\ a.income \in Frs
            /\ a.bond = b /\ a.income = Product(a.principal, b.coupon)
    BY <2>3, RungPays
  <2> QED
    BY <2>2, <2>4 DEF b, w, k
<1>5. Paying(r, S)
  BY <1>1, <1>3, <1>4 DEF Paying
<1> DEFINE M == [n \in S |-> N[n] * capital]
<1>6. d \in Natural1 /\ SumIn(N, S) = d /\ Numbers(N, S)
  BY <1>2 DEF Shares, Stands, Numbers
<1>7. DOMAIN v = S
  BY <1>3
<1>8. \A n \in S : Stands(v[n], M[n], d)
  <2>1. \A n \in S : capital * N[n] = N[n] * capital /\ v[n] = r[n].allocated
    BY <1>3, <1>6 DEF Numbers
  <2> QED
    BY <1>4, <2>1
<1>9. \A n \in S : M[n] = N[n] * capital
  OBVIOUS
<1> HIDE DEF v, M
<1>10. Stands(TotalFraction(v), SumIn(M, S), d) /\ IsFraction(TotalFraction(v))
  BY <1>1, <1>6, <1>7, <1>8, FractionTotal
<1>11. SumIn(M, S) = SumIn(N, S) * capital
  <2>1. capital \in Int
    OBVIOUS
  <2> QED
    BY <1>1, <1>6, <1>9, <2>1, SumFactor
<1>12. Stands(Whole(capital), capital * d, d) /\ IsFraction(Whole(capital))
  BY <1>6, WholeStands
<1>13. SumIn(M, S) = capital * d
  BY <1>6, <1>11 DEF Natural1
<1>14. TotalFraction(v) = Whole(capital)
  BY <1>10, <1>12, <1>13, StandsEqual
<1> QED
  BY <1>5, <1>14 DEF r, v

-----------------------------------------------------------------------------
(* The schedule: years up to the last, each with what is paid in it.         *)
LastYears(results) == [n \in DOMAIN results |-> MaturityYear(results[n].bond.quarters)]
Scheduled(schedule, results, S, Y) ==
  /\ Y \in Nat /\ DOMAIN schedule = 1 .. Y
  /\ \A n \in S : LastYears(results)[n] \in Nat \ {0} /\ LastYears(results)[n] <= Y
  /\ \A y \in 1 .. Y :
       /\ schedule[y].coupons = TotalFraction([n \in {n \in S : y <= LastYears(results)[n]} |-> results[n].income])
       /\ schedule[y].principal = TotalFraction([n \in {n \in S : y = LastYears(results)[n]} |-> results[n].principal])

(* The schedule has in every year the coupons of the rungs that run and the  *)
(* principals of those that mature.                                          *)
LEMMA CashFlowsAre ==
  ASSUME NEW results, NEW S, Paying(results, S)
  PROVE  \E Y : Scheduled(CashFlows(results), results, S, Y)
<1> DEFINE last == LastYears(results)
           years == {last[n] : n \in S}
           c == CashFlows(results)
<1>1. DOMAIN results = S /\ IsFiniteSet(S) /\ S # {}
  BY DEF Paying
<1>2. \A n \in S : last[n] = MaturityYear(results[n].bond.quarters) /\ last[n] \in Nat \ {0}
  <2>1. \A n \in S : last[n] = MaturityYear(results[n].bond.quarters)
    BY <1>1 DEF LastYears
  <2>2. ASSUME NEW n \in S
        PROVE  MaturityYear(results[n].bond.quarters) \in Nat \ {0}
    <3>1. results[n].bond.quarters \in Nat \ {0}
      BY DEF Paying, Rung
    <3> QED
      BY <3>1, YearIs
  <2> QED
    BY <2>1, <2>2
<1> HIDE DEF last
<1>3. IsFiniteSet(years) /\ years # {} /\ years \in SUBSET Int
  <2>1. IsFiniteSet(years)
    BY <1>1, ImageFinite
  <2> QED
    BY <1>1, <1>2, <2>1
<1>4. PICK Z \in years : \A y \in years : y <= Z
  BY <1>3, GreatestExists
<1> DEFINE Most(y) == y \in years /\ \A n \in S : last[n] <= y
           Y == CHOOSE y \in years : \A n \in S : last[n] <= y
<1>5. Most(Y)
  <2>1. Most(Z)
    BY <1>4
  <2> QED
    BY <2>1
<1>6. Y \in Nat /\ \A n \in S : last[n] <= Y
  BY <1>2, <1>5
<1>7. c = [year \in 1 .. Y |->
             [coupons |-> TotalFraction([n \in {n \in S : year <= last[n]} |-> results[n].income]),
              principal |-> TotalFraction([n \in {n \in S : year = last[n]} |-> results[n].principal])]]
  <2> DEFINE L(n) == MaturityYear(results[n].bond.quarters)
  <2>1. c = [year \in 1 .. CHOOSE y \in {L(n) : n \in S} : \A n \in S : L(n) <= y |->
             [coupons |-> TotalFraction([n \in {n \in S : year <= L(n)} |-> results[n].income]),
              principal |-> TotalFraction([n \in {n \in S : year = L(n)} |-> results[n].principal])]]
    BY <1>1 DEF CashFlows
  <2>2. \A n \in S : L(n) = last[n]
    BY <1>2
  <2> HIDE DEF c, L
  <2>3. {L(n) : n \in S} = years
    BY <2>2
  <2>4. (CHOOSE y \in {L(n) : n \in S} : \A n \in S : L(n) <= y) = Y
    <3>1. \A y : y \in {L(n) : n \in S} /\ (\A n \in S : L(n) <= y) <=> y \in years /\ (\A n \in S : last[n] <= y)
      BY <2>2, <2>3
    <3> QED
      BY <3>1
  <2>5. \A y : {n \in S : y <= L(n)} = {n \in S : y <= last[n]} /\ {n \in S : y = L(n)} = {n \in S : y = last[n]}
    BY <2>2
  <2> HIDE DEF Y, years
  <2> QED
    BY <2>1, <2>4, <2>5
<1> HIDE DEF c, Y
<1>8. Scheduled(c, results, S, Y)
  <2>1. DOMAIN c = 1 .. Y
    BY <1>7
  <2>2. ASSUME NEW y \in 1 .. Y
        PROVE  /\ c[y].coupons = TotalFraction([n \in {n \in S : y <= last[n]} |-> results[n].income])
               /\ c[y].principal = TotalFraction([n \in {n \in S : y = last[n]} |-> results[n].principal])
    BY <1>7
  <2>3. last = LastYears(results)
    BY DEF last
  <2> QED
    BY <1>2, <1>6, <2>1, <2>2, <2>3 DEF Scheduled
<1> QED
  BY <1>8 DEF c

(* The rungs due by the end of a year, and those of whole years; what a      *)
(* schedule pays, and what the rungs promise.                                *)
Due(rungs, y) == {n \in DOMAIN rungs : rungs[n].bond.quarters <= 4 * y}
WholeYears(rungs) == {n \in DOMAIN rungs : rungs[n].bond.quarters % 4 = 0}
PrincipalsPaid(schedule, y) == [z \in 1 .. y |-> schedule[z].principal]
PrincipalsDue(rungs, y) == [n \in Due(rungs, y) |-> rungs[n].principal]
CouponsInYears(schedule) == [y \in DOMAIN schedule |-> schedule[y].coupons]
CouponsPriced(rungs) ==
  [n \in WholeYears(rungs) |-> Scaled(PeriodCoupon(rungs[n].bond, rungs[n].principal), Periods(rungs[n].bond), 1)]

(* The total of some of the values.                                          *)
LEMMA SubTotal ==
  ASSUME NEW S, IsFiniteSet(S), NEW v, NEW N, NEW d, Common(v, S, N, d), NEW T \in SUBSET S,
         NEW u, DOMAIN u = T, \A n \in T : u[n] = v[n]
  PROVE  Stands(TotalFraction(u), SumIn(N, T), d) /\ IsFraction(TotalFraction(u)) /\ SumIn(N, T) \in Int
<1>1. IsFiniteSet(T)
  BY FS_Subset
<1>2. d \in Natural1 /\ \A n \in T : Stands(u[n], N[n], d)
  BY DEF Common
<1>3. Stands(TotalFraction(u), SumIn(N, T), d) /\ IsFraction(TotalFraction(u))
  BY <1>1, <1>2, FractionTotal
<1> QED
  BY <1>3 DEF Stands

(* What the schedule pays of the principals up to a year.                    *)
LEMMA PrincipalPaid ==
  ASSUME NEW results, NEW S, Paying(results, S), NEW schedule, NEW Y, Scheduled(schedule, results, S, Y),
         NEW y \in 1 .. Y
  PROVE  TotalFraction(PrincipalsPaid(schedule, y)) = TotalFraction(PrincipalsDue(results, y))
<1> PICK p : p = PrincipalsPaid(schedule, y)
  OBVIOUS
<1> p = [z \in 1 .. y |-> schedule[z].principal]
  BY DEF PrincipalsPaid
<1> PICK R : R = {n \in S : results[n].bond.quarters <= 4 * y}
  OBVIOUS
<1> PICK q : q = PrincipalsDue(results, y)
  OBVIOUS
<1> q = [n \in R |-> results[n].principal]
  BY DEF PrincipalsDue, Due, Paying
<1> DEFINE last == LastYears(results)
           v == [n \in S |-> results[n].principal]
           C(z) == Maturing(S, last, z)
<1>1. DOMAIN results = S /\ IsFiniteSet(S) /\ Y \in Nat /\ y \in Nat /\ y <= Y
  BY DEF Paying, Scheduled
<1>2. \A n \in S : last[n] \in Nat \ {0}
  BY DEF Scheduled
<1>3. \A n \in S : v[n] \in Pairs
  BY DEF Paying, Frs
<1> HIDE DEF v
<1>4. PICK N, d : Common(v, S, N, d)
  BY <1>1, <1>3, CommonDenominator
<1> DEFINE w == [z \in 1 .. y |-> SumIn(N, C(z))]
<1>5. ASSUME NEW z \in 1 .. y
      PROVE  Stands(p[z], w[z], d) /\ w[z] \in Int
  <2> DEFINE T == {n \in S : z = last[n]}
             u == [n \in T |-> results[n].principal]
  <2>1. p[z] = TotalFraction(u)
    <3>1. z \in 1 .. Y
      BY <1>1
    <3> QED
      BY <3>1 DEF Scheduled
  <2>2. DOMAIN u = T /\ T \in SUBSET S /\ \A n \in T : u[n] = v[n]
    BY DEF v
  <2>3. w[z] = SumIn(N, T)
    BY DEF Maturing
  <2> HIDE DEF T, u, w
  <2>4. Stands(TotalFraction(u), SumIn(N, T), d) /\ SumIn(N, T) \in Int
    BY <1>1, <1>4, <2>2, SubTotal
  <2> QED
    BY <2>1, <2>3, <2>4
<1>6. \A z \in 1 .. y : w[z] = SumIn(N, C(z))
  OBVIOUS
<1>7. d \in Natural1 /\ Numbers(N, S)
  BY <1>4 DEF Common, Numbers
<1> HIDE DEF w
<1>8. Stands(TotalFraction(p), SumIn(w, 1 .. y), d) /\ IsFraction(TotalFraction(p))
  <2>1. IsFiniteSet(1 .. y) /\ DOMAIN p = 1 .. y
    BY <1>1, UpToFinite
  <2>2. \A z \in 1 .. y : Stands(p[z], w[z], d)
    BY <1>5
  <2> QED
    BY <1>7, <2>1, <2>2, FractionTotal
<1>9. SumIn(w, 1 .. y) = SumIn(N, Reached(S, last, y))
  <2> HIDE DEF last
  <2>1. \A z \in 1 .. y : w[z] = SumIn(N, Maturing(S, last, z))
    BY <1>6
  <2> QED
    BY <1>1, <1>2, <1>7, <2>1, SumByClass
<1>10. Reached(S, last, y) = R
  <2>1. ASSUME NEW n \in S
        PROVE  last[n] <= y <=> results[n].bond.quarters <= 4 * y
    <3>1. results[n].bond.quarters \in Nat \ {0}
      BY DEF Paying, Rung
    <3>2. last[n] = MaturityYear(results[n].bond.quarters)
      BY <1>1 DEF LastYears
    <3> QED
      BY <1>1, <3>1, <3>2, YearIs
  <2> QED
    BY <2>1 DEF Reached
<1>11. Stands(TotalFraction(q), SumIn(N, R), d) /\ IsFraction(TotalFraction(q))
  <2> DEFINE T == R
             u == q
  <2>1. DOMAIN u = T /\ T \in SUBSET S /\ \A n \in T : u[n] = v[n]
    BY DEF v
  <2> HIDE DEF T, u
  <2>2. Common(v, S, N, d) /\ IsFiniteSet(S)
    BY <1>1, <1>4
  <2>3. Stands(TotalFraction(u), SumIn(N, T), d)
    BY <2>1, <2>2, SubTotal
  <2>4. IsFraction(TotalFraction(u))
    <3>1. IsFiniteSet(T)
      BY <2>1, <2>2, FS_Subset
    <3>2. d \in Natural1 /\ \A n \in T : Stands(u[n], N[n], d)
      BY <2>1, <2>2 DEF Common
    <3> QED
      BY <2>1, <3>1, <3>2, FractionTotal
  <2> QED
    BY <2>3, <2>4 DEF T, u
<1> QED
  BY <1>8, <1>9, <1>10, <1>11, StandsEqual

(* A payment made every period of whole years is paid every year.            *)
LEMMA PeriodsPay ==
  ASSUME NEW f, NEW n, NEW d, Stands(f, n, d), NEW years \in Nat, NEW payments \in Natural1
  PROVE  Stands(Scaled(Scaled(f, 1, payments), years * payments, 1), n * years, d)
<1> DEFINE c == Scaled(f, 1, payments)
           k == years * payments
<1>1. n \in Int /\ d \in Natural1 /\ k \in Int /\ 1 \in Int /\ 1 \in Natural1
  BY DEF Stands, Natural1
<1>2. Stands(c, n * 1, d * payments)
  BY <1>1, ScaledStands
<1>3. n * 1 = n
  BY <1>1
<1>4. Stands(c, n, d * payments)
  BY <1>2, <1>3
<1> HIDE DEF c, k
<1>5. Stands(Scaled(c, k, 1), n * k, (d * payments) * 1)
  BY <1>1, <1>4, ScaledStands
<1>6. (d * payments) * 1 = d * payments /\ n * k = (n * years) * payments /\ n * years \in Int
  <2>1. (d * payments) * 1 = d * payments
    BY <1>1 DEF Natural1
  <2>2. n * k = (n * years) * payments /\ n * years \in Int
    BY <1>1 DEF Natural1, k
  <2> QED
    BY <2>1, <2>2
<1> DEFINE m == n * years
<1>7. Stands(Scaled(c, k, 1), m * payments, d * payments) /\ m \in Int
  BY <1>5, <1>6
<1> HIDE DEF m
<1>8. Stands(Scaled(c, k, 1), m, d)
  BY <1>1, <1>7, StandsScaledDown
<1> QED
  BY <1>8 DEF m, c, k

(* What the schedule pays in coupons.                                        *)
LEMMA CouponsPaid ==
  ASSUME NEW results, NEW S, Paying(results, S), NEW schedule, NEW Y, Scheduled(schedule, results, S, Y),
         WholeYears(results) = S
  PROVE  TotalFraction(CouponsInYears(schedule)) = TotalFraction(CouponsPriced(results))
<1> PICK p : p = CouponsInYears(schedule)
  OBVIOUS
<1> p = [y \in 1 .. Y |-> schedule[y].coupons]
  BY DEF CouponsInYears, Scheduled
<1> PICK q : q = CouponsPriced(results)
  OBVIOUS
<1> q = [n \in S |-> Scaled(PeriodCoupon(results[n].bond, results[n].principal),
                            Periods(results[n].bond), 1)]
  BY DEF CouponsPriced
<1> \A n \in S : results[n].bond.quarters % 4 = 0
  BY DEF WholeYears
<1> DEFINE last == LastYears(results)
           v == [n \in S |-> results[n].income]
           C(z) == Running(S, last, z)
<1>1. DOMAIN results = S /\ IsFiniteSet(S) /\ Y \in Nat
  BY DEF Paying, Scheduled
<1>2. \A n \in S : last[n] \in Nat \ {0} /\ last[n] <= Y
  BY DEF Scheduled
<1>3. \A n \in S : v[n] \in Pairs
  BY DEF Paying, Frs
<1> HIDE DEF v
<1>4. PICK N, d : Common(v, S, N, d)
  BY <1>1, <1>3, CommonDenominator
<1> DEFINE w == [z \in 1 .. Y |-> SumIn(N, C(z))]
<1>5. ASSUME NEW z \in 1 .. Y
      PROVE  Stands(p[z], w[z], d) /\ w[z] \in Int
  <2> DEFINE T == {n \in S : z <= last[n]}
             u == [n \in T |-> results[n].income]
  <2>1. p[z] = TotalFraction(u)
    BY <1>1 DEF Scheduled
  <2>2. DOMAIN u = T /\ T \in SUBSET S /\ \A n \in T : u[n] = v[n]
    BY DEF v
  <2>3. w[z] = SumIn(N, T)
    BY DEF Running
  <2> HIDE DEF T, u, w
  <2>4. Stands(TotalFraction(u), SumIn(N, T), d) /\ SumIn(N, T) \in Int
    BY <1>1, <1>4, <2>2, SubTotal
  <2> QED
    BY <2>1, <2>3, <2>4
<1>6. \A z \in 1 .. Y : w[z] = SumIn(N, C(z))
  OBVIOUS
<1>7. d \in Natural1 /\ Numbers(N, S) /\ N \in [S -> Int]
  BY <1>4 DEF Common, Numbers
<1> HIDE DEF w
<1>8. Stands(TotalFraction(p), SumIn(w, 1 .. Y), d) /\ IsFraction(TotalFraction(p))
  <2>1. IsFiniteSet(1 .. Y) /\ DOMAIN p = 1 .. Y
    BY <1>1, UpToFinite
  <2>2. \A z \in 1 .. Y : Stands(p[z], w[z], d)
    BY <1>5
  <2> QED
    BY <1>7, <2>1, <2>2, FractionTotal
<1> DEFINE u == [n \in S |-> N[n] * last[n]]
<1>9. SumIn(w, 1 .. Y) = SumIn(u, S)
  <2>0. \A n \in S : u[n] = N[n] * last[n]
    OBVIOUS
  <2>1. \A z \in 1 .. Y : w[z] = SumIn(N, Running(S, last, z))
    BY <1>6
  <2>2. \A n \in S : last[n] \in 0 .. Y
    BY <1>1, <1>2
  <2>3. IsFiniteSet(S) /\ Numbers(N, S) /\ Y \in Nat
    BY <1>1, <1>7
  <2> HIDE DEF last, u
  <2> QED
    BY <2>0, <2>1, <2>2, <2>3, SumByReach
<1>10. ASSUME NEW n \in S
       PROVE  Stands(q[n], u[n], d)
  <2> DEFINE b == results[n].bond
             y == last[n]
             f == results[n].income
  <2>1. b \in Rung /\ f = Product(results[n].principal, b.coupon)
    BY DEF Paying
  <2>2. y = MaturityYear(b.quarters) /\ y \in Nat /\ b.payments \in Natural1
    <3>1. y = MaturityYear(b.quarters)
      BY <1>1 DEF LastYears
    <3>2. y \in Nat
      BY <1>2
    <3>3. b.payments \in {1, 2, 4, 12}
      BY <2>1 DEF Rung
    <3> HIDE DEF b
    <3> QED
      BY <3>1, <3>2, <3>3 DEF Natural1
  <2>3. Periods(b) = y * b.payments
    <3>1. b.quarters % 4 = 0
      OBVIOUS
    <3> HIDE DEF b
    <3>2. Periods(b) = MaturityYear(b.quarters) * b.payments
      BY <2>1, <3>1, PeriodsAre
    <3> QED
      BY <2>2, <3>2
  <2>4. Stands(f, N[n], d)
    BY <1>4 DEF Common, v
  <2>5. q[n] = Scaled(Scaled(f, 1, b.payments), y * b.payments, 1)
    <3>1. q[n] = Scaled(PeriodCoupon(b, results[n].principal), Periods(b), 1)
      OBVIOUS
    <3>2. PeriodCoupon(b, results[n].principal) = Scaled(f, 1, b.payments)
      BY <2>1 DEF PeriodCoupon
    <3> QED
      BY <2>3, <3>1, <3>2
  <2>6. u[n] = N[n] * y
    OBVIOUS
  <2> HIDE DEF b, y, f, u
  <2>7. Stands(Scaled(Scaled(f, 1, b.payments), y * b.payments, 1), N[n] * y, d)
    BY <2>2, <2>4, PeriodsPay
  <2> QED
    BY <2>5, <2>6, <2>7
<1>11. Stands(TotalFraction(q), SumIn(u, S), d) /\ IsFraction(TotalFraction(q))
  <2>1. DOMAIN q = S
    OBVIOUS
  <2> HIDE DEF u
  <2> QED
    BY <1>1, <1>7, <1>10, <2>1, FractionTotal
<1> HIDE DEF u
<1> QED
  BY <1>8, <1>9, <1>11, StandsEqual

(* What an analysed strategy promises.                                       *)
Spent(rungs, capital) == TotalFraction([n \in DOMAIN rungs |-> rungs[n].allocated]) = Whole(capital)
Repaid(rungs, schedule) ==
  \A y \in DOMAIN schedule : TotalFraction(PrincipalsPaid(schedule, y)) = TotalFraction(PrincipalsDue(rungs, y))
CouponsKept(rungs, schedule) ==
  WholeYears(rungs) = DOMAIN rungs => TotalFraction(CouponsInYears(schedule)) = TotalFraction(CouponsPriced(rungs))
PromisesKept(s) ==
  s.kind = "analyzed" =>
    Spent(s.rungs, s.capital) /\ Repaid(s.rungs, s.schedule) /\ CouponsKept(s.rungs, s.schedule)

(* The schedule of rungs that pay keeps their promises.                      *)
LEMMA ScheduleKept ==
  ASSUME NEW r, NEW S, Paying(r, S)
  PROVE  Repaid(r, CashFlows(r)) /\ CouponsKept(r, CashFlows(r))
<1>1. PICK Y : Scheduled(CashFlows(r), r, S, Y)
  BY CashFlowsAre
<1> DEFINE c == CashFlows(r)
<1>2. DOMAIN c = 1 .. Y /\ Scheduled(c, r, S, Y) /\ DOMAIN r = S
  BY <1>1 DEF Scheduled, Paying
<1> HIDE DEF c
<1>3. Repaid(r, c)
  BY <1>2, PrincipalPaid DEF Repaid
<1>4. CouponsKept(r, c)
  BY <1>2, CouponsPaid DEF CouponsKept
<1> QED
  BY <1>3, <1>4 DEF c

(* Neither call answers a strategy that breaks its promises.                 *)
LEMMA AnalyzedKept ==
  ASSUME PromisesKept(strategy), [BondsNext]_bondVars
  PROVE  PromisesKept(strategy')
<1>1. CASE AnalyzeStrategy
  <2>1. PICK type \in Types, capital \in Capitals, score \in BondScores, rungs \in RungLists :
          strategy' = AnalyzeBondStrategy(type, capital, score, rungs)
    BY <1>1 DEF AnalyzeStrategy, Types
  <2> DEFINE r == Results(type, capital, score, rungs)
  <2>2. strategy' = [kind |-> "analyzed", capital |-> capital, rungs |-> r, schedule |-> CashFlows(r)]
    BY <2>1 DEF AnalyzeBondStrategy, Results
  <2>3. capital \in Nat \ {0} /\ score \in 1 .. 10
    BY BondRequests
  <2>4. Paying(r, DOMAIN rungs) /\ Spent(r, capital)
    BY <2>3, CapitalSpent DEF Spent
  <2> HIDE DEF r
  <2>5. Repaid(r, CashFlows(r)) /\ CouponsKept(r, CashFlows(r))
    BY <2>4, ScheduleKept
  <2> QED
    BY <2>2, <2>4, <2>5 DEF PromisesKept
<1>2. CASE RecommendRungs
  <2>1. strategy'.kind = "recommended"
    BY <1>2 DEF RecommendRungs
  <2> QED
    BY <2>1 DEF PromisesKept
<1>3. CASE UNCHANGED bondVars
  BY <1>3 DEF bondVars
<1> QED
  BY <1>1, <1>2, <1>3 DEF BondsNext

(* Theorem. An analysed strategy spends its capital, and its schedule pays   *)
(* what its rungs promise: ScheduleKeepsPromises in every state.             *)
THEOREM PromisesAreKept == BondsSpec => []ScheduleKeepsPromises
<1>1. BondsInit => PromisesKept(strategy)
  BY DEF BondsInit, PromisesKept
<1>2. PromisesKept(strategy) /\ [BondsNext]_bondVars => PromisesKept(strategy)'
  BY AnalyzedKept
<1>3. PromisesKept(strategy) => ScheduleKeepsPromises
  BY DEF PromisesKept, Spent, Repaid, CouponsKept, 
         PrincipalsPaid, PrincipalsDue, CouponsInYears, CouponsPriced, Due, WholeYears, ScheduleKeepsPromises
<1> QED
  BY <1>1, <1>2, <1>3, PTL DEF BondsSpec

-----------------------------------------------------------------------------
(* Powers of fractions.                                                      *)

(* The product of two fractions is one.                                      *)
LEMMA ProductFr ==
  ASSUME NEW f \in Frs, NEW g \in Frs
  PROVE  Product(f, g) \in Frs
<1>1. Stands(f, f[1], f[2]) /\ Stands(g, g[1], g[2])
  BY FrStands
<1>2. Stands(Product(f, g), f[1] * g[1], f[2] * g[2]) /\ IsFraction(Product(f, g))
  BY <1>1, ProductStands
<1> QED
  BY <1>2, StandsFr

(* The powers of a fraction, one after the other.                            *)
Powers(f, n, F) ==
  /\ F \in [0 .. n -> Frs] /\ F[0] = Whole(1)
  /\ \A k \in 1 .. n : F[k] = Product(F[k - 1], f)

(* Power multiplies n times.                                                 *)
LEMMA PowerTurns ==
  ASSUME NEW f \in Frs, NEW n \in Nat
  PROVE  \E F : Powers(f, n, F) /\ F[n] = Power(f, n)
<1> DEFINE A == Frs
           base == Whole(1)
           st == [p \in A \X (1 .. n) |-> Product(p[1], f)]
           C(k) == k = [s \in SUBSET (1 .. n) |-> IF s = {} THEN base ELSE Product(k[s \ {Max(s)}], f)]
           it == CHOOSE k : C(k)
<1>3. Power(f, n) = it[1 .. n]
  <2> DEFINE seq == [i \in 1 .. n |-> i]
  <2>1. Power(f, n)
          = (CHOOSE k : k = [s \in SUBSET DOMAIN seq |-> IF s = {} THEN base ELSE
                               Product(k[s \ {Max(s)}], f)])[DOMAIN seq]
    BY DEF Power, FoldLeft, MapThenFoldSet
  <2>2. DOMAIN seq = 1 .. n
    OBVIOUS
  <2> HIDE DEF base, seq
  <2> QED
    BY <2>1, <2>2
<1>4. Steps(1 .. n, A, st)
  <2>1. ASSUME NEW a \in A, NEW x \in 1 .. n
        PROVE  st[<<a, x>>] \in A
    <3>1. st[<<a, x>>] = Product(a, f)
      OBVIOUS
    <3>2. Product(a, f) \in A
      BY ProductFr
    <3> QED
      BY <3>1, <3>2
  <2> QED
    BY <2>1 DEF Steps
<1>5. base \in A
  BY WholeFr
<1>6. \A a \in A, k \in 1 .. n : st[<<a, k>>] = Product(a, f)
  OBVIOUS
<1> HIDE DEF base, A, st
<1>7. PICK g : LeftFold(n, A, base, st, g)
  BY <1>4, <1>5, LeftFoldExists
<1>8. C(g)
  <2>1. ASSUME NEW s \in SUBSET (1 .. n), s # {}
        PROVE  st[<<g[s \ {Max(s)}], Max(s)>>] = Product(g[s \ {Max(s)}], f)
    <3>1. Max(s) \in 1 .. n
      BY <2>1, LargestExists
    <3>2. g[s \ {Max(s)}] \in A
      BY <1>7 DEF LeftFold
    <3> QED
      BY <1>6, <3>1, <3>2
  <2>2. [s \in SUBSET (1 .. n) |-> IF s = {} THEN base ELSE st[<<g[s \ {Max(s)}], Max(s)>>]]
        = [s \in SUBSET (1 .. n) |-> IF s = {} THEN base ELSE Product(g[s \ {Max(s)}], f)]
    BY <2>1
  <2> QED
    BY <1>7, <2>2 DEF LeftFold
<1>9. C(it)
  BY <1>8
<1>10. Unfolds(n, A, base, st, it)
  <2>1. it[{}] = base
    <3>1. {} \in SUBSET (1 .. n)
      OBVIOUS
    <3> HIDE DEF it
    <3> QED
      BY <1>9, <3>1
  <2>2. ASSUME NEW s \in SUBSET (1 .. n), s # {}, it[s \ {Max(s)}] \in A
        PROVE  it[s] = st[<<it[s \ {Max(s)}], Max(s)>>]
    <3>1. Max(s) \in 1 .. n
      BY <2>2, LargestExists
    <3> HIDE DEF it
    <3>2. it[s] = Product(it[s \ {Max(s)}], f)
      BY <1>9, <2>2
    <3> QED
      BY <1>6, <2>2, <3>1, <3>2
  <2> HIDE DEF it
  <2> QED
    BY <2>1, <2>2 DEF Unfolds
<1> HIDE DEF it
<1>11. PICK F : Turns(n, A, base, st, F) /\ F[n] = it[1 .. n]
  BY <1>4, <1>5, <1>10, FoldTurns
<1>12. \A k \in 1 .. n : F[k] = Product(F[k - 1], f)
  <2>1. ASSUME NEW k \in 1 .. n
        PROVE  F[k] = Product(F[k - 1], f)
    <3>1. F[k] = st[<<F[k - 1], k>>] /\ F[k - 1] \in A
      <4>1. k - 1 \in 0 .. n
        OBVIOUS
      <4> QED
        BY <1>11, <4>1 DEF Turns
    <3> QED
      BY <1>6, <3>1
  <2> QED
    BY <2>1
<1>13. Powers(f, n, F)
  BY <1>11, <1>12 DEF Powers, Turns, A, base
<1> QED
  BY <1>3, <1>11, <1>13

(* The powers are the same however many are taken.                           *)
LEMMA PowersAgree ==
  ASSUME NEW f, NEW n \in Nat, NEW m \in Nat, NEW F, NEW G, Powers(f, n, F), Powers(f, m, G),
         NEW j \in Nat, j <= n, j <= m
  PROVE  F[j] = G[j]
<1> DEFINE P == {k \in Nat : k <= n /\ k <= m => F[k] = G[k]}
<1>1. 0 \in P
  BY DEF Powers
<1>2. ASSUME NEW k \in P
      PROVE  k + 1 \in P
  <2>1. CASE k + 1 <= n /\ k + 1 <= m
    <3>1. k \in Nat /\ k + 1 \in 1 .. n /\ k + 1 \in 1 .. m /\ (k + 1) - 1 = k /\ F[k] = G[k]
      BY <2>1
    <3>2. F[k + 1] = Product(F[k], f) /\ G[k + 1] = Product(G[k], f)
      <4>1. F[k + 1] = Product(F[(k + 1) - 1], f) /\ G[k + 1] = Product(G[(k + 1) - 1], f)
        BY <3>1 DEF Powers
      <4> QED
        BY <3>1, <4>1
    <3> QED
      BY <3>1, <3>2
  <2>2. CASE ~(k + 1 <= n /\ k + 1 <= m)
    BY <2>2
  <2> QED
    BY <2>1, <2>2
<1>3. P = Nat
  <2> HIDE DEF P
  <2>1. P \in SUBSET Nat
    BY DEF P
  <2> QED
    BY <1>1, <1>2, <2>1, Counting
<1> QED
  BY <1>3

(* A power is the one before it times the fraction.                          *)
LEMMA PowerNext ==
  ASSUME NEW f \in Frs
  PROVE  /\ Power(f, 0) = Whole(1)
         /\ \A n \in Nat : Power(f, n) \in Frs /\ Power(f, n + 1) = Product(Power(f, n), f)
<1>1. Power(f, 0) = Whole(1)
  <2>1. PICK F : Powers(f, 0, F) /\ F[0] = Power(f, 0)
    BY PowerTurns
  <2> QED
    BY <2>1 DEF Powers
<1>2. ASSUME NEW n \in Nat
      PROVE  Power(f, n) \in Frs /\ Power(f, n + 1) = Product(Power(f, n), f)
  <2> DEFINE m == n + 1
  <2>0. m \in Nat /\ m \in 1 .. m /\ m - 1 = n /\ n <= m /\ n <= n
    OBVIOUS
  <2>1. PICK F : Powers(f, n, F) /\ F[n] = Power(f, n)
    BY PowerTurns
  <2> HIDE DEF m
  <2>2. PICK G : Powers(f, m, G) /\ G[m] = Power(f, m)
    BY <2>0, PowerTurns
  <2>3. F[n] = G[n]
    BY <2>0, <2>1, <2>2, PowersAgree
  <2>4. G[m] = Product(G[n], f)
    BY <2>0, <2>2 DEF Powers
  <2>5. F[n] \in Frs
    <3>1. n \in 0 .. n
      OBVIOUS
    <3> QED
      BY <2>1, <3>1 DEF Powers
  <2> QED
    BY <2>1, <2>2, <2>3, <2>4, <2>5 DEF m
<1> QED
  BY <1>1, <1>2

(* The sign of a fraction is that of any numerator it is given with.         *)
LEMMA StandsSign ==
  ASSUME NEW f, NEW n, NEW d, Stands(f, n, d)
  PROVE  (f[1] > 0 <=> n > 0) /\ (f[1] = 0 <=> n = 0) /\ (f[1] >= 0 <=> n >= 0)
<1> DEFINE p == f[1]
           q == f[2]
<1>1. p \in Int /\ q \in Natural1 /\ n \in Int /\ d \in Natural1 /\ p * d = n * q
  BY DEF Stands, Pairs
<1> HIDE DEF p, q
<1>2. 0 \in Int /\ 0 * d = 0 /\ 0 * q = 0
  BY <1>1 DEF Natural1
<1>3. (0 * d < p * d <=> 0 < p) /\ (0 * d <= p * d <=> 0 <= p)
  BY <1>1, <1>2, Cancel
<1>4. (0 * q < n * q <=> 0 < n) /\ (0 * q <= n * q <=> 0 <= n)
  BY <1>1, <1>2, Cancel
<1> DEFINE a == p * d
<1>5. a \in Int /\ a = n * q
  BY <1>1 DEF Natural1
<1>6. (0 < a <=> 0 < p) /\ (0 <= a <=> 0 <= p) /\ (0 < a <=> 0 < n) /\ (0 <= a <=> 0 <= n)
  BY <1>2, <1>3, <1>4, <1>5
<1> HIDE DEF a
<1> QED
  BY <1>1, <1>5, <1>6 DEF p

(* Products of fractions associate, and one is neutral.                      *)
LEMMA ProductAssociates ==
  ASSUME NEW f \in Frs, NEW g \in Frs, NEW h \in Frs
  PROVE  Product(Product(f, g), h) = Product(f, Product(g, h))
<1> DEFINE a == f[1]
           b == g[1]
           c == h[1]
           x == f[2]
           y == g[2]
           z == h[2]
<1>1. Stands(f, a, x) /\ Stands(g, b, y) /\ Stands(h, c, z)
  BY FrStands
<1>2. a \in Int /\ b \in Int /\ c \in Int /\ x \in Int /\ y \in Int /\ z \in Int
  BY DEF Frs, Pairs, Natural1
<1> HIDE DEF a, b, c, x, y, z
<1>3. Stands(Product(f, g), a * b, x * y) /\ Stands(Product(g, h), b * c, y * z)
  BY <1>1, ProductStands
<1>4. Stands(Product(Product(f, g), h), (a * b) * c, (x * y) * z) /\ IsFraction(Product(Product(f, g), h))
  BY <1>1, <1>3, ProductStands
<1>5. Stands(Product(f, Product(g, h)), a * (b * c), x * (y * z)) /\ IsFraction(Product(f, Product(g, h)))
  BY <1>1, <1>3, ProductStands
<1>6. (a * b) * c = a * (b * c) /\ (x * y) * z = x * (y * z)
  BY <1>2
<1> QED
  BY <1>4, <1>5, <1>6, StandsEqual

(* One changes nothing.                                                      *)
LEMMA ProductOne ==
  ASSUME NEW f \in Frs
  PROVE  Product(f, Whole(1)) = f
<1> DEFINE a == f[1]
           x == f[2]
<1>1. Stands(f, a, x) /\ IsFraction(f) /\ a \in Int /\ x \in Int
  BY FrStands DEF Frs, Pairs, Natural1
<1>2. Stands(Whole(1), 1, 1)
  BY DEF Stands, Whole, Pairs, Natural1
<1> HIDE DEF a, x
<1>3. Stands(Product(f, Whole(1)), a * 1, x * 1) /\ IsFraction(Product(f, Whole(1)))
  BY <1>1, <1>2, ProductStands
<1>4. a * 1 = a /\ x * 1 = x
  BY <1>1
<1> QED
  BY <1>1, <1>3, <1>4, StandsEqual

(* Powers of a positive fraction are positive, and add their exponents.      *)
LEMMA PowerPositive ==
  ASSUME NEW f \in Frs, f[1] > 0, NEW n \in Nat
  PROVE  Power(f, n) \in Frs /\ Power(f, n)[1] > 0
<1> DEFINE P == {k \in Nat : Power(f, k)[1] > 0}
<1>1. 0 \in P
  BY PowerNext DEF Whole
<1>2. ASSUME NEW k \in P
      PROVE  k + 1 \in P
  <2> DEFINE g == Power(f, k)
             a == g[1]
             b == f[1]
  <2>1. k \in Nat /\ k + 1 \in Nat /\ g \in Frs /\ a > 0 /\ Power(f, k + 1) = Product(g, f)
    BY PowerNext
  <2>2. a \in Int /\ b \in Int /\ b > 0
    BY <2>1 DEF Frs, Pairs
  <2> HIDE DEF g
  <2>3. Stands(g, a, g[2]) /\ Stands(f, b, f[2])
    BY <2>1, FrStands
  <2> HIDE DEF a, b
  <2>4. Stands(Product(g, f), a * b, g[2] * f[2])
    BY <2>3, ProductStands
  <2>5. a * b > 0
    BY <2>1, <2>2
  <2> DEFINE c == a * b
             e == g[2] * f[2]
  <2> HIDE DEF c, e
  <2>6. Product(g, f)[1] > 0
    BY <2>4, <2>5, StandsSign DEF c, e
  <2> QED
    BY <2>1, <2>6
<1>3. P = Nat
  <2> HIDE DEF P
  <2>1. P \in SUBSET Nat
    BY DEF P
  <2> QED
    BY <1>1, <1>2, <2>1, Counting
<1> QED
  BY <1>3, PowerNext

(* A power of a sum is the product of the powers.                            *)
LEMMA PowerSplit ==
  ASSUME NEW f \in Frs, NEW m \in Nat, NEW n \in Nat
  PROVE  Power(f, m + n) = Product(Power(f, m), Power(f, n))
<1> DEFINE P == {k \in Nat : Power(f, m + k) = Product(Power(f, m), Power(f, k))}
<1>0. Power(f, m) \in Frs /\ \A k \in Nat : Power(f, k) \in Frs /\ Power(f, k + 1) = Product(Power(f, k), f)
  BY PowerNext
<1>1. 0 \in P
  <2>1. m + 0 = m
    OBVIOUS
  <2>2. Product(Power(f, m), Whole(1)) = Power(f, m)
    BY <1>0, ProductOne
  <2>3. Power(f, 0) = Whole(1)
    BY PowerNext
  <2> QED
    BY <2>1, <2>2, <2>3
<1>2. ASSUME NEW k \in P
      PROVE  k + 1 \in P
  <2>1. k \in Nat /\ k + 1 \in Nat /\ m + k \in Nat /\ m + (k + 1) = (m + k) + 1
        /\ Power(f, m + k) = Product(Power(f, m), Power(f, k))
    OBVIOUS
  <2> DEFINE g == Power(f, m)
             h == Power(f, k)
  <2>2. Power(f, m + (k + 1)) = Product(Product(g, h), f)
    BY <1>0, <2>1
  <2>3. Power(f, k + 1) = Product(h, f) /\ g \in Frs /\ h \in Frs
    BY <1>0, <2>1
  <2> HIDE DEF g, h
  <2>4. Product(Product(g, h), f) = Product(g, Product(h, f))
    BY <2>3, ProductAssociates
  <2> QED
    BY <2>1, <2>2, <2>3, <2>4 DEF g
<1>3. P = Nat
  <2> HIDE DEF P
  <2>1. P \in SUBSET Nat
    BY DEF P
  <2> QED
    BY <1>1, <1>2, <2>1, Counting
<1> QED
  BY <1>3

(* What is discounted over some periods and grows over more has grown over   *)
(* the rest.                                                                 *)
LEMMA DiscountedGrows ==
  ASSUME NEW f \in Frs, NEW g \in Frs, NEW h \in Frs, h[1] > 0
  PROVE  Product(Quotient(f, h), Product(g, h)) = Product(f, g)
<1> DEFINE a == f[1]
           b == g[1]
           c == h[1]
           x == f[2]
           y == g[2]
           z == h[2]
<1>1. Stands(f, a, x) /\ Stands(g, b, y) /\ Stands(h, c, z) /\ c > 0
  BY FrStands
<1>2. a \in Int /\ b \in Int /\ c \in Int /\ x \in Int /\ y \in Int /\ z \in Int /\ z \in Natural1
  BY DEF Frs, Pairs, Natural1
<1> HIDE DEF a, b, c, x, y, z
<1>3. Stands(Quotient(f, h), a * z, x * c)
  BY <1>1, QuotientStands
<1>4. Stands(Product(g, h), b * c, y * z)
  BY <1>1, ProductStands
<1> DEFINE e == Product(Quotient(f, h), Product(g, h))
           k == c * z
<1>5. Stands(e, (a * z) * (b * c), (x * c) * (y * z)) /\ IsFraction(e)
  BY <1>3, <1>4, ProductStands
<1>6. (a * z) * (b * c) = (a * b) * k /\ (x * c) * (y * z) = (x * y) * k
  BY <1>2
<1>7. k \in Natural1
  <2>1. c \in Nat /\ z \in Nat /\ c # 0 /\ z # 0
    BY <1>1, <1>2 DEF Natural1
  <2> QED
    BY <2>1 DEF Natural1
<1>8. Stands(Product(f, g), a * b, x * y) /\ IsFraction(Product(f, g))
  BY <1>1, ProductStands
<1> DEFINE n == a * b
           d == x * y
<1>9. n \in Int /\ d \in Natural1 /\ Stands(e, n * k, d * k)
  BY <1>5, <1>6, <1>8 DEF Stands
<1>10. Stands(Product(f, g), n, d)
  BY <1>8
<1> HIDE DEF e, k, n, d
<1>11. Stands(e, n, d)
  BY <1>7, <1>9, StandsScaledDown
<1>12. e = Product(f, g)
  BY <1>5, <1>8, <1>10, <1>11, StandsEqual
<1> QED
  BY <1>12 DEF e

(* A total times a fraction is the total of the products.                    *)
LEMMA ProductOfTotal ==
  ASSUME NEW S, IsFiniteSet(S), NEW v, DOMAIN v = S, NEW u, DOMAIN u = S, NEW f \in Frs,
         \A x \in S : v[x] \in Frs /\ u[x] = Product(v[x], f)
  PROVE  Product(TotalFraction(v), f) = TotalFraction(u) /\ TotalFraction(v) \in Frs
<1> DEFINE a == f[1]
           b == f[2]
<1>1. Stands(f, a, b) /\ a \in Int /\ b \in Natural1
  BY FrStands DEF Stands
<1>2. \A x \in S : v[x] \in Pairs
  BY DEF Frs
<1>3. PICK N, d : Common(v, S, N, d)
  BY <1>2, CommonDenominator
<1>4. d \in Natural1 /\ Numbers(N, S) /\ (\A x \in S : Stands(v[x], N[x], d))
  BY <1>3 DEF Common, Numbers
<1> HIDE DEF a, b
<1> DEFINE M == [x \in S |-> N[x] * a]
           e == d * b
<1>5. \A x \in S : M[x] = N[x] * a
  OBVIOUS
<1>6. e \in Natural1
  <2>1. d \in Nat /\ b \in Nat /\ d # 0 /\ b # 0
    BY <1>1, <1>4 DEF Natural1
  <2> QED
    BY <2>1 DEF Natural1
<1> HIDE DEF M
<1>7. ASSUME NEW x \in S
      PROVE  Stands(u[x], M[x], e)
  <2>1. Stands(v[x], N[x], d) /\ u[x] = Product(v[x], f)
    BY <1>4
  <2>2. Stands(Product(v[x], f), N[x] * a, d * b)
    BY <1>1, <2>1, ProductStands
  <2> QED
    BY <1>5, <2>1, <2>2
<1> HIDE DEF e
<1>8. Stands(TotalFraction(u), SumIn(M, S), e) /\ IsFraction(TotalFraction(u))
  BY <1>6, <1>7, FractionTotal
<1>9. Stands(TotalFraction(v), SumIn(N, S), d) /\ IsFraction(TotalFraction(v))
  BY <1>4, FractionTotal
<1>10. Stands(Product(TotalFraction(v), f), SumIn(N, S) * a, e) /\ IsFraction(Product(TotalFraction(v), f))
  BY <1>1, <1>9, ProductStands DEF e
<1>11. SumIn(M, S) = SumIn(N, S) * a
  BY <1>1, <1>4, <1>5, SumFactor
<1>12. Product(TotalFraction(v), f) = TotalFraction(u)
  BY <1>8, <1>10, <1>11, StandsEqual
<1>13. TotalFraction(v) \in Frs
  BY <1>9, StandsFr
<1> QED
  BY <1>12, <1>13

(* Sums of fractions commute, and products distribute over them.             *)
LEMMA PlusCommutes ==
  ASSUME NEW f \in Frs, NEW g \in Frs
  PROVE  Plus(f, g) = Plus(g, f)
<1>1. f[1] \in Int /\ g[1] \in Int /\ f[2] \in Int /\ g[2] \in Int
  BY DEF Frs, Pairs, Natural1
<1>2. f[1] * g[2] + g[1] * f[2] = g[1] * f[2] + f[1] * g[2] /\ f[2] * g[2] = g[2] * f[2]
  BY <1>1
<1> QED
  BY <1>2 DEF Plus

(* Plus crosswise.                                                           *)
LEMMA SumIsFr ==
  ASSUME NEW f \in Frs, NEW g \in Frs
  PROVE  /\ Stands(Plus(f, g), f[1] * g[2] + g[1] * f[2], f[2] * g[2])
         /\ Plus(f, g) \in Frs
<1> DEFINE a == f[1]
           b == g[1]
           x == f[2]
           y == g[2]
           n == a * y + b * x
           d == x * y
<1>1. a \in Int /\ b \in Int /\ x \in Natural1 /\ y \in Natural1
  BY DEF Frs, Pairs
<1>2. Plus(f, g) = Fraction(n, d)
  BY DEF Plus
<1> HIDE DEF a, b, x, y
<1>3. n \in Int /\ d \in Natural1
  <2>1. x \in Nat /\ y \in Nat /\ x # 0 /\ y # 0
    BY <1>1 DEF Natural1
  <2>2. x * y \in Nat /\ x * y # 0
    BY <2>1
  <2> QED
    BY <1>1, <2>1, <2>2 DEF Natural1
<1> HIDE DEF n, d
<1>4. Stands(Plus(f, g), n, d) /\ IsFraction(Plus(f, g))
  BY <1>2, <1>3, FractionStands
<1>5. Plus(f, g) \in Frs
  BY <1>4, StandsFr
<1> QED
  BY <1>4, <1>5 DEF n, d, a, b, x, y

(* Product distributes over Plus,                                            *)
LEMMA ProductOfSum ==
  ASSUME NEW f \in Frs, NEW g \in Frs, NEW h \in Frs
  PROVE  Product(Plus(f, g), h) = Plus(Product(f, h), Product(g, h))
<1> DEFINE a == f[1]
           b == g[1]
           c == h[1]
           x == f[2]
           y == g[2]
           z == h[2]
<1>1. Stands(f, a, x) /\ Stands(g, b, y) /\ Stands(h, c, z)
  BY FrStands
<1>2. a \in Int /\ b \in Int /\ c \in Int /\ x \in Int /\ y \in Int /\ z \in Int /\ x \in Natural1 /\ y \in Natural1
  BY DEF Frs, Pairs, Natural1
<1>3. Stands(Plus(f, g), a * y + b * x, x * y)
  BY SumIsFr
<1> HIDE DEF a, b, c, x, y, z
<1>4. Stands(Product(Plus(f, g), h), (a * y + b * x) * c, (x * y) * z) /\ IsFraction(Product(Plus(f, g), h))
  BY <1>1, <1>3, ProductStands
<1>5. Stands(Product(f, h), a * c, x * z) /\ Stands(Product(g, h), b * c, y * z)
  BY <1>1, ProductStands
<1>6. Stands(Product(f, h), (a * c) * y, (x * y) * z)
  <2>1. Stands(Product(f, h), (a * c) * y, (x * z) * y)
    <3> DEFINE n == a * c
               d == x * z
    <3> HIDE DEF n, d
    <3>1. Stands(Product(f, h), n, d)
      BY <1>5 DEF n, d
    <3>2. Stands(Product(f, h), n * y, d * y)
      BY <1>2, <3>1, StandsScaledUp
    <3> QED
      BY <3>2 DEF n, d
  <2>2. (x * z) * y = (x * y) * z
    BY <1>2
  <2> QED
    BY <2>1, <2>2
<1>7. Stands(Product(g, h), (b * c) * x, (x * y) * z)
  <2>1. Stands(Product(g, h), (b * c) * x, (y * z) * x)
    <3> DEFINE n == b * c
               d == y * z
    <3> HIDE DEF n, d
    <3>1. Stands(Product(g, h), n, d)
      BY <1>5 DEF n, d
    <3>2. Stands(Product(g, h), n * x, d * x)
      BY <1>2, <3>1, StandsScaledUp
    <3> QED
      BY <3>2 DEF n, d
  <2>2. (y * z) * x = (x * y) * z
    BY <1>2
  <2> QED
    BY <2>1, <2>2
<1> DEFINE m == (a * c) * y
           n == (b * c) * x
           d == (x * y) * z
<1>8. (a * y + b * x) * c = m + n
  BY <1>2
<1> HIDE DEF m, n, d
<1>9. Stands(Product(f, h), m, d) /\ Stands(Product(g, h), n, d)
  BY <1>6, <1>7 DEF m, n, d
<1>10. Stands(Plus(Product(f, h), Product(g, h)), m + n, d) /\ IsFraction(Plus(Product(f, h), Product(g, h)))
  BY <1>9, PlusStands
<1>11. Stands(Product(Plus(f, g), h), m + n, d)
  BY <1>4, <1>8 DEF d
<1> QED
  BY <1>4, <1>10, <1>11, StandsEqual

(* Quotients by a positive fraction.                                         *)
LEMMA QuotientFr ==
  ASSUME NEW f \in Frs, NEW h \in Frs, h[1] > 0
  PROVE  /\ Stands(Quotient(f, h), f[1] * h[2], f[2] * h[1]) /\ Quotient(f, h) \in Frs
         /\ (Quotient(f, h)[1] > 0 <=> f[1] > 0) /\ (Quotient(f, h)[1] = 0 <=> f[1] = 0)
         /\ (Quotient(f, h)[1] >= 0 <=> f[1] >= 0)
<1> DEFINE a == f[1]
           x == f[2]
           c == h[1]
           z == h[2]
           q == Quotient(f, h)
<1>1. Stands(f, a, x) /\ Stands(h, c, z) /\ c > 0 /\ a \in Int /\ z \in Int /\ z > 0
  BY FrStands DEF Frs, Pairs, Natural1
<1> HIDE DEF a, x, c, z
<1>2. Stands(q, a * z, x * c) /\ IsFraction(q)
  BY <1>1, QuotientStands
<1>3. (a * z > 0 <=> a > 0) /\ (a * z = 0 <=> a = 0) /\ (a * z >= 0 <=> a >= 0)
  BY <1>1
<1> DEFINE n == a * z
           d == x * c
<1> HIDE DEF n, d, q
<1>4. (q[1] > 0 <=> n > 0) /\ (q[1] = 0 <=> n = 0) /\ (q[1] >= 0 <=> n >= 0)
  BY <1>2, StandsSign DEF n, d
<1>5. q \in Frs
  BY <1>2, StandsFr DEF n, d
<1> QED
  BY <1>2, <1>3, <1>4, <1>5 DEF n, d, q, a, x, c, z

(* A quotient is the product with the inverse, which is a fraction.          *)
LEMMA InverseIs ==
  ASSUME NEW f \in Frs, NEW h \in Frs, h[1] > 0
  PROVE  /\ Quotient(f, h) = Product(f, Quotient(Whole(1), h))
         /\ Quotient(Whole(1), h) \in Frs
<1> DEFINE a == f[1]
           x == f[2]
           c == h[1]
           z == h[2]
           i == Quotient(Whole(1), h)
<1>1. Stands(f, a, x) /\ Stands(h, c, z) /\ c > 0 /\ a \in Int /\ z \in Int /\ c \in Int /\ x \in Int
  BY FrStands DEF Frs, Pairs, Natural1
<1>2. Stands(Whole(1), 1, 1)
  BY DEF Stands, Whole, Pairs, Natural1
<1>3. Whole(1) \in Frs
  BY WholeFr
<1> HIDE DEF a, x, c, z
<1>4. Stands(i, 1 * z, 1 * c)
  BY <1>1, <1>2, QuotientStands
<1>5. 1 * z = z /\ 1 * c = c
  BY <1>1
<1>6. i \in Frs
  BY <1>3, QuotientFr
<1>7. Stands(i, z, c)
  BY <1>4, <1>5
<1> HIDE DEF i
<1>8. Stands(Product(f, i), a * z, x * c) /\ IsFraction(Product(f, i))
  BY <1>1, <1>7, ProductStands
<1>9. Stands(Quotient(f, h), a * z, x * c) /\ IsFraction(Quotient(f, h))
  BY <1>1, QuotientStands
<1>10. Quotient(f, h) = Product(f, i)
  BY <1>8, <1>9, StandsEqual
<1> QED
  BY <1>6, <1>10 DEF i

(* and so does Quotient.                                                     *)
LEMMA QuotientOfSum ==
  ASSUME NEW f \in Frs, NEW g \in Frs, NEW h \in Frs, h[1] > 0
  PROVE  Quotient(Plus(f, g), h) = Plus(Quotient(f, h), Quotient(g, h))
<1> DEFINE i == Quotient(Whole(1), h)
<1>1. Plus(f, g) \in Frs
  BY SumIsFr
<1>2. i \in Frs /\ Quotient(f, h) = Product(f, i) /\ Quotient(g, h) = Product(g, i)
      /\ Quotient(Plus(f, g), h) = Product(Plus(f, g), i)
  BY <1>1, InverseIs
<1> HIDE DEF i
<1> QED
  BY <1>2, ProductOfSum

(* A share of a quotient.                                                    *)
LEMMA QuotientOfShare ==
  ASSUME NEW f \in Frs, NEW h \in Frs, h[1] > 0, NEW k \in Int, NEW p \in Natural1,
         NEW n, NEW d, Stands(Quotient(f, h), n, d)
  PROVE  /\ Stands(Quotient(Scaled(f, k, p), h), n * k, d * p)
         /\ Quotient(Scaled(f, k, p), h) \in Frs
<1> DEFINE a == f[1]
           x == f[2]
           c == h[1]
           z == h[2]
           q == Quotient(f, h)
           s == Scaled(f, k, p)
           r == Quotient(s, h)
<1>1. Stands(f, a, x) /\ Stands(h, c, z) /\ c > 0 /\ a \in Int /\ z \in Int /\ c \in Int /\ x \in Int /\ p \in Int
  BY FrStands DEF Frs, Pairs, Natural1
<1>2. Stands(Scaled(q, k, p), n * k, d * p) /\ IsFraction(Scaled(q, k, p))
  BY ScaledStands
<1> HIDE DEF a, x, c, z
<1>3. Stands(s, a * k, x * p) /\ IsFraction(s)
  BY <1>1, ScaledStands
<1>4. Stands(r, (a * k) * z, (x * p) * c) /\ IsFraction(r)
  BY <1>1, <1>3, QuotientStands
<1>5. Stands(q, a * z, x * c)
  BY <1>1, QuotientStands
<1>6. Stands(Scaled(q, k, p), (a * z) * k, (x * c) * p)
  BY <1>5, ScaledStands
<1>7. (a * k) * z = (a * z) * k /\ (x * p) * c = (x * c) * p
  BY <1>1
<1>8. r = Scaled(q, k, p)
  BY <1>2, <1>4, <1>6, <1>7, StandsEqual
<1>9. r \in Frs
  BY <1>4, StandsFr
<1> QED
  BY <1>2, <1>8, <1>9

-----------------------------------------------------------------------------
(* What a bond is worth, and what it grows to.                               *)

(* A yield above -1 grows what it is paid on.                                *)
LEMMA GrowthPositive ==
  ASSUME NEW b \in Rung, IsFraction(b.yield), b.yield[1] > -b.yield[2]
  PROVE  PeriodGrowth(b) \in Frs /\ PeriodGrowth(b)[1] > 0
<1> DEFINE y == b.yield
           a == y[1]
           x == y[2]
           p == b.payments
           s == Scaled(y, 1, p)
           g == PeriodGrowth(b)
<1>1. y \in Pairs /\ a \in Int /\ x \in Natural1 /\ x \in Int /\ x > 0 /\ a > -x
  <2>1. y \in Pairs
    BY DEF IsFraction, Pairs, Natural1
  <2> QED
    BY <2>1 DEF Pairs, Natural1
<1>2. p \in {1, 2, 4, 12}
  BY DEF Rung
<1>3. Stands(y, a, x)
  BY <1>1 DEF Stands
<1> HIDE DEF y, a, x, p
<1>4. p \in Natural1 /\ p \in Int /\ p >= 1 /\ 1 \in Int
  BY <1>2 DEF Natural1
<1>5. Stands(s, a * 1, x * p)
  BY <1>3, <1>4, ScaledStands
<1> DEFINE d == x * p
<1>6. d \in Natural1 /\ d >= x /\ a * 1 = a
  <2>1. x * p >= x
    BY <1>1, <1>4
  <2> QED
    BY <1>1, <1>4, <2>1 DEF Natural1
<1>7. g = Plus(Whole(1), s)
  BY DEF PeriodGrowth, p, y
<1> HIDE DEF d, s, g
<1>8. Stands(s, a, d)
  BY <1>5, <1>6 DEF d
<1>9. Stands(Whole(1), d, d)
  <2>1. d \in Int
    BY <1>6 DEF Natural1
  <2>2. 1 * d = d * 1
    BY <2>1
  <2> QED
    BY <1>6, <2>1, <2>2 DEF Stands, Whole, Pairs, Natural1
<1>10. Stands(g, d + a, d) /\ IsFraction(g)
  BY <1>7, <1>8, <1>9, PlusStands
<1>11. d + a > 0
  BY <1>1, <1>6 DEF Natural1
<1> DEFINE m == d + a
<1> HIDE DEF m
<1>12. g[1] > 0
  BY <1>10, <1>11, StandsSign DEF m
<1> QED
  BY <1>10, <1>12, StandsFr DEF g, m

(* The coupon of a period.                                                   *)
LEMMA PeriodCouponIs ==
  ASSUME NEW b \in Rung, IsFraction(b.coupon), NEW f \in Frs
  PROVE  /\ PeriodCoupon(b, f) \in Frs
         /\ f[1] > 0 /\ b.coupon[1] >= 0 =>
              PeriodCoupon(b, f)[1] >= 0 /\ (PeriodCoupon(b, f)[1] = 0 <=> b.coupon[1] = 0)
<1> DEFINE c == b.coupon
           p == b.payments
           m == Product(f, c)
           r == PeriodCoupon(b, f)
           i == f[1]
           j == c[1]
<1>1. c \in Frs /\ i \in Int /\ j \in Int
  BY DEF IsFraction, Frs, Pairs, Natural1
<1>2. p \in Natural1 /\ 1 \in Int
  <2>1. p \in {1, 2, 4, 12}
    BY DEF Rung
  <2> HIDE DEF p
  <2> QED
    BY <2>1 DEF Natural1
<1>3. r = Scaled(m, 1, p)
  BY DEF PeriodCoupon
<1>4. Stands(f, i, f[2]) /\ Stands(c, j, c[2])
  BY <1>1, FrStands
<1> HIDE DEF c, p, i, j, r
<1>5. Stands(m, i * j, f[2] * c[2])
  BY <1>4, ProductStands
<1> DEFINE n == i * j
           d == f[2] * c[2]
<1> HIDE DEF m, n, d
<1>6. Stands(m, n, d)
  BY <1>5 DEF n, d
<1>7. Stands(r, n * 1, d * p) /\ IsFraction(r)
  BY <1>2, <1>3, <1>6, ScaledStands
<1>8. n * 1 = n /\ n \in Int
  BY <1>6 DEF Stands
<1>9. (r[1] = 0 <=> n = 0) /\ (r[1] >= 0 <=> n >= 0)
  <2> DEFINE e == d * p
  <2> HIDE DEF e
  <2>1. Stands(r, n, e)
    BY <1>7, <1>8 DEF e
  <2> QED
    BY <2>1, StandsSign
<1>10. i > 0 /\ j >= 0 => n >= 0 /\ (n = 0 <=> j = 0)
  BY <1>1 DEF n
<1>11. r \in Frs
  BY <1>7, StandsFr
<1> QED
  BY <1>9, <1>10, <1>11 DEF r, i, j, c

(* What the coupons and the principal return is what the price grows to.     *)
LEMMA ReturnIsGrowth ==
  ASSUME NEW c \in Frs, NEW f \in Frs, NEW g \in Frs, g[1] > 0, NEW n \in Nat,
         NEW v, DOMAIN v = 1 .. n, \A k \in 1 .. n : v[k] = Quotient(c, Power(g, k)),
         NEW u, DOMAIN u = 1 .. n, \A k \in 1 .. n : u[k] = Product(c, Power(g, n - k))
  PROVE  Plus(f, TotalFraction(u)) = Product(Plus(TotalFraction(v), Quotient(f, Power(g, n))), Power(g, n))
<1> DEFINE P == Power(g, n)
<1>1. \A k \in Nat : Power(g, k) \in Frs /\ Power(g, k)[1] > 0
  BY PowerPositive
<1>2. P \in Frs /\ P[1] > 0
  BY <1>1
<1>3. ASSUME NEW k \in 1 .. n
      PROVE  v[k] \in Frs /\ u[k] = Product(v[k], P)
  <2> DEFINE A == Power(g, k)
             B == Power(g, n - k)
  <2>1. k \in Nat /\ n - k \in Nat /\ (n - k) + k = n
    OBVIOUS
  <2>2. A \in Frs /\ A[1] > 0 /\ B \in Frs
    BY <1>1, <2>1
  <2>3. P = Product(B, A)
    BY <2>1, PowerSplit
  <2>4. v[k] = Quotient(c, A) /\ u[k] = Product(c, B)
    OBVIOUS
  <2> HIDE DEF A, B, P
  <2>5. Product(Quotient(c, A), Product(B, A)) = Product(c, B)
    BY <2>2, DiscountedGrows
  <2>6. Quotient(c, A) \in Frs
    BY <2>2, QuotientFr
  <2> QED
    BY <2>3, <2>4, <2>5, <2>6
<1>4. Product(Quotient(f, P), P) = f
  <2>1. P = Product(Whole(1), P)
    <3>1. 0 \in Nat /\ 0 + n = n
      OBVIOUS
    <3>2. Power(g, 0 + n) = Product(Power(g, 0), Power(g, n))
      BY <3>1, PowerSplit
    <3>3. Power(g, 0) = Whole(1)
      BY PowerNext
    <3> QED
      BY <3>1, <3>2, <3>3
  <2>2. Whole(1) \in Frs
    BY WholeFr
  <2> HIDE DEF P
  <2>3. Product(Quotient(f, P), Product(Whole(1), P)) = Product(f, Whole(1))
    BY <1>2, <2>2, DiscountedGrows
  <2>4. Product(f, Whole(1)) = f
    BY ProductOne
  <2> QED
    BY <2>1, <2>3, <2>4
<1>5. Quotient(f, P) \in Frs
  BY <1>2, QuotientFr
<1> HIDE DEF P
<1>6. DOMAIN v = 1 .. n /\ DOMAIN u = 1 .. n /\ IsFiniteSet(1 .. n)
  BY UpToFinite
<1>7. Product(TotalFraction(v), P) = TotalFraction(u) /\ TotalFraction(v) \in Frs
  BY <1>2, <1>3, <1>6, ProductOfTotal
<1> DEFINE t == TotalFraction(v)
           w == TotalFraction(u)
           q == Quotient(f, P)
<1>8. t \in Frs /\ q \in Frs /\ Product(t, P) = w /\ Product(q, P) = f
  BY <1>4, <1>5, <1>7
<1> HIDE DEF t, w, q
<1>9. w \in Frs
  BY <1>2, <1>8, ProductFr
<1>10. Product(Plus(t, q), P) = Plus(w, f)
  BY <1>2, <1>8, ProductOfSum
<1>11. Plus(w, f) = Plus(f, w)
  BY <1>9, PlusCommutes
<1> QED
  BY <1>10, <1>11 DEF t, w, q, P

(* An average of the periods 1 .. n, weighed by Q.                           *)
LEMMA AverageTime ==
  ASSUME NEW n \in Nat \ {0}, NEW Q, \A k \in 1 .. n : Q[k] \in Nat, Q[n] > 0,
         NEW W, \A k \in 1 .. n : W[k] = Q[k] * k
  PROVE  LET S == 1 .. n
         IN  /\ SumIn(Q, S) \in Nat \ {0} /\ SumIn(W, S) \in Int
             /\ SumIn(W, S) <= n * SumIn(Q, S)
             /\ (\A k \in S : k = n \/ Q[k] = 0) => SumIn(W, S) = n * SumIn(Q, S)
             /\ (\E k \in S : k # n /\ Q[k] > 0) => SumIn(W, S) < n * SumIn(Q, S)
<1> DEFINE S == 1 .. n
           M == [k \in S |-> Q[k] * n]
<1>1. IsFiniteSet(S) /\ n \in S /\ n \in Int
  BY UpToFinite
<1>2. ASSUME NEW k \in S
      PROVE  /\ Q[k] \in Nat /\ W[k] \in Int /\ M[k] \in Int /\ M[k] = Q[k] * n /\ W[k] <= M[k]
             /\ k = n \/ Q[k] = 0 => W[k] = M[k]
             /\ k # n /\ Q[k] > 0 => W[k] < M[k]
  <2> DEFINE q == Q[k]
  <2>1. q \in Nat /\ W[k] = q * k /\ M[k] = q * n /\ k \in Nat /\ k <= n
    OBVIOUS
  <2> HIDE DEF q, M
  <2>2. q * k \in Int /\ q * n \in Int /\ q * k <= q * n
    BY <2>1
  <2>3. q = 0 => q * k = 0 /\ q * n = 0
    BY <2>1
  <2>4. k # n /\ q > 0 => q * k < q * n
    <3> SUFFICES ASSUME k # n, q > 0
                 PROVE  q * k < q * n
      OBVIOUS
    <3> DEFINE j == n - k
    <3>1. j \in Nat /\ j > 0 /\ n = k + j
      BY <2>1
    <3> HIDE DEF j
    <3>2. q * n = q * k + q * j
      BY <2>1, <3>1
    <3>3. q * j > 0
      BY <2>1, <3>1
    <3> QED
      BY <2>1, <2>2, <3>1, <3>2, <3>3
  <2> QED
    BY <2>1, <2>2, <2>3, <2>4 DEF q
<1> HIDE DEF M
<1>3. Numbers(Q, S) /\ Numbers(W, S) /\ Numbers(M, S)
  BY <1>2 DEF Numbers
<1>4. SumIn(M, S) = SumIn(Q, S) * n
  BY <1>1, <1>2, <1>3, SumFactor
<1>5. SumIn(Q, S) \in Nat \ {0}
  <2> DEFINE Z == [k \in S |-> 0]
  <2>1. \A k \in S : Z[k] = 0 /\ Z[k] <= Q[k]
    BY <1>2
  <2>2. Numbers(Z, S)
    BY <2>1 DEF Numbers
  <2>3. Z[n] < Q[n]
    BY <1>1, <2>1
  <2> HIDE DEF Z
  <2>4. SumIn(Z, S) = 0
    BY <1>1, <2>1, TotalZero
  <2>5. SumIn(Z, S) < SumIn(Q, S)
    BY <1>1, <1>3, <2>1, <2>2, <2>3, SumBelow
  <2>6. SumIn(Q, S) \in Int
    BY <1>1, <1>3, TotalStep
  <2> QED
    BY <2>4, <2>5, <2>6
<1>6. SumIn(W, S) \in Int
  BY <1>1, <1>3, TotalStep
<1>7. SumIn(W, S) <= SumIn(M, S)
  BY <1>1, <1>2, <1>3, SumAtMost
<1>8. ASSUME \A k \in S : k = n \/ Q[k] = 0
      PROVE  SumIn(W, S) = SumIn(M, S)
  <2>1. \A k \in S : W[k] = M[k]
    BY <1>2, <1>8
  <2> QED
    BY <1>1, <1>3, <2>1, SumsSame
<1>9. ASSUME NEW k \in S, k # n, Q[k] > 0
      PROVE  SumIn(W, S) < SumIn(M, S)
  <2>1. W[k] < M[k] /\ \A x \in S : W[x] <= M[x]
    BY <1>2, <1>9
  <2> QED
    BY <1>1, <1>3, <2>1, SumBelow
<1>10. SumIn(Q, S) * n = n * SumIn(Q, S)
  BY <1>1, <1>5
<1> HIDE DEF S
<1> QED
  BY <1>4, <1>5, <1>6, <1>7, <1>8, <1>9, <1>10 DEF S

(* The payments of a bond: a coupon every period, the face with the last.    *)
Flow(c, f, n, k) == IF k = n THEN Plus(c, f) ELSE c
(* Their present values over one denominator, and the price over it.         *)
DiscountedOver(c, f, g, n, Q, D) ==
  /\ D \in Natural1 /\ Q \in [1 .. n -> Nat] /\ Q[n] > 0
  /\ \A k \in 1 .. n : /\ Stands(Quotient(Flow(c, f, n, k), Power(g, k)), Q[k], D)
                       /\ k # n => (Q[k] = 0 <=> c[1] = 0)

(* Discounted coupons and principal over a common denominator.               *)
LEMMA PaymentsPriced ==
  ASSUME NEW c \in Frs, c[1] >= 0, NEW f \in Frs, f[1] > 0, NEW g \in Frs, g[1] > 0, NEW n \in Nat \ {0},
         NEW t, DOMAIN t = 1 .. n, \A k \in 1 .. n : t[k] = Quotient(c, Power(g, k))
  PROVE  \E Q, D : /\ DiscountedOver(c, f, g, n, Q, D)
                   /\ Stands(Plus(TotalFraction(t), Quotient(f, Power(g, n))), SumIn(Q, 1 .. n), D)
<1> DEFINE S == 1 .. n
           P == Power(g, n)
           v == [k \in 0 .. n |-> IF k = 0 THEN Quotient(f, P) ELSE Quotient(c, Power(g, k))]
<1>1. \A k \in Nat : Power(g, k) \in Frs /\ Power(g, k)[1] > 0
  BY PowerPositive
<1>2. /\ IsFiniteSet(S) /\ n \in S /\ S \in SUBSET (0 .. n) /\ 0 \in 0 .. n /\ 0 \notin S
      /\ S \in SUBSET Nat /\ n \in Nat
  BY UpToFinite
<1>3. IsFiniteSet(0 .. n)
  <2>1. 0 .. n = S \cup {0}
    OBVIOUS
  <2> HIDE DEF S
  <2>2. IsFiniteSet(S \cup {0})
    BY <1>2, FS_AddElement
  <2> QED
    BY <2>1, <2>2
<1>4. \A k \in S : v[k] = Quotient(c, Power(g, k)) /\ v[k] \in Frs
  <2>1. \A k \in S : v[k] = Quotient(c, Power(g, k))
    OBVIOUS
  <2>2. \A k \in S : Quotient(c, Power(g, k)) \in Frs
    <3>1. \A k \in S : Power(g, k) \in Frs /\ Power(g, k)[1] > 0
      BY <1>1, <1>2
    <3> QED
      BY <3>1, QuotientFr
  <2> QED
    BY <2>1, <2>2
<1>5. v[0] = Quotient(f, P) /\ v[0] \in Frs /\ v[0][1] > 0
  <2>1. v[0] = Quotient(f, P)
    OBVIOUS
  <2>2. P \in Frs /\ P[1] > 0
    BY <1>1
  <2> HIDE DEF P, v
  <2>3. Quotient(f, P) \in Frs /\ Quotient(f, P)[1] > 0
    BY <2>2, QuotientFr
  <2> QED
    BY <2>1, <2>3
<1>6. \A k \in 0 .. n : v[k] \in Pairs
  <2>1. \A k \in 0 .. n : k = 0 \/ k \in S
    OBVIOUS
  <2> HIDE DEF v
  <2> QED
    BY <1>4, <1>5, <2>1 DEF Frs
<1> HIDE DEF v
<1>7. PICK N, D : Common(v, 0 .. n, N, D)
  BY <1>3, <1>6, CommonDenominator
<1>8. D \in Natural1 /\ N[0] \in Int /\ (\A k \in S : N[k] \in Int /\ Stands(v[k], N[k], D)) /\ Stands(v[0], N[0], D)
  BY <1>2, <1>7 DEF Common
<1> DEFINE Q == [k \in S |-> IF k = n THEN N[n] + N[0] ELSE N[k]]
<1>9. N[0] > 0
  BY <1>5, <1>8, StandsSign
<1>10. ASSUME NEW k \in S
       PROVE  N[k] >= 0 /\ (N[k] = 0 <=> c[1] = 0)
  <2>1. Power(g, k) \in Frs /\ Power(g, k)[1] > 0 /\ v[k] = Quotient(c, Power(g, k)) /\ Stands(v[k], N[k], D)
    BY <1>1, <1>2, <1>4, <1>8
  <2>2. (v[k][1] = 0 <=> c[1] = 0) /\ (v[k][1] >= 0 <=> c[1] >= 0)
    BY <2>1, QuotientFr
  <2>3. (v[k][1] = 0 <=> N[k] = 0) /\ (v[k][1] >= 0 <=> N[k] >= 0)
    BY <2>1, StandsSign
  <2> QED
    BY <2>2, <2>3
<1>11. ASSUME NEW k \in S
       PROVE  Stands(Quotient(Flow(c, f, n, k), Power(g, k)), Q[k], D)
  <2>1. CASE k = n
    <3>1. Flow(c, f, n, k) = Plus(c, f) /\ Q[k] = N[n] + N[0] /\ Power(g, k) = P
      BY <2>1 DEF Flow
    <3>2. P \in Frs /\ P[1] > 0 /\ v[n] = Quotient(c, P) /\ v[0] = Quotient(f, P)
      BY <1>1, <1>2, <1>4, <1>5
    <3>3. Stands(v[n], N[n], D) /\ Stands(v[0], N[0], D)
      BY <1>2, <1>8
    <3> HIDE DEF P, Q
    <3>4. Stands(Plus(v[n], v[0]), N[n] + N[0], D)
      BY <3>3, PlusStands
    <3>5. Quotient(Plus(c, f), P) = Plus(v[n], v[0])
      BY <3>2, QuotientOfSum
    <3> QED
      BY <3>1, <3>4, <3>5
  <2>2. CASE k # n
    BY <1>4, <1>8, <2>2 DEF Flow
  <2> QED
    BY <2>1, <2>2
<1>12. DiscountedOver(c, f, g, n, Q, D)
  <2>1. ASSUME NEW k \in S
        PROVE  Q[k] \in Nat
    BY <1>2, <1>8, <1>9, <1>10
  <2>2. Q[n] > 0
    BY <1>2, <1>8, <1>9, <1>10
  <2>3. \A k \in S : k # n => (Q[k] = 0 <=> c[1] = 0)
    BY <1>10
  <2>4. Q \in [S -> Nat]
    BY <2>1
  <2> HIDE DEF Q
  <2> QED
    BY <1>8, <1>11, <2>2, <2>3, <2>4 DEF DiscountedOver
<1>13. SumIn(Q, S) = SumIn(N, S) + N[0]
  <2> DEFINE one == [k \in S |-> IF k = n THEN N[0] ELSE 0]
  <2>1. Numbers(N, S) /\ Numbers(one, S)
    BY <1>8 DEF Numbers
  <2>2. \A k \in S : Q[k] = N[k] + one[k]
    BY <1>8
  <2>3. \A k \in S \ {n} : one[k] = 0
    OBVIOUS
  <2>4. one[n] = N[0]
    BY <1>2
  <2> HIDE DEF one, Q
  <2>5. SumIn(Q, S) = SumIn(N, S) + SumIn(one, S)
    BY <1>2, <2>1, <2>2, SumsAdd
  <2>6. SumIn(one, S) = one[n] + SumIn(one, S \ {n})
    BY <1>2, <2>1, TotalRemove
  <2>7. IsFiniteSet(S \ {n})
    BY <1>2, FS_RemoveElement
  <2>8. SumIn(one, S \ {n}) = 0
    BY <2>3, <2>7, TotalZero
  <2> QED
    BY <1>8, <2>4, <2>5, <2>6, <2>8
<1>14. Stands(TotalFraction(t), SumIn(N, S), D)
  <2>1. DOMAIN t = S /\ \A k \in S : t[k] = v[k]
    BY <1>4
  <2>2. \A k \in S : Stands(t[k], N[k], D)
    BY <1>8, <2>1
  <2> QED
    BY <1>2, <1>8, <2>1, <2>2, FractionTotal
<1> HIDE DEF Q, P
<1>15. Stands(Plus(TotalFraction(t), v[0]), SumIn(N, S) + N[0], D)
  BY <1>8, <1>14, PlusStands
<1>16. Stands(Plus(TotalFraction(t), Quotient(f, P)), SumIn(Q, S), D)
  BY <1>5, <1>13, <1>15
<1> QED
  BY <1>12, <1>16 DEF P

(* The duration of a bond is at most its maturity, and is that only when     *)
(* nothing is paid before it.                                                *)
LEMMA DurationAverages ==
  ASSUME NEW c \in Frs, c[1] >= 0, NEW f \in Frs, f[1] > 0, NEW g \in Frs, g[1] > 0, NEW n \in Nat \ {0},
         NEW p \in Natural1,
         NEW t, DOMAIN t = 1 .. n, \A k \in 1 .. n : t[k] = Quotient(c, Power(g, k)),
         NEW w, DOMAIN w = 1 .. n,
         \A k \in 1 .. n : w[k] = Quotient(Scaled(Flow(c, f, n, k), k, p), Power(g, k))
  PROVE  LET mac == Quotient(TotalFraction(w), Plus(TotalFraction(t), Quotient(f, Power(g, n))))
         IN  /\ ~Exceeds(mac, Fraction(n, p))
             /\ mac = Fraction(n, p) <=> c[1] = 0 \/ n = 1
<1> DEFINE S == 1 .. n
           price == Plus(TotalFraction(t), Quotient(f, Power(g, n)))
           mac == Quotient(TotalFraction(w), price)
<1>1. PICK Q, D : DiscountedOver(c, f, g, n, Q, D) /\ Stands(price, SumIn(Q, S), D)
  BY PaymentsPriced
<1>2. D \in Natural1 /\ Q \in [S -> Nat] /\ Q[n] > 0
  BY <1>1 DEF DiscountedOver
<1> DEFINE W == [k \in S |-> Q[k] * k]
<1>3. ASSUME NEW k \in S
      PROVE  Stands(w[k], W[k], D * p)
  <2> DEFINE l == Flow(c, f, n, k)
             h == Power(g, k)
  <2>1. k \in Nat /\ k \in Int
    OBVIOUS
  <2>2. h \in Frs /\ h[1] > 0
    BY <2>1, PowerPositive
  <2>3. l \in Frs
    BY SumIsFr DEF Flow
  <2>4. Stands(Quotient(l, h), Q[k], D)
    BY <1>1 DEF DiscountedOver
  <2>5. w[k] = Quotient(Scaled(l, k, p), h) /\ W[k] = Q[k] * k
    OBVIOUS
  <2> HIDE DEF l, h, W
  <2>6. Stands(Quotient(Scaled(l, k, p), h), Q[k] * k, D * p)
    BY <2>1, <2>2, <2>3, <2>4, QuotientOfShare
  <2> QED
    BY <2>5, <2>6
<1>4. \A k \in S : W[k] = Q[k] * k
  OBVIOUS
<1>5. IsFiniteSet(S) /\ DOMAIN w = S /\ n \in S
  BY UpToFinite
<1> HIDE DEF W, price
<1>6. /\ SumIn(Q, S) \in Nat \ {0} /\ SumIn(W, S) \in Int
      /\ SumIn(W, S) <= n * SumIn(Q, S)
      /\ (\A k \in S : k = n \/ Q[k] = 0) => SumIn(W, S) = n * SumIn(Q, S)
      /\ (\E k \in S : k # n /\ Q[k] > 0) => SumIn(W, S) < n * SumIn(Q, S)
  <2>1. \A k \in 1 .. n : Q[k] \in Nat
    BY <1>2
  <2> QED
    BY <1>2, <1>4, <2>1, AverageTime
<1> DEFINE a == SumIn(W, S)
           q == SumIn(Q, S)
           d == D * p
<1>7. d \in Natural1 /\ p \in Nat /\ D \in Nat
  <2>1. D \in Nat /\ p \in Nat /\ D # 0 /\ p # 0
    BY <1>2 DEF Natural1
  <2> QED
    BY <2>1 DEF Natural1
<1>8. Stands(TotalFraction(w), a, d)
  <2> HIDE DEF S, d
  <2>1. \A k \in S : Stands(w[k], W[k], d)
    BY <1>3 DEF d
  <2> QED
    BY <1>5, <1>7, <2>1, FractionTotal
<1>9. q \in Nat \ {0} /\ a \in Int /\ a <= n * q /\ Stands(price, q, D)
  BY <1>1, <1>6
<1>10. ((\A k \in S : k = n \/ Q[k] = 0) => a = n * q) /\ ((\E k \in S : k # n /\ Q[k] > 0) => a < n * q)
  BY <1>6
<1> HIDE DEF a, q
<1>11. Stands(mac, a * D, d * q) /\ IsFraction(mac)
  <2> HIDE DEF d
  <2>1. q > 0
    BY <1>9
  <2> QED
    BY <1>8, <1>9, <2>1, QuotientStands
<1> DEFINE e == p * q
<1>12. e \in Natural1 /\ d * q = e * D
  <2>1. p # 0 /\ q # 0 /\ q \in Nat
    BY <1>9 DEF Natural1
  <2>2. p * q \in Nat /\ p * q # 0
    BY <1>7, <2>1
  <2>3. (D * p) * q = (p * q) * D
    BY <1>7, <2>1
  <2> QED
    BY <2>2, <2>3 DEF Natural1
<1>13. Stands(mac, a, e)
  <2> HIDE DEF e, mac, d
  <2> QED
    BY <1>2, <1>9, <1>11, <1>12, StandsScaledDown
<1>14. Stands(Fraction(n, p), n * q, e) /\ IsFraction(Fraction(n, p))
  <2>1. Stands(Fraction(n, p), n, p) /\ IsFraction(Fraction(n, p))
    BY FractionStands
  <2>2. q \in Natural1
    BY <1>9 DEF Natural1
  <2>3. Stands(Fraction(n, p), n * q, p * q)
    BY <2>1, <2>2, StandsScaledUp
  <2> QED
    BY <2>1, <2>3
<1> DEFINE m == n * q
           maturity == Fraction(n, p)
<1>15. Stands(mac, a, e) /\ IsFraction(mac) /\ Stands(maturity, m, e) /\ IsFraction(maturity)
       /\ a <= m /\ a \in Int /\ m \in Int
  BY <1>9, <1>11, <1>13, <1>14 DEF Stands
<1>16. (\A k \in S : k = n \/ Q[k] = 0) <=> c[1] = 0 \/ n = 1
  <2>1. CASE n = 1
    <3>1. \A k \in S : k = n
      BY <2>1
    <3> QED
      BY <2>1, <3>1
  <2>2. CASE n # 1
    <3>1. 1 \in S /\ 1 # n
      BY <2>2
    <3>2. \A k \in S : k # n => (Q[k] = 0 <=> c[1] = 0)
      BY <1>1 DEF DiscountedOver
    <3> QED
      BY <2>2, <3>1, <3>2
  <2> QED
    BY <2>1, <2>2
<1>17. (\E k \in S : k # n /\ Q[k] > 0) \/ (\A k \in S : k = n \/ Q[k] = 0)
  BY <1>2
<1> HIDE DEF mac, m, e, d, S, maturity
<1>18. ~Exceeds(mac, maturity)
  BY <1>15, ExceedsStands
<1>19. mac = maturity <=> a = m
  <2>1. ASSUME a = m
        PROVE  mac = maturity
    BY <1>15, <2>1, StandsEqual
  <2>2. ASSUME mac = maturity
        PROVE  a = m
    BY <1>15, <2>2, StandsOnce
  <2> QED
    BY <2>1, <2>2
<1>20. a = m <=> c[1] = 0 \/ n = 1
  <2>1. (\A k \in S : k = n \/ Q[k] = 0) => a = m
    BY <1>10 DEF m
  <2>2. (\E k \in S : k # n /\ Q[k] > 0) => a < m
    BY <1>10 DEF m
  <2>3. a < m => a # m
    BY <1>15
  <2> QED
    BY <1>16, <1>17, <2>1, <2>2, <2>3
<1> QED
  BY <1>18, <1>19, <1>20 DEF mac, price, maturity

(* What an analysed rung earns.                                              *)
Earns(r) ==
  LET b == r.bond
      maturity == Fraction(Periods(b), b.payments)
  IN /\ r.terminal = Product(r.worth, Power(PeriodGrowth(b), Periods(b)))
     /\ ~Exceeds(r.duration.macaulay, maturity)
     /\ (r.duration.macaulay = maturity) = (b.coupon = Whole(0) \/ Periods(b) = 1)
YieldsEarned(s) == s.kind = "analyzed" => \A n \in DOMAIN s.rungs : Earns(s.rungs[n])

(* A payable rung: what the request's schema lets through.                   *)
Payable(b) ==
  /\ b \in Rung /\ IsFraction(b.coupon) /\ b.coupon[1] >= 0
  /\ IsFraction(b.yield) /\ b.yield[1] > -b.yield[2]

(* Coupons put out at the yield and the principal are what the price grows   *)
(* to at the yield (_bond_price, _reinvested_value).                         *)
LEMMA WorthGrows ==
  ASSUME NEW b, Payable(b), NEW f \in Frs
  PROVE  Plus(f, CouponsForward(PeriodCoupon(b, f), PeriodGrowth(b), Periods(b))) =
           Product(BondPrice(b, f), Power(PeriodGrowth(b), Periods(b)))
<1> DEFINE n == Periods(b)
           g == PeriodGrowth(b)
           c == PeriodCoupon(b, f)
           v == [k \in 1 .. n |-> Quotient(c, Power(g, k))]
           u == [k \in 1 .. n |-> Product(c, Power(g, n - k))]
<1>1. n \in Nat /\ g \in Frs /\ g[1] > 0 /\ c \in Frs
  BY PeriodsAre, GrowthPositive, PeriodCouponIs DEF Payable
<1>2. BondPrice(b, f) = Plus(TotalFraction(v), Quotient(f, Power(g, n)))
  BY DEF BondPrice
<1>3. CouponsForward(c, g, n) = TotalFraction(u)
  BY DEF CouponsForward
<1>4. /\ DOMAIN v = 1 .. n /\ \A k \in 1 .. n : v[k] = Quotient(c, Power(g, k))
      /\ DOMAIN u = 1 .. n /\ \A k \in 1 .. n : u[k] = Product(c, Power(g, n - k))
  OBVIOUS
<1> HIDE DEF n, g, c, v, u
<1>5. Plus(f, TotalFraction(u)) = Product(Plus(TotalFraction(v), Quotient(f, Power(g, n))), Power(g, n))
  BY <1>1, <1>4, ReturnIsGrowth
<1>6. Plus(f, CouponsForward(c, g, n)) = Product(BondPrice(b, f), Power(g, n))
  BY <1>2, <1>3, <1>5
<1> QED
  BY <1>6 DEF n, g, c

(* The duration is at most the maturity, and equal to it only without        *)
(* coupons before the last payment (_bond_duration).                         *)
LEMMA DurationWithin ==
  ASSUME NEW b, Payable(b)
  PROVE  LET mac == BondDuration(b, Whole(b.face)).macaulay
             maturity == Fraction(Periods(b), b.payments)
         IN  /\ ~Exceeds(mac, maturity)
             /\ mac = maturity <=> b.coupon = Whole(0) \/ Periods(b) = 1
<1> DEFINE n == Periods(b)
           g == PeriodGrowth(b)
           f == Whole(b.face)
           c == PeriodCoupon(b, f)
           p == b.payments
           t == [k \in 1 .. n |-> Quotient(c, Power(g, k))]
           w == [k \in 1 .. n |-> Quotient(Scaled(Flow(c, f, n, k), k, p), Power(g, k))]
           mac == BondDuration(b, f).macaulay
<1>1. b \in Rung /\ IsFraction(b.coupon) /\ b.coupon[1] >= 0
  BY DEF Payable
<1>2. f \in Frs /\ f[1] > 0
  <2>1. b.face \in Int /\ b.face > 0
    BY <1>1 DEF Rung
  <2> QED
    BY <2>1, WholeFr DEF Whole
<1>3. n \in Nat \ {0} /\ g \in Frs /\ g[1] > 0
  BY PeriodsAre, GrowthPositive DEF Payable
<1>4. p \in Natural1
  <2>1. p \in {1, 2, 4, 12}
    BY <1>1 DEF Rung
  <2> HIDE DEF p
  <2> QED
    BY <2>1 DEF Natural1
<1>5. c \in Frs /\ c[1] >= 0 /\ (c[1] = 0 <=> b.coupon[1] = 0)
  <2> HIDE DEF f
  <2> QED
    BY <1>1, <1>2, PeriodCouponIs
<1>6. b.coupon[1] = 0 <=> b.coupon = Whole(0)
  <2> DEFINE k == b.coupon
  <2>1. k \in Frs /\ IsFraction(k)
    BY <1>1 DEF Frs, IsFraction, Pairs, Natural1
  <2> HIDE DEF k
  <2>2. ASSUME k[1] = 0
        PROVE  k = Whole(0)
    <3>1. Stands(k, 0, k[2]) /\ k[2] \in Natural1
      BY <2>1, <2>2, FrStands DEF Stands
    <3>2. Stands(Whole(0), 0, k[2])
      BY <3>1 DEF Stands, Whole, Pairs, Natural1
    <3>3. IsFraction(Whole(0))
      <4>1. Whole(0) \in Frs
        BY WholeFr
      <4> QED
        BY <4>1 DEF Frs
    <3> QED
      BY <2>1, <3>1, <3>2, <3>3, StandsEqual
  <2>3. ASSUME k = Whole(0)
        PROVE  k[1] = 0
    BY <2>3 DEF Whole
  <2> QED
    BY <2>2, <2>3 DEF k
<1>7. /\ DOMAIN t = 1 .. n /\ \A k \in 1 .. n : t[k] = Quotient(c, Power(g, k))
      /\ DOMAIN w = 1 .. n
      /\ \A k \in 1 .. n : w[k] = Quotient(Scaled(Flow(c, f, n, k), k, p), Power(g, k))
  OBVIOUS
<1>8. BondPrice(b, f) = Plus(TotalFraction(t), Quotient(f, Power(g, n)))
  BY DEF BondPrice
<1>9. mac = Quotient(TotalFraction(w), BondPrice(b, f))
  <2> DEFINE w2 == [k \in 1 .. n |-> Quotient(Scaled(IF k = n THEN Plus(c, f) ELSE c, k, p), Power(g, k))]
  <2>1. mac = Quotient(TotalFraction(w2), BondPrice(b, f))
    BY DEF BondDuration
  <2>2. w2 = w
    BY DEF Flow
  <2> QED
    BY <2>1, <2>2
<1> HIDE DEF n, g, f, c, p, t, w, mac
<1>10. LET m == Quotient(TotalFraction(w), Plus(TotalFraction(t), Quotient(f, Power(g, n))))
       IN  /\ ~Exceeds(m, Fraction(n, p))
           /\ m = Fraction(n, p) <=> c[1] = 0 \/ n = 1
  BY <1>2, <1>3, <1>4, <1>5, <1>7, DurationAverages
<1>11. ~Exceeds(mac, Fraction(n, p)) /\ (mac = Fraction(n, p) <=> c[1] = 0 \/ n = 1)
  BY <1>8, <1>9, <1>10
<1> QED
  BY <1>5, <1>6, <1>11 DEF mac, n, p, f

(* A rung that is analysed earns its yield.                                  *)
LEMMA RungEarns ==
  ASSUME NEW b, Payable(b), NEW capital, NEW weight, AnalyzeRung(b, capital, weight).principal \in Frs
  PROVE  Earns(AnalyzeRung(b, capital, weight))
<1> DEFINE r == AnalyzeRung(b, capital, weight)
           f == r.principal
<1>1. /\ r.bond = b /\ r.worth = BondPrice(b, f) /\ r.duration = BondDuration(b, Whole(b.face))
      /\ r.terminal = Plus(f, CouponsForward(PeriodCoupon(b, f), PeriodGrowth(b), Periods(b)))
  BY DEF AnalyzeRung
<1>2. f \in Frs
  OBVIOUS
<1> HIDE DEF r, f
<1>3. r.terminal = Product(r.worth, Power(PeriodGrowth(b), Periods(b)))
  BY <1>1, <1>2, WorthGrows
<1> DEFINE mac == r.duration.macaulay
           maturity == Fraction(Periods(b), b.payments)
<1>4. ~Exceeds(mac, maturity) /\ (mac = maturity <=> b.coupon = Whole(0) \/ Periods(b) = 1)
  BY <1>1, DurationWithin
<1>5. Earns(r)
  BY <1>1, <1>3, <1>4 DEF Earns
<1> QED
  BY <1>5 DEF r

(* Each call leaves an analysis whose rungs earn their yield.                *)
LEMMA AnalyzedEarns ==
  ASSUME YieldsEarned(strategy), [BondsNext]_bondVars
  PROVE  YieldsEarned(strategy')
<1>1. CASE AnalyzeStrategy
  <2>1. PICK type \in Types, capital \in Capitals, score \in BondScores, rungs \in RungLists :
          strategy' = AnalyzeBondStrategy(type, capital, score, rungs)
    BY <1>1 DEF AnalyzeStrategy, Types
  <2> DEFINE r == Results(type, capital, score, rungs)
             weights == NormalizedRungWeights(rungs, type, score)
  <2>2. strategy' = [kind |-> "analyzed", capital |-> capital, rungs |-> r, schedule |-> CashFlows(r)]
    BY <2>1 DEF AnalyzeBondStrategy, Results
  <2>3. capital \in Nat \ {0} /\ score \in 1 .. 10
    BY BondRequests
  <2>4. Paying(r, DOMAIN rungs)
    BY <2>3, CapitalSpent
  <2>5. \A n \in DOMAIN rungs : r[n] = AnalyzeRung(rungs[n], capital, weights[n])
    BY DEF Results
  <2>6. \A n \in DOMAIN rungs : Payable(rungs[n])
    BY RungsAre DEF Payable
  <2> HIDE DEF r, weights
  <2>7. ASSUME NEW n \in DOMAIN rungs
        PROVE  Earns(r[n])
    <3>1. r[n].principal \in Frs
      BY <2>4 DEF Paying
    <3>2. Payable(rungs[n]) /\ r[n] = AnalyzeRung(rungs[n], capital, weights[n])
      BY <2>5, <2>6
    <3> QED
      BY <3>1, <3>2, RungEarns
  <2>8. DOMAIN r = DOMAIN rungs
    BY <2>4 DEF Paying
  <2> QED
    BY <2>2, <2>7, <2>8 DEF YieldsEarned
<1>2. CASE RecommendRungs
  <2>1. strategy'.kind = "recommended"
    BY <1>2 DEF RecommendRungs
  <2> QED
    BY <2>1 DEF YieldsEarned
<1>3. CASE UNCHANGED bondVars
  BY <1>3 DEF bondVars
<1> QED
  BY <1>1, <1>2, <1>3 DEF BondsNext

(* Theorem. What an analysed rung is projected to return is what its         *)
(* theoretical price grows to at its yield, and its duration keeps within    *)
(* the maturity: RungsEarnTheirYield in every state.                         *)
THEOREM YieldsAreEarned == BondsSpec => []RungsEarnTheirYield
<1>1. BondsInit => YieldsEarned(strategy)
  BY DEF BondsInit, YieldsEarned
<1>2. YieldsEarned(strategy) /\ [BondsNext]_bondVars => YieldsEarned(strategy)'
  BY AnalyzedEarns
<1>3. YieldsEarned(strategy) => RungsEarnTheirYield
  BY DEF YieldsEarned, Earns, RungsEarnTheirYield
<1> QED
  BY <1>1, <1>2, <1>3, PTL DEF BondsSpec

-----------------------------------------------------------------------------
(* _bucket_target_weights: targets that add up, none above the cap.          *)

(* Targets of T in all for S, by the values w, none above the cap in the     *)
(* end; the cap is no less than what each would get of equal shares.         *)
Spreadable(S, w, cap, T) ==
  /\ IsFiniteSet(S) /\ w \in [S -> Nat] /\ T \in Nat /\ cap \in Pairs
  /\ T * cap[2] <= cap[1] * Cardinality(S)
SpreadStates(S, w, cap) == [cap : {cap}, active : SUBSET S, scores : {w}, weights : [S -> Pairs]]
Balanced(weights, S, T) == \E N, d : Common(weights, S, N, d) /\ SumIn(N, S) = T * d
Spreads(S, w, cap, T) ==
  {s \in SpreadStates(S, w, cap) :
     Balanced(s.weights, S, T) /\ \A x \in S \ s.active : s.weights[x] = cap}
Overweight(s) == {x \in s.active : Exceeds(s.weights[x], s.cap)}

(* Such a state with weights and cap over one denominator.                   *)
SpreadOver(s, S, cap, T, N, C, D) ==
  /\ Common(s.weights, S, N, D) /\ SumIn(N, S) = T * D /\ Stands(cap, C, D)
  /\ T * D <= C * Cardinality(S)
  /\ \A x \in S \ s.active : N[x] = C

(* There is such a denominator.                                              *)
LEMMA SpreadNumbers ==
  ASSUME NEW S, NEW w, NEW cap, NEW T, Spreadable(S, w, cap, T), NEW s \in Spreads(S, w, cap, T)
  PROVE  \E N, C, D : SpreadOver(s, S, cap, T, N, C, D)
<1>1. PICK M, d : Common(s.weights, S, M, d) /\ SumIn(M, S) = T * d
  BY DEF Spreads, Balanced
<1> DEFINE p == cap[1]
           q == cap[2]
           n == Cardinality(S)
           N == [x \in S |-> M[x] * q]
           C == p * d
           D == d * q
<1>2. /\ IsFiniteSet(S) /\ n \in Nat /\ T \in Nat /\ cap \in Pairs /\ p \in Int /\ q \in Natural1
      /\ q \in Nat /\ T * q <= p * n
  BY FS_CardinalityType DEF Spreadable, Pairs, Natural1
<1>3. /\ d \in Natural1 /\ d \in Nat /\ M \in [S -> Int] /\ \A x \in S : Stands(s.weights[x], M[x], d)
      /\ Numbers(M, S)
  BY <1>1 DEF Common, Natural1, Numbers
<1>4. \A x \in S \ s.active : s.weights[x] = cap
  BY DEF Spreads
<1>5. D \in Natural1
  <2>1. d # 0 /\ q # 0
    BY <1>2, <1>3 DEF Natural1
  <2>2. D \in Nat /\ D # 0
    BY <1>2, <1>3, <2>1
  <2> QED
    BY <2>2 DEF Natural1
<1>6. N \in [S -> Int] /\ \A x \in S : N[x] = M[x] * q
  BY <1>2, <1>3
<1>7. \A x \in S : Stands(s.weights[x], N[x], D)
  <2>1. ASSUME NEW x \in S
        PROVE  Stands(s.weights[x], M[x] * q, d * q)
    BY <1>2, <1>3, StandsScaledUp
  <2> QED
    BY <1>6, <2>1
<1>8. SumIn(N, S) = T * D
  <2> HIDE DEF N, q
  <2>1. SumIn(N, S) = SumIn(M, S) * q
    BY <1>2, <1>3, <1>6, SumFactor
  <2>2. (T * d) * q = T * (d * q)
    BY <1>2, <1>3
  <2> QED
    BY <1>1, <2>1, <2>2
<1>9. Stands(cap, C, D)
  <2>1. p * (d * q) = (p * d) * q /\ p * d \in Int
    BY <1>2, <1>3
  <2> QED
    BY <1>2, <1>5, <2>1 DEF Stands
<1>10. T * D <= C * n
  <2> DEFINE a == T * q
             b == p * n
  <2>1. a \in Int /\ b \in Int /\ a <= b
    BY <1>2
  <2>2. T * (d * q) = a * d /\ (p * d) * n = b * d
    <3> HIDE DEF p, q, n
    <3> QED
      BY <1>2, <1>3
  <2> HIDE DEF a, b
  <2>3. a * d <= b * d
    BY <1>3, <2>1, Cancel
  <2> QED
    BY <2>2, <2>3
<1>11. \A x \in S \ s.active : N[x] = C
  <2> HIDE DEF N, C, D
  <2>1. ASSUME NEW x \in S \ s.active
        PROVE  N[x] = C
    <3>1. Stands(cap, N[x], D)
      BY <1>4, <1>7
    <3> QED
      BY <1>9, <3>1, StandsOnce
  <2> QED
    BY <2>1
<1> HIDE DEF N, C, D, n
<1>12. SpreadOver(s, S, cap, T, N, C, D)
  BY <1>5, <1>6, <1>7, <1>8, <1>9, <1>10, <1>11 DEF SpreadOver, Common, n
<1> QED
  BY <1>12

(* Who is overweight, by the numerators.                                     *)
LEMMA OverweightIs ==
  ASSUME NEW S, NEW w, NEW cap, NEW T, NEW s \in SpreadStates(S, w, cap),
         NEW N, NEW C, NEW D, SpreadOver(s, S, cap, T, N, C, D)
  PROVE  \A x : x \in Overweight(s) <=> x \in s.active /\ N[x] > C
<1>1. s.cap = cap /\ s.active \in SUBSET S
  BY DEF SpreadStates
<1>2. ASSUME NEW x \in s.active
      PROVE  Exceeds(s.weights[x], s.cap) <=> N[x] > C
  <2>1. Stands(s.weights[x], N[x], D) /\ Stands(s.cap, C, D)
    BY <1>1 DEF SpreadOver, Common
  <2> QED
    BY <2>1, ExceedsStands
<1> QED
  BY <1>2 DEF Overweight

(* Not all can be: together they would be above T.                           *)
LEMMA SomeLeft ==
  ASSUME NEW S, NEW w, NEW cap, NEW T, Spreadable(S, w, cap, T), NEW s \in SpreadStates(S, w, cap),
         NEW N, NEW C, NEW D, SpreadOver(s, S, cap, T, N, C, D), Overweight(s) # {}
  PROVE  s.active \ Overweight(s) # {}
<1> SUFFICES ASSUME s.active \ Overweight(s) = {}
             PROVE  FALSE
  OBVIOUS
<1> DEFINE v == [x \in S |-> C]
           n == Cardinality(S)
           K == Overweight(s)
<1>1. /\ IsFiniteSet(S) /\ T \in Nat /\ D \in Natural1 /\ D \in Nat /\ C \in Int /\ N \in [S -> Int]
      /\ SumIn(N, S) = T * D /\ T * D <= C * n /\ s.active \in SUBSET S
  <2>1. IsFiniteSet(S) /\ T \in Nat
    BY DEF Spreadable
  <2>2. D \in Natural1 /\ N \in [S -> Int] /\ C \in Int
    BY DEF SpreadOver, Common, Stands
  <2>3. D \in Nat
    BY <2>2 DEF Natural1
  <2>4. SumIn(N, S) = T * D /\ T * D <= C * n
    BY DEF SpreadOver
  <2>5. s.active \in SUBSET S
    BY DEF SpreadStates
  <2> QED
    BY <2>1, <2>2, <2>3, <2>4, <2>5
<1>2. K = {x \in s.active : N[x] > C} /\ s.active \ K = {} /\ K # {}
  <2>1. \A x : x \in K <=> x \in s.active /\ N[x] > C
    BY OverweightIs
  <2> QED
    BY <2>1
<1>3. \A x \in S \ s.active : N[x] = C
  BY DEF SpreadOver
<1> HIDE DEF K
<1>4. PICK y \in K : TRUE
  BY <1>2
<1>5. y \in S /\ N[y] > C /\ \A x \in S : N[x] \in Int /\ C <= N[x]
  BY <1>1, <1>2, <1>3
<1>6. Numbers(v, S) /\ Numbers(N, S) /\ \A x \in S : v[x] = C
  BY <1>1 DEF Numbers
<1> HIDE DEF v
<1>7. SumIn(v, S) < SumIn(N, S)
  BY <1>1, <1>5, <1>6, SumBelow
<1>8. SumIn(v, S) = C * n /\ n \in Nat
  BY <1>1, <1>6, SumConstant
<1> DEFINE a == C * n
           b == T * D
<1>9. a \in Int /\ b \in Int /\ a < b /\ b <= a
  BY <1>1, <1>7, <1>8
<1> HIDE DEF a, b
<1> QED
  BY <1>9

(* What one of R gets of an excess: its part u of a.                         *)
ExtraOf(w, R, excess, x) ==
  IF Total([y \in R |-> w[y]]) = 0 THEN Scaled(excess, 1, Cardinality(R))
  ELSE Scaled(excess, w[x], Total([y \in R |-> w[y]]))
ExtraParts(w, R, excess, u, a) ==
  /\ a \in Natural1 /\ u \in [R -> Nat] /\ SumIn(u, R) = a
  /\ \A x \in R : ExtraOf(w, R, excess, x) = Scaled(excess, u[x], a)

(* Such parts exist: by the scores, or one each when every score is 0.       *)
LEMMA ExtrasExist ==
  ASSUME NEW R, IsFiniteSet(R), R # {}, NEW w, \A x \in R : w[x] \in Nat, NEW excess
  PROVE  \E u, a : ExtraParts(w, R, excess, u, a)
<1> DEFINE v == [y \in R |-> w[y]]
           all == Total(v)
<1>1. all = SumIn(v, R) /\ all \in Nat
  <2>1. all = SumIn(v, DOMAIN v) /\ DOMAIN v = R /\ \A x \in R : v[x] \in Nat
    BY TotalIs
  <2> HIDE DEF v
  <2> QED
    BY <2>1, TotalNat
<1>2. v \in [R -> Nat] /\ \A x \in R : v[x] = w[x]
  OBVIOUS
<1>3. CASE all = 0
  <2> DEFINE u == [x \in R |-> 1]
             a == Cardinality(R)
  <2>1. a \in Nat /\ a # 0
    BY FS_CardinalityType, FS_EmptySet
  <2>2. a \in Natural1
    BY <2>1 DEF Natural1
  <2>3. SumIn(u, R) = 1 * a
    BY SumConstant
  <2>4. \A x \in R : ExtraOf(w, R, excess, x) = Scaled(excess, 1, a)
    BY <1>3 DEF ExtraOf
  <2>5. 1 * a = a /\ u \in [R -> Nat] /\ \A x \in R : u[x] = 1
    BY <2>1
  <2> HIDE DEF u, a
  <2>6. ExtraParts(w, R, excess, u, a)
    BY <2>2, <2>3, <2>4, <2>5 DEF ExtraParts
  <2> QED
    BY <2>6
<1>4. CASE all # 0
  <2>1. all \in Natural1
    BY <1>1, <1>4 DEF Natural1
  <2>2. \A x \in R : ExtraOf(w, R, excess, x) = Scaled(excess, w[x], all)
    BY <1>4 DEF ExtraOf
  <2> HIDE DEF v, all
  <2>3. ExtraParts(w, R, excess, v, all)
    BY <1>1, <1>2, <2>1, <2>2 DEF ExtraParts
  <2> QED
    BY <2>3
<1> QED
  BY <1>3, <1>4

(* A round with some that are overweight.                                    *)
Excess(s) == TotalFraction([x \in Overweight(s) |-> Minus(s.weights[x], s.cap)])
Remaining(s) == s.active \ Overweight(s)
NextWeight(s, x) ==
  IF x \in Overweight(s) THEN s.cap
  ELSE IF x \in Remaining(s) THEN Plus(s.weights[x], ExtraOf(s.scores, Remaining(s), Excess(s), x))
  ELSE s.weights[x]

(* A round of _bucket_target_weights, written out.                           *)
LEMMA SpreadExcessIs ==
  ASSUME NEW s
  PROVE  SpreadExcess(s) =
           IF Overweight(s) = {} THEN s
           ELSE [s EXCEPT !.active = Remaining(s), !.weights = [x \in DOMAIN @ |-> NextWeight(s, x)]]
  BY DEF SpreadExcess, Overweight, Excess, Remaining, NextWeight, ExtraOf

(* A difference times a negative number.                                     *)
LEMMA DifferenceTimes ==
  ASSUME NEW x \in Int, NEW y \in Int, NEW a \in Int, NEW e, e = x - y, NEW m, m = -a
  PROVE  e * m = y * a - x * a /\ y * a \in Int /\ e * m \in Int
  OBVIOUS

(* They have the same sum: the excess over the cap goes to the others.       *)
Moved(S, N, C, K, R, u, a, e, E, M) ==
  /\ IsFiniteSet(S) /\ N \in [S -> Int] /\ C \in Int /\ K \in SUBSET S /\ R \in SUBSET S /\ K \cap R = {}
  /\ u \in [R -> Nat] /\ a \in Nat /\ SumIn(u, R) = a
  /\ E \in Int /\ E = SumIn(e, K) /\ \A x \in K : e[x] = N[x] - C
  /\ \A x \in K : M[x] = C * a
  /\ \A x \in R : M[x] = N[x] * a + E * u[x]
  /\ \A x \in S \ (K \cup R) : M[x] = N[x] * a

(* All that is cut goes to the others: the sum of the numerators is what it  *)
(* was, times a.                                                             *)
LEMMA NothingLost ==
  ASSUME NEW S, NEW N, NEW C, NEW K, NEW R, NEW u, NEW a, NEW e, NEW E, NEW M,
         Moved(S, N, C, K, R, u, a, e, E, M)
  PROVE  SumIn(M, S) = SumIn(N, S) * a
<1>0. /\ IsFiniteSet(S) /\ N \in [S -> Int] /\ C \in Int /\ K \in SUBSET S /\ R \in SUBSET S /\ K \cap R = {}
      /\ u \in [R -> Nat] /\ a \in Nat /\ SumIn(u, R) = a
      /\ E \in Int /\ E = SumIn(e, K) /\ (\A x \in K : e[x] = N[x] - C)
      /\ (\A x \in K : M[x] = C * a)
      /\ (\A x \in R : M[x] = N[x] * a + E * u[x])
      /\ (\A x \in S \ (K \cup R) : M[x] = N[x] * a)
  BY DEF Moved
<1> DEFINE f == [x \in S |-> N[x] * a]
           b == [x \in S |-> IF x \in K THEN e[x] * (-a) ELSE 0]
           c == [x \in S |-> IF x \in R THEN u[x] * E ELSE 0]
           g == [x \in S |-> f[x] + b[x]]
           eb == [x \in K |-> e[x] * (-a)]
           uc == [x \in R |-> u[x] * E]
<1>1. /\ IsFiniteSet(K) /\ IsFiniteSet(R) /\ Numbers(N, S) /\ Numbers(u, R) /\ Numbers(e, K)
  BY <1>0, FS_Subset DEF Numbers
<1>2. ASSUME NEW x \in S
      PROVE  /\ f[x] \in Int /\ b[x] \in Int /\ c[x] \in Int /\ g[x] \in Int
             /\ M[x] = g[x] + c[x] /\ f[x] = N[x] * a /\ g[x] = f[x] + b[x]
  <2>0. N[x] \in Int /\ N[x] * a \in Int /\ -a \in Int /\ a \in Int /\ C \in Int /\ E \in Int
    BY <1>0
  <2>1. CASE x \in K
    <3>1. x \notin R /\ e[x] = N[x] - C
      BY <1>0, <2>1
    <3>2. e[x] * (-a) = C * a - N[x] * a /\ C * a \in Int /\ e[x] * (-a) \in Int
      <4> HIDE DEF f, b, c, g, eb, uc
      <4> DEFINE p == N[x]
                 d == e[x]
                 m == -a
      <4>1. p \in Int /\ C \in Int /\ a \in Int /\ d = p - C /\ m = -a
        BY <2>0, <3>1
      <4> HIDE DEF p, d, m
      <4>2. d * m = C * a - p * a /\ C * a \in Int /\ d * m \in Int
        BY <4>1, DifferenceTimes
      <4> QED
        BY <4>2 DEF p, d, m
    <3>3. f[x] = N[x] * a /\ b[x] = e[x] * (-a) /\ c[x] = 0 /\ M[x] = C * a /\ g[x] = f[x] + b[x]
      BY <1>0, <2>1, <3>1
    <3> HIDE DEF f, b, c, g
    <3> QED
      BY <2>0, <3>1, <3>2, <3>3
  <2>2. CASE x \in R
    <3>1. x \notin K /\ u[x] \in Int /\ u[x] * E \in Int /\ E * u[x] = u[x] * E
      BY <1>0, <2>2
    <3>2. f[x] = N[x] * a /\ b[x] = 0 /\ c[x] = u[x] * E /\ M[x] = N[x] * a + E * u[x] /\ g[x] = f[x] + b[x]
      BY <1>0, <2>2, <3>1
    <3> HIDE DEF f, b, c, g
    <3> QED
      BY <2>0, <3>1, <3>2
  <2>3. CASE x \notin K \cup R
    <3>1. f[x] = N[x] * a /\ b[x] = 0 /\ c[x] = 0 /\ M[x] = N[x] * a /\ g[x] = f[x] + b[x]
      BY <1>0, <2>3
    <3> HIDE DEF f, b, c, g
    <3> QED
      BY <2>0, <3>1
  <2> QED
    BY <2>1, <2>2, <2>3
<1>3. \A x \in K : eb[x] = e[x] * (-a) /\ b[x] = eb[x]
  BY <1>0
<1>4. \A x \in S \ K : b[x] = 0
  OBVIOUS
<1>5. \A x \in R : uc[x] = u[x] * E /\ c[x] = uc[x]
  BY <1>0
<1>6. \A x \in S \ R : c[x] = 0
  OBVIOUS
<1> HIDE DEF f, b, c, g, eb, uc
<1>7. Numbers(f, S) /\ Numbers(b, S) /\ Numbers(c, S) /\ Numbers(g, S)
  BY <1>2 DEF Numbers
<1>8. SumIn(f, S) = SumIn(N, S) * a
  BY <1>0, <1>1, <1>2, SumFactor
<1>9. SumIn(b, S) = E * (-a)
  <2>1. SumIn(b, S) = SumIn(eb, K)
    BY <1>0, <1>3, <1>4, <1>7, SumOfPart
  <2> DEFINE m == -a
  <2>2. m \in Int /\ \A x \in K : eb[x] = e[x] * m
    BY <1>0, <1>3
  <2> HIDE DEF m
  <2>3. SumIn(eb, K) = SumIn(e, K) * m
    BY <1>1, <2>2, SumFactor
  <2> QED
    BY <1>0, <2>1, <2>3 DEF m
<1>10. SumIn(c, S) = a * E
  <2>1. SumIn(c, S) = SumIn(uc, R)
    BY <1>0, <1>5, <1>6, <1>7, SumOfPart
  <2>2. SumIn(uc, R) = SumIn(u, R) * E
    <3>1. E \in Int /\ IsFiniteSet(R) /\ Numbers(u, R) /\ \A x \in R : uc[x] = u[x] * E
      BY <1>0, <1>1, <1>5
    <3> QED
      BY <3>1, SumFactor
  <2> QED
    BY <1>0, <2>1, <2>2
<1>11. SumIn(M, S) = SumIn(g, S) + SumIn(c, S)
  BY <1>0, <1>2, <1>7, SumsAdd
<1>12. SumIn(g, S) = SumIn(f, S) + SumIn(b, S)
  BY <1>0, <1>2, <1>7, SumsAdd
<1>13. SumIn(N, S) \in Int
  BY <1>0, <1>1, TotalStep
<1> DEFINE t == SumIn(N, S) * a
           z == a * E
<1>14. t \in Int /\ z \in Int /\ E * (-a) = -z
  BY <1>0, <1>13
<1> HIDE DEF t, z
<1>15. SumIn(M, S) = (t + (-z)) + z
  BY <1>8, <1>9, <1>10, <1>11, <1>12, <1>14 DEF t, z
<1> QED
  BY <1>14, <1>15 DEF t

(* The excess over one denominator.                                          *)
LEMMA ExcessStands ==
  ASSUME NEW S, NEW w, NEW cap, NEW T, Spreadable(S, w, cap, T), NEW s \in SpreadStates(S, w, cap),
         NEW N, NEW C, NEW D, SpreadOver(s, S, cap, T, N, C, D)
  PROVE  LET e == [x \in Overweight(s) |-> N[x] - C]
         IN  Stands(Excess(s), SumIn(e, Overweight(s)), D) /\ SumIn(e, Overweight(s)) \in Int
<1> DEFINE K == Overweight(s)
           e == [x \in K |-> N[x] - C]
           v == [x \in K |-> Minus(s.weights[x], s.cap)]
<1>1. s.cap = cap /\ s.active \in SUBSET S /\ IsFiniteSet(S)
  BY DEF SpreadStates, Spreadable
<1>2. K \in SUBSET S
  BY <1>1 DEF Overweight
<1>3. D \in Natural1 /\ N \in [S -> Int] /\ Stands(cap, C, D) /\ \A x \in S : Stands(s.weights[x], N[x], D)
  BY DEF SpreadOver, Common
<1>4. Excess(s) = TotalFraction(v)
  BY DEF Excess
<1> HIDE DEF K
<1>5. IsFiniteSet(K)
  BY <1>1, <1>2, FS_Subset
<1>6. ASSUME NEW x \in K
      PROVE  Stands(v[x], e[x], D)
  <2>1. Stands(s.weights[x], N[x], D)
    BY <1>2, <1>3
  <2>2. Stands(Minus(s.weights[x], cap), N[x] - C, D)
    BY <1>3, <2>1, MinusStands
  <2> QED
    BY <1>1, <2>2
<1>7. DOMAIN v = K
  OBVIOUS
<1> HIDE DEF v, e
<1>8. Stands(TotalFraction(v), SumIn(e, K), D)
  BY <1>3, <1>5, <1>6, <1>7, FractionTotal
<1>9. SumIn(e, K) \in Int
  BY <1>8 DEF Stands
<1> QED
  BY <1>4, <1>8, <1>9 DEF e, K

(* A round leaves the sum as it is.                                          *)
LEMMA RoundBalanced ==
  ASSUME NEW S, NEW w, NEW cap, NEW T, Spreadable(S, w, cap, T), NEW s \in SpreadStates(S, w, cap),
         NEW N, NEW C, NEW D, SpreadOver(s, S, cap, T, N, C, D), Overweight(s) # {}
  PROVE  Balanced([x \in S |-> NextWeight(s, x)], S, T)
<1> DEFINE K == Overweight(s)
           R == Remaining(s)
           X == Excess(s)
           e == [x \in K |-> N[x] - C]
           E == SumIn(e, K)
<1>1. s.cap = cap /\ s.active \in SUBSET S /\ IsFiniteSet(S) /\ s.scores = w /\ w \in [S -> Nat] /\ T \in Nat
  BY DEF SpreadStates, Spreadable
<1>2. D \in Natural1 /\ N \in [S -> Int] /\ Stands(cap, C, D) /\ C \in Int
      /\ \A x \in S : Stands(s.weights[x], N[x], D)
  BY DEF SpreadOver, Common, Stands
<1>3. SumIn(N, S) = T * D
  BY DEF SpreadOver
<1>4. K \in SUBSET S /\ R \in SUBSET S /\ K \cap R = {}
  BY <1>1 DEF Overweight, Remaining
<1>5. Stands(X, E, D) /\ E \in Int
  BY ExcessStands
<1>6. R # {}
  BY SomeLeft DEF Remaining
<1>7. \A x \in K : e[x] = N[x] - C
  OBVIOUS
<1> HIDE DEF e, E
<1>8. \A x : NextWeight(s, x) = IF x \in K THEN cap
                                ELSE IF x \in R THEN Plus(s.weights[x], ExtraOf(w, R, X, x))
                                ELSE s.weights[x]
  BY <1>1 DEF NextWeight
<1> HIDE DEF K, R, X
<1>9. PICK u, a : ExtraParts(w, R, X, u, a)
  <2>1. IsFiniteSet(R) /\ \A x \in R : w[x] \in Nat
    BY <1>1, <1>4, FS_Subset
  <2> QED
    BY <1>6, <2>1, ExtrasExist
<1>10. a \in Natural1 /\ u \in [R -> Nat] /\ SumIn(u, R) = a /\ \A x \in R : ExtraOf(w, R, X, x) = Scaled(X, u[x], a)
  BY <1>9 DEF ExtraParts
<1>11. a \in Nat /\ a # 0 /\ D \in Nat /\ D # 0
  BY <1>2, <1>10 DEF Natural1
<1>12. D * a \in Natural1
  <2>1. D * a \in Nat /\ D * a # 0
    BY <1>11
  <2> QED
    BY <2>1 DEF Natural1
<1> DEFINE M == [x \in S |-> IF x \in K THEN C * a
                             ELSE IF x \in R THEN N[x] * a + E * u[x] ELSE N[x] * a]
           W == [x \in S |-> NextWeight(s, x)]
<1>13. /\ \A x \in K : M[x] = C * a
       /\ \A x \in R : M[x] = N[x] * a + E * u[x]
       /\ \A x \in S \ (K \cup R) : M[x] = N[x] * a
  BY <1>4
<1>14. \A x \in K : W[x] = cap
  BY <1>4, <1>8
<1>15. \A x \in R : W[x] = Plus(s.weights[x], Scaled(X, u[x], a))
  BY <1>4, <1>8, <1>10
<1>16. \A x \in S \ (K \cup R) : W[x] = s.weights[x]
  BY <1>4, <1>8
<1>17. DOMAIN M = S /\ M = [x \in S |-> M[x]]
  OBVIOUS
<1> HIDE DEF M, W
<1>18. ASSUME NEW x \in S
       PROVE  Stands(W[x], M[x], D * a)
  <2>1. Stands(s.weights[x], N[x] * a, D * a)
    BY <1>2, <1>10, StandsScaledUp
  <2>2. CASE x \in K
    <3>1. Stands(cap, C * a, D * a)
      BY <1>2, <1>10, StandsScaledUp
    <3> QED
      BY <1>13, <1>14, <2>2, <3>1
  <2>3. CASE x \in R
    <3>1. u[x] \in Int
      BY <1>10, <2>3
    <3>2. Stands(Scaled(X, u[x], a), E * u[x], D * a)
      BY <1>5, <1>10, <3>1, ScaledStands
    <3>3. Stands(Plus(s.weights[x], Scaled(X, u[x], a)), N[x] * a + E * u[x], D * a)
      BY <2>1, <3>2, PlusStands
    <3> QED
      BY <1>13, <1>15, <2>3, <3>3
  <2>4. CASE x \notin K \cup R
    BY <1>13, <1>16, <2>1, <2>4
  <2> QED
    BY <2>2, <2>3, <2>4
<1>19. SumIn(M, S) = SumIn(N, S) * a
  <2>1. IsFiniteSet(S) /\ N \in [S -> Int] /\ C \in Int
    BY <1>1, <1>2
  <2>2. K \in SUBSET S /\ R \in SUBSET S /\ K \cap R = {}
    BY <1>4
  <2>3. SumIn(u, R) = a /\ a \in Nat /\ u \in [R -> Nat]
    BY <1>10, <1>11
  <2>4. E = SumIn(e, K) /\ E \in Int
    BY <1>5 DEF E
  <2>5. \A x \in K : e[x] = N[x] - C
    BY <1>7
  <2>6. /\ \A x \in K : M[x] = C * a
        /\ \A x \in R : M[x] = N[x] * a + E * u[x]
        /\ \A x \in S \ (K \cup R) : M[x] = N[x] * a
    BY <1>13
  <2>7. Moved(S, N, C, K, R, u, a, e, E, M)
    BY <2>1, <2>2, <2>3, <2>4, <2>5, <2>6 DEF Moved
  <2> QED
    BY <2>7, NothingLost
<1>20. SumIn(M, S) = T * (D * a)
  <2>1. (T * D) * a = T * (D * a)
    BY <1>1, <1>11
  <2> QED
    BY <1>3, <1>19, <2>1
<1>21. M \in [S -> Int]
  <2>1. \A x \in S : M[x] \in Int
    BY <1>18 DEF Stands
  <2> QED
    BY <1>17, <2>1
<1>22. Common(W, S, M, D * a)
  BY <1>12, <1>18, <1>21 DEF Common
<1> QED
  BY <1>20, <1>22 DEF Balanced, W

(* A round leaves such a state, and fewer active unless none is overweight.  *)
LEMMA SpreadRound ==
  ASSUME NEW S, NEW w, NEW cap, NEW T, Spreadable(S, w, cap, T), NEW s \in Spreads(S, w, cap, T)
  PROVE  /\ SpreadExcess(s) \in Spreads(S, w, cap, T)
         /\ Overweight(s) = {} => SpreadExcess(s) = s
         /\ Overweight(s) # {} => Cardinality(SpreadExcess(s).active) < Cardinality(s.active)
<1>1. CASE Overweight(s) = {}
  <2>1. SpreadExcess(s) = s
    BY <1>1, SpreadExcessIs
  <2> QED
    BY <1>1, <2>1
<1>2. CASE Overweight(s) # {}
  <2> DEFINE W == [x \in S |-> NextWeight(s, x)]
             R == Remaining(s)
             next == SpreadExcess(s)
  <2>1. s \in SpreadStates(S, w, cap) /\ \A x \in S \ s.active : s.weights[x] = cap
    BY DEF Spreads
  <2>2. PICK N, C, D : SpreadOver(s, S, cap, T, N, C, D)
    BY SpreadNumbers
  <2>3. Balanced(W, S, T)
    BY <1>2, <2>1, <2>2, RoundBalanced
  <2>4. s.cap = cap /\ s.active \in SUBSET S /\ s.weights \in [S -> Pairs] /\ IsFiniteSet(S)
    BY <2>1 DEF SpreadStates, Spreadable
  <2>5. DOMAIN s.weights = S
    BY <2>4
  <2>6. next = [s EXCEPT !.active = R, !.weights = W]
    BY <1>2, <2>5, SpreadExcessIs
  <2>7. R \in SUBSET S /\ R \subseteq s.active /\ Overweight(s) \subseteq s.active /\ R \cap Overweight(s) = {}
    BY <2>4 DEF Remaining, Overweight
  <2>8. W \in [S -> Pairs]
    <3>1. \A x \in S : W[x] \in Pairs
      BY <2>3 DEF Balanced, Common, Stands
    <3> QED
      BY <3>1
  <2>9. \A x \in S \ R : W[x] = cap
    <3>1. ASSUME NEW x \in S \ R
          PROVE  W[x] = cap
      <4>1. CASE x \in Overweight(s)
        BY <2>4, <4>1 DEF NextWeight
      <4>2. CASE x \notin Overweight(s)
        <5>1. x \notin s.active
          BY <3>1, <4>2 DEF Remaining
        <5> QED
          BY <2>1, <3>1, <4>2, <5>1 DEF NextWeight
      <4> QED
        BY <4>1, <4>2
    <3> QED
      BY <3>1
  <2> HIDE DEF W, R, next
  <2>10. next \in SpreadStates(S, w, cap) /\ next.active = R /\ next.weights = W
    BY <2>1, <2>6, <2>7, <2>8 DEF SpreadStates
  <2>11. next \in Spreads(S, w, cap, T)
    BY <2>3, <2>9, <2>10 DEF Spreads
  <2>12. Cardinality(R) < Cardinality(s.active)
    <3>1. IsFiniteSet(s.active)
      BY <2>4, FS_Subset
    <3>2. R \subseteq s.active /\ R # s.active
      BY <1>2, <2>7
    <3>3. /\ IsFiniteSet(R) /\ Cardinality(R) <= Cardinality(s.active)
          /\ Cardinality(R) = Cardinality(s.active) => R = s.active
      BY <3>1, <3>2, FS_Subset
    <3>4. Cardinality(R) \in Nat /\ Cardinality(s.active) \in Nat
      BY <3>1, <3>3, FS_CardinalityType
    <3> QED
      BY <3>2, <3>3, <3>4
  <2> QED
    BY <1>2, <2>10, <2>11, <2>12 DEF next
<1> QED
  BY <1>1, <1>2

(* As many rounds as there are of them leave none overweight.                *)
LEMMA RoundsSpread ==
  ASSUME NEW S, NEW w, NEW cap, NEW T, Spreadable(S, w, cap, T),
         NEW base \in Spreads(S, w, cap, T), base.active = S
  PROVE  /\ Overweight(Rounds(Cardinality(S), SpreadExcess, base)) = {}
         /\ Rounds(Cardinality(S), SpreadExcess, base) \in Spreads(S, w, cap, T)
<1> DEFINE n == Cardinality(S)
           A == Spreads(S, w, cap, T)
           st == [p \in A \X (1 .. n) |-> SpreadExcess(p[1])]
           C(k) == k = [s \in SUBSET (1 .. n) |-> IF s = {} THEN base ELSE
                          SpreadExcess(k[s \ {Max(s)}])]
           it == CHOOSE k : C(k)
           end == Rounds(n, SpreadExcess, base)
<1>1. n \in Nat /\ IsFiniteSet(S)
  BY FS_CardinalityType DEF Spreadable
<1>2. end = it[1 .. n]
  <2>1. end = (CHOOSE k : k = [s \in SUBSET DOMAIN [i \in 1 .. n |-> i] |-> IF s = {} THEN base ELSE
                               SpreadExcess(k[s \ {Max(s)}])])[DOMAIN [i \in 1 .. n |-> i]]
    BY DEF Rounds, FoldLeft, MapThenFoldSet
  <2>2. DOMAIN [i \in 1 .. n |-> i] = 1 .. n
    OBVIOUS
  <2> HIDE DEF n, end
  <2> QED
    BY <2>1, <2>2
<1> HIDE DEF end
<1>3. Steps(1 .. n, A, st)
  BY SpreadRound DEF Steps
<1> HIDE DEF n, A
<1>4. \A a \in A, k \in 1 .. n : st[<<a, k>>] = SpreadExcess(a)
  OBVIOUS
<1> HIDE DEF st
<1>5. base \in A
  BY DEF A
<1>6. PICK g : LeftFold(n, A, base, st, g)
  BY <1>1, <1>3, <1>5, LeftFoldExists
<1>7. C(g)
  <2>1. ASSUME NEW s \in SUBSET (1 .. n), s # {}
        PROVE  st[<<g[s \ {Max(s)}], Max(s)>>] = SpreadExcess(g[s \ {Max(s)}])
    <3>1. Max(s) \in 1 .. n
      BY <1>1, <2>1, LargestExists
    <3>2. g[s \ {Max(s)}] \in A
      BY <1>6 DEF LeftFold
    <3> QED
      BY <1>4, <3>1, <3>2
  <2>2. [s \in SUBSET (1 .. n) |-> IF s = {} THEN base ELSE st[<<g[s \ {Max(s)}], Max(s)>>]]
        = [s \in SUBSET (1 .. n) |-> IF s = {} THEN base ELSE SpreadExcess(g[s \ {Max(s)}])]
    BY <2>1
  <2> QED
    BY <1>6, <2>2 DEF LeftFold
<1>8. C(it)
  BY <1>7
<1>9. Unfolds(n, A, base, st, it)
  <2>1. it[{}] = base
    <3>1. {} \in SUBSET (1 .. n)
      OBVIOUS
    <3> HIDE DEF it
    <3> QED
      BY <1>8, <3>1
  <2>2. ASSUME NEW s \in SUBSET (1 .. n), s # {}, it[s \ {Max(s)}] \in A
        PROVE  it[s] = st[<<it[s \ {Max(s)}], Max(s)>>]
    <3>1. Max(s) \in 1 .. n
      BY <1>1, <2>2, LargestExists
    <3> HIDE DEF it
    <3>2. it[s] = SpreadExcess(it[s \ {Max(s)}])
      BY <1>8, <2>2
    <3> QED
      BY <1>4, <2>2, <3>1, <3>2
  <2> HIDE DEF it
  <2> QED
    BY <2>1, <2>2 DEF Unfolds
<1> HIDE DEF it
<1>10. PICK F : Turns(n, A, base, st, F) /\ F[n] = it[1 .. n]
  BY <1>1, <1>3, <1>5, <1>9, FoldTurns
<1> DEFINE Ends(k) == \/ Overweight(F[k]) = {}
                      \/ Cardinality(F[k].active) <= n - k
           P == {k \in Nat : k <= n => Ends(k)}
<1>11. 0 \in P
  <2>1. F[0].active = S /\ n <= n - 0
    BY <1>1, <1>10 DEF Turns
  <2>2. Ends(0)
    BY <2>1 DEF n
  <2> QED
    BY <2>2
<1>12. ASSUME NEW k \in P
       PROVE  k + 1 \in P
  <2>1. CASE k + 1 <= n
    <3>1. k \in Nat /\ k \in 0 .. n /\ k + 1 \in 1 .. n /\ (k + 1) - 1 = k /\ Ends(k)
      BY <1>1, <2>1
    <3>2. F[k] \in A /\ F[k + 1] = st[<<F[k], k + 1>>]
      BY <1>10, <3>1 DEF Turns
    <3>3. F[k + 1] = SpreadExcess(F[k])
      BY <1>4, <3>1, <3>2
    <3>4. \/ Overweight(F[k + 1]) = {}
          \/ /\ Overweight(F[k]) # {}
             /\ Cardinality(F[k + 1].active) < Cardinality(F[k].active)
      BY <3>2, <3>3, SpreadRound DEF A
    <3>5. F[k + 1] \in A
      BY <1>3, <3>1, <3>2 DEF Steps
    <3>6. \A s \in A : Cardinality(s.active) \in Nat
      BY <1>1, FS_Subset, FS_CardinalityType DEF A, Spreads, SpreadStates
    <3> DEFINE i == Cardinality(F[k].active)
               j == Cardinality(F[k + 1].active)
    <3>7. i \in Nat /\ j \in Nat
      BY <3>2, <3>5, <3>6
    <3>8. Overweight(F[k + 1]) = {} \/ (j < i /\ i <= n - k)
      BY <3>1, <3>4
    <3> HIDE DEF i, j
    <3>9. j < i /\ i <= n - k => j <= n - (k + 1)
      BY <1>1, <3>1, <3>7
    <3>10. Ends(k + 1)
      BY <3>8, <3>9 DEF j
    <3> QED
      BY <3>1, <3>10
  <2>2. CASE ~(k + 1 <= n)
    BY <2>2
  <2> QED
    BY <2>1, <2>2
<1>13. P = Nat
  <2> HIDE DEF P
  <2>1. P \in SUBSET Nat
    BY DEF P
  <2> QED
    BY <1>11, <1>12, <2>1, Counting
<1>14. Ends(n) /\ F[n] \in A
  <2>1. n \in P /\ n \in 0 .. n /\ n <= n
    BY <1>1, <1>13
  <2> QED
    BY <1>10, <2>1 DEF Turns
<1>15. Overweight(F[n]) = {}
  <2>1. CASE Cardinality(F[n].active) <= n - n
    <3> DEFINE s == F[n]
    <3>1. s.active \in SUBSET S
      BY <1>14 DEF A, Spreads, SpreadStates
    <3>2. IsFiniteSet(s.active) /\ Cardinality(s.active) \in Nat
      BY <1>1, <3>1, FS_Subset, FS_CardinalityType
    <3>3. Cardinality(s.active) = 0
      BY <1>1, <2>1, <3>2
    <3>4. s.active = {}
      BY <3>2, <3>3, FS_EmptySet
    <3> QED
      BY <3>4 DEF Overweight
  <2> QED
    BY <1>14, <2>1
<1> QED
  BY <1>2, <1>10, <1>14, <1>15 DEF end, n, A

(* So they add up to T, and none is above the cap.                           *)
LEMMA RoundsKeep ==
  ASSUME NEW S, NEW w, NEW cap, NEW T, Spreadable(S, w, cap, T),
         NEW s \in Spreads(S, w, cap, T), Overweight(s) = {}
  PROVE  Balanced(s.weights, S, T) /\ \A x \in S : ~Exceeds(s.weights[x], cap)
<1>1. Balanced(s.weights, S, T) /\ s.cap = cap /\ cap \in Pairs /\ \A x \in S \ s.active : s.weights[x] = cap
  BY DEF Spreads, SpreadStates, Spreadable
<1>2. ~Exceeds(cap, cap)
  <2>1. cap[1] * cap[2] \in Int
    BY <1>1 DEF Pairs, Natural1
  <2> QED
    BY <2>1 DEF Exceeds
<1>3. \A x \in s.active : ~Exceeds(s.weights[x], cap)
  BY <1>1 DEF Overweight
<1> QED
  BY <1>1, <1>2, <1>3

(* Some score counts: together they are not nothing.                         *)
LEMMA WorthsCount ==
  ASSUME NEW scores, NEW S, S = DOMAIN scores, IsFiniteSet(S), S # {}, \A x \in S : scores[x] \in Int
  PROVE  Total(Worths(scores)) \in Natural1 /\ Total(Worths(scores)) = SumIn(Worths(scores), S)
<1> DEFINE w == Worths(scores)
           zero == [x \in S |-> 0]
<1>1. w \in [S -> Nat]
  BY WorthsKeepOrder
<1>2. \E y \in S : w[y] > 0
  <2>1. CASE \A x \in S : scores[x] <= 0
    BY <2>1 DEF Worths
  <2>2. CASE \E x \in S : ~(scores[x] <= 0)
    <3>1. PICK y \in S : ~(scores[y] <= 0)
      BY <2>2
    <3>2. w = [x \in S |-> Larger(scores[x], 0)]
      BY <2>2 DEF Worths
    <3>3. w[y] = Larger(scores[y], 0) /\ scores[y] \in Int
      BY <3>2
    <3> QED
      BY <3>1, <3>3 DEF Larger
  <2> QED
    BY <2>1, <2>2
<1>3. Total(w) = SumIn(w, S)
  BY <1>1, TotalIs
<1> HIDE DEF w
<1>4. PICK y \in S : w[y] > 0
  BY <1>2
<1>5. Numbers(zero, S) /\ Numbers(w, S) /\ \A x \in S : zero[x] = 0 /\ zero[x] <= w[x]
  BY <1>1 DEF Numbers
<1>6. zero[y] < w[y]
  BY <1>4
<1>7. SumIn(zero, S) = 0
  BY <1>5, TotalZero
<1> HIDE DEF zero
<1>8. SumIn(zero, S) < SumIn(w, S)
  BY <1>5, <1>6, SumBelow
<1>9. SumIn(w, S) \in Nat
  BY <1>1, TotalNat
<1>10. SumIn(w, S) # 0
  BY <1>7, <1>8, <1>9
<1> QED
  BY <1>3, <1>9, <1>10 DEF w, Natural1

(* A number exceeds all pairs of one value or none.                          *)
LEMMA ExceedsSame ==
  ASSUME NEW f \in Pairs, NEW g, NEW h, NEW n, NEW d, Stands(g, n, d), Stands(h, n, d)
  PROVE  Exceeds(f, g) <=> Exceeds(f, h)
<1> DEFINE a == f[1]
           b == f[2]
<1>1. a \in Int /\ b \in Natural1 /\ d \in Natural1 /\ n \in Int /\ b \in Int /\ d \in Int
  BY DEF Pairs, Stands, Natural1
<1>2. Stands(f, a, b)
  BY <1>1 DEF Stands
<1> HIDE DEF a, b
<1>3. Stands(f, a * d, b * d)
  BY <1>1, <1>2, StandsScaledUp
<1>4. Stands(g, n * b, d * b) /\ Stands(h, n * b, d * b)
  BY <1>1, StandsScaledUp
<1>5. d * b = b * d
  BY <1>1
<1>6. Stands(g, n * b, b * d) /\ Stands(h, n * b, b * d)
  BY <1>4, <1>5
<1>7. (Exceeds(f, g) <=> a * d > n * b) /\ (Exceeds(f, h) <=> a * d > n * b)
  BY <1>3, <1>6, ExceedsStands
<1> QED
  BY <1>7

(* Candidates with a value each and a symbol of their own.                   *)
Symbols(candidates) == {c.symbol : c \in candidates}
Distinct(candidates) ==
  /\ IsFiniteSet(candidates) /\ candidates # {} /\ \A c \in candidates : c.value \in Int
  /\ \A c, d \in candidates : c.symbol = d.symbol => c = d

(* There are as many symbols as candidates,                                  *)
LEMMA DistinctCount ==
  ASSUME NEW K, Distinct(K)
  PROVE  /\ IsFiniteSet(Symbols(K)) /\ Symbols(K) # {}
         /\ Cardinality(Symbols(K)) = Cardinality(K) /\ Cardinality(K) \in Natural1
<1> DEFINE f == [c \in K |-> c.symbol]
<1>1. f \in Bijection(K, Symbols(K))
  BY DEF Distinct, Symbols, Bijection, Injection, Surjection, IsInjective
<1>2. ExistsBijection(K, Symbols(K))
  BY <1>1 DEF ExistsBijection
<1>3. IsFiniteSet(K) /\ K # {}
  BY DEF Distinct
<1>4. IsFiniteSet(Symbols(K)) /\ Cardinality(Symbols(K)) = Cardinality(K)
  BY <1>2, <1>3, FS_Bijection
<1>5. Cardinality(K) \in Nat /\ Cardinality(K) # 0
  BY <1>3, FS_CardinalityType, FS_EmptySet
<1>6. Symbols(K) # {}
  BY <1>3 DEF Symbols
<1> QED
  BY <1>4, <1>5, <1>6 DEF Natural1

(* and each is the symbol of one of them.                                    *)
LEMMA DistinctLast ==
  ASSUME NEW K, Distinct(K), NEW x \in Symbols(K)
  PROVE  LastOf(K, x) \in K /\ LastOf(K, x).symbol = x
<1>1. PICK c \in K : c.symbol = x
  BY DEF Symbols
<1>2. c.symbol = x /\ (c.held => \A d \in K : d.symbol = x => d.held)
  BY <1>1 DEF Distinct
<1> QED
  BY <1>2 DEF LastOf

(* The weights of a bucket: they add up to its target, none above the cap.   *)
LEMMA BucketSpread ==
  ASSUME NEW K, Distinct(K), NEW T \in Nat, NEW most \in Nat
  PROVE  LET v == BucketTargetWeights(K, T, most)
             count == Cardinality(K)
         IN  /\ Balanced(v, Symbols(K), T)
             /\ \A x \in Symbols(K) : ~Exceeds(v[x], <<Larger(most * count, T), count>>)
<1> DEFINE S == Symbols(K)
           n == Cardinality(K)
           scores == [x \in S |-> LastOf(K, x).value]
           w == Worths(scores)
           all == Total(w)
           L == Larger(most * n, T)
           cap == Fraction(L, n)
           W == [x \in S |-> Fraction(T * w[x], all)]
           N == [x \in S |-> T * w[x]]
           start == [cap |-> cap, active |-> S, scores |-> w, weights |-> W]
           end == Rounds(n, SpreadExcess, start)
           v == BucketTargetWeights(K, T, most)
<1>1. v = end.weights
  BY DEF BucketTargetWeights, Symbols
<1>2. IsFiniteSet(S) /\ S # {} /\ Cardinality(S) = n /\ n \in Natural1 /\ n \in Nat
  BY DistinctCount DEF Natural1
<1>3. S = DOMAIN scores /\ \A x \in S : scores[x] \in Int
  BY DistinctLast DEF Distinct
<1> HIDE DEF S, n, scores
<1>4. w \in [S -> Nat] /\ all \in Natural1 /\ all = SumIn(w, S)
  BY <1>2, <1>3, WorthsKeepOrder, WorthsCount
<1> HIDE DEF w, all
<1>5. L \in Int /\ T <= L
  <2> DEFINE e == most * n
  <2>1. e \in Int
    BY <1>2
  <2> HIDE DEF e
  <2>2. Larger(e, T) \in Int /\ T <= Larger(e, T)
    BY <2>1 DEF Larger
  <2> QED
    BY <2>2 DEF e
<1> HIDE DEF L
<1>6. Stands(cap, L, n)
  BY <1>2, <1>5, FractionStands
<1>7. \A x \in S : W[x] = Fraction(T * w[x], all) /\ N[x] = T * w[x] /\ N[x] = w[x] * T /\ N[x] \in Int
  BY <1>4
<1>8. DOMAIN W = S /\ N \in [S -> Int]
  BY <1>7
<1> HIDE DEF cap, W, N, start, end
<1>9. Spreadable(S, w, cap, T)
  <2> DEFINE p == cap[1]
             q == cap[2]
  <2>1. cap \in Pairs /\ p * n = L * q
    BY <1>6 DEF Stands
  <2>2. q \in Natural1
    BY <2>1 DEF Pairs
  <2> HIDE DEF p, q
  <2>3. T * q <= L * q
    BY <1>5, <2>2, Cancel
  <2>4. T * q <= p * n
    BY <2>1, <2>3
  <2> QED
    BY <1>2, <1>4, <2>1, <2>4 DEF Spreadable, p, q
<1>10. Common(W, S, N, all)
  <2>1. ASSUME NEW x \in S
        PROVE  Stands(W[x], N[x], all)
    <3>1. N[x] \in Int /\ W[x] = Fraction(N[x], all)
      BY <1>7
    <3> QED
      BY <1>4, <3>1, FractionStands
  <2> QED
    BY <1>4, <1>8, <2>1 DEF Common
<1>11. SumIn(N, S) = T * all
  <2>1. Numbers(w, S) /\ \A x \in S : N[x] = w[x] * T
    BY <1>4, <1>7 DEF Numbers
  <2>2. SumIn(N, S) = SumIn(w, S) * T
    BY <1>2, <2>1, SumFactor
  <2>3. all \in Int
    BY <1>4 DEF Natural1
  <2> QED
    BY <1>4, <2>2, <2>3
<1>12. Balanced(W, S, T)
  BY <1>10, <1>11 DEF Balanced
<1>13. W \in [S -> Pairs]
  <2>1. \A x \in S : W[x] \in Pairs
    BY <1>10 DEF Common, Stands
  <2>2. W = [x \in S |-> W[x]]
    BY DEF W
  <2> QED
    BY <2>1, <2>2
<1>14. start \in Spreads(S, w, cap, T) /\ start.active = S
  <2>1. start.active = S /\ start.weights = W /\ start \in SpreadStates(S, w, cap)
    BY <1>13 DEF start, SpreadStates
  <2> QED
    BY <1>12, <2>1 DEF Spreads
<1>15. end \in Spreads(S, w, cap, T) /\ Overweight(end) = {}
  BY <1>2, <1>9, <1>14, RoundsSpread DEF end
<1>16. Balanced(v, S, T) /\ \A x \in S : ~Exceeds(v[x], cap)
  BY <1>1, <1>9, <1>15, RoundsKeep
<1>17. ASSUME NEW x \in S
       PROVE  ~Exceeds(v[x], <<L, n>>)
  <2>1. v[x] \in Pairs
    BY <1>16 DEF Balanced, Common, Stands
  <2>2. Stands(<<L, n>>, L, n)
    BY <1>2, <1>5, StandsItself
  <2> QED
    BY <1>6, <1>16, <2>1, <2>2, ExceedsSame
<1> QED
  BY <1>16, <1>17 DEF S, n, L

(* RISK_PROFILES gives every bucket a number.                                *)
LEMMA TargetsAre ==
  ASSUME NEW score \in 1 .. 10, NEW b \in Buckets
  PROVE  TargetAllocation(score, b) \in Nat
<1>1. ASSUME NEW k \in 1 .. 3
      PROVE  RiskProfiles[score][k] \in Nat
  <2>1. score \in {1, 2, 3, 4, 5, 6, 7, 8, 9, 10} /\ k \in {1, 2, 3}
    OBVIOUS
  <2>2. CASE score \in {1, 2, 3, 4, 5}
    BY <2>1, <2>2 DEF RiskProfiles
  <2>3. CASE score \in {6, 7, 8, 9, 10}
    BY <2>1, <2>3 DEF RiskProfiles
  <2> QED
    BY <2>1, <2>2, <2>3
<1> DEFINE k == CASE b = "equity" -> 1 [] b = "bonds" -> 2 [] b = "cash" -> 3
<1>2. k \in 1 .. 3
  BY DEF Buckets
<1>3. TargetAllocation(score, b) = RiskProfiles[score][k]
  BY DEF TargetAllocation
<1> HIDE DEF k
<1> QED
  BY <1>1, <1>2, <1>3

(* The candidates of a bucket: what is held, and what is added to it.        *)
InBucket(b) == {p \in Elements(portfolio.positions) : RiskBucket(p) = b}
HeldIn(b) == {CandidateOf(p) : p \in InBucket(b)}
NewBonds(bonds) == {x \in bonds \cap BondCatalog : Holding(x) = {}}
AddedTo(b, bonds) ==
  CASE b = "bonds" -> {NewCandidate(x, 0) : x \in NewBonds(bonds)}
    [] b = "cash" -> {NewCandidate("CASH", Larger(portfolio.cash, 0))}
    [] OTHER -> {}

(* These are the candidates, or else the sleeve.                             *)
LEMMA CandidatesAre ==
  ASSUME NEW b, NEW bonds
  PROVE  Candidates(b, bonds) = IF HeldIn(b) \cup AddedTo(b, bonds) = {} THEN {NewCandidate("sleeve", 0)}
                                ELSE HeldIn(b) \cup AddedTo(b, bonds)
  BY DEF Candidates, HeldIn, AddedTo, InBucket, NewBonds

(* Holdings are candidates of different symbols,                             *)
LEMMA HeldDistinct ==
  ASSUME portfolio \in Portfolios, NEW b
  PROVE  /\ IsFiniteSet(HeldIn(b)) /\ \A c \in HeldIn(b) : c.value \in Int /\ Holding(c.symbol) # {}
         /\ \A c, d \in HeldIn(b) : c.symbol = d.symbol => c = d
<1> DEFINE P == portfolio
           f == [n \in Rows(P) |-> RowOf(P, n)]
           g == [p \in InBucket(b) |-> CandidateOf(p)]
<1>1. IsFiniteSet(Rows(P)) /\ Elements(P.positions) = {f[n] : n \in Rows(P)}
  BY RowsOfPortfolio DEF Elements, Rows, RowOf
<1>2. /\ \A p \in Elements(P.positions) : p \in HeldRows
      /\ \A p, q \in Elements(P.positions) : p.symbol = q.symbol => p = q
  BY RowsOfPortfolio DEF Elements, Rows, RowOf
<1>3. HeldIn(b) = {g[p] : p \in InBucket(b)}
  BY DEF HeldIn
<1>4. IsFiniteSet(InBucket(b))
  <2> HIDE DEF f
  <2>1. IsFiniteSet(Elements(P.positions))
    BY <1>1, ImageFinite
  <2>2. InBucket(b) \subseteq Elements(P.positions)
    BY DEF InBucket
  <2> QED
    BY <2>1, <2>2, FS_Subset
<1>5. IsFiniteSet(HeldIn(b))
  <2> HIDE DEF g
  <2> QED
    BY <1>3, <1>4, ImageFinite
<1>6. ASSUME NEW c \in HeldIn(b)
      PROVE  \E p \in Elements(P.positions) : c.symbol = p.symbol /\ c.value = MarketValue(p) /\ c = CandidateOf(p)
  BY DEF HeldIn, InBucket, CandidateOf, Candidate
<1>7. ASSUME NEW c \in HeldIn(b)
      PROVE  c.value \in Int /\ Holding(c.symbol) # {}
  <2>1. PICK p \in Elements(P.positions) : c.symbol = p.symbol /\ c.value = MarketValue(p)
    BY <1>6
  <2>2. MarketValue(p) \in Nat
    BY <1>2, <2>1, RowNumbers
  <2>3. p \in Holding(c.symbol)
    BY <2>1 DEF Holding
  <2> QED
    BY <2>1, <2>2, <2>3
<1>8. ASSUME NEW c \in HeldIn(b), NEW d \in HeldIn(b), c.symbol = d.symbol
      PROVE  c = d
  <2>1. PICK p \in Elements(P.positions) : c.symbol = p.symbol /\ c = CandidateOf(p)
    BY <1>6
  <2>2. PICK q \in Elements(P.positions) : d.symbol = q.symbol /\ d = CandidateOf(q)
    BY <1>6
  <2>3. p = q
    BY <1>2, <1>8, <2>1, <2>2
  <2> QED
    BY <2>1, <2>2, <2>3
<1> QED
  BY <1>5, <1>7, <1>8

(* so are those added, which nobody holds,                                   *)
LEMMA AddedDistinct ==
  ASSUME portfolio \in Portfolios, NEW b, NEW bonds, Holding("CASH") = {}
  PROVE  /\ IsFiniteSet(AddedTo(b, bonds)) /\ \A c \in AddedTo(b, bonds) : c.value \in Int /\ Holding(c.symbol) = {}
         /\ \A c, d \in AddedTo(b, bonds) : c.symbol = d.symbol => c = d
<1>1. CASE b = "bonds"
  <2> DEFINE g == [x \in NewBonds(bonds) |-> NewCandidate(x, 0)]
  <2>1. AddedTo(b, bonds) = {g[x] : x \in NewBonds(bonds)}
    BY <1>1 DEF AddedTo
  <2>2. IsFiniteSet(NewBonds(bonds))
    <3>1. NewBonds(bonds) \subseteq BondCatalog /\ IsFiniteSet(BondCatalog)
      BY AnalysisRequests DEF NewBonds
    <3> QED
      BY <3>1, FS_Subset
  <2>3. \A x \in NewBonds(bonds) : g[x].symbol = x /\ g[x].value = 0 /\ Holding(x) = {}
    BY DEF NewCandidate, Candidate, NewBonds
  <2> HIDE DEF g
  <2>4. IsFiniteSet(AddedTo(b, bonds))
    BY <2>1, <2>2, ImageFinite
  <2> QED
    BY <2>1, <2>3, <2>4
<1>2. CASE b = "cash"
  <2> DEFINE c == NewCandidate("CASH", Larger(portfolio.cash, 0))
  <2>1. AddedTo(b, bonds) = {c}
    BY <1>2 DEF AddedTo
  <2>2. portfolio.cash \in Int
    BY RowsOfPortfolio
  <2>3. c.symbol = "CASH" /\ c.value \in Int
    BY <2>2 DEF NewCandidate, Candidate, Larger
  <2> HIDE DEF c
  <2>4. IsFiniteSet({c})
    BY FS_Singleton
  <2> QED
    BY <2>1, <2>3, <2>4
<1>3. CASE b # "bonds" /\ b # "cash"
  <2>1. AddedTo(b, bonds) = {}
    BY <1>3 DEF AddedTo
  <2> QED
    BY <2>1, FS_EmptySet
<1> QED
  BY <1>1, <1>2, <1>3

(* and so are all of them together.                                          *)
LEMMA CandidatesDistinct ==
  ASSUME portfolio \in Portfolios, NEW b, NEW bonds, Holding("CASH") = {}
  PROVE  Distinct(Candidates(b, bonds))
<1> DEFINE H == HeldIn(b)
           A == AddedTo(b, bonds)
           sleeve == NewCandidate("sleeve", 0)
<1>1. /\ IsFiniteSet(H) /\ \A c \in H : c.value \in Int /\ Holding(c.symbol) # {}
      /\ \A c, d \in H : c.symbol = d.symbol => c = d
  BY HeldDistinct
<1>2. /\ IsFiniteSet(A) /\ \A c \in A : c.value \in Int /\ Holding(c.symbol) = {}
      /\ \A c, d \in A : c.symbol = d.symbol => c = d
  BY AddedDistinct
<1>3. Candidates(b, bonds) = IF H \cup A = {} THEN {sleeve} ELSE H \cup A
  BY CandidatesAre
<1>4. sleeve.value \in Int
  BY DEF NewCandidate, Candidate
<1> HIDE DEF H, A, sleeve
<1>5. CASE H \cup A = {}
  BY <1>3, <1>4, <1>5, FS_Singleton DEF Distinct
<1>6. CASE H \cup A # {}
  <2>1. IsFiniteSet(H \cup A)
    BY <1>1, <1>2, FS_Union
  <2>2. \A c \in H \cup A : c.value \in Int
    BY <1>1, <1>2
  <2>3. \A c, d \in H \cup A : c.symbol = d.symbol => c = d
    BY <1>1, <1>2
  <2> QED
    BY <1>3, <1>6, <2>1, <2>2, <2>3 DEF Distinct
<1> QED
  BY <1>5, <1>6

(* The allocations of a bucket add up to its target.                         *)
LEMMA AllocationsAddUp ==
  ASSUME NEW K, Distinct(K), NEW v, NEW T \in Nat, Balanced(v, Symbols(K), T)
  PROVE  TotalFraction([c \in K |-> v[c.symbol]]) = Whole(T)
<1> DEFINE S == Symbols(K)
           a == [c \in K |-> v[c.symbol]]
           h == [c \in K |-> c.symbol]
<1>1. PICK N, d : Common(v, S, N, d) /\ SumIn(N, S) = T * d
  BY DEF Balanced
<1> DEFINE M == [c \in K |-> N[c.symbol]]
<1>2. d \in Natural1 /\ N \in [S -> Int] /\ \A x \in S : Stands(v[x], N[x], d)
  BY <1>1 DEF Common
<1>3. IsFiniteSet(K) /\ \A c, e \in K : h[c] = h[e] => c = e
  BY DEF Distinct
<1>4. S = {h[c] : c \in K} /\ \A c \in K : h[c] \in S /\ N[h[c]] = M[c] /\ a[c] = v[h[c]]
  BY DEF Symbols
<1>5. DOMAIN a = K
  OBVIOUS
<1> HIDE DEF S, a, h, M
<1>6. \A c \in K : Stands(a[c], M[c], d)
  BY <1>2, <1>4
<1>7. Numbers(M, K)
  BY <1>2, <1>4 DEF Numbers
<1>8. SumIn(N, S) = SumIn(M, K)
  BY <1>3, <1>4, <1>7, TotalMoved
<1>9. Stands(TotalFraction(a), SumIn(M, K), d) /\ IsFraction(TotalFraction(a))
  BY <1>2, <1>3, <1>5, <1>6, FractionTotal
<1>10. Stands(Whole(T), T * d, d) /\ IsFraction(Whole(T))
  BY <1>2, WholeStands
<1>11. Stands(TotalFraction(a), T * d, d)
  BY <1>1, <1>8, <1>9 DEF S
<1> QED
  BY <1>9, <1>10, <1>11, StandsEqual DEF a

(* A reweighting whose targets add up and keep to the cap.                   *)
BucketWell(a, T, most, capped) ==
  LET count == Cardinality(DOMAIN a)
  IN /\ TotalFraction(a) = Whole(T)
     /\ capped => \A c \in DOMAIN a : ~Exceeds(a[c], <<Larger(most * count, T), count>>)
ReweightedWell(r) ==
  \A b \in Buckets : BucketWell(r.allocations[b], TargetAllocation(r.score, b), r.most, b # "cash")

(* What a bucket is allocated keeps both promises.                           *)
LEMMA BucketAllocated ==
  ASSUME portfolio \in Portfolios, Holding("CASH") = {}, NEW b, NEW bonds, NEW T \in Nat, NEW most \in Nat,
         NEW any \in Nat
  PROVE  LET K == Candidates(b, bonds)
             v == BucketTargetWeights(K, T, IF b = "cash" THEN any ELSE most)
         IN  BucketWell([c \in K |-> v[c.symbol]], T, most, b # "cash")
<1> DEFINE K == Candidates(b, bonds)
           m == IF b = "cash" THEN any ELSE most
           v == BucketTargetWeights(K, T, m)
           a == [c \in K |-> v[c.symbol]]
           n == Cardinality(K)
<1>1. Distinct(K) /\ m \in Nat
  BY CandidatesDistinct
<1>2. \A c \in K : c.symbol \in Symbols(K)
  BY DEF Symbols
<1>3. DOMAIN a = K /\ \A c \in K : a[c] = v[c.symbol]
  OBVIOUS
<1>4. b # "cash" => m = most
  OBVIOUS
<1> HIDE DEF K, m
<1>5. Balanced(v, Symbols(K), T) /\ \A x \in Symbols(K) : ~Exceeds(v[x], <<Larger(m * n, T), n>>)
  BY <1>1, BucketSpread
<1>6. TotalFraction(a) = Whole(T)
  BY <1>1, <1>5, AllocationsAddUp
<1> HIDE DEF v, a
<1>7. ASSUME b # "cash", NEW c \in K
      PROVE  ~Exceeds(a[c], <<Larger(most * n, T), n>>)
  BY <1>2, <1>3, <1>4, <1>5, <1>7
<1>8. BucketWell(a, T, most, b # "cash")
  BY <1>3, <1>6, <1>7 DEF BucketWell
<1> QED
  BY <1>8 DEF a, v, m, K

(* reweight_portfolio_for_risk keeps them in every bucket.                   *)
LEMMA ReweightKeeps ==
  ASSUME portfolio \in Portfolios, Holding("CASH") = {},
         NEW score \in RiskScores, NEW bonds, NEW most \in PositionCaps,
         ReweightForRisk(score, bonds, most).kind = "reweighted"
  PROVE  ReweightedWell(ReweightForRisk(score, bonds, most))
<1> DEFINE r == ReweightForRisk(score, bonds, most)
           K == [b \in Buckets |-> Candidates(b, bonds)]
           weights == [b \in Buckets |-> BucketTargetWeights(K[b], TargetAllocation(score, b),
                                           IF b = "cash" THEN 100 ELSE most)]
           A == [b \in Buckets |-> [c \in K[b] |-> weights[b][c.symbol]]]
           good == [kind |-> "reweighted", score |-> score, most |-> most, allocations |-> A]
<1>1. r = IF TotalEquity <= 0 THEN Refusal ELSE good
  BY DEF ReweightForRisk
<1>2. r = good
  BY <1>1 DEF Refusal
<1>3. score \in 1 .. 10 /\ most \in Nat /\ 100 \in Nat
  BY AnalysisRequests
<1>4. ASSUME NEW b \in Buckets
      PROVE  BucketWell(A[b], TargetAllocation(score, b), most, b # "cash")
  <2> DEFINE T == TargetAllocation(score, b)
             v == BucketTargetWeights(Candidates(b, bonds), T, IF b = "cash" THEN 100 ELSE most)
  <2>1. T \in Nat
    BY <1>3, TargetsAre
  <2>2. A[b] = [c \in Candidates(b, bonds) |-> v[c.symbol]]
    OBVIOUS
  <2>3. BucketWell([c \in Candidates(b, bonds) |-> v[c.symbol]], T, most, b # "cash")
    BY <1>3, <2>1, BucketAllocated
  <2> HIDE DEF A
  <2> QED
    BY <2>2, <2>3
<1>5. good.score = score /\ good.most = most /\ good.allocations = A
  OBVIOUS
<1> HIDE DEF r, good, A
<1> QED
  BY <1>2, <1>4, <1>5 DEF ReweightedWell, r

ReweightedInv == portfolio \in Portfolios /\ TargetsAddUp

(* Each call answers a reweighting that does.                                *)
LEMMA ReweightedKept ==
  ASSUME ReweightedInv, [AnalysisNext]_analysisVars
  PROVE  ReweightedInv'
<1>0. portfolio \in Portfolios /\ portfolio' = portfolio
  BY DEF ReweightedInv, AnalysisNext, analysisVars
<1>1. CASE UNCHANGED analysisVars
  BY <1>1 DEF ReweightedInv, analysisVars, TargetsAddUp, Holding, TargetAllocation
<1>2. ASSUME analysis'.kind # "reweighted"
      PROVE  ReweightedInv'
  BY <1>0, <1>2 DEF ReweightedInv, TargetsAddUp
<1>3. ASSUME NEW score \in RiskScores, NEW bonds \in BondChoices, NEW most \in PositionCaps,
             analysis' = ReweightForRisk(score, bonds, most), analysis'.kind = "reweighted"
      PROVE  ReweightedInv'
  <2>1. CASE Holding("CASH") = {}
    <3>1. ReweightedWell(ReweightForRisk(score, bonds, most))
      BY <1>0, <1>3, <2>1, ReweightKeeps
    <3>2. ReweightedWell(analysis')
      BY <1>3, <3>1
    <3>3. TargetsAddUp'
      BY <3>2 DEF TargetsAddUp, ReweightedWell, BucketWell
    <3> QED
      BY <1>0, <3>3 DEF ReweightedInv
  <2>2. CASE Holding("CASH") # {}
    <3>1. Holding("CASH")' # {}
      BY <1>0, <2>2 DEF Holding
    <3> QED
      BY <1>0, <3>1 DEF ReweightedInv, TargetsAddUp
  <2> QED
    BY <2>1, <2>2
<1> QED
  <2>1. AnalysisNext \/ UNCHANGED analysisVars
    OBVIOUS
  <2> QED
    BY <1>1, <1>2, <1>3, <2>1, OtherAnswers DEF AnalysisNext

(* The targets of a reweighting add up to the whole portfolio by the shares  *)
(* of its buckets, none above the cap of its bucket (risk_profiles.py).      *)
THEOREM TargetsKept == AnalysisSpec => []TargetsAddUp
<1>1. AnalysisInit => ReweightedInv
  BY DEF AnalysisInit, ReweightedInv, TargetsAddUp
<1>2. ReweightedInv /\ [AnalysisNext]_analysisVars => ReweightedInv'
  BY ReweightedKept
<1>3. ReweightedInv => TargetsAddUp
  BY DEF ReweightedInv
<1> QED
  BY <1>1, <1>2, <1>3, PTL DEF AnalysisSpec

-----------------------------------------------------------------------------
(* Sums over the rows of an import.                                          *)

(* The sum over a field of records is the sum of its numbers: cost,          *)
LEMMA CostSum ==
  ASSUME NEW S, IsFiniteSet(S), \A r \in S : r.cost \in Int
  PROVE  /\ TotalCost(S) \in Int
         /\ \A x : S = {x} => TotalCost(S) = x.cost
<1> DEFINE n == Cardinality(S)
           q == SetToSeq(S)
           v == [r \in S |-> r.cost]
           w == [i \in 1 .. n |-> q[i].cost]
           C(k) == k = [s \in SUBSET (1 .. n) |-> IF s = {} THEN 0 ELSE
                          k[s \ {Max(s)}] + q[Max(s)].cost]
           it == CHOOSE k : C(k)
<1>1. n \in Nat /\ q \in [1 .. n -> S] /\ DOMAIN q = 1 .. n
  BY SetIsListed
<1>2. TotalCost(S) = it[1 .. n]
  <2>1. TotalCost(S)
          = (CHOOSE k : k = [s \in SUBSET DOMAIN q |-> IF s = {} THEN 0 ELSE
                               k[s \ {Max(s)}] + q[Max(s)].cost])[DOMAIN q]
    BY DEF TotalCost, SumOf, FoldLeft, MapThenFoldSet
  <2> HIDE DEF n, q
  <2> QED
    BY <1>1, <2>1
<1>3. Numbers(v, S) /\ \A i \in 1 .. n : w[i] = v[q[i]]
  <2> HIDE DEF n, q
  <2> QED
    BY <1>1 DEF Numbers
<1> HIDE DEF v
<1>4. (\E k : LeftSums(n, w, k)) /\ \A k : LeftSums(n, w, k) => k[1 .. n] = SumIn(v, S)
  <2> HIDE DEF w
  <2> QED
    BY <1>3, ListedSum
<1> HIDE DEF n, q
<1>5. ASSUME NEW k
      PROVE  C(k) <=> LeftSums(n, w, k)
  <2>1. ASSUME NEW s \in SUBSET (1 .. n), s # {}
        PROVE  k[s \ {Max(s)}] + q[Max(s)].cost = k[s \ {Max(s)}] + w[Max(s)]
    <3>1. Max(s) \in 1 .. n
      BY <1>1, <2>1, LargestExists
    <3> QED
      BY <3>1
  <2>2. [s \in SUBSET (1 .. n) |-> IF s = {} THEN 0 ELSE k[s \ {Max(s)}] + q[Max(s)].cost]
        = [s \in SUBSET (1 .. n) |-> IF s = {} THEN 0 ELSE k[s \ {Max(s)}] + w[Max(s)]]
    BY <2>1
  <2> QED
    BY <2>2 DEF LeftSums
<1> HIDE DEF w
<1>6. C(it)
  BY <1>4, <1>5
<1>7. it[1 .. n] = SumIn(v, S)
  <2>1. LeftSums(n, w, it)
    BY <1>5, <1>6
  <2> HIDE DEF it
  <2> QED
    BY <1>4, <2>1
<1> HIDE DEF it
<1>8. TotalCost(S) = SumIn(v, S)
  BY <1>2, <1>7
<1>9. SumIn(v, S) \in Int
  BY <1>3, TotalStep
<1>10. ASSUME NEW x, S = {x}
       PROVE  SumIn(v, S) = x.cost
  <2>1. v[x] = x.cost /\ v[x] \in Int
    BY <1>10 DEF v
  <2>2. Chosen(S) = x /\ S # {} /\ S \ {x} = {}
    BY <1>10, ChosenIn
  <2>3. SumIn(v, S) = v[x] + SumIn(v, {}) /\ SumIn(v, {}) = 0
    BY <1>3, <2>2, TotalStep
  <2> QED
    BY <2>1, <2>3
<1> QED
  BY <1>8, <1>9, <1>10

(* value,                                                                    *)
LEMMA ValueSum ==
  ASSUME NEW S, IsFiniteSet(S), \A r \in S : r.value \in Int
  PROVE  /\ TotalValue(S) \in Int
         /\ \A x : S = {x} => TotalValue(S) = x.value
<1> DEFINE n == Cardinality(S)
           q == SetToSeq(S)
           v == [r \in S |-> r.value]
           w == [i \in 1 .. n |-> q[i].value]
           C(k) == k = [s \in SUBSET (1 .. n) |-> IF s = {} THEN 0 ELSE
                          k[s \ {Max(s)}] + q[Max(s)].value]
           it == CHOOSE k : C(k)
<1>1. n \in Nat /\ q \in [1 .. n -> S] /\ DOMAIN q = 1 .. n
  BY SetIsListed
<1>2. TotalValue(S) = it[1 .. n]
  <2>1. TotalValue(S)
          = (CHOOSE k : k = [s \in SUBSET DOMAIN q |-> IF s = {} THEN 0 ELSE
                               k[s \ {Max(s)}] + q[Max(s)].value])[DOMAIN q]
    BY DEF TotalValue, SumOf, FoldLeft, MapThenFoldSet
  <2> HIDE DEF n, q
  <2> QED
    BY <1>1, <2>1
<1>3. Numbers(v, S) /\ \A i \in 1 .. n : w[i] = v[q[i]]
  <2> HIDE DEF n, q
  <2> QED
    BY <1>1 DEF Numbers
<1> HIDE DEF v
<1>4. (\E k : LeftSums(n, w, k)) /\ \A k : LeftSums(n, w, k) => k[1 .. n] = SumIn(v, S)
  <2> HIDE DEF w
  <2> QED
    BY <1>3, ListedSum
<1> HIDE DEF n, q
<1>5. ASSUME NEW k
      PROVE  C(k) <=> LeftSums(n, w, k)
  <2>1. ASSUME NEW s \in SUBSET (1 .. n), s # {}
        PROVE  k[s \ {Max(s)}] + q[Max(s)].value = k[s \ {Max(s)}] + w[Max(s)]
    <3>1. Max(s) \in 1 .. n
      BY <1>1, <2>1, LargestExists
    <3> QED
      BY <3>1
  <2>2. [s \in SUBSET (1 .. n) |-> IF s = {} THEN 0 ELSE k[s \ {Max(s)}] + q[Max(s)].value]
        = [s \in SUBSET (1 .. n) |-> IF s = {} THEN 0 ELSE k[s \ {Max(s)}] + w[Max(s)]]
    BY <2>1
  <2> QED
    BY <2>2 DEF LeftSums
<1> HIDE DEF w
<1>6. C(it)
  BY <1>4, <1>5
<1>7. it[1 .. n] = SumIn(v, S)
  <2>1. LeftSums(n, w, it)
    BY <1>5, <1>6
  <2> HIDE DEF it
  <2> QED
    BY <1>4, <2>1
<1> HIDE DEF it
<1>8. TotalValue(S) = SumIn(v, S)
  BY <1>2, <1>7
<1>9. SumIn(v, S) \in Int
  BY <1>3, TotalStep
<1>10. ASSUME NEW x, S = {x}
       PROVE  SumIn(v, S) = x.value
  <2>1. v[x] = x.value /\ v[x] \in Int
    BY <1>10 DEF v
  <2>2. Chosen(S) = x /\ S # {} /\ S \ {x} = {}
    BY <1>10, ChosenIn
  <2>3. SumIn(v, S) = v[x] + SumIn(v, {}) /\ SumIn(v, {}) = 0
    BY <1>3, <2>2, TotalStep
  <2> QED
    BY <2>1, <2>3
<1> QED
  BY <1>8, <1>9, <1>10

(* quantity,                                                                 *)
LEMMA QuantitySum ==
  ASSUME NEW S, IsFiniteSet(S), \A r \in S : r.quantity \in Int
  PROVE  /\ TotalQuantity(S) \in Int
         /\ \A x : S = {x} => TotalQuantity(S) = x.quantity
<1> DEFINE n == Cardinality(S)
           q == SetToSeq(S)
           v == [r \in S |-> r.quantity]
           w == [i \in 1 .. n |-> q[i].quantity]
           C(k) == k = [s \in SUBSET (1 .. n) |-> IF s = {} THEN 0 ELSE
                          k[s \ {Max(s)}] + q[Max(s)].quantity]
           it == CHOOSE k : C(k)
<1>1. n \in Nat /\ q \in [1 .. n -> S] /\ DOMAIN q = 1 .. n
  BY SetIsListed
<1>2. TotalQuantity(S) = it[1 .. n]
  <2>1. TotalQuantity(S)
          = (CHOOSE k : k = [s \in SUBSET DOMAIN q |-> IF s = {} THEN 0 ELSE
                               k[s \ {Max(s)}] + q[Max(s)].quantity])[DOMAIN q]
    BY DEF TotalQuantity, SumOf, FoldLeft, MapThenFoldSet
  <2> HIDE DEF n, q
  <2> QED
    BY <1>1, <2>1
<1>3. Numbers(v, S) /\ \A i \in 1 .. n : w[i] = v[q[i]]
  <2> HIDE DEF n, q
  <2> QED
    BY <1>1 DEF Numbers
<1> HIDE DEF v
<1>4. (\E k : LeftSums(n, w, k)) /\ \A k : LeftSums(n, w, k) => k[1 .. n] = SumIn(v, S)
  <2> HIDE DEF w
  <2> QED
    BY <1>3, ListedSum
<1> HIDE DEF n, q
<1>5. ASSUME NEW k
      PROVE  C(k) <=> LeftSums(n, w, k)
  <2>1. ASSUME NEW s \in SUBSET (1 .. n), s # {}
        PROVE  k[s \ {Max(s)}] + q[Max(s)].quantity = k[s \ {Max(s)}] + w[Max(s)]
    <3>1. Max(s) \in 1 .. n
      BY <1>1, <2>1, LargestExists
    <3> QED
      BY <3>1
  <2>2. [s \in SUBSET (1 .. n) |-> IF s = {} THEN 0 ELSE k[s \ {Max(s)}] + q[Max(s)].quantity]
        = [s \in SUBSET (1 .. n) |-> IF s = {} THEN 0 ELSE k[s \ {Max(s)}] + w[Max(s)]]
    BY <2>1
  <2> QED
    BY <2>2 DEF LeftSums
<1> HIDE DEF w
<1>6. C(it)
  BY <1>4, <1>5
<1>7. it[1 .. n] = SumIn(v, S)
  <2>1. LeftSums(n, w, it)
    BY <1>5, <1>6
  <2> HIDE DEF it
  <2> QED
    BY <1>4, <2>1
<1> HIDE DEF it
<1>8. TotalQuantity(S) = SumIn(v, S)
  BY <1>2, <1>7
<1>9. SumIn(v, S) \in Int
  BY <1>3, TotalStep
<1>10. ASSUME NEW x, S = {x}
       PROVE  SumIn(v, S) = x.quantity
  <2>1. v[x] = x.quantity /\ v[x] \in Int
    BY <1>10 DEF v
  <2>2. Chosen(S) = x /\ S # {} /\ S \ {x} = {}
    BY <1>10, ChosenIn
  <2>3. SumIn(v, S) = v[x] + SumIn(v, {}) /\ SumIn(v, {}) = 0
    BY <1>3, <2>2, TotalStep
  <2> QED
    BY <2>1, <2>3
<1> QED
  BY <1>8, <1>9, <1>10

(* and what a lot was bought for.                                            *)
LEMMA PaidSum ==
  ASSUME NEW S, IsFiniteSet(S), \A r \in S : r.paid \in Int
  PROVE  /\ TotalPaid(S) \in Int
         /\ \A x : S = {x} => TotalPaid(S) = x.paid
<1> DEFINE n == Cardinality(S)
           q == SetToSeq(S)
           v == [r \in S |-> r.paid]
           w == [i \in 1 .. n |-> q[i].paid]
           C(k) == k = [s \in SUBSET (1 .. n) |-> IF s = {} THEN 0 ELSE
                          k[s \ {Max(s)}] + q[Max(s)].paid]
           it == CHOOSE k : C(k)
<1>1. n \in Nat /\ q \in [1 .. n -> S] /\ DOMAIN q = 1 .. n
  BY SetIsListed
<1>2. TotalPaid(S) = it[1 .. n]
  <2>1. TotalPaid(S)
          = (CHOOSE k : k = [s \in SUBSET DOMAIN q |-> IF s = {} THEN 0 ELSE
                               k[s \ {Max(s)}] + q[Max(s)].paid])[DOMAIN q]
    BY DEF TotalPaid, SumOf, FoldLeft, MapThenFoldSet
  <2> HIDE DEF n, q
  <2> QED
    BY <1>1, <2>1
<1>3. Numbers(v, S) /\ \A i \in 1 .. n : w[i] = v[q[i]]
  <2> HIDE DEF n, q
  <2> QED
    BY <1>1 DEF Numbers
<1> HIDE DEF v
<1>4. (\E k : LeftSums(n, w, k)) /\ \A k : LeftSums(n, w, k) => k[1 .. n] = SumIn(v, S)
  <2> HIDE DEF w
  <2> QED
    BY <1>3, ListedSum
<1> HIDE DEF n, q
<1>5. ASSUME NEW k
      PROVE  C(k) <=> LeftSums(n, w, k)
  <2>1. ASSUME NEW s \in SUBSET (1 .. n), s # {}
        PROVE  k[s \ {Max(s)}] + q[Max(s)].paid = k[s \ {Max(s)}] + w[Max(s)]
    <3>1. Max(s) \in 1 .. n
      BY <1>1, <2>1, LargestExists
    <3> QED
      BY <3>1
  <2>2. [s \in SUBSET (1 .. n) |-> IF s = {} THEN 0 ELSE k[s \ {Max(s)}] + q[Max(s)].paid]
        = [s \in SUBSET (1 .. n) |-> IF s = {} THEN 0 ELSE k[s \ {Max(s)}] + w[Max(s)]]
    BY <2>1
  <2> QED
    BY <2>2 DEF LeftSums
<1> HIDE DEF w
<1>6. C(it)
  BY <1>4, <1>5
<1>7. it[1 .. n] = SumIn(v, S)
  <2>1. LeftSums(n, w, it)
    BY <1>5, <1>6
  <2> HIDE DEF it
  <2> QED
    BY <1>4, <2>1
<1> HIDE DEF it
<1>8. TotalPaid(S) = SumIn(v, S)
  BY <1>2, <1>7
<1>9. SumIn(v, S) \in Int
  BY <1>3, TotalStep
<1>10. ASSUME NEW x, S = {x}
       PROVE  SumIn(v, S) = x.paid
  <2>1. v[x] = x.paid /\ v[x] \in Int
    BY <1>10 DEF v
  <2>2. Chosen(S) = x /\ S # {} /\ S \ {x} = {}
    BY <1>10, ChosenIn
  <2>3. SumIn(v, S) = v[x] + SumIn(v, {}) /\ SumIn(v, {}) = 0
    BY <1>3, <2>2, TotalStep
  <2> QED
    BY <2>1, <2>3
<1> QED
  BY <1>8, <1>9, <1>10

-----------------------------------------------------------------------------
(* What is imported comes back from the lots.                                *)

(* Rows with numbers in them, finitely many.                                 *)
GoodRows(R) ==
  IsFiniteSet(R) /\ \A r \in R : r.quantity \in Int /\ r.value \in Int /\ r.cost \in Int

(* The position that the rows of s make, and its lot.                        *)
PositionMade(R, s) ==
  LET mine == RowsOf(R, s)
  IN [symbol |-> s, quantity |-> TotalQuantity(mine), value |-> TotalValue(mine),
      cost |-> TotalCost(mine),
      average |-> IF TotalCost(mine) > 0 THEN TotalCost(mine) ELSE TotalValue(mine)]
LotMade(R, s) ==
  LET mine == RowsOf(R, s)
  IN [symbol |-> s, quantity |-> TotalQuantity(mine), value |-> TotalValue(mine),
      paid |-> IF TotalCost(mine) > 0 THEN TotalCost(mine) ELSE TotalValue(mine)]

(* Totals of the rows of a symbol are numbers.                               *)
LEMMA TotalsOfRows ==
  ASSUME NEW R, GoodRows(R), NEW s
  PROVE  LET mine == RowsOf(R, s)
         IN TotalQuantity(mine) \in Int /\ TotalValue(mine) \in Int /\ TotalCost(mine) \in Int
<1> DEFINE mine == RowsOf(R, s)
<1>1. IsFiniteSet(mine) /\ \A r \in mine : r.quantity \in Int /\ r.value \in Int /\ r.cost \in Int
  BY FS_Subset DEF GoodRows, RowsOf
<1> HIDE DEF mine
<1>2. TotalQuantity(mine) \in Int /\ TotalValue(mine) \in Int /\ TotalCost(mine) \in Int
  BY <1>1, QuantitySum, ValueSum, CostSum
<1> QED
  BY <1>2 DEF mine

(* One lot for each symbol,                                                  *)
LEMMA LotsMade ==
  ASSUME NEW R, GoodRows(R)
  PROVE  LotsFromAggregatePositions(AggregatePositions(R))
           = {LotMade(R, s) : s \in {r.symbol : r \in R}}
<1> DEFINE Y == {r.symbol : r \in R}
           lot(p) == [symbol |-> p.symbol, quantity |-> p.quantity, value |-> p.value,
                      paid |-> IF p.average # 0 THEN p.average ELSE p.value]
<1>1. AggregatePositions(R) = {PositionMade(R, s) : s \in Y}
  BY DEF AggregatePositions, PositionMade
<1>2. ASSUME NEW s \in Y
      PROVE  lot(PositionMade(R, s)) = LotMade(R, s)
  <2> DEFINE q == TotalQuantity(RowsOf(R, s))
             v == TotalValue(RowsOf(R, s))
             c == TotalCost(RowsOf(R, s))
  <2>1. q \in Int /\ v \in Int /\ c \in Int
    BY TotalsOfRows
  <2>2. /\ PositionMade(R, s) = [symbol |-> s, quantity |-> q, value |-> v, cost |-> c,
                                 average |-> IF c > 0 THEN c ELSE v]
        /\ LotMade(R, s) = [symbol |-> s, quantity |-> q, value |-> v,
                            paid |-> IF c > 0 THEN c ELSE v]
    BY DEF PositionMade, LotMade
  <2> HIDE DEF q, v, c
  <2>3. (IF (IF c > 0 THEN c ELSE v) # 0 THEN (IF c > 0 THEN c ELSE v) ELSE v)
        = (IF c > 0 THEN c ELSE v)
    BY <2>1
  <2> QED
    BY <2>2, <2>3
<1>3. LotsFromAggregatePositions(AggregatePositions(R)) = {lot(p) : p \in AggregatePositions(R)}
  BY DEF LotsFromAggregatePositions
<1> HIDE DEF Y, lot
<1> QED
  BY <1>1, <1>2, <1>3 DEF Y

(* and from that lot the position of the symbol.                             *)
LEMMA LotsKeepTheBooks ==
  ASSUME NEW R, GoodRows(R), NEW s \in {r.symbol : r \in R}
  PROVE  LET rows == RowsOf(R, s)
         IN RowsOf(RebuiltPositions(LotsFromAggregatePositions(AggregatePositions(R))), s)
              = {[symbol |-> s, quantity |-> TotalQuantity(rows), value |-> TotalValue(rows),
                  cost |-> IF TotalCost(rows) > 0 THEN TotalCost(rows) ELSE TotalValue(rows)]}
<1> DEFINE Y == {r.symbol : r \in R}
           L == LotsFromAggregatePositions(AggregatePositions(R))
           made(y) == [symbol |-> y, quantity |-> TotalQuantity(RowsOf(L, y)),
                       value |-> TotalValue(RowsOf(L, y)), cost |-> TotalPaid(RowsOf(L, y))]
           l == LotMade(R, s)
           q == TotalQuantity(RowsOf(R, s))
           v == TotalValue(RowsOf(R, s))
           c == TotalCost(RowsOf(R, s))
<1>1. q \in Int /\ v \in Int /\ c \in Int
  BY TotalsOfRows
<1>2. l = [symbol |-> s, quantity |-> q, value |-> v, paid |-> IF c > 0 THEN c ELSE v]
  BY DEF LotMade
<1>3. L = {LotMade(R, y) : y \in Y}
  BY LotsMade
<1>4. \A y : LotMade(R, y).symbol = y
  BY DEF LotMade
<1>5. RebuiltPositions(L) = {made(y) : y \in {k.symbol : k \in L}}
  BY DEF RebuiltPositions
<1>6. s \in Y
  OBVIOUS
<1>7. \A y : made(y).symbol = y
  OBVIOUS
<1> HIDE DEF q, v, c, l, L, Y, made
<1>8. RowsOf(L, s) = {l}
  BY <1>3, <1>4, <1>6 DEF RowsOf, l
<1>9. {k.symbol : k \in L} = Y
  BY <1>3, <1>4
<1>10. RowsOf(RebuiltPositions(L), s) = {made(s)}
  BY <1>5, <1>6, <1>7, <1>9 DEF RowsOf
<1>11. TotalQuantity({l}) = q /\ TotalValue({l}) = v /\ TotalPaid({l}) = IF c > 0 THEN c ELSE v
  <2> DEFINE S == {l}
  <2>1. /\ IsFiniteSet(S) /\ S = {l}
        /\ \A r \in S : r.quantity \in Int /\ r.value \in Int /\ r.paid \in Int
    <3>1. l.quantity = q /\ l.value = v /\ l.paid = IF c > 0 THEN c ELSE v
      BY <1>2
    <3>2. l.quantity \in Int /\ l.value \in Int /\ l.paid \in Int
      BY <1>1, <3>1
    <3> QED
      BY <3>2, FS_Singleton
  <2> HIDE DEF S
  <2>2. TotalQuantity(S) = l.quantity /\ TotalValue(S) = l.value /\ TotalPaid(S) = l.paid
    BY <2>1, QuantitySum, ValueSum, PaidSum
  <2> QED
    BY <1>2, <2>1, <2>2
<1>12. made(s) = [symbol |-> s, quantity |-> q, value |-> v, cost |-> IF c > 0 THEN c ELSE v]
  BY <1>8, <1>11 DEF made
<1> QED
  BY <1>10, <1>12 DEF L, q, v, c

(* The basis of all coins is the sum of theirs.                              *)
LEMMA BasisSum ==
  ASSUME NEW L, \A a \in Coins : L[a].basis \in Int
  PROVE  TotalBasis(L) = SumIn([a \in Coins |-> L[a].basis], Coins)
<1> DEFINE n == Cardinality(Coins)
           q == SetToSeq(Coins)
           v == [a \in Coins |-> L[a].basis]
           w == [i \in 1 .. n |-> L[q[i]].basis]
           C(k) == k = [s \in SUBSET (1 .. n) |-> IF s = {} THEN 0 ELSE
                          k[s \ {Max(s)}] + L[q[Max(s)]].basis]
           it == CHOOSE k : C(k)
<1>1. n \in Nat /\ q \in [1 .. n -> Coins] /\ DOMAIN q = 1 .. n
  BY CsvCells, SetIsListed
<1>2. TotalBasis(L) = it[1 .. n]
  <2>1. TotalBasis(L)
          = (CHOOSE k : k = [s \in SUBSET DOMAIN q |-> IF s = {} THEN 0 ELSE
                               k[s \ {Max(s)}] + L[q[Max(s)]].basis])[DOMAIN q]
    BY DEF TotalBasis, SumOf, FoldLeft, MapThenFoldSet
  <2> HIDE DEF n, q
  <2> QED
    BY <1>1, <2>1
<1>3. Numbers(v, Coins) /\ \A i \in 1 .. n : w[i] = v[q[i]]
  <2> HIDE DEF n, q
  <2> QED
    BY <1>1 DEF Numbers
<1> HIDE DEF v
<1>4. (\E k : LeftSums(n, w, k)) /\ \A k : LeftSums(n, w, k) => k[1 .. n] = SumIn(v, Coins)
  <2> HIDE DEF w
  <2> QED
    BY CsvCells, <1>3, ListedSum
<1> HIDE DEF n, q
<1>5. ASSUME NEW k
      PROVE  C(k) <=> LeftSums(n, w, k)
  <2>1. ASSUME NEW s \in SUBSET (1 .. n), s # {}
        PROVE  k[s \ {Max(s)}] + L[q[Max(s)]].basis = k[s \ {Max(s)}] + w[Max(s)]
    <3>1. Max(s) \in 1 .. n
      BY <1>1, <2>1, LargestExists
    <3> QED
      BY <3>1
  <2>2. [s \in SUBSET (1 .. n) |-> IF s = {} THEN 0 ELSE k[s \ {Max(s)}] + L[q[Max(s)]].basis]
        = [s \in SUBSET (1 .. n) |-> IF s = {} THEN 0 ELSE k[s \ {Max(s)}] + w[Max(s)]]
    BY <2>1
  <2> QED
    BY <2>2 DEF LeftSums
<1> HIDE DEF w
<1>6. C(it)
  BY <1>4, <1>5
<1>7. it[1 .. n] = SumIn(v, Coins)
  <2>1. LeftSums(n, w, it)
    BY <1>5, <1>6
  <2> HIDE DEF it
  <2> QED
    BY <1>4, <2>1
<1> HIDE DEF it
<1>8. TotalBasis(L) = SumIn(v, Coins)
  BY <1>2, <1>7
<1> QED
  BY <1>8 DEF v

-----------------------------------------------------------------------------
(* Coins and what they cost. A ledger without coins has no basis.            *)

Ledgers == {l \in [quantity : Nat, basis : Nat, latest : Nat] : l.quantity = 0 => l.basis = 0}
CoinBooks == [Coins -> Ledgers]

(* A product of naturals is a natural.                                       *)
LEMMA Times ==
  ASSUME NEW a \in Nat, NEW b \in Nat
  PROVE  a * b \in Nat
  OBVIOUS

(* A share m of q of b, rounded down.                                        *)
LEMMA ShareOf ==
  ASSUME NEW b \in Nat, NEW m \in Nat, NEW q \in Nat, q > 0, m <= q
  PROVE  LET d == (b * m) \div q
         IN  /\ d \in Nat /\ d <= b /\ (m = q => d = b)
             /\ 0 <= b * m - d * q /\ b * m - d * q < q
             /\ ((b * m) % q = 0 => d * q = b * m)
<1> DEFINE x == b * m
           d == x \div q
<1>1. x \in Nat /\ b * (q - m) \in Nat /\ x + b * (q - m) = b * q
  BY Times
<1>2. x <= b * q
  <2> DEFINE y == b * (q - m)
             z == b * q
  <2>1. x \in Nat /\ y \in Nat /\ x + y = z
    BY <1>1
  <2> HIDE DEF x, y, z
  <2>2. x <= z
    BY <2>1
  <2> QED
    BY <2>2 DEF z
<1>3. m = q => x = b * q
  OBVIOUS
<1> HIDE DEF x
<1>4. d \in Nat /\ x = q * d + (x % q) /\ 0 <= x % q /\ x % q < q
  BY <1>1
<1>5. (b * q) \div q = b
  OBVIOUS
<1>6. d <= b
  <2>1. SUFFICES ASSUME d >= b + 1
                 PROVE  FALSE
    BY <1>4
  <2>2. (d - (b + 1)) * q \in Nat
    BY <1>4, <2>1, Times
  <2>3. d * q = (d - (b + 1)) * q + (b * q + q)
    BY <1>4
  <2>4. q * d = d * q /\ d * q \in Nat /\ b * q \in Nat
    BY <1>4, Times
  <2> DEFINE u == d * q
             w == b * q
             t == (d - (b + 1)) * q
             k == x % q
  <2>5. u = t + (w + q) /\ u \in Nat /\ w \in Nat /\ t \in Nat /\ x = u + k /\ x <= w /\ k >= 0
        /\ k \in Int
    BY <1>1, <1>2, <1>4, <2>2, <2>3, <2>4
  <2> HIDE DEF u, w, t, k
  <2> QED
    BY <1>1, <2>5
<1>7. m = q => d = b
  BY <1>3, <1>5
<1>8. 0 <= x - d * q /\ x - d * q < q /\ (x % q = 0 => d * q = x)
  <2>1. q * d = d * q /\ d * q \in Int
    BY <1>4
  <2> DEFINE u == d * q
  <2>2. x = u + (x % q) /\ u \in Int
    BY <1>4, <2>1
  <2> HIDE DEF u, d
  <2>3. 0 <= x - u /\ x - u < q /\ (x % q = 0 => u = x)
    BY <1>1, <1>4, <2>2
  <2> QED
    BY <2>3 DEF u
<1> QED
  BY <1>4, <1>6, <1>7, <1>8 DEF x

(* What a sale of coins leaves: the average cost of the rest is what it was, *)
(* but for the rounding of one division.                                     *)
SaleLeaves(k, l) ==
  LET rest == k.basis * l.quantity - l.basis * k.quantity
  IN /\ rest = 0 \/ (0 < rest /\ rest < l.quantity)
     /\ (l.quantity > 0 => (l.basis * (l.quantity - k.quantity)) % l.quantity = 0) => rest = 0

(* An untouched ledger is one of which nothing was sold.                     *)
LEMMA UntouchedLeaves ==
  ASSUME NEW k \in Ledgers, NEW l \in Ledgers, k.quantity = l.quantity, k.basis = l.basis
  PROVE  SaleLeaves(k, l)
<1>1. k.basis * l.quantity - l.basis * k.quantity = 0
  <2> DEFINE b == l.basis
             q == l.quantity
  <2>1. k.basis = b /\ k.quantity = q /\ b \in Int /\ q \in Int
    BY DEF Ledgers
  <2> HIDE DEF b, q
  <2>2. b * q - b * q = 0
    BY <2>1
  <2> QED
    BY <2>1, <2>2 DEF b, q
<1> QED
  BY <1>1 DEF SaleLeaves

(* _remove_crypto.                                                           *)
LEMMA Removed ==
  ASSUME NEW l \in Ledgers, NEW n \in Nat
  PROVE  LET k == RemoveCrypto(l, n)
             d == RemovedBasis(l, n)
         IN  /\ k \in Ledgers /\ d \in Nat /\ k.basis = l.basis - d
             /\ SaleLeaves(k, l)
<1> DEFINE k == RemoveCrypto(l, n)
           d == RemovedBasis(l, n)
           m == Lesser(n, l.quantity)
           b == l.basis
           q == l.quantity
<1>1. l \in [quantity : Nat, basis : Nat, latest : Nat] /\ b \in Nat /\ q \in Nat
      /\ (q = 0 => b = 0)
  BY DEF Ledgers
<1>2. m \in Nat /\ m <= q
  <2> HIDE DEF b
  <2> QED
    BY <1>1 DEF Lesser
<1>3. k = [l EXCEPT !.quantity = q - m, !.basis = b - d]
  BY DEF RemoveCrypto
<1>4. d = IF q <= 0 THEN 0 ELSE (b * m) \div q
  BY DEF RemovedBasis
<1> HIDE DEF k, d, m, b, q
<1>5. k.quantity = q - m /\ k.basis = b - d
  BY <1>1, <1>3
<1>6. CASE q = 0
  <2>1. m = 0 /\ d = 0 /\ b = 0
    BY <1>1, <1>2, <1>4, <1>6
  <2>2. k \in Ledgers /\ k.quantity = l.quantity /\ k.basis = l.basis
    <3>1. q - m = q /\ b - d = b /\ q \in Nat /\ b \in Nat /\ b = 0
      BY <1>1, <1>6, <2>1
    <3>2. k.quantity = q /\ k.basis = b /\ k.latest = l.latest
      BY <1>1, <1>3, <1>5, <3>1
    <3>3. k \in [quantity : Nat, basis : Nat, latest : Nat]
      BY <1>1, <1>3, <3>1
    <3>4. k \in Ledgers
      BY <3>1, <3>2, <3>3 DEF Ledgers
    <3> QED
      BY <3>2, <3>4 DEF b, q
  <2>3. SaleLeaves(k, l)
    BY <2>2, UntouchedLeaves
  <2> QED
    BY <1>5, <2>1, <2>2, <2>3 DEF k, d, b
<1>7. CASE q # 0
  <2>1. q > 0
    BY <1>1, <1>7
  <2>2. d = (b * m) \div q
    BY <1>1, <1>4, <2>1
  <2>3. /\ d \in Nat /\ d <= b /\ (m = q => d = b)
        /\ 0 <= b * m - d * q /\ b * m - d * q < q
        /\ ((b * m) % q = 0 => d * q = b * m)
    BY <1>1, <1>2, <2>1, <2>2, ShareOf
  <2>4. b - d \in Nat /\ q - m \in Nat /\ (q - m = 0 => b - d = 0)
    BY <1>1, <1>2, <2>3
  <2>5. k \in Ledgers
    BY <1>1, <1>3, <1>5, <2>4 DEF Ledgers
  <2>6. k.basis * q - b * k.quantity = b * m - d * q /\ q - k.quantity = m
    <3>1. (b - d) * q - b * (q - m) = b * m - d * q
      BY <1>1, <1>2, <2>3
    <3>2. q - (q - m) = m
      BY <1>1, <1>2
    <3> QED
      BY <1>5, <3>1, <3>2
  <2>7. b * m - d * q \in Int
    BY <1>1, <1>2, <2>3
  <2> DEFINE rest == b * m - d * q
  <2>8. rest = 0 \/ (0 < rest /\ rest < q)
    <3>1. rest \in Int /\ 0 <= rest /\ rest < q
      BY <2>3, <2>7
    <3> HIDE DEF rest
    <3> QED
      BY <3>1
  <2>9. (b * m) % q = 0 => rest = 0
    BY <1>1, <1>2, <2>3, <2>7
  <2>10. SaleLeaves(k, l)
    <3> HIDE DEF rest
    <3>1. k.basis * q - b * k.quantity = rest
      BY <2>6 DEF rest
    <3> QED
      BY <2>1, <2>6, <2>8, <2>9, <3>1 DEF SaleLeaves, b, q
  <2> QED
    BY <1>5, <2>3, <2>5, <2>10 DEF k, d, b
<1> QED
  BY <1>6, <1>7

(* The rows of coins and the notes of conversions.                           *)
LEMMA CoinCells ==
  ASSUME NEW r \in CoinRows
  PROVE  /\ r.asset \in Coins \cup QuoteCoins
         /\ r.quantity \in Int \cup {Blank} /\ r.total \in Int \cup {Blank}
         /\ r.spot \in Nat \cup {Blank}
         /\ r.notes # Blank => /\ r.notes.from \in Coins /\ r.notes.to \in Coins
                               /\ r.notes.sold \in Nat /\ r.notes.sold > 0
                               /\ r.notes.bought \in Nat /\ r.notes.bought > 0
  BY CsvCells

(* A transaction that is not a conversion.                                   *)
LEMMA Transacted ==
  ASSUME NEW l \in Ledgers, NEW r \in CoinRows, r.quantity \notin {Blank, 0}
  PROVE  /\ Transact(l, r) \in Ledgers
         /\ r.action \in {"sell", "send"} => SaleLeaves(Transact(l, r), l)
<1> DEFINE p == Priced(l, r)
           n == Absolute(r.quantity)
<1>1. n \in Nat /\ n > 0
  <2>1. r.quantity \in Int /\ r.quantity # 0
    BY CoinCells
  <2> QED
    BY <2>1 DEF Absolute
<1>2. p \in Ledgers /\ p.quantity = l.quantity /\ p.basis = l.basis
  BY CoinCells, CsvCells DEF Priced, Ledgers
<1> HIDE DEF p, n
<1>3. CASE r.action \in {"sell", "send"}
  <2>1. Transact(l, r) = RemoveCrypto(p, n)
    BY <1>3 DEF Transact, p, n
  <2>2. RemoveCrypto(p, n) \in Ledgers /\ SaleLeaves(RemoveCrypto(p, n), p)
    BY <1>1, <1>2, Removed
  <2>3. SaleLeaves(RemoveCrypto(p, n), l)
    BY <1>2, <2>2 DEF SaleLeaves
  <2> QED
    BY <2>1, <2>2, <2>3
<1>4. CASE r.action \in {"buy", "reward"}
  <2> DEFINE spot == IF r.spot = Blank THEN 0 ELSE r.spot
             cost == IF r.total \notin {Blank, 0} THEN Absolute(r.total) ELSE n * spot
  <2>1. Transact(l, r) = Acquire(p, r) /\ r.action \notin {"sell", "send"}
    BY <1>4 DEF Transact, p
  <2>2. Acquire(p, r) = [p EXCEPT !.quantity = @ + n, !.basis = @ + cost]
    BY DEF Acquire, n
  <2>3. cost \in Nat
    <3>1. spot \in Nat
      BY CoinCells
    <3>2. n * spot \in Nat
      <4> HIDE DEF spot
      <4> QED
        BY <1>1, <3>1, Times
    <3>3. r.total \notin {Blank, 0} => Absolute(r.total) \in Nat
      BY CoinCells DEF Absolute
    <3> QED
      BY <3>2, <3>3
  <2> HIDE DEF cost
  <2>4. Acquire(p, r) \in Ledgers
    <3>1. p \in [quantity : Nat, basis : Nat, latest : Nat]
      BY <1>2 DEF Ledgers
    <3>2. p.quantity + n \in Nat /\ p.quantity + n # 0 /\ p.basis + cost \in Nat
      BY <1>1, <2>3, <3>1
    <3> QED
      BY <2>2, <3>1, <3>2 DEF Ledgers
  <2> QED
    BY <2>1, <2>4
<1>5. CASE r.action \notin {"sell", "send", "buy", "reward"}
  <2>1. Transact(l, r) = p
    BY <1>5 DEF Transact, p
  <2> QED
    BY <1>2, <1>5, <2>1
<1> QED
  BY <1>3, <1>4, <1>5

(* A conversion takes from one coin the basis that it gives to the other.    *)
LEMMA Converted ==
  ASSUME NEW L \in CoinBooks, NEW n, n.from \in Coins, n.to \in Coins,
         n.sold \in Nat, n.bought \in Nat, n.bought > 0
  PROVE  /\ Convert(L, n) \in CoinBooks
         /\ TotalBasis(Convert(L, n)) = TotalBasis(L)
<1> DEFINE f == n.from
           t == n.to
           d == RemovedBasis(L[f], n.sold)
           k == RemoveCrypto(L[f], n.sold)
           H == [L EXCEPT ![f] = k]
           add(l) == AddConverted(l, n.bought, d)
           M == [H EXCEPT ![t] = add(H[t])]
<1>1. Convert(L, n) = M
  BY DEF Convert
<1>2. L \in [Coins -> Ledgers] /\ f \in Coins /\ t \in Coins
  BY DEF CoinBooks
<1>3. k \in Ledgers /\ d \in Nat /\ k.basis = L[f].basis - d
  BY <1>2, Removed
<1> HIDE DEF f, t, d, k
<1>4. H \in [Coins -> Ledgers] /\ H[f] = k /\ \A a \in Coins \ {f} : H[a] = L[a]
  BY <1>2, <1>3
<1>5. ASSUME NEW l \in Ledgers
      PROVE  add(l) \in Ledgers /\ add(l).basis = l.basis + d
  <2>1. l \in [quantity : Nat, basis : Nat, latest : Nat]
    BY DEF Ledgers
  <2>2. l.quantity + n.bought \in Nat /\ l.quantity + n.bought # 0 /\ l.basis + d \in Nat
    BY <1>3, <2>1
  <2>3. (IF d > 0 THEN d \div n.bought ELSE l.latest) \in Nat
    BY <1>3, <2>1
  <2> QED
    BY <2>1, <2>2, <2>3 DEF Ledgers, AddConverted
<1> HIDE DEF H
<1>6. /\ M \in [Coins -> Ledgers] /\ M[t] = add(H[t])
      /\ \A a \in Coins \ {t} : M[a] = H[a]
  BY <1>2, <1>4, <1>5
<1>7. M[t].basis = H[t].basis + d
  BY <1>2, <1>4, <1>5, <1>6
<1> HIDE DEF M, add
<1> DEFINE u == [a \in Coins |-> L[a].basis]
           v == [a \in Coins |-> H[a].basis]
           w == [a \in Coins |-> M[a].basis]
<1>8. \A l \in Ledgers : l.basis \in Nat
  BY DEF Ledgers
<1>9. Numbers(u, Coins) /\ Numbers(v, Coins) /\ Numbers(w, Coins)
  BY <1>2, <1>4, <1>6, <1>8 DEF Numbers
<1>10. /\ u[f] = L[f].basis /\ v[f] = L[f].basis - d /\ w[t] = v[t] + d
       /\ \A a \in Coins \ {f} : v[a] = u[a]
       /\ \A a \in Coins \ {t} : w[a] = v[a]
  BY <1>2, <1>3, <1>4, <1>6, <1>7
<1>11. TotalBasis(L) = SumIn(u, Coins) /\ TotalBasis(M) = SumIn(w, Coins)
  BY <1>2, <1>6, <1>8, BasisSum
<1> HIDE DEF u, v, w
<1>12. SumIn(v, Coins) = (SumIn(u, Coins) - u[f]) + v[f]
  BY CsvCells, <1>2, <1>9, <1>10, SumChange
<1>13. SumIn(w, Coins) = (SumIn(v, Coins) - v[t]) + w[t]
  BY CsvCells, <1>2, <1>9, <1>10, SumChange
<1>14. SumIn(u, Coins) \in Int /\ u[f] \in Int /\ v[f] \in Int /\ v[t] \in Int
  BY CsvCells, <1>2, <1>9, TotalStep DEF Numbers
<1>15. SumIn(w, Coins) = SumIn(u, Coins)
  <2> DEFINE x == SumIn(u, Coins)
             y == SumIn(v, Coins)
  <2>1. y = (x - u[f]) + v[f] /\ SumIn(w, Coins) = (y - v[t]) + w[t] /\ x \in Int
    BY <1>12, <1>13, <1>14
  <2> HIDE DEF x, y
  <2>2. v[f] = u[f] - d
    BY <1>10
  <2>3. SumIn(w, Coins) = x
    BY <1>3, <1>10, <1>14, <2>1, <2>2
  <2> QED
    BY <2>3 DEF x
<1> QED
  BY <1>1, <1>6, <1>11, <1>15 DEF CoinBooks

(* One row.                                                                  *)
LEMMA RecordAdded ==
  ASSUME NEW L \in CoinBooks, NEW r \in CoinRows
  PROVE  LET M == AddRecord(L, r)
         IN  /\ M \in CoinBooks
             /\ r.action = "convert" => TotalBasis(M) = TotalBasis(L)
             /\ r.action \in {"sell", "send"} => \A a \in Coins : SaleLeaves(M[a], L[a])
<1> DEFINE M == AddRecord(L, r)
<1>0. L \in [Coins -> Ledgers]
  BY DEF CoinBooks
<1>1. ASSUME M = L
      PROVE  \A a \in Coins : SaleLeaves(M[a], L[a])
  BY <1>0, <1>1, UntouchedLeaves
<1>2. CASE r.action = "convert" /\ r.notes = Blank
  <2>1. M = L
    BY <1>2 DEF AddRecord
  <2> QED
    BY <1>1, <2>1
<1>3. CASE r.action = "convert" /\ r.notes # Blank
  <2>1. M = Convert(L, r.notes) /\ r.action \notin {"sell", "send"}
    BY <1>3 DEF AddRecord
  <2> DEFINE n == r.notes
  <2>2. n.from \in Coins /\ n.to \in Coins /\ n.sold \in Nat /\ n.bought \in Nat /\ n.bought > 0
    BY <1>3, CoinCells
  <2> HIDE DEF n, M
  <2>3. Convert(L, n) \in CoinBooks /\ TotalBasis(Convert(L, n)) = TotalBasis(L)
    BY <2>2, Converted
  <2> QED
    BY <2>1, <2>3 DEF M, n
<1>4. CASE r.action # "convert" /\ (r.asset \in QuoteCoins \/ r.quantity \in {Blank, 0})
  <2>1. M = L
    BY <1>4 DEF AddRecord
  <2> QED
    BY <1>1, <1>4, <2>1
<1>5. CASE r.action # "convert" /\ ~(r.asset \in QuoteCoins \/ r.quantity \in {Blank, 0})
  <2> DEFINE x == r.asset
             k == Transact(L[x], r)
  <2>1. M = [L EXCEPT ![x] = k]
    BY <1>5 DEF AddRecord, CoinBooks
  <2>2. x \in Coins /\ L[x] \in Ledgers
    BY <1>0, <1>5, CoinCells
  <2>3. k \in Ledgers /\ (r.action \in {"sell", "send"} => SaleLeaves(k, L[x]))
    BY <1>5, <2>2, Transacted
  <2> HIDE DEF k, M, x
  <2>4. M \in [Coins -> Ledgers] /\ M[x] = k /\ \A a \in Coins \ {x} : M[a] = L[a]
    BY <1>0, <2>1, <2>2, <2>3
  <2>5. \A a \in Coins \ {x} : SaleLeaves(M[a], L[a])
    BY <1>0, <2>4, UntouchedLeaves
  <2> QED
    BY <1>5, <2>3, <2>4, <2>5 DEF CoinBooks, M
<1> QED
  BY <1>2, <1>3, <1>4, <1>5

-----------------------------------------------------------------------------
(* A file is read row by row: CoinLedgers adds the rows up, first to last.   *)

NoCoins == [a \in Coins |-> EmptyLedger]
Loop(rows, F) == F[0] = NoCoins /\ \A k \in 1 .. Len(rows) : F[k] = AddRecord(F[k - 1], rows[k])

(* Nothing read, nothing held.                                               *)
LEMMA NoCoinsBook == NoCoins \in CoinBooks
  BY DEF NoCoins, CoinBooks, Ledgers, EmptyLedger

(* The fold over the rows is such a loop.                                    *)
LEMMA RowsLoop ==
  ASSUME NEW rows \in Seq(CoinRows)
  PROVE  \E F : Loop(rows, F) /\ CoinLedgers(rows) = F[Len(rows)]
<1> DEFINE n == Len(rows)
           st == [p \in CoinBooks \X (1 .. n) |-> AddRecord(p[1], rows[p[2]])]
           C(k) == k = [s \in SUBSET (1 .. n) |-> IF s = {} THEN NoCoins ELSE
                          AddRecord(k[s \ {Max(s)}], rows[Max(s)])]
           it == CHOOSE k : C(k)
<1>1. n \in Nat /\ rows \in [1 .. n -> CoinRows] /\ DOMAIN rows = 1 .. n
  BY LenProperties
<1>2. CoinLedgers(rows) = it[1 .. n]
  <2>1. CoinLedgers(rows)
          = (CHOOSE k : k = [s \in SUBSET DOMAIN rows |-> IF s = {} THEN NoCoins ELSE
                               AddRecord(k[s \ {Max(s)}], rows[Max(s)])])[DOMAIN rows]
    BY DEF CoinLedgers, FoldLeft, MapThenFoldSet, NoCoins
  <2> HIDE DEF n
  <2> QED
    BY <1>1, <2>1
<1> HIDE DEF n
<1>3. PICK g : LeftFold(n, CoinBooks, NoCoins, st, g)
  <2>1. Steps(1 .. n, CoinBooks, st)
    BY <1>1, RecordAdded DEF Steps
  <2> HIDE DEF st
  <2> QED
    BY <1>1, NoCoinsBook, <2>1, LeftFoldExists
<1>4. C(g)
  <2>1. ASSUME NEW s \in SUBSET (1 .. n), s # {}
        PROVE  st[<<g[s \ {Max(s)}], Max(s)>>] = AddRecord(g[s \ {Max(s)}], rows[Max(s)])
    <3>1. Max(s) \in 1 .. n
      BY <1>1, <2>1, LargestExists
    <3> QED
      BY <1>3, <3>1 DEF LeftFold
  <2>2. [s \in SUBSET (1 .. n) |-> IF s = {} THEN NoCoins ELSE st[<<g[s \ {Max(s)}], Max(s)>>]]
        = [s \in SUBSET (1 .. n) |-> IF s = {} THEN NoCoins ELSE
                            AddRecord(g[s \ {Max(s)}], rows[Max(s)])]
    BY <2>1
  <2> QED
    BY <1>3, <2>2 DEF LeftFold
<1>5. C(it)
  BY <1>4
<1> DEFINE F == [k \in 0 .. n |-> it[1 .. k]]
<1>6. F[0] = NoCoins
  <2>1. 0 \in 0 .. n /\ 1 .. 0 = {} /\ {} \in SUBSET (1 .. n)
    BY <1>1
  <2> HIDE DEF it
  <2> QED
    BY <1>5, <2>1
<1>7. ASSUME NEW k \in 1 .. n
      PROVE  F[k] = AddRecord(F[k - 1], rows[k])
  <2>1. k \in Nat /\ k # 0 /\ k \in 0 .. n /\ k - 1 \in 0 .. n
    BY <1>1
  <2>2. it[1 .. k] = AddRecord(it[(1 .. k) \ {Max(1 .. k)}], rows[Max(1 .. k)])
    <3>1. 1 .. k \in SUBSET (1 .. n) /\ 1 .. k # {}
      <4>1. k \in 1 .. k /\ k <= n
        BY <1>1, <2>1
      <4>2. \A i \in 1 .. k : i \in 1 .. n
        BY <1>1, <2>1, <4>1
      <4> QED
        BY <4>1, <4>2
    <3> HIDE DEF it
    <3> QED
      BY <1>5, <3>1
  <2>3. it[1 .. k] = AddRecord(it[1 .. (k - 1)], rows[k])
    BY <2>1, <2>2, LargestUpTo
  <2> HIDE DEF it
  <2> QED
    BY <2>1, <2>3
<1>8. F[n] = CoinLedgers(rows)
  BY <1>1, <1>2
<1> HIDE DEF F
<1>9. Loop(rows, F) /\ CoinLedgers(rows) = F[Len(rows)]
  BY <1>6, <1>7, <1>8 DEF Loop, n
<1> QED
  BY <1>9

(* Loops over the same first m rows are the same so far, and hold books.     *)
LEMMA LoopsAgree ==
  ASSUME NEW p \in Seq(CoinRows), NEW q \in Seq(CoinRows), NEW m \in Nat,
         m <= Len(p), m <= Len(q), \A k \in 1 .. m : p[k] = q[k],
         NEW F, Loop(p, F), NEW G, Loop(q, G)
  PROVE  F[m] \in CoinBooks /\ F[m] = G[m]
<1> DEFINE P == {k \in Nat : k <= m => F[k] \in CoinBooks /\ F[k] = G[k]}
<1>0. Len(p) \in Nat /\ Len(q) \in Nat /\ \A k \in 1 .. Len(p) : p[k] \in CoinRows
  BY LenProperties
<1>1. 0 \in P
  BY NoCoinsBook DEF Loop
<1>2. ASSUME NEW k \in P
      PROVE  k + 1 \in P
  <2>1. CASE k + 1 <= m
    <3>1. /\ k + 1 \in 1 .. m /\ k + 1 \in 1 .. Len(p) /\ k + 1 \in 1 .. Len(q)
          /\ (k + 1) - 1 = k /\ k <= m
      BY <1>0, <2>1
    <3>2. F[k] \in CoinBooks /\ F[k] = G[k]
      BY <3>1
    <3> DEFINE j == k + 1
    <3>3. F[j] = AddRecord(F[k], p[j]) /\ G[j] = AddRecord(G[k], q[j]) /\ p[j] = q[j]
      BY <3>1 DEF Loop
    <3>4. p[j] \in CoinRows
      BY <1>0, <3>1
    <3> HIDE DEF j
    <3>5. F[j] \in CoinBooks /\ F[j] = G[j]
      BY <3>2, <3>3, <3>4, RecordAdded
    <3> QED
      BY <3>5 DEF j
  <2> QED
    BY <2>1
<1>3. P = Nat
  <2> HIDE DEF P
  <2>1. P \in SUBSET Nat
    BY DEF P
  <2> QED
    BY <1>1, <1>2, <2>1, Counting
<1> QED
  BY <1>3

(* Reading a file without its last row, and then that row, reads the file.   *)
LEMMA LastRow ==
  ASSUME NEW rows \in Seq(CoinRows), rows # <<>>
  PROVE  /\ CoinLedgers(Front(rows)) \in CoinBooks /\ Last(rows) \in CoinRows
         /\ CoinLedgers(rows) = AddRecord(CoinLedgers(Front(rows)), Last(rows))
<1> DEFINE n == Len(rows)
           front == Front(rows)
<1>1. n \in Nat /\ n # 0 /\ \A k \in 1 .. n : rows[k] \in CoinRows
  BY EmptySeq, LenProperties
<1>2. n \in 1 .. n /\ n - 1 \in Nat /\ n - 1 <= n /\ rows[n] \in CoinRows
  BY <1>1
<1>3. /\ front \in Seq(CoinRows) /\ Len(front) = n - 1
      /\ \A k \in 1 .. n - 1 : front[k] = rows[k]
  <2>1. /\ SubSeq(rows, 1, n - 1) \in Seq(CoinRows)
        /\ Len(SubSeq(rows, 1, n - 1)) = n - 1
        /\ \A i \in 1 .. n - 1 : SubSeq(rows, 1, n - 1)[i] = rows[i]
    <3> DEFINE m == n - 1
    <3>1. m \in Int /\ 1 \in Int /\ \A i \in 1 .. m : rows[i] \in CoinRows
      BY <1>1
    <3>2. m \in Nat
      BY <1>1
    <3> HIDE DEF m, n
    <3>3. /\ (IF 1 <= m THEN m - 1 + 1 ELSE 0) = m /\ m - 1 + 1 = m
          /\ \A i \in 1 .. m : 1 + i - 1 = i
      <4>1. (IF 1 <= m THEN m - 1 + 1 ELSE 0) = m /\ m - 1 + 1 = m
        BY <3>2
      <4>2. \A i \in 1 .. m : 1 + i - 1 = i
        BY <3>2
      <4> QED
        BY <4>1, <4>2
    <3>4. /\ SubSeq(rows, 1, m) \in Seq(CoinRows)
          /\ Len(SubSeq(rows, 1, m)) = IF 1 <= m THEN m - 1 + 1 ELSE 0
          /\ \A i \in 1 .. m - 1 + 1 : SubSeq(rows, 1, m)[i] = rows[1 + i - 1]
      BY <3>1, SubSeqProperties
    <3>5. /\ SubSeq(rows, 1, m) \in Seq(CoinRows) /\ Len(SubSeq(rows, 1, m)) = m
          /\ \A i \in 1 .. m : SubSeq(rows, 1, m)[i] = rows[i]
      BY <3>3, <3>4
    <3> QED
      BY <3>5 DEF m
  <2> QED
    BY <2>1 DEF Front
<1>4. PICK F : Loop(rows, F) /\ CoinLedgers(rows) = F[n]
  BY RowsLoop
<1>5. PICK G : Loop(front, G) /\ CoinLedgers(front) = G[n - 1]
  <2>1. \E G : Loop(front, G) /\ CoinLedgers(front) = G[Len(front)]
    <3> HIDE DEF front
    <3> QED
      BY <1>3, RowsLoop
  <2> QED
    BY <1>3, <2>1
<1>6. F[n] = AddRecord(F[n - 1], rows[n])
  BY <1>2, <1>4 DEF Loop
<1> DEFINE m == n - 1
<1>7. G[m] \in CoinBooks /\ G[m] = F[m]
  <2>1. /\ m \in Nat /\ m <= Len(front) /\ m <= Len(rows)
        /\ \A k \in 1 .. m : rows[k] = front[k]
    BY <1>1, <1>2, <1>3
  <2>2. Loop(rows, F) /\ Loop(front, G) /\ front \in Seq(CoinRows)
    BY <1>3, <1>4, <1>5
  <2> HIDE DEF m, n, front
  <2>3. F[m] \in CoinBooks /\ F[m] = G[m]
    BY <2>1, <2>2, LoopsAgree
  <2> QED
    BY <2>3
<1> QED
  BY <1>2, <1>4, <1>5, <1>6, <1>7 DEF Last

(* Whatever is read, the ledgers are books.                                  *)
LEMMA LedgersRead ==
  ASSUME NEW rows \in Seq(CoinRows)
  PROVE  CoinLedgers(rows) \in CoinBooks
<1>1. PICK F : Loop(rows, F) /\ CoinLedgers(rows) = F[Len(rows)]
  BY RowsLoop
<1>2. Len(rows) \in Nat /\ Len(rows) <= Len(rows)
  BY LenProperties
<1> DEFINE n == Len(rows)
<1>3. n \in Nat /\ n <= Len(rows)
  BY <1>2
<1> HIDE DEF n
<1>4. F[n] \in CoinBooks
  BY <1>1, <1>3, LoopsAgree
<1> QED
  BY <1>1, <1>4 DEF n

-----------------------------------------------------------------------------
(* The rows of either kind of file are good.                                 *)

(* A product of numbers is a number.                                         *)
LEMMA WholeProduct ==
  ASSUME NEW a \in Int, NEW b \in Int
  PROVE  a * b \in Int
  OBVIOUS

(* The value and the cost of a row of positions.                             *)
LEMMA PositionCells ==
  ASSUME NEW r \in PositionRecords, Positive(r.quantity)
  PROVE  r.quantity \in Int /\ ValueOf(r) \in Int /\ CostOf(r) \in Int
<1> DEFINE price == Cell(r, "price")
           value == Cell(r, "value")
           cost == Cell(r, "cost")
           average == Cell(r, "average")
           q == r.quantity
           N == Int \cup {Blank}
<1>1. price \in N /\ value \in N /\ cost \in N /\ average \in N
  BY CsvCells DEF Cell
<1>2. q \in Int
  BY CsvCells DEF Positive
<1>3. ValueOf(r) = IF Positive(price) THEN q * price
                   ELSE IF value \notin {Blank, 0} THEN Absolute(value)
                   ELSE IF average # Blank THEN q * Absolute(average) ELSE 0
  BY DEF ValueOf
<1>4. CostOf(r) = IF cost # Blank /\ cost >= 0 THEN cost
                  ELSE IF Positive(average) THEN q * average ELSE ValueOf(r)
  BY DEF CostOf
<1> HIDE DEF price, value, cost, average, q
<1>5. \A x \in N : x # Blank => x \in Int /\ Absolute(x) \in Int
  BY DEF Absolute
<1>6. ValueOf(r) \in Int
  <2>1. Positive(price) => q * price \in Int
    BY <1>1, <1>2, <1>5, WholeProduct DEF Positive
  <2>2. value \notin {Blank, 0} => Absolute(value) \in Int
    BY <1>1, <1>5
  <2>3. average # Blank => q * Absolute(average) \in Int
    BY <1>1, <1>2, <1>5, WholeProduct
  <2> QED
    BY <1>3, <2>1, <2>2, <2>3
<1>7. CostOf(r) \in Int
  <2>1. Positive(average) => q * average \in Int
    BY <1>1, <1>2, <1>5, WholeProduct DEF Positive
  <2>2. cost # Blank => cost \in Int
    BY <1>1, <1>5
  <2> QED
    BY <1>4, <1>6, <2>1, <2>2
<1> QED
  BY <1>2, <1>6, <1>7 DEF q

(* A table of positions.                                                     *)
LEMMA PositionsGood ==
  ASSUME NEW rows \in Seq(PositionRecords)
  PROVE  GoodRows(ParsePositions(rows))
<1> DEFINE used == {m \in DOMAIN rows : /\ rows[m].symbol # "" /\ Positive(rows[m].quantity)
                                        /\ ValueOf(rows[m]) > 0}
           f(n) == Row(rows[n].symbol, rows[n].quantity, ValueOf(rows[n]), CostOf(rows[n]), n)
           h == [n \in used |-> f(n)]
<1>1. ParsePositions(rows) = {f(n) : n \in used}
  BY DEF ParsePositions
<1>2. IsFiniteSet(used)
  <2> DEFINE len == Len(rows)
  <2>1. len \in Nat /\ DOMAIN rows = 1 .. len
    BY LenProperties
  <2> HIDE DEF len
  <2>2. IsFiniteSet(1 .. len)
    <3>1. 1 \in Int /\ len \in Int
      BY <2>1
    <3> QED
      BY <3>1, FS_Interval
  <2> QED
    BY <2>1, <2>2, FS_Subset
<1>3. ASSUME NEW n \in used
      PROVE  f(n).quantity \in Int /\ f(n).value \in Int /\ f(n).cost \in Int
  <2> DEFINE r == rows[n]
  <2>1. r \in PositionRecords /\ Positive(r.quantity)
    BY LenProperties
  <2> HIDE DEF r
  <2>2. r.quantity \in Int /\ ValueOf(r) \in Int /\ CostOf(r) \in Int
    BY <2>1, PositionCells
  <2> QED
    BY <2>2 DEF Row, r
<1> HIDE DEF used, f
<1>4. {f(n) : n \in used} = {h[n] : n \in used}
  OBVIOUS
<1> HIDE DEF h
<1>5. IsFiniteSet({h[n] : n \in used})
  BY <1>2, ImageFinite
<1> QED
  BY <1>1, <1>3, <1>4, <1>5 DEF GoodRows

(* A history of transactions.                                                *)
LEMMA CoinbaseGood ==
  ASSUME NEW rows \in Seq(CoinRows)
  PROVE  GoodRows(ParseCoinbase(rows))
<1> DEFINE L == CoinLedgers(rows)
           valueOf(l) == IF l.latest # 0 THEN l.quantity * l.latest ELSE l.basis
           kept == {a \in Coins : L[a].quantity > 0 /\ valueOf(L[a]) > 0}
           f(a) == Row(a, L[a].quantity, valueOf(L[a]), L[a].basis, 1)
           h == [a \in kept |-> f(a)]
<1>1. ParseCoinbase(rows) = {f(a) : a \in kept}
  BY DEF ParseCoinbase
<1>2. IsFiniteSet(kept) /\ kept \subseteq Coins
  BY CsvCells, FS_Subset
<1>3. ASSUME NEW l \in Ledgers
      PROVE  l.quantity \in Int /\ l.basis \in Int /\ valueOf(l) \in Int
  <2>1. l.quantity \in Int /\ l.basis \in Int /\ l.latest \in Int
    BY DEF Ledgers
  <2>2. l.quantity * l.latest \in Int
    BY <2>1, WholeProduct
  <2> QED
    BY <2>1, <2>2
<1>4. \A a \in Coins : L[a] \in Ledgers
  BY LedgersRead DEF CoinBooks
<1> HIDE DEF kept, L, valueOf
<1>5. ASSUME NEW a \in kept
      PROVE  f(a).quantity \in Int /\ f(a).value \in Int /\ f(a).cost \in Int
  BY <1>2, <1>3, <1>4 DEF Row
<1> HIDE DEF f
<1>6. {f(a) : a \in kept} = {h[a] : a \in kept}
  OBVIOUS
<1> HIDE DEF h
<1>7. IsFiniteSet({h[a] : a \in kept})
  BY <1>2, ImageFinite
<1> QED
  BY <1>1, <1>5, <1>6, <1>7 DEF GoodRows

-----------------------------------------------------------------------------
(* The inductive invariant: the rows are of the kind that the columns say,   *)
(* and an upload that was accepted left what these rows give.                *)
TypedRecords == records \in Seq(IF IsCoinbase THEN CoinRows ELSE PositionRecords)
Uploaded ==
  upload.status = 200 =>
    upload.positions = RebuiltPositions(LotsFromAggregatePositions(AggregatePositions(Parsed)))
CsvInv == TypedRecords /\ Uploaded

(* It holds at first and every step keeps it.                                *)
LEMMA CsvInvHolds == CsvSpec => []CsvInv
<1>1. CsvInit => CsvInv
  BY DEF CsvInit, CsvInv, TypedRecords, Uploaded, NotUploaded
<1>2. CsvInv /\ [CsvNext]_csvVars => CsvInv'
  <2> SUFFICES ASSUME CsvInv, [CsvNext]_csvVars
               PROVE  CsvInv'
    OBVIOUS
  <2>1. CASE UploadCsv
    <3>1. columns' = columns /\ records' = records
      BY <2>1 DEF UploadCsv
    <3>2. (IsCoinbase' <=> IsCoinbase) /\ Parsed' = Parsed
      BY <3>1 DEF IsCoinbase, Parsed, ParseCoinbase, ParsePositions, ValueOf, CostOf, Cell
    <3>3. TypedRecords'
      BY <3>1, <3>2 DEF CsvInv, TypedRecords
    <3>4. Uploaded'
      <4> DEFINE imported == AggregatePositions(Parsed)
                 kept == RebuiltPositions(LotsFromAggregatePositions(imported))
      <4>1. upload' = IF ~(IsCoinbase \/ IsPositions) \/ imported = {} THEN [status |-> 400]
                      ELSE [status |-> 200, positions |-> kept]
        BY <2>1 DEF UploadCsv
      <4> HIDE DEF kept
      <4>2. upload'.status = 200 => upload'.positions = kept
        BY <4>1
      <4> QED
        BY <3>2, <4>2 DEF Uploaded, kept
    <3> QED
      BY <3>3, <3>4 DEF CsvInv
  <2>2. CASE AnotherRow
    <3>1. upload' = upload /\ upload = NotUploaded /\ columns' = columns
      BY <2>2 DEF AnotherRow
    <3>2. IsCoinbase' <=> IsCoinbase
      BY <3>1 DEF IsCoinbase
    <3>3. TypedRecords'
      <4>1. CASE IsCoinbase
        <5>1. PICK r \in CoinRows : records' = Append(records, r)
          BY <2>2, <4>1 DEF AnotherRow
        <5> QED
          BY <3>2, <4>1, <5>1 DEF CsvInv, TypedRecords
      <4>2. CASE ~IsCoinbase
        <5>1. PICK r \in PositionRecords : records' = Append(records, r)
          BY <2>2, <4>2 DEF AnotherRow
        <5> QED
          BY <3>2, <4>2, <5>1 DEF CsvInv, TypedRecords
      <4> QED
        BY <4>1, <4>2
    <3>4. Uploaded'
      BY <3>1 DEF Uploaded, NotUploaded
    <3> QED
      BY <3>3, <3>4 DEF CsvInv
  <2>3. CASE UNCHANGED csvVars
    <3>1. columns' = columns /\ records' = records /\ upload' = upload
      BY <2>3 DEF csvVars
    <3>2. (IsCoinbase' <=> IsCoinbase) /\ Parsed' = Parsed
      BY <3>1 DEF IsCoinbase, Parsed, ParseCoinbase, ParsePositions, ValueOf, CostOf, Cell
    <3> QED
      BY <3>1, <3>2 DEF CsvInv, TypedRecords, Uploaded
  <2> QED
    BY <2>1, <2>2, <2>3 DEF CsvNext
<1> QED
  BY <1>1, <1>2, PTL DEF CsvSpec

-----------------------------------------------------------------------------
(* What is proved.                                                           *)

(* ImportKeepsTheBooks, for files of any length: an accepted upload leaves   *)
(* of each imported symbol one position with the summed quantity, value and  *)
(* cost basis of its rows, whatever the way through the lots                 *)
(* (upload_positions_csv, create_lots_from_aggregate_positions,              *)
(* rebuild_portfolio_positions).                                             *)
THEOREM ImportKept == CsvSpec => []ImportKeepsTheBooks
<1>1. CsvInv => ImportKeepsTheBooks
  <2> SUFFICES ASSUME CsvInv, upload.status = 200, NEW s \in {r.symbol : r \in Parsed}
               PROVE  LET rows == RowsOf(Parsed, s)
                      IN RowsOf(upload.positions, s)
                           = {[symbol |-> s, quantity |-> TotalQuantity(rows),
                               value |-> TotalValue(rows),
                               cost |-> IF TotalCost(rows) > 0 THEN TotalCost(rows)
                                        ELSE TotalValue(rows)]}
    BY DEF ImportKeepsTheBooks
  <2>1. GoodRows(Parsed)
    BY CoinbaseGood, PositionsGood DEF CsvInv, TypedRecords, Parsed
  <2>2. upload.positions
          = RebuiltPositions(LotsFromAggregatePositions(AggregatePositions(Parsed)))
    BY DEF CsvInv, Uploaded
  <2> DEFINE R == Parsed
  <2>3. GoodRows(R) /\ s \in {r.symbol : r \in R}
    BY <2>1
  <2> HIDE DEF R
  <2>4. LET rows == RowsOf(R, s)
        IN RowsOf(RebuiltPositions(LotsFromAggregatePositions(AggregatePositions(R))), s)
             = {[symbol |-> s, quantity |-> TotalQuantity(rows), value |-> TotalValue(rows),
                 cost |-> IF TotalCost(rows) > 0 THEN TotalCost(rows) ELSE TotalValue(rows)]}
    BY <2>3, LotsKeepTheBooks
  <2> QED
    BY <2>2, <2>4 DEF R
<1> QED
  BY <1>1, CsvInvHolds, PTL

(* What the last row of a history did to the coins (_remove_crypto): nobody  *)
(* has a negative quantity or basis, or a basis without coins; a conversion  *)
(* moves basis and makes none; and a sale leaves the average cost of the     *)
(* rest, but for the rounding of its one division. The last is in integers   *)
(* what the floating-point code does up to its own rounding.                 *)
BasisWithinOne ==
  IsCoinbase /\ records # <<>> =>
    LET before == CoinLedgers(Front(records))
        after == CoinLedgers(records)
        r == Last(records)
    IN /\ \A a \in Coins : /\ after[a].quantity >= 0 /\ after[a].basis >= 0
                           /\ after[a].quantity = 0 => after[a].basis = 0
       /\ r.action = "convert" => TotalBasis(after) = TotalBasis(before)
       /\ r.action \in {"sell", "send"} =>
            \A a \in Coins :
              LET rest == after[a].basis * before[a].quantity
                            - before[a].basis * after[a].quantity
              IN rest = 0 \/ (0 < rest /\ rest < before[a].quantity)

(* The division by which the last row takes its share of the basis comes out *)
(* even.                                                                     *)
NothingRounded ==
  IsCoinbase /\ records # <<>> /\ Last(records).action \in {"sell", "send"} =>
    LET before == CoinLedgers(Front(records))
        after == CoinLedgers(records)
    IN \A a \in Coins :
         before[a].quantity > 0 =>
           (before[a].basis * (before[a].quantity - after[a].quantity)) % before[a].quantity = 0

(* What a row does, in one place.                                            *)
LEMMA RowsAccountFor ==
  ASSUME TypedRecords, IsCoinbase, records # <<>>
  PROVE  LET before == CoinLedgers(Front(records))
             after == CoinLedgers(records)
             r == Last(records)
         IN /\ before \in CoinBooks /\ after \in CoinBooks
            /\ r.action = "convert" => TotalBasis(after) = TotalBasis(before)
            /\ r.action \in {"sell", "send"} =>
                 \A a \in Coins : SaleLeaves(after[a], before[a])
<1> DEFINE before == CoinLedgers(Front(records))
           after == CoinLedgers(records)
           r == Last(records)
<1>1. records \in Seq(CoinRows)
  BY DEF TypedRecords
<1>2. before \in CoinBooks /\ r \in CoinRows /\ after = AddRecord(before, r)
  BY <1>1, LastRow
<1> HIDE DEF before, after, r
<1>3. /\ after \in CoinBooks
      /\ r.action = "convert" => TotalBasis(after) = TotalBasis(before)
      /\ r.action \in {"sell", "send"} => \A a \in Coins : SaleLeaves(after[a], before[a])
  BY <1>2, RecordAdded
<1> QED
  BY <1>2, <1>3 DEF before, after, r

(* Ledgers are never overdrawn and hold no basis without coins.              *)
LEMMA NeverOverdrawn ==
  ASSUME NEW L \in CoinBooks, NEW a \in Coins
  PROVE  L[a].quantity >= 0 /\ L[a].basis >= 0 /\ (L[a].quantity = 0 => L[a].basis = 0)
<1>1. L[a] \in Ledgers
  BY DEF CoinBooks
<1> QED
  BY <1>1 DEF Ledgers

(* Basis goes where the coins go, in every history the assumption admits, to *)
(* within the rounding of one division.                                      *)
THEOREM BasisRounded == CsvSpec => []BasisWithinOne
<1>1. CsvInv => BasisWithinOne
  <2> SUFFICES ASSUME CsvInv, IsCoinbase, records # <<>>
               PROVE  BasisWithinOne
    BY DEF BasisWithinOne
  <2>1. TypedRecords
    BY DEF CsvInv
  <2> DEFINE before == CoinLedgers(Front(records))
             after == CoinLedgers(records)
             r == Last(records)
  <2>2. /\ before \in CoinBooks /\ after \in CoinBooks
        /\ r.action = "convert" => TotalBasis(after) = TotalBasis(before)
        /\ r.action \in {"sell", "send"} => \A a \in Coins : SaleLeaves(after[a], before[a])
    BY <2>1, RowsAccountFor
  <2> HIDE DEF before, after, r
  <2>3. \A a \in Coins : /\ after[a].quantity >= 0 /\ after[a].basis >= 0
                         /\ after[a].quantity = 0 => after[a].basis = 0
    BY <2>2, NeverOverdrawn
  <2>4. r.action \in {"sell", "send"} =>
          \A a \in Coins :
            LET rest == after[a].basis * before[a].quantity
                          - before[a].basis * after[a].quantity
            IN rest = 0 \/ (0 < rest /\ rest < before[a].quantity)
    BY <2>2 DEF SaleLeaves
  <2> QED
    BY <2>2, <2>3, <2>4 DEF BasisWithinOne, before, after, r
<1> QED
  BY <1>1, CsvInvHolds, PTL

(* BasisFollowsCoins, wherever the division comes out even: it divides       *)
(* floating-point numbers in the code and integers in the model, and nothing *)
(* but the remainder separates the two.                                      *)
THEOREM BasisFollows == CsvSpec => [](NothingRounded => BasisFollowsCoins)
<1>1. CsvInv => (NothingRounded => BasisFollowsCoins)
  <2> SUFFICES ASSUME CsvInv, NothingRounded, IsCoinbase, records # <<>>
               PROVE  BasisFollowsCoins
    BY DEF BasisFollowsCoins
  <2>1. TypedRecords
    BY DEF CsvInv
  <2> DEFINE before == CoinLedgers(Front(records))
             after == CoinLedgers(records)
             r == Last(records)
  <2>2. /\ before \in CoinBooks /\ after \in CoinBooks
        /\ r.action = "convert" => TotalBasis(after) = TotalBasis(before)
        /\ r.action \in {"sell", "send"} => \A a \in Coins : SaleLeaves(after[a], before[a])
    BY <2>1, RowsAccountFor
  <2>3. r.action \in {"sell", "send"} =>
          \A a \in Coins :
            before[a].quantity > 0 =>
              (before[a].basis * (before[a].quantity - after[a].quantity)) % before[a].quantity = 0
    BY DEF NothingRounded
  <2> HIDE DEF before, after, r
  <2>4. \A a \in Coins : /\ after[a].quantity >= 0 /\ after[a].basis >= 0
                         /\ after[a].quantity = 0 => after[a].basis = 0
    BY <2>2, NeverOverdrawn
  <2>5. ASSUME r.action \in {"sell", "send"}, NEW a \in Coins
        PROVE  after[a].basis * before[a].quantity = before[a].basis * after[a].quantity
    <3> DEFINE k == after[a]
               l == before[a]
               x == k.basis * l.quantity
               y == l.basis * k.quantity
    <3>1. x - y = 0
      BY <2>2, <2>3, <2>5 DEF SaleLeaves
    <3>2. x \in Int /\ y \in Int
      <4>1. k \in Ledgers /\ l \in Ledgers
        BY <2>2 DEF CoinBooks
      <4> HIDE DEF k, l
      <4>2. k.basis \in Int /\ l.basis \in Int /\ k.quantity \in Int /\ l.quantity \in Int
        BY <4>1 DEF Ledgers
      <4> QED
        BY <4>2, WholeProduct
    <3> HIDE DEF x, y
    <3>3. x = y
      BY <3>1, <3>2
    <3> QED
      BY <3>3 DEF x, y
  <2> QED
    BY <2>2, <2>4, <2>5 DEF BasisFollowsCoins, before, after, r
<1> QED
  BY <1>1, CsvInvHolds, PTL
=============================================================================
