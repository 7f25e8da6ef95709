----------------------------- MODULE BondStrategies -----------------------------
(***************************************************************************)
(* Bonds (app/quant/bonds.py): the price of a bond at a yield, a ladder or *)
(* barbell of bonds a user enters, analysed rung by rung and year by year, *)
(* and the rungs recommended for a risk score from the Treasury curve.     *)
(* Maturities are in quarters of a year, rates are fractions. The powers   *)
(* 1 / years of annualized_return are left out.                            *)
(***************************************************************************)
EXTENDS Fractions, FiniteSets

CONSTANTS
  RungLists,         (* The rungs of a request.                               *)
  Capitals,          (* Its capital.                                          *)
  BondScores,        (* Its risk score, or that of the settings.              *)
  CurveQuotes        (* Curve tickers -> cached price, or 0 if there is none. *)

Rung == [weight : Nat, face : Nat \ {0}, percent : Nat \ {0}, coupon : Int \X Nat, yield : Int \X Nat,
         quarters : Nat \ {0}, payments : {1, 2, 4, 12}]
(* What the schemas let through (BondRungInput, BondStrategyRequest).        *)
ASSUME BondRequests ==
  /\ RungLists \subseteq Seq(Rung) \ {<<>>}
  /\ \A rungs \in RungLists : \A n \in DOMAIN rungs :
       /\ IsFraction(rungs[n].coupon) /\ rungs[n].coupon[1] >= 0
       /\ IsFraction(rungs[n].yield) /\ rungs[n].yield[1] > -rungs[n].yield[2]
  /\ Capitals \subseteq Nat \ {0} /\ BondScores \subseteq 1 .. 10
  /\ CurveQuotes \subseteq [{1, 20, 40, 120} -> Nat]

VARIABLES
  quotes,            (* Cached quotes of the curve tickers.                   *)
  strategy           (* What the latest call answered.                        *)

bondVars == <<quotes, strategy>>

BondsInit == quotes \in CurveQuotes /\ strategy = [kind |-> "none"]

Product(f, g) == Scaled(f, g[1], g[2])
Quotient(f, g) == IF g[1] < 0 THEN Scaled(f, -g[2], -g[1]) ELSE Scaled(f, g[2], g[1])
Power(f, n) == FoldLeft(LAMBDA product, i : Product(product, f), Whole(1), [i \in 1 .. n |-> i])
(* round(n / d): a half goes to the even neighbour.                          *)
RoundHalfEven(n, d) ==
  LET q == n \div d
      twice == 2 * (n % d)
  IN IF twice > d \/ (twice = d /\ q % 2 = 1) THEN q + 1 ELSE q

-----------------------------------------------------------------------------
(* One bond.                                                                 *)

Periods(b) == LET n == RoundHalfEven(b.quarters * b.payments, 4) IN IF n < 1 THEN 1 ELSE n
PeriodGrowth(b) == Plus(Whole(1), Scaled(b.yield, 1, b.payments))
PeriodCoupon(b, face) == Scaled(Product(face, b.coupon), 1, b.payments)

BondPrice(b, face) ==
  LET n == Periods(b)
      discounted(f, k) == Quotient(f, Power(PeriodGrowth(b), k))
  IN Plus(TotalFraction([k \in 1 .. n |-> discounted(PeriodCoupon(b, face), k)]), discounted(face, n))

BondDuration(b, face) ==
  LET n == Periods(b)
      flow(k) == IF k = n THEN Plus(PeriodCoupon(b, face), face) ELSE PeriodCoupon(b, face)
      present(k) == Quotient(Scaled(flow(k), k, b.payments), Power(PeriodGrowth(b), k))
      macaulay == Quotient(TotalFraction([k \in 1 .. n |-> present(k)]), BondPrice(b, face))
  IN [macaulay |-> macaulay, modified |-> Quotient(macaulay, PeriodGrowth(b))]

(* What coupons paid in periods 1 .. n are worth in period n, reinvested.    *)
CouponsEarly(payment, growth, n) == TotalFraction([k \in 1 .. n |-> Product(payment, Power(growth, n - k + 1))])
CouponsForward(payment, growth, n) == TotalFraction([k \in 1 .. n |-> Product(payment, Power(growth, n - k))])

-----------------------------------------------------------------------------
(* analyze_bond_strategy.                                                    *)

ShortWeight(score) == IF score <= 3 THEN 70 ELSE IF score <= 6 THEN 55 ELSE 35

NormalizedRungWeights(rungs, type, score) ==
  LET all == Total([n \in DOMAIN rungs |-> rungs[n].weight])
      count == Len(rungs)
  IN [n \in 1 .. count |->
       CASE all > 0 -> Fraction(rungs[n].weight, all)
         [] all = 0 /\ (type = "ladder" \/ count = 1) -> Fraction(1, count)
         [] OTHER -> IF n = 1 THEN Fraction(ShortWeight(score), 100)
                     ELSE IF n = count THEN Fraction(100 - ShortWeight(score), 100) ELSE Whole(0)]

AnalyzeRung(b, capital, weight) ==
  LET allocated == Product(Whole(capital), weight)
      units == Quotient(allocated, Scaled(Whole(b.face), b.percent, 100))
      principal == Product(units, Whole(b.face))
  IN [bond |-> b, allocated |-> allocated, principal |-> principal,
      income |-> Product(principal, b.coupon), duration |-> BondDuration(b, Whole(b.face)),
      worth |-> BondPrice(b, principal),    (* units at their theoretical price *)
      terminal |-> Plus(principal, CouponsForward(PeriodCoupon(b, principal), PeriodGrowth(b), Periods(b)))]

(* max(1, int(years)), and max(1, ceil(years)), which the code takes.        *)
YearReached(quarters) == IF quarters < 4 THEN 1 ELSE quarters \div 4
MaturityYear(quarters) == (quarters + 3) \div 4

CashFlows(results) ==
  LET last(n) == MaturityYear(results[n].bond.quarters)
      rungs == DOMAIN results
  IN [year \in 1 .. CHOOSE y \in {last(n) : n \in rungs} : \A n \in rungs : last(n) <= y |->
       [coupons |-> TotalFraction([n \in {n \in rungs : year <= last(n)} |-> results[n].income]),
        principal |-> TotalFraction([n \in {n \in rungs : year = last(n)} |-> results[n].principal])]]

(* Requests the schema lets through (BondRungInput, BondStrategyRequest).    *)
AnalyzeBondStrategy(type, capital, score, rungs) ==
  LET weights == NormalizedRungWeights(rungs, type, score)
      results == [n \in DOMAIN rungs |-> AnalyzeRung(rungs[n], capital, weights[n])]
  IN [kind |-> "analyzed", capital |-> capital, rungs |-> results, schedule |-> CashFlows(results)]

-----------------------------------------------------------------------------
(* recommended_bond_rungs. Yields here are in steps of 0.00001.              *)

RecommendedTerms(score, type) ==
  IF type = "barbell"
  THEN IF score <= 3 THEN <<1, 7>> ELSE IF score <= 6 THEN <<1, 10>> ELSE <<2, 20>>
  ELSE IF score <= 3 THEN <<1, 2, 3, 4, 5>>
       ELSE IF score <= 6 THEN <<1, 3, 5, 7, 10>> ELSE <<2, 5, 10, 15, 20>>
RecommendedWeights(score, type) ==
  IF type = "barbell" THEN <<Fraction(ShortWeight(score), 100), Fraction(100 - ShortWeight(score), 100)>>
  ELSE [n \in 1 .. 5 |-> Fraction(1, 5)]

(* DEFAULT_TREASURY_CURVE, and the quote divisors of TREASURY_CURVE_CATALOG; *)
(* terms are in quarters.                                                    *)
DefaultCurve == [q \in {1, 20, 40, 120} |->
  CASE q = 1 -> 4350 [] q = 20 -> 3950 [] q = 40 -> 4300 [] q = 120 -> 4700]
Divisor(quarters) == IF quarters = 1 THEN 100 ELSE 1000
(* A quote counts when it makes a yield between 0 and 1.                     *)
TreasuryCurve ==
  [q \in DOMAIN DefaultCurve |->
    LET quoted == (quotes[q] * 100000) \div Divisor(q)
    IN IF 0 < quoted /\ quoted < 100000 THEN quoted ELSE DefaultCurve[q]]
LeftOf(quarters, curve) == CHOOSE q \in DOMAIN curve : q <= quarters /\ \A r \in DOMAIN curve : r <= quarters => r <= q
RightOf(quarters, curve) == CHOOSE q \in DOMAIN curve : q >= quarters /\ \A r \in DOMAIN curve : r >= quarters => q <= r
YieldFromZero(quarters, curve) ==
  LET left == LeftOf(quarters, curve)
      right == RightOf(quarters, curve)
  IN IF left = right THEN Whole(curve[left])
     ELSE Plus(Whole(curve[left]), Fraction((curve[right] - curve[left]) * quarters, right - left))
InterpolatedYield(quarters, curve) ==
  LET left == LeftOf(quarters, curve)
      right == RightOf(quarters, curve)
  IN IF left = right THEN Whole(curve[left])
     ELSE Plus(Whole(curve[left]), Fraction((curve[right] - curve[left]) * (quarters - left), right - left))
CouponFor(term, yield) ==
  IF term <= 1 THEN 0
  ELSE LET steps == RoundHalfEven(yield[1], yield[2] * 125) IN 125 * (IF steps < 1 THEN 1 ELSE steps)

RecommendedBondRungs(score, type) ==
  LET terms == RecommendedTerms(score, type)
      curve == TreasuryCurve
  IN [n \in DOMAIN terms |->
       LET yield == InterpolatedYield(4 * terms[n], curve)
       IN [term |-> terms[n], weight |-> RecommendedWeights(score, type)[n], yield |-> yield,
           coupon |-> CouponFor(terms[n], yield), payments |-> IF terms[n] <= 1 THEN 1 ELSE 2]]

AnalyzeStrategy ==
  /\ strategy.kind = "none"
  /\ \E type \in {"ladder", "barbell"}, capital \in Capitals, score \in BondScores, rungs \in RungLists :
       strategy' = AnalyzeBondStrategy(type, capital, score, rungs)
  /\ UNCHANGED quotes

RecommendRungs ==
  /\ strategy.kind = "none"
  /\ \E type \in {"ladder", "barbell"} :
       strategy' = [kind |-> "recommended", curve |-> TreasuryCurve,
                    rungs |-> [score \in 1 .. 10 |-> RecommendedBondRungs(score, type)]]
  /\ UNCHANGED quotes

BondsNext == AnalyzeStrategy \/ RecommendRungs

BondsSpec == BondsInit /\ [][BondsNext]_bondVars

-----------------------------------------------------------------------------
(* Properties.                                                               *)

(* The yearly schedule of a strategy pays each rung's principal in the year  *)
(* the rung matures, no sooner and no later; rungs of whole years pay in it  *)
(* every coupon that prices them, and no other; and the rungs spend the      *)
(* capital, no more and no less (analyze_bond_strategy, _analyze_rung).      *)
ScheduleKeepsPromises ==
  strategy.kind = "analyzed" =>
    LET rungs == strategy.rungs
        years == DOMAIN strategy.schedule
        whole == {n \in DOMAIN rungs : rungs[n].bond.quarters % 4 = 0}
    IN /\ TotalFraction([n \in DOMAIN rungs |-> rungs[n].allocated]) = Whole(strategy.capital)
       /\ \A y \in years :
            TotalFraction([z \in 1 .. y |-> strategy.schedule[z].principal]) =
              TotalFraction([n \in {n \in DOMAIN rungs : rungs[n].bond.quarters <= 4 * y} |-> rungs[n].principal])
       /\ whole = DOMAIN rungs =>
            TotalFraction([y \in years |-> strategy.schedule[y].coupons]) =
              TotalFraction([n \in whole |-> Scaled(PeriodCoupon(rungs[n].bond, rungs[n].principal),
                                                    Periods(rungs[n].bond), 1)])

(* What a rung is projected to return is what its theoretical price grows to *)
(* at its yield, whatever it was bought for: so it returns more than its     *)
(* yield exactly when it was bought below that price; and no payment is on   *)
(* average later than the last (bond_price, bond_duration, _analyze_rung).   *)
RungsEarnTheirYield ==
  strategy.kind = "analyzed" =>
    \A n \in DOMAIN strategy.rungs :
      LET r == strategy.rungs[n]
          b == r.bond
          maturity == Fraction(Periods(b), b.payments)
      IN /\ r.terminal = Product(r.worth, Power(PeriodGrowth(b), Periods(b)))
         /\ ~Exceeds(r.duration.macaulay, maturity)
         /\ (r.duration.macaulay = maturity) = (b.coupon = Whole(0) \/ Periods(b) = 1)

(* A higher risk score is never recommended a shorter average maturity, and  *)
(* each recommended rung yields something between the two curve points       *)
(* around its term, and pays a coupon within half a step of that yield       *)
(* unless it pays none (_recommended_terms_and_weights, _auto_bond_rung).    *)
RiskBuysMaturity ==
  strategy.kind = "recommended" =>
    LET rungs(score) == strategy.rungs[score]
        average(score) == TotalFraction([n \in DOMAIN rungs(score) |->
                                      Scaled(rungs(score)[n].weight, rungs(score)[n].term, 1)])
    IN \A score \in 1 .. 10 :
         /\ \A higher \in score .. 10 : ~Exceeds(average(score), average(higher))
         /\ \A n \in DOMAIN rungs(score) :
              LET r == rungs(score)[n]
                  around == {p \in (DOMAIN strategy.curve) \X (DOMAIN strategy.curve) :
                              /\ p[1] <= 4 * r.term /\ 4 * r.term <= p[2]
                              /\ \A q \in DOMAIN strategy.curve : q <= p[1] \/ p[2] <= q}
              IN /\ \E p \in around, low \in {1, 2} :
                      /\ ~Exceeds(Whole(strategy.curve[p[low]]), r.yield)
                      /\ ~Exceeds(r.yield, Whole(strategy.curve[p[3 - low]]))
                 /\ r.term > 1 /\ Exceeds(r.yield, Whole(125)) =>
                      /\ ~Exceeds(Minus(r.yield, Whole(r.coupon)), <<125, 2>>)
                      /\ ~Exceeds(Minus(Whole(r.coupon), r.yield), <<125, 2>>)
=============================================================================
