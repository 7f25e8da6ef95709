--------------------------- MODULE PortfolioAnalysis ---------------------------
(***************************************************************************)
(* What is computed about a portfolio and its possible trades: optimize,   *)
(* simulate-trade (app/quant/portfolio.py), the trades of a simulation     *)
(* with risk (trade_impact.py) and the reweighting for a risk score        *)
(* (risk_profiles.py). Weights are in hundredths; where one is not whole   *)
(* it is a fraction <<numerator, denominator>>, so that nothing is rounded.*)
(* Covariances, volatilities and expected returns are left out: the score  *)
(* a position gets from them is a number of the position.                  *)
(***************************************************************************)
EXTENDS Fractions, FiniteSets

CONSTANTS
  Portfolios,        (* Cash and positions.                                   *)
  WeightBounds,      (* Pairs of min_weight and max_weight.                   *)
  SingleTrades,      (* Inputs of simulate-trade.                             *)
  TradeLists,        (* Inputs of a trade simulation.                         *)
  CovarianceTickers, (* Tickers of the covariance matrix.                     *)
  RiskScores, BondChoices, PositionCaps,   (* Inputs of a reweighting.        *)
  BondCatalog        (* BOND_ASSET_BY_TICKER.                                 *)

(* A portfolio has a symbol once (the primary key of portfolio_positions).   *)
HeldRows == [symbol : STRING, quantity : Nat, price : Nat, class : STRING, score : Int]
ASSUME PortfolioRows ==
  \A p \in Portfolios :
    /\ p.cash \in Int
    /\ p.positions \in Seq(HeldRows)
    /\ \A m, n \in DOMAIN p.positions : p.positions[m].symbol = p.positions[n].symbol => m = n
(* What the schemas of the requests let through.                             *)
Sides == {"buy", "sell"}
ASSUME AnalysisRequests ==
  /\ WeightBounds \subseteq (0 .. 100) \X (0 .. 100)
  /\ SingleTrades \subseteq [symbol : STRING, side : Sides, quantity : Nat, price : Nat, bps : Nat]
  /\ TradeLists \subseteq
       Seq([ticker : STRING, side : Sides, quantity : Nat, price : Nat, notional : Nat])
  /\ RiskScores \subseteq 1 .. 10 /\ PositionCaps \subseteq 5 .. 100
  /\ BondCatalog \subseteq STRING /\ IsFiniteSet(BondCatalog)

VARIABLES
  portfolio,
  analysis           (* What the call answered.                               *)

analysisVars == <<portfolio, analysis>>

NotGiven == 0        (* A number a request leaves out; those it has are > 0.  *)
Refusal == [kind |-> "refused"]

AnalysisInit ==
  /\ portfolio \in Portfolios
  /\ analysis = [kind |-> "none"]

Elements(list) == {list[n] : n \in DOMAIN list}
Larger(x, y) == IF x > y THEN x ELSE y

(* n rounds of a loop that stays as it is once it is done.                   *)
Rounds(n, step(_), start) == FoldLeft(LAMBDA s, i : step(s), start, [i \in 1 .. n |-> i])

(* max(score, 0); when none is above 0, all are alike.                       *)
Worths(scores) ==
  IF \A x \in DOMAIN scores : scores[x] <= 0 THEN [x \in DOMAIN scores |-> 1]
  ELSE [x \in DOMAIN scores |-> Larger(scores[x], 0)]

MarketValue(p) == p.quantity * p.price
PositionsMarketValue(positions) == Total([n \in DOMAIN positions |-> MarketValue(positions[n])])
TotalEquity == PositionsMarketValue(portfolio.positions) + portfolio.cash

-----------------------------------------------------------------------------
(* optimize_portfolio.                                                       *)

Score(p, objective) == IF objective = "equal_weight" THEN 1 ELSE p.score

(* One round of _bounded_normalize: what is left is shared by score among    *)
(* those still active; who would get more than max gets max, and leaves.     *)
Shared(s, x) ==
  LET all == Total([y \in s.active |-> s.scores[y]])
  IN IF all = 0 THEN <<s.min * Cardinality(s.active) + s.remaining, Cardinality(s.active)>>
     ELSE <<s.min * all + s.remaining * s.scores[x], all>>
(* Mutant: of the weight of one who gets max, min is counted twice.          *)
ShareWholeMax(s) ==
  LET capped == {x \in s.active : Exceeds(Shared(s, x), Whole(s.max))}
  IN IF s.active = {} \/ s.remaining = 0 THEN s
     ELSE IF capped = {}
     THEN [s EXCEPT !.weights = [x \in DOMAIN @ |-> IF x \in s.active THEN Shared(s, x) ELSE @[x]],
                    !.remaining = 0]
     ELSE [s EXCEPT !.weights = [x \in DOMAIN @ |-> IF x \in capped THEN Whole(s.max) ELSE @[x]],
                    !.remaining = @ - Cardinality(capped) * s.max,
                    !.active = @ \ capped]
ShareRemaining(s) ==
  LET capped == {x \in s.active : Exceeds(Shared(s, x), Whole(s.max))}
  IN IF s.active = {} \/ s.remaining = 0 THEN s
     ELSE IF capped = {}
     THEN [s EXCEPT !.weights = [x \in DOMAIN @ |-> IF x \in s.active THEN Shared(s, x) ELSE @[x]],
                    !.remaining = 0]
     ELSE [s EXCEPT !.weights = [x \in DOMAIN @ |-> IF x \in capped THEN Whole(s.max) ELSE @[x]],
                    !.remaining = @ - Cardinality(capped) * (s.max - s.min),
                    !.active = @ \ capped]

BoundedNormalize(scores, min, max) ==
  LET symbols == DOMAIN scores
      count == Cardinality(symbols)
      start == [min |-> min, max |-> max, active |-> symbols, remaining |-> 100 - min * count,
                weights |-> [x \in symbols |-> Whole(min)], scores |-> Worths(scores)]
      end == Rounds(count, ShareRemaining, start).weights
      total == TotalFraction(end)
  IN [x \in symbols |-> Scaled(end[x], 100 * total[2], total[1])]

OptimizePortfolio(objective, min, max) ==
  LET positions == portfolio.positions
      symbols == {p.symbol : p \in Elements(positions)}
      count == Cardinality(symbols)
      scoreOf(x) == Score(CHOOSE p \in Elements(positions) : p.symbol = x, objective)
      scores == [x \in symbols |-> scoreOf(x)]
  IN IF min > max THEN Refusal
     ELSE IF positions = <<>> THEN [kind |-> "unoptimized"]
     ELSE IF TotalEquity <= 0 \/ min * count > 100 \/ max * count < 100 THEN Refusal
     ELSE [kind |-> "optimized", bounds |-> <<min, max>>, scores |-> scores,
           weights |-> BoundedNormalize(scores, min, max)]

-----------------------------------------------------------------------------
(* simulate_trade_impact of portfolio.py; a position is kept by its value,   *)
(* which is what the mean price of a purchase stands for.                    *)

Holding(symbol) == {p \in Elements(portfolio.positions) : p.symbol = symbol}
PositionAfterTrade(p, side, quantity, price) ==
  IF side = "buy" THEN [quantity |-> p.quantity + quantity, value |-> MarketValue(p) + quantity * price]
  ELSE [quantity |-> p.quantity - quantity, value |-> (p.quantity - quantity) * p.price]

SimulateTrade(t) ==
  LET held == Holding(t.symbol)
      notional == t.quantity * t.price
      cost == (notional * t.bps) \div 10000
      after == IF held = {} THEN [quantity |-> t.quantity, value |-> notional]
               ELSE PositionAfterTrade(CHOOSE p \in held : TRUE, t.side, t.quantity, t.price)
      cash == IF t.side = "buy" THEN -(notional + cost) ELSE notional - cost
      others == {n \in DOMAIN portfolio.positions : portfolio.positions[n].symbol # t.symbol}
  IN IF t.side = "sell" /\ ~(\E p \in held : p.quantity >= t.quantity) THEN Refusal
     ELSE [kind |-> "simulated", trade |-> t, cost |-> cost, cash |-> cash, value |-> after.value,
           equity |-> Total([n \in others |-> MarketValue(portfolio.positions[n])])
                        + after.value + portfolio.cash + cash]

-----------------------------------------------------------------------------
(* analyze_trade_impact of trade_impact.py: what is held of each ticker of   *)
(* the covariance matrix, by value and by number, trade after trade.         *)

NoPrice == -1
HoldingVectors ==
  LET of(x) == {n \in DOMAIN portfolio.positions : portfolio.positions[n].symbol = x}
  IN [values |-> [x \in CovarianceTickers |-> Total([n \in of(x) |-> MarketValue(portfolio.positions[n])])],
      quantities |-> [x \in CovarianceTickers |-> Whole(Total([n \in of(x) |-> portfolio.positions[n].quantity]))],
      prices |-> [x \in CovarianceTickers |->
                    IF of(x) = {} THEN NoPrice
                    ELSE portfolio.positions[CHOOSE n \in of(x) : \A m \in of(x) : m <= n].price],
      refused |-> FALSE]

(* The price of a trade: its own, or that of the holding. A first trade by   *)
(* value needs neither, and leaves 0 as the price.                           *)
TradePrice(s, t) ==
  IF t.price # NotGiven THEN t.price
  ELSE IF s.prices[t.ticker] = NoPrice /\ t.quantity = NotGiven THEN 0 ELSE s.prices[t.ticker]
PriceMissing(s, t) ==
  /\ t.price = NotGiven
  /\ s.prices[t.ticker] <= 0
  /\ ~(s.prices[t.ticker] = NoPrice /\ t.quantity = NotGiven)

ValueAfter(t, value, n) == Larger(IF t.side = "buy" THEN value + n ELSE value - n, 0)
NumberAfter(t, held, f) ==
  LET after == IF t.side = "buy" THEN Plus(held, f) ELSE Minus(held, f)
  IN IF Exceeds(Whole(0), after) THEN Whole(0) ELSE after
Notional(s, t) == IF t.quantity # NotGiven THEN t.quantity * TradePrice(s, t) ELSE t.notional
Number(s, t) ==
  IF t.quantity # NotGiven THEN Whole(t.quantity)
  ELSE IF TradePrice(s, t) > 0 THEN Fraction(t.notional, TradePrice(s, t)) ELSE Whole(0)

Invalid(s, t) ==
  \/ t.ticker \notin CovarianceTickers
  \/ (t.quantity = NotGiven) = (t.notional = NotGiven)
  \/ PriceMissing(s, t)
  \/ t.side = "sell" /\ Exceeds(Whole(t.quantity), s.quantities[t.ticker])
  \/ t.side = "sell" /\ s.values[t.ticker] < Notional(s, t)
(* Mutant: a trade by value leaves the number of shares alone.               *)
ApplyValueOnly(s, t) ==
  IF s.refused \/ Invalid(s, t) THEN [s EXCEPT !.refused = TRUE]
  ELSE [s EXCEPT !.values[t.ticker] = ValueAfter(t, @, Notional(s, t)),
                 !.quantities[t.ticker] = NumberAfter(t, @, Whole(t.quantity)),
                 !.prices[t.ticker] = TradePrice(s, t)]
ApplyTrade(s, t) ==
  IF s.refused \/ Invalid(s, t) THEN [s EXCEPT !.refused = TRUE]
  ELSE [s EXCEPT !.values[t.ticker] = ValueAfter(t, @, Notional(s, t)),
                 !.quantities[t.ticker] = NumberAfter(t, @, Number(s, t)),
                 !.prices[t.ticker] = TradePrice(s, t)]

AnalyzeTradeImpact(trades) ==
  LET covered == \A p \in Elements(portfolio.positions) : p.symbol \in CovarianceTickers
      end == FoldLeft(ApplyTrade, HoldingVectors, trades)
  IN IF ~covered \/ end.refused THEN Refusal
     ELSE [kind |-> "impact", trades |-> trades, before |-> HoldingVectors, after |-> end]

-----------------------------------------------------------------------------
(* reweight_portfolio_for_risk.                                              *)

(* RISK_PROFILES: hundredths in equity, bonds and cash, for the ten scores.  *)
RiskProfiles == <<<<10, 70, 20>>, <<20, 65, 15>>, <<30, 60, 10>>, <<40, 50, 10>>, <<50, 45, 5>>,
                  <<60, 35, 5>>, <<70, 25, 5>>, <<80, 15, 5>>, <<90, 7, 3>>, <<95, 3, 2>>>>
TargetAllocation(score, bucket) ==
  RiskProfiles[score][CASE bucket = "equity" -> 1 [] bucket = "bonds" -> 2 [] bucket = "cash" -> 3]

RiskBucket(p) ==
  IF p.class = "cash" THEN "cash"
  ELSE IF p.class = "bond" \/ p.symbol \in BondCatalog THEN "bonds" ELSE "equity"

Candidate(symbol, value, held) == [symbol |-> symbol, value |-> value, held |-> held]
CandidateOf(p) == Candidate(p.symbol, MarketValue(p), TRUE)
NewCandidate(symbol, value) == Candidate(symbol, value, FALSE)
(* Holdings of the bucket, then the bonds asked for, then idle cash; a       *)
(* bucket with none of them gets a sleeve to be filled.                      *)
Candidates(bucket, bonds) ==
  LET holdings == {CandidateOf(p) : p \in {p \in Elements(portfolio.positions) : RiskBucket(p) = bucket}}
      new == {b \in bonds \cap BondCatalog : Holding(b) = {}}
      added == CASE bucket = "bonds" -> {NewCandidate(b, 0) : b \in new}
                 [] bucket = "cash" -> {NewCandidate("CASH", Larger(portfolio.cash, 0))}
                 [] OTHER -> {}
  IN IF holdings \cup added = {} THEN {NewCandidate("sleeve", 0)} ELSE holdings \cup added

(* A round of _bucket_target_weights: what is above the cap goes to the      *)
(* others, by score. Mutant: it is lost.                                     *)
CutExcess(s) ==
  LET capped == {x \in s.active : Exceeds(s.weights[x], s.cap)}
  IN [s EXCEPT !.active = @ \ capped,
               !.weights = [x \in DOMAIN @ |-> IF x \in capped THEN s.cap ELSE @[x]]]
SpreadExcess(s) ==
  LET capped == {x \in s.active : Exceeds(s.weights[x], s.cap)}
      others == s.active \ capped
      excess == TotalFraction([x \in capped |-> Minus(s.weights[x], s.cap)])
      all == Total([x \in others |-> s.scores[x]])
      share(x) == IF all = 0 THEN Scaled(excess, 1, Cardinality(others))
                  ELSE Scaled(excess, s.scores[x], all)
  IN IF capped = {} THEN s
     ELSE [s EXCEPT !.active = others,
                    !.weights = [x \in DOMAIN @ |-> IF x \in capped THEN s.cap
                                                    ELSE IF x \in others THEN Plus(@[x], share(x))
                                                    ELSE @[x]]]

(* Weights by symbol; of two candidates with one symbol the later counts,    *)
(* which is the one that is not held.                                        *)
LastOf(candidates, x) ==
  CHOOSE c \in candidates : /\ c.symbol = x
                            /\ c.held => \A d \in candidates : d.symbol = x => d.held
BucketTargetWeights(candidates, target, most) ==
  LET count == Cardinality(candidates)
      symbols == {c.symbol : c \in candidates}
      scores == Worths([x \in symbols |-> LastOf(candidates, x).value])
      all == Total(scores)
      start == [cap |-> Fraction(Larger(most * count, target), count), active |-> symbols,
                scores |-> scores, weights |-> [x \in symbols |-> Fraction(target * scores[x], all)]]
  IN Rounds(count, SpreadExcess, start).weights

Buckets == {"equity", "bonds", "cash"}
ReweightForRisk(score, bonds, most) ==
  LET candidates == [b \in Buckets |-> Candidates(b, bonds)]
      weights == [b \in Buckets |->
                    BucketTargetWeights(candidates[b], TargetAllocation(score, b),
                                        IF b = "cash" THEN 100 ELSE most)]
  IN IF TotalEquity <= 0 THEN Refusal
     ELSE [kind |-> "reweighted", score |-> score, most |-> most,
           allocations |-> [b \in Buckets |-> [c \in candidates[b] |-> weights[b][c.symbol]]]]

AnalysisNext ==
  /\ analysis.kind = "none"
  /\ UNCHANGED portfolio
  /\ \/ \E objective \in {"equal_weight", "max_sharpe"}, b \in WeightBounds :
          analysis' = OptimizePortfolio(objective, b[1], b[2])
     \/ \E t \in SingleTrades : analysis' = SimulateTrade(t)
     \/ \E trades \in TradeLists : analysis' = AnalyzeTradeImpact(trades)
     \/ \E score \in RiskScores, bonds \in BondChoices, most \in PositionCaps :
          analysis' = ReweightForRisk(score, bonds, most)

AnalysisSpec == AnalysisInit /\ [][AnalysisNext]_analysisVars

-----------------------------------------------------------------------------
(* Properties.                                                               *)

(* Whatever the scores, the weights an optimisation proposes add up to one,  *)
(* keep within the bounds asked for, however often a position reaches the    *)
(* upper one, and give no more to a lower score (_bounded_normalize).        *)
WeightsWithinBounds ==
  analysis.kind = "optimized" =>
    LET w == analysis.weights
    IN /\ TotalFraction(w) = Whole(100)
       /\ \A x \in DOMAIN w : /\ ~Exceeds(Whole(analysis.bounds[1]), w[x])
                              /\ ~Exceeds(w[x], Whole(analysis.bounds[2]))
       /\ \A x, y \in DOMAIN w : analysis.scores[x] <= analysis.scores[y] => ~Exceeds(w[x], w[y])

(* A trade turns cash into shares and back at its price: a simulated         *)
(* purchase costs its costs and nothing else, a sale also what it is made    *)
(* below the current price (portfolio.py, _positions_after_trade); and in a  *)
(* list of trades at the holdings' prices, by number or by value, what is    *)
(* held of a ticker stays worth its shares (trade_impact.py, _apply_trade).  *)
TradesMoveValue ==
  /\ analysis.kind = "simulated" =>
       LET t == analysis.trade
           below == Total([p \in Holding(t.symbol) |-> t.quantity * (p.price - t.price)])
       IN analysis.equity = TotalEquity - analysis.cost - (IF t.side = "buy" THEN 0 ELSE below)
  /\ analysis.kind = "impact" =>
       LET trades == Elements(analysis.trades)
           atMarket(x) == \A t \in trades : t.ticker = x =>
                            t.price \in {NotGiven, analysis.before.prices[x]}
       IN \A x \in CovarianceTickers :
            analysis.before.prices[x] > 0 /\ atMarket(x) =>
              Whole(analysis.after.values[x]) =
                Scaled(analysis.after.quantities[x], analysis.before.prices[x], 1)

(* The targets of a reweighting add up to the whole portfolio and those of a *)
(* bucket to its share, none above the cap unless all of its bucket are; but *)
(* a holding called CASH, which the idle cash shares its name with, counts   *)
(* twice (risk_profiles.py, target_weights by symbol).                       *)
TargetsAddUp ==
  analysis.kind = "reweighted" /\ Holding("CASH") = {} =>
    \A b \in Buckets :
      LET a == analysis.allocations[b]
          count == Cardinality(DOMAIN a)
          target == TargetAllocation(analysis.score, b)
      IN /\ TotalFraction(a) = Whole(target)
         /\ \A c \in DOMAIN a : b = "cash" \/ ~Exceeds(a[c], <<Larger(analysis.most * count, target), count>>)
=============================================================================
