--------------------------- MODULE PerformanceHistory ---------------------------
(***************************************************************************)
(* GET performance-history (app/api/services.py): the index of a portfolio *)
(* over time, rebuilt from its ledger and the cached price histories. The  *)
(* ledger grows at instants; every now and then the market quotes a price  *)
(* point. An index is kept as its growths, one ratio a point, since only   *)
(* products of them are drawn. What the ledger accepts is PortfolioLedger. *)
(***************************************************************************)
EXTENDS Fractions, FiniteSets

CONSTANTS
  Stocks,        (* Tickers that can be held.                                 *)
  Closes,        (* Prices they can have.                                     *)
  Deposits,      (* Amounts of a cash movement.                               *)
  Sizes, Fees,   (* Shares and fees of a trade.                               *)
  MaxEntries,    (* Bound: entries of the ledger.                             *)
  MaxPoints      (* Bound: price points.                                      *)

NoTicker == "none"  (* Of an event that moves only cash.                           *)

(* Requests move amounts and trade shares, at prices: no point without one   *)
(* is kept (schemas.py, yfinance.py).                                        *)
ASSUME MarketAndRequests ==
  /\ IsFiniteSet(Stocks) /\ NoTicker \notin Stocks
  /\ Closes \subseteq Nat \ {0} /\ Deposits \subseteq Nat \ {0}
  /\ Sizes \subseteq Nat \ {0} /\ Fees \subseteq Nat

VARIABLES
  instant,       (* The clock.                                                *)
  closing,       (* Prices trades are made at, those of the next point.       *)
  series,        (* Price histories: ticker -> points, oldest first.          *)
  ledger,        (* Cash movements, trades and lots, oldest first.            *)
  owned,         (* Cash and shares at present.                               *)
  trail          (* At each price point: what was owned at the last point, at *)
                 (* the new prices, less fees and with income since; and what *)
                 (* is owned now. Kept apart, to compare with.                *)

historyOf == <<instant, closing, series, ledger, owned, trail>>

Worth(o) == o.cash + Total([t \in Stocks |-> o.shares[t] * closing[t]])

PerformanceInit ==
  /\ instant = 1
  /\ closing \in [Stocks -> Closes]
  /\ series = [t \in Stocks |-> <<>>]
  /\ ledger = [cash |-> <<>>, trades |-> <<>>, lots |-> <<>>]
  /\ owned = [cash |-> 0, shares |-> [t \in Stocks |-> 0], earned |-> 0,
              before |-> [cash |-> 0, shares |-> [t \in Stocks |-> 0]]]
  /\ trail = <<>>

LedgerEntries == Len(ledger.cash) + Len(ledger.trades) + Len(ledger.lots)
Enter(book, now) ==
  /\ LedgerEntries < MaxEntries
  /\ ledger' = book
  /\ owned' = now
  /\ instant' = instant + 1
  /\ UNCHANGED <<closing, series, trail>>

(* Deposits and withdrawals move money in and out; income is earned.         *)
CashDelta(m) == IF m.kind = "withdrawal" THEN -m.amount ELSE m.amount
(* Mutant: only what comes in counts as a flow.                              *)
InflowOnly(m) == IF m.kind = "deposit" THEN m.amount ELSE 0
ExternalFlow(m) == IF m.kind \in {"deposit", "withdrawal"} THEN CashDelta(m) ELSE 0
MoveCash(kind, amount) ==
  LET m == [at |-> instant, kind |-> kind, amount |-> amount]
  IN /\ owned.cash + CashDelta(m) >= 0
     /\ Enter([ledger EXCEPT !.cash = Append(@, m)],
              [owned EXCEPT !.cash = @ + CashDelta(m),
                            !.earned = @ + (IF kind = "dividend" THEN amount ELSE 0)])

(* A trade, and TradeTransaction.cash_delta. A purchase makes a lot of       *)
(* source manual_trade.                                                      *)
TradeCash(x) == IF x.side = "buy" THEN -(x.quantity * x.price + x.fees)
                ELSE x.quantity * x.price - x.fees
SharesDelta(x) == IF x.side = "buy" THEN x.quantity ELSE -x.quantity
LotOf(t, n, source) == [at |-> instant, symbol |-> t, quantity |-> n, left |-> n,
                        price |-> closing[t], fees |-> 0, source |-> source]
MakeTrade(t, side, n, fees) ==
  LET x == [at |-> instant, symbol |-> t, side |-> side, quantity |-> n, price |-> closing[t],
            fees |-> fees]
  IN /\ owned.cash + TradeCash(x) >= 0
     /\ owned.shares[t] + SharesDelta(x) >= 0
     /\ Enter([ledger EXCEPT !.trades = Append(@, x),
                             !.lots = IF side = "sell" THEN @
                                      ELSE Append(@, LotOf(t, n, "manual_trade"))],
              [owned EXCEPT !.cash = @ + TradeCash(x), !.shares[t] = @ + SharesDelta(x),
                            !.earned = @ - fees])

(* Shares brought in: a dated lot, or a position without dates.              *)
BringIn(t, n, source) ==
  Enter([ledger EXCEPT !.lots = Append(@, LotOf(t, n, source))],
        [owned EXCEPT !.shares[t] = @ + n])

(* The market quotes a point, of every stock whose cached prices have begun, *)
(* and moves on.                                                             *)
QuotePoint(quoted, prices) ==
  /\ Len(trail) < MaxPoints
  /\ {t \in Stocks : series[t] # <<>>} \subseteq quoted
  /\ series' = [t \in Stocks |->
                  IF t \in quoted THEN Append(series[t], [at |-> instant, close |-> closing[t]])
                  ELSE series[t]]
  /\ trail' = Append(trail, [at |-> instant, worth |-> Worth(owned),
                             held |-> Worth(owned.before) + owned.earned])
  /\ owned' = [owned EXCEPT !.earned = 0,
                            !.before = [cash |-> owned.cash, shares |-> owned.shares]]
  /\ closing' = prices
  /\ instant' = instant + 1
  /\ UNCHANGED ledger

PerformanceNext ==
  \/ \E kind \in {"deposit", "withdrawal", "dividend"}, amount \in Deposits : MoveCash(kind, amount)
  \/ \E t \in Stocks :
       \/ \E side \in {"buy", "sell"}, n \in Sizes, fees \in Fees : MakeTrade(t, side, n, fees)
       \/ \E source \in {"manual", "aggregate_position"} : BringIn(t, 1, source)
  \/ \E quoted \in (SUBSET Stocks) \ {{}}, prices \in [Stocks -> Closes] : QuotePoint(quoted, prices)

PerformanceSpec == PerformanceInit /\ [][PerformanceNext]_historyOf

-----------------------------------------------------------------------------
(* _reconstruct_portfolio_history.                                           *)

Unpriced == 0  (* No price.                                                      *)
Event(at, ticker, shares, cash, flow) ==
  [at |-> at, ticker |-> ticker, shares |-> shares, cash |-> cash, flow |-> flow]
CashEvent(m) == Event(m.at, NoTicker, 0, CashDelta(m), ExternalFlow(m))
TradeEvent(x) == Event(x.at, x.symbol, SharesDelta(x), TradeCash(x), 0)
DatedLot(l) == l.source \notin {"manual_trade", "aggregate_position"}
Undated(l) == l.source = "aggregate_position"
LotEvent(l) == Event(l.at, l.symbol, l.quantity, 0, l.quantity * l.price + l.fees)
(* remaining_cost_basis: what is left of the lot at its price, and as much   *)
(* of the fees.                                                              *)
RemainingCostBasis(l) == l.left * l.price + (l.fees * l.left) \div l.quantity
OpeningEvent(l, at) == Event(at, l.symbol, l.quantity, 0, RemainingCostBasis(l))

(* What a ledger tells: pairs of a list, 1 to 3, and a place in it; and that *)
(* in order of time, in order of the lists at one time. (The order of lots   *)
(* at one time, which only add, is nothing.)                                 *)
BookEntries(book) ==
  ({1} \X DOMAIN book.cash) \cup ({2} \X DOMAIN book.trades)
    \cup ({3} \X {n \in DOMAIN book.lots : Undated(book.lots[n]) \/ DatedLot(book.lots[n])})
EventOf(book, opening, entry) ==
  LET n == entry[2]
  IN IF entry[1] = 1 THEN CashEvent(book.cash[n])
     ELSE IF entry[1] = 2 THEN TradeEvent(book.trades[n])
     ELSE IF Undated(book.lots[n]) THEN OpeningEvent(book.lots[n], opening)
     ELSE LotEvent(book.lots[n])
InOrder(S, before) ==
  [k \in 1 .. Cardinality(S) |-> CHOOSE x \in S : Cardinality({y \in S : <<y, x>> \in before}) = k - 1]
Events(book, opening) ==
  LET entries == BookEntries(book)
      at(e) == EventOf(book, opening, e).at
      earlier == {p \in entries \X entries :
                    \/ at(p[1]) < at(p[2])
                    \/ /\ at(p[1]) = at(p[2])
                       /\ p[1][1] < p[2][1] \/ (p[1][1] = p[2][1] /\ p[1][2] < p[2][2])}
      order == InOrder(entries, earlier)
  IN [k \in DOMAIN order |-> EventOf(book, opening, order[k])]

PriceTimes(tickers) == UNION {{series[t][n].at : n \in DOMAIN series[t]} : t \in tickers}

(* The first instant all the tickers have a price at; 0 if one has none.     *)
EarliestCommonPriceTime(tickers) ==
  IF \E t \in tickers : series[t] = <<>> THEN 0
  ELSE CHOOSE at \in {series[t][1].at : t \in tickers} :
         \A t \in tickers : series[t][1].at <= at

PriceAtOrBefore(t, at) ==
  LET known == {n \in DOMAIN series[t] : series[t][n].at <= at}
  IN IF known = {} THEN Unpriced ELSE series[t][CHOOSE n \in known : \A m \in known : m <= n].close

AtLeastZero(x) == IF x < 0 THEN 0 ELSE x

(* One event of the replay. Shares never go below none.                      *)
Apply(s, e) ==
  [s EXCEPT !.cash = @ + e.cash, !.flow = @ + e.flow,
            !.shares = [t \in Stocks |-> IF t = e.ticker THEN AtLeastZero(s.shares[t] + e.shares)
                                         ELSE s.shares[t]]]

(* One price time of the replay: the events until then, then the portfolio   *)
(* at its prices. growth is numerator and denominator.                       *)
Value(shares, at) == Total([t \in Stocks |-> shares[t] * PriceAtOrBefore(t, at)])
Growth(s, equity) ==
  IF s.points = <<>> \/ s.previous <= 0 THEN <<1, 1>> ELSE <<AtLeastZero(equity - s.flow), s.previous>>
(* Mutant: the flows of a point are not cleared with it.                     *)
KeepFlows(s, equity, at) ==
  [s EXCEPT !.previous = equity,
            !.points = Append(@, [at |-> at, worth |-> equity, growth |-> Growth(s, equity)])]
AddPoint(s, equity, at) ==
  [s EXCEPT !.previous = equity, !.flow = 0,
            !.points = Append(@, [at |-> at, worth |-> equity, growth |-> Growth(s, equity)])]
AtPoint(s, events, at) ==
  LET due == Cardinality({n \in DOMAIN events : events[n].at <= at})
      then == [FoldLeft(Apply, s, SubSeq(events, s.done + 1, due)) EXCEPT !.done = due]
      active == {t \in Stocks : then.shares[t] > 0}
      equity == then.cash + Value(then.shares, at)
  IN IF active = {} /\ then.cash <= 0 THEN then
     ELSE IF \E t \in active : PriceAtOrBefore(t, at) = Unpriced THEN [then EXCEPT !.skipped = TRUE]
     ELSE AddPoint(then, equity, at)

Unavailable == [points |-> <<>>, quality |-> "unavailable", partial |-> TRUE, omits |-> FALSE]
Quality(lots, skipped) ==
  IF \E n \in DOMAIN lots : Undated(lots[n]) THEN "estimated_opening_snapshot"
  ELSE IF \E n \in DOMAIN lots : DatedLot(lots[n]) THEN "reconstructed_opening_lots"
  ELSE IF skipped THEN "partial_market_data" ELSE "complete_ledger"

ReconstructPortfolioHistory(book) ==
  LET undated == {book.lots[n].symbol : n \in {n \in DOMAIN book.lots : Undated(book.lots[n])}}
      opening == EarliestCommonPriceTime(undated)
      events == Events(book, opening)
      tickers == {events[n].ticker : n \in DOMAIN events} \ {NoTicker}
      dates == PriceTimes(tickers)
      times == InOrder(dates, {p \in dates \X dates : p[1] < p[2]})
      start == [cash |-> 0, shares |-> [t \in Stocks |-> 0], flow |-> 0, previous |-> 0,
                points |-> <<>>, skipped |-> FALSE, done |-> 0]
      end == FoldLeft(LAMBDA s, at : AtPoint(s, events, at), start, times)
      quality == Quality(book.lots, end.skipped)
  IN IF undated # {} /\ opening = 0 THEN Unavailable
     ELSE IF Len(times) < 2 \/ Len(end.points) < 2 THEN Unavailable
     ELSE [points |-> end.points, quality |-> quality,
           partial |-> end.skipped \/ quality # "complete_ledger", omits |-> end.skipped]

-----------------------------------------------------------------------------
(* Properties.                                                               *)

SameRatio(g, h) == g[1] * h[2] = h[1] * g[2]
PointAt(at) == CHOOSE n \in DOMAIN trail : trail[n].at = at

TimeWeighted(result) ==
  result.quality \in {"complete_ledger", "reconstructed_opening_lots"} /\ ~result.omits =>
    /\ Last(result.points).at = Last(trail).at \/ Last(trail).worth = 0
    /\ \A n \in 2 .. Len(result.points) :
         LET from == PointAt(result.points[n - 1].at)
             to == PointAt(result.points[n].at)
             held == Total([k \in from + 1 .. to |-> trail[k].held])
         IN /\ SameRatio(result.points[n].growth, <<AtLeastZero(held), trail[from].worth>>)
            /\ result.points[n].worth = trail[to].worth

(* The index tells how the holdings did, not how much money came or went:    *)
(* with everything entered as it happened, from one point to the next it     *)
(* grows as what was owned at the first of them grew until money moved       *)
(* again, and by what was earned from then on at points where nothing was    *)
(* owned (services.py, pending_external_flow). A history that omits dates    *)
(* for want of prices says so, and is exempt.                                *)
IndexIsTimeWeighted == TimeWeighted(ReconstructPortfolioHistory(ledger))
=============================================================================
