-------------------------- MODULE PortfolioLedger --------------------------
(***************************************************************************)
(* The books of one portfolio: its lots, cash, trades, cash transactions,  *)
(* positions and valuation snapshots (app/background/portfolio_tasks.py)   *)
(* over the PostgreSQL repository (app/db/repository.py).                  *)
(*                                                                         *)
(* An operation reads the portfolio and then makes a sequence of           *)
(* repository calls. Every call is a transaction of its own: one step here.*)
(* Nothing keeps two operations on a portfolio apart, and an operation may *)
(* stop between any two of its calls.                                      *)
(*                                                                         *)
(* Quantities, prices and fees are whole numbers, chosen so that the fees  *)
(* of a lot divide by its quantity. Asset classes and notes are left out.  *)
(***************************************************************************)
EXTENDS Integers, SequencesExt

CONSTANTS
  Symbols,
  LotIds,      (* Bound: the uuids lots may get; their order is arbitrary.  *)
  Requests,    (* API threads.                                              *)
  Workers,     (* Worker processes.                                         *)
  Buys, Sells, (* The inputs of POST .../trades.                            *)
  Moves,       (* The inputs of POST .../cash-transactions.                 *)
  Manuals,     (* The inputs of POST .../lots: sets of new lots.            *)
  Uploads,     (* What an imported CSV holds: sets of new lots.             *)
  Quotes,      (* The quotes a refresh job applies.                         *)
  Deletes,     (* Are lots and positions deleted?                           *)
  Crashes,     (* Do operations stop half way?                              *)
  MaxOps       (* Bound: operations begun.                                  *)

Inflows == {"deposit", "dividend"}
Outflows == {"withdrawal", "fee"}
External == {"deposit", "withdrawal"}

NewLot == [symbol: Symbols, quantity: Nat \ {0}, left: Nat \ {0},
           price: Nat \ {0}, cur: Nat \ {0}, fees: Nat, at: Nat]
SaleInput == [symbol: Symbols, quantity: Nat \ {0}, price: Nat \ {0}, fees: Nat]
MoveInput == [kind: Inflows \cup Outflows, amount: Nat \ {0}]

ASSUME LotIdsAssumption == LotIds \subseteq Nat
ASSUME InputsAssumption ==
  /\ \A L \in Manuals \cup Uploads \cup {{o} : o \in Buys} :
       /\ IsFiniteSet(L) /\ L \subseteq NewLot
       /\ \A o \in L : o.left <= o.quantity /\ o.fees % o.quantity = 0
  /\ \A o \in Buys : o.left = o.quantity
  /\ Sells \subseteq SaleInput
  /\ Moves \subseteq MoveInput
  /\ Quotes \subseteq [symbol: Symbols, price: Nat \ {0}]
ASSUME FlagsAssumption == {Deletes, Crashes} \subseteq BOOLEAN /\ MaxOps \in Nat

VARIABLES
  lots,        (* Rows of position_lots.                                    *)
  cash,        (* The cash of the portfolio row.                            *)
  positions,   (* Rows of portfolio_positions.                              *)
  trades,      (* Rows of portfolio_trade_transactions.                     *)
  moves,       (* Rows of portfolio_cash_transactions.                      *)
  valued,      (* The latest valuation snapshot.                            *)
  thread,      (* What each API thread and worker is doing.                 *)
  issued,      (* Lot ids given out.                                        *)
  begun,       (* Operations begun (for MaxOps).                            *)
  outside,     (* History: what entered or left the lots but by a trade.    *)
  torn         (* History: what an operation that stopped half way left.    *)

vars == <<lots, cash, positions, trades, moves, valued, thread, issued, begun,
          outside, torn>>
books == <<lots, cash, positions, trades, moves, valued>>
history == <<outside, torn>>

Actors == Requests \cup Workers

-----------------------------------------------------------------------------
(* Lots.                                                                     *)

OfSymbol(L, s) == {l \in L : l.symbol = s}
SharesIn(L, s) == MapThenSumSet(LAMBDA l : l.left, OfSymbol(L, s))

(* PositionLot.remaining_cost_basis: fees count in proportion.               *)
Basis(l) == l.left * l.price + (l.fees * l.left) \div l.quantity
BasisOf(L) == MapThenSumSet(Basis, L)

(* create_position_lot: the lot of an input, and the sets of lots an input   *)
(* may become, by the ids its lots are given.                                *)
WithId(o, i) == [id |-> i, symbol |-> o.symbol, quantity |-> o.quantity, left |-> o.left,
                 price |-> o.price, cur |-> o.cur, fees |-> o.fees, at |-> o.at]
Created(S) == {{WithId(o, f[o]) : o \in S} : f \in Injection(S, LotIds \ issued)}
Ids(L) == {l.id : l \in L}

(* Mutant: lots are taken in the order of their ids.                         *)
EarlierId(l, k) == l.id < k.id

Earlier(l, k) == l.at < k.at \/ (l.at = k.at /\ l.id < k.id)

(* Mutant: all the fees of a lot go with the first share sold of it.         *)
SellAllFees(acc, l, price) ==
  LET n == Min({l.left, acc.todo})
  IN [todo |-> acc.todo - n,
      basis |-> acc.basis + n * l.price + (IF n > 0 THEN l.fees ELSE 0),
      ids |-> IF n > 0 THEN acc.ids \cup {l.id} ELSE acc.ids,
      lots |-> IF n > 0 THEN (acc.lots \ {l}) \cup {[l EXCEPT !.left = @ - n, !.cur = price]}
               ELSE acc.lots]

(* One turn of the loop of _apply_fifo_sale.                                 *)
SellFrom(acc, l, price) ==
  LET n == Min({l.left, acc.todo})
  IN [todo |-> acc.todo - n,
      basis |-> acc.basis + n * l.price + (l.fees * n) \div l.quantity,
      ids |-> IF n > 0 THEN acc.ids \cup {l.id} ELSE acc.ids,
      lots |-> IF n > 0 THEN (acc.lots \ {l}) \cup {[l EXCEPT !.left = @ - n, !.cur = price]}
               ELSE acc.lots]

(* sorted: every lot of S once, in the order of purchase.                    *)
InOrder(S) ==
  CHOOSE q \in Bijection(1 .. Cardinality(S), S) :
    \A i, j \in DOMAIN q : i < j => Earlier(q[i], q[j])

(* _apply_fifo_sale: matching lots in the order of purchase; what is left of *)
(* the symbol is repriced at the sale's price.                               *)
ApplyFifoSale(L, o) ==
  LET matching == InOrder({l \in OfSymbol(L, o.symbol) : l.left > 0})
      sold == FoldLeft(LAMBDA acc, l : SellFrom(acc, l, o.price),
                       [todo |-> o.quantity, basis |-> 0, ids |-> {}, lots |-> L], matching)
  IN [lots |-> {IF l.symbol = o.symbol /\ l.left > 0 THEN [l EXCEPT !.cur = o.price] ELSE l :
                  l \in sold.lots},
      realized |-> o.quantity * o.price - o.fees - sold.basis,
      ids |-> sold.ids]

(* rebuild_portfolio_positions: one position per symbol with shares left.    *)
Rollup(L) ==
  {LET S == OfSymbol(L, s)
   IN [symbol |-> s, quantity |-> SharesIn(L, s), basis |-> BasisOf(S),
       value |-> MapThenSumSet(LAMBDA l : l.left * l.cur, S)] :
     s \in {l.symbol : l \in {k \in L : k.left > 0}}}

-----------------------------------------------------------------------------
(* Money.                                                                    *)

(* TradeTransaction.cash_delta and cash_transaction_cash_delta.              *)
CashDelta(e) ==
  CASE e.kind = "buy" -> -(e.quantity * e.price + e.fees)
    [] e.kind = "sell" -> e.quantity * e.price - e.fees
    [] e.kind \in Inflows -> e.amount
    [] e.kind \in Outflows -> -e.amount

ExternalFlow(m) == IF m.kind \in External THEN CashDelta(m) ELSE 0
SumOver(s, Val(_)) == FoldLeft(LAMBDA acc, e : acc + Val(e), 0, s)

Valuation == [cash |-> cash,
              value |-> MapThenSumSet(LAMBDA p : p.value, positions),
              contributed |-> SumOver(moves, ExternalFlow)]

-----------------------------------------------------------------------------
(* Operations, as the sequences of repository calls they make.               *)

(* Mutant: the trade is recorded before the lot it created.                  *)
BuyStepsTradeFirst ==
  <<"add_trade", "add_lots", "update_cash", "rebuild", "update_positions", "snapshot">>
BuySteps ==
  <<"add_lots", "add_trade", "update_cash", "rebuild", "update_positions", "snapshot">>
SellSteps == <<"match_lots", "replace_lots", "add_trade", "update_cash", "rebuild",
               "update_positions", "snapshot">>
MoveSteps == <<"add_move", "update_cash", "snapshot">>
(* Mutant: the portfolio is valued before its positions are written.         *)
ManualStepsValuedFirst == <<"add_lots", "rebuild", "snapshot", "update_positions">>
ManualSteps == <<"add_lots", "rebuild", "update_positions", "snapshot">>
(* Mutant: the positions are those read before the lots were replaced.       *)
ReplaceStepsStale == <<"rebuild", "replace_lots", "update_positions", "snapshot">>
ReplaceSteps == <<"replace_lots", "rebuild", "update_positions", "snapshot">>
PositionSteps == <<"update_positions", "snapshot">>
RebuildSteps == <<"rebuild", "update_positions">>

FirstSteps == {"add_lots", "match_lots", "replace_lots", "add_move"}

NoEntry == [kind |-> "none"]
Idle == [todo |-> <<>>, cash |-> 0, lots |-> {}, positions |-> {}, entry |-> NoEntry,
         outside |-> FALSE]

Begin(a, t) ==
  /\ thread[a].todo = <<>>
  /\ begun < MaxOps
  /\ begun' = begun + 1
  /\ thread' = [thread EXCEPT ![a] = t]
  /\ UNCHANGED <<books, history>>

(* record_manual_trade reads the cash first of all.                          *)
BeginBuy(a, o) ==
  \E L \in Created({o}) :
    /\ issued' = issued \cup Ids(L)
    /\ Begin(a, [Idle EXCEPT !.todo = BuySteps, !.cash = cash, !.lots = L,
                   !.entry = [kind |-> "buy", symbol |-> o.symbol, quantity |-> o.quantity,
                              price |-> o.price, fees |-> o.fees, ids |-> Ids(L)]])

BeginSell(a, o) ==
  /\ Begin(a, [Idle EXCEPT !.todo = SellSteps, !.cash = cash,
                 !.entry = [kind |-> "sell", symbol |-> o.symbol, quantity |-> o.quantity,
                            price |-> o.price, fees |-> o.fees, ids |-> {}, realized |-> 0]])
  /\ UNCHANGED issued

(* record_cash_transaction.                                                  *)
BeginMove(a, m) ==
  /\ Begin(a, [Idle EXCEPT !.todo = MoveSteps, !.cash = cash, !.entry = m])
  /\ UNCHANGED issued

(* record_manual_lots (its job row is in JobQueue) and upload_positions_csv. *)
BeginManual(a, S) ==
  \E L \in Created(S) :
    /\ issued' = issued \cup Ids(L)
    /\ Begin(a, [Idle EXCEPT !.todo = ManualSteps, !.lots = L, !.outside = TRUE])
BeginUpload(a, S) ==
  \E L \in Created(S) :
    /\ issued' = issued \cup Ids(L)
    /\ Begin(a, [Idle EXCEPT !.todo = ReplaceSteps, !.lots = L, !.outside = TRUE])

(* delete_position_lot and delete_portfolio_position, which deletes the      *)
(* position alone when no lot matches it.                                    *)
BeginDeleteLot(a, i) ==
  /\ Deletes
  /\ i \in Ids(lots)
  /\ Begin(a, [Idle EXCEPT !.todo = ReplaceSteps, !.outside = TRUE,
                           !.lots = {l \in lots : l.id # i}])
  /\ UNCHANGED issued
BeginDeletePosition(a, s) ==
  /\ Deletes
  /\ \/ /\ OfSymbol(lots, s) # {}
        /\ Begin(a, [Idle EXCEPT !.todo = ReplaceSteps, !.outside = TRUE,
                                 !.lots = lots \ OfSymbol(lots, s)])
     \/ /\ OfSymbol(lots, s) = {}
        /\ OfSymbol(positions, s) # {}
        /\ Begin(a, [Idle EXCEPT !.todo = PositionSteps,
                                 !.positions = positions \ OfSymbol(positions, s)])
  /\ UNCHANGED issued

(* apply_market_quotes_to_portfolio, in a worker: all lots are written back  *)
(* when one has a new price; the positions alone when there is no lot.       *)
RepricedLots(q) == {IF l.symbol = q.symbol THEN [l EXCEPT !.cur = q.price] ELSE l : l \in lots}
RepricedPositions(q) ==
  {IF p.symbol = q.symbol THEN [p EXCEPT !.value = p.quantity * q.price] ELSE p :
     p \in positions}
BeginQuotes(w, q) ==
  /\ \/ /\ RepricedLots(q) # lots
        /\ Begin(w, [Idle EXCEPT !.todo = ReplaceSteps, !.lots = RepricedLots(q)])
     \/ /\ lots = {}
        /\ RepricedPositions(q) # positions
        /\ Begin(w, [Idle EXCEPT !.todo = PositionSteps, !.positions = RepricedPositions(q)])
  /\ UNCHANGED issued

(* The rebuild_positions job.                                                *)
BeginRebuild(w) == Begin(w, [Idle EXCEPT !.todo = RebuildSteps]) /\ UNCHANGED issued

-----------------------------------------------------------------------------
(* Repository calls.                                                         *)

At(a, step) == thread[a].todo # <<>> /\ Head(thread[a].todo) = step

(* What an operation keeps in mind after a step that left it with t.         *)
Continue(a, t) ==
  thread' = [thread EXCEPT ![a] = IF Len(t.todo) = 1 THEN Idle
                                  ELSE [t EXCEPT !.todo = Tail(@)]]
Proceed(a) == Continue(a, thread[a])

(* The lots of the table change to L, by a trade or not.                     *)
SetLots(a, L) ==
  /\ lots' = L
  /\ outside' =
       IF thread[a].outside
       THEN [basis |-> outside.basis + BasisOf(L) - BasisOf(lots),
             shares |-> [s \in Symbols |-> outside.shares[s] + SharesIn(L, s)
                                             - SharesIn(lots, s)],
             removed |-> outside.removed \cup (Ids(lots) \ Ids(L))]
       ELSE outside

AddLots(a) ==
  /\ At(a, "add_lots")
  /\ SetLots(a, lots \cup thread[a].lots)
  /\ Continue(a, [thread[a] EXCEPT !.lots = {}])
  /\ UNCHANGED <<cash, positions, trades, moves, valued, issued, begun, torn>>

(* A sale reads the lots and works out which it takes; or there are too few  *)
(* shares, and it is refused.                                                *)
MatchLots(a) ==
  LET o == thread[a].entry
      sale == ApplyFifoSale(lots, o)
  IN /\ At(a, "match_lots")
     /\ SharesIn(lots, o.symbol) >= o.quantity
     /\ Continue(a, [thread[a] EXCEPT
                       !.lots = sale.lots,
                       !.entry = [o EXCEPT !.ids = sale.ids, !.realized = sale.realized]])
     /\ UNCHANGED <<books, issued, begun, history>>
RefuseSale(a) ==
  /\ At(a, "match_lots")
  /\ SharesIn(lots, thread[a].entry.symbol) < thread[a].entry.quantity
  /\ thread' = [thread EXCEPT ![a] = Idle]
  /\ UNCHANGED <<books, issued, begun, history>>

(* Mutant: the new lots are inserted, the old ones not deleted.              *)
ReplaceLotsKeepOld(a) ==
  /\ At(a, "replace_lots")
  /\ SetLots(a, lots \cup thread[a].lots)
  /\ Continue(a, [thread[a] EXCEPT !.lots = {}])
  /\ UNCHANGED <<cash, positions, trades, moves, valued, issued, begun, torn>>

(* DELETE of all lots of the portfolio and INSERT of the given ones.         *)
ReplaceLots(a) ==
  /\ At(a, "replace_lots")
  /\ SetLots(a, thread[a].lots)
  /\ Continue(a, [thread[a] EXCEPT !.lots = {}])
  /\ UNCHANGED <<cash, positions, trades, moves, valued, issued, begun, torn>>

AddTrade(a) ==
  /\ At(a, "add_trade")
  /\ trades' = Append(trades, thread[a].entry)
  /\ Proceed(a)
  /\ UNCHANGED <<lots, cash, positions, moves, valued, issued, begun, history>>

AddCashTransaction(a) ==
  /\ At(a, "add_move")
  /\ moves' = Append(moves, thread[a].entry)
  /\ Proceed(a)
  /\ UNCHANGED <<lots, cash, positions, trades, valued, issued, begun, history>>

(* update_cash writes the cash read at the start, plus the delta.            *)
UpdateCash(a) ==
  /\ At(a, "update_cash")
  /\ cash' = thread[a].cash + CashDelta(thread[a].entry)
  /\ Continue(a, [thread[a] EXCEPT !.cash = 0, !.entry = NoEntry])
  /\ UNCHANGED <<lots, positions, trades, moves, valued, issued, begun, history>>

(* rebuild_portfolio_positions reads the lots, and writes in another step.   *)
Rebuild(a) ==
  /\ At(a, "rebuild")
  /\ Continue(a, [thread[a] EXCEPT !.positions = Rollup(lots)])
  /\ torn' = torn \ {"positions"}
  /\ UNCHANGED <<books, issued, begun, outside>>

UpdatePositions(a) ==
  /\ At(a, "update_positions")
  /\ positions' = thread[a].positions
  /\ Continue(a, [thread[a] EXCEPT !.positions = {}])
  /\ UNCHANGED <<lots, cash, trades, moves, valued, issued, begun, history>>

CreateValuationSnapshot(a) ==
  /\ At(a, "snapshot")
  /\ valued' = Valuation
  /\ Proceed(a)
  /\ torn' = IF "positions" \in torn THEN torn ELSE torn \ {"valuation"}
  /\ UNCHANGED <<lots, cash, positions, trades, moves, issued, begun, outside>>

(* What an operation that has begun to write has yet to bring in order.      *)
Closing == [books |-> "update_cash", positions |-> "update_positions",
            valuation |-> "snapshot"]
Owes(t, x) ==
  /\ t.todo # <<>>
  /\ Head(t.todo) \notin FirstSteps
  /\ Contains(t.todo, Closing[x])

(* The process stops, or a call raises (two overlapping replace_lots that    *)
(* write a lot of the same id violate the primary key of position_lots, say; *)
(* two with disjoint ids may leave the lots of both, which is left out).     *)
Crash(a) ==
  /\ Crashes
  /\ thread[a].todo # <<>>
  /\ torn' = torn \cup {x \in DOMAIN Closing : Owes(thread[a], x)}
  /\ thread' = [thread EXCEPT ![a] = Idle]
  /\ UNCHANGED <<books, issued, begun, outside>>

-----------------------------------------------------------------------------
Init ==
  /\ lots = {}
  /\ cash = 0
  /\ positions = {}
  /\ trades = <<>>
  /\ moves = <<>>
  /\ valued = [cash |-> 0, value |-> 0, contributed |-> 0]
  /\ thread = [a \in Actors |-> Idle]
  /\ issued = {}
  /\ begun = 0
  /\ outside = [basis |-> 0, shares |-> [s \in Symbols |-> 0], removed |-> {}]
  /\ torn = {}

Request(r) ==
  \/ \E o \in Buys : BeginBuy(r, o)
  \/ \E o \in Sells : BeginSell(r, o)
  \/ \E m \in Moves : BeginMove(r, m)
  \/ \E S \in Manuals : BeginManual(r, S)
  \/ \E S \in Uploads : BeginUpload(r, S)
  \/ \E i \in LotIds : BeginDeleteLot(r, i)
  \/ \E s \in Symbols : BeginDeletePosition(r, s)

Job(w) == BeginRebuild(w) \/ \E q \in Quotes : BeginQuotes(w, q)

Step(a) ==
  \/ AddLots(a) \/ MatchLots(a) \/ RefuseSale(a) \/ ReplaceLots(a) \/ AddTrade(a)
  \/ AddCashTransaction(a) \/ UpdateCash(a) \/ Rebuild(a) \/ UpdatePositions(a)
  \/ CreateValuationSnapshot(a)

Next ==
  \/ \E r \in Requests : Request(r)
  \/ \E w \in Workers : Job(w)
  \/ \E a \in Actors : Step(a) \/ Crash(a)

Spec == Init /\ [][Next]_vars

-----------------------------------------------------------------------------
Lot == [id: LotIds, symbol: Symbols, quantity: Nat, left: Nat, price: Nat, cur: Nat,
        fees: Nat, at: Nat]
PositionRow == [symbol: Symbols, quantity: Nat, basis: Nat, value: Nat]

(* The types, with the two primary keys.                                     *)
TypeOK ==
  /\ lots \subseteq Lot /\ Cardinality(Ids(lots)) = Cardinality(lots)
  /\ \A l \in lots : l.left <= l.quantity
  /\ cash \in Int
  /\ positions \subseteq PositionRow
  /\ Cardinality({p.symbol : p \in positions}) = Cardinality(positions)
  /\ \A i \in DOMAIN trades : trades[i].ids \subseteq issued
  /\ \A i \in DOMAIN moves : moves[i].kind \in Inflows \cup Outflows
  /\ issued \subseteq LotIds
  /\ begun \in 0 .. MaxOps
  /\ \A a \in Actors : thread[a].lots \subseteq Lot /\ thread[a].cash \in Int
  /\ torn \subseteq DOMAIN Closing

Settled(x) == x \notin torn /\ \A a \in Actors : ~Owes(thread[a], x)

(* Book value: cash plus the cost of the shares held is what was paid in,    *)
(* plus realized gains, plus what lots brought in or took away by hand; and  *)
(* the shares held are those bought and brought in less those sold.          *)
Income(t) == IF t.kind = "sell" THEN t.realized ELSE 0
Shares(s, t) ==
  IF t.symbol # s THEN 0 ELSE IF t.kind = "buy" THEN t.quantity ELSE -t.quantity
BooksBalance ==
  Settled("books") =>
    /\ cash + BasisOf(lots) = SumOver(moves, CashDelta) + SumOver(trades, Income)
                                + outside.basis
    /\ \A s \in Symbols :
         SharesIn(lots, s) = SumOver(trades, LAMBDA t : Shares(s, t)) + outside.shares[s]

(* The positions are the roll-up of the lots, also after an operation that   *)
(* stopped half way was followed by any that rebuilds.                       *)
PositionsFollowLots == Settled("positions") => positions = Rollup(lots)

(* The latest snapshot values the portfolio as it stands.                    *)
ValuationIsCurrent ==
  (Settled("positions") /\ Settled("valuation")) => valued = Valuation

(* "Buys create new lots, sells consume existing lots" (README): a recorded  *)
(* buy has its lot, and every lot a recorded sale took from has shares       *)
(* missing, unless the lot was deleted by hand.                              *)
TradesAreBacked ==
  \A n \in DOMAIN trades : \A i \in trades[n].ids \ outside.removed :
    \E l \in lots : l.id = i /\ (trades[n].kind = "sell" => l.left < l.quantity)

(* First in, first out: a sale about to be written takes from a lot what the *)
(* lots bought before it could not give.                                     *)
Before(l, k) == l.symbol = k.symbol /\ (l.at < k.at \/ (l.at = k.at /\ l.id < k.id))
SalesAreFifo ==
  \A a \in Actors :
    (At(a, "replace_lots") /\ thread[a].entry.kind = "sell") =>
      LET o == thread[a].entry
      IN \A l \in OfSymbol(lots, o.symbol) :
           LET older == MapThenSumSet(LAMBDA k : k.left, {k \in lots : Before(k, l)})
               taken == Min({l.left, Max({0, o.quantity - older})})
           IN \E k \in thread[a].lots : k.id = l.id /\ k.left = l.left - taken
=============================================================================
