------------------------------- MODULE BrokerCsv -------------------------------
(***************************************************************************)
(* POST upload-csv: what app/connectors/broker_csv.py makes of an export,  *)
(* and the lots and positions the route (app/api/routes.py) replaces those *)
(* of the portfolio by. The file is given row by row, then uploaded. Cells *)
(* are numbers already (_number), Blank where it finds none; texts, number *)
(* formats and warnings are left out. A price is kept as a value, price    *)
(* times quantity, so that no price is ever rounded. The interleaving of   *)
(* the upload with other operations is module PortfolioLedger.             *)
(***************************************************************************)
EXTENDS Integers, FiniteSets, SequencesExt

CONSTANTS
  Blank,         (* A cell that is empty or is not a number.                  *)
  Coins,         (* Assets of a Coinbase export.                              *)
  QuoteCoins,    (* CRYPTO_QUOTE_ASSETS.                                      *)
  Columns,       (* Columns found in the headers.                             *)
  CoinRows, PositionRecords,       (* Rows of either kind of file.            *)
  MaxCoinRows, MaxPositionRows     (* Bounds: rows of a file.                 *)

(* _number gives a number or nothing. What a conversion names in its notes   *)
(* is more than nothing (_parse_conversion), and the price of a coin is not  *)
(* negative: with a negative one, a purchase without a total would have a    *)
(* negative basis.                                                           *)
ASSUME CsvCells ==
  /\ Blank \notin Int
  /\ IsFiniteSet(Coins)
  /\ \A r \in CoinRows :
       /\ r.asset \in Coins \cup QuoteCoins
       /\ {r.quantity, r.total} \subseteq Int \cup {Blank} /\ r.spot \in Nat \cup {Blank}
       /\ r.notes # Blank => /\ {r.notes.from, r.notes.to} \subseteq Coins
                             /\ {r.notes.sold, r.notes.bought} \subseteq Nat \ {0}
  /\ \A r \in PositionRecords :
       {r.quantity, r.price, r.value, r.cost, r.average} \subseteq Int \cup {Blank}

VARIABLES
  columns,       (* Columns of the file.                                      *)
  records,       (* Its rows.                                                 *)
  upload         (* What the upload answered and left in the portfolio.       *)

csvVars == <<columns, records, upload>>

NotUploaded == [status |-> 0]
CsvInit ==
  /\ columns \in Columns
  /\ records = <<>>
  /\ upload = NotUploaded

(* _find_header_index: a transaction history, or a symbol and a quantity     *)
(* with something to price them by.                                          *)
IsCoinbase == {"transactiontype", "asset", "quantitytransacted"} \subseteq columns
IsPositions ==
  {"symbol", "quantity"} \subseteq columns /\ columns \cap {"price", "value", "cost", "average"} # {}

SumOf(S, f(_)) == FoldLeft(LAMBDA sum, x : sum + f(x), 0, SetToSeq(S))
Absolute(x) == IF x < 0 THEN -x ELSE x
Lesser(x, y) == IF x < y THEN x ELSE y

-----------------------------------------------------------------------------
(* _parse_coinbase: holdings rebuilt from transactions.                      *)

EmptyLedger == [quantity |-> 0, basis |-> 0, latest |-> 0]

(* _remove_crypto takes a share of the basis along with the coins.           *)
RemovedBasis(l, quantity) ==
  IF l.quantity <= 0 THEN 0 ELSE (l.basis * Lesser(quantity, l.quantity)) \div l.quantity
(* Mutant: the basis of what is removed stays.                               *)
RemoveQuantity(l, quantity) ==
  [l EXCEPT !.quantity = @ - Lesser(quantity, l.quantity)]
RemoveCrypto(l, quantity) ==
  [l EXCEPT !.quantity = @ - Lesser(quantity, l.quantity),
            !.basis = @ - RemovedBasis(l, quantity)]

(* The coins bought by a conversion cost what the coins sold had cost.       *)
AddConverted(l, bought, basis) ==
  [l EXCEPT !.quantity = @ + bought, !.basis = @ + basis,
            !.latest = IF basis > 0 THEN basis \div bought ELSE @]
Convert(ledgers, n) ==
  LET basis == RemovedBasis(ledgers[n.from], n.sold)
      left == [ledgers EXCEPT ![n.from] = RemoveCrypto(@, n.sold)]
  IN [left EXCEPT ![n.to] = AddConverted(@, n.bought, basis)]

Acquire(l, r) ==
  LET spot == IF r.spot = Blank THEN 0 ELSE r.spot
      cost == IF r.total \notin {Blank, 0} THEN Absolute(r.total)
              ELSE Absolute(r.quantity) * spot
  IN [l EXCEPT !.quantity = @ + Absolute(r.quantity), !.basis = @ + cost]

Priced(l, r) == IF r.spot # Blank /\ r.spot > 0 THEN [l EXCEPT !.latest = r.spot] ELSE l
Transact(l, r) ==
  LET priced == Priced(l, r)
  IN CASE r.action \in {"sell", "send"} -> RemoveCrypto(priced, Absolute(r.quantity))
       [] r.action \in {"buy", "reward"} -> Acquire(priced, r)
       [] OTHER -> priced

(* One row. A conversion is read from its notes alone; rows of dollars and   *)
(* stable coins are passed over.                                             *)
AddRecord(ledgers, r) ==
  IF r.action = "convert"
  THEN IF r.notes = Blank THEN ledgers ELSE Convert(ledgers, r.notes)
  ELSE IF r.asset \in QuoteCoins \/ r.quantity \in {Blank, 0} THEN ledgers
  ELSE [ledgers EXCEPT ![r.asset] = Transact(@, r)]

CoinLedgers(rows) == FoldLeft(AddRecord, [a \in Coins |-> EmptyLedger], rows)

Row(symbol, quantity, value, cost, n) ==
  [symbol |-> symbol, quantity |-> quantity, value |-> value, cost |-> cost, line |-> n]

ParseCoinbase(rows) ==
  LET ledgers == CoinLedgers(rows)
      valueOf(l) == IF l.latest # 0 THEN l.quantity * l.latest ELSE l.basis
      kept == {a \in Coins : ledgers[a].quantity > 0 /\ valueOf(ledgers[a]) > 0}
  IN {Row(a, ledgers[a].quantity, valueOf(ledgers[a]), ledgers[a].basis, 1) : a \in kept}

-----------------------------------------------------------------------------
(* _parse_positions: a snapshot of positions.                                *)

Cell(r, column) == IF column \in columns THEN r[column] ELSE Blank
Positive(x) == x # Blank /\ x > 0

(* By the price, the market value, or else the average cost.                 *)
ValueOf(r) ==
  LET price == Cell(r, "price")
      value == Cell(r, "value")
      average == Cell(r, "average")
  IN IF Positive(price) THEN r.quantity * price
     ELSE IF value \notin {Blank, 0} THEN Absolute(value)
     ELSE IF average # Blank THEN r.quantity * Absolute(average) ELSE 0
CostOf(r) ==
  LET cost == Cell(r, "cost")
      average == Cell(r, "average")
  IN IF cost # Blank /\ cost >= 0 THEN cost
     ELSE IF Positive(average) THEN r.quantity * average ELSE ValueOf(r)

(* Totals, cash and rows that are not long or have no price are left out.    *)
ParsePositions(rows) ==
  {Row(rows[n].symbol, rows[n].quantity, ValueOf(rows[n]), CostOf(rows[n]), n) :
     n \in {m \in DOMAIN rows : /\ rows[m].symbol # ""
                                /\ Positive(rows[m].quantity)
                                /\ ValueOf(rows[m]) > 0}}

-----------------------------------------------------------------------------
(* What becomes of the rows.                                                 *)

(* Mutant: of a symbol held in two accounts, the first account's.            *)
FirstOfEach(rows) ==
  {[symbol |-> r.symbol, quantity |-> r.quantity, value |-> r.value, cost |-> r.cost,
    average |-> IF r.cost > 0 THEN r.cost ELSE r.value] :
     r \in {s \in rows : \A o \in rows : o.symbol = s.symbol => o.line >= s.line}}
(* _aggregate_positions; average is average_cost times the quantity.         *)
RowsOf(rows, s) == {r \in rows : r.symbol = s}
TotalQuantity(rows) == SumOf(rows, LAMBDA r : r.quantity)
TotalValue(rows) == SumOf(rows, LAMBDA r : r.value)
TotalCost(rows) == SumOf(rows, LAMBDA r : r.cost)
AggregatePositions(rows) ==
  {LET mine == RowsOf(rows, s)
   IN [symbol |-> s, quantity |-> TotalQuantity(mine), value |-> TotalValue(mine),
       cost |-> TotalCost(mine),
       average |-> IF TotalCost(mine) > 0 THEN TotalCost(mine) ELSE TotalValue(mine)] :
     s \in {r.symbol : r \in rows}}

(* create_lots_from_aggregate_positions; paid is purchase_price times the    *)
(* quantity.                                                                 *)
LotsFromAggregatePositions(positions) ==
  {[symbol |-> p.symbol, quantity |-> p.quantity, value |-> p.value,
    paid |-> IF p.average # 0 THEN p.average ELSE p.value] : p \in positions}

(* rebuild_portfolio_positions, of lots of which nothing was sold.           *)
TotalPaid(lots) == SumOf(lots, LAMBDA l : l.paid)
RebuiltPositions(lots) ==
  {LET mine == RowsOf(lots, s)
   IN [symbol |-> s, quantity |-> TotalQuantity(mine), value |-> TotalValue(mine),
       cost |-> TotalPaid(mine)] : s \in {l.symbol : l \in lots}}

Parsed == IF IsCoinbase THEN ParseCoinbase(records) ELSE ParsePositions(records)

(* upload_positions_csv.                                                     *)
UploadCsv ==
  /\ upload = NotUploaded
  /\ LET imported == AggregatePositions(Parsed)
     IN upload' = IF ~(IsCoinbase \/ IsPositions) \/ imported = {} THEN [status |-> 400]
                  ELSE [status |-> 200,
                        positions |-> RebuiltPositions(LotsFromAggregatePositions(imported))]
  /\ UNCHANGED <<columns, records>>

(* The file has one row more.                                                *)
AnotherRow ==
  /\ upload = NotUploaded
  /\ \/ IsCoinbase /\ Len(records) < MaxCoinRows
        /\ \E r \in CoinRows : records' = Append(records, r)
     \/ ~IsCoinbase /\ IsPositions /\ Len(records) < MaxPositionRows
        /\ \E r \in PositionRecords : records' = Append(records, r)
  /\ UNCHANGED <<columns, upload>>

CsvNext == UploadCsv \/ AnotherRow
CsvSpec == CsvInit /\ [][CsvNext]_csvVars

-----------------------------------------------------------------------------
(* Properties.                                                               *)

TotalBasis(ledgers) == SumOf(Coins, LAMBDA a : ledgers[a].basis)

(* Basis goes where the coins go (_remove_crypto): a conversion moves it and *)
(* makes none, a sale takes it in proportion and leaves the average cost of  *)
(* the rest, and no coins means no basis, whatever came before.              *)
BasisFollowsCoins ==
  IsCoinbase /\ records # <<>> =>
    LET before == CoinLedgers(Front(records))
        after == CoinLedgers(records)
        r == Last(records)
    IN /\ \A a \in Coins : /\ after[a].quantity >= 0 /\ after[a].basis >= 0
                           /\ after[a].quantity = 0 => after[a].basis = 0
       /\ r.action = "convert" => TotalBasis(after) = TotalBasis(before)
       /\ r.action \in {"sell", "send"} =>
            \A a \in Coins : after[a].basis * before[a].quantity
                               = before[a].basis * after[a].quantity

(* What is imported survives the way through lots back into positions: every *)
(* usable row of a symbol counts once, in quantity, value and cost basis     *)
(* (test_broker_csv.py, test_duplicate_symbols_are_aggregated_across_        *)
(* accounts). A basis of nothing is the exception: it becomes the value.     *)
ImportKeepsTheBooks ==
  upload.status = 200 =>
    \A s \in {r.symbol : r \in Parsed} :
      LET rows == RowsOf(Parsed, s)
      IN RowsOf(upload.positions, s)
           = {[symbol |-> s, quantity |-> TotalQuantity(rows), value |-> TotalValue(rows),
               cost |-> IF TotalCost(rows) > 0 THEN TotalCost(rows) ELSE TotalValue(rows)]}
=============================================================================
