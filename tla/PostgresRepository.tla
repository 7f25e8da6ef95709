------------------------- MODULE PostgresRepository -------------------------
(***************************************************************************)
(* PostgresPortfolioRepository (app/db/repository.py) over the tables of   *)
(* app/db/schema.sql: what a deployment keeps. Private columns are sealed: *)
(* a row holds a placeholder, a keyed hash where it must be found or       *)
(* sorted, and an encrypted payload that reading opens and converts back.  *)
(*                                                                         *)
(* The tests run on InMemoryPortfolioRepository instead, and what they     *)
(* show carries over as far as the two agree: this module is shown to      *)
(* implement MemoryRepository, every call with the answer it gives there.  *)
(* A call is a transaction, or one transaction and a read.                 *)
(***************************************************************************)
EXTENDS Integers, SequencesExt

CONSTANTS
  None, Addresses, Normal, TokenHashes, TokenKinds, NewPortfolios, PositionSets, LotSets,
  Amounts, Moves, Trades, Valuations, SettingsRows, QuoteLists, TickerLists, Times,
  Options, Expiries, MaxWrites                         (* See MemoryRepository. *)

(* What callers hand over: ids and times are numbers, and no field is None   *)
(* that has a default; of a portfolio a symbol comes once, as its primary    *)
(* key demands; tickers of settings are in normal form.                      *)
ASSUME RepositoryInputs ==
  /\ MaxWrites \in Nat /\ None \notin Int /\ Times \subseteq Int
  /\ \A n \in Amounts : n # None
  /\ \A x \in NewPortfolios : x.cash # None
  /\ \A P \in PositionSets \cup {x.positions : x \in NewPortfolios} :
       /\ \A x, y \in P : x.symbol = y.symbol => x = y
       /\ \A x \in P : /\ None \notin {x.quantity, x.cost, x.class}
                       /\ x = [symbol |-> x.symbol, quantity |-> x.quantity, cost |-> x.cost,
                               class |-> x.class]
  /\ \A L \in LotSets \cup {x.lots : x \in NewPortfolios} :
       \A x \in L : /\ None \notin {x.left, x.source}
                    /\ x = [id |-> x.id, symbol |-> x.symbol, left |-> x.left, at |-> x.at,
                            source |-> x.source]
  /\ \A m \in Moves : /\ None \notin {m.amount, m.source} /\ {m.id, m.at} \subseteq Int
                      /\ m = [id |-> m.id, at |-> m.at, amount |-> m.amount, source |-> m.source]
  /\ \A t \in Trades : /\ t.lot_ids # None /\ {t.id, t.at} \subseteq Int
                       /\ t = [id |-> t.id, at |-> t.at, symbol |-> t.symbol,
                               realized |-> t.realized, lot_ids |-> t.lot_ids]
  /\ \A v \in Valuations : /\ v.equity # None /\ {v.id, v.at} \subseteq Int
                           /\ v = [id |-> v.id, at |-> v.at, equity |-> v.equity]
  /\ \A s \in SettingsRows :
       /\ s.rate # None
       /\ s = [rate |-> s.rate, benchmarks |-> s.benchmarks, target |-> s.target,
               score |-> s.score, watchlist |-> s.watchlist]
       /\ \A list \in {s.benchmarks, s.watchlist} :
            list = [n \in DOMAIN list |-> Normal[list[n]]]
  /\ \A l \in QuoteLists :
       /\ l \in Seq({l[n] : n \in DOMAIN l})
       /\ \A n \in DOMAIN l : l[n] = [ticker |-> l[n].ticker, price |-> l[n].price,
                                     fetched |-> l[n].fetched]
  /\ \A l \in TickerLists : l \in Seq({l[n] : n \in DOMAIN l})
  /\ \A o \in Options : {o.id, o.expiry, o.fetched} \subseteq Int

VARIABLES
  users, auth_tokens, portfolios, portfolio_positions, position_lots,
  background_jobs, cash_transactions, trade_transactions, portfolio_settings,
  valuation_snapshots, market_quotes, option_chain_snapshots,
  writes, call, answer

accounts == <<users, auth_tokens>>
books == <<portfolios, portfolio_positions, position_lots, background_jobs,
           cash_transactions, trade_transactions, portfolio_settings, valuation_snapshots>>
market == <<market_quotes, option_chain_snapshots>>
vars == <<accounts, books, market, writes, call, answer>>

Init ==
  /\ users = {} /\ auth_tokens = {}
  /\ portfolios = {} /\ portfolio_positions = {} /\ position_lots = {}
  /\ background_jobs = {} /\ cash_transactions = {} /\ trade_transactions = {}
  /\ portfolio_settings = {} /\ valuation_snapshots = {}
  /\ market_quotes = {} /\ option_chain_snapshots = {}
  /\ writes = 0
  /\ call = <<"start">>
  /\ answer = None

New == writes + 1
Call(c, a) == call' = c /\ answer' = a
Read(c, a) == Call(c, a) /\ UNCHANGED <<accounts, books, market, writes>>
Write(c, a) == Call(c, a) /\ writes < MaxWrites /\ writes' = writes + 1
Raised(error) == [raised |-> error]
Refuse(c, error) == Read(c, Raised(error))

-----------------------------------------------------------------------------
(* Rows, and what is kept in them.                                           *)

Of(rows, p) == {r \in rows : r.portfolio = p}
The(rows) == CHOOSE r \in rows : TRUE
OneOrNone(rows) == IF rows = {} THEN None ELSE The(rows)
IdsOf(rows) == {r.id : r \in rows}
WithId(rows, i) == The({r \in rows : r.id = i})
OrderBy(rows, Before(_, _)) ==
  CHOOSE q \in Bijection(1 .. Cardinality(rows), rows) :
    \A i, j \in DOMAIN q : i < j => Before(q[i], q[j])

(* ORDER BY created_at (the id is the number of the write), the date of an   *)
(* entry, and the freshness of a snapshot.                                   *)
Older(x, y) == x.id < y.id
Sooner(x, y) == x.at < y.at \/ (x.at = y.at /\ x.id < y.id)
Fetched(x, y) ==
  \/ x.fetched < y.fetched
  \/ x.fetched = y.fetched /\ x.expiry < y.expiry
  \/ x.fetched = y.fetched /\ x.expiry = y.expiry /\ x.id < y.id

(* encrypt_json and the two keyed hashes.                                    *)
Sealed(x) == [sealed |-> x]
Hashed(x) == [hash |-> x]

(* _float and `or`: what a value missing from a payload becomes.             *)
Float(x) == IF x = None THEN 0 ELSE x
Or(x, default) == IF x = None THEN default ELSE x

UserFrom(r) == [id |-> r.id, email |-> r.email_ciphertext.sealed, password |-> r.password,
                verified |-> r.verified]
PositionFrom(r) ==
  LET x == r.payload.sealed
  IN [x EXCEPT !.quantity = Float(@), !.cost = Float(@), !.class = Or(@, "equity")]
LotFrom(r) ==
  LET x == r.payload.sealed
  IN [id |-> r.id, symbol |-> x.symbol, left |-> Float(x.left), at |-> x.at,
      source |-> Or(x.source, r.source)]
MoveFrom(r) ==
  LET x == r.payload.sealed
  IN [id |-> r.id, at |-> x.at, amount |-> Float(x.amount), source |-> Or(x.source, "manual")]
TradeFrom(r) ==
  LET x == r.payload.sealed
  IN [id |-> r.id, at |-> x.at, symbol |-> x.symbol, realized |-> x.realized,
      lot_ids |-> Or(x.lot_ids, <<>>)]
SettingsFrom(r) ==
  LET x == r.payload.sealed
      upper(list) == [n \in DOMAIN list |-> Normal[list[n]]]
  IN [rate |-> Float(x.rate), benchmarks |-> upper(x.benchmarks), target |-> x.target,
      score |-> x.score, watchlist |-> upper(x.watchlist)]
ValuationFrom(r) ==
  LET x == r.payload.sealed
  IN [id |-> r.id, at |-> x.at, equity |-> Float(x.equity)]
JobFrom(r) == [id |-> r.id, kind |-> r.kind, status |-> r.status]

(* _load_jobs.                                                               *)
LoadJobs(jobs, p) ==
  LET rows == OrderBy(Of(jobs, p), Older)
  IN [n \in DOMAIN rows |-> JobFrom(rows[n])]

(* _portfolio_from_row, given the tables it reads.                           *)
PortfolioFrom(r, positions, lots, jobs) ==
  [id |-> r.id, user |-> r.user, cash |-> Float(r.payload.sealed.cash),
   positions |-> {PositionFrom(x) : x \in Of(positions, r.id)},
   lots |-> {LotFrom(x) : x \in Of(lots, r.id)},
   jobs |-> LoadJobs(jobs, r.id)]

PortfoliosWhere(P(_)) ==
  {PortfolioFrom(r, portfolio_positions, position_lots, background_jobs) :
     r \in {x \in portfolios : P(x)}}
Loaded(p) == OneOrNone(PortfoliosWhere(LAMBDA r : r.id = p))
(* The portfolio as the transaction of a write left it.                      *)
LoadedAfter(p) ==
  PortfolioFrom(WithId(portfolios', p), portfolio_positions', position_lots',
                background_jobs')

(* INSERT of positions and lots; their primary keys are (portfolio_id,       *)
(* symbol) and id.                                                           *)
PositionRows(p, positions) ==
  {[portfolio |-> p, symbol |-> Hashed(x.symbol), payload |-> Sealed(x)] : x \in positions}
LotRows(p, lots) ==
  {[id |-> x.id, portfolio |-> p, symbol |-> Hashed(x.symbol), source |-> x.source,
    payload |-> Sealed(x)] : x \in lots}
UniqueIds(rows) == \A r, s \in rows : r.id = s.id => r = s

-----------------------------------------------------------------------------
(* Users and tokens.                                                         *)

EmailHash(address) == Hashed(Normal[address])

CreateUser(address, password) ==
  LET row == [id |-> New, email_hash |-> EmailHash(address),
              email_ciphertext |-> Sealed(Normal[address]),
              password |-> password, verified |-> FALSE]
      c == <<"create_user", address, password>>
  IN \/ /\ \E r \in users : r.email_hash = row.email_hash
        /\ Refuse(c, "ValueError")
     \/ /\ \A r \in users : r.email_hash # row.email_hash
        /\ Write(c, UserFrom(row))
        /\ users' = users \cup {row}
        /\ UNCHANGED <<auth_tokens, books, market>>

GetUser(u) ==
  Read(<<"get_user", u>>, OneOrNone({UserFrom(r) : r \in {x \in users : x.id = u}}))
GetUserByEmail(address) ==
  Read(<<"get_user_by_email", address>>,
       OneOrNone({UserFrom(r) : r \in {x \in users : x.email_hash = EmailHash(address)}}))

(* UPDATE ... WHERE id, then get_user.                                       *)
UpdateUser(c, u, Changed(_)) ==
  LET row == WithId(users, u)
  IN \/ u \notin IdsOf(users) /\ Refuse(c, "KeyError")
     \/ /\ u \in IdsOf(users)
        /\ users' = (users \ {row}) \cup {Changed(row)}
        /\ Write(c, UserFrom(WithId(users', u)))
        /\ UNCHANGED <<auth_tokens, books, market>>
MarkUserEmailVerified(u) ==
  UpdateUser(<<"mark_user_email_verified", u>>, u, LAMBDA r : [r EXCEPT !.verified = TRUE])
UpdateUserPassword(u, password) ==
  UpdateUser(<<"update_user_password", u, password>>, u,
             LAMBDA r : [r EXCEPT !.password = password])

CreateAuthToken(u, hash, kind) ==
  LET row == [id |-> New, user |-> u, hash |-> hash, kind |-> kind,
              consumed |-> FALSE, revoked |-> FALSE]
  IN /\ u \in IdsOf(users)
     /\ \A r \in auth_tokens : r.hash # hash
     /\ Write(<<"create_auth_token", u, hash, kind>>, row)
     /\ auth_tokens' = auth_tokens \cup {row}
     /\ UNCHANGED <<users, books, market>>

GetAuthToken(hash, kind) ==
  Read(<<"get_auth_token", hash, kind>>,
       OneOrNone({r \in auth_tokens : r.hash = hash /\ r.kind = kind}))

UpdateAuthTokens(c, matching, Changed(_), a) ==
  /\ Write(c, a)
  /\ auth_tokens' = (auth_tokens \ matching) \cup {Changed(r) : r \in matching}
  /\ UNCHANGED <<users, books, market>>
UpdateAuthToken(c, i, Changed(_)) ==
  LET matching == {r \in auth_tokens : r.id = i}
  IN \/ matching = {} /\ Refuse(c, "KeyError")
     \/ matching # {} /\ UpdateAuthTokens(c, matching, Changed, Changed(The(matching)))
ConsumeAuthToken(i) ==
  UpdateAuthToken(<<"consume_auth_token", i>>, i, LAMBDA r : [r EXCEPT !.consumed = TRUE])
RevokeAuthToken(i) ==
  UpdateAuthToken(<<"revoke_auth_token", i>>, i, LAMBDA r : [r EXCEPT !.revoked = TRUE])
RevokeUserTokens(u, kind) ==
  LET live == {r \in auth_tokens : r.user = u /\ ~r.revoked}
      matching == IF kind = None THEN live ELSE {r \in live : r.kind = kind}
  IN UpdateAuthTokens(<<"revoke_user_tokens", u, kind>>, matching,
                      LAMBDA r : [r EXCEPT !.revoked = TRUE], Cardinality(matching))

AccountCall ==
  \/ \E a \in Addresses, p \in {"old", "new"} : CreateUser(a, p)
  \/ \E u \in 1 .. MaxWrites : GetUser(u)
  \/ \E a \in Addresses : GetUserByEmail(a)
  \/ \E u \in 1 .. MaxWrites : MarkUserEmailVerified(u) \/ UpdateUserPassword(u, "new")
  \/ \E u \in 1 .. MaxWrites, h \in TokenHashes, k \in TokenKinds : CreateAuthToken(u, h, k)
  \/ \E h \in TokenHashes, k \in TokenKinds : GetAuthToken(h, k)
  \/ \E i \in 1 .. MaxWrites : ConsumeAuthToken(i) \/ RevokeAuthToken(i)
  \/ \E r \in users, k \in TokenKinds \cup {None} : RevokeUserTokens(r.id, k)

-----------------------------------------------------------------------------
(* Portfolios.                                                               *)

Ledger == <<cash_transactions, trade_transactions, portfolio_settings, valuation_snapshots>>
Exists(p) == p \in IdsOf(portfolios)

Create(u, cash, positions, lots) ==
  LET row == [id |-> New, user |-> u, payload |-> Sealed([cash |-> cash])]
  IN /\ u \in IdsOf(users)
     /\ UniqueIds(position_lots \cup LotRows(New, lots))
     /\ portfolios' = portfolios \cup {row}
     /\ portfolio_positions' = portfolio_positions \cup PositionRows(New, positions)
     /\ position_lots' = position_lots \cup LotRows(New, lots)
     /\ UNCHANGED background_jobs
     /\ Write(<<"create", u, cash, positions, lots>>, LoadedAfter(New))
     /\ UNCHANGED <<accounts, Ledger, market>>

Get(p) == Read(<<"get", p>>, Loaded(p))
ListPortfolios(u) ==
  Read(<<"list_portfolios", u>>, PortfoliosWhere(LAMBDA r : r.user = u))

(* Mutant: the DELETE has no WHERE clause.                                   *)
ReplacePositionsOfAll(p, positions) ==
  /\ Exists(p)
  /\ portfolio_positions' = PositionRows(p, positions)
  /\ UNCHANGED <<portfolios, position_lots, background_jobs>>
  /\ Write(<<"replace_positions", p, positions>>, LoadedAfter(p))
  /\ UNCHANGED <<accounts, Ledger, market>>
ReplacePositions(p, positions) ==
  /\ Exists(p)
  /\ portfolio_positions' = (portfolio_positions \ Of(portfolio_positions, p))
                              \cup PositionRows(p, positions)
  /\ UNCHANGED <<portfolios, position_lots, background_jobs>>
  /\ Write(<<"replace_positions", p, positions>>, LoadedAfter(p))
  /\ UNCHANGED <<accounts, Ledger, market>>

SetLots(c, p, rows) ==
  /\ Exists(p)
  /\ UniqueIds(rows)
  /\ position_lots' = rows
  /\ UNCHANGED <<portfolios, portfolio_positions, background_jobs>>
  /\ Write(c, LoadedAfter(p))
  /\ UNCHANGED <<accounts, Ledger, market>>
AddLots(p, lots) ==
  /\ position_lots \cap LotRows(p, lots) = {}
  /\ SetLots(<<"add_lots", p, lots>>, p, position_lots \cup LotRows(p, lots))
ReplaceLots(p, lots) ==
  SetLots(<<"replace_lots", p, lots>>, p,
          (position_lots \ Of(position_lots, p)) \cup LotRows(p, lots))
ListLots(p) ==
  Exists(p) /\ Read(<<"list_lots", p>>, {LotFrom(r) : r \in Of(position_lots, p)})

(* Reads the portfolio, and writes its name and the new cash back as one     *)
(* payload.                                                                  *)
UpdateCash(p, cash) ==
  /\ Exists(p)
  /\ LET row == WithId(portfolios, p)
     IN portfolios' = (portfolios \ {row})
                        \cup {[row EXCEPT !.payload = Sealed([cash |-> cash])]}
  /\ UNCHANGED <<portfolio_positions, position_lots, background_jobs>>
  /\ Write(<<"update_cash", p, cash>>, LoadedAfter(p))
  /\ UNCHANGED <<accounts, Ledger, market>>

(* The date stays readable, so that the listing can sort by it.              *)
EntryRow(p, x) == [id |-> x.id, portfolio |-> p, at |-> x.at, payload |-> Sealed(x)]
Added(rows, p, x) == Exists(p) /\ UniqueIds(rows \cup {EntryRow(p, x)}) /\ EntryRow(p, x) \notin rows
Entries(rows, p, From(_)) ==
  LET listed == OrderBy(Of(rows, p), Sooner)
  IN [n \in DOMAIN listed |-> From(listed[n])]

AddCashTransaction(p, m) ==
  /\ Added(cash_transactions, p, m)
  /\ Write(<<"add_cash_transaction", p, m>>, m)
  /\ cash_transactions' = cash_transactions \cup {EntryRow(p, m)}
  /\ UNCHANGED <<portfolios, portfolio_positions, position_lots, background_jobs,
                 trade_transactions, portfolio_settings, valuation_snapshots, accounts, market>>
ListCashTransactions(p) ==
  Read(<<"list_cash_transactions", p>>, Entries(cash_transactions, p, MoveFrom))

AddTradeTransaction(p, t) ==
  /\ Added(trade_transactions, p, t)
  /\ Write(<<"add_trade_transaction", p, t>>, t)
  /\ trade_transactions' = trade_transactions \cup {EntryRow(p, t)}
  /\ UNCHANGED <<portfolios, portfolio_positions, position_lots, background_jobs,
                 cash_transactions, portfolio_settings, valuation_snapshots, accounts, market>>
ListTradeTransactions(p) ==
  Read(<<"list_trade_transactions", p>>, Entries(trade_transactions, p, TradeFrom))

AddValuationSnapshot(p, v) ==
  /\ Added(valuation_snapshots, p, v)
  /\ Write(<<"add_valuation_snapshot", p, v>>, v)
  /\ valuation_snapshots' = valuation_snapshots \cup {EntryRow(p, v)}
  /\ UNCHANGED <<portfolios, portfolio_positions, position_lots, background_jobs,
                 cash_transactions, trade_transactions, portfolio_settings, accounts, market>>
ListValuationSnapshots(p) ==
  Read(<<"list_valuation_snapshots", p>>, Entries(valuation_snapshots, p, ValuationFrom))

DefaultSettings == [rate |-> 2, benchmarks |-> <<>>, target |-> None, score |-> 5,
                    watchlist |-> <<>>]
SettingsOf(p) ==
  LET found == Of(portfolio_settings, p)
  IN IF found # {} THEN SettingsFrom(The(found)) ELSE DefaultSettings
GetPortfolioSettings(p) ==
  Read(<<"get_portfolio_settings", p>>,
       IF Exists(p) THEN SettingsOf(p) ELSE Raised("KeyError"))

(* INSERT ... ON CONFLICT (portfolio_id) DO UPDATE.                          *)
UpsertPortfolioSettings(p, s) ==
  /\ Exists(p)
  /\ Write(<<"upsert_portfolio_settings", p, s>>, s)
  /\ portfolio_settings' = (portfolio_settings \ Of(portfolio_settings, p))
                             \cup {[portfolio |-> p, payload |-> Sealed(s)]}
  /\ UNCHANGED <<portfolios, portfolio_positions, position_lots, background_jobs,
                 cash_transactions, trade_transactions, valuation_snapshots, accounts, market>>

EnqueueBackgroundJob(p, kind) ==
  LET row == [id |-> New, portfolio |-> p, kind |-> kind, status |-> "pending"]
  IN /\ Exists(p)
     /\ Write(<<"enqueue_background_job", p, kind>>, JobFrom(row))
     /\ background_jobs' = background_jobs \cup {row}
     /\ UNCHANGED <<portfolios, portfolio_positions, position_lots, accounts, Ledger, market>>

(* UPDATE ... WHERE portfolio_id AND id RETURNING.                           *)
CompleteBackgroundJob(p, i, status) ==
  LET c == <<"complete_background_job", p, i, status>>
      row == The({r \in Of(background_jobs, p) : r.id = i})
  IN /\ Exists(p)
     /\ \/ /\ \A r \in Of(background_jobs, p) : r.id # i
           /\ Refuse(c, "KeyError")
        \/ /\ \E r \in Of(background_jobs, p) : r.id = i
           /\ Write(c, JobFrom([row EXCEPT !.status = status]))
           /\ background_jobs' = (background_jobs \ {row}) \cup {[row EXCEPT !.status = status]}
           /\ UNCHANGED <<portfolios, portfolio_positions, position_lots, accounts, Ledger,
                          market>>

HoldingCall(p) ==
  \/ ListLots(p)
  \/ \E P \in PositionSets : ReplacePositions(p, P)
  \/ \E L \in LotSets : AddLots(p, L) \/ ReplaceLots(p, L)
  \/ EnqueueBackgroundJob(p, "rebuild_positions")
  \/ \E i \in 1 .. MaxWrites : CompleteBackgroundJob(p, i, "completed")

LedgerCall(p) ==
  \/ ListCashTransactions(p) \/ ListTradeTransactions(p) \/ ListValuationSnapshots(p)
  \/ GetPortfolioSettings(p)
  \/ \E n \in Amounts : UpdateCash(p, n)
  \/ \E m \in Moves : AddCashTransaction(p, m)
  \/ \E t \in Trades : AddTradeTransaction(p, t)
  \/ \E v \in Valuations : AddValuationSnapshot(p, v)
  \/ \E s \in SettingsRows : UpsertPortfolioSettings(p, s)

PortfolioCall ==
  \/ \E r \in users, x \in NewPortfolios : Create(r.id, x.cash, x.positions, x.lots)
  \/ \E u \in 1 .. MaxWrites : ListPortfolios(u)
  \/ \E p \in 1 .. MaxWrites : Get(p)

-----------------------------------------------------------------------------
(* Market data.                                                              *)

NormalizeTickers(list) ==
  FoldLeft(LAMBDA kept, t :
             IF Normal[t] = None \/ Contains(kept, Normal[t]) THEN kept
             ELSE Append(kept, Normal[t]), <<>>, list)

(* INSERT ... ON CONFLICT (ticker) DO UPDATE, quote after quote.             *)
Upserted(rows, q) == {r \in rows : r.ticker # Normal[q.ticker]}
                       \cup {[q EXCEPT !.ticker = Normal[@]]}
UpsertMarketQuotes(list) ==
  /\ Write(<<"upsert_market_quotes", list>>,
           [n \in DOMAIN list |-> [list[n] EXCEPT !.ticker = Normal[@]]])
  /\ market_quotes' = FoldLeft(Upserted, market_quotes, list)
  /\ UNCHANGED <<accounts, books, option_chain_snapshots>>

Fresh(r, since) == since = None \/ r.fetched >= since

(* The rows come in any order and are put in that of the request.            *)
GetMarketQuotes(list, since) ==
  LET normalized == NormalizeTickers(list)
      rows == {r \in market_quotes : Contains(normalized, r.ticker) /\ Fresh(r, since)}
      of(t) == {r \in rows : r.ticker = t}
      found == FoldLeft(LAMBDA kept, t : IF of(t) = {} THEN kept ELSE Append(kept, The(of(t))),
                        <<>>, normalized)
  IN Read(<<"get_market_quotes", list, since>>, found)

(* INSERT ... ON CONFLICT (snapshot_hash) DO NOTHING; the row kept answers.  *)
AddOptionChainSnapshot(o) ==
  LET same == {r \in option_chain_snapshots : r.hash = o.hash}
      c == <<"add_option_chain_snapshot", o>>
  IN \/ same # {} /\ Read(c, The(same))
     \/ /\ same = {}
        /\ UniqueIds(option_chain_snapshots \cup {o})
        /\ Write(c, o)
        /\ option_chain_snapshots' = option_chain_snapshots \cup {o}
        /\ UNCHANGED <<accounts, books, market_quotes>>

ListOptionChainSnapshots(t, expiry, since) ==
  LET rows == {r \in option_chain_snapshots : /\ r.ticker = Normal[t]
                                              /\ expiry = None \/ r.expiry = expiry
                                              /\ Fresh(r, since)}
  IN Read(<<"list_option_chain_snapshots", t, expiry, since>>, OrderBy(rows, Fetched))

PurgeOptionChainSnapshots(before) ==
  LET gone == {r \in option_chain_snapshots : r.fetched < before}
  IN /\ Write(<<"purge_option_chain_snapshots", before>>, Cardinality(gone))
     /\ option_chain_snapshots' = option_chain_snapshots \ gone
     /\ UNCHANGED <<accounts, books, market_quotes>>

MarketCall ==
  \/ \E l \in QuoteLists : UpsertMarketQuotes(l)
  \/ \E l \in TickerLists, t \in Times \cup {None} : GetMarketQuotes(l, t)
  \/ \E o \in Options : AddOptionChainSnapshot(o)
  \/ \E l \in TickerLists, e \in Expiries \cup {None}, t \in Times \cup {None} :
       ListOptionChainSnapshots(Head(l), e, t)
  \/ \E t \in Times : PurgeOptionChainSnapshots(t)

(* ON DELETE CASCADE: with the users go their tokens, with the portfolios    *)
(* all that belongs to them.                                                 *)
DeleteUsers == users' = {} /\ auth_tokens' = {r \in auth_tokens : r.user \notin {u.id : u \in users}}
DeletePortfolios ==
  LET cascade(rows) == {r \in rows : r.portfolio \notin {p.id : p \in portfolios}}
  IN /\ portfolios' = {}
     /\ portfolio_positions' = cascade(portfolio_positions)
     /\ position_lots' = cascade(position_lots)
     /\ background_jobs' = cascade(background_jobs)
     /\ cash_transactions' = cascade(cash_transactions)
     /\ trade_transactions' = cascade(trade_transactions)
     /\ portfolio_settings' = cascade(portfolio_settings)
     /\ valuation_snapshots' = cascade(valuation_snapshots)

(* clear, where ALLOW_POSTGRES_REPOSITORY_CLEAR is set.                      *)
Clear ==
  /\ Write(<<"clear">>, None)
  /\ option_chain_snapshots' = {}
  /\ market_quotes' = {}
  /\ DeletePortfolios
  /\ DeleteUsers

Next ==
  \/ AccountCall \/ PortfolioCall \/ MarketCall \/ Clear
  \/ \E p \in 1 .. MaxWrites : HoldingCall(p) \/ LedgerCall(p)

Spec == Init /\ [][Next]_vars

-----------------------------------------------------------------------------
(* The dictionaries these tables stand for.                                  *)
ById(rows) == [i \in IdsOf(rows) |-> WithId(rows, i)]
UsersById(rows) == [i \in IdsOf(rows) |-> UserFrom(WithId(rows, i))]
ByEmail(rows) == [e \in {UserFrom(r).email : r \in rows} |->
                    The({r \in rows : UserFrom(r).email = e}).id]
ByHash(rows) == [h \in {r.hash : r \in rows} |-> The({r \in rows : r.hash = h}).id]
PortfoliosById(rows, positions, lots, jobs) ==
  [i \in IdsOf(rows) |-> PortfolioFrom(WithId(rows, i), positions, lots, jobs)]
OfPortfolios(rows, From(_)) ==
  [p \in {r.portfolio : r \in rows} |-> {From(r) : r \in Of(rows, p)}]
ByTicker(rows) == [t \in {r.ticker : r \in rows} |-> The({r \in rows : r.ticker = t})]

DictUsers == UsersById(users)
DictEmails == ByEmail(users)
DictTokens == ById(auth_tokens)
DictHashes == ByHash(auth_tokens)
DictPortfolios ==
  PortfoliosById(portfolios, portfolio_positions, position_lots, background_jobs)
DictMoves == OfPortfolios(cash_transactions, MoveFrom)
DictTrades == OfPortfolios(trade_transactions, TradeFrom)
DictSettings == [p \in {r.portfolio : r \in portfolio_settings} |-> SettingsOf(p)]
DictValuations == OfPortfolios(valuation_snapshots, ValuationFrom)
DictQuotes == ByTicker(market_quotes)
DictOptions == ById(option_chain_snapshots)

Memory == INSTANCE MemoryRepository WITH
  users <- DictUsers, userIdsByEmail <- DictEmails,
  tokens <- DictTokens, tokenIdsByHash <- DictHashes,
  portfolios <- DictPortfolios, moves <- DictMoves, trades <- DictTrades,
  settings <- DictSettings, valuations <- DictValuations,
  quotes <- DictQuotes, options <- DictOptions

(* What the tests of the in-memory repository show holds of a deployment:    *)
(* for any sequence of calls the tables stand for the dictionaries of        *)
(* InMemoryPortfolioRepository, and each call gives the answer it gives      *)
(* there (repository.py, class docstrings and both sets of methods).         *)
PostgresImplementsMemory == Memory!Init /\ [][vars' # vars => Memory!Next]_vars
=============================================================================
