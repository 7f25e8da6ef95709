-------------------------- MODULE MemoryRepository --------------------------
(***************************************************************************)
(* InMemoryPortfolioRepository (app/db/repository.py): the dictionaries    *)
(* the tests and local runs keep, and the answer to every call. It is the  *)
(* specification the durable repository is held to (PostgresRepository).   *)
(*                                                                         *)
(* Calls are those the routes, the portfolio tasks and the worker make: of *)
(* portfolios and users that were looked up before. Every call holds the   *)
(* lock of the repository, so a call is one step. Time stamps that nothing *)
(* reads back (created_at, updated_at), names and currencies are left out; *)
(* an object is identified by the id its maker gave it, a user, a token, a *)
(* portfolio and a job by the write that made it. What a call hands out is *)
(* a copy here; the code hands out the stored object itself.               *)
(***************************************************************************)
EXTENDS Integers, SequencesExt

CONSTANTS
  None,          (* Python's None.                                          *)
  Addresses,     (* E-mail addresses as typed.                              *)
  Normal,        (* Address or ticker as typed -> its normal form.          *)
  TokenHashes, TokenKinds,
  NewPortfolios, PositionSets, LotSets, Amounts, (* Portfolios' contents.   *)
  Moves, Trades, Valuations, SettingsRows, (* Records the tasks add.        *)
  QuoteLists, TickerLists, Times,          (* Market data and when it was.  *)
  Options, Expiries,                       (* Option chain snapshots.       *)
  MaxWrites      (* Bound: writes to the repository.                        *)

VARIABLES
  users, userIdsByEmail, tokens, tokenIdsByHash,
  portfolios, moves, trades, settings, valuations,
  quotes, options,
  writes,        (* How many there were.                                    *)
  call, answer   (* The latest call and what it returned or raised.         *)

accounts == <<users, userIdsByEmail, tokens, tokenIdsByHash>>
books == <<portfolios, moves, trades, settings, valuations>>
market == <<quotes, options>>
vars == <<accounts, books, market, writes, call, answer>>

(* A dictionary without entries.                                             *)
Empty == [x \in {} |-> None]

Init ==
  /\ accounts = <<Empty, Empty, Empty, Empty>>
  /\ books = <<Empty, Empty, Empty, Empty, Empty>>
  /\ market = <<Empty, Empty>>
  /\ writes = 0
  /\ call = <<"start">>
  /\ answer = None

New == writes + 1
Put(f, k, v) == [x \in DOMAIN f \cup {k} |-> IF x = k THEN v ELSE f[x]]
Lookup(f, k) == IF k \in DOMAIN f THEN f[k] ELSE None
Under(f, k) == IF k \in DOMAIN f THEN f[k] ELSE {}

Call(c, a) == call' = c /\ answer' = a
Read(c, a) == Call(c, a) /\ UNCHANGED <<accounts, books, market, writes>>
Write(c, a) == Call(c, a) /\ writes < MaxWrites /\ writes' = writes + 1
Raised(error) == [raised |-> error]
Refuse(c, error) == Read(c, error)

(* sorted; here by when it happened, then by the id.                         *)
Sorted(S, Before(_, _)) ==
  CHOOSE q \in Bijection(1 .. Cardinality(S), S) :
    \A i, j \in DOMAIN q : i < j => Before(q[i], q[j])
Sooner(x, y) == x.at < y.at \/ (x.at = y.at /\ x.id < y.id)
Listed(S) == Sorted(S, Sooner)

-----------------------------------------------------------------------------
(* Users and tokens.                                                         *)

CreateUser(address, password) ==
  LET email == Normal[address]
      c == <<"create_user", address, password>>
      user == [id |-> New, email |-> email, password |-> password, verified |-> FALSE]
  IN \/ /\ email \in DOMAIN userIdsByEmail
        /\ Refuse(c, Raised("ValueError"))
     \/ /\ email \notin DOMAIN userIdsByEmail
        /\ Write(c, user)
        /\ users' = Put(users, New, user)
        /\ userIdsByEmail' = Put(userIdsByEmail, email, New)
        /\ UNCHANGED <<tokens, tokenIdsByHash, books, market>>

GetUser(u) == Read(<<"get_user", u>>, Lookup(users, u))
GetUserByEmail(address) ==
  Read(<<"get_user_by_email", address>>,
       Lookup(users, Lookup(userIdsByEmail, Normal[address])))

ChangeUser(c, u, user) ==
  \/ u \notin DOMAIN users /\ Refuse(c, Raised("KeyError"))
  \/ /\ u \in DOMAIN users
     /\ Write(c, user)
     /\ users' = Put(users, u, user)
     /\ UNCHANGED <<userIdsByEmail, tokens, tokenIdsByHash, books, market>>
MarkUserEmailVerified(u) ==
  ChangeUser(<<"mark_user_email_verified", u>>, u, [users[u] EXCEPT !.verified = TRUE])
UpdateUserPassword(u, password) ==
  ChangeUser(<<"update_user_password", u, password>>, u,
             [users[u] EXCEPT !.password = password])

CreateAuthToken(u, hash, kind) ==
  LET token == [id |-> New, user |-> u, hash |-> hash, kind |-> kind,
                consumed |-> FALSE, revoked |-> FALSE]
  IN /\ u \in DOMAIN users
     /\ hash \notin DOMAIN tokenIdsByHash
     /\ Write(<<"create_auth_token", u, hash, kind>>, token)
     /\ tokens' = Put(tokens, New, token)
     /\ tokenIdsByHash' = Put(tokenIdsByHash, hash, New)
     /\ UNCHANGED <<users, userIdsByEmail, books, market>>

GetAuthToken(hash, kind) ==
  LET found == Lookup(tokens, Lookup(tokenIdsByHash, hash))
  IN Read(<<"get_auth_token", hash, kind>>,
          IF found = None \/ found.kind # kind THEN None ELSE found)

ChangeToken(c, i, token) ==
  \/ i \notin DOMAIN tokens /\ Refuse(c, Raised("KeyError"))
  \/ /\ i \in DOMAIN tokens
     /\ Write(c, token)
     /\ tokens' = Put(tokens, i, token)
     /\ UNCHANGED <<users, userIdsByEmail, tokenIdsByHash, books, market>>
ConsumeAuthToken(i) ==
  ChangeToken(<<"consume_auth_token", i>>, i, [tokens[i] EXCEPT !.consumed = TRUE])
RevokeAuthToken(i) ==
  ChangeToken(<<"revoke_auth_token", i>>, i, [tokens[i] EXCEPT !.revoked = TRUE])

(* kind = None revokes the tokens of every kind.                             *)
RevokeUserTokens(u, kind) ==
  LET live == {i \in DOMAIN tokens : /\ tokens[i].user = u /\ ~tokens[i].revoked
                                     /\ kind \in {None, tokens[i].kind}}
  IN /\ u \in DOMAIN users
     /\ Write(<<"revoke_user_tokens", u, kind>>, Cardinality(live))
     /\ tokens' = [i \in DOMAIN tokens |->
                     IF i \in live THEN [tokens[i] EXCEPT !.revoked = TRUE] ELSE tokens[i]]
     /\ UNCHANGED <<users, userIdsByEmail, tokenIdsByHash, books, market>>

AccountCall ==
  \/ \E a \in Addresses, p \in {"old", "new"} : CreateUser(a, p)
  \/ \E u \in 1 .. MaxWrites : GetUser(u)
  \/ \E a \in Addresses : GetUserByEmail(a)
  \/ \E u \in 1 .. MaxWrites : MarkUserEmailVerified(u) \/ UpdateUserPassword(u, "new")
  \/ \E u \in 1 .. MaxWrites, h \in TokenHashes, k \in TokenKinds : CreateAuthToken(u, h, k)
  \/ \E h \in TokenHashes, k \in TokenKinds : GetAuthToken(h, k)
  \/ \E i \in 1 .. MaxWrites : ConsumeAuthToken(i) \/ RevokeAuthToken(i)
  \/ \E u \in 1 .. MaxWrites, k \in TokenKinds \cup {None} : RevokeUserTokens(u, k)

-----------------------------------------------------------------------------
(* Portfolios.                                                               *)

Create(u, cash, positions, lots) ==
  LET portfolio == [id |-> New, user |-> u, cash |-> cash, positions |-> positions,
                    lots |-> lots, jobs |-> <<>>]
  IN /\ u \in DOMAIN users
     /\ Write(<<"create", u, cash, positions, lots>>, portfolio)
     /\ portfolios' = Put(portfolios, New, portfolio)
     /\ UNCHANGED <<accounts, moves, trades, settings, valuations, market>>

Get(p) == Read(<<"get", p>>, Lookup(portfolios, p))
ListPortfolios(u) ==
  Read(<<"list_portfolios", u>>,
       {portfolios[p] : p \in {q \in DOMAIN portfolios : portfolios[q].user = u}})

ChangePortfolio(c, p, portfolio) ==
  /\ p \in DOMAIN portfolios
  /\ Write(c, portfolio)
  /\ portfolios' = Put(portfolios, p, portfolio)
  /\ UNCHANGED <<accounts, moves, trades, settings, valuations, market>>
ReplacePositions(p, positions) ==
  ChangePortfolio(<<"replace_positions", p, positions>>, p,
                  [portfolios[p] EXCEPT !.positions = positions])
AddLots(p, lots) ==
  ChangePortfolio(<<"add_lots", p, lots>>, p, [portfolios[p] EXCEPT !.lots = @ \cup lots])
ReplaceLots(p, lots) ==
  ChangePortfolio(<<"replace_lots", p, lots>>, p, [portfolios[p] EXCEPT !.lots = lots])
UpdateCash(p, cash) ==
  ChangePortfolio(<<"update_cash", p, cash>>, p, [portfolios[p] EXCEPT !.cash = cash])
ListLots(p) ==
  p \in DOMAIN portfolios /\ Read(<<"list_lots", p>>, portfolios[p].lots)

AddCashTransaction(p, m) ==
  /\ p \in DOMAIN portfolios
  /\ Write(<<"add_cash_transaction", p, m>>, m)
  /\ moves' = Put(moves, p, Under(moves, p) \cup {m})
  /\ UNCHANGED <<accounts, portfolios, trades, settings, valuations, market>>
ListCashTransactions(p) == Read(<<"list_cash_transactions", p>>, Listed(Under(moves, p)))

AddTradeTransaction(p, t) ==
  /\ p \in DOMAIN portfolios
  /\ Write(<<"add_trade_transaction", p, t>>, t)
  /\ trades' = Put(trades, p, Under(trades, p) \cup {t})
  /\ UNCHANGED <<accounts, portfolios, moves, settings, valuations, market>>
ListTradeTransactions(p) == Read(<<"list_trade_transactions", p>>, Listed(Under(trades, p)))

AddValuationSnapshot(p, v) ==
  /\ p \in DOMAIN portfolios
  /\ Write(<<"add_valuation_snapshot", p, v>>, v)
  /\ valuations' = Put(valuations, p, Under(valuations, p) \cup {v})
  /\ UNCHANGED <<accounts, portfolios, moves, trades, settings, market>>
ListValuationSnapshots(p) ==
  Read(<<"list_valuation_snapshots", p>>, Listed(Under(valuations, p)))

(* PortfolioSettings(portfolio_id=...): what holds until a user says other.  *)
DefaultSettings == [rate |-> 2, benchmarks |-> <<>>, target |-> None, score |-> 5,
                    watchlist |-> <<>>]
GetPortfolioSettings(p) ==
  Read(<<"get_portfolio_settings", p>>,
       IF p \notin DOMAIN portfolios THEN Raised("KeyError")
       ELSE IF p \in DOMAIN settings THEN settings[p] ELSE DefaultSettings)
UpsertPortfolioSettings(p, s) ==
  /\ p \in DOMAIN portfolios
  /\ Write(<<"upsert_portfolio_settings", p, s>>, s)
  /\ settings' = Put(settings, p, s)
  /\ UNCHANGED <<accounts, portfolios, moves, trades, valuations, market>>

EnqueueBackgroundJob(p, kind) ==
  LET job == [id |-> New, kind |-> kind, status |-> "pending"]
  IN /\ p \in DOMAIN portfolios
     /\ Write(<<"enqueue_background_job", p, kind>>, job)
     /\ portfolios' = [portfolios EXCEPT ![p].jobs = Append(@, job)]
     /\ UNCHANGED <<accounts, moves, trades, settings, valuations, market>>

(* complete_background_job finds the job among those of the portfolio.       *)
CompleteBackgroundJob(p, i, status) ==
  LET c == <<"complete_background_job", p, i, status>>
      jobs == portfolios[p].jobs
  IN /\ p \in DOMAIN portfolios
     /\ \/ /\ \A n \in DOMAIN jobs : jobs[n].id # i
           /\ Refuse(c, Raised("KeyError"))
        \/ \E n \in DOMAIN jobs :
             /\ jobs[n].id = i
             /\ Write(c, [jobs[n] EXCEPT !.status = status])
             /\ portfolios' = [portfolios EXCEPT ![p].jobs = [jobs EXCEPT ![n].status = status]]
             /\ UNCHANGED <<accounts, moves, trades, settings, valuations, market>>

HoldingCall(p) ==
  \/ ListLots(p)
  \/ \E P \in PositionSets : ReplacePositions(p, P)
  \/ \E L \in LotSets : AddLots(p, L) \/ ReplaceLots(p, L)
  \/ EnqueueBackgroundJob(p, "rebuild_positions")
  \/ \E i \in 1 .. MaxWrites : CompleteBackgroundJob(p, i, "completed")

LedgerCall(p) ==
  \/ ListCashTransactions(p) \/ ListTradeTransactions(p) \/ ListValuationSnapshots(p)
  \/ GetPortfolioSettings(p)
  \/ \E n \in Amounts : UpdateCash(p, n)
  \/ \E m \in Moves : AddCashTransaction(p, m)
  \/ \E t \in Trades : AddTradeTransaction(p, t)
  \/ \E v \in Valuations : AddValuationSnapshot(p, v)
  \/ \E s \in SettingsRows : UpsertPortfolioSettings(p, s)

PortfolioCall ==
  \/ \E u \in 1 .. MaxWrites, x \in NewPortfolios : Create(u, x.cash, x.positions, x.lots)
  \/ \E u \in 1 .. MaxWrites : ListPortfolios(u)
  \/ \E p \in 1 .. MaxWrites : Get(p)

-----------------------------------------------------------------------------
(* Market data: quotes and option chain snapshots.                           *)

(* _normalize_tickers: in the order given, blanks and repeats dropped.       *)
NormalizeTickers(list) ==
  FoldLeft(LAMBDA kept, t :
             IF Normal[t] = None \/ Contains(kept, Normal[t]) THEN kept
             ELSE Append(kept, Normal[t]), <<>>, list)

Stored(q) == [q EXCEPT !.ticker = Normal[@]]
UpsertMarketQuotes(list) ==
  /\ Write(<<"upsert_market_quotes", list>>, [n \in DOMAIN list |-> Stored(list[n])])
  /\ quotes' = FoldLeft(LAMBDA kept, q : Put(kept, Normal[q.ticker], Stored(q)), quotes, list)
  /\ UNCHANGED <<accounts, books, options>>

(* since: the present less max_age_seconds, or None.                         *)
NotBefore(row, since) == since = None \/ row.fetched >= since
GetMarketQuotes(list, since) ==
  LET fresh(t) == t \in DOMAIN quotes /\ NotBefore(quotes[t], since)
      found == FoldLeft(LAMBDA kept, t : IF fresh(t) THEN Append(kept, quotes[t]) ELSE kept,
                        <<>>, NormalizeTickers(list))
  IN Read(<<"get_market_quotes", list, since>>, found)

AddOptionChainSnapshot(o) ==
  LET same == {i \in DOMAIN options : options[i].hash = o.hash}
      c == <<"add_option_chain_snapshot", o>>
  IN \/ same # {} /\ Read(c, options[CHOOSE i \in same : TRUE])
     \/ /\ same = {}
        /\ o.id \notin DOMAIN options
        /\ Write(c, o)
        /\ options' = Put(options, o.id, o)
        /\ UNCHANGED <<accounts, books, quotes>>

Fetched(x, y) ==
  \/ x.fetched < y.fetched
  \/ x.fetched = y.fetched /\ x.expiry < y.expiry
  \/ x.fetched = y.fetched /\ x.expiry = y.expiry /\ x.id < y.id
ListOptionChainSnapshots(t, expiry, since) ==
  LET found == {i \in DOMAIN options : /\ options[i].ticker = Normal[t]
                                       /\ expiry \in {None, options[i].expiry}
                                       /\ NotBefore(options[i], since)}
  IN Read(<<"list_option_chain_snapshots", t, expiry, since>>,
          Sorted({options[i] : i \in found}, Fetched))

PurgeOptionChainSnapshots(before) ==
  LET kept == {i \in DOMAIN options : options[i].fetched >= before}
  IN /\ Write(<<"purge_option_chain_snapshots", before>>,
              Cardinality(DOMAIN options) - Cardinality(kept))
     /\ options' = [i \in kept |-> options[i]]
     /\ UNCHANGED <<accounts, books, quotes>>

MarketCall ==
  \/ \E l \in QuoteLists : UpsertMarketQuotes(l)
  \/ \E l \in TickerLists, t \in Times \cup {None} : GetMarketQuotes(l, t)
  \/ \E o \in Options : AddOptionChainSnapshot(o)
  \/ \E l \in TickerLists, e \in Expiries \cup {None}, t \in Times \cup {None} :
       ListOptionChainSnapshots(Head(l), e, t)
  \/ \E t \in Times : PurgeOptionChainSnapshots(t)

(* clear, which the tests call between cases.                                *)
Clear ==
  /\ Write(<<"clear">>, None)
  /\ accounts' = <<Empty, Empty, Empty, Empty>>
  /\ books' = <<Empty, Empty, Empty, Empty, Empty>>
  /\ market' = <<Empty, Empty>>

Next ==
  \/ AccountCall \/ PortfolioCall \/ MarketCall \/ Clear
  \/ \E p \in 1 .. MaxWrites : HoldingCall(p) \/ LedgerCall(p)

Spec == Init /\ [][Next]_vars
=============================================================================
