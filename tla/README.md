# TLA+ models of Portfolio Optimization Insights

The repository (`src/`) is a Python web application: a FastAPI back end, a background worker, a
PostgreSQL repository, a Redis queue and rate limiter, market-data connectors, quantitative code
and a browser front end. This directory holds TLA+ modules translated from the code, TLC
configurations that check them on small instances, and TLAPS proofs for every instance.

Paths below are relative to `src/app/` unless they begin with `src/`.

## 1. Inventory

| Component | State | Operations | Interacts with | What is hard |
|---|---|---|---|---|
| Job producers (`api/routes.py`, `background/queue.py`) | `background_jobs` rows, a Redis list | insert a row, push a message, mark a row failed when the push fails, reuse an unfinished row | worker (list), repository | insert and push are two commits; two requests check for an unfinished row at once; a process stops in between |
| Worker (`background/worker.py`) | the popped message, the row | `BLPOP`, status check, set running, refresh, requeue when rate limited, complete, fail | queue, limiter, provider, ledger | a popped message is gone; check and write are two transactions; a wait blocks the queue; ranges left to do travel in the message |
| Portfolio ledger (`background/portfolio_tasks.py`) | lots, cash, trades, cash transactions, positions, valuation snapshots | buy, FIFO sale, cash transaction, manual lots, CSV upload, deletions, applying quotes, rebuild | repository, called by API and worker | five to seven transactions per operation, reads reused after others wrote, an operation stopped half way |
| Repository (`db/repository.py`, `db/models.py`) | all tables; an in-memory twin for tests | one transaction per method | everything | last write wins; `replace_lots` is delete and insert |
| Rate limiter (`connectors/market_data/limiter.py`) | fixed-window counters in Redis or in memory | `check`, `check_many`, admission of a refresh, provider slots | API admission, worker, option chains | INCRBY and EXPIRE are two commands; lost replies; fallback counter by counter; waiting |
| Auth rate limits (`auth/limiting.py`) | the same counters under another prefix | all-or-none check of address, e-mail, user | limiter | Redis failing: refuse or let through |
| Auth tokens (`api/routes.py`, `auth/security.py`) | `auth_tokens`, password, verified flag | register, login, refresh, logout, reset, verification | repository | a token is judged in one transaction and consumed in another; sessions minted while a reset runs |
| Market-data service and quote cache (`connectors/market_data/service.py`, `cache.py`) | quotes in Redis with an expiry, `market_quotes` rows | read through, fall back to rows and refill, refresh | limiter, provider, worker | stale rows cached again with a full lifetime; readers and refreshes interleave without a lock; a refresh stops between its two stores |
| Price-history cache (`connectors/market_data/history.py`) | series in Redis | read, refresh per range | worker, provider | two tickers or two ranges share a key |
| Option chains (`connectors/market_data/options.py`, `yfinance.py`, `policy.py`) | chains and suites in Redis, captured snapshots | request a chain, request a suite, capture, purge | provider, limiter, repository | asked-for and listed dates differ; two paths fill one key; the database comes after the cache |
| Performance history (`api/services.py`) | none | replay lots, trades and cash over price points | ledger, history cache | flows between points, times nothing is held, prices that begin late |
| Optimisation and trade simulation (`quant/portfolio.py`, `quant/trade_impact.py`, `quant/risk_profiles.py`) | none | bounded normalisation, positions after a trade, bucket targets | API | bounds reached in a late round, caps that cannot be met, shares and values kept apart |
| Bonds (`quant/bonds.py`) | none | price, duration, strategies, recommended rungs | API, quotes | fractional years, rounded periods, inverted curves |
| CSV import (`connectors/broker_csv.py`) | none | parse, Coinbase ledger, aggregate | ledger | running averages, conversions |
| Other pricing and risk mathematics (`quant/`) | none | floating-point formulas | API | no state |
| Encryption and schema (`db/encryption.py`, `db/schema.sql`) | sealed payloads, keyed hashes | seal, open, hash; keys, cascades | repository | a row is found by a hash and read by opening it |
| API schemas, start-up, security headers, e-mail, brokers, operations, migrations, front end | configuration or none | I/O and layout | | |

What makes each core component correct:

* **Jobs.** An unfinished job always has something that will finish it. A row says running only
  while a worker has it. A job ends once. A history job that completed fetched what was asked. A
  portfolio has two unfinished refreshes of a kind only if their requests overlapped. Every job
  ends.
* **Ledger.** Cash, cost of lots, realized gains and cash transactions balance. Positions are the
  roll-up of the lots, the snapshot values what is there. Recorded trades have their lots. Sales
  are first in, first out.
* **Limiter.** No window lets more through than its limit. One account cannot take the shared
  budget. Callers that wait get through. A used-up budget has room again later.
* **Tokens.** One-time tokens act once, a sign-in has one live refresh token, a reset ends the
  sessions of the old password.
* **Repository.** A deployment's repository answers every call as the tests' in-memory one does.
* **Caches.** What comes out is of the ticker, range and date asked for, and no older than allowed;
  the cache is never ahead of the rows.
* **Analyses.** Performance measures prices, not deposits. Imports lose no row and make no cost
  basis. Weights add up within their bounds, trades move value without making any, bond schedules
  pay what prices them.

`PROJECT.json` lists every component with its status, and the hazards with the line where each
bites.

## 2. Modules

| Module | Models | Used by |
|---|---|---|
| `JobQueue` | producers, queue and worker | `MC_JobQueue`, `JobQueueProofs` |
| `JobLifecycle` | what the repository's README promises of a job record (abstract) | refined by `JobQueue` |
| `PortfolioLedger` | the ledger over the repository | `MC_PortfolioLedger`, `PortfolioLedgerProofs` |
| `AuthTokens` | accounts and auth tokens | `MC_AuthTokens`, `AuthTokensProofs` |
| `RateLimiter` | Redis and in-memory windows and their three callers | `MC_RateLimiter`, `RateLimiterProofs` |
| `MemoryRepository` | the in-memory repository of the tests (abstract) | implemented by `PostgresRepository` |
| `PostgresRepository` | the repository of a deployment, over its tables | `MC_Services`, `PostgresProofs` |
| `MarketCache` | quotes: pages and refreshes over Redis and rows | `MC_Services`, `CacheProofs` |
| `HistoryCache` | price histories in Redis | `MC_Services`, `CacheProofs` |
| `OptionChains` | option chains and suites: cache, provider, snapshots | `MC_Services`, `CacheProofs` |
| `PerformanceHistory` | the index rebuilt from ledger and prices | `MC_Services`, `CacheProofs` |
| `BrokerCsv` | imports of broker exports | `MC_Services`, `ServicesProofs` |
| `PortfolioAnalysis` | optimisation, trade simulations, reweighting | `MC_Services`, `ServicesProofs` |
| `BondStrategies` | bond prices, strategies and recommendations | `MC_Services`, `ServicesProofs` |
| `Fractions` | exact fractions | `PortfolioAnalysis`, `BondStrategies`, `PerformanceHistory` |

The `*Proofs` modules hold theorems only, `FoldTheorems` the lemmas on sums and folds that several of
them use; the `MC_*` modules hold constants of small instances and
symmetry sets. Every definition marked *Mutant* in a module is a plausible bug of the definition
after it; no specification uses one.

Atomicity is the same everywhere: **each repository method is one transaction, each Redis command
(or Lua script) is one command, and each is one step**. Whatever a thread keeps in a local
variable between two of them is in its record (`req`, `wk`, `thread`).

### JobQueue

| Model | Code |
|---|---|
| `status`, `row`, `created` | rows of `background_jobs`; ids in the order of `created_at` |
| `queue` | the Redis list (`RPUSH` / `BLPOP`) |
| `req[r].pc` | the step of a producer: insert, push, mark failed, do the work inline |
| `wk[w].pc` | the step of `process_background_job` |
| `slot[p]` | does the account of the portfolio have provider budget |
| `FindNone`, `ReusePending`, `OverBudget` | `_queue_market_data_refresh`, `_queue_market_history_refresh`, the other producers |
| `Requeue`, `Repush`, `RepushFails` | `_requeue_market_data_job` |
| `RequestCrash`, `WorkerLost`, `PushFails` | the process stops or a command raises, between any two steps |

Ranges of a history refresh travel in the message, and `Refreshed` takes the first off, as the
loop of the worker does. `lost`, `asked`, `fetched` and `looked` are history: `looked` is how many
rows there were when the request that inserted a row looked for an unfinished one (until the insert
it is `seen` of the request). Handlers are plain functions that run in a thread pool, so any number
of requests may be between look (`FindNone`) and insert (`EnqueueBackgroundJob`). `RefreshWaits`
says whether a refresh sleeps until it has a provider slot: the code as it ships always does
(`defer_on_rate_limit` is true in every producer, so `wait_for_rate_limit` is true); FALSE takes
the branch of the worker that requeues, which the tests exercise.

`JobLifecycle` is the abstract promise: pending, running, back to pending when postponed,
completed or failed once. `JobQueue` implements it (`LifecycleSpec`) for any number of API threads
as long as there is one worker, no push fails and no refresh is refused for its number of tickers
(proved, `LifecycleKept`, crashes included); a second worker, or a push that fails, can set a
finished job running again (section 5), and a refused refresh is a row that goes from pending to
failed without a worker.

### PortfolioLedger

An operation is the list of repository calls it makes (`BuySteps`, `SellSteps`, ...), held in
`thread[a].todo`; a step takes the first. Cash is read when the operation begins and written as
an absolute amount by `UpdateCash`. A sale reads the lots in `MatchLots` and writes them back in
`ReplaceLots`. `torn` records what an operation that stopped half way has left undone (`Owes`);
`Settled(x)` says nothing of that kind is open. `outside` accounts for lots that came or went
other than by a trade (manual lots, uploads, deletions). Amounts are whole numbers and the fees
of a lot divide by its quantity (the unit of money is the fee of one share or a part of it), so
that the proportional split of fees is exact; asset classes,
notes and settings are left out. Of the two repositories the PostgreSQL one is modelled.
`CreateValuationSnapshot` is the repository calls of `create_valuation_snapshot`
(`background/portfolio_tasks.py:372`) in one step. Applying quotes and the rebuild run in a worker,
everything else in an API thread.

`replace_lots` is one step, a delete and an insert. Of two that overlap inside their transactions
PostgreSQL (READ COMMITTED) makes one of three things: one after the other, which the model has; a
primary-key violation if both write a lot of one id, which is `Crash`; or, if their lots have no id
in common, the lots of both, because the second delete does not see what the first inserts. The
last is not modelled. The passing run and the proofs, types apart, are about operations that do not
overlap, where it cannot occur.

### AuthTokens

Rows carry three history fields: `family` (the first token of a chain of rotations), `era` (the
password its sign-in used) and `uses` (how often a one-time token had its effect, at most two).
`shared` records tokens that two requests held at once or whose request stopped before consuming
them; `raced` records users whose last reset was overtaken by a sign-in of the old password still
to mint, or stopped before it ended sessions. A later whole reset clears `raced`. These are the
exceptions of the properties, each an overlap or a stop in which the code does give up the property
(section 5).

### RateLimiter

`redis[k]` is a count and the ticks to live (-1: no expiry, 0: absent); `memory[k]` the in-memory
counter of the one process. A call is a list of counters, a cost, and whether it charges all or
none (`check_many`), waits (`acquire_provider_fetch_slot` in the worker) and has a fresh in-memory
limiter to fall back on (`enforce_auth_rate_limit`). Admission is counter by counter: INCRBY,
EXPIRE when the count equals the cost, TTL. `EvalRaises` and `CheckRaises` fail before or after
the command had its effect. `require` is the environment switch that forbids the in-memory
fallback. `passed` and `share` are history: units a window let through, and units of the first
counter charged by calls that end at the second.

### MemoryRepository and PostgresRepository

Each has one action per method, and every call records its arguments and its answer in `call` and
`answer`. `MemoryRepository` keeps the dictionaries of `InMemoryPortfolioRepository`,
`PostgresRepository` the tables: private columns are `Sealed`, what must be found is `Hashed`, and
`UserFrom`, `LotFrom`, `TradeFrom` ... read a row back with the defaults the code gives to missing
values. `PostgresImplementsMemory` maps each table to its dictionary (`Memory == INSTANCE
MemoryRepository WITH ...`) and requires of every step that it be the same call with the same
answer there. Lists are compared in order where both sort them, and as sets where their orders
differ without a caller minding (the portfolios of a user: by insertion in memory,
`db/repository.py:180`, the latest first in PostgreSQL, `db/repository.py:672`). Calls come one after the
other, so a method that reads in one transaction and writes in another (`update_cash`,
`db/repository.py:722`) is one step. A sorted list is chosen among the bijections onto its rows
(`OrderBy`, `Sorted`), and `DictUsers` and its like are the dictionaries that tables stand for.
Inputs are those PostgreSQL's primary keys accept (`RepositoryInputs`): a symbol once
in a portfolio, ids once; settings come with their tickers normalised, as the schemas do it. That the
in-memory repository hands out its own objects, which a caller
could change, is not modelled.

### MarketCache

A page reads Redis (`ReadRedis`), the rows for what is missing (`ReadRows`), puts those back into
Redis (`Refill`) and, for the market-data page, adds benchmark rows (`AddBenchmarks`); the worker
fetches, upserts rows, then stores in Redis, and may stop after each. A quote is the time it was
fetched. `MaxCall` bounds the time between two store calls of one operation, and `CacheTimes` says it
is no longer than the TTL (`market_data_cache_ttl_seconds`, 900 seconds by default): without a
bound a page that sleeps could show a price of any age.

### HistoryCache and OptionChains

`HistoryKey` drops what `_history_cache_key` drops from a ticker, so that two may share a key; a
series remembers the ticker, period and interval it was fetched for. In `OptionChains` the provider
lists dates (`listed`, which may change), `SelectOptionExpiry` and `SurfaceExpiries` choose among
them as `yfinance.py` does, and `RequestChain` and `RequestSuite` fill the same keys. A suite
fetches and stores in one step, and Redis fails for all of its keys or for none.

### PerformanceHistory

The ledger grows by deposits, withdrawals, dividends, trades with fees and lots brought in, each at
an instant of its own; `QuotePoint` is the market quoting a point. `ReconstructPortfolioHistory`
replays it as the code does. An index is kept as its growths (numerator and denominator), because
only their product is drawn. `owned` and `trail` are kept apart, to compare with: at each point
what was owned at the last one is worth, at the new prices, less fees and with income since.

### BrokerCsv, PortfolioAnalysis, BondStrategies

Functions of the source, one action per call, over enumerated inputs. Numbers are exact: a price is
kept as value (price times quantity), a weight as a fraction of hundredths, a maturity in quarters
of a year. Left out are covariances and the scores made of them (a position's score is an input)
and the annualised return of a rung (a root).

## 3. Runs

| Run | Instance | States | Shows |
|---|---|---|---|
| `jobs_faults` | 1 portfolio, 1 API thread, 2 workers, 3 kinds, 1 row, all faults, refresh may be requeued | 714,494 | `ActiveJobIsCarried`, `RunningJobIsWorked`, `CompletedHistoryIsFetched` through every fault, with two workers racing for the messages of one job |
| `jobs_requests` | 2 API threads, 1 worker, 3 kinds, 2 rows, crashes, refresh may be requeued | 338,368 | `NoRefreshOverlooked` and the refinement of `JobLifecycle`, with threads that both look before either inserts |
| `jobs_live` | 2 portfolios, 2 rows, waiting refresh, crashes of requests | 13,964 | `EveryJobEnds`, `PendingRefreshEnds` |
| `jobs_blocked` | as `jobs_live`, one account starved | violation | one account out of budget holds up the jobs of the other |
| `jobs_reprocessed` | 2 API threads, 1 worker, failing pushes | violation | a failed job is set running again |
| `ledger_serial` | one actor, 4 operations, 2 lots, deletions and crashes | 1.09 million | all six ledger invariants when operations do not overlap but may stop anywhere |
| `ledger_repriced` | a buy and a quote update at once | violation | the lot of the buy is gone, its trade stays |
| `ledger_cash` | two cash transactions at once | violation | one is lost from the cash |
| `auth_requests` | 1 user, 2 threads, 3 tokens, 2 passwords | 811,009 | one-time tokens, rotation, reset |
| `limits` | admission, sign-ins and provider slots; 2 threads, 2 faults | 133,482 | `WindowKept`, `NoMonopoly`, `EveryCallEnds`, `BudgetComesBack` |
| `limits_noexpiry` | as `limits`, a stop between INCRBY and EXPIRE | violation | a counter that never expires |
| `services` | the modules around jobs and ledger, one part at a time | 855,561 | what the next table lists |

| Property of `services` | Says |
|---|---|
| `PostgresImplementsMemory` | any sequence of calls gets from PostgreSQL the answers the in-memory repository gives |
| `QuotesAreRecent` | a shown price is less than twice the TTL old, and the time of the calls in between |
| `CacheFollowsRows` | Redis never holds a price newer than the row |
| `ChainsAnswerTheirDate` | a cached chain is the one the provider would have chosen for its date, whichever path stored it |
| `SuiteHoldsItsChain` | a suite's own chain is empty only for the reasons named, one of them past the last listed date |
| `HistoryIsOfItsTicker` | tickers that share a key never get each other's prices |
| `IndexIsTimeWeighted` | the index grows as what was owned did, and by what was earned while nothing was, whatever flows in and out between points |
| `BasisFollowsCoins` | cost basis moves with coins through sales and conversions |
| `ImportKeepsTheBooks` | every usable row counts once, through lots into rebuilt positions |
| `WeightsWithinBounds` | weights add up, within both bounds, in the order of the scores |
| `TradesMoveValue` | a trade costs its costs and nothing else; value and shares stay together |
| `TargetsAddUp` | targets of a bucket add up to its share under the cap |
| `ScheduleKeepsPromises` | a bond schedule pays each principal in its year and each coupon that prices it |
| `RungsEarnTheirYield` | a rung's projected return is its theoretical price grown at its yield |
| `RiskBuysMaturity` | more risk never gets a shorter average maturity; yields lie between their curve points |

### Bounds

* `MaxJobs`, `MaxQueue`: two rows suffice for two unfinished jobs of a kind (in `jobs_requests` both
  threads find none and both insert, four steps from the start) or two accounts behind each other,
  one row for two messages and two workers in it. The queue bound stops only pushes of
  the API; a worker may always push back.
* Ranges: two, one message asking for both and one for one, so that a requeue may happen with a
  range done and one left, and two messages of a row may differ.
* Ledger: two lots of one symbol, in either order of date, at two prices, one with fees that a
  sale splits; a sale of part of a lot and one across lots; four operations allow two buys, a sale
  and one more, with a crash in any of them. One symbol: symbols never interact except in the totals.
* Tokens: three rows allow a sign-in, its rotation and a reset token. `uses` stops at two,
  because the property separates one from more.
* Limiter: a limit of one or two, the shared budget above both accounts'; windows of two and three
  ticks give windows that overlap in every way; `Cap` stops counters one above the limit, where
  nothing tells them apart. Groups of calls with disjoint counters run one group at a time
  (`Traffic`), because they cannot influence each other.
* `services`: the parts share no state, so one run explores them side by side (`part`), each alone.
  *Repository:* up to five writes (four for accounts and market data), two users, two portfolios,
  two tickers in three spellings: enough for a call to meet rows of its own portfolio and of
  another, and for `clear` to cascade. *Caches:* two tickers on one page, or one on two pages, two
  refreshes, a TTL of one tick and calls of at most one: a refill of a refill and a refresh in
  between fit. *Options:* three dates, suites of up to two, four calls, lists that change once.
  *Histories:* two tickers with one key and a third; ranges of one period and of another.
  *Performance:* two stocks, five entries and points in any order; seven where only cash moves and
  lots of one stock are brought in at one price, enough to own nothing for a while between two
  points. *Imports:* four Coinbase rows
  out of eleven kinds, two position rows with any cell missing. *Analyses:* portfolios of up to
  three positions, bounds that bind in a first and a later round or cannot be met, lists of two
  trades. *Bonds:* one to three rungs, every curve with low, high or no quotes.
* `CHECK_DEADLOCK FALSE` stands where behaviours end because a bound is used up (rows, operations,
  passwords, token ids); `limits` checks deadlock.

`jobs_faults` takes `RefreshWaits = FALSE` because its behaviours include those of a refresh that
waits (a wait is simply not taking a step) and those of the requeue branch.

### Fairness

* A thread, worker or waiting call that can take its next step does (weak fairness): they are
  operating-system threads and processes.
* `PushMessage` has strong fairness only because of `MaxQueue`: the model disables a push while
  the queue is full, Redis does not.
* `Fetch` has strong fairness because others of the account may use its window up again and again;
  `WindowEnds` is weakly fair, as fixed windows end by the clock.
* `ReusePending` is strongly fair (`Polling`): users who come back, the only ones who can bring an
  orphaned row back (`PendingRefreshEnds`). For quotes, the kind in `jobs_live`, they press refresh
  or change the portfolio (`POST`, `api/routes.py:1227`): reading the page (`GET`, `api/routes.py:1150`)
  pushes nothing, so an orphaned row stays as long as they only look. For histories they open the
  performance page while prices are missing. No other request is fair, no fault, and no window of a
  starved account.
* `Tick` is weakly fair in the limiter: time passes. `Ask` and faults are not.

`EveryCallEnds` assumes that no call costs more than the limits it waits for, as with the default
settings (50 tickers at 5 per unit cost 10, the limit of an account): the calls of `MC_RateLimiter`
are chosen so. A deployment that sets the limit of an account below the cost of a permitted batch
makes the worker wait for ever.

## 4. Proofs

TLAPS checks these for every value of the constants (any number of threads, workers, rows,
tokens, counters, tickers, dates; any limits and windows; any rule that makes keys of tickers;
any portfolios, requests, ledgers and prices), from the named assumptions beside the constants.

| Theorem | Says |
|---|---|
| `JobQueueProofs!TypeCorrect` | `Spec => []TypeOK` |
| `JobQueueProofs!NoJobIsForgotten` | `Spec => []ActiveJobIsCarried` |
| `JobQueueProofs!RunningMeansWorked` | `Spec => []RunningJobIsWorked` |
| `JobQueueProofs!CompletedMeansFetched` | `Spec => []CompletedHistoryIsFetched` |
| `JobQueueProofs!LifecycleKept` | `OneWorker`, `PushesSucceed`: `Spec => LifecycleSpec` |
| `JobQueueProofs!FinishedJobsStay` | `OneWorker`, `PushesSucceed`: `Spec => FinishedStaysFinished` |
| `JobQueueProofs!RefreshesOverlap` | `OneWorker`, `PushesSucceed`: `Spec => []NoRefreshOverlooked` |
| `PortfolioLedgerProofs!TypeCorrect` | `Spec => []TypeOK` |
| `PortfolioLedgerProofs!BooksBalanced` | `Spec /\ []OneAtATime => []BooksBalance` |
| `PortfolioLedgerProofs!PositionsFollow` | `Spec /\ []OneAtATime => []PositionsFollowLots` |
| `PortfolioLedgerProofs!ValuationCurrent` | `Spec /\ []OneAtATime => []ValuationIsCurrent` |
| `PortfolioLedgerProofs!TradesBacked` | `Spec /\ []OneAtATime => []TradesAreBacked` |
| `PortfolioLedgerProofs!SalesFifo` | `Spec /\ []OneAtATime => []SalesAreFifo` |
| `AuthTokensProofs!TypeCorrect` | `Spec => []TypeOK` |
| `AuthTokensProofs!OneTimeTokensAreUsedOnce` | `Spec => []OneTimeTokens` |
| `AuthTokensProofs!RotationKeepsOne` | `Spec => []OneTokenPerSignIn` |
| `AuthTokensProofs!ResetEndsSessions` | `Spec => []SessionsFollowPassword` |
| `RateLimiterProofs!TypeCorrect` | `Spec => []TypeOK` |
| `RateLimiterProofs!BudgetsKept` | `Spec => []WindowKept` |
| `RateLimiterProofs!OneAccountCannotTakeAll` | `Spec => []NoMonopoly` |
| `PostgresProofs!RepositoriesAgree` | `Spec => PostgresImplementsMemory` |
| `PostgresProofs!TablesConsistent` | `Spec => []RepositoryInv` |
| `CacheProofs!CacheNeverAhead` | `CacheSpec => []CacheFollowsRows` |
| `CacheProofs!PricesAreRecent` | `CacheSpec => []QuotesAreRecent` |
| `CacheProofs!PagesGetTheirTickers` | `HistorySpecification => []HistoryIsOfItsTicker` |
| `CacheProofs!CachedChainsAreRight` | `OptionsSpec => []ChainsAnswerTheirDate` |
| `CacheProofs!SuitesLackNoChain` | `OptionsSpec => []SuiteHoldsItsChain` |
| `CacheProofs!IndexKept` | `PerformanceSpec => []IndexIsTimeWeighted` |
| `ServicesProofs!ImportKept` | `CsvSpec => []ImportKeepsTheBooks` |
| `ServicesProofs!BasisRounded` | `CsvSpec => []BasisWithinOne` |
| `ServicesProofs!BasisFollows` | `CsvSpec => [](NothingRounded => BasisFollowsCoins)` |
| `ServicesProofs!TradesMove` | `AnalysisSpec => []TradesMoveValue` |
| `ServicesProofs!WeightsKept` | `AnalysisSpec => []WeightsWithinBounds` |
| `ServicesProofs!TargetsKept` | `AnalysisSpec => []TargetsAddUp` |
| `ServicesProofs!MaturityBought` | `BondsSpec => []RiskBuysMaturity` |
| `ServicesProofs!PromisesAreKept` | `BondsSpec => []ScheduleKeepsPromises` |
| `ServicesProofs!YieldsAreEarned` | `BondsSpec => []RungsEarnTheirYield` |

**JobQueue.** Type correctness is not inductive by itself: a worker takes `Head` of its ranges and
writes the row of its job, so the invariant says that every message, request and worker carries the
number of an inserted row (`RowsKnown`, `MessagesFit`, `RequestsFit`, `WorkersFit`) and, for a
history job, a range that is left. On top of it each of the three properties is preserved by each
step: whoever lets go of a job either wrote its final status, handed it to the queue or is a fault,
which records it in `lost`. `CompletedMeansFetched` needs in addition that what a message or a
worker has left, together with what was fetched, covers one of the sequences asked for.

The last three theorems are about one worker (`OneWorker`) and an API whose pushes succeed and that
refuses no refresh (`PushesSucceed`); without these the claims are false, which `jobs_reprocessed`
shows for the second. `SerialInv` is what one worker alone may rely on: nobody else ends the row it
has in hand, so what it read of the status is still true when it writes (`WorkerKnows`), and rows
whose work a request does itself are never in the queue (`InlineApart`). `StepMoves` then says of
every step which moves rows may make, and each is one of the abstract life cycle's (`LifecycleKept`,
a refinement: its safety part is all `LifecycleSpec` has) and none leaves a final status
(`FinishedJobsStay`). `RefreshesOverlap` is about any number of API threads between their looks and
their inserts: a request that is about to insert may have missed unfinished refreshes of the kind,
but only ones inserted since it looked (`NoneMissed`), because the look found none, rows are
inserted with growing numbers (`SeenKnown`), and no step brings an ended row back.

**AuthTokens.** `OneTimeInv` ties the uses of a token to the one request that holds it: none before
its effect, and one only if the token is consumed or its holder is about to consume it.
`RotationInv` says that a chain with no token in `shared` has one active token or one request
replacing it, never both. `SessionsInv` says that while no reset of a user runs and the user is not
in `raced`, sign-ins under way as well as active tokens have the password in force: it is the
sign-ins under way that make it inductive, because each of them is a token to come.

**RateLimiter.** `PassedInv` says that what a window let through is on its counter: a unit is let
through only when the count with it is within the limit. `NoMonopoly` is harder, because the window
of an account and the shared one begin at different times: `Lies` says how the two windows lie. If
the account's window began before the shared one, at least one unit of its count is not in the
shared window; if they began together, the share is at most its count; if it began later, what its
earlier window took out of the shared one was less than its limit, and what it takes now is its
count. Where Redis is required no all-or-none counter is charged any other way (`NoFallback`), and
it exists exactly while it has an expiry (`ManyInv`). The bound of twice the limit follows.

**MarketCache.** The two theorems are about `CacheSpec`, the part `quotes` and `pages` of the run.
`FollowInv` adds to "Redis is behind the rows" what a page or the worker is about to put there: the
rows a page keeps for its refill are behind the rows of now, because rows only get newer, and a
worker that reaches the store has upserted the same quotes. `AgeInv` follows a price from call to
call: an entry outlives its quote's fetch by at most twice the TTL and one call (`FromCache`), each
call of a page adds one `MaxCall`, and what goes back into Redis was a row within its age limit or a
quote of a moment ago. `MaxCall` no longer than the TTL is used for that last one.

**PortfolioLedger.** The assumptions are about inputs: a lot is bought with at least one share and a
fee that divides by its shares, a sale, a quote and a cash entry have positive amounts
(`InputsAssumption`; the request schemas and the choice of the unit of money justify them).

*Sums and folds.* Books are sums over sets of lots and sequences of entries, and a sale is a fold.
The community modules define both by one recursive function over the subsets of a finite set, so an
induction over data is needed and the library's induction theorems cannot be used. `FoldTheorems`
does it with sets instead: the subsets (or numbers) for which a claim holds are collected in a set,
and the well-foundedness of the naturals, which the library states without an operator parameter,
shows that the set is all of them (`Counting`, `Removing`). From there come the existence and
uniqueness of the recursive sum, that it does not depend on the order of choice (`TotalRemove`), and
how it changes when an element comes, goes, or is replaced. `InOrderSorts` shows that a book can be
put in order of purchase, `SaleStep` that each turn of the loop of `_apply_fifo_sale` keeps
`SaleInv` (what has left the lots, in shares and in cost, is what the sale has booked; lots not
reached are untouched), and `SaleResult` that the outcome is `SaleIsRight`, with the closed form of
first in, first out for every lot.

*Types.* `TypeInv` holds without any hypothesis on overlaps. Beyond the types of the variables it
says of every thread that what it carries fits the calls it has still to make (`Fit`), and that lots
about to be inserted are nowhere else yet (`Fresh`): that is what keeps identifiers unique when
operations interleave.

*Books.* The other five are about operations that do not overlap: `OneAtATime` says that at most one
thread is inside an operation, and the hypothesis `[]OneAtATime` selects the behaviours in which
that is always so, for any number of threads. With overlaps `TradesAreBacked` and `BooksBalance` are
false (`ledger_repriced`, `ledger_cash`) and nobody promises the rest. None of the invariants is
inductive: between two calls of an operation the books do not balance. `SerialInv` says for each
call that may come next what is true just before it: which of positions, valuation and books are
owed, and by how much they are off (`Track`, `Backed`, `Balanced`, `Fifo`). An operation that stops
leaves in `torn` what it owed; the next one that rebuilds positions clears it. Positions are excused
only where the valuation is torn with them: a rebuild of the worker that stopped owes positions
alone, and left them as they were, which is right.

**PostgresRepository.** `RepositoriesAgree` is a refinement: for every call a lemma
(`CreateUserMatches`, `ReplaceLotsMatches`, ...) shows that the transaction on the tables is the
call on their dictionaries, with the same answer. A dictionary is made of a table by choosing the
row of a key, so nothing can be said of it before the row is known to be the only one:
`RepositoryInv` says that ids, hashes of addresses and of tokens, and tickers of quotes are unique,
that rows with an id of their own are numbered by the writes that made them (so the next id is new),
that every row has its user or portfolio (so that `clear` cascades to empty tables), and that tables
that are read in order are finite and hold what was written (so that the defaults for missing values
change nothing). The rest is about data. Two lists in the same strict order of the same rows are
equal, also when one sorts rows and then reads them and the other sorts what was read (by the
set-valued induction of `FoldTheorems`); the numbers of a list's jobs place each job where
`_load_jobs` finds it; `upsert_market_quotes` and `get_market_quotes` are loops, and what a loop
does to the table it does to the dictionary turn by turn. The assumption, `RepositoryInputs`, names
the fields of what callers hand over and says that those with a default are not missing: it is what
the data classes of `db/models.py` give, and TLC evaluates it on the instance of `services`.

**HistoryCache.** Nothing is assumed of `CleanTicker`: all tickers may share one key. The invariant
`Kept` says that an entry's key is made of its own series' ticker, period and interval, and that it
expires a TTL of that range after it was stored; two ranges of one period and interval (`ytd`,
`year`) have one TTL (`SpecFacts`), so it does not matter which of them wrote it.

**OptionChains.** `SelectFacts` is the heart: the date nearest to the one asked for, among the
listed dates from it on or, if there are none, among all, exists (`NearestExists`, from the
well-foundedness of the naturals) and is the soonest after it or the latest. A chain of a surface is
filed under its own date, which it answers, or is the one selected, filed under the date asked for.
`LeftOut` counts: a surface without room for the selected date has at least as many dates before it,
so all of them are past. `OptionDates` says that dates are finitely many positive numbers.

**BrokerCsv.** The assumption `CsvCells` says that cells are numbers or blank, the assets of a
history finitely many, and the price of a coin not negative: with a negative price a purchase
without a total would have a negative basis, which the code does not refuse. The invariant says that
the rows are of the kind the columns promise and that an accepted upload left what these rows give.
`ImportKept` then follows the rows of one symbol through their sum, the one lot it becomes and the
position rebuilt from that lot (`LotsMade`, `LotsKeepTheBooks`); the sums are over a set that the
community modules list first, so `ListedSum` shows that the list does not matter.

`LastRow` shows that a history is its rows up to the last one and then the last, as the loop of
`_parse_coinbase` reads it, and that the ledgers in between never hold less than nothing
(`CoinBooks`). `RecordAdded` says what one row does: `Converted` that what a conversion takes from
one coin it gives to the other, so that the total stays; `Removed` that the share a sale takes is
the share of the coins. The code divides floating-point numbers there and the model integers, so the
exact claim, `BasisFollows`, is about rows whose division comes out even (`NothingRounded`, which
holds in every state of `services`), and `BasisRounded` bounds the remainder for every row.

**Fractions.** The analyses and the bonds count in exact fractions brought to lowest terms, and
their properties compare products of variables, which the arithmetic of the provers does not decide.
`ServicesProofs` therefore has a small theory of fractions. `Stands(f, n, d)` says that the fraction
`f` is `n` over `d`; over one denominator a fraction has one numerator (`StandsOnce`), a value has
one pair in lowest terms (`StandsEqual`, from `GreatestDivisor`, whose recursive function is shown
to exist step by step: `FollowerExists`, `FollowersAgree`), and each operation is an operation on
numerators (`PlusStands`, `ScaledStands`, `QuotientStands`). Finitely many fractions have a common
denominator (`CommonDenominator`), so a claim about sums of fractions becomes one about sums of
whole numbers, for which `FoldTheorems` has the lemmas.

**PortfolioAnalysis.** `PortfolioRows` says that the rows of a portfolio have numbers in them and a
symbol once (the primary key of `positions`), `AnalysisRequests` that bounds, scores, trades and
caps are what the request schemas and the risk profile let through.

`TradesMoveValue`: what is held before the first trade is worth its shares (`HoldingsAre`), and a
trade at the price of the holding leaves it so (`ApplyKeepsWorth`); the list of trades is a fold
(`TradesInTurn`), and the equity after it a sum in which one summand changes at a time.

`WeightsWithinBounds`: `_bounded_normalize` goes round after round. In a round either nobody who is
still active reaches the maximum, and what is left is handed out by the scores (`ShareAll`), or
those who do are set to it, and fewer are active (`ShareCapped`). The invariant of the rounds: the
active have the minimum and the others the maximum, with what remains that makes 100 (`Sharing`),
and whoever was capped has a higher score than all that are active. As the set of active positions
shrinks, as many rounds as there are positions suffice, which is the bound of the loop.
`TargetsAddUp` has the same shape for `_bucket_target_weights`: what a round cuts off goes to the
others (`NothingLost`), and before it the candidates of a bucket are shown to have different symbols
(`CandidatesDistinct`), without which targets by symbol would not add up.

**BondStrategies.** `BondRequests` has what the request schemas let through: at least one rung, no
coupon below 0 and no yield of -100% or less, capital above 0. `RiskBuysMaturity`: around every
maturity lie two points of the curve and none between them (`PointsAround`), an interpolated yield
is between theirs, a coupon is rounded to eighths, and the average terms of the table grow with the
score. The terms of the recommendation table all lie within the curve, so what
`_interpolate_curve_yield` answers below its first point or beyond its last is not part of the
claim. `ScheduleKeepsPromises`: a sum over the years of a schedule is a sum over its rungs, by the
year in which each matures (`SumByClass`) or by the years it pays in (`SumByReach`).
`RungsEarnTheirYield`: the price of a bond is a sum of discounted payments; over a common
denominator it grows at the yield, payment by payment (`PaymentsPriced`, `WorthGrows`, with powers
as in `PowerSplit`), to what the reinvested coupons and the principal come to, and the duration is
an average of payment times (`DurationWithin`).

**PerformanceHistory.** `MarketAndRequests` says that amounts, sizes and prices are positive (the
schemas refuse others, and `yfinance.py` keeps no point without a price), and that stocks are
finitely many. The property compares a replay of the whole ledger with what the model kept beside
it, so the invariant must say what the ledger tells. `PerformanceInv` does, with two functions
beside the state: `H`, what was owned and had flowed in at every instant so far, and `C`, the prices
of every point. `HappenedAs` says that each entry tells of one instant, in which `H` changed by its
event, and that between entries `H` stays; `PricedAs` that the cached histories are the last prices
of `C`, that each point of `trail` is worth `H` at its prices, and that it `held` this less what
flowed in since the point before. Types alone (`PerformanceTyped`) say that neither cash nor shares
are ever below none. An entry extends `H` by one instant, a point `C` by one (`EntryKept`,
`QuotePointKept`), which is why the invariant is inductive.

From it `IndexRight` follows the replay. `InOrder` sorts the entries into the events of `H` in order
of time (`EventsAre`), so that the events due by an instant are the first so many, after which is
owned what `H` has then (`DueIs`, `ToldAfterDue`); the replay applies those due since the last
point, and as nothing was ever owned below none it never cuts shares (`DueReplayed`). So the replay
is at every point where the ledger was (`ReplayedTo`), values it as `trail` does, once it has a
price of all that is owned (`PointValued`), and adds a point or, when nothing was owned, carries its
flows on (`PointReached`). What it carries is, with the other sign, what was `held` since its last
point (`Carried`): the sum telescopes, and the growth of each point is the one the property asks for
(`PointIsRight`). By induction over the points it is so for the whole index (`ReplayEndsRight`).
Histories that begin late only shorten the index at its front (`TimesAre`).

The proof corrected the property. It used to say that the index grows from point to point as what
was owned at the first did. That is false for income that comes in while nothing is owned: then the
code adds no point and carries flows, but not earnings, so that the next point grows by what was
earned in between (a dividend that arrives after everything was sold and withdrawn). TLC had not met
it because it takes three entries and three points; the property now counts what is `held` at every
point in between, and `services` has a part deep enough for the case.

The inductive invariants of `JobQueue`, `AuthTokens`, `RateLimiter` and `PortfolioLedger` (with one
symbol, one actor and four operations) were checked by TLC on the small instances before they were
proved. That of `PerformanceHistory` quantifies over functions of instants and was not.

**Only model-checked:** all liveness (`EveryJobEnds`, `PendingRefreshEnds`, `EveryCallEnds`,
`BudgetComesBack`): temporal proofs with fairness and ENABLED are out of the prover's reach. Every
invariant and every other property of a passing run is a theorem, under the hypotheses in the table.
What a fold computes was proved with the set-valued induction of `FoldTheorems`, because there the
fold is the claim; that the LAMBDA a model folds with is the step a proof reasons about is shown by
writing the fold out (`Replayed`, `FoldTurns`).

## 5. Where the code and its documents disagree

Each is a run that TLC finds violated, with the sentence it violates in `PROJECT.json`.

1. `jobs_blocked`: a refresh always waits inside the single worker, so an account without provider
   budget blocks the jobs of all others; the requeue branch is not reached by any producer.
2. `jobs_reprocessed`: the status check and the write of running are two transactions; a job that
   was marked failed in between runs again.
3. `ledger_repriced`: applying quotes writes back every lot it read; a buy made in between loses
   its lot.
4. `ledger_cash`: cash is written as an absolute amount computed at the start of a request; of two
   overlapping requests one is lost.
5. `limits_noexpiry`: a counter created by INCRBY whose EXPIRE never ran refuses its user for ever.

One has no run of its own, because `auth_requests` has its behaviours and excepts them by name
(`shared`): `src/README.md:144` calls reset and verification tokens one-time. A confirmation reads
the token, has its effect, and only then consumes the token (`api/routes.py:570`), each in a
transaction of its own. Two confirmations that present a token at the same time both have their
effect, so that a reset token can set two passwords; and one that stops between effect and
consumption leaves a token that can be used again. What `OneTimeTokens` shows is that there is no
second effect without such an overlap or stop.

Overlaps that the code gives up and no document promises are hazards with a note, not findings:
two unfinished refreshes when two requests look at once (`jobs_requests` reaches them, and shows
that nothing else makes them), a bond refresh that answers with an orphaned row, two rotations of
one refresh token presented twice at once (each mints a new one, and the sign-in has two from then
on), stale positions after overlapping operations, the unlocked in-memory limiter.

Smaller disagreements and edges, kept as hazards or exceptions named in the properties: a bond
strategy with a maturity in fractions of a year schedules coupons for the whole last year
(`ScheduleKeepsPromises` counts coupons for whole years only); a holding called CASH counts twice
in a reweighting (`TargetsAddUp`); a cost basis of nothing becomes the market value when positions
are rebuilt (`ImportKeepsTheBooks`); a purchase by value without a price leaves shares and value
apart, and at another price than the holding's a trade leaves value that no share has
(`TradesMoveValue` is about trades at the holding's price); two held tickers that share a history
key displace each other, so that one of them is always missing from the page; past the last listed
expiry a suite lacks the chain it is about (`SuiteHoldsItsChain`); a portfolio created with a
symbol twice is accepted in memory and refused by PostgreSQL.

## 6. What is not modelled, and why

* The rest of the pricing and risk mathematics (relativistic Black-Scholes, option models, random
  matrices, heat map correlations, volatilities): floating-point formulas with logarithms, roots
  and eigenvalues, without state; TLC has no real numbers, and a model over other numbers would
  show nothing about them.
* API schemas and serialisation, start-up, security headers, e-mail, brokers, operations,
  migrations: layout, configuration or pure I/O. Validation bounds are used where a module
  enumerates inputs.
* The market-data provider beyond its choice of dates: external; a fetch succeeds, leaves tickers
  out or raises. Reading its data frames is text and type handling.
* The front end: rendering and polling; all that is assumed of it and its users is that they ask for
  a refresh again (`Polling`).
* Token hashing, the signed access token and the encryption of payloads: cryptography without state
  in the database.
* The performance history of a portfolio that has positions and no lots, and the charts made of
  histories and analyses.
* Aliasing: the in-memory repository hands out its own objects.

## 7. Plan

Done, in order of importance: the job queue and worker with its life cycle (abstract
specification), the ledger, auth tokens, the rate limiter; both repositories and the refinement
between them; quote, history and option caches; performance history; imports; analyses; bonds.

Next:

1. That a rate-limited worker never exceeds the provider budget, composing `JobQueue` and
   `RateLimiter` by an abstract window.
2. Captured option chains as time series (`api/services.py`): which contracts and expiries a point
   of a chart mixes.
3. Performance history composed with `PortfolioLedger`: what a deletion of a position or an
   operation that stopped half way does to the index.
