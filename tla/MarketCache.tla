------------------------------ MODULE MarketCache ------------------------------
(***************************************************************************)
(* Market quotes (app/connectors/market_data/service.py and cache.py): the *)
(* read-through path of the pages and the refresh path of the worker over  *)
(* two stores, Redis (quotes that expire) and market_quotes (one row a     *)
(* ticker, kept for good). A page reads Redis, then the rows for what is   *)
(* missing, then puts those rows into Redis; it takes no lock, so refreshes*)
(* and other pages run in between. A quote is told apart by the time the   *)
(* provider gave it. The slot of the rate limiter is module RateLimiter;   *)
(* the job that runs a refresh is module JobQueue.                         *)
(***************************************************************************)
EXTENDS Integers, FiniteSets, Functions

CONSTANTS
  Held,          (* Tickers of the portfolio's positions.                     *)
  Benchmarks,    (* Tickers it is compared with.                              *)
  Pages,         (* Requests in progress, at most.                            *)
  TTL,           (* MARKET_DATA_CACHE_TTL_SECONDS, in ticks.                  *)
  MaxCall,       (* Longest time between two store calls of one operation.    *)
  MaxTime        (* Bound: the clock.                                         *)

Tickers == Held \cup Benchmarks

(* Calls to a store are shorter than the life of an entry.                   *)
ASSUME CacheTimes == TTL \in Nat \ {0} /\ MaxCall \in 0 .. TTL /\ MaxTime \in Nat

VARIABLES
  now,           (* The clock.                                                *)
  rows,          (* market_quotes: ticker -> when its quote was fetched.      *)
  cached,        (* Redis: ticker -> when it was fetched, when it expires.    *)
  page,          (* What each request in progress has read so far.            *)
  refresh,       (* The worker's refresh.                                     *)
  shown          (* The latest answer.                                        *)

cacheVars == <<now, rows, cached, page, refresh, shown>>

NoQuotes == [t \in {} |-> 0]
Resting == [at |-> "idle", since |-> 0, quotes |-> NoQuotes, fresh |-> NoQuotes,
            kind |-> "heatmap"]
Idle == [at |-> "idle", since |-> 0, missing |-> {}, quotes |-> NoQuotes]
Nothing == [kind |-> "heatmap", quotes |-> NoQuotes, at |-> 0]

CacheInit ==
  /\ now = 0
  /\ rows = NoQuotes
  /\ cached = NoQuotes
  /\ page = [r \in Pages |-> Resting]
  /\ refresh = Idle
  /\ shown = Nothing

(* get_many and set_many of RedisMarketDataCache; rows later win over what   *)
(* is there.                                                                 *)
Later(f, g) == [t \in DOMAIN f \cup DOMAIN g |-> IF t \in DOMAIN f THEN f[t] ELSE g[t]]
GetMany(tickers) == [t \in tickers \cap DOMAIN cached |-> cached[t].fetched]
SetMany(quotes) ==
  cached' = Later([t \in DOMAIN quotes |-> [fetched |-> quotes[t], until |-> now + TTL]], cached)

(* Mutant: get_market_quotes without its age limit.                          *)
GetAllMarketQuotes(tickers) == [t \in tickers \cap DOMAIN rows |-> rows[t]]
(* get_market_quotes(tickers, max_age_seconds=TTL) of the repository.        *)
GetFreshMarketQuotes(tickers) ==
  [t \in {x \in tickers \cap DOMAIN rows : rows[x] >= now - TTL} |-> rows[t]]

-----------------------------------------------------------------------------
(* A page: GET market-data, heatmap or relativistic-bs.                      *)

Proceed(r, next) == page' = [page EXCEPT ![r] = [next EXCEPT !.since = now]] /\ shown' = Nothing
Answer(r, kind, quotes) ==
  page' = [page EXCEPT ![r] = Resting] /\ shown' = [kind |-> kind, quotes |-> quotes, at |-> now]

(* All the holdings' quotes there are have been read. GET market-data goes   *)
(* on to read the benchmarks; the others answer.                             *)
Conclude(r, kind, quotes) ==
  IF kind = "market-data"
  THEN Proceed(r, [Resting EXCEPT !.kind = kind, !.at = "benchmarks", !.quotes = quotes])
  ELSE Answer(r, kind, quotes)

(* The first call is to Redis; an error there counts as a miss of every      *)
(* ticker.                                                                   *)
ReadRedis(r, kind) ==
  /\ page[r].at = "idle"
  /\ \E hits \in {GetMany(Held), NoQuotes} :
       IF Held \subseteq DOMAIN hits THEN Conclude(r, kind, hits)
       ELSE Proceed(r, [page[r] EXCEPT !.kind = kind, !.at = "rows", !.quotes = hits])
  /\ UNCHANGED <<now, rows, cached, refresh>>

ReadRows(r) ==
  LET fresh == GetFreshMarketQuotes(Held \ DOMAIN page[r].quotes)
  IN /\ page[r].at = "rows"
     /\ IF DOMAIN fresh = {} THEN Conclude(r, page[r].kind, page[r].quotes)
        ELSE Proceed(r, [page[r] EXCEPT !.at = "refill", !.fresh = fresh])
     /\ UNCHANGED <<now, rows, cached, refresh>>

(* Rows go into Redis for a whole TTL more, whatever they are worth by then; *)
(* an error of Redis is passed over.                                         *)
Refill(r) ==
  /\ page[r].at = "refill"
  /\ SetMany(page[r].fresh) \/ UNCHANGED cached
  /\ Conclude(r, page[r].kind, Later(page[r].fresh, page[r].quotes))
  /\ UNCHANGED <<now, rows, refresh>>

(* The benchmarks' rows, of any age, replace the quotes read before.         *)
AddBenchmarks(r) ==
  LET known == [t \in Benchmarks \cap DOMAIN rows |-> rows[t]]
  IN /\ page[r].at = "benchmarks"
     /\ Answer(r, page[r].kind, Later(known, page[r].quotes))
     /\ UNCHANGED <<now, rows, cached, refresh>>

-----------------------------------------------------------------------------
(* refresh_market_data_quotes, in the worker.                                *)

StartRefresh(force) ==
  LET hits == IF force THEN NoQuotes ELSE GetMany(Tickers)
      missing == Tickers \ DOMAIN hits
  IN /\ refresh.at = "idle"
     /\ missing # {}
     /\ refresh' = [at |-> "fetch", since |-> 0, missing |-> missing, quotes |-> NoQuotes]
     /\ shown' = Nothing
     /\ UNCHANGED <<now, rows, cached, page>>

(* The provider leaves out what it has no price for.                         *)
FetchQuotes ==
  /\ refresh.at = "fetch"
  /\ \E got \in SUBSET refresh.missing :
       refresh' = [refresh EXCEPT !.at = "upsert", !.since = now,
                                  !.quotes = [t \in got |-> now]]
  /\ shown' = Nothing
  /\ UNCHANGED <<now, rows, cached, page>>

(* Mutant: the quotes go into Redis before they are rows.                    *)
StoreFirst ==
  /\ refresh.at = "upsert"
  /\ SetMany(refresh.quotes)
  /\ refresh' = [refresh EXCEPT !.at = "store", !.since = now]
  /\ shown' = Nothing
  /\ UNCHANGED <<now, rows, page>>
UpsertQuotes ==
  /\ refresh.at = "upsert"
  /\ rows' = Later(refresh.quotes, rows)
  /\ refresh' = [refresh EXCEPT !.at = "store", !.since = now]
  /\ shown' = Nothing
  /\ UNCHANGED <<now, cached, page>>

StoreQuotes ==
  /\ refresh.at = "store"
  /\ SetMany(refresh.quotes)
  /\ refresh' = Idle
  /\ shown' = Nothing
  /\ UNCHANGED <<now, rows, page>>

(* No slot, no provider, no database, no Redis, or the worker stops: what    *)
(* was done stays done, the rest is left.                                    *)
RefreshFails ==
  /\ refresh.at # "idle"
  /\ refresh' = Idle
  /\ shown' = Nothing
  /\ UNCHANGED <<now, rows, cached, page>>

-----------------------------------------------------------------------------
(* Time passes, and Redis drops what has expired.                            *)
Prompt(step) == step.at \in {"idle", "fetch"} \/ now < step.since + MaxCall
Tick ==
  /\ now < MaxTime
  /\ \A r \in Pages : Prompt(page[r])
  /\ Prompt(refresh)
  /\ now' = now + 1
  /\ cached' = Restrict(cached, {t \in DOMAIN cached : now + 1 < cached[t].until})
  /\ shown' = Nothing
  /\ UNCHANGED <<rows, page, refresh>>

CacheNext ==
  \/ \E r \in Pages : \/ \E kind \in {"market-data", "heatmap"} : ReadRedis(r, kind)
                      \/ ReadRows(r) \/ Refill(r) \/ AddBenchmarks(r)
  \/ \E force \in BOOLEAN : StartRefresh(force)
  \/ FetchQuotes \/ UpsertQuotes \/ StoreQuotes \/ RefreshFails
  \/ Tick

CacheSpec == CacheInit /\ [][CacheNext]_cacheVars

-----------------------------------------------------------------------------
(* Properties.                                                               *)

(* How old a price may be: a row that is nearly TTL old when a page reads it *)
(* is put into Redis for a TTL more (service.py, the set_many of the read    *)
(* path), so a price of a holding is less than twice the TTL old when it is  *)
(* shown, and the time the calls in between take. A benchmark's row on the   *)
(* market-data page has no such limit.                                       *)
MaxAge == 2 * TTL + 4 * MaxCall - 1
QuotesAreRecent ==
  \A t \in DOMAIN shown.quotes :
    ~(shown.kind = "market-data" /\ t \in Benchmarks) => shown.at - shown.quotes[t] <= MaxAge

(* The order of the two writes of a refresh: at no moment, whatever fails    *)
(* and whoever refills, does Redis hold a price newer than the row, so that  *)
(* a key that expires never takes a page back to an older price.             *)
CacheFollowsRows ==
  \A t \in DOMAIN cached : t \in DOMAIN rows /\ cached[t].fetched <= rows[t]
=============================================================================
