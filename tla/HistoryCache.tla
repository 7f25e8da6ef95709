------------------------------ MODULE HistoryCache ------------------------------
(***************************************************************************)
(* Price histories (app/connectors/market_data/history.py): a page asks    *)
(* Redis for the series of its tickers over a range and lists what is      *)
(* missing; a job fetches that. The key of a series drops every sign of a  *)
(* ticker but letters, digits, _ and -, so two tickers can share one key,  *)
(* and ranges of equal period and interval do.                             *)
(***************************************************************************)
EXTENDS Integers, FiniteSets, Functions

CONSTANTS
  CleanTicker,          (* Ticker -> the part of its key.                     *)
  Requests,             (* Sets of tickers a page may need.                   *)
  Ranges,               (* Range names a page may ask for.                    *)
  MaxHistoryTickers,    (* MARKET_DATA_MAX_HISTORY_TICKERS.                   *)
  FetchTime,            (* Longest time from fetching a series to storing it. *)
  MaxHistoryTime        (* Bound: the clock, in quarters of an hour.          *)

ASSUME HistoryTimes == FetchTime \in Nat /\ MaxHistoryTime \in Nat

(* _HISTORY_SPECS; the time to live in quarters of an hour.                  *)
HistorySpec(period, interval, ttl) == [period |-> period, interval |-> interval, ttl |-> ttl]
HistorySpecs ==
  [day |-> HistorySpec("5d", "5m", 1), week |-> HistorySpec("60d", "15m", 2),
   month |-> HistorySpec("6mo", "1d", 24), ytd |-> HistorySpec("2y", "1d", 24),
   year |-> HistorySpec("2y", "1d", 24), five_year |-> HistorySpec("5y", "1d", 48),
   max |-> HistorySpec("max", "1d", 96)]
HistorySpecForRange(range) ==
  IF range \in DOMAIN HistorySpecs THEN HistorySpecs[range] ELSE HistorySpecs.max

VARIABLES
  quarter,              (* The clock.                                         *)
  histories,            (* Redis: key -> series, and when it expires.         *)
  job,                  (* The refresh a worker runs.                         *)
  view                  (* What the latest page was given.                    *)

historyVars == <<quarter, histories, job, view>>

NoJob == [at |-> "idle"]
NoView == [range |-> "none"]

HistoryInit ==
  /\ quarter = 0
  /\ histories = [k \in {} |-> NoView]
  /\ job = NoJob
  /\ view = NoView

HistoryKey(ticker, spec) == <<CleanTicker[ticker], spec.period, spec.interval>>
SeriesOf(ticker, spec) ==
  [ticker |-> ticker, period |-> spec.period, interval |-> spec.interval, fetched |-> quarter]

(* RedisPriceHistoryCache.get_many.                                          *)
GetSeries(tickers, spec) ==
  {histories[k].series : k \in {HistoryKey(t, spec) : t \in tickers} \cap DOMAIN histories}

(* Mutant: the i-th value found is taken for the i-th ticker asked for.      *)
CachedUnderKey(tickers, spec) ==
  [t \in {u \in tickers : HistoryKey(u, spec) \in DOMAIN histories} |->
     histories[HistoryKey(t, spec)].series]
(* cached_by_ticker: by the ticker a series itself names.                    *)
CachedByTicker(tickers, spec) ==
  LET found == GetSeries(tickers, spec)
  IN [t \in tickers \cap {s.ticker : s \in found} |-> CHOOSE s \in found : s.ticker = t]

-----------------------------------------------------------------------------

(* get_cached_price_history; without Redis the page misses every ticker.     *)
GetCachedPriceHistory(tickers, range) ==
  LET spec == HistorySpecForRange(range)
  IN /\ \/ /\ Cardinality(tickers) > MaxHistoryTickers
           /\ view' = [range |-> "ValueError"]
        \/ /\ Cardinality(tickers) <= MaxHistoryTickers
           /\ \E series \in {CachedByTicker(tickers, spec), [t \in {} |-> NoView]} :
                view' = [range |-> range, asked |-> tickers, series |-> series,
                         missing |-> tickers \ DOMAIN series]
     /\ UNCHANGED <<quarter, histories, job>>

(* refresh_price_history in the worker, for the tickers of a page.           *)
StartHistoryRefresh(tickers, range, force) ==
  LET spec == HistorySpecForRange(range)
      hits == IF force THEN {} ELSE DOMAIN CachedByTicker(tickers, spec)
  IN /\ job.at = "idle"
     /\ Cardinality(tickers) <= MaxHistoryTickers
     /\ ~(tickers \subseteq hits)
     /\ job' = [at |-> "fetch", spec |-> spec, missing |-> tickers \ hits]
     /\ view' = NoView
     /\ UNCHANGED <<quarter, histories>>

(* fetch_price_history gives one series a ticker, empty where the provider   *)
(* has none.                                                                 *)
FetchHistory ==
  /\ job.at = "fetch"
  /\ job' = [at |-> "store", spec |-> job.spec, since |-> quarter,
             fetched |-> {SeriesOf(t, job.spec) : t \in job.missing}]
  /\ view' = NoView
  /\ UNCHANGED <<quarter, histories>>

(* RedisPriceHistoryCache.set_many: of series that share a key the last one  *)
(* written stays.                                                            *)
StoreHistory ==
  /\ job.at = "store"
  /\ LET keyOf(s) == HistoryKey(s.ticker, job.spec)
         keys == {keyOf(s) : s \in job.fetched}
     IN \E last \in [keys -> job.fetched] :
          /\ \A k \in keys : keyOf(last[k]) = k
          /\ histories' = [k \in keys \cup DOMAIN histories |->
                             IF k \in keys
                             THEN [series |-> last[k], until |-> quarter + job.spec.ttl]
                             ELSE histories[k]]
  /\ job' = NoJob
  /\ view' = NoView
  /\ UNCHANGED quarter

(* No slot, no provider, no Redis, or the worker stops.                      *)
HistoryRefreshFails ==
  /\ job.at # "idle"
  /\ job' = NoJob
  /\ view' = NoView
  /\ UNCHANGED <<quarter, histories>>

QuarterPasses ==
  /\ quarter < MaxHistoryTime
  /\ job.at = "store" => quarter < job.since + FetchTime
  /\ quarter' = quarter + 1
  /\ histories' = Restrict(histories, {k \in DOMAIN histories : quarter + 1 < histories[k].until})
  /\ view' = NoView
  /\ UNCHANGED job

HistoryNext ==
  \/ \E tickers \in Requests, range \in Ranges :
       \/ GetCachedPriceHistory(tickers, range)
       \/ \E force \in BOOLEAN : StartHistoryRefresh(tickers, range, force)
  \/ FetchHistory \/ StoreHistory \/ HistoryRefreshFails
  \/ QuarterPasses

HistorySpecification == HistoryInit /\ [][HistoryNext]_historyVars

-----------------------------------------------------------------------------
(* Properties.                                                               *)

(* Whatever shares its key, a page never gets the prices of one ticker for   *)
(* another, nor of another range: every series it is given was fetched for   *)
(* that ticker, period and interval, no longer ago than they live in Redis   *)
(* (history.py, _history_cache_key and cached_by_ticker).                    *)
HistoryIsOfItsTicker ==
  view.range \notin {"none", "ValueError"} =>
    LET spec == HistorySpecForRange(view.range)
    IN /\ view.missing = view.asked \ DOMAIN view.series
       /\ \A t \in DOMAIN view.series :
            LET s == view.series[t]
            IN /\ <<s.ticker, s.period, s.interval>> = <<t, spec.period, spec.interval>>
               /\ quarter - s.fetched < spec.ttl + FetchTime
=============================================================================
