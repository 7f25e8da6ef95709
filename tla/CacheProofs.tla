----------------------------- MODULE CacheProofs -----------------------------
(***************************************************************************)
(* Proofs about the three caches, and about the index that is rebuilt from *)
(* cached prices. MarketCache: for any tickers and pages, any lifetime of  *)
(* an entry and any duration of a call that is no longer. HistoryCache:    *)
(* for any tickers, any rule that makes keys of them, any sets of tickers  *)
(* asked for and any delay of a store. OptionChains: for any dates, any    *)
(* size of a surface and any time to live.                                 *)
(* PerformanceHistory: for any stocks, prices, ledgers and bounds.         *)
(***************************************************************************)
EXTENDS MarketCache, HistoryCache, OptionChains, PerformanceHistory, FoldTheorems, SequenceTheorems

-----------------------------------------------------------------------------
(* MarketCache.                                                              *)

Quotes == UNION {[S -> Int] : S \in SUBSET Tickers}
Entries == UNION {[S -> [fetched : Int, until : Int]] : S \in SUBSET Tickers}
Kinds == {"market-data", "heatmap"}

Reading == [at : {"idle", "rows", "refill", "benchmarks"}, since : Int,
            quotes : Quotes, fresh : Quotes, kind : Kinds]
Refreshing == [at : {"idle", "fetch", "upsert", "store"}, since : Int,
               missing : SUBSET Tickers, quotes : Quotes]
Shown == [kind : Kinds, quotes : Quotes, at : Int]

TypeInv ==
  /\ now \in Nat
  /\ rows \in Quotes
  /\ cached \in Entries
  /\ page \in [Pages -> Reading]
  /\ refresh \in Refreshing
  /\ shown \in Shown

(* No quote of f is newer than its row in rs.                                *)
Behind(f, rs) == \A t \in DOMAIN f : t \in DOMAIN rs /\ f[t] <= rs[t]

(* The quotes a refresh brings are the newest there are.                     *)
Arrived(f, rs, time) ==
  \A t \in DOMAIN f : f[t] <= time /\ (t \in DOMAIN rs => rs[t] <= f[t])

(* A refresh brings quotes that are at least as new as the rows; whatever    *)
(* goes into Redis after that is a row's by then.                            *)
FollowInv ==
  /\ \A t \in DOMAIN rows : rows[t] <= now
  /\ CacheFollowsRows
  /\ \A r \in Pages : page[r].at = "refill" => Behind(page[r].fresh, rows)
  /\ refresh.at = "store" => Behind(refresh.quotes, rows)
  /\ refresh.at = "upsert" => Arrived(refresh.quotes, rows, now)

(* No quote of f was older than age at the time since.                       *)
AtMost(f, age, since) == \A t \in DOMAIN f : since - f[t] <= age

(* How old what comes from Redis may be, and how a page's quotes age while   *)
(* it makes its calls.                                                       *)
FromCache == 2 * TTL + MaxCall - 1
PageAges(p, time) ==
  /\ p.at # "idle" => time <= p.since + MaxCall
  /\ p.at = "rows" => AtMost(p.quotes, FromCache, p.since)
  /\ p.at = "refill" => /\ AtMost(p.quotes, FromCache + MaxCall, p.since)
                        /\ AtMost(p.fresh, TTL, p.since)
  /\ p.at = "benchmarks" => /\ AtMost(p.quotes, FromCache + 2 * MaxCall, p.since)
                            /\ p.kind = "market-data"
RefreshAges(p, time) ==
  /\ p.at = "upsert" => time <= p.since + MaxCall /\ AtMost(p.quotes, 0, p.since)
  /\ p.at = "store" => time <= p.since + MaxCall /\ AtMost(p.quotes, MaxCall, p.since)
EntryAges(c, time) ==
  \A t \in DOMAIN c : time < c[t].until /\ c[t].until - c[t].fetched <= FromCache + 1
AgeInv ==
  /\ EntryAges(cached, now)
  /\ \A r \in Pages : PageAges(page[r], now)
  /\ RefreshAges(refresh, now)
  /\ QuotesAreRecent

QuotesInv == TypeInv /\ FollowInv /\ AgeInv

-----------------------------------------------------------------------------
(* Quotes as functions.                                                      *)

LEMMA QuotesFacts ==
  ASSUME NEW f \in Quotes
  PROVE  /\ DOMAIN f \subseteq Tickers
         /\ \A t \in DOMAIN f : f[t] \in Int
  BY DEF Quotes

LEMMA EntriesFacts ==
  ASSUME NEW f \in Entries
  PROVE  /\ DOMAIN f \subseteq Tickers
         /\ \A t \in DOMAIN f : f[t].fetched \in Int /\ f[t].until \in Int
  BY DEF Entries

LEMMA QuotesIntro ==
  ASSUME NEW S \in SUBSET Tickers, NEW f \in [S -> Int]
  PROVE  f \in Quotes
  BY DEF Quotes

LEMMA NoQuotesFacts == NoQuotes \in Quotes /\ DOMAIN NoQuotes = {}
<1>1. {} \in SUBSET Tickers /\ NoQuotes \in [{} -> Int] /\ DOMAIN NoQuotes = {}
  BY DEF NoQuotes
<1> QED
  BY <1>1, QuotesIntro

LEMMA LaterFacts ==
  ASSUME NEW f \in Quotes, NEW g \in Quotes
  PROVE  /\ Later(f, g) \in Quotes
         /\ DOMAIN Later(f, g) = DOMAIN f \cup DOMAIN g
         /\ \A t \in DOMAIN f : Later(f, g)[t] = f[t]
         /\ \A t \in DOMAIN g \ DOMAIN f : Later(f, g)[t] = g[t]
<1>1. DOMAIN f \cup DOMAIN g \in SUBSET Tickers
  BY QuotesFacts
<1>2. Later(f, g) \in [DOMAIN f \cup DOMAIN g -> Int]
  BY QuotesFacts DEF Later
<1> QED
  BY <1>1, <1>2, QuotesIntro DEF Later

LEMMA GetManyFacts ==
  ASSUME cached \in Entries, NEW S
  PROVE  /\ GetMany(S) \in Quotes
         /\ DOMAIN GetMany(S) = S \cap DOMAIN cached
         /\ \A t \in DOMAIN GetMany(S) : GetMany(S)[t] = cached[t].fetched
<1>1. S \cap DOMAIN cached \in SUBSET Tickers
  BY EntriesFacts
<1>2. GetMany(S) \in [S \cap DOMAIN cached -> Int]
  BY EntriesFacts DEF GetMany
<1> QED
  BY <1>1, <1>2, QuotesIntro DEF GetMany

LEMMA FreshFacts ==
  ASSUME rows \in Quotes, NEW S
  PROVE  /\ GetFreshMarketQuotes(S) \in Quotes
         /\ \A t \in DOMAIN GetFreshMarketQuotes(S) :
              /\ t \in DOMAIN rows
              /\ GetFreshMarketQuotes(S)[t] = rows[t]
              /\ rows[t] >= now - TTL
<1> DEFINE D == {x \in S \cap DOMAIN rows : rows[x] >= now - TTL}
<1>1. D \in SUBSET Tickers
  BY QuotesFacts
<1>2. GetFreshMarketQuotes(S) \in [D -> Int]
  BY QuotesFacts DEF GetFreshMarketQuotes
<1> QED
  BY <1>1, <1>2, QuotesIntro DEF GetFreshMarketQuotes

(* What set_many leaves in Redis.                                            *)
LEMMA SetManyFacts ==
  ASSUME cached \in Entries, now \in Nat, NEW f \in Quotes, SetMany(f)
  PROVE  /\ cached' \in Entries
         /\ DOMAIN cached' = DOMAIN f \cup DOMAIN cached
         /\ \A t \in DOMAIN f : cached'[t] = [fetched |-> f[t], until |-> now + TTL]
         /\ \A t \in DOMAIN cached \ DOMAIN f : cached'[t] = cached[t]
<1>1. DOMAIN f \cup DOMAIN cached \in SUBSET Tickers
  BY QuotesFacts, EntriesFacts
<1>2. /\ DOMAIN cached' = DOMAIN f \cup DOMAIN cached
      /\ \A t \in DOMAIN f : cached'[t] = [fetched |-> f[t], until |-> now + TTL]
      /\ \A t \in DOMAIN cached \ DOMAIN f : cached'[t] = cached[t]
  BY DEF SetMany, Later
<1>3. cached \in [DOMAIN cached -> [fetched : Int, until : Int]]
  BY DEF Entries
<1>4. \A t \in DOMAIN f : f[t] \in Int
  BY QuotesFacts
<1>5. now + TTL \in Int
  BY CacheTimes
<1>6. cached' \in [DOMAIN f \cup DOMAIN cached -> [fetched : Int, until : Int]]
  BY <1>3, <1>4, <1>5 DEF SetMany, Later
<1> QED
  BY <1>1, <1>2, <1>6 DEF Entries

-----------------------------------------------------------------------------
(* The steps of a page.                                                      *)

(* The arithmetic of the ages.                                               *)
LEMMA AgeFacts == FromCache \in Int /\ MaxAge = FromCache + 3 * MaxCall /\ MaxAge \in Int
                  /\ TTL \in Int /\ MaxCall \in Int /\ 0 <= MaxCall /\ MaxCall <= TTL /\ 1 <= TTL
                  /\ FromCache = 2 * TTL + MaxCall - 1
  BY CacheTimes DEF FromCache, MaxAge

(* Quotes no older than a were no older than a larger b.                     *)
LEMMA AtMostFacts ==
  ASSUME NEW f \in Quotes, NEW a \in Int, NEW s \in Int, AtMost(f, a, s),
         NEW b \in Int, NEW t \in Int, a + t <= b + s
  PROVE  AtMost(f, b, t)
  BY QuotesFacts DEF AtMost

LEMMA AtMostLater ==
  ASSUME NEW f \in Quotes, NEW g \in Quotes, NEW a, NEW s,
         AtMost(f, a, s), AtMost(g, a, s)
  PROVE  AtMost(Later(f, g), a, s)
<1>1. DOMAIN Later(f, g) = DOMAIN f \cup DOMAIN g
      /\ (\A t \in DOMAIN f : Later(f, g)[t] = f[t])
      /\ (\A t \in DOMAIN g \ DOMAIN f : Later(f, g)[t] = g[t])
  BY LaterFacts
<1> QED
  BY <1>1 DEF AtMost

(* A page that answers: everything it shows but the benchmarks of the        *)
(* market-data page is recent.                                               *)
LEMMA AnswerFacts ==
  ASSUME TypeInv, NEW r \in Pages, NEW kind \in Kinds, NEW q \in Quotes, Answer(r, kind, q),
         \A t \in DOMAIN q : ~(kind = "market-data" /\ t \in Benchmarks) => now - q[t] <= MaxAge
  PROVE  /\ page' \in [Pages -> Reading]
         /\ \A s \in Pages : page'[s] = page[s] \/ page'[s].at = "idle"
         /\ shown' \in Shown
         /\ QuotesAreRecent'
<1>1. Resting \in Reading
  BY NoQuotesFacts DEF Resting, Reading, Kinds
<1>2. page' \in [Pages -> Reading] /\ \A s \in Pages : page'[s] = IF s = r THEN Resting ELSE page[s]
  BY <1>1 DEF Answer, TypeInv
<1>3. shown' = [kind |-> kind, quotes |-> q, at |-> now] /\ shown' \in Shown
  BY DEF Answer, TypeInv, Shown
<1>4. QuotesAreRecent'
  BY <1>3 DEF QuotesAreRecent, MaxAge
<1> QED
  BY <1>2, <1>3, <1>4 DEF Resting

LEMMA ProceedFacts ==
  ASSUME TypeInv, NEW r \in Pages, NEW p \in Reading, Proceed(r, p)
  PROVE  /\ page' \in [Pages -> Reading]
         /\ page'[r] = [p EXCEPT !.since = now]
         /\ \A s \in Pages \ {r} : page'[s] = page[s]
         /\ shown' \in Shown
         /\ QuotesAreRecent'
<1>1. [p EXCEPT !.since = now] \in Reading
  BY DEF Reading, TypeInv
<1>2. shown' = Nothing /\ shown' \in Shown
  BY NoQuotesFacts DEF Proceed, Nothing, Shown, Kinds
<1>3. QuotesAreRecent'
  BY <1>2, NoQuotesFacts DEF QuotesAreRecent, Nothing
<1> QED
  BY <1>1, <1>2, <1>3 DEF Proceed, TypeInv

LEMMA ConcludeFacts ==
  ASSUME TypeInv, NEW r \in Pages, NEW kind \in Kinds, NEW q \in Quotes, Conclude(r, kind, q),
         AtMost(q, FromCache + 2 * MaxCall, now)
  PROVE  /\ page' \in [Pages -> Reading]
         /\ \A s \in Pages : \/ page'[s] = page[s]
                             \/ page'[s].at # "refill" /\ PageAges(page'[s], now)
         /\ shown' \in Shown
         /\ QuotesAreRecent'
<1>0. now \in Int
  BY DEF TypeInv
<1>1. CASE kind = "market-data"
  <2> DEFINE p == [Resting EXCEPT !.kind = kind, !.at = "benchmarks", !.quotes = q]
  <2>1. Proceed(r, p)
    BY <1>1 DEF Conclude
  <2>2. p \in Reading /\ p.at = "benchmarks" /\ p.kind = kind /\ p.quotes = q
    <3>1. Resting \in Reading
      BY NoQuotesFacts DEF Resting, Reading, Kinds
    <3> QED
      BY <3>1 DEF Reading
  <2> HIDE DEF p
  <2>3. /\ page' \in [Pages -> Reading]
        /\ page'[r] = [p EXCEPT !.since = now]
        /\ \A s \in Pages \ {r} : page'[s] = page[s]
        /\ shown' \in Shown
        /\ QuotesAreRecent'
    BY <2>1, <2>2, ProceedFacts
  <2>4. page'[r].at = "benchmarks" /\ page'[r].kind = kind
      /\ page'[r].quotes = q /\ page'[r].since = now
    BY <2>2, <2>3 DEF Reading
  <2>5. PageAges(page'[r], now)
    BY <1>0, <1>1, <2>4, AgeFacts DEF PageAges
  <2> QED
    BY <2>3, <2>4, <2>5
<1>2. CASE kind # "market-data"
  <2>1. Answer(r, kind, q)
    BY <1>2 DEF Conclude
  <2>2. \A t \in DOMAIN q : now - q[t] <= MaxAge
    BY <1>0, AgeFacts, QuotesFacts DEF AtMost
  <2>3. /\ page' \in [Pages -> Reading]
        /\ \A s \in Pages : page'[s] = page[s] \/ page'[s].at = "idle"
        /\ shown' \in Shown
        /\ QuotesAreRecent'
    BY <2>1, <2>2, AnswerFacts
  <2> QED
    BY <2>3 DEF PageAges
<1> QED
  BY <1>1, <1>2

(* A step of a page that leaves the stores alone and the invariant whole.    *)
LEMMA PageStep ==
  ASSUME QuotesInv, UNCHANGED <<now, rows, refresh>>,
         page' \in [Pages -> Reading], shown' \in Shown, QuotesAreRecent',
         cached' \in Entries, CacheFollowsRows', EntryAges(cached', now),
         \A s \in Pages : \/ page'[s] = page[s]
                         \/ /\ page'[s].at = "refill" => Behind(page'[s].fresh, rows)
                            /\ PageAges(page'[s], now)
  PROVE  QuotesInv'
<1>1. TypeInv'
  BY DEF QuotesInv, TypeInv
<1>2. FollowInv'
  <2>1. \A s \in Pages : page'[s].at = "refill" => Behind(page'[s].fresh, rows)
    BY DEF QuotesInv, FollowInv
  <2> QED
    BY <2>1 DEF QuotesInv, FollowInv, Behind, Arrived
<1>3. AgeInv'
  <2>1. \A s \in Pages : PageAges(page'[s], now)
    BY DEF QuotesInv, AgeInv
  <2> QED
    BY <2>1 DEF QuotesInv, AgeInv, PageAges, EntryAges, RefreshAges, AtMost, FromCache
<1> QED
  BY <1>1, <1>2, <1>3 DEF QuotesInv

(* A page that proceeds, and one that concludes, without touching a store.   *)
LEMMA ReadRedisKeeps ==
  ASSUME QuotesInv, NEW r \in Pages, NEW kind \in Kinds, ReadRedis(r, kind)
  PROVE  QuotesInv'
<1> USE DEF QuotesInv
<1>1. PICK hits \in {GetMany(Held), NoQuotes} :
        IF Held \subseteq DOMAIN hits THEN Conclude(r, kind, hits)
        ELSE Proceed(r, [page[r] EXCEPT !.kind = kind, !.at = "rows", !.quotes = hits])
  BY DEF ReadRedis
<1>2. hits \in Quotes /\ AtMost(hits, FromCache, now)
  <2>1. CASE hits = NoQuotes
    BY <2>1, NoQuotesFacts DEF AtMost
  <2>2. CASE hits = GetMany(Held)
    <3>1. GetMany(Held) \in Quotes /\ DOMAIN GetMany(Held) = Held \cap DOMAIN cached
          /\ \A t \in DOMAIN GetMany(Held) : GetMany(Held)[t] = cached[t].fetched
      BY GetManyFacts DEF TypeInv
    <3>2. \A t \in DOMAIN cached : now - cached[t].fetched <= FromCache
      BY EntriesFacts, AgeFacts DEF TypeInv, AgeInv, EntryAges
    <3> QED
      BY <2>2, <3>1, <3>2 DEF AtMost
  <2> QED
    BY <2>1, <2>2
<1>3. UNCHANGED <<now, rows, cached, refresh>>
  BY DEF ReadRedis
<1>4. cached' \in Entries /\ CacheFollowsRows' /\ EntryAges(cached', now)
  BY <1>3 DEF TypeInv, FollowInv, AgeInv, CacheFollowsRows
<1>5. CASE Held \subseteq DOMAIN hits
  <2>1. AtMost(hits, FromCache + 2 * MaxCall, now)
    BY <1>2, AtMostFacts, AgeFacts DEF TypeInv
  <2> QED
    BY <1>1, <1>2, <1>3, <1>4, <1>5, <2>1, ConcludeFacts, PageStep
<1>6. CASE ~(Held \subseteq DOMAIN hits)
  <2> DEFINE p == [page[r] EXCEPT !.kind = kind, !.at = "rows", !.quotes = hits]
  <2>1. p \in Reading /\ p.at = "rows" /\ p.quotes = hits
    BY <1>2 DEF TypeInv, Reading
  <2>2. Proceed(r, p)
    BY <1>1, <1>6
  <2> HIDE DEF p
  <2>3. /\ page' \in [Pages -> Reading]
        /\ page'[r] = [p EXCEPT !.since = now]
        /\ \A s \in Pages \ {r} : page'[s] = page[s]
        /\ shown' \in Shown
        /\ QuotesAreRecent'
    BY <2>1, <2>2, ProceedFacts
  <2>4. page'[r].at = "rows" /\ page'[r].quotes = hits /\ page'[r].since = now
    BY <2>1, <2>3 DEF Reading
  <2>5. PageAges(page'[r], now)
    BY <1>2, <2>4, AgeFacts DEF PageAges, TypeInv
  <2> QED
    BY <1>3, <1>4, <2>3, <2>4, <2>5, PageStep
<1> QED
  BY <1>5, <1>6

LEMMA ReadRowsKeeps ==
  ASSUME QuotesInv, NEW r \in Pages, ReadRows(r)
  PROVE  QuotesInv'
<1> USE DEF QuotesInv
<1> DEFINE fresh == GetFreshMarketQuotes(Held \ DOMAIN page[r].quotes)
<1>1. page[r].at = "rows" /\ UNCHANGED <<now, rows, cached, refresh>>
      /\ IF DOMAIN fresh = {} THEN Conclude(r, page[r].kind, page[r].quotes)
         ELSE Proceed(r, [page[r] EXCEPT !.at = "refill", !.fresh = fresh])
  BY DEF ReadRows
<1>2. fresh \in Quotes
      /\ \A t \in DOMAIN fresh : t \in DOMAIN rows /\ fresh[t] = rows[t] /\ rows[t] >= now - TTL
  BY FreshFacts DEF TypeInv
<1> HIDE DEF fresh
<1>3. page[r] \in Reading /\ page[r].quotes \in Quotes /\ page[r].kind \in Kinds
      /\ page[r].since \in Int /\ now \in Int
  BY DEF TypeInv, Reading
<1>4. now <= page[r].since + MaxCall /\ AtMost(page[r].quotes, FromCache, page[r].since)
  BY <1>1 DEF AgeInv, PageAges
<1>5. AtMost(page[r].quotes, FromCache + MaxCall, now)
      /\ AtMost(page[r].quotes, FromCache + 2 * MaxCall, now)
  BY <1>3, <1>4, AtMostFacts, AgeFacts
<1>6. cached' \in Entries /\ CacheFollowsRows' /\ EntryAges(cached', now)
  BY <1>1 DEF TypeInv, FollowInv, AgeInv, CacheFollowsRows
<1>7. CASE DOMAIN fresh = {}
  BY <1>1, <1>3, <1>5, <1>6, <1>7, ConcludeFacts, PageStep
<1>8. CASE DOMAIN fresh # {}
  <2> DEFINE p == [page[r] EXCEPT !.at = "refill", !.fresh = fresh]
  <2>1. p \in Reading /\ p.at = "refill" /\ p.quotes = page[r].quotes /\ p.fresh = fresh
    BY <1>2, <1>3 DEF Reading
  <2>2. Proceed(r, p)
    BY <1>1, <1>8
  <2> HIDE DEF p
  <2>3. /\ page' \in [Pages -> Reading]
        /\ page'[r] = [p EXCEPT !.since = now]
        /\ \A s \in Pages \ {r} : page'[s] = page[s]
        /\ shown' \in Shown
        /\ QuotesAreRecent'
    BY <2>1, <2>2, ProceedFacts
  <2>4. /\ page'[r].at = "refill" /\ page'[r].quotes = page[r].quotes
        /\ page'[r].fresh = fresh /\ page'[r].since = now
    BY <2>1, <2>3 DEF Reading
  <2>5. AtMost(fresh, TTL, now)
    BY <1>2, <1>3, QuotesFacts, AgeFacts DEF AtMost
  <2>6. Behind(fresh, rows)
    BY <1>2, QuotesFacts DEF Behind, TypeInv
  <2>7. PageAges(page'[r], now)
    BY <1>3, <1>5, <2>4, <2>5, AgeFacts DEF PageAges
  <2> QED
    BY <1>1, <1>6, <2>3, <2>4, <2>6, <2>7, PageStep
<1> QED
  BY <1>7, <1>8

(* What set_many puts into Redis stays behind the rows and lives TTL more.   *)
LEMMA SetManyKeeps ==
  ASSUME QuotesInv, NEW f \in Quotes, SetMany(f), Behind(f, rows),
         AtMost(f, TTL + MaxCall, now)
  PROVE  /\ cached' \in Entries
         /\ \A t \in DOMAIN cached' : t \in DOMAIN rows /\ cached'[t].fetched <= rows[t]
         /\ EntryAges(cached', now)
<1> USE DEF QuotesInv
<1>1. /\ cached' \in Entries
      /\ DOMAIN cached' = DOMAIN f \cup DOMAIN cached
      /\ \A t \in DOMAIN f : cached'[t] = [fetched |-> f[t], until |-> now + TTL]
      /\ \A t \in DOMAIN cached \ DOMAIN f : cached'[t] = cached[t]
  BY SetManyFacts DEF TypeInv
<1>2. \A t \in DOMAIN cached' : t \in DOMAIN rows /\ cached'[t].fetched <= rows[t]
  BY <1>1 DEF FollowInv, CacheFollowsRows, Behind
<1>3. \A t \in DOMAIN f : now < now + TTL /\ now + TTL - f[t] <= FromCache + 1
  BY AgeFacts, QuotesFacts DEF AtMost, TypeInv
<1>4. EntryAges(cached', now)
  <2>1. \A t \in DOMAIN f :
          now < cached'[t].until /\ cached'[t].until - cached'[t].fetched <= FromCache + 1
    <3>1. \A t \in DOMAIN f : cached'[t].until = now + TTL /\ cached'[t].fetched = f[t]
      BY <1>1
    <3> QED
      BY <1>3, <3>1, QuotesFacts, AgeFacts DEF TypeInv
  <2>2. \A t \in DOMAIN cached \ DOMAIN f :
          now < cached'[t].until /\ cached'[t].until - cached'[t].fetched <= FromCache + 1
    BY <1>1 DEF EntryAges, AgeInv
  <2> QED
    BY <1>1, <2>1, <2>2 DEF EntryAges
<1> QED
  BY <1>1, <1>2, <1>4

LEMMA RefillKeeps ==
  ASSUME QuotesInv, NEW r \in Pages, Refill(r)
  PROVE  QuotesInv'
<1> USE DEF QuotesInv
<1>1. /\ page[r].at = "refill" /\ UNCHANGED <<now, rows, refresh>>
      /\ SetMany(page[r].fresh) \/ UNCHANGED cached
      /\ Conclude(r, page[r].kind, Later(page[r].fresh, page[r].quotes))
  BY DEF Refill
<1>2. page[r] \in Reading /\ page[r].quotes \in Quotes /\ page[r].fresh \in Quotes
      /\ page[r].kind \in Kinds /\ page[r].since \in Int /\ now \in Int
  BY DEF TypeInv, Reading
<1>3. /\ now <= page[r].since + MaxCall
      /\ AtMost(page[r].quotes, FromCache + MaxCall, page[r].since)
      /\ AtMost(page[r].fresh, TTL, page[r].since)
      /\ Behind(page[r].fresh, rows)
  BY <1>1 DEF AgeInv, PageAges, FollowInv
<1>4. AtMost(page[r].quotes, FromCache + 2 * MaxCall, now)
  <2>1. /\ FromCache + MaxCall \in Int /\ FromCache + 2 * MaxCall \in Int
        /\ FromCache + MaxCall + now <= FromCache + 2 * MaxCall + page[r].since
    BY <1>2, <1>3, AgeFacts
  <2> QED
    BY <1>2, <1>3, <2>1, AtMostFacts
<1>5. AtMost(page[r].fresh, TTL + MaxCall, now)
  <2>1. /\ TTL \in Int /\ TTL + MaxCall \in Int
        /\ TTL + now <= TTL + MaxCall + page[r].since
    BY <1>2, <1>3, AgeFacts
  <2> QED
    BY <1>2, <1>3, <2>1, AtMostFacts
<1>6. AtMost(page[r].fresh, FromCache + 2 * MaxCall, now)
  BY <1>2, <1>3, AtMostFacts, AgeFacts
<1>7. Later(page[r].fresh, page[r].quotes) \in Quotes
  BY <1>2, LaterFacts
<1>8. AtMost(Later(page[r].fresh, page[r].quotes), FromCache + 2 * MaxCall, now)
  BY <1>2, <1>4, <1>6, AtMostLater
<1>9. cached' \in Entries /\ CacheFollowsRows' /\ EntryAges(cached', now)
  <2>1. CASE SetMany(page[r].fresh)
    BY <1>1, <1>2, <1>3, <1>5, <2>1, SetManyKeeps DEF CacheFollowsRows
  <2>2. CASE UNCHANGED cached
    BY <1>1, <2>2 DEF TypeInv, FollowInv, AgeInv, CacheFollowsRows
  <2> QED
    BY <1>1, <2>1, <2>2
<1> QED
  BY <1>1, <1>2, <1>7, <1>8, <1>9, ConcludeFacts, PageStep

LEMMA AddBenchmarksKeeps ==
  ASSUME QuotesInv, NEW r \in Pages, AddBenchmarks(r)
  PROVE  QuotesInv'
<1> USE DEF QuotesInv
<1> DEFINE known == [t \in Benchmarks \cap DOMAIN rows |-> rows[t]]
<1>1. /\ page[r].at = "benchmarks" /\ UNCHANGED <<now, rows, cached, refresh>>
      /\ Answer(r, page[r].kind, Later(known, page[r].quotes))
  BY DEF AddBenchmarks
<1>2. known \in Quotes /\ DOMAIN known = Benchmarks \cap DOMAIN rows
  <2>1. Benchmarks \cap DOMAIN rows \in SUBSET Tickers
    BY DEF Tickers
  <2>2. known \in [Benchmarks \cap DOMAIN rows -> Int]
    BY QuotesFacts DEF TypeInv
  <2> QED
    BY <2>1, <2>2, QuotesIntro
<1> HIDE DEF known
<1>3. page[r] \in Reading /\ page[r].quotes \in Quotes
      /\ page[r].kind \in Kinds /\ page[r].since \in Int /\ now \in Int
  BY DEF TypeInv, Reading
<1>4. /\ now <= page[r].since + MaxCall /\ page[r].kind = "market-data"
      /\ AtMost(page[r].quotes, FromCache + 2 * MaxCall, page[r].since)
  BY <1>1 DEF AgeInv, PageAges
<1>5. AtMost(page[r].quotes, MaxAge, now)
  <2>1. ASSUME NEW t \in DOMAIN page[r].quotes
        PROVE  now - page[r].quotes[t] <= MaxAge
    <3>1. page[r].since - page[r].quotes[t] <= FromCache + 2 * MaxCall
      BY <1>4 DEF AtMost
    <3>2. page[r].quotes[t] \in Int /\ FromCache \in Int /\ MaxCall \in Int
      BY <1>3, AgeFacts, QuotesFacts, CacheTimes
    <3> QED
      BY <1>3, <1>4, <3>1, <3>2, AgeFacts
  <2> QED
    BY <2>1 DEF AtMost
<1>6. /\ Later(known, page[r].quotes) \in Quotes
      /\ DOMAIN Later(known, page[r].quotes) = DOMAIN known \cup DOMAIN page[r].quotes
      /\ \A t \in DOMAIN page[r].quotes \ DOMAIN known :
           Later(known, page[r].quotes)[t] = page[r].quotes[t]
  BY <1>2, <1>3, LaterFacts
<1>7. \A t \in DOMAIN Later(known, page[r].quotes) :
        ~(page[r].kind = "market-data" /\ t \in Benchmarks)
          => now - Later(known, page[r].quotes)[t] <= MaxAge
  BY <1>2, <1>4, <1>5, <1>6 DEF AtMost
<1>8. /\ page' \in [Pages -> Reading]
      /\ \A s \in Pages : page'[s] = page[s] \/ page'[s].at = "idle"
      /\ shown' \in Shown
      /\ QuotesAreRecent'
  BY <1>1, <1>3, <1>6, <1>7, AnswerFacts
<1>9. cached' \in Entries /\ CacheFollowsRows' /\ EntryAges(cached', now)
  BY <1>1 DEF TypeInv, FollowInv, AgeInv, CacheFollowsRows
<1> QED
  BY <1>1, <1>8, <1>9, PageStep DEF PageAges

-----------------------------------------------------------------------------
(* The steps of the refresh.                                                 *)

(* A step of the worker, which changes no page.                              *)
LEMMA RefreshStep ==
  ASSUME QuotesInv, UNCHANGED <<now, page>>, shown' = Nothing, refresh' \in Refreshing,
         rows' \in Quotes, \A t \in DOMAIN rows' : rows'[t] <= now,
         \A t \in DOMAIN rows : t \in DOMAIN rows' /\ rows[t] <= rows'[t],
         cached' \in Entries, EntryAges(cached', now),
         \A t \in DOMAIN cached' : t \in DOMAIN rows' /\ cached'[t].fetched <= rows'[t],
         refresh'.at = "store" => Behind(refresh'.quotes, rows'),
         refresh'.at = "upsert" => Arrived(refresh'.quotes, rows', now),
         RefreshAges(refresh', now)
  PROVE  QuotesInv'
<1>1. TypeInv'
  <2>1. Nothing \in Shown
    BY NoQuotesFacts DEF Nothing, Shown, Kinds
  <2> QED
    BY <2>1 DEF QuotesInv, TypeInv
<1>2. FollowInv'
  <2>1. ASSUME NEW r \in Pages, page[r].at = "refill"
        PROVE  Behind(page[r].fresh, rows')
    <3>1. page[r].fresh \in Quotes /\ Behind(page[r].fresh, rows)
      BY <2>1 DEF QuotesInv, TypeInv, FollowInv, Reading
    <3>2. \A t \in DOMAIN page[r].fresh :
            page[r].fresh[t] \in Int /\ rows[t] \in Int /\ rows'[t] \in Int
      BY <3>1, QuotesFacts DEF QuotesInv, TypeInv, Behind
    <3> QED
      BY <3>1, <3>2 DEF Behind
  <2>2. CacheFollowsRows'
    BY DEF CacheFollowsRows
  <2>3. \A r \in Pages : page'[r].at = "refill" => Behind(page'[r].fresh, rows')
    BY <2>1
  <2> QED
    BY <2>2, <2>3 DEF FollowInv, Behind, Arrived
<1>3. AgeInv'
  <2>1. QuotesAreRecent'
    BY NoQuotesFacts DEF QuotesAreRecent, Nothing
  <2> QED
    BY <2>1 DEF QuotesInv, AgeInv, PageAges, EntryAges, RefreshAges, AtMost, FromCache
<1> QED
  BY <1>1, <1>2, <1>3 DEF QuotesInv

(* What the invariant says of the stores, when they are left alone.          *)
LEMMA SameStores ==
  ASSUME QuotesInv, UNCHANGED <<now, rows, cached>>
  PROVE  /\ rows' \in Quotes /\ \A t \in DOMAIN rows' : rows'[t] <= now
         /\ \A t \in DOMAIN rows : t \in DOMAIN rows' /\ rows[t] <= rows'[t]
         /\ cached' \in Entries /\ EntryAges(cached', now)
         /\ \A t \in DOMAIN cached' : t \in DOMAIN rows' /\ cached'[t].fetched <= rows'[t]
<1>1. \A t \in DOMAIN rows : rows[t] <= rows[t]
  BY QuotesFacts DEF QuotesInv, TypeInv
<1> QED
  BY <1>1 DEF QuotesInv, TypeInv, FollowInv, AgeInv, CacheFollowsRows

LEMMA StartRefreshKeeps ==
  ASSUME QuotesInv, NEW force \in BOOLEAN, StartRefresh(force)
  PROVE  QuotesInv'
<1>1. /\ UNCHANGED <<now, rows, cached, page>> /\ shown' = Nothing
      /\ refresh'.at = "fetch" /\ refresh' \in Refreshing
  BY NoQuotesFacts DEF StartRefresh, Refreshing
<1> QED
  BY <1>1, SameStores, RefreshStep DEF RefreshAges

LEMMA RefreshFailsKeeps ==
  ASSUME QuotesInv, RefreshFails
  PROVE  QuotesInv'
<1>1. /\ UNCHANGED <<now, rows, cached, page>> /\ shown' = Nothing
      /\ refresh'.at = "idle" /\ refresh' \in Refreshing
  BY NoQuotesFacts DEF RefreshFails, Refreshing, Idle
<1> QED
  BY <1>1, SameStores, RefreshStep DEF RefreshAges

LEMMA FetchQuotesKeeps ==
  ASSUME QuotesInv, FetchQuotes
  PROVE  QuotesInv'
<1>1. PICK got \in SUBSET refresh.missing :
        refresh' = [refresh EXCEPT !.at = "upsert", !.since = now, !.quotes = [t \in got |-> now]]
  BY DEF FetchQuotes
<1>2. got \in SUBSET Tickers /\ now \in Int /\ refresh \in Refreshing
  BY DEF QuotesInv, TypeInv, Refreshing
<1>3. [t \in got |-> now] \in Quotes
  BY <1>2, QuotesIntro
<1>4. /\ refresh' \in Refreshing /\ refresh'.at = "upsert" /\ refresh'.since = now
      /\ refresh'.quotes = [t \in got |-> now]
  BY <1>1, <1>2, <1>3 DEF Refreshing
<1>5. UNCHANGED <<now, rows, cached, page>> /\ shown' = Nothing
  BY DEF FetchQuotes
<1>6. Arrived(refresh'.quotes, rows', now)
  BY <1>2, <1>4, <1>5 DEF Arrived, QuotesInv, FollowInv
<1>7. RefreshAges(refresh', now)
  BY <1>2, <1>4, AgeFacts DEF RefreshAges, AtMost
<1> QED
  BY <1>4, <1>5, <1>6, <1>7, SameStores, RefreshStep

LEMMA UpsertQuotesKeeps ==
  ASSUME QuotesInv, UpsertQuotes
  PROVE  QuotesInv'
<1>1. /\ refresh.at = "upsert" /\ rows' = Later(refresh.quotes, rows)
      /\ refresh' = [refresh EXCEPT !.at = "store", !.since = now]
      /\ UNCHANGED <<now, cached, page>> /\ shown' = Nothing
  BY DEF UpsertQuotes
<1>2. /\ now \in Int /\ refresh \in Refreshing /\ refresh.quotes \in Quotes /\ rows \in Quotes
      /\ refresh.since \in Int /\ cached \in Entries
  BY DEF QuotesInv, TypeInv, Refreshing
<1>3. /\ refresh' \in Refreshing /\ refresh'.at = "store" /\ refresh'.since = now
      /\ refresh'.quotes = refresh.quotes
  BY <1>1, <1>2 DEF Refreshing
<1>4. Arrived(refresh.quotes, rows, now) /\ now <= refresh.since + MaxCall
      /\ AtMost(refresh.quotes, 0, refresh.since)
  BY <1>1 DEF QuotesInv, FollowInv, AgeInv, RefreshAges
<1>5. /\ rows' \in Quotes /\ DOMAIN rows' = DOMAIN refresh.quotes \cup DOMAIN rows
      /\ \A t \in DOMAIN refresh.quotes : rows'[t] = refresh.quotes[t]
      /\ \A t \in DOMAIN rows \ DOMAIN refresh.quotes : rows'[t] = rows[t]
  BY <1>1, <1>2, LaterFacts
<1>6. \A t \in DOMAIN rows' : rows'[t] <= now
  BY <1>4, <1>5 DEF Arrived, QuotesInv, FollowInv
<1>7. \A t \in DOMAIN rows : t \in DOMAIN rows' /\ rows[t] \in Int /\ rows'[t] \in Int
                               /\ rows[t] <= rows'[t]
  BY <1>2, <1>4, <1>5, QuotesFacts DEF Arrived
<1>8. \A t \in DOMAIN cached : t \in DOMAIN rows' /\ cached[t].fetched <= rows'[t]
  BY <1>2, <1>7, EntriesFacts DEF QuotesInv, FollowInv, CacheFollowsRows
<1>9. cached' \in Entries /\ EntryAges(cached', now)
      /\ \A t \in DOMAIN cached' : t \in DOMAIN rows' /\ cached'[t].fetched <= rows'[t]
  BY <1>1, <1>2, <1>8 DEF QuotesInv, AgeInv
<1>10. Behind(refresh'.quotes, rows')
  BY <1>2, <1>3, <1>5, QuotesFacts DEF Behind
<1>11. AtMost(refresh.quotes, MaxCall, now)
  BY <1>2, <1>4, AtMostFacts, AgeFacts
<1>12. RefreshAges(refresh', now)
  BY <1>2, <1>3, <1>11, AgeFacts DEF RefreshAges
<1> QED
  BY <1>1, <1>3, <1>5, <1>6, <1>7, <1>9, <1>10, <1>12, RefreshStep

LEMMA StoreQuotesKeeps ==
  ASSUME QuotesInv, StoreQuotes
  PROVE  QuotesInv'
<1>1. /\ refresh.at = "store" /\ SetMany(refresh.quotes) /\ refresh' = Idle
      /\ UNCHANGED <<now, rows, page>> /\ shown' = Nothing
  BY DEF StoreQuotes
<1>2. now \in Int /\ refresh.quotes \in Quotes /\ refresh.since \in Int /\ rows \in Quotes
  BY DEF QuotesInv, TypeInv, Refreshing
<1>3. /\ Behind(refresh.quotes, rows) /\ now <= refresh.since + MaxCall
      /\ AtMost(refresh.quotes, MaxCall, refresh.since)
  BY <1>1 DEF QuotesInv, FollowInv, AgeInv, RefreshAges
<1>4. AtMost(refresh.quotes, TTL + MaxCall, now)
  BY <1>2, <1>3, AtMostFacts, AgeFacts
<1>5. /\ cached' \in Entries /\ EntryAges(cached', now)
      /\ \A t \in DOMAIN cached' : t \in DOMAIN rows /\ cached'[t].fetched <= rows[t]
  BY <1>1, <1>2, <1>3, <1>4, SetManyKeeps
<1>6. \A t \in DOMAIN rows : rows[t] <= now /\ rows[t] <= rows[t]
  BY <1>2, QuotesFacts DEF QuotesInv, FollowInv
<1>7. refresh' \in Refreshing /\ refresh'.at = "idle"
  BY <1>1, NoQuotesFacts DEF Refreshing, Idle
<1> QED
  BY <1>1, <1>2, <1>5, <1>6, <1>7, RefreshStep DEF RefreshAges

-----------------------------------------------------------------------------
(* Time.                                                                     *)

LEMMA TickKeeps ==
  ASSUME QuotesInv, Tick
  PROVE  QuotesInv'
<1> USE DEF QuotesInv
<1> DEFINE D == {t \in DOMAIN cached : now + 1 < cached[t].until}
<1>1. /\ now' = now + 1 /\ cached' = Restrict(cached, D) /\ shown' = Nothing
      /\ UNCHANGED <<rows, page, refresh>>
      /\ \A r \in Pages : Prompt(page[r])
      /\ Prompt(refresh)
  BY DEF Tick
<1>2. now \in Nat /\ now' \in Nat
  BY <1>1 DEF TypeInv
<1>3. /\ DOMAIN cached' = D /\ \A t \in D : cached'[t] = cached[t]
  BY <1>1 DEF Restrict
<1>4. cached' \in Entries
  <2>1. D \in SUBSET Tickers
    BY EntriesFacts DEF TypeInv
  <2>2. \A t \in D : cached[t] \in [fetched : Int, until : Int]
    BY DEF TypeInv, Entries
  <2>3. cached' \in [D -> [fetched : Int, until : Int]]
    BY <1>1, <2>2 DEF Restrict
  <2> QED
    BY <2>1, <2>3 DEF Entries
<1>5. TypeInv'
  <2>1. Nothing \in Shown
    BY NoQuotesFacts DEF Nothing, Shown, Kinds
  <2> QED
    BY <1>1, <1>2, <1>4, <2>1 DEF TypeInv
<1>6. FollowInv'
  <2>1. \A t \in DOMAIN rows : rows[t] <= now'
    BY <1>1, <1>2, QuotesFacts DEF TypeInv, FollowInv
  <2>2. CacheFollowsRows'
    BY <1>1, <1>3 DEF FollowInv, CacheFollowsRows
  <2>3. refresh.at = "upsert" => Arrived(refresh.quotes, rows, now')
    <3>1. \A t \in DOMAIN refresh.quotes : refresh.quotes[t] \in Int
      BY QuotesFacts DEF TypeInv, Refreshing
    <3> QED
      BY <1>1, <1>2, <3>1 DEF FollowInv, Arrived
  <2> QED
    BY <1>1, <2>1, <2>2, <2>3 DEF FollowInv, Behind, Arrived
<1>7. AgeInv'
  <2>1. EntryAges(cached', now')
    BY <1>1, <1>3 DEF EntryAges, AgeInv
  <2>2. ASSUME NEW r \in Pages
        PROVE  PageAges(page[r], now')
    <3>1. page[r].since \in Int /\ page[r].at # "fetch"
      BY DEF TypeInv, Reading
    <3>2. page[r].at # "idle" => now' <= page[r].since + MaxCall
      BY <1>1, <1>2, <3>1, AgeFacts DEF Prompt
    <3> QED
      BY <3>2 DEF AgeInv, PageAges
  <2>3. RefreshAges(refresh, now')
    <3>1. refresh.since \in Int
      BY DEF TypeInv, Refreshing
    <3>2. refresh.at \in {"upsert", "store"} => now' <= refresh.since + MaxCall
      BY <1>1, <1>2, <3>1, AgeFacts DEF Prompt
    <3> QED
      BY <3>2 DEF AgeInv, RefreshAges
  <2>4. QuotesAreRecent'
    BY <1>1, NoQuotesFacts DEF QuotesAreRecent, Nothing
  <2> QED
    BY <1>1, <2>1, <2>2, <2>3, <2>4 DEF AgeInv, PageAges, EntryAges, RefreshAges, AtMost, FromCache
<1> QED
  BY <1>5, <1>6, <1>7

-----------------------------------------------------------------------------
LEMMA QuotesInvInit == CacheInit => QuotesInv
<1> SUFFICES ASSUME CacheInit PROVE QuotesInv
  OBVIOUS
<1> USE DEF CacheInit
<1>1. TypeInv
  <2>1. NoQuotes \in Entries
    <3>1. {} \in SUBSET Tickers /\ NoQuotes \in [{} -> [fetched : Int, until : Int]]
      BY DEF NoQuotes
    <3> QED
      BY <3>1 DEF Entries
  <2>2. Resting \in Reading /\ Idle \in Refreshing /\ Nothing \in Shown
    BY NoQuotesFacts DEF Resting, Idle, Nothing, Reading, Refreshing, Shown, Kinds
  <2> QED
    BY <2>1, <2>2, NoQuotesFacts DEF TypeInv
<1>2. FollowInv
  BY NoQuotesFacts DEF FollowInv, CacheFollowsRows, Resting, Idle
<1>3. AgeInv
  BY NoQuotesFacts DEF AgeInv, EntryAges, PageAges, RefreshAges, QuotesAreRecent,
                       Resting, Idle, Nothing
<1> QED
  BY <1>1, <1>2, <1>3 DEF QuotesInv

LEMMA QuotesInvNext == QuotesInv /\ [CacheNext]_cacheVars => QuotesInv'
<1> SUFFICES ASSUME QuotesInv, [CacheNext]_cacheVars PROVE QuotesInv'
  OBVIOUS
<1>1. CASE \E r \in Pages : \/ \E kind \in {"market-data", "heatmap"} : ReadRedis(r, kind)
                            \/ ReadRows(r) \/ Refill(r) \/ AddBenchmarks(r)
  BY <1>1, ReadRedisKeeps, ReadRowsKeeps, RefillKeeps, AddBenchmarksKeeps DEF Kinds
<1>2. CASE \E force \in BOOLEAN : StartRefresh(force)
  BY <1>2, StartRefreshKeeps
<1>3. CASE FetchQuotes
  BY <1>3, FetchQuotesKeeps
<1>4. CASE UpsertQuotes
  BY <1>4, UpsertQuotesKeeps
<1>5. CASE StoreQuotes
  BY <1>5, StoreQuotesKeeps
<1>6. CASE RefreshFails
  BY <1>6, RefreshFailsKeeps
<1>7. CASE Tick
  BY <1>7, TickKeeps
<1>8. CASE UNCHANGED cacheVars
  BY <1>8 DEF cacheVars, QuotesInv, TypeInv, FollowInv, AgeInv, CacheFollowsRows, QuotesAreRecent,
              MaxAge, Behind, Arrived, PageAges, RefreshAges, EntryAges, AtMost, FromCache
<1> QED
  BY <1>1, <1>2, <1>3, <1>4, <1>5, <1>6, <1>7, <1>8 DEF CacheNext

LEMMA QuotesInvAlways == CacheSpec => []QuotesInv
  BY QuotesInvInit, QuotesInvNext, PTL DEF CacheSpec

(* Redis never holds a price newer than the row of its ticker, whichever     *)
(* writes of a refresh fail and whatever pages refill in between: the order  *)
(* of upsert_market_quotes and set_many in refresh_market_data_quotes.       *)
THEOREM CacheNeverAhead == CacheSpec => []CacheFollowsRows
<1>1. QuotesInv => CacheFollowsRows
  BY DEF QuotesInv, FollowInv
<1> QED
  BY <1>1, QuotesInvAlways, PTL

(* No page shows a holding at a price older than twice the TTL and the time  *)
(* its calls take: a row nearly a TTL old that a page puts back into Redis   *)
(* for a TTL more is the worst there is, since Redis never feeds the rows.   *)
THEOREM PricesAreRecent == CacheSpec => []QuotesAreRecent
<1>1. QuotesInv => QuotesAreRecent
  BY DEF QuotesInv, AgeInv
<1> QED
  BY <1>1, QuotesInvAlways, PTL

-----------------------------------------------------------------------------
(* HistoryCache.                                                             *)

Specs == {HistorySpecs[range] : range \in DOMAIN HistorySpecs}
Fits(s, spec) == s.period = spec.period /\ s.interval = spec.interval

(* An entry of Redis under key k at some time.                               *)
Kept(e, k, time) ==
  /\ e.until \in Int /\ e.series.fetched \in Int
  /\ time < e.until
  /\ \E spec \in Specs : /\ Fits(e.series, spec)
                         /\ k = HistoryKey(e.series.ticker, spec)
                         /\ e.until - e.series.fetched <= spec.ttl + FetchTime

(* What the worker has fetched and is about to store.                        *)
Fetched(p, time) ==
  /\ p.since \in Int /\ time <= p.since + FetchTime
  /\ \A s \in p.fetched : Fits(s, p.spec) /\ s.fetched = p.since

HistoryInv ==
  /\ quarter \in Int
  /\ \A k \in DOMAIN histories : Kept(histories[k], k, quarter)
  /\ job.at \in {"idle", "fetch", "store"}
  /\ job.at # "idle" => job.spec \in Specs
  /\ job.at = "store" => Fetched(job, quarter)
  /\ HistoryIsOfItsTicker

-----------------------------------------------------------------------------
(* Two ranges of one period and interval, ytd and year, live equally long.   *)
LEMMA SpecFacts ==
  /\ \A range : HistorySpecForRange(range) \in Specs
  /\ \A spec \in Specs : spec.ttl \in Int /\ 0 < spec.ttl
  /\ \A a, b \in Specs : a.period = b.period /\ a.interval = b.interval => a.ttl = b.ttl
<1>1. DOMAIN HistorySpecs = {"day", "week", "month", "ytd", "year", "five_year", "max"}
  BY DEF HistorySpecs
<1>2. \A spec \in Specs : spec \in
              {HistorySpec("5d", "5m", 1), HistorySpec("60d", "15m", 2),
               HistorySpec("6mo", "1d", 24), HistorySpec("2y", "1d", 24),
               HistorySpec("5y", "1d", 48), HistorySpec("max", "1d", 96)}
  <2>1. /\ HistorySpecs["day"] = HistorySpec("5d", "5m", 1)
        /\ HistorySpecs["week"] = HistorySpec("60d", "15m", 2)
        /\ HistorySpecs["month"] = HistorySpec("6mo", "1d", 24)
        /\ HistorySpecs["ytd"] = HistorySpec("2y", "1d", 24)
        /\ HistorySpecs["year"] = HistorySpec("2y", "1d", 24)
        /\ HistorySpecs["five_year"] = HistorySpec("5y", "1d", 48)
        /\ HistorySpecs["max"] = HistorySpec("max", "1d", 96)
    BY DEF HistorySpecs
  <2> QED
    BY <1>1, <2>1 DEF Specs
<1>3. \A range : HistorySpecForRange(range) \in Specs
  BY <1>1 DEF HistorySpecForRange, Specs
<1>4. \A spec \in Specs : spec.ttl \in Int /\ 0 < spec.ttl
  BY <1>2 DEF HistorySpec
<1>5. \A a, b \in Specs : a.period = b.period /\ a.interval = b.interval => a.ttl = b.ttl
  BY <1>2 DEF HistorySpec
<1> QED
  BY <1>3, <1>4, <1>5

(* What a lookup finds is of the ticker, period and interval asked for, and  *)
(* lives no longer than its range allows.                                    *)
LEMMA LookupFacts ==
  ASSUME HistoryInv, NEW tickers, NEW spec \in Specs, NEW t \in DOMAIN CachedByTicker(tickers, spec)
  PROVE  LET s == CachedByTicker(tickers, spec)[t]
         IN /\ s.ticker = t /\ s.period = spec.period /\ s.interval = spec.interval
            /\ quarter - s.fetched < spec.ttl + FetchTime
<1> DEFINE found == GetSeries(tickers, spec)
           s == CachedByTicker(tickers, spec)[t]
<1>1. t \in {x.ticker : x \in found} /\ s = CHOOSE x \in found : x.ticker = t
  BY DEF CachedByTicker
<1>2. s \in found /\ s.ticker = t
  BY <1>1
<1>3. PICK u \in tickers : HistoryKey(u, spec) \in DOMAIN histories
                           /\ s = histories[HistoryKey(u, spec)].series
  BY <1>2 DEF GetSeries
<1> DEFINE e == histories[HistoryKey(u, spec)]
<1>4. Kept(e, HistoryKey(u, spec), quarter) /\ s = e.series
  BY <1>3 DEF HistoryInv
<1>5. PICK b \in Specs : /\ Fits(e.series, b)
                         /\ HistoryKey(u, spec) = HistoryKey(e.series.ticker, b)
                         /\ e.until - e.series.fetched <= b.ttl + FetchTime
  BY <1>4 DEF Kept
<1> HIDE DEF s, e, found
<1>6. b.period = spec.period /\ b.interval = spec.interval
  BY <1>5 DEF HistoryKey
<1>7. b.ttl = spec.ttl /\ spec.ttl \in Int
  BY <1>6, SpecFacts
<1>8. e.until \in Int /\ e.series.fetched \in Int /\ quarter < e.until /\ quarter \in Int
  BY <1>4 DEF Kept, HistoryInv
<1>9. quarter - s.fetched < spec.ttl + FetchTime
  BY <1>4, <1>5, <1>7, <1>8, HistoryTimes
<1>10. s.period = spec.period /\ s.interval = spec.interval
  BY <1>4, <1>5, <1>6 DEF Fits
<1> QED
  BY <1>2, <1>9, <1>10 DEF s

-----------------------------------------------------------------------------
(* The steps.                                                                *)

LEMMA PageKeeps ==
  ASSUME HistoryInv, NEW tickers, NEW range \in Ranges, GetCachedPriceHistory(tickers, range)
  PROVE  HistoryInv'
<1> DEFINE spec == HistorySpecForRange(range)
           some == CachedByTicker(tickers, spec)
<1>1. UNCHANGED <<quarter, histories, job>>
  BY DEF GetCachedPriceHistory
<1>2. spec \in Specs
  BY SpecFacts
<1>3. CASE view' = [range |-> "ValueError"]
  BY <1>1, <1>3 DEF HistoryInv, HistoryIsOfItsTicker, Kept, Fetched
<1>4. ASSUME NEW found, found = some \/ found = [t \in {} |-> NoView],
             view' = [range |-> range, asked |-> tickers, series |-> found,
                      missing |-> tickers \ DOMAIN found]
      PROVE  HistoryInv'
  <2>1. \A t \in DOMAIN found :
          /\ found[t].ticker = t /\ found[t].period = spec.period
          /\ found[t].interval = spec.interval
          /\ quarter - found[t].fetched < spec.ttl + FetchTime
    <3>1. CASE found = some
      BY <1>2, <3>1, LookupFacts
    <3>2. CASE found = [t \in {} |-> NoView]
      BY <3>2
    <3> QED
      BY <1>4, <3>1, <3>2
  <2> HIDE DEF some
  <2>2. view'.range = range /\ view'.asked = tickers /\ view'.series = found
        /\ view'.missing = tickers \ DOMAIN found
    BY <1>4
  <2>3. HistoryIsOfItsTicker'
    BY <1>1, <2>1, <2>2 DEF HistoryIsOfItsTicker
  <2> QED
    BY <1>1, <2>3 DEF HistoryInv, Kept, Fetched
<1> QED
  BY <1>3, <1>4 DEF GetCachedPriceHistory

(* Where there is no page to answer.                                         *)
LEMMA NoAnswer == view' = NoView => HistoryIsOfItsTicker'
  BY DEF NoView, HistoryIsOfItsTicker

LEMMA StartKeeps ==
  ASSUME HistoryInv, NEW tickers, NEW range, NEW force, StartHistoryRefresh(tickers, range, force)
  PROVE  HistoryInv'
<1>1. job'.at = "fetch" /\ job'.spec \in Specs /\ view' = NoView /\ UNCHANGED <<quarter, histories>>
  BY SpecFacts DEF StartHistoryRefresh
<1> QED
  BY <1>1, NoAnswer DEF HistoryInv, Kept

LEMMA FetchKeeps ==
  ASSUME HistoryInv, FetchHistory
  PROVE  HistoryInv'
<1>1. /\ job.at = "fetch" /\ view' = NoView /\ UNCHANGED <<quarter, histories>>
      /\ job' = [at |-> "store", spec |-> job.spec, since |-> quarter,
                 fetched |-> {SeriesOf(t, job.spec) : t \in job.missing}]
  BY DEF FetchHistory
<1>2. job'.at = "store" /\ job'.spec = job.spec /\ job.spec \in Specs /\ job'.since = quarter
      /\ job'.fetched = {SeriesOf(t, job.spec) : t \in job.missing}
  BY <1>1 DEF HistoryInv
<1>3. Fetched(job', quarter)
  <2>1. \A s \in job'.fetched : Fits(s, job'.spec) /\ s.fetched = job'.since
    BY <1>2 DEF SeriesOf, Fits
  <2> QED
    BY <1>2, <2>1, HistoryTimes DEF Fetched, HistoryInv
<1> QED
  BY <1>1, <1>2, <1>3, NoAnswer DEF HistoryInv, Kept, Fetched

LEMMA StoreKeeps ==
  ASSUME HistoryInv, StoreHistory
  PROVE  HistoryInv'
<1> DEFINE keys == {HistoryKey(s.ticker, job.spec) : s \in job.fetched}
<1>1. PICK last \in [keys -> job.fetched] :
        /\ \A k \in keys : HistoryKey(last[k].ticker, job.spec) = k
        /\ histories' = [k \in keys \cup DOMAIN histories |->
                           IF k \in keys THEN [series |-> last[k], until |-> quarter + job.spec.ttl]
                           ELSE histories[k]]
  BY DEF StoreHistory
<1>2. job.at = "store" /\ job' = NoJob /\ view' = NoView /\ UNCHANGED quarter
  BY DEF StoreHistory
<1>3. quarter \in Int /\ job.spec \in Specs /\ Fetched(job, quarter)
  BY <1>2 DEF HistoryInv
<1>4. job.spec.ttl \in Int /\ 0 < job.spec.ttl
  BY <1>3, SpecFacts
<1>5. ASSUME NEW k \in keys
      PROVE  Kept(histories'[k], k, quarter)
  <2>1. last[k] \in job.fetched
    BY <1>1, <1>5
  <2>2. histories'[k].series = last[k] /\ histories'[k].until = quarter + job.spec.ttl
    BY <1>1, <1>5
  <2>3. /\ Fits(last[k], job.spec) /\ last[k].fetched = job.since /\ job.since \in Int
        /\ quarter <= job.since + FetchTime
    BY <1>3, <2>1 DEF Fetched
  <2>4. /\ quarter + job.spec.ttl \in Int /\ quarter < quarter + job.spec.ttl
        /\ quarter + job.spec.ttl - job.since <= job.spec.ttl + FetchTime
    BY <1>3, <1>4, <2>3, HistoryTimes
  <2>5. k = HistoryKey(last[k].ticker, job.spec)
    BY <1>1, <1>5
  <2> HIDE DEF keys
  <2>6. \E spec \in Specs :
          /\ Fits(histories'[k].series, spec)
          /\ k = HistoryKey(histories'[k].series.ticker, spec)
          /\ histories'[k].until - histories'[k].series.fetched <= spec.ttl + FetchTime
    <3>1. Fits(histories'[k].series, job.spec)
      BY <2>2, <2>3 DEF Fits
    <3>2. k = HistoryKey(histories'[k].series.ticker, job.spec)
      BY <2>2, <2>5
    <3>3. histories'[k].until - histories'[k].series.fetched <= job.spec.ttl + FetchTime
      BY <1>3, <1>4, <2>2, <2>3, <2>4, HistoryTimes
    <3> QED
      BY <1>3, <3>1, <3>2, <3>3
  <2> QED
    BY <2>2, <2>3, <2>4, <2>6 DEF Kept
<1> HIDE DEF keys
<1>6. \A k \in DOMAIN histories' : Kept(histories'[k], k, quarter)
  <2>1. \A k \in DOMAIN histories' \ keys : k \in DOMAIN histories /\ histories'[k] = histories[k]
    BY <1>1
  <2> QED
    BY <1>1, <1>5, <2>1 DEF HistoryInv
<1> QED
  BY <1>2, <1>6, NoAnswer DEF HistoryInv, Kept, NoJob

LEMMA FailureKeeps ==
  ASSUME HistoryInv, HistoryRefreshFails
  PROVE  HistoryInv'
<1>1. job'.at = "idle" /\ view' = NoView /\ UNCHANGED <<quarter, histories>>
  BY DEF HistoryRefreshFails, NoJob
<1> QED
  BY <1>1, NoAnswer DEF HistoryInv, Kept

LEMMA TimeKeeps ==
  ASSUME HistoryInv, QuarterPasses
  PROVE  HistoryInv'
<1>1. /\ quarter' = quarter + 1 /\ view' = NoView /\ UNCHANGED job
      /\ histories' = Restrict(histories, {k \in DOMAIN histories : quarter + 1 < histories[k].until})
      /\ job.at = "store" => quarter < job.since + FetchTime
  BY DEF QuarterPasses
<1>2. quarter \in Int /\ quarter' \in Int
  BY <1>1 DEF HistoryInv
<1>3. \A k \in DOMAIN histories' : k \in DOMAIN histories /\ histories'[k] = histories[k]
                                   /\ quarter' < histories[k].until
  BY <1>1 DEF Restrict
<1>4. \A k \in DOMAIN histories' : Kept(histories'[k], k, quarter')
  BY <1>3 DEF HistoryInv, Kept
<1>5. job.at = "store" => Fetched(job, quarter')
  BY <1>1, <1>2, HistoryTimes DEF HistoryInv, Fetched
<1> QED
  BY <1>1, <1>2, <1>4, <1>5, NoAnswer DEF HistoryInv, Kept, Fetched

-----------------------------------------------------------------------------
LEMMA HistoryInvInit == HistoryInit => HistoryInv
  BY DEF HistoryInit, HistoryInv, NoJob, NoView, HistoryIsOfItsTicker

LEMMA HistoryInvNext == HistoryInv /\ [HistoryNext]_historyVars => HistoryInv'
<1> SUFFICES ASSUME HistoryInv, [HistoryNext]_historyVars PROVE HistoryInv'
  OBVIOUS
<1>1. CASE \E tickers \in Requests, range \in Ranges : GetCachedPriceHistory(tickers, range)
  BY <1>1, PageKeeps
<1>2. CASE \E tickers \in Requests, range \in Ranges :
             \E force \in BOOLEAN : StartHistoryRefresh(tickers, range, force)
  BY <1>2, StartKeeps
<1>3. CASE FetchHistory
  BY <1>3, FetchKeeps
<1>4. CASE StoreHistory
  BY <1>4, StoreKeeps
<1>5. CASE HistoryRefreshFails
  BY <1>5, FailureKeeps
<1>6. CASE QuarterPasses
  BY <1>6, TimeKeeps
<1>7. CASE UNCHANGED historyVars
  BY <1>7 DEF historyVars, HistoryInv, Kept, Fetched, HistoryIsOfItsTicker
<1> QED
  BY <1>1, <1>2, <1>3, <1>4, <1>5, <1>6, <1>7 DEF HistoryNext

(* However tickers are turned into keys, so that any number of them share    *)
(* one, and whichever series was written last under it: a page is given only *)
(* prices of the tickers, period and interval it asked for, no older than    *)
(* the life of a series and the time from fetching to storing it             *)
(* (cached_by_ticker in get_cached_price_history).                           *)
THEOREM PagesGetTheirTickers == HistorySpecification => []HistoryIsOfItsTicker
<1>1. HistoryInv => HistoryIsOfItsTicker
  BY DEF HistoryInv
<1> QED
  BY <1>1, HistoryInvInit, HistoryInvNext, PTL DEF HistorySpecification

-----------------------------------------------------------------------------
(* OptionChains.                                                             *)

(* A chain filed under the date it answers.                                  *)
Sound(c) == Answers(c.expiry, c.requested, c.offered) /\ c.contracts = c.expiry

ChainsInv ==
  /\ listed \subseteq Dates
  /\ \A key \in DOMAIN suites : key[1] \in Dates /\ key[2] \in Nat \ {0}
  /\ DOMAIN chains \subseteq Dates
  /\ ChainsAnswerTheirDate
  /\ SuiteHoldsItsChain

-----------------------------------------------------------------------------
(* The nearest date.                                                         *)

LEMMA NearestExists ==
  ASSUME NEW S \in SUBSET Dates, S # {}, NEW r \in Dates
  PROVE  \E e \in S : \A f \in S : Distance(e, r) <= Distance(f, r)
<1> DEFINE D == {Distance(e, r) : e \in S}
<1>1. D \in SUBSET Nat /\ D # {}
  <2>1. \A e \in S : Distance(e, r) \in Nat
    <3>1. r \in Nat /\ \A e \in S : e \in Nat
      BY OptionDates
    <3> QED
      BY <3>1 DEF Distance
  <2> QED
    BY <2>1
<1>2. PICK x \in D : \A y \in D : x <= y
  BY <1>1, LeastNumber
<1> QED
  BY <1>2

(* What select_option_expiry chooses.                                        *)
LEMMA SelectFacts ==
  ASSUME listed \subseteq Dates, NEW r \in Dates
  PROVE  /\ Answers(SelectOptionExpiry(r), r, listed)
         /\ listed # {} => SelectOptionExpiry(r) \in Eligible(r)
<1> DEFINE all == Eligible(r)
           sel == SelectOptionExpiry(r)
<1>1. all \subseteq listed /\ (listed # {} => all # {})
  BY DEF Eligible, Future
<1>2. CASE listed = {}
  <2>1. all = {}
    BY <1>1, <1>2
  <2>2. sel = NoExpiry
    BY <2>1 DEF SelectOptionExpiry
  <2> QED
    BY <1>2, <2>2 DEF Answers
<1>3. CASE listed # {}
  <2>1. \E e \in all : \A f \in all : Distance(e, r) <= Distance(f, r)
    BY <1>1, <1>3, NearestExists
  <2>2. sel \in all /\ \A f \in all : Distance(sel, r) <= Distance(f, r)
    BY <1>1, <1>3, <2>1 DEF SelectOptionExpiry
  <2>3. r \in Nat /\ sel \in listed /\ \A e \in listed : e \in Nat
    BY <1>1, <2>2, OptionDates
  <2>4. CASE Future(r) # {}
    <3>1. all = {e \in listed : e >= r}
      BY <2>4 DEF Eligible, Future
    <3> HIDE DEF all, sel
    <3>2. sel >= r
      BY <2>2, <3>1
    <3>3. \A e \in listed : e < sel => e < r
      BY <2>2, <2>3, <3>1, <3>2 DEF Distance
    <3>4. Answers(sel, r, listed)
      BY <2>3, <3>2, <3>3 DEF Answers
    <3> QED
      BY <2>2, <3>4 DEF all, sel
  <2>5. CASE Future(r) = {}
    <3>1. all = listed
      BY <2>5 DEF Eligible
    <3>2. \A e \in listed : e < r
      BY <2>3, <2>5 DEF Future
    <3> HIDE DEF all, sel
    <3>3. \A e \in listed : e <= sel
      BY <2>2, <2>3, <3>1, <3>2 DEF Distance
    <3>4. Answers(sel, r, listed)
      BY <2>3, <3>2, <3>3 DEF Answers
    <3> QED
      BY <2>2, <3>4 DEF all, sel
  <2> QED
    BY <2>4, <2>5
<1> QED
  BY <1>2, <1>3

LEMMA FetchChainFacts ==
  ASSUME listed \subseteq Dates, NEW r \in Dates
  PROVE  Sound(FetchOptionChain(r)) /\ FetchOptionChain(r).requested = r
  BY SelectFacts DEF FetchOptionChain, Chain, Sound

(* Every chain of a surface answers the date it is filed under.              *)
LEMMA SurfaceFacts ==
  ASSUME listed \subseteq Dates, NEW r \in Dates, NEW n, NEW failing,
         NEW c \in FetchOptionSuite(r, n, failing).surface
  PROVE  Sound(c) /\ c.requested \in Dates
<1> DEFINE sel == SelectOptionExpiry(r)
<1>1. PICK e \in SurfaceExpiries(r, n) : c = Chain(RequestedOf(r, sel, e), e, e)
  BY DEF FetchOptionSuite
<1>2. e \in listed /\ e \in Nat
  BY <1>1, OptionDates DEF SurfaceExpiries, Eligible, Future
<1>3. /\ c.requested = RequestedOf(r, sel, e) /\ c.expiry = e /\ c.contracts = e
      /\ c.offered = listed
  BY <1>1 DEF Chain
<1> HIDE DEF sel
<1>4. CASE e = sel
  BY <1>3, <1>4, SelectFacts DEF RequestedOf, Sound, sel
<1>5. CASE e # sel
  <2>1. c.requested = e
    BY <1>3, <1>5 DEF RequestedOf
  <2>2. Answers(e, e, listed)
    BY <1>2 DEF Answers
  <2> QED
    BY <1>2, <1>3, <2>1, <2>2 DEF Sound
<1> QED
  BY <1>4, <1>5

-----------------------------------------------------------------------------
(* A surface that leaves out the date chosen has no room for it.             *)

LEMMA LeftOut ==
  ASSUME listed \subseteq Dates, NEW r \in Dates, NEW n \in Nat \ {0}, listed # {},
         SelectOptionExpiry(r) \notin SurfaceExpiries(r, n)
  PROVE  (\A e \in listed : e < r) /\ Cardinality(listed) > n
<1> DEFINE all == Eligible(r)
           sel == SelectOptionExpiry(r)
           before == {f \in all : f < sel}
<1>1. sel \in all /\ Answers(sel, r, listed)
  BY SelectFacts
<1>2. all \subseteq listed /\ IsFiniteSet(listed)
  BY OptionDates, FS_Subset DEF Eligible, Future
<1>3. IsFiniteSet(before) /\ Cardinality(before) \in Nat
  <2>1. before \subseteq listed
    BY <1>2
  <2> QED
    BY <1>2, <2>1, FS_Subset, FS_CardinalityType
<1>4. ~ (Cardinality(before) < n)
  BY <1>1 DEF SurfaceExpiries
<1>5. before # {}
  BY <1>3, <1>4, FS_EmptySet
<1>6. PICK f \in all : f < sel
  BY <1>5
<1>7. sel \in Nat /\ r \in Nat /\ \A e \in listed : e \in Nat
  BY <1>1, <1>2, OptionDates
<1>8. \A e \in listed : e < sel => e < r
  BY <1>1 DEF Answers
<1>9. Future(r) = {}
  <2>1. f < r
    BY <1>2, <1>6, <1>8
  <2> QED
    BY <1>2, <1>6, <1>7, <2>1 DEF Eligible, Future
<1>10. \A e \in listed : e < r
  BY <1>7, <1>9 DEF Future
<1>11. before \cup {sel} \subseteq listed /\ sel \notin before
  BY <1>1, <1>2, <1>7
<1> HIDE DEF before, sel, all
<1>12. Cardinality(before \cup {sel}) = Cardinality(before) + 1
  BY <1>3, <1>11, FS_AddElement
<1>13. Cardinality(before \cup {sel}) <= Cardinality(listed) /\ Cardinality(listed) \in Nat
  BY <1>2, <1>11, FS_Subset, FS_CardinalityType
<1> QED
  BY <1>3, <1>4, <1>10, <1>12, <1>13

LEMMA SuiteFacts ==
  ASSUME listed \subseteq Dates, NEW r \in Dates, NEW n \in Nat \ {0}, NEW failing,
         reply' = FetchOptionSuite(r, n, failing)
  PROVE  SuiteHoldsItsChain'
<1> DEFINE sel == SelectOptionExpiry(r)
           fetched == SurfaceExpiries(r, n) \ failing
<1>1. /\ reply'.kind = "suite" /\ reply'.requested = r /\ reply'.size = n
      /\ reply'.failing = failing
      /\ reply'.current = IF sel \in fetched THEN Chain(RequestedOf(r, sel, sel), sel, sel)
                          ELSE Chain(r, sel, NoExpiry)
  BY DEF FetchOptionSuite
<1>2. Answers(sel, r, listed)
  BY SelectFacts
<1>3. CASE sel \in fetched
  <2>1. reply'.current.contracts = sel /\ reply'.current.expiry = sel
        /\ reply'.current.offered = listed
    BY <1>1, <1>3 DEF Chain
  <2> QED
    BY <1>1, <1>2, <2>1 DEF SuiteHoldsItsChain
<1>4. CASE sel \notin fetched
  <2>1. reply'.current.contracts = NoExpiry /\ reply'.current.expiry = sel
        /\ reply'.current.offered = listed
    BY <1>1, <1>4 DEF Chain
  <2>2. CASE listed = {}
    BY <2>1, <2>2 DEF SuiteHoldsItsChain
  <2>3. CASE sel \in failing
    BY <1>1, <2>1, <2>3 DEF SuiteHoldsItsChain
  <2>4. CASE listed # {} /\ sel \notin failing
    <3>1. (\A e \in listed : e < r) /\ Cardinality(listed) > n
      BY <1>4, <2>4, LeftOut
    <3> QED
      BY <1>1, <2>1, <3>1 DEF SuiteHoldsItsChain
  <2> QED
    BY <2>2, <2>3, <2>4
<1> QED
  BY <1>3, <1>4

-----------------------------------------------------------------------------
(* The calls.                                                                *)

(* Any answer but a suite.                                                   *)
LEMMA OtherReply == reply'.kind # "suite" => SuiteHoldsItsChain'
  BY DEF SuiteHoldsItsChain

(* An answer from Redis and an error change nothing.                         *)
LEMMA HitKeeps ==
  ASSUME ChainsInv, NEW f, NEW k, Hit(f, k) \/ (\E e \in {"RateLimitExceeded", "ValueError"} : Refused(e))
  PROVE  ChainsInv'
<1>1. Stay /\ reply'.kind # "suite"
  BY DEF Hit, Refused
<1> QED
  BY <1>1, OtherReply DEF ChainsInv, Stay, ChainsAnswerTheirDate

LEMMA ChainKeeps ==
  ASSUME ChainsInv, NEW r \in Dates, NEW force, RequestChain(r, force)
  PROVE  ChainsInv'
<1>1. CASE Hit(chains, r) \/ Refused("RateLimitExceeded")
  BY <1>1, HitKeeps
<1>2. ASSUME reply' = [kind |-> "chain", chain |-> FetchOptionChain(r)],
             chains' \in {StoreChain(FetchOptionChain(r)), chains},
             UNCHANGED <<clock, listed, suites, captures>>
      PROVE  ChainsInv'
  <2> DEFINE c == FetchOptionChain(r)
  <2>1. Sound(c) /\ c.requested = r
    BY FetchChainFacts DEF ChainsInv
  <2>2. SuiteHoldsItsChain'
    BY <1>2, OtherReply
  <2>3. CASE chains' = chains
    BY <1>2, <2>2, <2>3 DEF ChainsInv, ChainsAnswerTheirDate
  <2>4. CASE chains' = StoreChain(c)
    <3> HIDE DEF c
    <3>1. chains' = [x \in DOMAIN chains \cup {r} |->
                       IF x = r THEN [chain |-> c, until |-> clock + OptionsTTL] ELSE chains[x]]
      BY <2>1, <2>4 DEF StoreChain, Bound
    <3>2. DOMAIN chains' \subseteq Dates
      BY <3>1 DEF ChainsInv
    <3>3. ChainsAnswerTheirDate'
      BY <2>1, <3>1 DEF ChainsInv, ChainsAnswerTheirDate, Sound
    <3> QED
      BY <1>2, <2>2, <3>2, <3>3 DEF ChainsInv
  <2> QED
    BY <1>2, <2>3, <2>4
<1> QED
  BY <1>1, <1>2 DEF RequestChain

LEMMA StoreSurfaceFacts ==
  ASSUME ChainsInv, NEW r \in Dates, NEW n, NEW failing,
         chains' = StoreSurface(FetchOptionSuite(r, n, failing))
  PROVE  ChainsAnswerTheirDate' /\ DOMAIN chains' \subseteq Dates
<1> DEFINE surface == FetchOptionSuite(r, n, failing).surface
           keys == {c.requested : c \in surface}
           stored(k) == CHOOSE c \in surface : c.requested = k
<1>1. chains' = [k \in keys \cup DOMAIN chains |->
                   IF k \in keys THEN [chain |-> stored(k), until |-> clock + OptionsTTL]
                   ELSE chains[k]]
  BY DEF StoreSurface
<1>2. \A c \in surface : Sound(c) /\ c.requested \in Dates
  BY SurfaceFacts DEF ChainsInv
<1> HIDE DEF surface
<1>3. \A k \in keys : stored(k) \in surface /\ stored(k).requested = k
  OBVIOUS
<1>4. \A k \in keys : stored(k).requested = k /\ Sound(stored(k))
  BY <1>2, <1>3
<1>5. keys \subseteq Dates
  BY <1>2
<1> HIDE DEF keys, stored
<1>6. ChainsAnswerTheirDate'
  BY <1>1, <1>4 DEF ChainsInv, ChainsAnswerTheirDate, Sound
<1> QED
  BY <1>1, <1>5, <1>6 DEF ChainsInv

LEMMA SuiteKeeps ==
  ASSUME ChainsInv, NEW r \in Dates, NEW n \in Nat \ {0}, NEW force, RequestSuite(r, n, force)
  PROVE  ChainsInv'
<1>1. CASE Hit(suites, <<r, n>>) \/ Refused("RateLimitExceeded") \/ Refused("ValueError")
  BY <1>1, HitKeeps
<1>2. ASSUME NEW failing, NEW redis \in BOOLEAN,
             suites' = IF redis
                       THEN Bound(suites, <<r, n>>, [suite |-> FetchOptionSuite(r, n, failing),
                                                     until |-> clock + OptionsTTL])
                       ELSE suites,
             chains' = IF redis THEN StoreSurface(FetchOptionSuite(r, n, failing)) ELSE chains,
             reply' = FetchOptionSuite(r, n, failing) \/ reply' = [kind |-> "DatabaseError"],
             UNCHANGED <<clock, listed>>
      PROVE  ChainsInv'
  <2>1. SuiteHoldsItsChain'
    BY <1>2, SuiteFacts, OtherReply DEF ChainsInv
  <2>2. \A key \in DOMAIN suites' : key[1] \in Dates /\ key[2] \in Nat \ {0}
    BY <1>2 DEF ChainsInv, Bound
  <2>3. ChainsAnswerTheirDate' /\ DOMAIN chains' \subseteq Dates
    <3>1. CASE redis
      BY <1>2, <3>1, StoreSurfaceFacts
    <3>2. CASE ~redis
      BY <1>2, <3>2 DEF ChainsInv, ChainsAnswerTheirDate
    <3> QED
      BY <3>1, <3>2
  <2> QED
    BY <1>2, <2>1, <2>2, <2>3 DEF ChainsInv
<1> QED
  BY <1>1, <1>2 DEF RequestSuite

LEMMA PassKeeps ==
  ASSUME ChainsInv, Pass
  PROVE  ChainsInv'
<1>1. /\ listed' \in SUBSET Dates /\ reply'.kind # "suite"
      /\ chains' = Restrict(chains, {k \in DOMAIN chains : clock + 1 < chains[k].until})
      /\ suites' = Restrict(suites, {k \in DOMAIN suites : clock + 1 < suites[k].until})
  BY DEF Pass, NoReply, Unexpired
<1>2. DOMAIN chains' \subseteq DOMAIN chains /\ \A k \in DOMAIN chains' : chains'[k] = chains[k]
  BY <1>1 DEF Restrict
<1>3. DOMAIN suites' \subseteq DOMAIN suites
  BY <1>1 DEF Restrict
<1>4. ChainsAnswerTheirDate'
  BY <1>2 DEF ChainsInv, ChainsAnswerTheirDate
<1> QED
  BY <1>1, <1>2, <1>3, <1>4, OtherReply DEF ChainsInv

-----------------------------------------------------------------------------
LEMMA ChainsInvInit == OptionsInit => ChainsInv
  BY DEF OptionsInit, ChainsInv, ChainsAnswerTheirDate, SuiteHoldsItsChain, NoReply

LEMMA ChainsInvNext == ChainsInv /\ [OptionsNext]_optionVars => ChainsInv'
<1> SUFFICES ASSUME ChainsInv, [OptionsNext]_optionVars PROVE ChainsInv'
  OBVIOUS
<1>1. CASE \E requested \in Dates : RequestChain(requested, FALSE)
  BY <1>1, ChainKeeps
<1>2. CASE \E requested \in DOMAIN chains : RequestChain(requested, TRUE)
  BY <1>2, ChainKeeps DEF ChainsInv
<1>3. CASE \E requested \in Dates, n \in 1 .. MaxSurfaceExpiries + 1 :
             RequestSuite(requested, n, FALSE)
  <2>1. \A n \in 1 .. MaxSurfaceExpiries + 1 : n \in Nat \ {0}
    BY OptionDates
  <2> QED
    BY <1>3, <2>1, SuiteKeeps
<1>4. CASE \E key \in DOMAIN suites : RequestSuite(key[1], key[2], TRUE)
  BY <1>4, SuiteKeeps DEF ChainsInv
<1>5. CASE Pass
  BY <1>5, PassKeeps
<1>6. CASE UNCHANGED optionVars
  BY <1>6 DEF optionVars, ChainsInv, ChainsAnswerTheirDate, SuiteHoldsItsChain
<1> QED
  BY <1>1, <1>2, <1>3, <1>4, <1>5, <1>6 DEF OptionsNext

LEMMA ChainsInvAlways == OptionsSpec => []ChainsInv
  BY ChainsInvInit, ChainsInvNext, PTL DEF OptionsSpec

(* For any dates, any listing and any change of it: whoever wrote an entry,  *)
(* a request for the chain of a date or the surface of a suite asked for     *)
(* under another, Redis holds for a date the chain the provider would have   *)
(* chosen for that date then (select_option_expiry, and the key under which  *)
(* fetch_option_suite_with_cache files a chain of the surface).              *)
THEOREM CachedChainsAreRight == OptionsSpec => []ChainsAnswerTheirDate
<1>1. ChainsInv => ChainsAnswerTheirDate
  BY DEF ChainsInv
<1> QED
  BY <1>1, ChainsInvAlways, PTL

(* For any number of dates and any size of a surface: a suite lacks its own  *)
(* chain only where the provider failed for it, or where all dates are past  *)
(* and more are listed than the surface has room for (_surface_expiries).    *)
THEOREM SuitesLackNoChain == OptionsSpec => []SuiteHoldsItsChain
<1>1. ChainsInv => SuiteHoldsItsChain
  BY DEF ChainsInv
<1> QED
  BY <1>1, ChainsInvAlways, PTL

-----------------------------------------------------------------------------
(* The index of a portfolio over time: the replay of the ledger. What is     *)
(* owned at every instant (H) and the prices of the points (C) are kept      *)
(* beside it in the invariant; the ledger tells H event by event, the replay *)
(* follows it, and from point to point the growths of the index add up what  *)
(* the trail holds.                                                          *)

(* A total is the sum over the domain.                                       *)
LEMMA TotalIs ==
  ASSUME NEW v
  PROVE  Total(v) = SumIn(v, DOMAIN v)
  BY DEF Total, FoldFunction, FoldFunctionOnSet, SumIn, MapThenSumSet

(* Numbers from 1 with all smaller ones are as many as the largest.          *)
LEMMA SegmentIs ==
  ASSUME NEW n \in Nat, NEW S \in SUBSET (1 .. n), \A x \in S : 1 .. x \subseteq S
  PROVE  \E m \in 0 .. n : S = 1 .. m /\ Cardinality(S) = m
<1> DEFINE D == {k \in Nat : S \subseteq 1 .. k}
<1>1. D \in SUBSET Nat /\ D # {}
  BY DEF D
<1>2. PICK m \in D : \A k \in D : m <= k
  <2> HIDE DEF D
  <2> QED
    BY <1>1, LeastNumber
<1>3. m \in Nat /\ S \subseteq 1 .. m /\ m <= n
  BY <1>2
<1>4. S = 1 .. m
  <2>1. CASE m = 0
    BY <1>3, <2>1
  <2>2. CASE m # 0
    <3>1. m - 1 \in Nat /\ m - 1 \notin D
      BY <1>2, <1>3, <2>2
    <3>2. ~(S \subseteq 1 .. (m - 1))
      BY <3>1
    <3>3. m \in S
      BY <1>3, <3>1, <3>2
    <3> QED
      BY <1>3, <3>3
  <2> QED
    BY <2>1, <2>2
<1>5. Cardinality(1 .. m) = m
  BY <1>3, UpToFinite
<1> QED
  BY <1>3, <1>4, <1>5

(* InOrder lists the elements of a set, each once, by their keys.            *)
Ordered(o, S, key) ==
  /\ DOMAIN o = 1 .. Cardinality(S) /\ Cardinality(S) \in Nat
  /\ \A k \in DOMAIN o : o[k] \in S
  /\ \A x \in S : \E k \in DOMAIN o : o[k] = x
  /\ \A j, k \in DOMAIN o : j < k => key[o[j]] < key[o[k]]

(* InOrder lists a set by its keys when before says whose key is smaller.    *)
LEMMA InOrderIs ==
  ASSUME NEW S, IsFiniteSet(S), NEW key, \A x \in S : key[x] \in Int,
         \A x, y \in S : key[x] = key[y] => x = y,
         NEW before, \A x, y \in S : <<y, x>> \in before <=> key[y] < key[x]
  PROVE  Ordered(InOrder(S, before), S, key)
<1> DEFINE below(x) == {y \in S : key[y] < key[x]}
           n == Cardinality(S)
           rank == [x \in S |-> Cardinality(below(x))]
           o == InOrder(S, before)
<1>1. n \in Nat
  BY FS_CardinalityType
<1>2. \A x \in S : IsFiniteSet(below(x)) /\ rank[x] \in Nat
  <2> SUFFICES ASSUME NEW x \in S PROVE IsFiniteSet(below(x)) /\ rank[x] \in Nat
    OBVIOUS
  <2>1. below(x) \in SUBSET S
    OBVIOUS
  <2>2. IsFiniteSet(below(x))
    BY <2>1, FS_Subset
  <2> QED
    BY <2>2, FS_CardinalityType
<1>3. ASSUME NEW x \in S
      PROVE  rank[x] \in 0 .. (n - 1)
  <2>1. IsFiniteSet(S \ {x}) /\ Cardinality(S \ {x}) = n - 1
    BY FS_RemoveElement
  <2>2. below(x) \in SUBSET (S \ {x})
    <3>1. ~(key[x] < key[x])
      OBVIOUS
    <3> QED
      BY <3>1
  <2>3. rank[x] <= n - 1
    BY <2>1, <2>2, FS_Subset
  <2>4. rank[x] \in Nat
    BY <1>2
  <2> HIDE DEF rank, n
  <2> QED
    BY <1>1, <2>3, <2>4
<1>4. ASSUME NEW x \in S, NEW y \in S, key[y] < key[x]
      PROVE  rank[y] < rank[x]
  <2>1. IsFiniteSet(below(x) \ {y}) /\ Cardinality(below(x) \ {y}) = rank[x] - 1
    <3>1. y \in below(x)
      BY <1>4
    <3> QED
      BY <1>2, <3>1, FS_RemoveElement
  <2>2. below(y) \in SUBSET (below(x) \ {y})
    <3> SUFFICES ASSUME NEW z \in below(y) PROVE z \in below(x) /\ z # y
      OBVIOUS
    <3>1. z \in S /\ key[z] < key[y] /\ key[z] \in Int /\ key[y] \in Int /\ key[x] \in Int
      OBVIOUS
    <3> QED
      BY <1>4, <3>1
  <2>3. Cardinality(below(y)) <= Cardinality(below(x) \ {y})
    <3> DEFINE T == below(x) \ {y}
               U == below(y)
    <3>1. IsFiniteSet(T) /\ U \in SUBSET T
      BY <2>1, <2>2
    <3> HIDE DEF T, U
    <3>2. Cardinality(U) <= Cardinality(T)
      BY <3>1, FS_Subset
    <3> QED
      BY <3>2 DEF T, U
  <2>4. rank[y] = Cardinality(below(y)) /\ rank[x] \in Nat /\ rank[y] \in Nat
    BY <1>2
  <2> HIDE DEF rank, below
  <2> QED
    BY <2>1, <2>3, <2>4
<1>5. \A x, y \in S : rank[x] = rank[y] => x = y
  <2> HIDE DEF rank
  <2> SUFFICES ASSUME NEW x \in S, NEW y \in S, rank[x] = rank[y] PROVE x = y
    OBVIOUS
  <2>1. key[x] \in Int /\ key[y] \in Int /\ rank[x] \in Int
    BY <1>3
  <2>2. ~(key[x] < key[y]) /\ ~(key[y] < key[x])
    BY <1>4, <2>1
  <2> QED
    BY <2>1, <2>2
<1>6. \A k \in 1 .. n : \E x \in S : rank[x] = k - 1
  <2> DEFINE T == 0 .. (n - 1)
  <2>1. IsFiniteSet(T) /\ Cardinality(T) = n
    <3>1. 0 \in Int /\ n - 1 \in Int
      BY <1>1
    <3> QED
      BY <1>1, <3>1, FS_Interval
  <2>2. rank \in Injection(S, T)
    <3>1. rank \in [S -> T]
      BY <1>3
    <3> HIDE DEF rank, T
    <3> QED
      BY <1>5, <3>1 DEF Injection, IsInjective
  <2> HIDE DEF rank, T
  <2>3. rank \in Surjection(S, T)
    BY <2>1, <2>2, FS_Injection
  <2>4. \A k \in 1 .. n : k - 1 \in T
    BY <1>1 DEF T
  <2> QED
    BY <2>3, <2>4 DEF Surjection
<1>7. /\ DOMAIN o = 1 .. n
      /\ \A k \in 1 .. n : o[k] = CHOOSE x \in S : Cardinality({y \in S : <<y, x>> \in before}) = k - 1
  BY DEF InOrder
<1>8. \A x \in S : Cardinality({y \in S : <<y, x>> \in before}) = rank[x]
  <2> SUFFICES ASSUME NEW x \in S PROVE Cardinality({y \in S : <<y, x>> \in before}) = rank[x]
    OBVIOUS
  <2>1. \A y \in S : <<y, x>> \in before <=> key[y] < key[x]
    OBVIOUS
  <2>2. {y \in S : <<y, x>> \in before} = below(x)
    BY <2>1, Zenon
  <2>3. rank[x] = Cardinality(below(x))
    OBVIOUS
  <2> HIDE DEF rank, below
  <2> QED
    BY <2>2, <2>3
<1> HIDE DEF rank, o
<1>9. ASSUME NEW k \in 1 .. n
      PROVE  o[k] \in S /\ rank[o[k]] = k - 1
  <2>1. \E x \in S : Cardinality({y \in S : <<y, x>> \in before}) = k - 1
    BY <1>6, <1>8
  <2>2. o[k] \in S /\ Cardinality({y \in S : <<y, o[k]>> \in before}) = k - 1
    BY <1>7, <2>1
  <2> QED
    BY <1>8, <2>2
<1>10. ASSUME NEW x \in S
       PROVE  \E k \in 1 .. n : o[k] = x
  <2>1. rank[x] + 1 \in 1 .. n /\ (rank[x] + 1) - 1 = rank[x]
    BY <1>1, <1>3
  <2>2. o[rank[x] + 1] \in S /\ rank[o[rank[x] + 1]] = rank[x]
    BY <1>9, <2>1
  <2> QED
    BY <1>5, <2>1, <2>2
<1>11. ASSUME NEW j \in 1 .. n, NEW k \in 1 .. n, j < k
       PROVE  key[o[j]] < key[o[k]]
  <2>1. o[j] \in S /\ o[k] \in S /\ rank[o[j]] = j - 1 /\ rank[o[k]] = k - 1
    BY <1>9
  <2>2. rank[o[j]] < rank[o[k]]
    BY <1>1, <1>11, <2>1
  <2>3. o[j] # o[k] /\ ~(rank[o[k]] < rank[o[j]])
    BY <1>1, <2>1, <2>2
  <2>4. ~(key[o[k]] < key[o[j]]) /\ key[o[k]] # key[o[j]]
    BY <1>4, <2>1, <2>3
  <2>5. key[o[j]] \in Int /\ key[o[k]] \in Int
    BY <2>1
  <2> QED
    BY <2>4, <2>5
<1> QED
  BY <1>1, <1>7, <1>9, <1>10, <1>11 DEF Ordered, o

(* Types: of the ledger, of what is owned, and of the variables.             *)
MoveRows == [at : Nat, kind : {"deposit", "withdrawal", "dividend"}, amount : Nat]
TradeRows == [at : Nat, symbol : Stocks, side : {"buy", "sell"}, quantity : Nat, price : Nat, fees : Nat]
LotRows == [at : Nat, symbol : Stocks, quantity : Nat, left : Nat, price : Nat, fees : Nat,
            source : {"manual_trade", "manual", "aggregate_position"}]
LedgerRows == [cash : Seq(MoveRows), trades : Seq(TradeRows), lots : Seq(LotRows)]
Holdings == [cash : Nat, shares : [Stocks -> Nat]]
OwnedRows == [cash : Nat, shares : [Stocks -> Nat], earned : Int, before : Holdings]
PerformanceTyped ==
  /\ instant \in Nat \ {0}
  /\ closing \in [Stocks -> Nat \ {0}]
  /\ series \in [Stocks -> Seq([at : Nat, close : Nat \ {0}])]
  /\ ledger \in LedgerRows
  /\ owned \in OwnedRows
  /\ trail \in Seq([at : Nat, worth : Int, held : Int])

(* What is owned is worth a whole number.                                    *)
LEMMA WorthTyped ==
  ASSUME NEW c \in Int, NEW shares \in [Stocks -> Int], NEW prices \in [Stocks -> Int]
  PROVE  /\ Total([t \in Stocks |-> shares[t] * prices[t]]) \in Int
         /\ Numbers([t \in Stocks |-> shares[t] * prices[t]], Stocks)
         /\ IsFiniteSet(Stocks)
         /\ Total([t \in Stocks |-> shares[t] * prices[t]]) = SumIn([t \in Stocks |-> shares[t] * prices[t]], Stocks)
<1> DEFINE v == [t \in Stocks |-> shares[t] * prices[t]]
<1>1. IsFiniteSet(Stocks)
  BY MarketAndRequests
<1>2. Numbers(v, Stocks) /\ DOMAIN v = Stocks
  BY DEF Numbers
<1> HIDE DEF v
<1>3. SumIn(v, Stocks) \in Int
  BY <1>1, <1>2, TotalStep
<1>4. Total(v) = SumIn(v, Stocks)
  BY <1>2, TotalIs
<1> QED
  BY <1>1, <1>2, <1>3, <1>4 DEF v

(* Shares of one stock more are worth their price more.                      *)
LEMMA WorthMoves ==
  ASSUME NEW shares \in [Stocks -> Int], NEW more \in [Stocks -> Int], NEW prices \in [Stocks -> Int],
         NEW x \in Stocks, NEW d \in Int, more[x] = shares[x] + d, \A t \in Stocks \ {x} : more[t] = shares[t]
  PROVE  Total([t \in Stocks |-> more[t] * prices[t]])
           = Total([t \in Stocks |-> shares[t] * prices[t]]) + d * prices[x]
<1> DEFINE v == [t \in Stocks |-> shares[t] * prices[t]]
           w == [t \in Stocks |-> more[t] * prices[t]]
<1>1. /\ IsFiniteSet(Stocks) /\ Numbers(v, Stocks) /\ Numbers(w, Stocks)
      /\ Total(v) = SumIn(v, Stocks) /\ Total(w) = SumIn(w, Stocks) /\ Total(v) \in Int
  BY WorthTyped
<1>2. \A t \in Stocks \ {x} : w[t] = v[t]
  OBVIOUS
<1>3. v[x] = shares[x] * prices[x] /\ w[x] = (shares[x] + d) * prices[x]
  OBVIOUS
<1> HIDE DEF v, w
<1>4. SumIn(w, Stocks) = (SumIn(v, Stocks) - v[x]) + w[x]
  BY <1>1, <1>2, SumChange
<1> DEFINE s == shares[x]
           p == prices[x]
<1>5. s \in Int /\ p \in Int
  OBVIOUS
<1>6. v[x] = s * p /\ w[x] = (s + d) * p
  BY <1>3
<1> HIDE DEF s, p
<1>7. (s + d) * p = s * p + d * p /\ s * p \in Int /\ d * p \in Int
  BY <1>5
<1>8. w[x] = v[x] + d * p /\ v[x] \in Int
  BY <1>6, <1>7
<1>9. Total(w) = Total(v) + d * p
  BY <1>1, <1>4, <1>7, <1>8
<1> QED
  BY <1>9 DEF v, w, p

(* How the types of ledger and holdings are kept.                            *)
LEMMA ListGrows ==
  ASSUME NEW R, NEW s \in Seq(R), NEW r \in R
  PROVE  /\ Append(s, r) \in Seq(R) /\ Len(s) \in Nat /\ DOMAIN s = 1 .. Len(s)
         /\ Len(Append(s, r)) = Len(s) + 1 /\ DOMAIN Append(s, r) = 1 .. (Len(s) + 1)
         /\ \A n \in 1 .. Len(s) : Append(s, r)[n] = s[n] /\ s[n] \in R
         /\ Append(s, r)[Len(s) + 1] = r
  BY AppendProperties, LenProperties, ElementOfSeq

(* The fields of what is owned.                                              *)
LEMMA OwnedFields ==
  ASSUME NEW o \in OwnedRows
  PROVE  /\ o.cash \in Nat /\ o.shares \in [Stocks -> Nat] /\ o.earned \in Int /\ o.before \in Holdings
         /\ o = [cash |-> o.cash, shares |-> o.shares, earned |-> o.earned, before |-> o.before]
  BY DEF OwnedRows

(* What is owned after: with cash and shares changed.                        *)
OwnedIs(o, cash, shares, earned, before) ==
  o \in OwnedRows /\ o.cash = cash /\ o.shares = shares /\ o.earned = earned /\ o.before = before

(* Cash moves,                                                               *)
LEMMA OwnedMoves ==
  ASSUME NEW o \in OwnedRows, NEW c \in Int, NEW e \in Int, o.cash + c >= 0
  PROVE  OwnedIs([o EXCEPT !.cash = @ + c, !.earned = @ + e], o.cash + c, o.shares, o.earned + e, o.before)
<1> DEFINE q == [o EXCEPT !.cash = @ + c]
           r == [o EXCEPT !.cash = @ + c, !.earned = @ + e]
<1>1. OwnedIs(q, o.cash + c, o.shares, o.earned, o.before)
  BY DEF OwnedRows, OwnedIs
<1>2. r = [q EXCEPT !.earned = @ + e]
  BY DEF OwnedRows
<1> HIDE DEF q, r
<1>3. OwnedIs(r, o.cash + c, o.shares, o.earned + e, o.before)
  BY <1>1, <1>2 DEF OwnedRows, OwnedIs
<1> QED
  BY <1>3 DEF r

(* shares are brought in,                                                    *)
LEMMA OwnedBrings ==
  ASSUME NEW o \in OwnedRows, NEW t \in Stocks, NEW n \in Int, o.shares[t] + n >= 0
  PROVE  OwnedIs([o EXCEPT !.shares[t] = @ + n], o.cash, [o.shares EXCEPT ![t] = @ + n], o.earned, o.before)
<1>1. [o.shares EXCEPT ![t] = @ + n] \in [Stocks -> Nat]
  BY OwnedFields
<1> QED
  BY <1>1, OwnedFields DEF OwnedRows, OwnedIs

(* shares are traded for cash,                                               *)
LEMMA OwnedTrades ==
  ASSUME NEW o \in OwnedRows, NEW c \in Int, NEW e \in Int, NEW t \in Stocks, NEW n \in Int,
         o.cash + c >= 0, o.shares[t] + n >= 0
  PROVE  OwnedIs([o EXCEPT !.cash = @ + c, !.shares[t] = @ + n, !.earned = @ - e],
                 o.cash + c, [o.shares EXCEPT ![t] = @ + n], o.earned - e, o.before)
<1> DEFINE p == [o EXCEPT !.cash = @ + c]
           q == [p EXCEPT !.shares[t] = @ + n]
           r == [o EXCEPT !.cash = @ + c, !.shares[t] = @ + n, !.earned = @ - e]
<1>1. OwnedIs(p, o.cash + c, o.shares, o.earned, o.before)
  BY DEF OwnedRows, OwnedIs
<1>2. r = [q EXCEPT !.earned = @ - e]
  BY DEF OwnedRows
<1> HIDE DEF p, r
<1>3. OwnedIs(q, o.cash + c, [o.shares EXCEPT ![t] = @ + n], o.earned, o.before)
  BY <1>1, OwnedBrings DEF OwnedIs
<1> HIDE DEF q
<1>4. OwnedIs(r, o.cash + c, [o.shares EXCEPT ![t] = @ + n], o.earned - e, o.before)
  BY <1>2, <1>3 DEF OwnedRows, OwnedIs
<1> QED
  BY <1>4 DEF r

(* and a point keeps a copy.                                                 *)
LEMMA OwnedQuoted ==
  ASSUME NEW o \in OwnedRows
  PROVE  OwnedIs([o EXCEPT !.earned = 0, !.before = [cash |-> o.cash, shares |-> o.shares]],
                 o.cash, o.shares, 0, [cash |-> o.cash, shares |-> o.shares])
<1> DEFINE b == [cash |-> o.cash, shares |-> o.shares]
           q == [o EXCEPT !.earned = 0]
           r == [o EXCEPT !.earned = 0, !.before = [cash |-> o.cash, shares |-> o.shares]]
<1>1. b \in Holdings
  BY OwnedFields DEF Holdings
<1>2. r = [q EXCEPT !.before = b]
  BY DEF OwnedRows
<1>3. OwnedIs(q, o.cash, o.shares, 0, o.before)
  BY DEF OwnedRows, OwnedIs
<1> HIDE DEF b, q, r
<1>4. OwnedIs(r, o.cash, o.shares, 0, b)
  BY <1>1, <1>2, <1>3 DEF OwnedRows, OwnedIs
<1> QED
  BY <1>4 DEF r, b

(* So is what is owned worth a whole number at the closing prices.           *)
LEMMA WorthIsInt ==
  ASSUME NEW o, o.cash \in Nat, o.shares \in [Stocks -> Nat], closing \in [Stocks -> Nat \ {0}]
  PROVE  Worth(o) \in Int
<1> DEFINE s == o.shares
<1>1. s \in [Stocks -> Int] /\ closing \in [Stocks -> Int] /\ o.cash \in Int
  OBVIOUS
<1> HIDE DEF s
<1>2. Total([t \in Stocks |-> s[t] * closing[t]]) \in Int
  BY <1>1, WorthTyped
<1> QED
  BY <1>1, <1>2 DEF Worth, s

(* Every step keeps the types: no cash below 0 and no shares below none are  *)
(* owned.                                                                    *)
LEMMA PerformanceTypedKept ==
  ASSUME PerformanceTyped, [PerformanceNext]_historyOf
  PROVE  PerformanceTyped'
<1> USE MarketAndRequests DEF PerformanceTyped
<1>1. CASE UNCHANGED historyOf
  BY <1>1 DEF historyOf
<1>2. ASSUME NEW kind \in {"deposit", "withdrawal", "dividend"}, NEW amount \in Deposits, MoveCash(kind, amount)
      PROVE  PerformanceTyped'
  <2> DEFINE m == [at |-> instant, kind |-> kind, amount |-> amount]
  <2>0. amount \in Nat
    OBVIOUS
  <2>1. m \in MoveRows /\ amount \in Nat /\ CashDelta(m) \in Int
    BY <2>0 DEF MoveRows, CashDelta
  <2>2. Append(ledger.cash, m) \in Seq(MoveRows)
    BY <2>1, ListGrows DEF LedgerRows
  <2> HIDE DEF m
  <2>3. /\ owned.cash + CashDelta(m) >= 0
        /\ Enter([ledger EXCEPT !.cash = Append(@, m)],
              [owned EXCEPT !.cash = @ + CashDelta(m),
                            !.earned = @ + (IF kind = "dividend" THEN amount ELSE 0)])
    BY <1>2 DEF MoveCash, m
  <2>4. ledger' \in LedgerRows
    BY <2>2, <2>3 DEF Enter, LedgerRows
  <2>5. owned' \in OwnedRows
    <3> DEFINE c == CashDelta(m)
               e == IF kind = "dividend" THEN amount ELSE 0
    <3>1. c \in Int /\ e \in Int /\ owned.cash + c >= 0 /\ owned \in OwnedRows
      BY <2>1, <2>3
    <3>2. owned' = [owned EXCEPT !.cash = @ + c, !.earned = @ + e]
      BY <2>3 DEF Enter
    <3> HIDE DEF c, e
    <3> QED
      BY <3>1, <3>2, OwnedMoves DEF OwnedIs
  <2>6. UNCHANGED <<closing, series, trail>> /\ instant' = instant + 1
    BY <2>3 DEF Enter
  <2> QED
    BY <2>4, <2>5, <2>6
<1>3. ASSUME NEW t \in Stocks, NEW side \in {"buy", "sell"}, NEW n \in Sizes, NEW fees \in Fees,
             MakeTrade(t, side, n, fees)
      PROVE  PerformanceTyped'
  <2> DEFINE x == [at |-> instant, symbol |-> t, side |-> side, quantity |-> n, price |-> closing[t],
                   fees |-> fees]
             l == LotOf(t, n, "manual_trade")
  <2>1. x \in TradeRows /\ l \in LotRows /\ TradeCash(x) \in Int /\ SharesDelta(x) \in Int /\ fees \in Nat
    BY DEF TradeRows, LotRows, LotOf, TradeCash, SharesDelta
  <2>2. Append(ledger.trades, x) \in Seq(TradeRows) /\ Append(ledger.lots, l) \in Seq(LotRows)
    BY <2>1, ListGrows DEF LedgerRows
  <2> HIDE DEF x, l
  <2>3. /\ owned.cash + TradeCash(x) >= 0
        /\ owned.shares[t] + SharesDelta(x) >= 0
        /\ Enter([ledger EXCEPT !.trades = Append(@, x),
                             !.lots = IF side = "sell" THEN @ ELSE Append(@, l)],
              [owned EXCEPT !.cash = @ + TradeCash(x), !.shares[t] = @ + SharesDelta(x),
                            !.earned = @ - fees])
    BY <1>3 DEF MakeTrade, x, l
  <2>4. ledger' \in LedgerRows
    BY <2>2, <2>3 DEF Enter, LedgerRows
  <2>5. owned' \in OwnedRows
    <3> DEFINE c == TradeCash(x)
               d == SharesDelta(x)
    <3>1. c \in Int /\ d \in Int /\ fees \in Int /\ owned \in OwnedRows
          /\ owned.cash + c >= 0 /\ owned.shares[t] + d >= 0
      BY <2>1, <2>3
    <3>2. owned' = [owned EXCEPT !.cash = @ + c, !.shares[t] = @ + d, !.earned = @ - fees]
      BY <2>3 DEF Enter
    <3> HIDE DEF c, d
    <3> QED
      BY <3>1, <3>2, OwnedTrades DEF OwnedIs
  <2>6. UNCHANGED <<closing, series, trail>> /\ instant' = instant + 1
    BY <2>3 DEF Enter
  <2> QED
    BY <2>4, <2>5, <2>6
<1>4. ASSUME NEW t \in Stocks, NEW source \in {"manual", "aggregate_position"}, BringIn(t, 1, source)
      PROVE  PerformanceTyped'
  <2> DEFINE l == LotOf(t, 1, source)
  <2>1. l \in LotRows
    BY DEF LotRows, LotOf
  <2>2. Append(ledger.lots, l) \in Seq(LotRows)
    BY <2>1, ListGrows DEF LedgerRows
  <2> HIDE DEF l
  <2>3. Enter([ledger EXCEPT !.lots = Append(@, l)], [owned EXCEPT !.shares[t] = @ + 1])
    BY <1>4 DEF BringIn, l
  <2>4. ledger' \in LedgerRows
    BY <2>2, <2>3 DEF Enter, LedgerRows
  <2>5. owned' \in OwnedRows
    <3>1. owned' = [owned EXCEPT !.shares[t] = @ + 1]
      BY <2>3 DEF Enter
    <3>2. owned \in OwnedRows /\ 1 \in Int
      OBVIOUS
    <3>3. owned.shares[t] + 1 >= 0
      BY <3>2, OwnedFields
    <3>4. OwnedIs([owned EXCEPT !.shares[t] = @ + 1], owned.cash, [owned.shares EXCEPT ![t] = @ + 1],
                  owned.earned, owned.before)
      BY <3>2, <3>3, OwnedBrings
    <3> QED
      BY <3>1, <3>4 DEF OwnedIs
  <2>6. UNCHANGED <<closing, series, trail>> /\ instant' = instant + 1
    BY <2>3 DEF Enter
  <2> QED
    BY <2>4, <2>5, <2>6
<1>5. ASSUME NEW quoted \in (SUBSET Stocks) \ {{}}, NEW prices \in [Stocks -> Closes], QuotePoint(quoted, prices)
      PROVE  PerformanceTyped'
  <2> DEFINE P == [at : Nat, close : Nat \ {0}]
             R == [at : Nat, worth : Int, held : Int]
             r == [at |-> instant, worth |-> Worth(owned), held |-> Worth(owned.before) + owned.earned]
  <2>1. series' \in [Stocks -> Seq(P)]
    <3>1. ASSUME NEW t \in Stocks
          PROVE  Append(series[t], [at |-> instant, close |-> closing[t]]) \in Seq(P) /\ series[t] \in Seq(P)
      <4>1. [at |-> instant, close |-> closing[t]] \in P /\ series[t] \in Seq(P)
        OBVIOUS
      <4> HIDE DEF P
      <4> QED
        BY <4>1, ListGrows
    <3> HIDE DEF P
    <3> QED
      BY <1>5, <3>1 DEF QuotePoint
  <2>2. trail' \in Seq(R)
    <3>1. Worth(owned) \in Int
      BY OwnedFields, WorthIsInt
    <3>2. Worth(owned.before) \in Int
      BY OwnedFields, WorthIsInt DEF Holdings
    <3>3. r \in R
      BY <3>1, <3>2, OwnedFields
    <3>4. trail' = Append(trail, r) /\ trail \in Seq(R)
      BY <1>5 DEF QuotePoint
    <3> HIDE DEF r, R
    <3> QED
      BY <3>3, <3>4, ListGrows
  <2>3. owned' \in OwnedRows
    <3>1. owned' = [owned EXCEPT !.earned = 0, !.before = [cash |-> owned.cash, shares |-> owned.shares]]
      BY <1>5 DEF QuotePoint
    <3> QED
      BY <3>1, OwnedQuoted DEF OwnedIs
  <2>4. closing' \in [Stocks -> Nat \ {0}] /\ instant' \in Nat \ {0} /\ ledger' \in LedgerRows
    BY <1>5 DEF QuotePoint
  <2> QED
    BY <2>1, <2>2, <2>3, <2>4
<1> QED
  BY <1>1, <1>2, <1>3, <1>4, <1>5 DEF PerformanceNext

(* An event of the ledger, and what was owned and had flowed in at an        *)
(* instant: H[T] after what happened at T.                                   *)
EventRows == [at : Nat, ticker : Stocks \cup {NoTicker}, shares : Int, cash : Int, flow : Int]
Wealth == [cash : Nat, shares : [Stocks -> Nat], flow : Int]
Poverty == [cash |-> 0, shares |-> [t \in Stocks |-> 0], flow |-> 0]
(* u is s after the event e.                                                 *)
Became(s, e, u) ==
  /\ u.cash = s.cash + e.cash /\ u.flow = s.flow + e.flow
  /\ \A t \in Stocks : u.shares[t] = s.shares[t] + (IF t = e.ticker THEN e.shares ELSE 0)
(* Entry e of the book tells of an event before now that made H what it was. *)
Tells(book, present, H, e) ==
  LET v == EventOf(book, 0, e)
  IN v \in EventRows /\ v.at \in 1 .. (present - 1) /\ Became(H[v.at - 1], v, H[v.at])
(* The book tells all that happened before now: each entry an event of its   *)
(* own instant; between events nothing changes.                              *)
HappenedAs(book, present, H) ==
  /\ H \in [0 .. (present - 1) -> Wealth] /\ H[0] = Poverty
  /\ \A e \in BookEntries(book) : Tells(book, present, H, e)
  /\ \A e, f \in BookEntries(book) : EventOf(book, 0, e).at = EventOf(book, 0, f).at => e = f
  /\ \A T \in 1 .. (present - 1) : H[T] = H[T - 1] \/ \E e \in BookEntries(book) : EventOf(book, 0, e).at = T
(* One instant more, after which W is owned.                                 *)
Extended(H, present, W) == [T \in 0 .. present |-> IF T = present THEN W ELSE H[T]]
(* book2 has one entry more, new, of event v.                                *)
EntryAdded(book, book2, new, v) ==
  /\ BookEntries(book2) = BookEntries(book) \cup {new}
  /\ EventOf(book2, 0, new) = v
  /\ \A e \in BookEntries(book) : EventOf(book2, 0, e) = EventOf(book, 0, e)

(* One instant later.                                                        *)
LEMMA ExtendedIs ==
  ASSUME NEW present \in Nat \ {0}, NEW H \in [0 .. (present - 1) -> Wealth], NEW W \in Wealth
  PROVE  /\ Extended(H, present, W) \in [0 .. ((present + 1) - 1) -> Wealth]
         /\ Extended(H, present, W)[present] = W /\ Extended(H, present, W)[0] = H[0]
         /\ \A T \in 0 .. (present - 1) : Extended(H, present, W)[T] = H[T]
  BY DEF Extended

(* What an entry tells does not change with time.                            *)
LEMMA TellsLater ==
  ASSUME NEW present \in Nat \ {0}, NEW H \in [0 .. (present - 1) -> Wealth], NEW W \in Wealth,
         NEW book, NEW book2, NEW e, Tells(book, present, H, e), EventOf(book2, 0, e) = EventOf(book, 0, e)
  PROVE  Tells(book2, present + 1, Extended(H, present, W), e)
<1> DEFINE v == EventOf(book, 0, e)
           G == Extended(H, present, W)
<1>1. v \in EventRows /\ v.at \in 1 .. (present - 1) /\ Became(H[v.at - 1], v, H[v.at])
  BY DEF Tells
<1>2. v = EventOf(book2, 0, e) /\ \A T \in 0 .. (present - 1) : G[T] = H[T]
  BY ExtendedIs
<1> HIDE DEF v, G
<1>3. v.at \in 0 .. (present - 1) /\ v.at - 1 \in 0 .. (present - 1) /\ v.at \in 1 .. ((present + 1) - 1)
  BY <1>1
<1>4. G[v.at] = H[v.at] /\ G[v.at - 1] = H[v.at - 1]
  BY <1>2, <1>3
<1> QED
  BY <1>1, <1>2, <1>3, <1>4 DEF Tells, G

(* An entry whose event happens now extends what happened,                   *)
LEMMA HappenedEntry ==
  ASSUME NEW present \in Nat \ {0}, NEW book, NEW book2, NEW H, HappenedAs(book, present, H),
         NEW new, NEW v \in EventRows, v.at = present, NEW W \in Wealth, Became(H[present - 1], v, W),
         EntryAdded(book, book2, new, v)
  PROVE  HappenedAs(book2, present + 1, Extended(H, present, W))
<1> DEFINE G == Extended(H, present, W)
           E == BookEntries(book)
           at(e) == EventOf(book, 0, e).at
           at2(e) == EventOf(book2, 0, e).at
<1>1. H \in [0 .. (present - 1) -> Wealth] /\ H[0] = Poverty
  BY DEF HappenedAs
<1>2. /\ G \in [0 .. ((present + 1) - 1) -> Wealth] /\ G[present] = W /\ G[0] = H[0]
      /\ \A T \in 0 .. (present - 1) : G[T] = H[T]
  BY <1>1 DEF Extended
<1>3. BookEntries(book2) = E \cup {new} /\ EventOf(book2, 0, new) = v
      /\ \A e \in E : EventOf(book2, 0, e) = EventOf(book, 0, e)
  BY DEF EntryAdded
<1>4. ASSUME NEW e \in E
      PROVE  Tells(book2, present + 1, G, e) /\ at2(e) = at(e) /\ at(e) \in 1 .. (present - 1)
  <2>1. Tells(book, present, H, e)
    BY DEF HappenedAs
  <2>2. Tells(book2, present + 1, G, e)
    BY <1>1, <1>3, <2>1, TellsLater
  <2> QED
    BY <1>3, <2>1, <2>2 DEF Tells
<1>5. Tells(book2, present + 1, G, new)
  <2>1. present - 1 \in 0 .. (present - 1) /\ present \in 1 .. ((present + 1) - 1)
    OBVIOUS
  <2>2. G[present - 1] = H[present - 1]
    BY <1>2, <2>1
  <2> HIDE DEF G
  <2> QED
    BY <1>2, <1>3, <2>1, <2>2 DEF Tells
<1>6. \A e, f \in E \cup {new} : at2(e) = at2(f) => e = f
  <2>1. \A e, f \in E : at(e) = at(f) => e = f
    BY DEF HappenedAs
  <2>2. at2(new) = present /\ \A e \in E : at2(e) # present
    BY <1>3, <1>4
  <2> HIDE DEF at, at2, E
  <2> QED
    BY <1>4, <2>1, <2>2
<1>7. \A T \in 1 .. ((present + 1) - 1) : G[T] = G[T - 1] \/ \E e \in E \cup {new} : at2(e) = T
  <2> SUFFICES ASSUME NEW T \in 1 .. ((present + 1) - 1)
               PROVE  G[T] = G[T - 1] \/ \E e \in E \cup {new} : at2(e) = T
    OBVIOUS
  <2>1. CASE T = present
    BY <1>3, <2>1
  <2>2. CASE T # present
    <3>1. T \in 1 .. (present - 1) /\ T \in 0 .. (present - 1) /\ T - 1 \in 0 .. (present - 1)
      BY <2>2
    <3>2. H[T] = H[T - 1] \/ \E e \in E : at(e) = T
      BY <3>1 DEF HappenedAs
    <3>3. G[T] = H[T] /\ G[T - 1] = H[T - 1]
      BY <1>2, <3>1
    <3> HIDE DEF at, at2, E, G
    <3> QED
      BY <1>4, <3>2, <3>3
  <2> QED
    BY <2>1, <2>2
<1> HIDE DEF G, E
<1>8. \A e \in BookEntries(book2) : Tells(book2, present + 1, G, e)
  BY <1>3, <1>4, <1>5
<1> QED
  BY <1>1, <1>2, <1>3, <1>6, <1>7, <1>8 DEF HappenedAs, G

(* and so does an instant without one.                                       *)
LEMMA HappenedPoint ==
  ASSUME NEW present \in Nat \ {0}, NEW book, NEW H, HappenedAs(book, present, H)
  PROVE  HappenedAs(book, present + 1, Extended(H, present, H[present - 1]))
<1> DEFINE W == H[present - 1]
           G == Extended(H, present, W)
           E == BookEntries(book)
<1>1. H \in [0 .. (present - 1) -> Wealth] /\ H[0] = Poverty /\ W \in Wealth
  <2>1. present - 1 \in 0 .. (present - 1)
    OBVIOUS
  <2> QED
    BY <2>1 DEF HappenedAs
<1> HIDE DEF W
<1>2. /\ G \in [0 .. ((present + 1) - 1) -> Wealth] /\ G[present] = W /\ G[0] = H[0]
      /\ \A T \in 0 .. (present - 1) : G[T] = H[T]
  BY <1>1 DEF Extended
<1>3. ASSUME NEW e \in E
      PROVE  Tells(book, present + 1, G, e)
  <2>1. Tells(book, present, H, e)
    BY DEF HappenedAs
  <2> QED
    BY <1>1, <2>1, TellsLater
<1>4. \A T \in 1 .. ((present + 1) - 1) : G[T] = G[T - 1] \/ \E e \in E : EventOf(book, 0, e).at = T
  <2> SUFFICES ASSUME NEW T \in 1 .. ((present + 1) - 1)
               PROVE  G[T] = G[T - 1] \/ \E e \in E : EventOf(book, 0, e).at = T
    OBVIOUS
  <2> HIDE DEF G, E
  <2>1. CASE T = present
    <3>1. present - 1 \in 0 .. (present - 1)
      OBVIOUS
    <3> QED
      BY <1>2, <2>1, <3>1 DEF W
  <2>2. CASE T # present
    <3>1. T \in 1 .. (present - 1) /\ T \in 0 .. (present - 1) /\ T - 1 \in 0 .. (present - 1)
      BY <2>2
    <3>2. H[T] = H[T - 1] \/ \E e \in E : EventOf(book, 0, e).at = T
      BY <3>1 DEF HappenedAs, E
    <3>3. G[T] = H[T] /\ G[T - 1] = H[T - 1]
      BY <1>2, <3>1
    <3> QED
      BY <3>2, <3>3
  <2> QED
    BY <2>1, <2>2
<1>5. \A e, f \in E : EventOf(book, 0, e).at = EventOf(book, 0, f).at => e = f
  BY DEF HappenedAs
<1> HIDE DEF G, E
<1> QED
  BY <1>1, <1>2, <1>3, <1>4, <1>5 DEF HappenedAs, G, E, W

(* What is written into the ledger adds its event.                           *)
LEMMA EntriesAre ==
  ASSUME NEW book \in LedgerRows
  PROVE  /\ DOMAIN book.cash = 1 .. Len(book.cash) /\ DOMAIN book.trades = 1 .. Len(book.trades)
         /\ DOMAIN book.lots = 1 .. Len(book.lots)
         /\ \A e \in BookEntries(book) :
              \/ e[1] = 1 /\ e[2] \in DOMAIN book.cash
              \/ e[1] = 2 /\ e[2] \in DOMAIN book.trades
              \/ e[1] = 3 /\ e[2] \in DOMAIN book.lots
  BY LenProperties DEF LedgerRows, BookEntries

(* A cash movement,                                                          *)
LEMMA CashAdded ==
  ASSUME NEW book \in LedgerRows, NEW m \in MoveRows
  PROVE  EntryAdded(book, [book EXCEPT !.cash = Append(@, m)], <<1, Len(book.cash) + 1>>, CashEvent(m))
<1> DEFINE b == [book EXCEPT !.cash = Append(@, m)]
           k == Len(book.cash)
<1>1. b.cash = Append(book.cash, m) /\ b.trades = book.trades /\ b.lots = book.lots
  BY DEF LedgerRows
<1>2. /\ k \in Nat /\ DOMAIN book.cash = 1 .. k /\ DOMAIN b.cash = 1 .. (k + 1)
      /\ b.cash[k + 1] = m /\ \A n \in 1 .. k : b.cash[n] = book.cash[n]
  <2>1. book.cash \in Seq(MoveRows)
    BY DEF LedgerRows
  <2> QED
    BY <1>1, <2>1, ListGrows
<1> HIDE DEF b, k
<1>3. BookEntries(b) = BookEntries(book) \cup {<<1, k + 1>>}
  <2>1. {1} \X DOMAIN b.cash = ({1} \X DOMAIN book.cash) \cup {<<1, k + 1>>}
    BY <1>2
  <2> QED
    BY <1>1, <2>1 DEF BookEntries
<1>4. EventOf(b, 0, <<1, k + 1>>) = CashEvent(m)
  BY <1>2 DEF EventOf
<1>5. ASSUME NEW e \in BookEntries(book)
      PROVE  EventOf(b, 0, e) = EventOf(book, 0, e)
  <2>1. (e[1] = 1 /\ e[2] \in 1 .. k) \/ e[1] = 2 \/ e[1] = 3
    BY <1>2, EntriesAre
  <2> QED
    BY <1>1, <1>2, <2>1 DEF EventOf
<1> QED
  BY <1>3, <1>4, <1>5 DEF EntryAdded, b, k

(* a dated lot,                                                              *)
LEMMA LotAdded ==
  ASSUME NEW book \in LedgerRows, NEW l \in LotRows, DatedLot(l), ~Undated(l)
  PROVE  EntryAdded(book, [book EXCEPT !.lots = Append(@, l)], <<3, Len(book.lots) + 1>>, LotEvent(l))
<1> DEFINE b == [book EXCEPT !.lots = Append(@, l)]
           k == Len(book.lots)
<1>1. b.lots = Append(book.lots, l) /\ b.trades = book.trades /\ b.cash = book.cash
  BY DEF LedgerRows
<1>2. /\ k \in Nat /\ DOMAIN book.lots = 1 .. k /\ DOMAIN b.lots = 1 .. (k + 1)
      /\ b.lots[k + 1] = l /\ \A n \in 1 .. k : b.lots[n] = book.lots[n]
  <2>1. book.lots \in Seq(LotRows)
    BY DEF LedgerRows
  <2> QED
    BY <1>1, <2>1, ListGrows
<1> HIDE DEF b, k
<1>3. BookEntries(b) = BookEntries(book) \cup {<<3, k + 1>>}
  <2> DEFINE N(x) == {n \in DOMAIN x.lots : Undated(x.lots[n]) \/ DatedLot(x.lots[n])}
  <2>1. N(b) = N(book) \cup {k + 1}
    BY <1>2
  <2> HIDE DEF N
  <2>2. {3} \X N(b) = ({3} \X N(book)) \cup {<<3, k + 1>>}
    BY <2>1
  <2> QED
    BY <1>1, <2>2 DEF BookEntries, N
<1>4. EventOf(b, 0, <<3, k + 1>>) = LotEvent(l)
  BY <1>2 DEF EventOf
<1>5. ASSUME NEW e \in BookEntries(book)
      PROVE  EventOf(b, 0, e) = EventOf(book, 0, e)
  <2>1. (e[1] = 3 /\ e[2] \in 1 .. k) \/ e[1] = 2 \/ e[1] = 1
    BY <1>2, EntriesAre
  <2> QED
    BY <1>1, <1>2, <2>1 DEF EventOf
<1> QED
  BY <1>3, <1>4, <1>5 DEF EntryAdded, b, k

(* A lot that a purchase makes is not told again.                            *)
LEMMA TradeAdded ==
  ASSUME NEW book \in LedgerRows, NEW x \in TradeRows, NEW l \in LotRows, ~DatedLot(l), ~Undated(l),
         NEW lots \in {book.lots, Append(book.lots, l)}
  PROVE  EntryAdded(book, [book EXCEPT !.trades = Append(@, x), !.lots = lots],
                    <<2, Len(book.trades) + 1>>, TradeEvent(x))
<1> DEFINE b == [book EXCEPT !.trades = Append(@, x), !.lots = lots]
           k == Len(book.trades)
           j == Len(book.lots)
<1>1. b.trades = Append(book.trades, x) /\ b.lots = lots /\ b.cash = book.cash
  BY DEF LedgerRows
<1>2. /\ k \in Nat /\ DOMAIN book.trades = 1 .. k /\ DOMAIN b.trades = 1 .. (k + 1)
      /\ b.trades[k + 1] = x /\ \A n \in 1 .. k : b.trades[n] = book.trades[n]
  <2>1. book.trades \in Seq(TradeRows)
    BY DEF LedgerRows
  <2> QED
    BY <1>1, <2>1, ListGrows
<1>3. /\ j \in Nat /\ DOMAIN book.lots = 1 .. j /\ DOMAIN Append(book.lots, l) = 1 .. (j + 1)
      /\ Append(book.lots, l)[j + 1] = l /\ \A n \in 1 .. j : Append(book.lots, l)[n] = book.lots[n]
  <2>1. book.lots \in Seq(LotRows)
    BY DEF LedgerRows
  <2> QED
    BY <2>1, ListGrows
<1> DEFINE N(s) == {n \in DOMAIN s : Undated(s[n]) \/ DatedLot(s[n])}
<1>4. N(b.lots) = N(book.lots) /\ \A n \in N(book.lots) : n \in 1 .. j /\ b.lots[n] = book.lots[n]
  <2>1. N(Append(book.lots, l)) = N(book.lots)
    BY <1>3
  <2> QED
    BY <1>1, <1>3, <2>1
<1> HIDE DEF b, k, j
<1>5. BookEntries(b) = BookEntries(book) \cup {<<2, k + 1>>}
  <2>1. {2} \X DOMAIN b.trades = ({2} \X DOMAIN book.trades) \cup {<<2, k + 1>>}
    BY <1>2
  <2> QED
    BY <1>1, <1>4, <2>1 DEF BookEntries
<1>6. EventOf(b, 0, <<2, k + 1>>) = TradeEvent(x)
  BY <1>2 DEF EventOf
<1>7. ASSUME NEW e \in BookEntries(book)
      PROVE  EventOf(b, 0, e) = EventOf(book, 0, e)
  <2> DEFINE M == N(book.lots)
  <2>1. e \in ({1} \X DOMAIN book.cash) \cup ({2} \X DOMAIN book.trades) \cup ({3} \X M)
    BY DEF BookEntries
  <2>2. \A n \in M : b.lots[n] = book.lots[n]
    BY <1>4
  <2> HIDE DEF M, N
  <2>3. CASE e \in {1} \X DOMAIN book.cash
    BY <1>1, <2>3 DEF EventOf
  <2>4. CASE e \in {2} \X DOMAIN book.trades
    BY <1>2, <2>4 DEF EventOf
  <2>5. CASE e \in {3} \X M
    BY <2>2, <2>5 DEF EventOf
  <2> QED
    BY <2>1, <2>3, <2>4, <2>5
<1> QED
  BY <1>5, <1>6, <1>7 DEF EntryAdded, b, k

(* What is owned, at given prices; the time of point k of the trail, point 0 *)
(* being the start.                                                          *)
WorthOf(w, prices) == w.cash + Total([t \in Stocks |-> w.shares[t] * prices[t]])
TimeOf(k) == IF k = 0 THEN 0 ELSE trail[k].at
(* Point k is worth what was owned then at its prices; it held that less     *)
(* what flowed in since the point before.                                    *)
Follows(k, H, C) ==
  /\ trail[k].worth = WorthOf(H[trail[k].at], C[k])
  /\ trail[k].held = trail[k].worth - (H[trail[k].at].flow - H[TimeOf(k - 1)].flow)
(* The cached prices of a ticker are those of the last points of the trail.  *)
QuotedAs(t, C) ==
  /\ Len(series[t]) <= Len(trail)
  /\ \A n \in 1 .. Len(series[t]) :
       LET k == (Len(trail) - Len(series[t])) + n
       IN series[t][n].at = trail[k].at /\ series[t][n].close = C[k][t]
(* The trail and the price histories are those of H and C; what is owned is  *)
(* what H has last, and worth what was owned at the last point with earnings *)
(* and flows since.                                                          *)
PricedAs(H, C) ==
  /\ C \in [1 .. (Len(trail) + 1) -> [Stocks -> Nat \ {0}]] /\ C[Len(trail) + 1] = closing
  /\ \A k \in 1 .. Len(trail) : trail[k].at \in 1 .. (instant - 1) /\ Follows(k, H, C)
  /\ \A j, k \in 1 .. Len(trail) : j < k => trail[j].at < trail[k].at
  /\ owned.cash = H[instant - 1].cash /\ owned.shares = H[instant - 1].shares
  /\ Worth(owned) = (Worth(owned.before) + owned.earned) + (H[instant - 1].flow - H[TimeOf(Len(trail))].flow)
  /\ \A t \in Stocks : QuotedAs(t, C)
(* Every lot has a date. Then, for some H and C, all is told: the invariant. *)
(* (With undated lots the index is an estimate, and exempt.)                 *)
AllDated == \A n \in DOMAIN ledger.lots : ~Undated(ledger.lots[n])
ToldAs(H, C) == HappenedAs(ledger, instant, H) /\ PricedAs(H, C)
PerformanceInv == PerformanceTyped /\ (AllDated => \E H, C : ToldAs(H, C))

(* Nothing is owned at first.                                                *)
LEMMA PerformanceStarts ==
  ASSUME PerformanceInit
  PROVE  PerformanceInv
<1> DEFINE H == [T \in 0 .. 0 |-> Poverty]
           C == [k \in 1 .. 1 |-> closing]
<1>1. PerformanceTyped
  <2>1. /\ instant = 1 /\ closing \in [Stocks -> Nat \ {0}] /\ trail = <<>> /\ series = [t \in Stocks |-> <<>>]
        /\ ledger = [cash |-> <<>>, trades |-> <<>>, lots |-> <<>>]
        /\ owned = [cash |-> 0, shares |-> [t \in Stocks |-> 0], earned |-> 0,
                    before |-> [cash |-> 0, shares |-> [t \in Stocks |-> 0]]]
    BY MarketAndRequests DEF PerformanceInit
  <2>2. \A R : <<>> \in Seq(R)
    OBVIOUS
  <2>3. series \in [Stocks -> Seq([at : Nat, close : Nat \ {0}])] /\ trail \in Seq([at : Nat, worth : Int, held : Int])
    BY <2>1, <2>2
  <2>4. ledger \in LedgerRows
    BY <2>1, <2>2 DEF LedgerRows
  <2>5. owned \in OwnedRows
    BY <2>1 DEF OwnedRows, Holdings
  <2> QED
    BY <2>1, <2>3, <2>4, <2>5 DEF PerformanceTyped
<1>2. BookEntries(ledger) = {} /\ instant = 1 /\ Len(trail) = 0
  BY DEF PerformanceInit, BookEntries
<1>3. HappenedAs(ledger, instant, H)
  <2>1. Poverty \in Wealth
    BY DEF Poverty, Wealth
  <2>2. H \in [0 .. (1 - 1) -> Wealth] /\ H[0] = Poverty
    BY <2>1
  <2> HIDE DEF H
  <2> QED
    BY <1>2, <2>2 DEF HappenedAs
<1>4. PricedAs(H, C)
  <2>1. C \in [1 .. (0 + 1) -> [Stocks -> Nat \ {0}]] /\ C[0 + 1] = closing
    BY <1>1 DEF PerformanceTyped
  <2>2. /\ owned.cash = 0 /\ owned.shares = [t \in Stocks |-> 0] /\ owned.earned = 0
        /\ owned.before.cash = 0 /\ owned.before.shares = [t \in Stocks |-> 0]
    BY DEF PerformanceInit
  <2>3. H[0] = Poverty /\ H[0].cash = 0 /\ H[0].shares = [t \in Stocks |-> 0] /\ H[0].flow = 0
    BY DEF Poverty
  <2>4. Worth(owned) = Worth(owned.before) /\ Worth(owned) \in Int /\ Worth(owned.before) \in Int
    <3>1. Worth(owned) \in Int
      BY <1>1, OwnedFields, WorthIsInt DEF PerformanceTyped
    <3> QED
      BY <2>2, <3>1 DEF Worth
  <2>5. Worth(owned) = (Worth(owned.before) + owned.earned) + (H[1 - 1].flow - H[TimeOf(0)].flow)
    <3>1. H[1 - 1].flow = 0 /\ H[TimeOf(0)].flow = 0
      BY <2>3 DEF TimeOf
    <3> HIDE DEF H
    <3> QED
      BY <2>2, <2>4, <3>1
  <2>6. \A t \in Stocks : QuotedAs(t, C)
    <3>1. \A t \in Stocks : Len(series[t]) = 0
      BY DEF PerformanceInit
    <3> HIDE DEF C
    <3> QED
      BY <1>2, <3>1 DEF QuotedAs
  <2>7. owned.cash = H[1 - 1].cash /\ owned.shares = H[1 - 1].shares
    BY <2>2, <2>3
  <2> HIDE DEF H, C
  <2> QED
    BY <1>2, <2>1, <2>5, <2>6, <2>7 DEF PricedAs
<1> HIDE DEF H, C
<1> QED
  BY <1>1, <1>3, <1>4 DEF PerformanceInv, ToldAs

(* An entry of the ledger changes what is owned as its event says, and its   *)
(* worth by what is earned and what flows in.                                *)
LEMMA EntryKept ==
  ASSUME PerformanceTyped, PerformanceTyped', NEW H, NEW C, ToldAs(H, C),
         UNCHANGED <<closing, series, trail>>, instant' = instant + 1,
         NEW new, NEW v \in EventRows, v.at = instant, EntryAdded(ledger, ledger', new, v),
         NEW e \in Int, owned'.earned = owned.earned + e, owned'.before = owned.before,
         owned'.cash = owned.cash + v.cash,
         \A t \in Stocks : owned'.shares[t] = owned.shares[t] + (IF t = v.ticker THEN v.shares ELSE 0),
         WorthOf(owned', closing) = (WorthOf(owned, closing) + e) + v.flow
  PROVE  \E G : ToldAs(G, C)'
<1> DEFINE W == [cash |-> owned'.cash, shares |-> owned'.shares, flow |-> H[instant - 1].flow + v.flow]
<1>0. /\ instant \in Nat \ {0} /\ H \in [0 .. (instant - 1) -> Wealth] /\ instant - 1 \in 0 .. (instant - 1)
      /\ owned \in OwnedRows /\ owned' \in OwnedRows
  BY DEF PerformanceTyped, ToldAs, HappenedAs
<1>1. H[instant - 1] \in Wealth /\ H[instant - 1].flow \in Int /\ v.flow \in Int
  BY <1>0 DEF Wealth, EventRows
<1>2. W \in Wealth
  BY <1>0, <1>1, OwnedFields DEF Wealth
<1>3. Became(H[instant - 1], v, W)
  <2>1. owned.cash = H[instant - 1].cash /\ owned.shares = H[instant - 1].shares
    BY DEF ToldAs, PricedAs
  <2>2. W.cash = owned'.cash /\ W.shares = owned'.shares /\ W.flow = H[instant - 1].flow + v.flow
    OBVIOUS
  <2> HIDE DEF W
  <2> QED
    BY <2>1, <2>2 DEF Became
<1>4. PICK G : G = Extended(H, instant, W)
  OBVIOUS
<1>5. HappenedAs(ledger', instant', G)
  <2> HIDE DEF W
  <2>1. HappenedAs(ledger, instant, H)
    BY DEF ToldAs
  <2>2. HappenedAs(ledger', instant + 1, Extended(H, instant, W))
    BY <1>0, <1>2, <1>3, <2>1, HappenedEntry
  <2> QED
    BY <1>4, <2>2
<1>6. G[instant] = W /\ \A T \in 0 .. (instant - 1) : G[T] = H[T]
  BY <1>0, <1>4 DEF Extended
<1>7. W.cash = owned'.cash /\ W.shares = owned'.shares /\ W.flow = H[instant - 1].flow + v.flow
  OBVIOUS
<1> HIDE DEF W
<1>8. \A k \in 1 .. Len(trail) : trail[k].at \in 1 .. (instant - 1) /\ Follows(k, H, C)
  BY DEF ToldAs, PricedAs
<1>9. \A k \in 0 .. Len(trail) : TimeOf(k) \in 0 .. (instant - 1) /\ TimeOf(k)' = TimeOf(k)
  BY <1>0, <1>8 DEF TimeOf
<1>10. Len(trail) \in Nat
  BY LenProperties DEF PerformanceTyped
<1>11. ASSUME NEW k \in 1 .. Len(trail)
       PROVE  trail'[k].at \in 1 .. (instant' - 1) /\ Follows(k, G, C)'
  <2>1. trail[k].at \in 1 .. (instant - 1) /\ trail[k].at \in 0 .. (instant - 1) /\ Follows(k, H, C)
    BY <1>8
  <2>2. k - 1 \in 0 .. Len(trail)
    BY <1>10
  <2>3. TimeOf(k - 1) \in 0 .. (instant - 1) /\ TimeOf(k - 1)' = TimeOf(k - 1)
    BY <1>9, <2>2
  <2>4. G[trail[k].at] = H[trail[k].at] /\ G[TimeOf(k - 1)] = H[TimeOf(k - 1)]
    BY <1>6, <2>1, <2>3
  <2>5. trail'[k].at \in 1 .. (instant' - 1)
    BY <1>0, <2>1
  <2>6. Follows(k, G, C)'
    BY <2>1, <2>3, <2>4 DEF Follows, WorthOf
  <2> QED
    BY <2>5, <2>6
<1>12. Worth(owned)' = (Worth(owned.before)' + owned'.earned) + (G[instant' - 1].flow - G[TimeOf(Len(trail))'].flow)
  <2>1. Worth(owned)' = WorthOf(owned', closing) /\ Worth(owned) = WorthOf(owned, closing)
        /\ Worth(owned.before)' = Worth(owned.before)
    BY DEF Worth, WorthOf
  <2>2. Worth(owned) = (Worth(owned.before) + owned.earned) + (H[instant - 1].flow - H[TimeOf(Len(trail))].flow)
    BY DEF ToldAs, PricedAs
  <2>3. Len(trail) \in 0 .. Len(trail)
    BY <1>10
  <2>4. G[instant' - 1] = W /\ G[TimeOf(Len(trail))'] = H[TimeOf(Len(trail))]
    <3>1. instant' - 1 = instant
      BY <1>0
    <3> QED
      BY <1>6, <1>9, <2>3, <3>1
  <2>5. Worth(owned.before) \in Int /\ Worth(owned) \in Int /\ owned.earned \in Int
    BY <1>0, OwnedFields, WorthIsInt DEF Holdings, PerformanceTyped
  <2>6. H[TimeOf(Len(trail))] \in Wealth /\ H[TimeOf(Len(trail))].flow \in Int
    BY <1>0, <1>9, <2>3 DEF Wealth
  <2> DEFINE a == H[instant - 1].flow
             b == H[TimeOf(Len(trail))].flow
             before == Worth(owned.before)
  <2> HIDE DEF a, b, before
  <2>7. a \in Int /\ b \in Int /\ before \in Int /\ v.flow \in Int /\ owned.earned \in Int
    BY <1>1, <2>5, <2>6 DEF a, b, before
  <2>8. Worth(owned)' = ((((before + owned.earned) + (a - b)) + e) + v.flow)
    BY <2>1, <2>2 DEF a, b, before
  <2>9. (G[instant' - 1].flow - G[TimeOf(Len(trail))'].flow) = (a + v.flow) - b
    BY <1>7, <2>4 DEF a, b
  <2>10. Worth(owned.before)' = before
    BY <2>1 DEF before
  <2> QED
    BY <2>7, <2>8, <2>9, <2>10
<1>13. owned'.cash = G[instant' - 1].cash /\ owned'.shares = G[instant' - 1].shares
  <2>1. instant' - 1 = instant
    BY <1>0
  <2> QED
    BY <1>6, <1>7, <2>1
<1>14. \A t \in Stocks : QuotedAs(t, C)'
  BY DEF ToldAs, PricedAs, QuotedAs
<1>15. /\ C \in [1 .. (Len(trail') + 1) -> [Stocks -> Nat \ {0}]] /\ C[Len(trail') + 1] = closing'
       /\ \A j, k \in 1 .. Len(trail') : j < k => trail'[j].at < trail'[k].at
  BY DEF ToldAs, PricedAs
<1>16. PricedAs(G, C)'
  BY <1>11, <1>12, <1>13, <1>14, <1>15 DEF PricedAs
<1> QED
  BY <1>5, <1>16 DEF ToldAs

(* The types of entries.                                                     *)
LEMMA EventsTyped ==
  ASSUME PerformanceTyped
  PROVE  /\ \A m \in MoveRows : CashEvent(m) \in EventRows /\ CashDelta(m) \in Int /\ ExternalFlow(m) \in Int
         /\ \A x \in TradeRows : TradeEvent(x) \in EventRows /\ TradeCash(x) \in Int /\ SharesDelta(x) \in Int
         /\ \A l \in LotRows : LotEvent(l) \in EventRows /\ l.quantity * l.price \in Int
<1>1. \A m \in MoveRows : CashEvent(m) \in EventRows /\ CashDelta(m) \in Int /\ ExternalFlow(m) \in Int
  BY DEF MoveRows, CashEvent, Event, EventRows, CashDelta, ExternalFlow
<1>2. ASSUME NEW x \in TradeRows
      PROVE  TradeEvent(x) \in EventRows /\ TradeCash(x) \in Int /\ SharesDelta(x) \in Int
  <2>1. x.quantity \in Nat /\ x.price \in Nat /\ x.fees \in Nat /\ x.at \in Nat /\ x.symbol \in Stocks
    BY DEF TradeRows
  <2>2. x.quantity * x.price \in Nat
    BY <2>1
  <2>3. TradeCash(x) \in Int /\ SharesDelta(x) \in Int
    BY <2>1, <2>2 DEF TradeCash, SharesDelta
  <2> QED
    BY <2>1, <2>3 DEF TradeEvent, Event, EventRows
<1>3. ASSUME NEW l \in LotRows
      PROVE  LotEvent(l) \in EventRows /\ l.quantity * l.price \in Int
  <2>1. l.quantity \in Nat /\ l.price \in Nat /\ l.fees \in Nat /\ l.at \in Nat /\ l.symbol \in Stocks
    BY DEF LotRows
  <2>2. l.quantity * l.price \in Nat
    BY <2>1
  <2> QED
    BY <2>1, <2>2 DEF LotEvent, Event, EventRows
<1> QED
  BY <1>1, <1>2, <1>3

(* Shares owned of one stock move what is owned by their price.              *)
LEMMA SharesMove ==
  ASSUME NEW shares \in [Stocks -> Nat], NEW x \in Stocks, NEW d \in Int, shares[x] + d >= 0,
         closing \in [Stocks -> Nat \ {0}]
  PROVE  LET more == [shares EXCEPT ![x] = @ + d]
         IN  Total([t \in Stocks |-> more[t] * closing[t]])
               = Total([t \in Stocks |-> shares[t] * closing[t]]) + d * closing[x]
<1> DEFINE more == [shares EXCEPT ![x] = @ + d]
<1>1. /\ shares \in [Stocks -> Int] /\ more \in [Stocks -> Int] /\ closing \in [Stocks -> Int]
      /\ more[x] = shares[x] + d /\ \A t \in Stocks \ {x} : more[t] = shares[t]
  OBVIOUS
<1> HIDE DEF more
<1>2. Total([t \in Stocks |-> more[t] * closing[t]])
        = Total([t \in Stocks |-> shares[t] * closing[t]]) + d * closing[x]
  BY <1>1, WorthMoves
<1> QED
  BY <1>2 DEF more

(* A deposit or withdrawal flows in or out, income is earned (CashMovement); *)
LEMMA MoveCashKept ==
  ASSUME PerformanceTyped, PerformanceTyped', NEW H, NEW C, ToldAs(H, C),
         NEW kind \in {"deposit", "withdrawal", "dividend"}, NEW amount \in Deposits, MoveCash(kind, amount)
  PROVE  \E G : ToldAs(G, C)'
<1> DEFINE m == [at |-> instant, kind |-> kind, amount |-> amount]
           c == CashDelta(m)
           e == IF kind = "dividend" THEN amount ELSE 0
           v == CashEvent(m)
<1>1. amount \in Nat /\ instant \in Nat /\ ledger \in LedgerRows /\ owned \in OwnedRows
  BY MarketAndRequests DEF PerformanceTyped
<1>2. m \in MoveRows /\ e \in Int
  BY <1>1 DEF MoveRows
<1>3. /\ v \in EventRows /\ v.at = instant /\ v.cash = c /\ v.flow = ExternalFlow(m) /\ v.ticker = NoTicker
      /\ c \in Int /\ ExternalFlow(m) \in Int
  BY <1>2, EventsTyped DEF CashEvent, Event
<1>4. c = e + ExternalFlow(m)
  BY <1>1 DEF CashDelta, ExternalFlow
<1>5. /\ owned.cash + c >= 0 /\ ledger' = [ledger EXCEPT !.cash = Append(@, m)]
      /\ owned' = [owned EXCEPT !.cash = @ + c, !.earned = @ + e]
      /\ instant' = instant + 1 /\ UNCHANGED <<closing, series, trail>>
  BY DEF MoveCash, Enter
<1> HIDE DEF m, c, e, v
<1>6. EntryAdded(ledger, ledger', <<1, Len(ledger.cash) + 1>>, v)
  BY <1>1, <1>2, <1>5, CashAdded DEF v
<1>7. OwnedIs(owned', owned.cash + c, owned.shares, owned.earned + e, owned.before)
  BY <1>1, <1>2, <1>3, <1>5, OwnedMoves
<1>8. \A t \in Stocks : owned'.shares[t] = owned.shares[t] + (IF t = v.ticker THEN v.shares ELSE 0)
  <2>1. \A t \in Stocks : t # v.ticker /\ owned.shares[t] \in Nat
    BY <1>1, <1>3, MarketAndRequests, OwnedFields
  <2> QED
    BY <1>7, <2>1 DEF OwnedIs
<1>9. WorthOf(owned', closing) = (WorthOf(owned, closing) + e) + v.flow
  <2> DEFINE s == Total([t \in Stocks |-> owned.shares[t] * closing[t]])
  <2>1. s \in Int
    <3>2. owned.shares \in [Stocks -> Int] /\ closing \in [Stocks -> Int]
      BY <1>1, OwnedFields DEF PerformanceTyped
    <3> QED
      BY <3>2, WorthTyped
  <2>2. WorthOf(owned', closing) = (owned.cash + c) + s /\ WorthOf(owned, closing) = owned.cash + s
    BY <1>7 DEF OwnedIs, WorthOf
  <2>3. owned.cash \in Int
    BY <1>1, OwnedFields
  <2> HIDE DEF s
  <2> QED
    BY <1>2, <1>3, <1>4, <2>1, <2>2, <2>3
<1>10. owned'.earned = owned.earned + e /\ owned'.before = owned.before /\ owned'.cash = owned.cash + v.cash
  BY <1>3, <1>7 DEF OwnedIs
<1> QED
  BY <1>2, <1>3, <1>5, <1>6, <1>8, <1>9, <1>10, EntryKept

(* a trade at the closing price loses its fees                               *)
(* (TradeTransaction.cash_delta);                                            *)
LEMMA MakeTradeKept ==
  ASSUME PerformanceTyped, PerformanceTyped', NEW H, NEW C, ToldAs(H, C),
         NEW t \in Stocks, NEW side \in {"buy", "sell"}, NEW n \in Sizes, NEW fees \in Fees,
         MakeTrade(t, side, n, fees)
  PROVE  \E G : ToldAs(G, C)'
<1> DEFINE x == [at |-> instant, symbol |-> t, side |-> side, quantity |-> n, price |-> closing[t],
                 fees |-> fees]
           l == LotOf(t, n, "manual_trade")
           c == TradeCash(x)
           d == SharesDelta(x)
           e == -fees
           v == TradeEvent(x)
           lots == IF side = "sell" THEN ledger.lots ELSE Append(ledger.lots, l)
<1>1. /\ n \in Nat /\ fees \in Nat /\ instant \in Nat /\ ledger \in LedgerRows /\ owned \in OwnedRows
      /\ closing \in [Stocks -> Nat \ {0}] /\ closing[t] \in Nat
  BY MarketAndRequests DEF PerformanceTyped
<1>2. x \in TradeRows /\ l \in LotRows /\ e \in Int /\ ~DatedLot(l) /\ ~Undated(l)
  BY <1>1 DEF TradeRows, LotRows, LotOf, DatedLot, Undated
<1>3. /\ v \in EventRows /\ v.at = instant /\ v.cash = c /\ v.flow = 0 /\ v.ticker = t /\ v.shares = d
      /\ c \in Int /\ d \in Int
  BY <1>2, EventsTyped DEF TradeEvent, Event
<1>4. c + d * closing[t] = e
  <2> DEFINE p == closing[t]
  <2>1. c = IF side = "buy" THEN -(n * p + fees) ELSE n * p - fees
    BY DEF TradeCash
  <2>2. d = IF side = "buy" THEN n ELSE -n
    BY DEF SharesDelta
  <2>3. p \in Nat
    BY <1>1
  <2> HIDE DEF c, d, p
  <2>4. n * p \in Nat /\ (-n) * p = -(n * p)
    BY <1>1, <2>3
  <2>5. CASE side = "buy"
    BY <1>1, <2>1, <2>2, <2>4, <2>5 DEF p
  <2>6. CASE side # "buy"
    BY <1>1, <2>1, <2>2, <2>4, <2>6 DEF p
  <2> QED
    BY <2>5, <2>6
<1>5. /\ owned.cash + c >= 0 /\ owned.shares[t] + d >= 0
      /\ ledger' = [ledger EXCEPT !.trades = Append(@, x), !.lots = lots]
      /\ owned' = [owned EXCEPT !.cash = @ + c, !.shares[t] = @ + d, !.earned = @ - fees]
      /\ instant' = instant + 1 /\ UNCHANGED <<closing, series, trail>>
  BY DEF MakeTrade, Enter
<1>6. lots \in {ledger.lots, Append(ledger.lots, l)}
  OBVIOUS
<1> HIDE DEF x, l, c, d, v, lots
<1>7. EntryAdded(ledger, ledger', <<2, Len(ledger.trades) + 1>>, v)
  BY <1>1, <1>2, <1>5, <1>6, TradeAdded DEF v
<1>8. OwnedIs(owned', owned.cash + c, [owned.shares EXCEPT ![t] = @ + d], owned.earned - fees, owned.before)
  <2>1. fees \in Int
    BY <1>1
  <2> QED
    BY <1>1, <1>3, <1>5, <2>1, OwnedTrades
<1>9. owned.shares \in [Stocks -> Nat] /\ owned.cash \in Int /\ owned.earned \in Int
  BY <1>1, OwnedFields
<1>10. \A y \in Stocks : owned'.shares[y] = owned.shares[y] + (IF y = v.ticker THEN v.shares ELSE 0)
  BY <1>3, <1>8, <1>9 DEF OwnedIs
<1>11. WorthOf(owned', closing) = (WorthOf(owned, closing) + e) + v.flow
  <2> DEFINE s == Total([y \in Stocks |-> owned.shares[y] * closing[y]])
             more == [owned.shares EXCEPT ![t] = @ + d]
             r == Total([y \in Stocks |-> more[y] * closing[y]])
  <2>1. s \in Int
    <3>1. owned.shares \in [Stocks -> Int] /\ closing \in [Stocks -> Int]
      BY <1>1, <1>9
    <3> QED
      BY <3>1, WorthTyped
  <2>2. r = s + d * closing[t]
    BY <1>1, <1>3, <1>5, <1>9, SharesMove
  <2>3. WorthOf(owned', closing) = (owned.cash + c) + r /\ WorthOf(owned, closing) = owned.cash + s
    BY <1>8 DEF OwnedIs, WorthOf
  <2> DEFINE dp == d * closing[t]
  <2>4. dp \in Int /\ r = s + dp /\ c + dp = e
    BY <1>1, <1>3, <1>4, <2>2
  <2> HIDE DEF s, r, more, dp
  <2> QED
    BY <1>2, <1>3, <1>9, <2>1, <2>3, <2>4
<1>12. owned'.earned = owned.earned + e /\ owned'.before = owned.before /\ owned'.cash = owned.cash + v.cash
  BY <1>1, <1>3, <1>8, <1>9 DEF OwnedIs
<1> HIDE DEF e
<1> QED
  BY <1>2, <1>3, <1>5, <1>7, <1>10, <1>11, <1>12, EntryKept

(* and a dated lot flows in at its price.                                    *)
LEMMA BringInKept ==
  ASSUME PerformanceTyped, PerformanceTyped', NEW H, NEW C, ToldAs(H, C),
         NEW t \in Stocks, BringIn(t, 1, "manual")
  PROVE  \E G : ToldAs(G, C)'
<1> DEFINE l == LotOf(t, 1, "manual")
           v == LotEvent(l)
           p == closing[t]
<1>1. /\ instant \in Nat /\ ledger \in LedgerRows /\ owned \in OwnedRows
      /\ closing \in [Stocks -> Nat \ {0}] /\ p \in Nat
  BY DEF PerformanceTyped
<1>2. l \in LotRows /\ DatedLot(l) /\ ~Undated(l)
  BY <1>1 DEF LotRows, LotOf, DatedLot, Undated
<1>3. /\ v \in EventRows /\ v.at = instant /\ v.cash = 0 /\ v.flow = p /\ v.ticker = t /\ v.shares = 1
  <2>1. l.quantity = 1 /\ l.price = p /\ l.fees = 0 /\ l.at = instant /\ l.symbol = t
    BY DEF LotOf
  <2>2. v \in EventRows
    BY <1>2, EventsTyped
  <2>3. v.flow = l.quantity * l.price + l.fees /\ v.at = l.at /\ v.cash = 0 /\ v.ticker = l.symbol
        /\ v.shares = l.quantity
    BY DEF LotEvent, Event
  <2> HIDE DEF l, v, p
  <2>4. 1 * p + 0 = p
    BY <1>1
  <2> QED
    BY <2>1, <2>2, <2>3, <2>4
<1>4. /\ ledger' = [ledger EXCEPT !.lots = Append(@, l)]
      /\ owned' = [owned EXCEPT !.shares[t] = @ + 1]
      /\ instant' = instant + 1 /\ UNCHANGED <<closing, series, trail>>
  BY DEF BringIn, Enter
<1> HIDE DEF l, v
<1>5. EntryAdded(ledger, ledger', <<3, Len(ledger.lots) + 1>>, v)
  BY <1>1, <1>2, <1>4, LotAdded DEF v
<1>6. owned.shares \in [Stocks -> Nat] /\ owned.cash \in Int /\ owned.earned \in Int /\ 1 \in Int
      /\ owned.shares[t] + 1 >= 0
  BY <1>1, OwnedFields
<1>7. OwnedIs(owned', owned.cash, [owned.shares EXCEPT ![t] = @ + 1], owned.earned, owned.before)
  <2>1. OwnedIs([owned EXCEPT !.shares[t] = @ + 1], owned.cash, [owned.shares EXCEPT ![t] = @ + 1],
                  owned.earned, owned.before)
    BY <1>1, <1>6, OwnedBrings
  <2> QED
    BY <1>4, <2>1
<1>8. \A y \in Stocks : owned'.shares[y] = owned.shares[y] + (IF y = v.ticker THEN v.shares ELSE 0)
  BY <1>3, <1>6, <1>7 DEF OwnedIs
<1>9. WorthOf(owned', closing) = (WorthOf(owned, closing) + 0) + v.flow
  <2> DEFINE s == Total([y \in Stocks |-> owned.shares[y] * closing[y]])
             more == [owned.shares EXCEPT ![t] = @ + 1]
             r == Total([y \in Stocks |-> more[y] * closing[y]])
  <2>1. s \in Int
    <3>1. owned.shares \in [Stocks -> Int] /\ closing \in [Stocks -> Int]
      BY <1>1, <1>6
    <3> QED
      BY <3>1, WorthTyped
  <2>2. r = s + 1 * closing[t]
    BY <1>1, <1>6, SharesMove
  <2>3. WorthOf(owned', closing) = owned.cash + r /\ WorthOf(owned, closing) = owned.cash + s
    BY <1>7 DEF OwnedIs, WorthOf
  <2>4. r = s + p
    BY <1>1, <2>1, <2>2
  <2> HIDE DEF s, r, more, p
  <2> QED
    BY <1>1, <1>3, <1>6, <2>1, <2>3, <2>4
<1>10. owned'.earned = owned.earned + 0 /\ owned'.before = owned.before /\ owned'.cash = owned.cash + v.cash
  BY <1>3, <1>6, <1>7 DEF OwnedIs
<1>11. 0 \in Int
  OBVIOUS
<1> HIDE DEF p
<1> QED
  BY <1>3, <1>4, <1>5, <1>8, <1>9, <1>10, <1>11, EntryKept

(* A point of the market tells what is owned at its prices.                  *)
LEMMA QuotePointKept ==
  ASSUME PerformanceTyped, PerformanceTyped', NEW H, NEW C, ToldAs(H, C),
         NEW quoted \in (SUBSET Stocks) \ {{}}, NEW prices \in [Stocks -> Closes], QuotePoint(quoted, prices)
  PROVE  \E G, D : ToldAs(G, D)'
<1> DEFINE r == [at |-> instant, worth |-> Worth(owned), held |-> Worth(owned.before) + owned.earned]
<1>0. /\ instant \in Nat \ {0} /\ H \in [0 .. (instant - 1) -> Wealth] /\ instant - 1 \in 0 .. (instant - 1)
      /\ owned \in OwnedRows /\ owned' \in OwnedRows /\ closing \in [Stocks -> Nat \ {0}]
  BY DEF PerformanceTyped, ToldAs, HappenedAs
<1>1. /\ trail' = Append(trail, r) /\ closing' = prices /\ instant' = instant + 1 /\ ledger' = ledger
      /\ owned' = [owned EXCEPT !.earned = 0, !.before = [cash |-> owned.cash, shares |-> owned.shares]]
      /\ {t \in Stocks : series[t] # <<>>} \subseteq quoted
      /\ series' = [t \in Stocks |-> IF t \in quoted
                                     THEN Append(series[t], [at |-> instant, close |-> closing[t]])
                                     ELSE series[t]]
  BY DEF QuotePoint
<1>n. PICK N \in Nat : N = Len(trail)
  BY LenProperties DEF PerformanceTyped
<1>2. /\ N \in Nat /\ N = Len(trail) /\ Len(trail') = N + 1 /\ trail'[N + 1] = r
      /\ \A k \in 1 .. N : trail'[k] = trail[k]
  <2> DEFINE R == [at : Nat, worth : Int, held : Int]
  <2>1. trail \in Seq(R)
    BY DEF PerformanceTyped
  <2>2. r \in R
    <3>1. trail' \in Seq(R) /\ trail' = Append(trail, r)
      BY <1>1 DEF PerformanceTyped
    <3> HIDE DEF R, r
    <3> QED
      BY <2>1, <3>1, AppendProperties, ElementOfSeq
  <2> HIDE DEF r, R
  <2> QED
    BY <1>n, <1>1, <2>1, <2>2, ListGrows
<1>3. r.at = instant /\ r.worth = Worth(owned) /\ r.held = Worth(owned.before) + owned.earned
  OBVIOUS
<1> HIDE DEF r
<1>4. OwnedIs(owned', owned.cash, owned.shares, 0, [cash |-> owned.cash, shares |-> owned.shares])
  BY <1>0, <1>1, OwnedQuoted
<1>5. PICK G : G = Extended(H, instant, H[instant - 1])
  OBVIOUS
<1>6. PICK D : D = [k \in 1 .. (N + 2) |-> IF k = N + 2 THEN prices ELSE C[k]]
  OBVIOUS
<1>7. C \in [1 .. (N + 1) -> [Stocks -> Nat \ {0}]] /\ C[N + 1] = closing
  BY <1>2 DEF ToldAs, PricedAs
<1>8. prices \in [Stocks -> Nat \ {0}]
  BY MarketAndRequests
<1>9. /\ D \in [1 .. (N + 2) -> [Stocks -> Nat \ {0}]] /\ D[N + 2] = prices
      /\ \A k \in 1 .. (N + 1) : D[k] = C[k]
  BY <1>2, <1>6, <1>7, <1>8
<1>10. G[instant] = H[instant - 1] /\ \A T \in 0 .. (instant - 1) : G[T] = H[T]
  BY <1>0, <1>5 DEF Extended
<1>11. HappenedAs(ledger', instant', G)
  <2>1. HappenedAs(ledger, instant, H)
    BY DEF ToldAs
  <2>2. HappenedAs(ledger, instant + 1, Extended(H, instant, H[instant - 1]))
    BY <1>0, <2>1, HappenedPoint
  <2> QED
    BY <1>1, <1>5, <2>2
<1>12. \A k \in 1 .. N : trail[k].at \in 1 .. (instant - 1) /\ Follows(k, H, C)
  BY <1>2 DEF ToldAs, PricedAs
<1>13. \A k \in 0 .. N : TimeOf(k) \in 0 .. (instant - 1) /\ TimeOf(k)' = TimeOf(k)
  BY <1>0, <1>2, <1>12 DEF TimeOf
<1>14. TimeOf(N + 1)' = instant
  BY <1>2, <1>3 DEF TimeOf
<1>15. ASSUME NEW k \in 1 .. (N + 1)
       PROVE  trail'[k].at \in 1 .. (instant' - 1) /\ Follows(k, G, D)'
  <2>1. k - 1 \in 0 .. N
    BY <1>2
  <2>2. TimeOf(k - 1) \in 0 .. (instant - 1) /\ TimeOf(k - 1)' = TimeOf(k - 1)
    BY <1>13, <2>1
  <2>3. D[k] = C[k] /\ G[TimeOf(k - 1)] = H[TimeOf(k - 1)]
    BY <1>9, <1>10, <2>2
  <2>4. CASE k \in 1 .. N
    <3>1. trail[k].at \in 1 .. (instant - 1) /\ trail[k].at \in 0 .. (instant - 1) /\ Follows(k, H, C)
      BY <1>12, <2>4
    <3>2. G[trail[k].at] = H[trail[k].at] /\ trail'[k] = trail[k]
      BY <1>2, <1>10, <2>4, <3>1
    <3>3. trail'[k].at \in 1 .. (instant' - 1)
      BY <1>0, <1>1, <3>1, <3>2
    <3>4. Follows(k, G, D)'
      BY <2>2, <2>3, <3>1, <3>2 DEF Follows, WorthOf
    <3> QED
      BY <3>3, <3>4
  <2>5. CASE k = N + 1
    <3>1. trail'[k] = r /\ C[k] = closing /\ k - 1 = N
      BY <1>2, <1>7, <2>5
    <3>2. trail'[k].at \in 1 .. (instant' - 1)
      BY <1>0, <1>1, <1>3, <3>1
    <3>3. r.worth = WorthOf(G[r.at], D[k])
      <4>1. owned.cash = H[instant - 1].cash /\ owned.shares = H[instant - 1].shares
        BY DEF ToldAs, PricedAs
      <4> QED
        BY <1>3, <1>10, <2>3, <3>1, <4>1 DEF WorthOf, Worth
    <3>4. r.held = r.worth - (G[r.at].flow - G[TimeOf(k - 1)'].flow)
      <4>1. Worth(owned) = (Worth(owned.before) + owned.earned) + (H[instant - 1].flow - H[TimeOf(N)].flow)
        BY <1>2 DEF ToldAs, PricedAs
      <4>2. Worth(owned.before) \in Int /\ Worth(owned) \in Int /\ owned.earned \in Int
        BY <1>0, OwnedFields, WorthIsInt DEF Holdings
      <4>3. H[instant - 1].flow \in Int /\ H[TimeOf(N)].flow \in Int
        BY <1>0, <2>2, <3>1 DEF Wealth
      <4>4. G[r.at].flow = H[instant - 1].flow /\ G[TimeOf(k - 1)'].flow = H[TimeOf(N)].flow
        BY <1>3, <1>10, <2>2, <2>3, <3>1
      <4> QED
        BY <1>3, <4>1, <4>2, <4>3, <4>4
    <3> QED
      BY <3>1, <3>2, <3>3, <3>4 DEF Follows, WorthOf
  <2> QED
    BY <1>2, <2>4, <2>5
<1>16. \A j, k \in 1 .. (N + 1) : j < k => trail'[j].at < trail'[k].at
  <2> SUFFICES ASSUME NEW j \in 1 .. (N + 1), NEW k \in 1 .. (N + 1), j < k
               PROVE  trail'[j].at < trail'[k].at
    OBVIOUS
  <2>1. j \in 1 .. N
    BY <1>2
  <2>2. CASE k \in 1 .. N
    <3>1. trail[j].at < trail[k].at
      BY <1>2, <2>1, <2>2 DEF ToldAs, PricedAs
    <3> QED
      BY <1>2, <2>1, <2>2, <3>1
  <2>3. CASE k = N + 1
    <3>1. trail[j].at \in 1 .. (instant - 1)
      BY <1>12, <2>1
    <3> QED
      BY <1>0, <1>2, <1>3, <2>1, <2>3, <3>1
  <2> QED
    BY <1>2, <2>2, <2>3
<1>17. owned'.cash = G[instant' - 1].cash /\ owned'.shares = G[instant' - 1].shares
  <2>1. instant' - 1 = instant
    BY <1>0, <1>1
  <2>2. owned.cash = H[instant - 1].cash /\ owned.shares = H[instant - 1].shares
    BY DEF ToldAs, PricedAs
  <2> QED
    BY <1>4, <1>10, <2>1, <2>2 DEF OwnedIs
<1>18. Worth(owned)' = (Worth(owned.before)' + owned'.earned) + (G[instant' - 1].flow - G[TimeOf(Len(trail))'].flow)
  <2>1. instant' - 1 = instant /\ TimeOf(Len(trail))' = instant
    <3>1. instant' - 1 = instant /\ Len(trail)' = N + 1
      BY <1>0, <1>1, <1>2
    <3>2. TimeOf(Len(trail))' = TimeOf(N + 1)'
      BY <3>1, <1>2 DEF TimeOf
    <3> QED
      BY <1>14, <3>1, <3>2
  <2>2. /\ owned'.earned = 0 /\ owned'.before.cash = owned'.cash /\ owned'.before.shares = owned'.shares
    BY <1>4 DEF OwnedIs
  <2>3. Worth(owned)' = Worth(owned.before)'
    BY <2>2 DEF Worth
  <2>4. Worth(owned)' \in Int
    <3>1. owned'.cash \in Nat /\ owned'.shares \in [Stocks -> Nat] /\ closing' \in [Stocks -> Nat \ {0}]
      BY <1>0, <1>1, <1>8, OwnedFields
    <3> DEFINE s == owned'.shares
    <3>2. s \in [Stocks -> Int] /\ closing' \in [Stocks -> Int] /\ owned'.cash \in Int
      BY <3>1
    <3> HIDE DEF s
    <3>3. Total([t \in Stocks |-> s[t] * closing'[t]]) \in Int
      BY <3>2, WorthTyped
    <3> QED
      BY <3>2, <3>3 DEF Worth, s
  <2>5. G[instant].flow \in Int
    BY <1>0, <1>10 DEF Wealth
  <2> QED
    BY <2>1, <2>2, <2>3, <2>4, <2>5
<1>19. ASSUME NEW t \in Stocks
       PROVE  QuotedAs(t, D)'
  <2>1. Len(series[t]) \in Nat /\ Len(series[t]) <= N
    BY <1>2, LenProperties DEF PerformanceTyped, ToldAs, PricedAs, QuotedAs
  <2>2. CASE t \in quoted
    <3> DEFINE L == Len(series[t])
               q == [at |-> instant, close |-> closing[t]]
               P == [at : Nat, close : Nat \ {0}]
    <3>1. series'[t] = Append(series[t], q) /\ series[t] \in Seq(P) /\ q \in P
      BY <1>0, <1>1, <2>2 DEF PerformanceTyped
    <3>0. L \in Nat /\ L <= N
      BY <2>1
    <3> HIDE DEF q, P, L
    <3>2. Len(series'[t]) = L + 1 /\ series'[t][L + 1] = q /\ \A n \in 1 .. L : series'[t][n] = series[t][n]
      BY <3>1, ListGrows DEF L
    <3>3. ASSUME NEW n \in 1 .. (L + 1)
          PROVE  LET k == ((N + 1) - (L + 1)) + n
                 IN series'[t][n].at = trail'[k].at /\ series'[t][n].close = D[k][t]
      <4>1. CASE n \in 1 .. L
        <5> DEFINE k == (N - L) + n
        <5>1. k \in 1 .. N /\ ((N + 1) - (L + 1)) + n = k
          BY <1>2, <3>0, <4>1
        <5>2. series[t][n].at = trail[k].at /\ series[t][n].close = C[k][t]
          BY <1>2, <4>1 DEF ToldAs, PricedAs, QuotedAs, L
        <5> HIDE DEF k
        <5>3. trail'[k] = trail[k] /\ D[k] = C[k]
          BY <1>2, <1>9, <5>1
        <5> QED
          BY <3>2, <4>1, <5>1, <5>2, <5>3
      <4>2. CASE n = L + 1
        <5>1. ((N + 1) - (L + 1)) + n = N + 1
          BY <1>2, <3>0, <4>2
        <5>2. trail'[N + 1] = r /\ D[N + 1] = closing
          BY <1>2, <1>7, <1>9
        <5>3. series'[t][n] = q /\ q.at = instant /\ q.close = closing[t]
          BY <3>2, <4>2 DEF q
        <5> QED
          BY <1>3, <5>1, <5>2, <5>3
      <4> QED
        BY <3>0, <4>1, <4>2
    <3> QED
      BY <1>2, <3>0, <3>2, <3>3 DEF QuotedAs
  <2>3. CASE t \notin quoted
    <3>1. series'[t] = <<>>
      BY <1>1, <2>3
    <3> QED
      BY <1>2, <3>1 DEF QuotedAs
  <2> QED
    BY <2>2, <2>3
<1>20. D \in [1 .. (Len(trail') + 1) -> [Stocks -> Nat \ {0}]] /\ D[Len(trail') + 1] = closing'
  <2>1. Len(trail') + 1 = N + 2
    BY <1>2
  <2> QED
    BY <1>1, <1>9, <2>1
<1>21. PricedAs(G, D)'
  <2>1. Len(trail') = N + 1
    BY <1>2
  <2> QED
    BY <1>15, <1>16, <1>17, <1>18, <1>19, <1>20, <2>1 DEF PricedAs
<1> QED
  BY <1>11, <1>21 DEF ToldAs

(* Everything that happens keeps what the proofs below need.                 *)
LEMMA PerformanceKept ==
  ASSUME PerformanceInv, [PerformanceNext]_historyOf
  PROVE  PerformanceInv'
<1>1. PerformanceTyped /\ PerformanceTyped'
  BY PerformanceTypedKept DEF PerformanceInv
<1>2. CASE UNCHANGED historyOf
  <2>1. AllDated' = AllDated /\ \A H, C : ToldAs(H, C)' = ToldAs(H, C)
    BY <1>2 DEF historyOf, AllDated, ToldAs, PricedAs, Worth, TimeOf, Follows, QuotedAs
  <2> QED
    BY <1>1, <2>1 DEF PerformanceInv
<1>3. CASE PerformanceNext
  <2>0. SUFFICES ASSUME AllDated'
                 PROVE  \E H, C : ToldAs(H, C)'
    BY <1>1 DEF PerformanceInv
  <2>1. ledger \in LedgerRows /\ DOMAIN ledger.lots = 1 .. Len(ledger.lots) /\ Len(ledger.lots) \in Nat
    BY <1>1, LenProperties DEF PerformanceTyped, LedgerRows
  <2>2. ASSUME NEW l \in LotRows, ledger'.lots \in {ledger.lots, Append(ledger.lots, l)}
        PROVE  AllDated /\ (ledger'.lots = Append(ledger.lots, l) => ~Undated(l))
    <3>1. CASE ledger'.lots = ledger.lots /\ ledger'.lots # Append(ledger.lots, l)
      BY <2>0, <3>1 DEF AllDated
    <3>2. CASE ledger'.lots = Append(ledger.lots, l)
      <4> DEFINE k == Len(ledger.lots)
      <4>1. /\ DOMAIN ledger'.lots = 1 .. (k + 1) /\ ledger'.lots[k + 1] = l
            /\ \A n \in 1 .. k : ledger'.lots[n] = ledger.lots[n]
        BY <2>1, <3>2, ListGrows DEF LedgerRows
      <4>2. \A n \in 1 .. (k + 1) : ~Undated(ledger'.lots[n])
        BY <2>0, <4>1 DEF AllDated
      <4>3. k + 1 \in 1 .. (k + 1) /\ \A n \in 1 .. k : n \in 1 .. (k + 1)
        BY <2>1
      <4> HIDE DEF k
      <4>4. ~Undated(l) /\ \A n \in 1 .. k : ~Undated(ledger.lots[n])
        BY <4>1, <4>2, <4>3
      <4> QED
        BY <2>1, <4>4 DEF AllDated, k
    <3> QED
      BY <2>2, <3>1, <3>2
  <2>3. ASSUME NEW kind \in {"deposit", "withdrawal", "dividend"}, NEW amount \in Deposits, MoveCash(kind, amount)
        PROVE  \E H, C : ToldAs(H, C)'
    <3>1. ledger'.lots = ledger.lots
      BY <2>1, <2>3 DEF MoveCash, Enter, LedgerRows
    <3>2. AllDated
      BY <2>0, <3>1 DEF AllDated
    <3>3. PICK H, C : ToldAs(H, C)
      BY <3>2 DEF PerformanceInv
    <3>4. \E G : ToldAs(G, C)'
      BY <1>1, <2>3, <3>3, MoveCashKept
    <3> QED
      BY <3>4
  <2>4. ASSUME NEW t \in Stocks, NEW side \in {"buy", "sell"}, NEW n \in Sizes, NEW fees \in Fees,
               MakeTrade(t, side, n, fees)
        PROVE  \E H, C : ToldAs(H, C)'
    <3> DEFINE l == LotOf(t, n, "manual_trade")
    <3>1. l \in LotRows
      BY <1>1, MarketAndRequests DEF PerformanceTyped, LotRows, LotOf
    <3>2. ledger'.lots \in {ledger.lots, Append(ledger.lots, l)}
      BY <2>1, <2>4 DEF MakeTrade, Enter, LedgerRows
    <3>3. AllDated
      BY <2>2, <3>1, <3>2
    <3>4. PICK H, C : ToldAs(H, C)
      BY <3>3 DEF PerformanceInv
    <3>5. \E G : ToldAs(G, C)'
      BY <1>1, <2>4, <3>4, MakeTradeKept
    <3> QED
      BY <3>5
  <2>5. ASSUME NEW t \in Stocks, NEW source \in {"manual", "aggregate_position"}, BringIn(t, 1, source)
        PROVE  \E H, C : ToldAs(H, C)'
    <3> DEFINE l == LotOf(t, 1, source)
    <3>1. l \in LotRows
      BY <1>1 DEF PerformanceTyped, LotRows, LotOf
    <3>2. ledger'.lots = Append(ledger.lots, l)
      BY <2>1, <2>5 DEF BringIn, Enter, LedgerRows
    <3>3. AllDated /\ ~Undated(l)
      BY <2>2, <3>1, <3>2
    <3>4. source = "manual"
      BY <3>3 DEF Undated, LotOf
    <3>5. PICK H, C : ToldAs(H, C)
      BY <3>3 DEF PerformanceInv
    <3>6. \E G : ToldAs(G, C)'
      BY <1>1, <2>5, <3>4, <3>5, BringInKept
    <3> QED
      BY <3>6
  <2>6. ASSUME NEW quoted \in (SUBSET Stocks) \ {{}}, NEW prices \in [Stocks -> Closes],
               QuotePoint(quoted, prices)
        PROVE  \E H, C : ToldAs(H, C)'
    <3>1. AllDated
      BY <2>0, <2>6 DEF QuotePoint, AllDated
    <3>2. PICK H, C : ToldAs(H, C)
      BY <3>1 DEF PerformanceInv
    <3> QED
      BY <1>1, <2>6, <3>2, QuotePointKept
  <2> QED
    BY <1>3, <2>3, <2>4, <2>5, <2>6 DEF PerformanceNext
<1> QED
  BY <1>2, <1>3

(* The events that the replay sorts are those that happened, in order.       *)
Replays(ev, H) ==
  /\ ev \in Seq(EventRows)
  /\ \A k \in 1 .. Len(ev) : ev[k].at \in 1 .. (instant - 1) /\ Became(H[ev[k].at - 1], ev[k], H[ev[k].at])
  /\ \A j, k \in 1 .. Len(ev) : j < k => ev[j].at < ev[k].at
  /\ \A T \in 1 .. (instant - 1) : H[T] = H[T - 1] \/ \E k \in 1 .. Len(ev) : ev[k].at = T

(* Events lists what the entries tell: no two at one instant, so their order *)
(* is that of time.                                                          *)
LEMMA EventsAre ==
  ASSUME PerformanceTyped, AllDated, NEW H, HappenedAs(ledger, instant, H), NEW opening
  PROVE  Replays(Events(ledger, opening), H)
<1> DEFINE S == BookEntries(ledger)
           of(e) == EventOf(ledger, opening, e)
           key == [e \in S |-> of(e).at]
           before == {p \in S \X S :
                        \/ of(p[1]).at < of(p[2]).at
                        \/ /\ of(p[1]).at = of(p[2]).at
                           /\ p[1][1] < p[2][1] \/ (p[1][1] = p[2][1] /\ p[1][2] < p[2][2])}
           o == InOrder(S, before)
           ev == Events(ledger, opening)
<1>0. ledger \in LedgerRows
  BY DEF PerformanceTyped
<1>1. IsFiniteSet(S)
  <2> DEFINE A == DOMAIN ledger.cash
             B == DOMAIN ledger.trades
             D == {n \in DOMAIN ledger.lots : Undated(ledger.lots[n]) \/ DatedLot(ledger.lots[n])}
  <2>1. Len(ledger.cash) \in Nat /\ Len(ledger.trades) \in Nat /\ Len(ledger.lots) \in Nat
        /\ A = 1 .. Len(ledger.cash) /\ B = 1 .. Len(ledger.trades) /\ DOMAIN ledger.lots = 1 .. Len(ledger.lots)
    BY <1>0, LenProperties DEF LedgerRows
  <2>2. IsFiniteSet(A) /\ IsFiniteSet(B) /\ IsFiniteSet(DOMAIN ledger.lots)
    BY <2>1, UpToFinite
  <2>3. IsFiniteSet(D)
    <3>1. D \in SUBSET (DOMAIN ledger.lots)
      OBVIOUS
    <3> HIDE DEF D
    <3> QED
      BY <2>2, <3>1, FS_Subset
  <2>4. S = ({1} \X A) \cup ({2} \X B) \cup ({3} \X D)
    BY DEF BookEntries
  <2> HIDE DEF A, B, D, S
  <2>5. IsFiniteSet({1}) /\ IsFiniteSet({2}) /\ IsFiniteSet({3})
    BY FS_Singleton
  <2>6. IsFiniteSet({1} \X A) /\ IsFiniteSet({2} \X B) /\ IsFiniteSet({3} \X D)
    BY <2>2, <2>3, <2>5, FS_Product
  <2>7. IsFiniteSet(({1} \X A) \cup ({2} \X B))
    BY <2>6, FS_Union
  <2>8. IsFiniteSet((({1} \X A) \cup ({2} \X B)) \cup ({3} \X D))
    BY <2>6, <2>7, FS_Union
  <2> QED
    BY <2>4, <2>8
<1>2. ASSUME NEW e \in S
      PROVE  /\ of(e) = EventOf(ledger, 0, e) /\ of(e) \in EventRows /\ of(e).at \in 1 .. (instant - 1)
             /\ Became(H[of(e).at - 1], of(e), H[of(e).at]) /\ key[e] = of(e).at /\ of(e).at \in Int
             /\ e[1] \in Int /\ e[2] \in Int
  <2>1. \/ e[1] = 1 /\ e[2] \in DOMAIN ledger.cash
        \/ e[1] = 2 /\ e[2] \in DOMAIN ledger.trades
        \/ e[1] = 3 /\ e[2] \in DOMAIN ledger.lots
    BY <1>0, EntriesAre
  <2>2. of(e) = EventOf(ledger, 0, e)
    BY <2>1 DEF EventOf, AllDated
  <2>3. Tells(ledger, instant, H, e)
    BY DEF HappenedAs
  <2>4. e[2] \in Int /\ e[1] \in Int
    <3>1. DOMAIN ledger.cash \subseteq Int /\ DOMAIN ledger.trades \subseteq Int /\ DOMAIN ledger.lots \subseteq Int
      BY <1>0, EntriesAre
    <3> QED
      BY <2>1, <3>1
  <2>5. instant \in Nat
    BY DEF PerformanceTyped
  <2> HIDE DEF S
  <2>6. key[e] = of(e).at
    OBVIOUS
  <2> HIDE DEF key
  <2> QED
    BY <2>2, <2>3, <2>4, <2>5, <2>6 DEF Tells
<1>3. \A e, f \in S : key[e] = key[f] => e = f
  <2>1. \A e, f \in S : EventOf(ledger, 0, e).at = EventOf(ledger, 0, f).at => e = f
    BY DEF HappenedAs
  <2> HIDE DEF S, key, of
  <2> QED
    BY <1>2, <2>1
<1>4. \A x, y \in S : <<y, x>> \in before <=> key[y] < key[x]
  <2> SUFFICES ASSUME NEW x \in S, NEW y \in S PROVE <<y, x>> \in before <=> key[y] < key[x]
    OBVIOUS
  <2>1. <<y, x>> \in before <=> \/ of(y).at < of(x).at
                                \/ /\ of(y).at = of(x).at
                                   /\ y[1] < x[1] \/ (y[1] = x[1] /\ y[2] < x[2])
    <3> HIDE DEF S, of
    <3> QED
      OBVIOUS
  <2> HIDE DEF S, of, key, before
  <2>2. key[y] = of(y).at /\ key[x] = of(x).at /\ y[1] \in Int /\ y[2] \in Int
    BY <1>2
  <2>3. of(y).at = of(x).at => y = x
    BY <1>3, <2>2
  <2>4. ~(y[1] < y[1]) /\ ~(y[2] < y[2])
    BY <2>2
  <2> QED
    BY <2>1, <2>2, <2>3, <2>4
<1>5. ev = [k \in DOMAIN o |-> of(o[k])]
  BY DEF Events
<1> HIDE DEF S, of, before, ev
<1>6. Ordered(o, S, key)
  <2>1. \A x \in S : key[x] \in Int
    BY <1>2
  <2> HIDE DEF key
  <2> QED
    BY <1>1, <1>3, <1>4, <2>1, InOrderIs
<1> HIDE DEF o, key
<1> DEFINE L == Cardinality(S)
<1>7. L \in Nat /\ DOMAIN ev = 1 .. L /\ \A k \in 1 .. L : ev[k] = of(o[k]) /\ o[k] \in S
  BY <1>5, <1>6 DEF Ordered
<1> HIDE DEF L
<1>8. ev \in Seq(EventRows) /\ Len(ev) = L
  <2>1. \A k \in 1 .. L : ev[k] \in EventRows
    BY <1>2, <1>7
  <2>2. ev = [k \in 1 .. L |-> ev[k]]
    BY <1>5, <1>7
  <2>3. ev \in [1 .. L -> EventRows]
    BY <2>1, <2>2
  <2>4. ev \in Seq(EventRows)
    BY <1>7, <2>3
  <2> QED
    BY <1>7, <2>4, LenProperties
<1>9. \A k \in 1 .. L : ev[k].at \in 1 .. (instant - 1) /\ Became(H[ev[k].at - 1], ev[k], H[ev[k].at])
  BY <1>2, <1>7
<1>10. \A j, k \in 1 .. L : j < k => ev[j].at < ev[k].at
  <2>1. \A j, k \in 1 .. L : j < k => key[o[j]] < key[o[k]]
    BY <1>6, <1>7 DEF Ordered, L
  <2> QED
    BY <1>2, <1>7, <2>1
<1>11. \A T \in 1 .. (instant - 1) : H[T] = H[T - 1] \/ \E k \in 1 .. L : ev[k].at = T
  <2> SUFFICES ASSUME NEW T \in 1 .. (instant - 1), NEW e \in S, EventOf(ledger, 0, e).at = T
               PROVE  \E k \in 1 .. L : ev[k].at = T
    BY DEF HappenedAs, S
  <2>1. PICK k \in 1 .. L : o[k] = e
    BY <1>6 DEF Ordered, L
  <2> QED
    BY <1>2, <1>7, <2>1
<1> QED
  BY <1>8, <1>9, <1>10, <1>11 DEF Replays, ev

(* How many events are due, and what is owned after so many.                 *)
DueBy(ev, T) == Cardinality({n \in DOMAIN ev : ev[n].at <= T})
AfterDue(ev, H, m) == IF m = 0 THEN H[0] ELSE H[ev[m].at]

(* The events due by an instant are the first so many of the list;           *)
LEMMA DueIs ==
  ASSUME PerformanceTyped, NEW H, NEW ev, Replays(ev, H), NEW T \in Nat
  PROVE  /\ DueBy(ev, T) \in 0 .. Len(ev) /\ Len(ev) \in Nat
         /\ \A n \in 1 .. Len(ev) : ev[n].at <= T <=> n <= DueBy(ev, T)
<1> DEFINE L == Len(ev)
           S == {n \in DOMAIN ev : ev[n].at <= T}
<1>1. L \in Nat /\ DOMAIN ev = 1 .. L
  BY LenProperties DEF Replays
<1>2. \A n \in 1 .. L : ev[n].at \in Nat
  BY DEF Replays
<1>3. \A x \in S : 1 .. x \subseteq S
  <2> SUFFICES ASSUME NEW x \in S, NEW y \in 1 .. x PROVE y \in S
    OBVIOUS
  <2>1. x \in 1 .. L /\ ev[x].at <= T /\ y \in 1 .. L /\ (y = x \/ y < x)
    BY <1>1
  <2>2. y < x => ev[y].at < ev[x].at
    BY <2>1 DEF Replays
  <2>3. ev[y].at <= T
    BY <1>2, <2>1, <2>2
  <2> QED
    BY <1>1, <2>1, <2>3
<1>4. S \in SUBSET (1 .. L)
  BY <1>1
<1>5. \A n \in 1 .. L : n \in S <=> ev[n].at <= T
  BY <1>1
<1> HIDE DEF S, L
<1>6. PICK m \in 0 .. L : S = 1 .. m /\ Cardinality(S) = m
  BY <1>1, <1>3, <1>4, SegmentIs
<1>7. DueBy(ev, T) = m
  BY <1>6 DEF DueBy, S
<1>8. \A n \in 1 .. L : n \in 1 .. m <=> n <= m
  BY <1>1
<1> QED
  BY <1>1, <1>5, <1>6, <1>7, <1>8 DEF L

(* so many and no other number,                                              *)
LEMMA DueExactly ==
  ASSUME PerformanceTyped, NEW H, NEW ev, Replays(ev, H), NEW T \in Nat, NEW c \in 0 .. Len(ev),
         \A n \in 1 .. Len(ev) : ev[n].at <= T <=> n <= c
  PROVE  DueBy(ev, T) = c
<1> DEFINE d == DueBy(ev, T)
           L == Len(ev)
<1>1. d \in 0 .. L /\ L \in Nat /\ \A n \in 1 .. L : ev[n].at <= T <=> n <= d
  BY DueIs
<1> HIDE DEF d, L
<1>2. \A n \in 1 .. L : n <= c <=> n <= d
  BY <1>1 DEF L
<1>3. c \in 0 .. L
  BY DEF L
<1>4. ~(c < d) /\ ~(d < c)
  <2>1. c < d => d \in 1 .. L /\ d <= d /\ ~(d <= c)
    BY <1>1, <1>3
  <2>2. d < c => c \in 1 .. L /\ c <= c /\ ~(c <= d)
    BY <1>1, <1>3
  <2> QED
    BY <1>2, <2>1, <2>2
<1> QED
  BY <1>1, <1>3, <1>4 DEF d

(* and what is owned then is what is owned after the last of them.           *)
LEMMA ToldAfterDue ==
  ASSUME PerformanceTyped, NEW H, NEW ev, Replays(ev, H), NEW T \in 0 .. (instant - 1)
  PROVE  H[T] = AfterDue(ev, H, DueBy(ev, T))
<1> DEFINE L == Len(ev)
           P == {x \in Nat : x <= instant - 1 => H[x] = AfterDue(ev, H, DueBy(ev, x))}
<1>0. L \in Nat /\ instant \in Nat \ {0} /\ \A n \in 1 .. L : ev[n].at \in Nat /\ ev[n].at >= 1
  BY LenProperties DEF Replays, PerformanceTyped
<1>1. 0 \in P
  <2>1. \A n \in 1 .. L : ev[n].at <= 0 <=> n <= 0
    BY <1>0
  <2>2. DueBy(ev, 0) = 0
    <3>1. 0 \in Nat /\ 0 \in 0 .. Len(ev)
      BY <1>0
    <3> QED
      BY <2>1, <3>1, DueExactly
  <2> QED
    BY <2>2 DEF AfterDue
<1>2. ASSUME NEW x \in P
      PROVE  x + 1 \in P
  <2>1. x \in Nat /\ x + 1 \in Nat
    OBVIOUS
  <2> SUFFICES ASSUME x + 1 <= instant - 1
               PROVE  H[x + 1] = AfterDue(ev, H, DueBy(ev, x + 1))
    OBVIOUS
  <2>2. x + 1 \in 1 .. (instant - 1) /\ (x + 1) - 1 = x /\ x <= instant - 1
    BY <1>0, <2>1
  <2>3. CASE \E k \in 1 .. L : ev[k].at = x + 1
    <3>1. PICK k \in 1 .. L : ev[k].at = x + 1
      BY <2>3
    <3>2. \A n \in 1 .. L : ev[n].at <= x + 1 <=> n <= k
      <4> SUFFICES ASSUME NEW n \in 1 .. L PROVE ev[n].at <= x + 1 <=> n <= k
        OBVIOUS
      <4>1. (n < k => ev[n].at < ev[k].at) /\ (k < n => ev[k].at < ev[n].at)
        BY DEF Replays
      <4>2. n < k \/ n = k \/ k < n
        BY <1>0
      <4> QED
        BY <1>0, <2>1, <3>1, <4>1, <4>2
    <3>3. DueBy(ev, x + 1) = k
      <4>1. k \in 0 .. Len(ev)
        BY <1>0
      <4> QED
        BY <2>1, <3>2, <4>1, DueExactly
    <3>4. k # 0
      BY <1>0
    <3> QED
      BY <3>1, <3>3, <3>4 DEF AfterDue
  <2>4. CASE ~\E k \in 1 .. L : ev[k].at = x + 1
    <3>1. H[x + 1] = H[x]
      BY <2>2, <2>4 DEF Replays
    <3>2. DueBy(ev, x) \in 0 .. L /\ \A n \in 1 .. L : ev[n].at <= x <=> n <= DueBy(ev, x)
      BY <2>1, DueIs
    <3>3. \A n \in 1 .. L : ev[n].at <= x + 1 <=> ev[n].at <= x
      BY <1>0, <2>1, <2>4
    <3>4. DueBy(ev, x + 1) = DueBy(ev, x)
      BY <2>1, <3>2, <3>3, DueExactly
    <3> QED
      BY <2>2, <3>1, <3>4
  <2> QED
    BY <2>3, <2>4
<1>3. P = Nat
  <2> HIDE DEF P
  <2>1. P \in SUBSET Nat
    BY DEF P
  <2> QED
    BY <1>1, <1>2, <2>1, Counting
<1> QED
  BY <1>0, <1>3

(* From one to the next, what is owned changes by the event between.         *)
LEMMA EventTold ==
  ASSUME PerformanceTyped, NEW H, NEW ev, Replays(ev, H), NEW m \in 1 .. Len(ev)
  PROVE  Became(AfterDue(ev, H, m - 1), ev[m], AfterDue(ev, H, m))
<1> DEFINE L == Len(ev)
           T == ev[m].at - 1
<1>0. L \in Nat /\ instant \in Nat \ {0} /\ \A n \in 1 .. L : ev[n].at \in Nat /\ ev[n].at >= 1
  BY LenProperties DEF Replays, PerformanceTyped
<1>1. ev[m].at \in 1 .. (instant - 1) /\ Became(H[T], ev[m], H[ev[m].at])
  BY DEF Replays
<1>2. T \in Nat /\ T \in 0 .. (instant - 1) /\ m \in Nat \ {0} /\ m - 1 \in 0 .. L /\ ev[m].at = T + 1
  BY <1>0, <1>1
<1>3. \A n \in 1 .. L : ev[n].at <= T <=> n <= m - 1
  <2> SUFFICES ASSUME NEW n \in 1 .. L PROVE ev[n].at <= T <=> n <= m - 1
    OBVIOUS
  <2>1. (n < m => ev[n].at < ev[m].at) /\ (m < n => ev[m].at < ev[n].at)
    BY DEF Replays
  <2>2. n < m \/ n = m \/ m < n
    BY <1>0
  <2> HIDE DEF T
  <2> QED
    BY <1>0, <1>2, <2>1, <2>2
<1> HIDE DEF T
<1>4. DueBy(ev, T) = m - 1
  BY <1>2, <1>3, DueExactly
<1>5. H[T] = AfterDue(ev, H, m - 1)
  BY <1>2, <1>4, ToldAfterDue
<1>6. H[ev[m].at] = AfterDue(ev, H, m)
  BY <1>2 DEF AfterDue
<1> QED
  BY <1>1, <1>5, <1>6

(* The state of the replay.                                                  *)
PointRows == [at : Int, worth : Int, growth : Int \X Int]
ReplayStates == [cash : Int, shares : [Stocks -> Int], flow : Int, previous : Int,
                 points : Seq(PointRows), skipped : BOOLEAN, done : Nat]
(* r has but cash, flow and shares changed.                                  *)
SameOtherwise(r, s) ==
  r.previous = s.previous /\ r.points = s.points /\ r.skipped = s.skipped /\ r.done = s.done

(* One field of the state of the replay is set: cash,                        *)
LEMMA CashSet ==
  ASSUME NEW s \in ReplayStates, NEW x \in Int
  PROVE  LET r == [s EXCEPT !.cash = x]
         IN  r \in ReplayStates /\ r.cash = x /\ r.flow = s.flow /\ r.shares = s.shares /\ SameOtherwise(r, s)
<1>1. [s EXCEPT !.cash = x] \in ReplayStates
  BY DEF ReplayStates
<1> QED
  BY <1>1 DEF ReplayStates, SameOtherwise

(* flow,                                                                     *)
LEMMA FlowSet ==
  ASSUME NEW s \in ReplayStates, NEW x \in Int
  PROVE  LET r == [s EXCEPT !.flow = x]
         IN  r \in ReplayStates /\ r.flow = x /\ r.cash = s.cash /\ r.shares = s.shares /\ SameOtherwise(r, s)
<1>1. [s EXCEPT !.flow = x] \in ReplayStates
  BY DEF ReplayStates
<1> QED
  BY <1>1 DEF ReplayStates, SameOtherwise

(* shares,                                                                   *)
LEMMA SharesSet ==
  ASSUME NEW s \in ReplayStates, NEW x \in [Stocks -> Int]
  PROVE  LET r == [s EXCEPT !.shares = x]
         IN  r \in ReplayStates /\ r.shares = x /\ r.cash = s.cash /\ r.flow = s.flow /\ SameOtherwise(r, s)
<1>1. [s EXCEPT !.shares = x] \in ReplayStates
  BY DEF ReplayStates
<1> QED
  BY <1>1 DEF ReplayStates, SameOtherwise

(* previous,                                                                 *)
LEMMA PreviousSet ==
  ASSUME NEW s \in ReplayStates, NEW x \in Int
  PROVE  LET r == [s EXCEPT !.previous = x]
         IN  /\ r \in ReplayStates /\ r.previous = x /\ r.cash = s.cash /\ r.flow = s.flow /\ r.shares = s.shares
             /\ r.points = s.points /\ r.skipped = s.skipped /\ r.done = s.done
<1>1. [s EXCEPT !.previous = x] \in ReplayStates
  BY DEF ReplayStates
<1> QED
  BY <1>1 DEF ReplayStates, SameOtherwise

(* points,                                                                   *)
LEMMA PointsSet ==
  ASSUME NEW s \in ReplayStates, NEW x \in Seq(PointRows)
  PROVE  LET r == [s EXCEPT !.points = x]
         IN  /\ r \in ReplayStates /\ r.points = x /\ r.cash = s.cash /\ r.flow = s.flow /\ r.shares = s.shares
             /\ r.previous = s.previous /\ r.skipped = s.skipped /\ r.done = s.done
<1>1. [s EXCEPT !.points = x] \in ReplayStates
  BY DEF ReplayStates
<1> QED
  BY <1>1 DEF ReplayStates, SameOtherwise

(* skipped,                                                                  *)
LEMMA SkippedSet ==
  ASSUME NEW s \in ReplayStates, NEW x \in BOOLEAN
  PROVE  LET r == [s EXCEPT !.skipped = x]
         IN  /\ r \in ReplayStates /\ r.skipped = x /\ r.cash = s.cash /\ r.flow = s.flow /\ r.shares = s.shares
             /\ r.previous = s.previous /\ r.points = s.points /\ r.done = s.done
<1>1. [s EXCEPT !.skipped = x] \in ReplayStates
  BY DEF ReplayStates
<1> QED
  BY <1>1 DEF ReplayStates, SameOtherwise

(* done.                                                                     *)
LEMMA DoneSet ==
  ASSUME NEW s \in ReplayStates, NEW x \in Nat
  PROVE  LET r == [s EXCEPT !.done = x]
         IN  /\ r \in ReplayStates /\ r.done = x /\ r.cash = s.cash /\ r.flow = s.flow /\ r.shares = s.shares
             /\ r.previous = s.previous /\ r.points = s.points /\ r.skipped = s.skipped
<1>1. [s EXCEPT !.done = x] \in ReplayStates
  BY DEF ReplayStates
<1> QED
  BY <1>1 DEF ReplayStates, SameOtherwise

(* Apply adds cash and flow, and the shares of its ticker.                   *)
LEMMA AppliedIs ==
  ASSUME NEW s \in ReplayStates, NEW e \in EventRows
  PROVE  LET r == Apply(s, e)
         IN  /\ r \in ReplayStates /\ r.cash = s.cash + e.cash /\ r.flow = s.flow + e.flow
             /\ \A t \in Stocks : r.shares[t] = IF t = e.ticker THEN AtLeastZero(s.shares[t] + e.shares)
                                                ELSE s.shares[t]
             /\ SameOtherwise(r, s)
<1> DEFINE m == [t \in Stocks |-> IF t = e.ticker THEN AtLeastZero(s.shares[t] + e.shares) ELSE s.shares[t]]
           p == [s EXCEPT !.cash = s.cash + e.cash]
           q == [p EXCEPT !.flow = s.flow + e.flow]
           u == [q EXCEPT !.shares = m]
           r == Apply(s, e)
<1>0. /\ s.cash \in Int /\ s.flow \in Int /\ s.shares \in [Stocks -> Int] /\ e.cash \in Int /\ e.flow \in Int
      /\ e.shares \in Int /\ (e.ticker \in Stocks \/ e.ticker = NoTicker) /\ NoTicker \notin Stocks
  BY MarketAndRequests DEF ReplayStates, EventRows
<1>1. m \in [Stocks -> Int] /\ \A t \in Stocks : m[t] = IF t = e.ticker THEN AtLeastZero(s.shares[t] + e.shares)
                                                         ELSE s.shares[t]
  <2>1. \A t \in Stocks : AtLeastZero(s.shares[t] + e.shares) \in Int
    BY <1>0 DEF AtLeastZero
  <2> QED
    BY <1>0, <2>1
<1>2. r = u
  <2>1. r = [s EXCEPT !.cash = s.cash + e.cash, !.flow = s.flow + e.flow, !.shares = m]
    BY DEF Apply
  <2> DEFINE v == [s EXCEPT !.cash = s.cash + e.cash, !.flow = s.flow + e.flow]
  <2> HIDE DEF m, r
  <2>2. s \in ReplayStates /\ DOMAIN s = {"cash", "shares", "flow", "previous", "points", "skipped", "done"}
    BY DEF ReplayStates
  <2>3. v = q
    BY <2>2
  <2>4. [s EXCEPT !.cash = s.cash + e.cash, !.flow = s.flow + e.flow, !.shares = m] = [v EXCEPT !.shares = m]
    BY <2>2
  <2> HIDE DEF v, q
  <2> QED
    BY <2>1, <2>3, <2>4
<1> HIDE DEF m, r
<1>3. p \in ReplayStates /\ p.cash = s.cash + e.cash /\ p.flow = s.flow /\ p.shares = s.shares /\ SameOtherwise(p, s)
  <2>1. s.cash + e.cash \in Int
    BY <1>0
  <2> QED
    BY <2>1, CashSet
<1> HIDE DEF p
<1>4. /\ q \in ReplayStates /\ q.cash = p.cash /\ q.flow = s.flow + e.flow /\ q.shares = p.shares
      /\ SameOtherwise(q, p)
  <2>1. s.flow + e.flow \in Int
    BY <1>0
  <2> QED
    BY <1>3, <2>1, FlowSet
<1> HIDE DEF q
<1>5. u \in ReplayStates /\ u.cash = q.cash /\ u.flow = q.flow /\ u.shares = m /\ SameOtherwise(u, q)
  BY <1>1, <1>4, SharesSet
<1> HIDE DEF u
<1> QED
  BY <1>1, <1>2, <1>3, <1>4, <1>5 DEF SameOtherwise, r

(* The events of a list are applied in turn.                                 *)
LEMMA AppliedInTurn ==
  ASSUME NEW base \in ReplayStates, NEW q \in Seq(EventRows)
  PROVE  /\ Len(q) \in Nat
         /\ \E F : /\ F \in [0 .. Len(q) -> ReplayStates] /\ F[0] = base
                   /\ \A k \in 1 .. Len(q) : F[k] = Apply(F[k - 1], q[k])
                   /\ F[Len(q)] = FoldLeft(Apply, base, q)
<1> DEFINE n == Len(q)
           A == ReplayStates
           st == [p \in A \X (1 .. n) |-> Apply(p[1], q[p[2]])]
           C(k) == k = [s \in SUBSET (1 .. n) |-> IF s = {} THEN base ELSE
                          Apply(k[s \ {Max(s)}], q[Max(s)])]
           it == CHOOSE k : C(k)
<1>2. n \in Nat /\ DOMAIN q = 1 .. n /\ \A k \in 1 .. n : q[k] \in EventRows
  BY LenProperties
<1>3. FoldLeft(Apply, base, q) = it[1 .. n]
  <2>1. FoldLeft(Apply, base, q)
          = (CHOOSE k : k = [s \in SUBSET DOMAIN q |-> IF s = {} THEN base ELSE
                               Apply(k[s \ {Max(s)}], q[Max(s)])])[DOMAIN q]
    BY DEF FoldLeft, MapThenFoldSet
  <2> HIDE DEF n
  <2> QED
    BY <1>2, <2>1
<1>4. Steps(1 .. n, A, st)
  <2>1. \A a \in A, k \in 1 .. n : Apply(a, q[k]) \in A
    BY <1>2, AppliedIs
  <2> HIDE DEF A, n
  <2> QED
    BY <2>1 DEF Steps
<1>5. base \in A
  OBVIOUS
<1> HIDE DEF n, A
<1>6. \A a \in A, k \in 1 .. n : st[<<a, k>>] = Apply(a, q[k])
  OBVIOUS
<1> HIDE DEF st
<1>7. PICK g : LeftFold(n, A, base, st, g)
  BY <1>2, <1>4, <1>5, LeftFoldExists
<1>8. C(g)
  <2>1. ASSUME NEW s \in SUBSET (1 .. n), s # {}
        PROVE  st[<<g[s \ {Max(s)}], Max(s)>>] = Apply(g[s \ {Max(s)}], q[Max(s)])
    <3>1. Max(s) \in 1 .. n
      BY <1>2, <2>1, LargestExists
    <3>2. g[s \ {Max(s)}] \in A
      BY <1>7 DEF LeftFold
    <3> QED
      BY <1>6, <3>1, <3>2
  <2>2. [s \in SUBSET (1 .. n) |-> IF s = {} THEN base ELSE st[<<g[s \ {Max(s)}], Max(s)>>]]
        = [s \in SUBSET (1 .. n) |-> IF s = {} THEN base ELSE Apply(g[s \ {Max(s)}], q[Max(s)])]
    BY <2>1
  <2> QED
    BY <1>7, <2>2 DEF LeftFold
<1>9. C(it)
  BY <1>8
<1>10. Unfolds(n, A, base, st, it)
  <2>1. it[{}] = base
    <3>1. {} \in SUBSET (1 .. n)
      OBVIOUS
    <3> HIDE DEF it
    <3> QED
      BY <1>9, <3>1
  <2>2. ASSUME NEW s \in SUBSET (1 .. n), s # {}, it[s \ {Max(s)}] \in A
        PROVE  it[s] = st[<<it[s \ {Max(s)}], Max(s)>>]
    <3>1. Max(s) \in 1 .. n
      BY <1>2, <2>2, LargestExists
    <3> HIDE DEF it
    <3>2. it[s] = Apply(it[s \ {Max(s)}], q[Max(s)])
      BY <1>9, <2>2
    <3> QED
      BY <1>6, <2>2, <3>1, <3>2
  <2> HIDE DEF it
  <2> QED
    BY <2>1, <2>2 DEF Unfolds
<1> HIDE DEF it
<1>11. PICK F : Turns(n, A, base, st, F) /\ F[n] = it[1 .. n]
  BY <1>2, <1>4, <1>5, <1>10, FoldTurns
<1>12. \A k \in 1 .. n : k - 1 \in 0 .. n
  BY <1>2
<1>13. /\ F \in [0 .. n -> A] /\ F[0] = base /\ F[n] = FoldLeft(Apply, base, q)
       /\ \A k \in 1 .. n : F[k] = Apply(F[k - 1], q[k])
  BY <1>3, <1>6, <1>11, <1>12 DEF Turns
<1> QED
  BY <1>2, <1>13 DEF n, A

(* r is s replayed until W is owned, from when `from` was.                   *)
Matches(r, s, W, from) ==
  /\ r \in ReplayStates /\ r.cash = W.cash /\ r.shares = W.shares
  /\ r.flow = s.flow + (W.flow - from.flow) /\ SameOtherwise(r, s)

(* Shares are never less than none, so the replay never cuts them.           *)
LEMMA DueReplayed ==
  ASSUME PerformanceTyped, NEW H \in [0 .. (instant - 1) -> Wealth], NEW ev, Replays(ev, H),
         NEW s \in ReplayStates, NEW due \in s.done .. Len(ev),
         s.cash = AfterDue(ev, H, s.done).cash, s.shares = AfterDue(ev, H, s.done).shares
  PROVE  Matches(FoldLeft(Apply, s, SubSeq(ev, s.done + 1, due)), s,
                 AfterDue(ev, H, due), AfterDue(ev, H, s.done))
<1> DEFINE a == s.done
           q == SubSeq(ev, a + 1, due)
           n == due - a
           W(k) == AfterDue(ev, H, a + k)
<1>0. /\ ev \in Seq(EventRows) /\ Len(ev) \in Nat /\ a \in Nat /\ due \in Nat /\ a <= due /\ due <= Len(ev)
      /\ DOMAIN ev = 1 .. Len(ev) /\ n \in Nat
  <2>1. ev \in Seq(EventRows) /\ a \in Nat
    BY DEF Replays, ReplayStates
  <2>2. Len(ev) \in Nat /\ DOMAIN ev = 1 .. Len(ev)
    BY <2>1, LenProperties
  <2> QED
    BY <2>1, <2>2
<1>1. q \in Seq(EventRows) /\ Len(q) = n /\ \A k \in 1 .. n : q[k] = ev[a + k]
  <2>1. PICK b \in Int : b = a + 1
    BY <1>0
  <2>2. \A i \in b .. due : ev[i] \in EventRows
    BY <1>0, <2>1
  <2>3. due \in Int /\ q = SubSeq(ev, b, due)
    BY <1>0, <2>1
  <2> HIDE DEF q, a
  <2>4. /\ SubSeq(ev, b, due) \in Seq(EventRows)
        /\ Len(SubSeq(ev, b, due)) = (IF b <= due THEN due - b + 1 ELSE 0)
        /\ \A i \in 1 .. (due - b + 1) : SubSeq(ev, b, due)[i] = ev[b + i - 1]
    BY <2>2, <2>3, SubSeqProperties
  <2>5. (IF b <= due THEN due - b + 1 ELSE 0) = n /\ due - b + 1 = n
    BY <1>0, <2>1
  <2>6. \A i \in 1 .. n : b + i - 1 = a + i
    BY <1>0, <2>1
  <2> QED
    BY <2>3, <2>4, <2>5, <2>6
<1> HIDE DEF q, a
<1>2. \A k \in 0 .. n : W(k) \in Wealth
  <2>1. instant \in Nat \ {0}
    BY DEF PerformanceTyped
  <2>2. \A j \in 1 .. Len(ev) : ev[j].at \in 0 .. (instant - 1)
    BY <2>1 DEF Replays
  <2>3. H[0] \in Wealth
    BY <2>1
  <2> SUFFICES ASSUME NEW k \in 0 .. n PROVE W(k) \in Wealth
    OBVIOUS
  <2>4. a + k = 0 \/ a + k \in 1 .. Len(ev)
    BY <1>0
  <2> QED
    BY <2>2, <2>3, <2>4 DEF AfterDue
<1>3. \A k \in 1 .. n : Became(W(k - 1), q[k], W(k)) /\ q[k] \in EventRows
  <2> SUFFICES ASSUME NEW k \in 1 .. n PROVE Became(W(k - 1), q[k], W(k)) /\ q[k] \in EventRows
    OBVIOUS
  <2>1. a + k \in 1 .. Len(ev) /\ a + (k - 1) = (a + k) - 1
    BY <1>0
  <2>2. Became(AfterDue(ev, H, (a + k) - 1), ev[a + k], AfterDue(ev, H, a + k))
    BY <2>1, EventTold
  <2>3. q[k] = ev[a + k] /\ ev[a + k] \in EventRows
    BY <1>0, <1>1, <2>1
  <2>4. W(k - 1) = AfterDue(ev, H, (a + k) - 1)
    BY <2>1
  <2> QED
    BY <2>2, <2>3, <2>4
<1>4. PICK F : /\ F \in [0 .. n -> ReplayStates] /\ F[0] = s
               /\ \A k \in 1 .. n : F[k] = Apply(F[k - 1], q[k])
               /\ F[n] = FoldLeft(Apply, s, q)
  <2>1. PICK F : /\ F \in [0 .. Len(q) -> ReplayStates] /\ F[0] = s
                 /\ \A k \in 1 .. Len(q) : F[k] = Apply(F[k - 1], q[k])
                 /\ F[Len(q)] = FoldLeft(Apply, s, q)
    BY <1>1, AppliedInTurn
  <2> HIDE DEF n
  <2> QED
    BY <1>1, <2>1
<1> DEFINE P == {k \in Nat : k <= n => Matches(F[k], s, W(k), W(0))}
<1>5. 0 \in P
  <2>1. W(0) \in Wealth /\ a + 0 = a
    BY <1>0, <1>2
  <2>2. s.flow + (W(0).flow - W(0).flow) = s.flow
    BY <2>1 DEF Wealth, ReplayStates
  <2>3. s.cash = W(0).cash /\ s.shares = W(0).shares
    BY <2>1 DEF a
  <2> HIDE DEF W
  <2>4. SameOtherwise(s, s)
    BY DEF SameOtherwise
  <2> QED
    BY <1>4, <2>2, <2>3, <2>4 DEF Matches
<1>6. ASSUME NEW k \in P
      PROVE  k + 1 \in P
  <2> SUFFICES ASSUME k + 1 <= n
               PROVE  Matches(F[k + 1], s, W(k + 1), W(0))
    OBVIOUS
  <2>1. k \in Nat /\ k \in 0 .. n /\ k + 1 \in 0 .. n /\ k + 1 \in 1 .. n /\ (k + 1) - 1 = k /\ 0 \in 0 .. n
    BY <1>0
  <2> DEFINE e == q[k + 1]
             r == F[k]
             u == F[k + 1]
             V == W(k)
             X == W(k + 1)
  <2>2. u = Apply(r, e)
    BY <1>4, <2>1
  <2>3. Matches(r, s, V, W(0)) /\ V \in Wealth /\ X \in Wealth /\ W(0) \in Wealth
    BY <1>2, <2>1
  <2>4. Became(V, e, X) /\ e \in EventRows
    BY <1>3, <2>1
  <2> DEFINE O == W(0)
  <2>5. Matches(r, s, V, O) /\ O \in Wealth
    BY <2>3
  <2> HIDE DEF e, r, u, V, X, W, P, O
  <2>6. /\ u \in ReplayStates /\ u.cash = r.cash + e.cash /\ u.flow = r.flow + e.flow
        /\ \A t \in Stocks : u.shares[t] = IF t = e.ticker THEN AtLeastZero(r.shares[t] + e.shares)
                                           ELSE r.shares[t]
        /\ SameOtherwise(u, r)
    <3>1. r \in ReplayStates
      BY <2>5 DEF Matches
    <3> QED
      BY <2>2, <2>4, <3>1, AppliedIs
  <2>7. u.cash = X.cash
    BY <2>4, <2>5, <2>6 DEF Became, Matches
  <2>8. u.flow = s.flow + (X.flow - O.flow)
    <3>1. s.flow \in Int /\ V.flow \in Int /\ O.flow \in Int /\ e.flow \in Int
      BY <2>3, <2>4, <2>5 DEF Wealth, EventRows, ReplayStates
    <3>2. r.flow = s.flow + (V.flow - O.flow) /\ X.flow = V.flow + e.flow /\ u.flow = r.flow + e.flow
      BY <2>4, <2>5, <2>6 DEF Became, Matches
    <3> QED
      BY <3>1, <3>2
  <2>9. u.shares = X.shares
    <3>1. \A t \in Stocks : u.shares[t] = X.shares[t]
      <4> SUFFICES ASSUME NEW t \in Stocks PROVE u.shares[t] = X.shares[t]
        OBVIOUS
      <4>1. V.shares[t] \in Nat /\ X.shares[t] \in Nat /\ e.shares \in Int /\ r.shares = V.shares
        BY <2>3, <2>4, <2>5 DEF Wealth, EventRows, Matches
      <4>2. X.shares[t] = V.shares[t] + (IF t = e.ticker THEN e.shares ELSE 0)
        BY <2>4 DEF Became
      <4>3. u.shares[t] = IF t = e.ticker THEN AtLeastZero(r.shares[t] + e.shares) ELSE r.shares[t]
        BY <2>6
      <4> QED
        BY <4>1, <4>2, <4>3 DEF AtLeastZero
    <3>2. u.shares \in [Stocks -> Int] /\ X.shares \in [Stocks -> Nat]
      BY <2>3, <2>6 DEF ReplayStates, Wealth
    <3> QED
      BY <3>1, <3>2
  <2>10. SameOtherwise(u, s)
    BY <2>5, <2>6 DEF Matches, SameOtherwise
  <2>11. Matches(u, s, X, O)
    BY <2>6, <2>7, <2>8, <2>9, <2>10 DEF Matches
  <2> QED
    BY <2>11 DEF u, X, O
<1>7. P = Nat
  <2> HIDE DEF P
  <2>1. P \in SUBSET Nat
    BY DEF P
  <2> QED
    BY <1>5, <1>6, <2>1, Counting
<1>8. Matches(F[n], s, W(n), W(0))
  BY <1>0, <1>7
<1>9. W(n) = AfterDue(ev, H, due) /\ W(0) = AfterDue(ev, H, a)
  BY <1>0
<1> HIDE DEF W
<1> QED
  BY <1>4, <1>8, <1>9 DEF q, a

(* The price of a ticker at a point of the trail: that of the point, once    *)
(* its cached prices have begun.                                             *)
Begun(t, k) == Len(trail) - Len(series[t]) < k

(* PriceAtOrBefore finds the price of that point.                            *)
LEMMA PriceIs ==
  ASSUME PerformanceTyped, NEW H, NEW C, PricedAs(H, C), NEW t \in Stocks, NEW k \in 1 .. Len(trail)
  PROVE  /\ C[k][t] \in Nat \ {0} /\ Len(series[t]) \in 0 .. Len(trail) /\ Len(trail) \in Nat
         /\ PriceAtOrBefore(t, trail[k].at) = IF Begun(t, k) THEN C[k][t] ELSE Unpriced
<1> DEFINE N == Len(trail)
           L == Len(series[t])
           known == {n \in DOMAIN series[t] : series[t][n].at <= trail[k].at}
           m == k - (N - L)
<1>0. QuotedAs(t, C)
  BY DEF PricedAs
<1>1. N \in Nat /\ L \in Nat /\ DOMAIN series[t] = 1 .. L /\ L <= N /\ k \in Nat /\ 1 <= k /\ k <= N
  <2>1. N \in Nat /\ L \in Nat /\ DOMAIN series[t] = 1 .. L
    BY LenProperties DEF PerformanceTyped
  <2> QED
    BY <1>0, <2>1 DEF QuotedAs
<1>2. C[k][t] \in Nat \ {0}
  <2>1. k \in 1 .. (N + 1) /\ C \in [1 .. (N + 1) -> [Stocks -> Nat \ {0}]]
    BY <1>1 DEF PricedAs
  <2> QED
    BY <2>1
<1>3. \A n \in 1 .. L : /\ (N - L) + n \in 1 .. N
                        /\ series[t][n].at = trail[(N - L) + n].at /\ series[t][n].close = C[(N - L) + n][t]
  <2>1. \A n \in 1 .. L : series[t][n].at = trail[(N - L) + n].at /\ series[t][n].close = C[(N - L) + n][t]
    BY <1>0 DEF QuotedAs
  <2> HIDE DEF L, N
  <2>2. \A n \in 1 .. L : (N - L) + n \in 1 .. N
    BY <1>1
  <2> QED
    BY <2>1, <2>2
<1>4. \A i \in 1 .. N : trail[i].at \in Nat
  BY DEF PricedAs
<1>5. \A i \in 1 .. N : trail[i].at <= trail[k].at <=> i <= k
  <2> SUFFICES ASSUME NEW i \in 1 .. N PROVE trail[i].at <= trail[k].at <=> i <= k
    OBVIOUS
  <2>1. (i < k => trail[i].at < trail[k].at) /\ (k < i => trail[k].at < trail[i].at)
    BY DEF PricedAs
  <2>2. i < k \/ i = k \/ k < i
    BY <1>1
  <2>3. trail[i].at \in Nat /\ trail[k].at \in Nat
    BY <1>4
  <2> QED
    BY <2>1, <2>2, <2>3
<1>6. \A n \in 1 .. L : n \in known <=> (N - L) + n <= k
  BY <1>1, <1>3, <1>5
<1>7. CASE Begun(t, k)
  <2>1. m \in 1 .. L /\ (N - L) + m = k /\ m \in Nat
    <3>1. N - L < k
      BY <1>7 DEF Begun
    <3> HIDE DEF N, L
    <3> QED
      BY <1>1, <3>1
  <2>2. m \in known
    <3> HIDE DEF m, known, L, N
    <3>1. (N - L) + m <= k
      BY <1>1, <2>1
    <3> QED
      BY <1>6, <2>1, <3>1
  <2>3. \A n \in known : n \in 1 .. L /\ n <= m
    <3> SUFFICES ASSUME NEW n \in known PROVE n \in 1 .. L /\ n <= m
      OBVIOUS
    <3>1. n \in 1 .. L
      BY <1>1
    <3>2. (N - L) + n <= k
      BY <1>6, <3>1
    <3> QED
      BY <1>1, <3>1, <3>2
  <2> HIDE DEF m, known
  <2>4. (CHOOSE n \in known : \A i \in known : i <= n) = m
    <3>1. \A n \in known : (\A i \in known : i <= n) => n = m
      <4> SUFFICES ASSUME NEW n \in known, \A i \in known : i <= n PROVE n = m
        OBVIOUS
      <4>1. m <= n /\ n <= m /\ n \in Nat /\ m \in Nat
        BY <1>1, <2>1, <2>2, <2>3
      <4> QED
        BY <4>1
    <3>2. \A i \in known : i <= m
      BY <2>3
    <3> QED
      BY <2>2, <3>1, <3>2
  <2>5. PriceAtOrBefore(t, trail[k].at) = series[t][m].close
    BY <2>2, <2>4 DEF PriceAtOrBefore, known
  <2>6. series[t][m].close = C[k][t]
    <3>1. series[t][m].close = C[(N - L) + m][t]
      BY <1>3, <2>1
    <3> QED
      BY <2>1, <3>1
  <2>7. L \in 0 .. N
    BY <1>1
  <2> QED
    BY <1>1, <1>2, <1>7, <2>5, <2>6, <2>7
<1>8. CASE ~Begun(t, k)
  <2>1. known = {}
    <3> SUFFICES ASSUME NEW n \in known PROVE FALSE
      OBVIOUS
    <3>1. n \in 1 .. L
      BY <1>1
    <3>2. (N - L) + n <= k
      BY <1>6, <3>1
    <3>3. ~(N - L < k)
      BY <1>8 DEF Begun
    <3> HIDE DEF N, L
    <3> QED
      BY <1>1, <3>1, <3>2, <3>3
  <2>2. PriceAtOrBefore(t, trail[k].at) = Unpriced
    BY <2>1 DEF PriceAtOrBefore
  <2> QED
    BY <1>1, <1>2, <1>8, <2>2
<1> QED
  BY <1>7, <1>8

(* What was owned at a point is valued at its worth then, when the replay    *)
(* has a price of every share; and at nothing only when there was nothing.   *)
LEMMA PointValued ==
  ASSUME PerformanceTyped, NEW H \in [0 .. (instant - 1) -> Wealth], NEW C, PricedAs(H, C),
         NEW k \in 1 .. Len(trail)
  PROVE  LET at == trail[k].at
             W == H[trail[k].at]
         IN  /\ W \in Wealth /\ trail[k].worth \in Nat
             /\ ({t \in Stocks : W.shares[t] > 0} = {} /\ W.cash <= 0) => trail[k].worth = 0
             /\ ~({t \in Stocks : W.shares[t] > 0} = {} /\ W.cash <= 0) => trail[k].worth > 0
             /\ (\A t \in Stocks : W.shares[t] > 0 => PriceAtOrBefore(t, at) # Unpriced) =>
                  W.cash + Value(W.shares, at) = trail[k].worth
<1> DEFINE at == trail[k].at
           W == H[at]
           v == [t \in Stocks |-> W.shares[t] * C[k][t]]
           u == [t \in Stocks |-> W.shares[t] * PriceAtOrBefore(t, at)]
           none == [t \in Stocks |-> 0]
<1>1. W \in Wealth
  <2>1. trail[k].at \in 0 .. (instant - 1)
    <3>1. instant \in Nat \ {0} /\ trail[k].at \in 1 .. (instant - 1)
      BY DEF PerformanceTyped, PricedAs
    <3> QED
      BY <3>1
  <2> QED
    BY <2>1
<1>2. W.cash \in Nat /\ W.shares \in [Stocks -> Nat]
  BY <1>1 DEF Wealth
<1>3. trail[k].worth = W.cash + Total(v)
  BY DEF PricedAs, Follows, WorthOf
<1>4. \A t \in Stocks : C[k][t] \in Nat \ {0}
  BY PriceIs
<1> HIDE DEF W
<1>5. \A t \in Stocks : v[t] \in Nat /\ (v[t] = 0 <=> W.shares[t] = 0)
  <2> SUFFICES ASSUME NEW t \in Stocks PROVE v[t] \in Nat /\ (v[t] = 0 <=> W.shares[t] = 0)
    OBVIOUS
  <2> DEFINE a == W.shares[t]
             b == C[k][t]
  <2>1. a \in Nat /\ b \in Nat \ {0} /\ v[t] = a * b
    BY <1>2, <1>4
  <2> HIDE DEF a, b, v
  <2>2. a * b \in Nat /\ (a * b = 0 <=> a = 0)
    <3>1. a = 0 => a * b = 0
      BY <2>1
    <3>2. a >= 1 => a * b >= 1
      BY <2>1
    <3>3. a * b \in Nat
      BY <2>1
    <3> QED
      BY <2>1, <3>1, <3>2, <3>3
  <2> QED
    BY <2>1, <2>2 DEF a
<1>6. IsFiniteSet(Stocks) /\ DOMAIN v = Stocks /\ Numbers(v, Stocks)
  BY <1>5, MarketAndRequests DEF Numbers
<1>7. (\A t \in Stocks : W.shares[t] > 0 => PriceAtOrBefore(t, at) # Unpriced) => Value(W.shares, at) = Total(v)
  <2> SUFFICES ASSUME \A t \in Stocks : W.shares[t] > 0 => PriceAtOrBefore(t, at) # Unpriced
               PROVE  Value(W.shares, at) = Total(v)
    OBVIOUS
  <2>1. \A t \in Stocks : u[t] = v[t]
    <3> SUFFICES ASSUME NEW t \in Stocks
                 PROVE  W.shares[t] * PriceAtOrBefore(t, at) = W.shares[t] * C[k][t]
      OBVIOUS
    <3>1. W.shares[t] = 0 \/ W.shares[t] > 0
      BY <1>2
    <3>2. PriceAtOrBefore(t, at) = C[k][t] \/ PriceAtOrBefore(t, at) = Unpriced
      BY PriceIs
    <3>3. C[k][t] \in Int
      BY <1>4
    <3>4. CASE W.shares[t] = 0
      BY <3>2, <3>3, <3>4 DEF Unpriced
    <3>5. CASE W.shares[t] > 0
      BY <3>2, <3>5
    <3> QED
      BY <3>1, <3>4, <3>5
  <2>2. u = v
    BY <2>1
  <2> QED
    BY <2>2 DEF Value
<1> HIDE DEF v
<1>8. Total(v) = SumIn(v, Stocks) /\ SumIn(v, Stocks) \in Nat
  BY <1>5, <1>6, TotalIs, TotalNat
<1>9. (\A t \in Stocks : W.shares[t] = 0) => Total(v) = 0
  BY <1>5, <1>6, <1>8, TotalZero
<1>10. (\E t \in Stocks : W.shares[t] > 0) => Total(v) > 0
  <2> SUFFICES ASSUME NEW x \in Stocks, W.shares[x] > 0 PROVE Total(v) > 0
    OBVIOUS
  <2>1. v[x] > 0 /\ W.shares[x] \in Nat
    BY <1>2, <1>5
  <2>2. Numbers(none, Stocks) /\ \A t \in Stocks : none[t] = 0
    BY DEF Numbers
  <2> HIDE DEF none
  <2>3. SumIn(none, Stocks) = 0
    BY <1>6, <2>2, TotalZero
  <2>4. (\A t \in Stocks : none[t] <= v[t]) /\ none[x] < v[x]
    BY <1>5, <2>1, <2>2
  <2>5. SumIn(none, Stocks) < SumIn(v, Stocks)
    BY <1>6, <2>2, <2>4, SumBelow
  <2> QED
    BY <1>8, <2>3, <2>5
<1>11. {t \in Stocks : W.shares[t] > 0} = {} <=> \A t \in Stocks : W.shares[t] = 0
  <2>1. \A t \in Stocks : W.shares[t] = 0 \/ W.shares[t] > 0
    BY <1>2
  <2>2. \A t \in Stocks : W.shares[t] = 0 => ~(W.shares[t] > 0)
    BY <1>2
  <2> QED
    BY <2>1, <2>2
<1>12. trail[k].worth \in Nat
  BY <1>2, <1>3, <1>8
<1>13. ({t \in Stocks : W.shares[t] > 0} = {} /\ W.cash <= 0) => trail[k].worth = 0
  BY <1>2, <1>3, <1>9, <1>11
<1>14. ~({t \in Stocks : W.shares[t] > 0} = {} /\ W.cash <= 0) => trail[k].worth > 0
  BY <1>2, <1>3, <1>8, <1>10, <1>11
<1> QED
  BY <1>1, <1>3, <1>7, <1>12, <1>13, <1>14 DEF W

(* The replay is where the ledger was at instant T.                          *)
ReplayedTo(s, ev, H, T) ==
  s \in ReplayStates /\ s.done = DueBy(ev, T) /\ s.cash = H[T].cash /\ s.shares = H[T].shares
(* The point of the index at point k of the trail.                           *)
PointOf(s, k, flow) ==
  [at |-> trail[k].at, worth |-> trail[k].worth,
   growth |-> IF s.points = <<>> \/ s.previous <= 0 THEN <<1, 1>>
              ELSE <<AtLeastZero(trail[k].worth - flow), s.previous>>]
(* Nothing is owned at point k, and flows are carried on; or the point is    *)
(* added.                                                                    *)
NothingOwned(r, s, k, flow) ==
  /\ trail[k].worth = 0 /\ r.flow = flow
  /\ r.points = s.points /\ r.previous = s.previous /\ r.skipped = s.skipped
PointAdded(r, s, k, flow) ==
  /\ trail[k].worth > 0 /\ r.flow = 0 /\ r.previous = trail[k].worth /\ r.skipped = s.skipped
  /\ r.points = Append(s.points, PointOf(s, k, flow))

(* What a point adds to the replay.                                          *)
LEMMA AddPointIs ==
  ASSUME NEW s \in ReplayStates, NEW equity \in Int, NEW at \in Int
  PROVE  LET r == AddPoint(s, equity, at)
             point == [at |-> at, worth |-> equity, growth |-> Growth(s, equity)]
         IN  /\ r \in ReplayStates /\ r.flow = 0 /\ r.previous = equity /\ r.cash = s.cash
             /\ r.shares = s.shares /\ r.skipped = s.skipped /\ r.done = s.done
             /\ r.points = Append(s.points, point)
<1> DEFINE point == [at |-> at, worth |-> equity, growth |-> Growth(s, equity)]
           r == AddPoint(s, equity, at)
           p == [s EXCEPT !.previous = equity]
           q == [p EXCEPT !.flow = 0]
           u == [q EXCEPT !.points = Append(s.points, point)]
<1>1. r = u
  <2>1. r = [s EXCEPT !.previous = equity, !.flow = 0, !.points = Append(s.points, point)]
    BY DEF AddPoint
  <2> DEFINE v == [s EXCEPT !.previous = equity, !.flow = 0]
             x == Append(s.points, point)
  <2>2. s \in ReplayStates /\ DOMAIN s = {"cash", "shares", "flow", "previous", "points", "skipped", "done"}
    BY DEF ReplayStates
  <2> HIDE DEF x, point, r
  <2>3. v = q
    BY <2>2
  <2>4. [s EXCEPT !.previous = equity, !.flow = 0, !.points = x] = [v EXCEPT !.points = x]
    BY <2>2
  <2> HIDE DEF v, q
  <2> QED
    BY <2>1, <2>3, <2>4 DEF x
<1>2. point \in PointRows
  <2>1. s.flow \in Int /\ s.previous \in Int
    BY DEF ReplayStates
  <2>2. Growth(s, equity) \in Int \X Int
    BY <2>1 DEF Growth, AtLeastZero
  <2> QED
    BY <2>2 DEF PointRows
<1> HIDE DEF point, r
<1>3. Append(s.points, point) \in Seq(PointRows)
  <2>1. s.points \in Seq(PointRows)
    BY DEF ReplayStates
  <2> QED
    BY <1>2, <2>1
<1>4. /\ p \in ReplayStates /\ p.previous = equity /\ p.cash = s.cash /\ p.shares = s.shares
      /\ p.points = s.points /\ p.skipped = s.skipped /\ p.done = s.done
  BY PreviousSet
<1> HIDE DEF p
<1>5. /\ q \in ReplayStates /\ q.flow = 0 /\ q.previous = p.previous /\ q.cash = p.cash /\ q.shares = p.shares
      /\ q.skipped = p.skipped /\ q.done = p.done
  BY <1>4, FlowSet DEF SameOtherwise
<1> HIDE DEF q
<1>6. /\ u \in ReplayStates /\ u.flow = q.flow /\ u.previous = q.previous /\ u.cash = q.cash
      /\ u.shares = q.shares /\ u.skipped = q.skipped /\ u.done = q.done
      /\ u.points = Append(s.points, point)
  BY <1>3, <1>5, PointsSet
<1> HIDE DEF u
<1> QED
  BY <1>1, <1>4, <1>5, <1>6 DEF r, point

(* A point is added for what was owned, unless nothing was or a price is     *)
(* wanting.                                                                  *)
LEMMA PointReached ==
  ASSUME PerformanceTyped, NEW H \in [0 .. (instant - 1) -> Wealth], NEW C, PricedAs(H, C),
         NEW ev, Replays(ev, H), NEW k \in 1 .. Len(trail), NEW T \in 0 .. (instant - 1), T < trail[k].at,
         NEW s, ReplayedTo(s, ev, H, T)
  PROVE  LET at == trail[k].at
             r == AtPoint(s, ev, at)
             flow == s.flow + (H[at].flow - H[T].flow)
         IN  /\ ReplayedTo(r, ev, H, at)
             /\ r.skipped \/ NothingOwned(r, s, k, flow) \/ PointAdded(r, s, k, flow)
             /\ s.skipped => r.skipped
<1> DEFINE at == trail[k].at
           due == DueBy(ev, at)
           fold == FoldLeft(Apply, s, SubSeq(ev, s.done + 1, due))
           then == [fold EXCEPT !.done = due]
           active == {t \in Stocks : then.shares[t] > 0}
           equity == then.cash + Value(then.shares, at)
           flow == s.flow + (H[at].flow - H[T].flow)
           r == AtPoint(s, ev, at)
           W == H[at]
<1>1. at \in 1 .. (instant - 1) /\ at \in Nat /\ at \in 0 .. (instant - 1) /\ T \in Nat /\ T < at
  <2>1. instant \in Nat \ {0} /\ at \in 1 .. (instant - 1)
    BY DEF PerformanceTyped, PricedAs
  <2> HIDE DEF at
  <2>2. T < at
    BY DEF at
  <2> QED
    BY <2>1, <2>2
<1>2. r = IF active = {} /\ then.cash <= 0 THEN then
          ELSE IF \E t \in active : PriceAtOrBefore(t, at) = Unpriced THEN [then EXCEPT !.skipped = TRUE]
          ELSE AddPoint(then, equity, at)
  BY DEF AtPoint, DueBy
<1>3. H[T] = AfterDue(ev, H, DueBy(ev, T)) /\ W = AfterDue(ev, H, due)
  BY <1>1, ToldAfterDue
<1> HIDE DEF r, at
<1>4. due \in 0 .. Len(ev) /\ DueBy(ev, T) \in 0 .. Len(ev) /\ Len(ev) \in Nat
      /\ \A n \in 1 .. Len(ev) : (ev[n].at <= T <=> n <= DueBy(ev, T)) /\ (ev[n].at <= at <=> n <= due)
  BY <1>1, DueIs
<1>5. DueBy(ev, T) <= due
  <2> DEFINE d == DueBy(ev, T)
  <2> SUFFICES ASSUME d > due PROVE FALSE
    BY <1>4
  <2> HIDE DEF d, due
  <2>1. d \in 1 .. Len(ev) /\ d <= d /\ ~(d <= due)
    BY <1>4 DEF d, due
  <2>2. ev[d].at <= T /\ ~(ev[d].at <= at)
    BY <1>4, <2>1 DEF d, due
  <2>3. ev[d].at \in Nat
    BY <2>1 DEF Replays
  <2> QED
    BY <1>1, <2>2, <2>3
<1>6. Matches(fold, s, W, H[T])
  <2>1. due \in s.done .. Len(ev)
    BY <1>4, <1>5 DEF ReplayedTo
  <2>2. s \in ReplayStates /\ s.cash = AfterDue(ev, H, s.done).cash /\ s.shares = AfterDue(ev, H, s.done).shares
    BY <1>3 DEF ReplayedTo
  <2> HIDE DEF due, W
  <2>3. Matches(fold, s, AfterDue(ev, H, due), AfterDue(ev, H, s.done))
    BY <2>1, <2>2, DueReplayed
  <2> QED
    BY <1>3, <2>3 DEF ReplayedTo
<1>7. due \in Nat
  BY <1>4
<1> HIDE DEF fold, due
<1>8. /\ then \in ReplayStates /\ then.done = due /\ then.cash = W.cash /\ then.shares = W.shares
      /\ then.flow = flow /\ then.previous = s.previous /\ then.points = s.points /\ then.skipped = s.skipped
  BY <1>6, <1>7, DoneSet DEF Matches, SameOtherwise
<1>9. s \in ReplayStates
  BY DEF ReplayedTo
<1> HIDE DEF then, flow
<1>10. /\ W \in Wealth /\ trail[k].worth \in Nat
       /\ (active = {} /\ then.cash <= 0) => trail[k].worth = 0
       /\ ~(active = {} /\ then.cash <= 0) => trail[k].worth > 0
       /\ ~(\E t \in active : PriceAtOrBefore(t, at) = Unpriced) => equity = trail[k].worth
  <2>1. active = {t \in Stocks : W.shares[t] > 0} /\ then.cash = W.cash /\ equity = W.cash + Value(W.shares, at)
    BY <1>8
  <2>2. /\ W \in Wealth /\ trail[k].worth \in Nat
        /\ ({t \in Stocks : W.shares[t] > 0} = {} /\ W.cash <= 0) => trail[k].worth = 0
        /\ ~({t \in Stocks : W.shares[t] > 0} = {} /\ W.cash <= 0) => trail[k].worth > 0
        /\ (\A t \in Stocks : W.shares[t] > 0 => PriceAtOrBefore(t, at) # Unpriced) =>
             W.cash + Value(W.shares, at) = trail[k].worth
    BY PointValued DEF at
  <2> HIDE DEF equity, W
  <2>3. \A t \in Stocks : W.shares[t] > 0 => t \in active
    BY <2>1
  <2> HIDE DEF active
  <2> QED
    BY <2>1, <2>2, <2>3
<1> HIDE DEF active, equity, W
<1>11. CASE active = {} /\ then.cash <= 0
  <2>1. r = then
    BY <1>2, <1>11
  <2>2. ReplayedTo(r, ev, H, at)
    BY <1>8, <2>1 DEF ReplayedTo, due, W
  <2>3. NothingOwned(r, s, k, flow)
    BY <1>8, <1>10, <1>11, <2>1 DEF NothingOwned
  <2>4. r.skipped = s.skipped
    BY <1>8, <2>1
  <2> QED
    BY <2>2, <2>3, <2>4 DEF r, at, flow
<1>12. CASE ~(active = {} /\ then.cash <= 0) /\ \E t \in active : PriceAtOrBefore(t, at) = Unpriced
  <2>1. r = [then EXCEPT !.skipped = TRUE]
    BY <1>2, <1>12
  <2>2. /\ r \in ReplayStates /\ r.skipped = TRUE /\ r.done = then.done /\ r.cash = then.cash
        /\ r.shares = then.shares
    BY <1>8, <2>1, SkippedSet
  <2>3. ReplayedTo(r, ev, H, at)
    BY <1>8, <2>2 DEF ReplayedTo, due, W
  <2> QED
    BY <2>2, <2>3 DEF r, at
<1>13. CASE ~(active = {} /\ then.cash <= 0) /\ ~\E t \in active : PriceAtOrBefore(t, at) = Unpriced
  <2> DEFINE point == [at |-> at, worth |-> equity, growth |-> Growth(then, equity)]
  <2>1. equity = trail[k].worth /\ trail[k].worth > 0 /\ equity \in Int
    BY <1>10, <1>13
  <2>2. r = AddPoint(then, equity, at)
    BY <1>2, <1>13
  <2>3. /\ r \in ReplayStates /\ r.flow = 0 /\ r.previous = equity /\ r.cash = then.cash
        /\ r.shares = then.shares /\ r.skipped = then.skipped /\ r.done = then.done
        /\ r.points = Append(then.points, point)
    <3>1. at \in Int
      BY <1>1
    <3> HIDE DEF point
    <3>2. point = [at |-> at, worth |-> equity, growth |-> Growth(then, equity)]
      BY DEF point
    <3> QED
      BY <1>8, <2>1, <2>2, <3>1, <3>2, AddPointIs
  <2>4. point = PointOf(s, k, flow)
    <3>1. Growth(then, equity) = IF s.points = <<>> \/ s.previous <= 0 THEN <<1, 1>>
                                 ELSE <<AtLeastZero(trail[k].worth - flow), s.previous>>
      BY <1>8, <2>1 DEF Growth
    <3> QED
      BY <2>1, <3>1 DEF PointOf, at
  <2> HIDE DEF point
  <2>5. ReplayedTo(r, ev, H, at)
    BY <1>8, <2>3 DEF ReplayedTo, due, W
  <2>6. PointAdded(r, s, k, flow)
    BY <1>8, <2>1, <2>3, <2>4 DEF PointAdded
  <2>7. r.skipped = s.skipped
    BY <1>8, <2>3
  <2> QED
    BY <2>5, <2>6, <2>7 DEF r, at, flow
<1> QED
  BY <1>11, <1>12, <1>13

(* A point leaves a state of the replay.                                     *)
LEMMA AtPointTyped ==
  ASSUME PerformanceTyped, NEW H, NEW C, PricedAs(H, C), NEW ev, Replays(ev, H),
         NEW k \in 1 .. Len(trail), NEW s \in ReplayStates
  PROVE  AtPoint(s, ev, trail[k].at) \in ReplayStates
<1> DEFINE at == trail[k].at
           due == DueBy(ev, at)
           q == SubSeq(ev, s.done + 1, due)
           fold == FoldLeft(Apply, s, q)
           then == [fold EXCEPT !.done = due]
           active == {t \in Stocks : then.shares[t] > 0}
           equity == then.cash + Value(then.shares, at)
           prices == [t \in Stocks |-> PriceAtOrBefore(t, at)]
           r == AtPoint(s, ev, at)
<1>1. at \in Nat /\ at \in Int
  BY DEF PricedAs
<1>2. r \in {then, [then EXCEPT !.skipped = TRUE], AddPoint(then, equity, at)}
  BY DEF AtPoint, DueBy
<1>3. prices \in [Stocks -> Int]
  <2>1. \A t \in Stocks : PriceAtOrBefore(t, at) \in Int
    <3> SUFFICES ASSUME NEW t \in Stocks PROVE PriceAtOrBefore(t, at) \in Int
      OBVIOUS
    <3>1. /\ C[k][t] \in Nat \ {0}
          /\ PriceAtOrBefore(t, trail[k].at) = IF Begun(t, k) THEN C[k][t] ELSE Unpriced
      BY PriceIs
    <3> QED
      BY <3>1 DEF Unpriced
  <2> QED
    BY <2>1
<1> HIDE DEF r, at
<1>4. due \in 0 .. Len(ev) /\ Len(ev) \in Nat /\ due \in Int /\ due \in Nat
  BY <1>1, DueIs
<1> HIDE DEF due
<1>5. q \in Seq(EventRows)
  <2>1. s.done \in Nat
    BY DEF ReplayStates
  <2>2. PICK b \in Int : b = s.done + 1
    BY <2>1
  <2>3. ev \in Seq(EventRows)
    BY DEF Replays
  <2>4. \A i \in b .. due : ev[i] \in EventRows
    <3>1. \A i \in b .. due : i \in 1 .. Len(ev)
      BY <1>4, <2>1, <2>2
    <3> QED
      BY <2>3, <3>1
  <2>5. SubSeq(ev, b, due) \in Seq(EventRows)
    BY <1>4, <2>4, SubSeqProperties
  <2> QED
    BY <2>2, <2>5
<1> HIDE DEF q
<1>6. fold \in ReplayStates
  <2>1. PICK F : Len(q) \in Nat /\ F \in [0 .. Len(q) -> ReplayStates] /\ F[Len(q)] = fold
    BY <1>5, AppliedInTurn
  <2> QED
    BY <2>1
<1> HIDE DEF fold
<1>7. then \in ReplayStates
  BY <1>4, <1>6, DoneSet
<1> HIDE DEF then
<1>8. equity \in Int
  <2>1. then.cash \in Int /\ then.shares \in [Stocks -> Int]
    BY <1>7 DEF ReplayStates
  <2>2. Total([t \in Stocks |-> then.shares[t] * prices[t]]) \in Int
    <3> HIDE DEF prices
    <3> QED
      BY <1>3, <2>1, WorthTyped
  <2>3. Value(then.shares, at) = Total([t \in Stocks |-> then.shares[t] * prices[t]])
    BY DEF Value
  <2> HIDE DEF prices
  <2> QED
    BY <2>1, <2>2, <2>3
<1> HIDE DEF equity
<1>9. [then EXCEPT !.skipped = TRUE] \in ReplayStates
  BY <1>7, SkippedSet
<1>10. AddPoint(then, equity, at) \in ReplayStates
  BY <1>1, <1>7, <1>8, AddPointIs
<1> QED
  BY <1>2, <1>7, <1>9, <1>10 DEF r, at

(* Numbers are listed in order in one way.                                   *)
Increasing(o, n) ==
  n \in Nat /\ (\A j \in 1 .. n : o[j] \in Int) /\ \A i, j \in 1 .. n : i < j => o[i] < o[j]
Among(o, n, g, m) == \A j \in 1 .. n : \E i \in 1 .. m : o[j] = g[i]

(* Two increasing lists of the same numbers are one.                         *)
LEMMA ListedInOneWay ==
  ASSUME NEW n, NEW m, NEW o, NEW g, Increasing(o, n), Increasing(g, m),
         Among(o, n, g, m), Among(g, m, o, n)
  PROVE  n = m /\ \A j \in 1 .. n : o[j] = g[j]
<1> DEFINE P == {k \in Nat : \A j \in 1 .. k : (j <= n => j <= m /\ o[j] = g[j]) /\ (j <= m => j <= n)}
<1>0. n \in Nat /\ m \in Nat
  BY DEF Increasing
<1>1. 0 \in P
  OBVIOUS
<1>2. ASSUME NEW k \in P
      PROVE  k + 1 \in P
  <2> DEFINE x == k + 1
  <2>1. k \in Nat /\ x \in Nat /\ x >= 1 /\ k < x /\ \A i \in Nat : i < x <=> i <= k
    OBVIOUS
  <2>2. \A j \in 1 .. k : (j <= n => j <= m /\ o[j] = g[j]) /\ (j <= m => j <= n)
    OBVIOUS
  <2>3. \A j \in 1 .. x : j \in 1 .. k \/ j = x
    OBVIOUS
  <2>a. P \in SUBSET Nat
    OBVIOUS
  <2> HIDE DEF x, P
  <2>4. ASSUME x <= n
        PROVE  x <= m /\ o[x] = g[x]
    <3>1. PICK i \in 1 .. m : o[x] = g[i]
      BY <1>0, <2>1, <2>4 DEF Among
    <3>2. i >= x
      <4> SUFFICES ASSUME i < x PROVE FALSE
        BY <1>0, <2>1
      <4>0. i \in Nat /\ i >= 1 /\ i <= k
        BY <1>0, <2>1
      <4>1. i \in 1 .. k /\ i <= n /\ i \in 1 .. n /\ x \in 1 .. n
        BY <1>0, <2>1, <2>4, <4>0
      <4>2. o[i] = g[i] /\ o[i] < o[x] /\ o[i] \in Int
        BY <2>2, <4>1 DEF Increasing
      <4> QED
        BY <3>1, <4>2
    <3>3. x <= m /\ x \in 1 .. m /\ x \in 1 .. n
      BY <1>0, <2>1, <2>4, <3>2
    <3>4. PICK j \in 1 .. n : g[x] = o[j]
      BY <3>3 DEF Among
    <3>5. j >= x
      <4> SUFFICES ASSUME j < x PROVE FALSE
        BY <1>0, <2>1
      <4>0. j \in Nat /\ j >= 1 /\ j <= k /\ j <= n
        BY <1>0, <2>1
      <4>1. j \in 1 .. k /\ j \in 1 .. m
        BY <1>0, <2>1, <3>3, <4>0
      <4>2. o[j] = g[j] /\ g[j] < g[x] /\ g[j] \in Int
        BY <2>2, <3>3, <4>0, <4>1 DEF Increasing
      <4> QED
        BY <3>4, <4>2
    <3>6. (x < i => g[x] < g[i]) /\ (x < j => o[x] < o[j]) /\ g[x] \in Int /\ o[x] \in Int
      BY <3>3 DEF Increasing
    <3>7. x = i \/ x < i
      BY <1>0, <2>1, <3>2
    <3>8. x = j \/ x < j
      BY <1>0, <2>1, <3>5
    <3> QED
      BY <3>1, <3>3, <3>4, <3>6, <3>7, <3>8
  <2>5. ASSUME x <= m
        PROVE  x <= n
    <3>1. PICK j \in 1 .. n : g[x] = o[j]
      BY <1>0, <2>1, <2>5 DEF Among
    <3> SUFFICES ASSUME ~(x <= n) PROVE FALSE
      OBVIOUS
    <3>a. j \in Nat /\ j >= 1 /\ j <= n /\ j < x
      BY <1>0, <2>1
    <3>2. j <= k /\ j \in 1 .. k /\ j \in 1 .. m /\ x \in 1 .. m
      BY <1>0, <2>1, <2>5, <3>a
    <3>3. o[j] = g[j] /\ g[j] < g[x] /\ g[j] \in Int
      BY <2>2, <3>2, <3>a DEF Increasing
    <3> QED
      BY <3>1, <3>3
  <2>6. x \in P
    BY <2>1, <2>2, <2>3, <2>4, <2>5 DEF P
  <2> QED
    BY <2>6 DEF x
<1>3. P = Nat
  <2> HIDE DEF P
  <2>1. P \in SUBSET Nat
    BY DEF P
  <2> QED
    BY <1>1, <1>2, <2>1, Counting
<1>4. \A j \in Nat : j >= 1 => (j <= n => j <= m /\ o[j] = g[j]) /\ (j <= m => j <= n)
  <2> SUFFICES ASSUME NEW j \in Nat, j >= 1 PROVE (j <= n => j <= m /\ o[j] = g[j]) /\ (j <= m => j <= n)
    OBVIOUS
  <2>1. j \in P
    <3> HIDE DEF P
    <3> QED
      BY <1>3
  <2>2. j \in 1 .. j
    OBVIOUS
  <2> QED
    BY <2>1, <2>2
<1>5. n <= m
  <2>1. n = 0 \/ n >= 1
    BY <1>0
  <2> QED
    BY <1>0, <1>4, <2>1
<1>6. m <= n
  <2>1. m = 0 \/ m >= 1
    BY <1>0
  <2> QED
    BY <1>0, <1>4, <2>1
<1> QED
  BY <1>0, <1>4, <1>5, <1>6

(* The times of the index are those of the trail, from some point on.        *)
LEMMA TimesAre ==
  ASSUME PerformanceTyped, NEW H, NEW C, PricedAs(H, C), NEW tickers \in SUBSET Stocks
  PROVE  LET dates == PriceTimes(tickers)
             times == InOrder(dates, {p \in dates \X dates : p[1] < p[2]})
         IN  \E a \in 0 .. Len(trail) :
               DOMAIN times = 1 .. (Len(trail) - a) /\ \A j \in 1 .. (Len(trail) - a) : times[j] = trail[a + j].at
<1> DEFINE N == Len(trail)
           dates == PriceTimes(tickers)
           before == {p \in dates \X dates : p[1] < p[2]}
           times == InOrder(dates, before)
           D == {N - Len(series[t]) : t \in tickers} \cup {N}
           key == [x \in dates |-> x]
<1>1. N \in Nat /\ \A t \in Stocks : Len(series[t]) \in 0 .. N /\ DOMAIN series[t] = 1 .. Len(series[t])
  <2>1. N \in Nat /\ \A t \in Stocks : Len(series[t]) \in Nat /\ DOMAIN series[t] = 1 .. Len(series[t])
    BY LenProperties DEF PerformanceTyped
  <2>2. \A t \in Stocks : Len(series[t]) <= N
    BY DEF PricedAs, QuotedAs
  <2> QED
    BY <2>1, <2>2
<1>2. \A k \in 1 .. N : trail[k].at \in Nat
  BY DEF PricedAs
<1>3. \A j, k \in 1 .. N : j < k => trail[j].at < trail[k].at
  BY DEF PricedAs
<1>4. PICK a \in D : \A x \in D : a <= x
  <2>1. D \in SUBSET Nat /\ D # {}
    BY <1>1
  <2> HIDE DEF D
  <2> QED
    BY <2>1, LeastNumber
<1>5. a \in 0 .. N /\ a \in Nat /\ \A t \in tickers : a <= N - Len(series[t])
  BY <1>1, <1>4
<1>a. PICK M \in Nat : M = N - a
  BY <1>1, <1>5
<1> DEFINE g == [j \in 1 .. M |-> trail[a + j].at]
<1>6. ASSUME NEW x \in dates
      PROVE  \E j \in 1 .. M : x = g[j]
  <2>0. PICK t \in tickers : x \in {series[t][n].at : n \in DOMAIN series[t]}
    BY DEF PriceTimes
  <2>1. PICK n \in DOMAIN series[t] : x = series[t][n].at
    BY <2>0
  <2> DEFINE L == Len(series[t])
             j == ((N - L) + n) - a
  <2>2. n \in 1 .. L /\ L \in 0 .. N /\ a <= N - L /\ t \in Stocks
    BY <1>1, <1>5, <2>0, <2>1
  <2>3. x = trail[(N - L) + n].at
    <3>1. QuotedAs(t, C)
      BY <2>2 DEF PricedAs
    <3> QED
      BY <2>1, <2>2, <3>1 DEF QuotedAs
  <2> HIDE DEF L
  <2>4. j \in 1 .. M /\ a + j = (N - L) + n
    BY <1>1, <1>5, <1>a, <2>2
  <2> HIDE DEF j
  <2>5. g[j] = trail[a + j].at
    BY <2>4
  <2> QED
    BY <2>3, <2>4, <2>5
<1>7. ASSUME NEW j \in 1 .. M
      PROVE  g[j] \in dates
  <2>1. a # N
    BY <1>1, <1>5, <1>a
  <2>2. PICK t \in tickers : a = N - Len(series[t])
    BY <1>4, <2>1
  <2> DEFINE L == Len(series[t])
  <2>3. L \in 0 .. N /\ t \in Stocks /\ DOMAIN series[t] = 1 .. L
    BY <1>1, <2>2
  <2>4. a = N - L
    BY <2>2
  <2>5. QuotedAs(t, C)
    BY <2>3 DEF PricedAs
  <2>6. \A n \in 1 .. L : series[t][n].at = trail[(N - L) + n].at
    BY <2>5 DEF QuotedAs
  <2> HIDE DEF L
  <2>7. j \in 1 .. L
    BY <1>1, <1>a, <2>3, <2>4
  <2>8. series[t][j].at = trail[a + j].at
    BY <2>4, <2>6, <2>7
  <2>9. g[j] = series[t][j].at
    BY <2>8
  <2> HIDE DEF g
  <2>10. g[j] \in {series[t][n].at : n \in DOMAIN series[t]}
    BY <2>3, <2>7, <2>9
  <2> QED
    BY <2>2, <2>10 DEF PriceTimes
<1>8. Increasing(g, M)
  <2>1. \A j \in 1 .. M : a + j \in 1 .. N /\ g[j] = trail[a + j].at
    BY <1>1, <1>5, <1>a
  <2>2. \A i, j \in 1 .. M : i < j => a + i < a + j
    BY <1>1, <1>5
  <2> HIDE DEF g
  <2>3. \A j \in 1 .. M : g[j] \in Int
    BY <1>2, <2>1
  <2>4. ASSUME NEW i \in 1 .. M, NEW j \in 1 .. M, i < j
        PROVE  g[i] < g[j]
    <3>1. trail[a + i].at < trail[a + j].at
      BY <1>3, <2>1, <2>2, <2>4
    <3> QED
      BY <2>1, <3>1
  <2> QED
    BY <2>3, <2>4 DEF Increasing
<1>9. IsFiniteSet(dates)
  <2>1. dates = {g[j] : j \in 1 .. M}
    <3> HIDE DEF g, dates
    <3> QED
      BY <1>6, <1>7
  <2>3. IsFiniteSet(1 .. M)
    BY UpToFinite
  <2> HIDE DEF g, dates
  <2> QED
    BY <2>1, <2>3, ImageFinite
<1>10. \A x \in dates : key[x] = x /\ x \in Int
  <2>1. \A j \in 1 .. M : g[j] \in Int
    BY <1>8 DEF Increasing
  <2> HIDE DEF dates, g
  <2> QED
    BY <1>6, <2>1
<1> HIDE DEF dates, g
<1>11. \A x, y \in dates : <<y, x>> \in before <=> key[y] < key[x]
  BY <1>10
<1> HIDE DEF before, key
<1>12. Ordered(times, dates, key)
  BY <1>9, <1>10, <1>11, InOrderIs
<1> HIDE DEF times
<1>13. PICK n \in Nat : DOMAIN times = 1 .. n
  BY <1>12 DEF Ordered
<1>14. \A j \in 1 .. n : times[j] \in dates
  BY <1>12, <1>13 DEF Ordered
<1>15. \A i, j \in 1 .. n : i < j => times[i] < times[j]
  <2> SUFFICES ASSUME NEW i \in 1 .. n, NEW j \in 1 .. n, i < j PROVE times[i] < times[j]
    OBVIOUS
  <2>1. key[times[i]] < key[times[j]]
    BY <1>12, <1>13 DEF Ordered
  <2> QED
    BY <1>10, <1>14, <2>1
<1>16. Increasing(times, n)
  BY <1>10, <1>14, <1>15 DEF Increasing
<1>17. Among(times, n, g, M)
  BY <1>6, <1>14 DEF Among
<1>18. Among(g, M, times, n)
  BY <1>7, <1>12, <1>13 DEF Ordered, Among
<1>19. n = M /\ \A j \in 1 .. n : times[j] = g[j]
  <2> HIDE DEF D, N
  <2> QED
    BY <1>8, <1>16, <1>17, <1>18, ListedInOneWay
<1>20. \A j \in 1 .. M : times[j] = trail[a + j].at
  BY <1>19 DEF g
<1> QED
  BY <1>5, <1>a, <1>13, <1>19, <1>20 DEF times, before, dates

(* The points of the trail are replayed in turn.                             *)
Replayed(ev, base, q) ==
  (CHOOSE k : k = [s \in SUBSET DOMAIN q |-> IF s = {} THEN base ELSE
                     AtPoint(k[s \ {Max(s)}], ev, q[Max(s)])])[DOMAIN q]

(* This is the fold of AtPoint.                                              *)
LEMMA ReplayFolds ==
  ASSUME NEW ev, NEW base, NEW q
  PROVE  FoldLeft(LAMBDA s, at : AtPoint(s, ev, at), base, q) = Replayed(ev, base, q)
  BY DEF FoldLeft, MapThenFoldSet, Replayed
(* q lists times of points of the trail; F are the states of the replay,     *)
(* time after time.                                                          *)
OnTrail(q, n) == DOMAIN q = 1 .. n /\ \A j \in 1 .. n : \E k \in 1 .. Len(trail) : q[j] = trail[k].at
InTurns(F, n, ev, base, q) ==
  /\ F \in [0 .. n -> ReplayStates] /\ F[0] = base
  /\ \A k \in 1 .. n : F[k] = AtPoint(F[k - 1], ev, q[k])
  /\ F[n] = Replayed(ev, base, q)

(* And so it is a sequence of states, each a point after the one before.     *)
LEMMA ReplayInTurn ==
  ASSUME PerformanceTyped, NEW H, NEW C, PricedAs(H, C), NEW ev, Replays(ev, H),
         NEW base \in ReplayStates, NEW n \in Nat, NEW q, OnTrail(q, n)
  PROVE  \E F : InTurns(F, n, ev, base, q)
<1> DEFINE A == ReplayStates
           st == [p \in A \X (1 .. n) |-> AtPoint(p[1], ev, q[p[2]])]
           Def(k) == k = [s \in SUBSET (1 .. n) |-> IF s = {} THEN base ELSE
                          AtPoint(k[s \ {Max(s)}], ev, q[Max(s)])]
           it == CHOOSE k : Def(k)
<1>2. n \in Nat /\ DOMAIN q = 1 .. n
  BY DEF OnTrail
<1>3. Replayed(ev, base, q) = it[1 .. n]
  <2>1. Replayed(ev, base, q)
          = (CHOOSE k : k = [s \in SUBSET DOMAIN q |-> IF s = {} THEN base ELSE
                               AtPoint(k[s \ {Max(s)}], ev, q[Max(s)])])[DOMAIN q]
    BY DEF Replayed
  <2> QED
    BY <1>2, <2>1
<1>4. Steps(1 .. n, A, st)
  <2>1. \A a \in A, k \in 1 .. n : AtPoint(a, ev, q[k]) \in A
    BY AtPointTyped DEF OnTrail
  <2> HIDE DEF A
  <2> QED
    BY <2>1 DEF Steps
<1>5. base \in A
  OBVIOUS
<1> HIDE DEF A
<1>6. \A a \in A, k \in 1 .. n : st[<<a, k>>] = AtPoint(a, ev, q[k])
  OBVIOUS
<1> HIDE DEF st
<1>7. PICK g : LeftFold(n, A, base, st, g)
  BY <1>2, <1>4, <1>5, LeftFoldExists
<1>8. Def(g)
  <2>1. ASSUME NEW s \in SUBSET (1 .. n), s # {}
        PROVE  st[<<g[s \ {Max(s)}], Max(s)>>] = AtPoint(g[s \ {Max(s)}], ev, q[Max(s)])
    <3>1. Max(s) \in 1 .. n
      BY <1>2, <2>1, LargestExists
    <3>2. g[s \ {Max(s)}] \in A
      BY <1>7 DEF LeftFold
    <3> QED
      BY <1>6, <3>1, <3>2
  <2>2. [s \in SUBSET (1 .. n) |-> IF s = {} THEN base ELSE st[<<g[s \ {Max(s)}], Max(s)>>]]
        = [s \in SUBSET (1 .. n) |-> IF s = {} THEN base ELSE AtPoint(g[s \ {Max(s)}], ev, q[Max(s)])]
    BY <2>1
  <2> QED
    BY <1>7, <2>2 DEF LeftFold
<1>9. Def(it)
  BY <1>8
<1>10. Unfolds(n, A, base, st, it)
  <2>1. it[{}] = base
    <3>1. {} \in SUBSET (1 .. n)
      OBVIOUS
    <3> HIDE DEF it
    <3> QED
      BY <1>9, <3>1
  <2>2. ASSUME NEW s \in SUBSET (1 .. n), s # {}, it[s \ {Max(s)}] \in A
        PROVE  it[s] = st[<<it[s \ {Max(s)}], Max(s)>>]
    <3>1. Max(s) \in 1 .. n
      BY <1>2, <2>2, LargestExists
    <3> HIDE DEF it
    <3>2. it[s] = AtPoint(it[s \ {Max(s)}], ev, q[Max(s)])
      BY <1>9, <2>2
    <3> QED
      BY <1>6, <2>2, <3>1, <3>2
  <2> HIDE DEF it
  <2> QED
    BY <2>1, <2>2 DEF Unfolds
<1> HIDE DEF it
<1>11. PICK F : Turns(n, A, base, st, F) /\ F[n] = it[1 .. n]
  BY <1>2, <1>4, <1>5, <1>10, FoldTurns
<1>12. \A k \in 1 .. n : k - 1 \in 0 .. n
  BY <1>2
<1>13. /\ F \in [0 .. n -> A] /\ F[0] = base /\ F[n] = Replayed(ev, base, q)
       /\ \A k \in 1 .. n : F[k] = AtPoint(F[k - 1], ev, q[k])
  BY <1>3, <1>6, <1>11, <1>12 DEF Turns
<1> QED
  BY <1>13 DEF A, InTurns

(* What was held adds up from point to point.                                *)
HeldBetween(i, k) == Total([j \in i + 1 .. k |-> trail[j].held])

(* A whole number, and 0 from a point to itself;                             *)
LEMMA HeldIs ==
  ASSUME PerformanceTyped, NEW k \in 0 .. Len(trail), NEW i \in 0 .. k
  PROVE  /\ HeldBetween(i, k) \in Int /\ HeldBetween(k, k) = 0
         /\ HeldBetween(i, k) = SumIn([j \in 1 .. Len(trail) |-> trail[j].held], i + 1 .. k)
         /\ IsFiniteSet(i + 1 .. k) /\ Numbers([j \in 1 .. Len(trail) |-> trail[j].held], i + 1 .. k)
<1> DEFINE v == [j \in 1 .. Len(trail) |-> trail[j].held]
           w == [j \in i + 1 .. k |-> trail[j].held]
           z == [j \in k + 1 .. k |-> trail[j].held]
<1>1. Len(trail) \in Nat /\ \A j \in 1 .. Len(trail) : trail[j].held \in Int
  <2> DEFINE R == [at : Nat, worth : Int, held : Int]
  <2>1. trail \in Seq(R)
    BY DEF PerformanceTyped
  <2>2. \A x \in R : x.held \in Int
    OBVIOUS
  <2> HIDE DEF R
  <2>3. Len(trail) \in Nat /\ \A j \in 1 .. Len(trail) : trail[j] \in R
    BY <2>1, LenProperties, ElementOfSeq
  <2> QED
    BY <2>2, <2>3
<1>2. \A j \in i + 1 .. k : j \in 1 .. Len(trail) /\ v[j] \in Int /\ w[j] = v[j]
  BY <1>1
<1>3. DOMAIN w = i + 1 .. k
  OBVIOUS
<1>4. IsFiniteSet(i + 1 .. k)
  <2>1. i + 1 \in Int /\ k \in Int
    BY <1>1
  <2> QED
    BY <2>1, FS_Interval
<1>5. HeldBetween(i, k) = SumIn(w, i + 1 .. k)
  BY <1>3, TotalIs DEF HeldBetween
<1> HIDE DEF v, w
<1>6. Numbers(v, i + 1 .. k)
  BY <1>2 DEF Numbers
<1>7. SumIn(w, i + 1 .. k) = SumIn(v, i + 1 .. k) /\ SumIn(v, i + 1 .. k) \in Int
  BY <1>2, <1>4, <1>6, SumsSame, TotalStep
<1>8. HeldBetween(k, k) = 0
  <2>1. k + 1 .. k = {}
    BY <1>1
  <2>2. DOMAIN z = {}
    BY <2>1
  <2>3. Total(z) = SumIn(z, {})
    BY <2>2, TotalIs
  <2>4. IsFiniteSet({}) /\ Numbers(z, {})
    BY FS_EmptySet DEF Numbers
  <2>5. SumIn(z, {}) = 0
    BY <2>4, TotalStep
  <2> QED
    BY <2>3, <2>5 DEF HeldBetween
<1> QED
  BY <1>4, <1>5, <1>6, <1>7, <1>8 DEF v

(* and point by point more.                                                  *)
LEMMA HeldNext ==
  ASSUME PerformanceTyped, NEW k \in 1 .. Len(trail), NEW i \in 0 .. (k - 1)
  PROVE  /\ HeldBetween(i, k) = HeldBetween(i, k - 1) + trail[k].held
         /\ HeldBetween(i, k - 1) \in Int /\ trail[k].held \in Int
<1> DEFINE v == [j \in 1 .. Len(trail) |-> trail[j].held]
<1>1. Len(trail) \in Nat /\ k \in 0 .. Len(trail) /\ k - 1 \in 0 .. Len(trail) /\ i \in 0 .. k /\ k \in Nat
  BY LenProperties DEF PerformanceTyped
<1>2. HeldBetween(i, k) = SumIn(v, i + 1 .. k) /\ IsFiniteSet(i + 1 .. k) /\ Numbers(v, i + 1 .. k)
  BY <1>1, HeldIs
<1>3. PICK m \in Nat : m = k - 1
  BY <1>1
<1>4. HeldBetween(i, m) = SumIn(v, i + 1 .. m) /\ HeldBetween(i, m) \in Int
  BY <1>1, <1>3, HeldIs
<1>5. k \in i + 1 .. k /\ (i + 1 .. k) \ {k} = i + 1 .. m
  BY <1>1, <1>3
<1>6. v[k] = trail[k].held
  OBVIOUS
<1> HIDE DEF v
<1>7. SumIn(v, i + 1 .. k) = v[k] + SumIn(v, i + 1 .. m) /\ v[k] \in Int
  <2> DEFINE S == i + 1 .. k
  <2>1. IsFiniteSet(S) /\ Numbers(v, S) /\ k \in S
    BY <1>2, <1>5
  <2>2. v[k] \in Int
    BY <2>1 DEF Numbers
  <2> HIDE DEF S
  <2>3. SumIn(v, S) = v[k] + SumIn(v, S \ {k})
    BY <2>1, TotalRemove
  <2> QED
    BY <1>5, <2>2, <2>3 DEF S
<1>8. HeldBetween(i, k) = HeldBetween(i, m) + trail[k].held
  BY <1>2, <1>4, <1>6, <1>7
<1> QED
  BY <1>3, <1>4, <1>6, <1>7, <1>8

(* Points of the index until point k of the trail are right: each grew as    *)
(* what was owned in between.                                                *)
GrowthsRight(s, k) ==
  \A m \in 2 .. Len(s.points) : \E i, j \in 1 .. k :
    /\ s.points[m - 1].at = trail[i].at /\ s.points[m].at = trail[j].at /\ s.points[m].worth = trail[j].worth
    /\ s.points[m].growth = <<AtLeastZero(HeldBetween(i, j)), trail[i].worth>>
(* The last point of the index is at point i of the trail.                   *)
LastAt(s, i) == s.points # <<>> /\ s.points[Len(s.points)].at = trail[i].at
(* The replay carries what was worth i, its last point, and the flows since: *)
(* what was held since, with the other sign.                                 *)
Carried(s, k) ==
  s.points # <<>> => \E i \in 1 .. k : /\ LastAt(s, i) /\ s.previous = trail[i].worth /\ trail[i].worth > 0
                                       /\ s.flow + HeldBetween(i, k) = 0
(* Point k has been added, unless nothing was owned then.                    *)
Reached(s, k) == trail[k].worth = 0 \/ LastAt(s, k)

(* A further point grows as what was owned since the last: from i on,        *)
(* trail[k].worth - flow is trail[i].worth and what was held in between.     *)
LEMMA PointIsRight ==
  ASSUME PerformanceTyped, NEW H \in [0 .. (instant - 1) -> Wealth], NEW C, PricedAs(H, C),
         NEW k \in 1 .. Len(trail), NEW T \in 0 .. (instant - 1),
         NEW s \in ReplayStates, NEW r, GrowthsRight(s, k - 1), Carried(s, k - 1),
         s.points # <<>> => T = TimeOf(k - 1),
         NEW flow, flow = s.flow + (H[trail[k].at].flow - H[T].flow),
         NothingOwned(r, s, k, flow) \/ PointAdded(r, s, k, flow)
  PROVE  GrowthsRight(r, k) /\ Carried(r, k) /\ Reached(r, k)
<1> DEFINE L == Len(s.points)
           at == trail[k].at
           p == PointOf(s, k, flow)
<1>1. k \in Nat \ {0} /\ Len(trail) \in Nat /\ k \in 0 .. Len(trail) /\ k - 1 \in 0 .. Len(trail)
      /\ 1 .. (k - 1) \subseteq 1 .. k /\ k \in 1 .. k /\ 0 \in 0 .. k
  BY LenProperties DEF PerformanceTyped
<1>2. s.points \in Seq(PointRows) /\ L \in Nat /\ DOMAIN s.points = 1 .. L /\ (s.points = <<>> <=> L = 0)
  <2>1. s.points \in Seq(PointRows)
    BY DEF ReplayStates
  <2> QED
    BY <2>1, LenProperties, EmptySeq
<1>3. HeldBetween(k, k) = 0
  BY <1>1, HeldIs
<1>4. ASSUME NEW i \in 1 .. (k - 1), s.flow + HeldBetween(i, k - 1) = 0, s.points # <<>>
      PROVE  trail[k].worth - flow = HeldBetween(i, k) /\ trail[k].worth \in Int /\ HeldBetween(i, k) \in Int
  <2>1. i \in 0 .. (k - 1)
    OBVIOUS
  <2>2. /\ HeldBetween(i, k) = HeldBetween(i, k - 1) + trail[k].held
        /\ HeldBetween(i, k - 1) \in Int /\ trail[k].held \in Int
    BY <2>1, HeldNext
  <2> DEFINE d == H[at].flow - H[T].flow
  <2>3. trail[k].held = trail[k].worth - d
    BY <1>4 DEF PricedAs, Follows
  <2>4. trail[k].worth \in Int
    BY PointValued
  <2>5. d \in Int
    <3>1. instant \in Nat \ {0} /\ at \in 1 .. (instant - 1)
      BY DEF PerformanceTyped, PricedAs
    <3> HIDE DEF at
    <3>2. at \in 0 .. (instant - 1)
      BY <3>1
    <3>3. H[at].flow \in Int /\ H[T].flow \in Int
      BY <3>2 DEF Wealth
    <3> QED
      BY <3>3
  <2>6. flow = s.flow + d
    OBVIOUS
  <2> HIDE DEF d
  <2>7. s.flow \in Int
    BY DEF ReplayStates
  <2> DEFINE x == HeldBetween(i, k - 1)
             y == HeldBetween(i, k)
             h == trail[k].held
             w == trail[k].worth
             f == s.flow
  <2>8. y = x + h /\ x \in Int /\ h \in Int /\ h = w - d /\ w \in Int /\ d \in Int /\ flow = f + d /\ f \in Int
        /\ f + x = 0
    BY <1>4, <2>2, <2>3, <2>4, <2>5, <2>6, <2>7
  <2> HIDE DEF x, y, h, w, f
  <2>9. w - flow = y /\ w \in Int /\ y \in Int
    BY <2>8
  <2> QED
    BY <2>9 DEF y, w
<1>5. GrowthsRight(s, k)
  BY <1>1 DEF GrowthsRight
<1> HIDE DEF L, p, at
<1>6. CASE NothingOwned(r, s, k, flow)
  <2>1. trail[k].worth = 0 /\ r.flow = flow /\ r.points = s.points /\ r.previous = s.previous
    BY <1>6 DEF NothingOwned
  <2>2. GrowthsRight(r, k)
    BY <1>5, <2>1 DEF GrowthsRight
  <2>3. Carried(r, k)
    <3> SUFFICES ASSUME r.points # <<>>
                 PROVE  \E i \in 1 .. k : /\ LastAt(r, i) /\ r.previous = trail[i].worth /\ trail[i].worth > 0
                                          /\ r.flow + HeldBetween(i, k) = 0
      BY DEF Carried
    <3>1. PICK i \in 1 .. (k - 1) : /\ LastAt(s, i) /\ s.previous = trail[i].worth /\ trail[i].worth > 0
                                    /\ s.flow + HeldBetween(i, k - 1) = 0
      BY <2>1 DEF Carried
    <3>2. trail[k].worth - flow = HeldBetween(i, k) /\ HeldBetween(i, k) \in Int
      BY <1>4, <2>1, <3>1
    <3>3. flow \in Int
      <4>1. s.flow \in Int /\ H[T].flow \in Int /\ H[trail[k].at].flow \in Int
        <5>1. H[T].flow \in Int /\ s.flow \in Int
          BY DEF Wealth, ReplayStates
        <5>2. H[trail[k].at].flow \in Int
          BY PointValued DEF Wealth
        <5> QED
          BY <5>1, <5>2
      <4> QED
        BY <4>1
    <3>4. r.flow + HeldBetween(i, k) = 0
      BY <2>1, <3>2, <3>3
    <3>5. LastAt(r, i) /\ r.previous = trail[i].worth /\ i \in 1 .. k
      BY <1>1, <2>1, <3>1 DEF LastAt
    <3> QED
      BY <3>1, <3>4, <3>5
  <2> QED
    BY <2>1, <2>2, <2>3 DEF Reached
<1>7. CASE PointAdded(r, s, k, flow)
  <2>1. /\ trail[k].worth > 0 /\ r.flow = 0 /\ r.previous = trail[k].worth
        /\ r.points = Append(s.points, p)
    BY <1>7 DEF PointAdded, p
  <2>2. /\ Len(r.points) = L + 1 /\ r.points[L + 1] = p
        /\ \A n \in 1 .. L : r.points[n] = s.points[n]
    BY <1>2, <2>1, AppendProperties DEF L
  <2>3. p.at = trail[k].at /\ p.worth = trail[k].worth
    BY DEF PointOf, p
  <2>4. LastAt(r, k)
    <3>1. r.points # <<>>
      <4>1. Len(<<>>) = 0
        OBVIOUS
      <4> QED
        BY <1>2, <2>2, <4>1
    <3> QED
      BY <2>2, <2>3, <3>1 DEF LastAt
  <2>5. Carried(r, k)
    <3>1. r.flow + HeldBetween(k, k) = 0
      BY <1>3, <2>1
    <3> QED
      BY <1>1, <2>1, <2>4, <3>1 DEF Carried
  <2>6. ASSUME NEW m \in 2 .. (L + 1)
        PROVE  \E i, j \in 1 .. k :
                 /\ r.points[m - 1].at = trail[i].at /\ r.points[m].at = trail[j].at
                 /\ r.points[m].worth = trail[j].worth
                 /\ r.points[m].growth = <<AtLeastZero(HeldBetween(i, j)), trail[i].worth>>
    <3>1. CASE m \in 2 .. L
      <4>1. m \in 1 .. L /\ m - 1 \in 1 .. L
        BY <1>2, <3>1
      <4>2. r.points[m] = s.points[m] /\ r.points[m - 1] = s.points[m - 1]
        BY <2>2, <4>1
      <4>3. \E i, j \in 1 .. k :
              /\ s.points[m - 1].at = trail[i].at /\ s.points[m].at = trail[j].at
              /\ s.points[m].worth = trail[j].worth
              /\ s.points[m].growth = <<AtLeastZero(HeldBetween(i, j)), trail[i].worth>>
        BY <1>5, <3>1 DEF GrowthsRight, L
      <4> QED
        BY <4>2, <4>3
    <3>2. CASE m = L + 1
      <4>1. L \in 1 .. L /\ m - 1 = L /\ s.points # <<>>
        BY <1>2, <3>2
      <4>2. PICK i \in 1 .. (k - 1) : /\ LastAt(s, i) /\ s.previous = trail[i].worth /\ trail[i].worth > 0
                                      /\ s.flow + HeldBetween(i, k - 1) = 0
        BY <4>1 DEF Carried
      <4>3. trail[k].worth - flow = HeldBetween(i, k)
        BY <1>4, <4>1, <4>2
      <4>4. ~(s.points = <<>> \/ s.previous <= 0)
        <5>1. s.previous \in Int
          BY DEF ReplayStates
        <5> QED
          BY <4>1, <4>2, <5>1
      <4>5. p.growth = <<AtLeastZero(HeldBetween(i, k)), trail[i].worth>>
        BY <4>2, <4>3, <4>4 DEF p, PointOf
      <4>6. r.points[m - 1].at = trail[i].at
        BY <2>2, <4>1, <4>2 DEF LastAt, L
      <4>7. i \in 1 .. k /\ k \in 1 .. k
        BY <1>1
      <4> QED
        BY <2>2, <2>3, <3>2, <4>5, <4>6, <4>7
    <3> QED
      BY <1>2, <3>1, <3>2
  <2>7. GrowthsRight(r, k)
    BY <2>2, <2>6 DEF GrowthsRight
  <2> QED
    BY <2>4, <2>5, <2>7 DEF Reached
<1> QED
  BY <1>6, <1>7

(* The replay from point to point, from the first point a + 1 on.            *)
PointTime(a, j) == IF j = 0 THEN 0 ELSE trail[a + j].at
(* After j points the replay is where the ledger was, and the index is right *)
(* so far, or it has omitted a date.                                         *)
ReplayRight(s, ev, H, a, j) ==
  /\ ReplayedTo(s, ev, H, PointTime(a, j))
  /\ \/ s.skipped
     \/ /\ GrowthsRight(s, a + j) /\ Carried(s, a + j)
        /\ j = 0 => s.points = <<>>
        /\ j # 0 => Reached(s, a + j)

(* One point further on.                                                     *)
LEMMA ReplayStepRight ==
  ASSUME PerformanceTyped, NEW H \in [0 .. (instant - 1) -> Wealth], NEW C, PricedAs(H, C),
         NEW ev, Replays(ev, H), NEW a \in 0 .. Len(trail), NEW j \in 0 .. (Len(trail) - a), j # Len(trail) - a,
         NEW s, ReplayRight(s, ev, H, a, j)
  PROVE  ReplayRight(AtPoint(s, ev, trail[a + (j + 1)].at), ev, H, a, j + 1)
<1>1. PICK i \in Nat : i = j + 1
  <2>1. j + 1 \in Nat
    OBVIOUS
  <2> QED
    BY <2>1
<1>2. PICK k \in Nat : k = a + i
  <2>1. a + i \in Nat
    BY <1>1
  <2> QED
    BY <2>1
<1>3. k \in 1 .. Len(trail) /\ k - 1 = a + j /\ i # 0 /\ Len(trail) \in Nat /\ j \in Nat /\ a \in Nat
      /\ (j # 0 => a + j \in 1 .. Len(trail) /\ a + j < k)
  <2>1. Len(trail) \in Nat
    BY LenProperties DEF PerformanceTyped
  <2> QED
    BY <1>1, <1>2, <2>1
<1> DEFINE T == PointTime(a, j)
           at == trail[k].at
           r == AtPoint(s, ev, at)
           flow == s.flow + (H[at].flow - H[T].flow)
<1>4. T \in 0 .. (instant - 1) /\ T < at /\ (j # 0 => T = TimeOf(k - 1))
  <2>1. instant \in Nat \ {0} /\ at \in 1 .. (instant - 1)
    BY <1>3 DEF PerformanceTyped, PricedAs
  <2>2. CASE j = 0
    <3>1. T = 0
      BY <2>2 DEF PointTime
    <3> HIDE DEF T, at
    <3> QED
      BY <2>1, <2>2, <3>1
  <2>3. CASE j # 0
    <3>1. T = trail[a + j].at
      BY <2>3 DEF PointTime
    <3>2. T \in 1 .. (instant - 1) /\ T < at
      BY <1>3, <2>3, <3>1 DEF PricedAs
    <3>3. TimeOf(k - 1) = T
      BY <1>3, <2>3, <3>1 DEF TimeOf
    <3> HIDE DEF T, at
    <3> QED
      BY <2>1, <3>2, <3>3
  <2> QED
    BY <2>2, <2>3
<1>5. PointTime(a, i) = at
  BY <1>2, <1>3 DEF PointTime
<1>6. ReplayedTo(s, ev, H, T)
  BY DEF ReplayRight
<1> HIDE DEF T
<1>7. /\ ReplayedTo(r, ev, H, at)
      /\ r.skipped \/ NothingOwned(r, s, k, flow) \/ PointAdded(r, s, k, flow)
      /\ s.skipped => r.skipped
  BY <1>3, <1>4, <1>6, PointReached
<1>8. ASSUME r.skipped
      PROVE  ReplayRight(r, ev, H, a, i)
  <2> HIDE DEF r, at
  <2> QED
    BY <1>5, <1>7, <1>8 DEF ReplayRight
<1>9. ASSUME ~r.skipped
      PROVE  ReplayRight(r, ev, H, a, i)
  <2>1. NothingOwned(r, s, k, flow) \/ PointAdded(r, s, k, flow)
    BY <1>7, <1>9
  <2>2. GrowthsRight(s, k - 1) /\ Carried(s, k - 1) /\ (j = 0 => s.points = <<>>)
    BY <1>3, <1>7, <1>9 DEF ReplayRight
  <2>3. s.points # <<>> => T = TimeOf(k - 1)
    BY <1>4, <2>2
  <2>4. s \in ReplayStates
    BY <1>6 DEF ReplayedTo
  <2> HIDE DEF r
  <2>5. GrowthsRight(r, k) /\ Carried(r, k) /\ Reached(r, k)
    <3> DEFINE f == flow
    <3>1. NothingOwned(r, s, k, f) \/ PointAdded(r, s, k, f)
      BY <2>1
    <3>2. f = s.flow + (H[trail[k].at].flow - H[T].flow)
      OBVIOUS
    <3> HIDE DEF f
    <3> QED
      BY <1>3, <1>4, <2>2, <2>3, <2>4, <3>1, <3>2, PointIsRight
  <2>6. ReplayedTo(r, ev, H, PointTime(a, i))
    BY <1>5, <1>7
  <2> QED
    BY <1>2, <1>3, <2>5, <2>6 DEF ReplayRight
<1>10. ReplayRight(r, ev, H, a, i)
  BY <1>8, <1>9
<1> QED
  BY <1>1, <1>2, <1>10

(* By induction, the whole replay.                                           *)
LEMMA ReplayEndsRight ==
  ASSUME PerformanceTyped, NEW H \in [0 .. (instant - 1) -> Wealth], H[0] = Poverty, NEW C, PricedAs(H, C),
         NEW ev, Replays(ev, H), NEW a \in 0 .. Len(trail), NEW times,
         DOMAIN times = 1 .. (Len(trail) - a), \A j \in 1 .. (Len(trail) - a) : times[j] = trail[a + j].at
  PROVE  LET start == [cash |-> 0, shares |-> [t \in Stocks |-> 0], flow |-> 0, previous |-> 0,
                       points |-> <<>>, skipped |-> FALSE, done |-> 0]
             end == Replayed(ev, start, times)
         IN  end \in ReplayStates /\ ReplayRight(end, ev, H, a, Len(trail) - a)
<1> DEFINE start == [cash |-> 0, shares |-> [t \in Stocks |-> 0], flow |-> 0, previous |-> 0,
                     points |-> <<>>, skipped |-> FALSE, done |-> 0]
           end == Replayed(ev, start, times)
<1>1. Len(trail) \in Nat
  BY LenProperties DEF PerformanceTyped
<1>2. PICK n \in Nat : n = Len(trail) - a
  <2>1. Len(trail) - a \in Nat
    BY <1>1
  <2> QED
    BY <2>1
<1>3. start \in ReplayStates /\ start.points = <<>> /\ start.done = 0 /\ start.cash = 0
      /\ start.shares = [t \in Stocks |-> 0] /\ start.skipped = FALSE
  <2>1. <<>> \in Seq(PointRows)
    OBVIOUS
  <2> QED
    BY <2>1 DEF ReplayStates
<1>4. \A j \in 1 .. n : times[j] = trail[a + j].at /\ a + j \in 1 .. Len(trail)
  BY <1>1, <1>2
<1>5. DOMAIN times = 1 .. n
  BY <1>2
<1> HIDE DEF start, end
<1>6. PICK F : /\ F \in [0 .. n -> ReplayStates] /\ F[0] = start
               /\ \A k \in 1 .. n : F[k] = AtPoint(F[k - 1], ev, times[k])
               /\ F[n] = end
  <2>1. OnTrail(times, n)
    BY <1>4, <1>5 DEF OnTrail
  <2>2. start \in ReplayStates
    BY <1>3
  <2>3. \E F : InTurns(F, n, ev, start, times)
    BY <2>1, <2>2, ReplayInTurn
  <2> QED
    BY <2>3 DEF InTurns, end
<1> DEFINE P == {j \in Nat : j <= n => ReplayRight(F[j], ev, H, a, j)}
<1>7. 0 \in P
  <2>1. PointTime(a, 0) = 0
    BY DEF PointTime
  <2>2. DueBy(ev, 0) = 0
    <3>1. \A x \in 1 .. Len(ev) : ev[x].at \in Nat /\ ev[x].at >= 1
      <4>1. instant \in Nat
        BY DEF PerformanceTyped
      <4> QED
        BY <4>1 DEF Replays
    <3>2. Len(ev) \in Nat
      BY LenProperties DEF Replays
    <3>3. 0 \in Nat /\ 0 \in 0 .. Len(ev) /\ \A x \in 1 .. Len(ev) : ev[x].at <= 0 <=> x <= 0
      BY <3>1, <3>2
    <3> QED
      BY <3>3, DueExactly
  <2>3. H[0].cash = 0 /\ H[0].shares = [t \in Stocks |-> 0]
    BY DEF Poverty
  <2>4. ReplayedTo(start, ev, H, PointTime(a, 0))
    BY <1>3, <2>1, <2>2, <2>3 DEF ReplayedTo
  <2>5. GrowthsRight(start, a + 0) /\ Carried(start, a + 0)
    <3>1. Len(start.points) = 0 /\ 2 .. 0 = {}
      BY <1>3
    <3> QED
      BY <1>3, <3>1 DEF GrowthsRight, Carried
  <2>6. ReplayRight(start, ev, H, a, 0)
    BY <1>3, <2>4, <2>5 DEF ReplayRight
  <2> QED
    BY <1>6, <2>6
<1>8. ASSUME NEW j \in P
      PROVE  j + 1 \in P
  <2> SUFFICES ASSUME j + 1 <= n
               PROVE  ReplayRight(F[j + 1], ev, H, a, j + 1)
    OBVIOUS
  <2>1. j \in Nat /\ j + 1 \in 1 .. n /\ (j + 1) - 1 = j /\ j \in 0 .. n /\ j # n /\ j <= n
    BY <1>2
  <2>2. ReplayRight(F[j], ev, H, a, j)
    BY <2>1
  <2> HIDE DEF P
  <2>3. F[j + 1] = AtPoint(F[j], ev, trail[a + (j + 1)].at)
    BY <1>4, <1>6, <2>1
  <2>4. ReplayRight(AtPoint(F[j], ev, trail[a + (j + 1)].at), ev, H, a, j + 1)
    <3>1. j \in 0 .. (Len(trail) - a) /\ j # Len(trail) - a
      BY <1>2, <2>1
    <3> QED
      BY <2>2, <3>1, ReplayStepRight
  <2> QED
    BY <2>3, <2>4
<1>9. P = Nat
  <2> HIDE DEF P
  <2>1. P \in SUBSET Nat
    BY DEF P
  <2> QED
    BY <1>7, <1>8, <2>1, Counting
<1>10. n \in P
  <2> HIDE DEF P
  <2> QED
    BY <1>9
<1>11. ReplayRight(end, ev, H, a, n) /\ end \in ReplayStates
  <2>1. n <= n /\ n \in 0 .. n
    OBVIOUS
  <2> QED
    BY <1>6, <1>10, <2>1
<1> QED
  BY <1>2, <1>11 DEF end, start

(* What the invariant says of the ledger and the trail makes the index       *)
(* right.                                                                    *)
LEMMA IndexRight ==
  ASSUME PerformanceInv
  PROVE  IndexIsTimeWeighted
<1> DEFINE undated == {ledger.lots[n].symbol : n \in {n \in DOMAIN ledger.lots : Undated(ledger.lots[n])}}
           opening == EarliestCommonPriceTime(undated)
           ev == Events(ledger, opening)
           tickers == {ev[n].ticker : n \in DOMAIN ev} \ {NoTicker}
           dates == PriceTimes(tickers)
           times == InOrder(dates, {p \in dates \X dates : p[1] < p[2]})
           start == [cash |-> 0, shares |-> [t \in Stocks |-> 0], flow |-> 0, previous |-> 0,
                     points |-> <<>>, skipped |-> FALSE, done |-> 0]
           end == FoldLeft(LAMBDA s, at : AtPoint(s, ev, at), start, times)
           quality == Quality(ledger.lots, end.skipped)
           result == ReconstructPortfolioHistory(ledger)
           N == Len(trail)
<1>1. result = IF undated # {} /\ opening = 0 THEN Unavailable
               ELSE IF Len(times) < 2 \/ Len(end.points) < 2 THEN Unavailable
               ELSE [points |-> end.points, quality |-> quality,
                     partial |-> end.skipped \/ quality # "complete_ledger", omits |-> end.skipped]
  BY DEF ReconstructPortfolioHistory
<1>2. end = Replayed(ev, start, times)
  BY ReplayFolds
<1>3. quality # "estimated_opening_snapshot" => AllDated
  BY DEF Quality, AllDated
<1> SUFFICES ASSUME result.quality \in {"complete_ledger", "reconstructed_opening_lots"}, ~result.omits
             PROVE  /\ Last(result.points).at = Last(trail).at \/ Last(trail).worth = 0
                    /\ \A n \in 2 .. Len(result.points) :
                         LET from == PointAt(result.points[n - 1].at)
                             to == PointAt(result.points[n].at)
                         IN /\ SameRatio(result.points[n].growth,
                                         <<AtLeastZero(HeldBetween(from, to)), trail[from].worth>>)
                            /\ result.points[n].worth = trail[to].worth
  BY DEF IndexIsTimeWeighted, TimeWeighted, HeldBetween
<1> HIDE DEF result, quality
<1>4. /\ ~(Len(times) < 2) /\ result.points = end.points /\ result.quality = quality /\ result.omits = end.skipped
  <2>1. Unavailable.quality = "unavailable"
    BY DEF Unavailable
  <2> DEFINE whole == [points |-> end.points, quality |-> quality,
                       partial |-> end.skipped \/ quality # "complete_ledger", omits |-> end.skipped]
  <2>2. whole.points = end.points /\ whole.quality = quality /\ whole.omits = end.skipped
    OBVIOUS
  <2> HIDE DEF whole, end, times, undated, opening
  <2>3. result \in {Unavailable, whole} /\ (result # Unavailable => ~(Len(times) < 2))
    BY <1>1 DEF whole
  <2> QED
    BY <2>1, <2>2, <2>3
<1> HIDE DEF end
<1>5. AllDated
  BY <1>3, <1>4
<1>6. PICK H, C : ToldAs(H, C)
  BY <1>5 DEF PerformanceInv
<1>7. /\ PerformanceTyped /\ HappenedAs(ledger, instant, H) /\ PricedAs(H, C)
      /\ H \in [0 .. (instant - 1) -> Wealth] /\ H[0] = Poverty
  BY <1>6 DEF PerformanceInv, ToldAs, HappenedAs
<1> HIDE DEF opening
<1>8. Replays(ev, H)
  BY <1>5, <1>7, EventsAre
<1> HIDE DEF ev
<1>9. tickers \in SUBSET Stocks
  <2>1. ev \in Seq(EventRows)
    BY <1>8 DEF Replays
  <2>2. \A n \in DOMAIN ev : ev[n] \in EventRows
    BY <2>1, LenProperties, ElementOfSeq
  <2>3. \A n \in DOMAIN ev : ev[n].ticker \in Stocks \cup {NoTicker}
    BY <2>2 DEF EventRows
  <2> QED
    BY <2>3
<1> HIDE DEF tickers
<1>10. PICK a \in 0 .. N : DOMAIN times = 1 .. (N - a) /\ \A j \in 1 .. (N - a) : times[j] = trail[a + j].at
  BY <1>7, <1>9, TimesAre
<1> HIDE DEF times
<1>11. end \in ReplayStates /\ ReplayRight(end, ev, H, a, N - a)
  <2>1. end = Replayed(ev, start, times)
    BY <1>2
  <2> QED
    BY <1>7, <1>8, <1>10, <2>1, ReplayEndsRight
<1>12. N \in Nat /\ trail \in Seq([at : Nat, worth : Int, held : Int]) /\ N - a # 0 /\ a + (N - a) = N /\ N >= 1
  <2>1. trail \in Seq([at : Nat, worth : Int, held : Int])
    BY <1>7 DEF PerformanceTyped
  <2>2. N \in Nat
    BY <2>1, LenProperties
  <2>3. N - a \in Nat
    BY <2>2
  <2>4. Len(times) = N - a
    BY <1>10, <2>3
  <2>5. ~(N - a < 2)
    BY <1>4, <2>4
  <2> QED
    BY <2>1, <2>2, <2>3, <2>5
<1>13. GrowthsRight(end, N) /\ Reached(end, N)
  BY <1>4, <1>11, <1>12 DEF ReplayRight
<1>14. \A i \in 1 .. N : PointAt(trail[i].at) = i
  <2> SUFFICES ASSUME NEW i \in 1 .. N PROVE PointAt(trail[i].at) = i
    OBVIOUS
  <2>1. DOMAIN trail = 1 .. N
    BY <1>12, LenProperties
  <2>2. \A n \in 1 .. N : trail[n].at = trail[i].at => n = i
    <3> SUFFICES ASSUME NEW n \in 1 .. N, trail[n].at = trail[i].at PROVE n = i
      OBVIOUS
    <3>1. (n < i => trail[n].at < trail[i].at) /\ (i < n => trail[i].at < trail[n].at)
      BY <1>7 DEF PricedAs
    <3>2. trail[i].at \in Nat
      BY <1>7 DEF PricedAs
    <3> DEFINE x == trail[n].at
               y == trail[i].at
    <3>3. (n < i => x < y) /\ (i < n => y < x) /\ x = y /\ y \in Nat
      BY <3>1, <3>2
    <3> HIDE DEF x, y
    <3>4. ~(n < i) /\ ~(i < n)
      BY <3>3
    <3> HIDE DEF N
    <3>5. n \in Nat /\ i \in Nat
      BY <1>12
    <3> QED
      BY <3>4, <3>5
  <2> QED
    BY <2>1, <2>2 DEF PointAt
<1>15. Last(result.points).at = Last(trail).at \/ Last(trail).worth = 0
  <2>1. Last(trail) = trail[N] /\ Last(result.points) = end.points[Len(end.points)]
    BY <1>4 DEF Last
  <2> QED
    BY <1>13, <2>1 DEF Reached, LastAt
<1>16. ASSUME NEW n \in 2 .. Len(result.points)
       PROVE  LET from == PointAt(result.points[n - 1].at)
                  to == PointAt(result.points[n].at)
              IN /\ SameRatio(result.points[n].growth,
                              <<AtLeastZero(HeldBetween(from, to)), trail[from].worth>>)
                 /\ result.points[n].worth = trail[to].worth
  <2>1. PICK i, j \in 1 .. N :
          /\ end.points[n - 1].at = trail[i].at /\ end.points[n].at = trail[j].at
          /\ end.points[n].worth = trail[j].worth
          /\ end.points[n].growth = <<AtLeastZero(HeldBetween(i, j)), trail[i].worth>>
    BY <1>4, <1>13 DEF GrowthsRight
  <2>2. PointAt(result.points[n - 1].at) = i /\ PointAt(result.points[n].at) = j
    BY <1>4, <1>14, <2>1
  <2>3. \A x, y : SameRatio(<<x, y>>, <<x, y>>)
    BY DEF SameRatio
  <2> QED
    BY <1>4, <2>1, <2>2, <2>3
<1> QED
  BY <1>15, <1>16

(* Theorem. The index tells how the holdings did: IndexIsTimeWeighted.       *)
THEOREM IndexKept == PerformanceSpec => []IndexIsTimeWeighted
<1>1. PerformanceInit => PerformanceInv
  BY PerformanceStarts
<1>2. PerformanceInv /\ [PerformanceNext]_historyOf => PerformanceInv'
  BY PerformanceKept
<1>3. PerformanceInv => IndexIsTimeWeighted
  BY IndexRight
<1> QED
  BY <1>1, <1>2, <1>3, PTL DEF PerformanceSpec
=============================================================================
