------------------------------ MODULE OptionChains ------------------------------
(***************************************************************************)
(* Option chains of one ticker (app/connectors/market_data/options.py and  *)
(* the option calls of yfinance.py): which listed expiry answers a request,*)
(* the suite of chains around it, and the copies Redis and the capture     *)
(* table keep. A chain is told apart by the expiry whose contracts it      *)
(* holds. The slot of the limiter is module RateLimiter.                   *)
(***************************************************************************)
EXTENDS Integers, FiniteSets, Functions

CONSTANTS
  Dates,                (* Expiry dates, as day numbers.                      *)
  MaxSurfaceExpiries,   (* OPTIONS_CHAIN_MAX_SURFACE_EXPIRIES.                *)
  OptionsTTL,           (* OPTIONS_CHAIN_CACHE_TTL_SECONDS, in ticks.         *)
  Retention,            (* The 365 days a capture is kept, in ticks.          *)
  MaxOptionsTime        (* Bound: the clock.                                  *)

ASSUME OptionDates ==
  Dates \subseteq Nat \ {0} /\ IsFiniteSet(Dates) /\ MaxSurfaceExpiries \in Nat

VARIABLES
  clock,
  listed,               (* Dates the provider lists at present.               *)
  chains,               (* Redis: requested expiry -> chain, and its expiry.  *)
  suites,               (* Redis: requested expiry and size -> suite.         *)
  captures,             (* option_chain_snapshots.                            *)
  reply                 (* What the latest call returned or raised.           *)

optionVars == <<clock, listed, chains, suites, captures, reply>>

NoReply == [kind |-> "none"]
NoExpiry == 0           (* An expiry that is None.                            *)

OptionsInit ==
  /\ clock = 0
  /\ listed \in SUBSET Dates
  /\ chains = [e \in {} |-> NoReply]
  /\ suites = [k \in {} |-> NoReply]
  /\ captures = {}
  /\ reply = NoReply

Bound(f, k, v) == [x \in DOMAIN f \cup {k} |-> IF x = k THEN v ELSE f[x]]
Distance(d, e) == IF d < e THEN e - d ELSE d - e

-----------------------------------------------------------------------------
(* Which expiries answer a request.                                          *)

Future(requested) == {e \in listed : e >= requested}
Eligible(requested) == IF Future(requested) # {} THEN Future(requested) ELSE listed

SelectOptionExpiry(requested) ==
  LET all == Eligible(requested)
  IN IF all = {} THEN NoExpiry
     ELSE CHOOSE e \in all : \A f \in all : Distance(e, requested) <= Distance(f, requested)

(* Mutant: the last n candidates instead of the first.                       *)
LastExpiries(requested, n) ==
  LET all == Eligible(requested)
  IN {e \in all : Cardinality({f \in all : f > e}) < n}
SurfaceExpiries(requested, n) ==
  LET all == Eligible(requested)
  IN {e \in all : Cardinality({f \in all : f < e}) < n}

-----------------------------------------------------------------------------
(* The provider's answers. offered, what was listed, is kept for the         *)
(* properties.                                                               *)

Chain(requested, expiry, contracts) ==
  [requested |-> requested, expiry |-> expiry, contracts |-> contracts, fetched |-> clock,
   offered |-> listed]

(* A chain with an expiry but no contracts: contracts = NoExpiry.            *)
FetchOptionChain(requested) ==
  LET expiry == SelectOptionExpiry(requested)
  IN Chain(requested, expiry, expiry)

(* Mutant: every chain of the surface is filed under the date asked for.     *)
RequestedOfAll(requested, selected, expiry) == requested
(* Under which date a chain of the surface is filed.                         *)
RequestedOf(requested, selected, expiry) ==
  IF expiry = selected THEN requested ELSE expiry

(* failing: expiries whose chain the provider could not give.                *)
FetchOptionSuite(requested, n, failing) ==
  LET selected == SelectOptionExpiry(requested)
      fetched == SurfaceExpiries(requested, n) \ failing
      chainOf(e) == Chain(RequestedOf(requested, selected, e), e, e)
  IN [kind |-> "suite", requested |-> requested, size |-> n,
      surface |-> {chainOf(e) : e \in fetched},
      current |-> IF selected \in fetched THEN chainOf(selected)
                  ELSE Chain(requested, selected, NoExpiry),
      failing |-> failing]

-----------------------------------------------------------------------------
(* The calls.                                                                *)

(* Redis may be away: a lookup misses, a store is passed over.               *)
StoreChain(chain) == Bound(chains, chain.requested, [chain |-> chain, until |-> clock + OptionsTTL])
StoreSurface(suite) ==
  LET keys == {c.requested : c \in suite.surface}
      entry(k) == [chain |-> CHOOSE c \in suite.surface : c.requested = k, until |-> clock + OptionsTTL]
  IN [k \in keys \cup DOMAIN chains |-> IF k \in keys THEN entry(k) ELSE chains[k]]

Stay == UNCHANGED <<clock, listed, chains, suites, captures>>
Hit(f, k) == k \in DOMAIN f /\ reply' = [kind |-> "cached", entry |-> f[k]] /\ Stay
Refused(error) == reply' = [kind |-> error] /\ Stay

(* fetch_option_chain_with_cache.                                            *)
RequestChain(requested, force) ==
  \/ ~force /\ Hit(chains, requested)
  \/ Refused("RateLimitExceeded")
  \/ /\ force \/ requested \notin DOMAIN chains
     /\ LET chain == FetchOptionChain(requested)
        IN /\ reply' = [kind |-> "chain", chain |-> chain]
           /\ chains' \in {StoreChain(chain), chains}
     /\ UNCHANGED <<clock, listed, suites, captures>>

(* persist_option_suite_snapshots: the current chain and the surface, every  *)
(* expiry once, without what is out of date.                                 *)
Captured(suite) ==
  LET ofSurface == {c \in suite.surface : c.expiry # suite.current.expiry}
      kept == {c \in {suite.current} \cup ofSurface : c.expiry # NoExpiry}
  IN {s \in captures \cup {[expiry |-> c.expiry, contracts |-> c.contracts, fetched |-> clock] :
                             c \in kept} : s.fetched >= clock - Retention}

(* fetch_option_suite_with_cache. The database comes last: where it fails,   *)
(* the suite stays in Redis all the same.                                    *)
RequestSuite(requested, n, force) ==
  \/ n > MaxSurfaceExpiries /\ Refused("ValueError")
  \/ /\ n <= MaxSurfaceExpiries
     /\ \/ ~force /\ Hit(suites, <<requested, n>>)
        \/ Refused("RateLimitExceeded")
        \/ /\ force \/ <<requested, n>> \notin DOMAIN suites
           /\ \E failing \in SUBSET SurfaceExpiries(requested, n), redis \in BOOLEAN :
                LET suite == FetchOptionSuite(requested, n, failing)
                IN /\ suites' = IF redis
                                THEN Bound(suites, <<requested, n>>,
                                           [suite |-> suite, until |-> clock + OptionsTTL])
                                ELSE suites
                   /\ chains' = IF redis THEN StoreSurface(suite) ELSE chains
                   /\ \/ captures' = Captured(suite) /\ reply' = suite
                      \/ UNCHANGED captures /\ reply' = [kind |-> "DatabaseError"]
           /\ UNCHANGED <<clock, listed>>

(* Time passes, entries of Redis expire, and the provider's list changes.    *)
Unexpired(f) == Restrict(f, {k \in DOMAIN f : clock + 1 < f[k].until})
Pass ==
  /\ clock < MaxOptionsTime
  /\ clock' = clock + 1
  /\ listed' \in SUBSET Dates
  /\ chains' = Unexpired(chains)
  /\ suites' = Unexpired(suites)
  /\ reply' = NoReply
  /\ UNCHANGED captures

(* Where Redis holds nothing, force makes no difference.                     *)
OptionsNext ==
  \/ \E requested \in Dates : RequestChain(requested, FALSE)
  \/ \E requested \in DOMAIN chains : RequestChain(requested, TRUE)
  \/ \E requested \in Dates, n \in 1 .. MaxSurfaceExpiries + 1 : RequestSuite(requested, n, FALSE)
  \/ \E key \in DOMAIN suites : RequestSuite(key[1], key[2], TRUE)
  \/ Pass

OptionsSpec == OptionsInit /\ [][OptionsNext]_optionVars

-----------------------------------------------------------------------------
(* Properties.                                                               *)

(* The soonest listed expiry on or after a date, or else the latest listed.  *)
Answers(expiry, requested, offered) ==
  \/ offered = {} /\ expiry = NoExpiry
  \/ /\ expiry \in offered
     /\ \A e \in offered : e < expiry => e < requested
     /\ expiry < requested => \A e \in offered : e <= expiry

(* Two paths fill one key: a request for a chain, and the surface of a suite *)
(* asked for under another date (options.py, the loop over surface_chains).  *)
(* Whichever wrote it, what Redis holds for a date is the chain the provider *)
(* would have chosen for that date then, with the contracts of its expiry.   *)
ChainsAnswerTheirDate ==
  \A e \in DOMAIN chains :
    LET c == chains[e].chain
    IN c.requested = e /\ Answers(c.expiry, e, c.offered) /\ c.contracts = c.expiry

(* A suite whose own chain is empty though the provider lists expiries: the  *)
(* provider failed for that expiry, or the date is past the last listed one  *)
(* and more are listed than the suite has room for (yfinance.py: the expiry  *)
(* is then the last, the surface the first few).                             *)
SuiteHoldsItsChain ==
  reply.kind = "suite" =>
    LET c == reply.current
    IN \/ c.offered = {}
       \/ c.contracts = c.expiry /\ Answers(c.expiry, reply.requested, c.offered)
       \/ c.contracts = NoExpiry /\ c.expiry \in reply.failing
       \/ /\ c.contracts = NoExpiry
          /\ \A e \in c.offered : e < reply.requested
          /\ Cardinality(c.offered) > reply.size
=============================================================================
