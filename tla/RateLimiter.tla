----------------------------- MODULE RateLimiter -----------------------------
(***************************************************************************)
(* The fixed-window rate limiter (app/connectors/market_data/limiter.py)   *)
(* and its three users: admission of a refresh, which checks one counter   *)
(* after the other (INCRBY, EXPIRE, TTL); provider slots and the auth      *)
(* routes, which charge all counters of a request or none (a Lua script).  *)
(* Without a required Redis a failing command is answered from counters in *)
(* the memory of the process.                                              *)
(*                                                                         *)
(* Every Redis command, every read and write of the memory and every       *)
(* second of the clock is a step.                                          *)
(***************************************************************************)
EXTENDS Integers, Sequences

CONSTANTS
  Keys,       (* Counters.                                                  *)
  Threads,    (* Threads of the one process looked at: each process has its *)
              (* own memory and shares only Redis.                          *)
  Limit,      (* Key -> units per window.                                   *)
  Window,     (* Key -> ticks of a window.                                  *)
  Traffic,    (* What the threads may ask for: a set of Threads -> calls.   *)
  Faults,     (* Faults that happen: "error", "stop", "expire".             *)
  MaxFaults,  (* Bound: faults in a behaviour.                              *)
  Cap         (* Bound: a counter stops here, above its limit and any cost. *)

(* A call: the counters to charge in this order, by how much, whether all   *)
(* or none (check_many), whether it waits for room (acquire_provider_-      *)
(* fetch_slot), and whether it answers a failing Redis with a new, empty    *)
(* in-memory limiter (enforce_auth_rate_limit).                             *)
Call == [keys: Seq(Keys), cost: Nat \ {0}, many: BOOLEAN, wait: BOOLEAN,
         fresh: BOOLEAN]

ASSUME LimitAssumption == Limit \in [Keys -> Int]
ASSUME WindowAssumption == Window \in [Keys -> Nat]
ASSUME CapAssumption ==
  Cap \in [Keys -> Nat] /\ \A k \in Keys : Limit[k] < Cap[k]
ASSUME TrafficAssumption ==
  \A served \in Traffic : \A t \in Threads : \A c \in served[t] :
    /\ c \in Call /\ c.keys # << >>
    /\ \A i \in DOMAIN c.keys : c.cost < Cap[c.keys[i]]
    /\ \A i, j \in DOMAIN c.keys : c.keys[i] = c.keys[j] => i = j
    /\ c.wait => c.many

(* Counters charged all or none have one window (a minute for the provider,  *)
(* one setting per auth action), and admission charges none of them (its     *)
(* keys have another prefix).                                                *)
ASSUME ManyAssumption ==
  \A served \in Traffic : \A s, t \in Threads :
    \A c \in served[s] : \A d \in served[t] : c.many =>
      /\ \A i, j \in DOMAIN c.keys :
           Window[c.keys[i]] = Window[c.keys[j]] /\ Window[c.keys[i]] > 0
      /\ ~d.many => \A i \in DOMAIN c.keys : \A j \in DOMAIN d.keys :
           c.keys[i] # d.keys[j]

VARIABLES
  require,    (* MARKET_DATA_REQUIRE_REDIS_LIMITER, AUTH_REQUIRE_...        *)
  traffic,    (* What each thread may ask for, fixed for a behaviour.       *)
  redis,      (* Key -> count and ticks to live (-1: no expiry).            *)
  memory,     (* Key -> count and ticks left, in this process.              *)
  req,        (* What each thread is doing.                                 *)
  faults,     (* Number of faults so far.                                   *)
  passed,     (* History: units a Redis counter let through in its window.  *)
  share       (* History: of the units on a counter in its window, those    *)
              (* charged by all-or-none calls whose last counter is this.   *)

vars == <<require, traffic, redis, memory, req, faults, passed, share>>

Absent == [count |-> 0, ttl |-> 0]
Steps == {"eval", "incr", "expire", "ttl", "read", "store", "sleep"}
Request == [at: Steps, call: Call, on: Nat, got: Nat, timer: Nat]
Idle == [at |-> "idle"]

Init ==
  /\ require \in BOOLEAN
  /\ traffic \in Traffic
  /\ redis = [k \in Keys |-> Absent]
  /\ memory = [k \in Keys |-> Absent]
  /\ req = [t \in Threads |-> Idle]
  /\ faults = 0
  /\ passed = [k \in Keys |-> 0]
  /\ share = [k \in Keys |-> [l \in Keys |-> 0]]

-----------------------------------------------------------------------------
Plus(k, n, cost) == IF n + cost > Cap[k] THEN Cap[k] ELSE n + cost
LargerOf(m, n) == IF m > n THEN m ELSE n

KeyOf(t) == req[t].call.keys[req[t].on]
KeysOf(c) == {c.keys[i] : i \in DOMAIN c.keys}
FirstKey(c) == c.keys[1]
LastKey(c) == c.keys[Len(c.keys)]

(* Admission skips a check whose limit or window is not positive.            *)
Enforced(c, i) == c.many \/ (Limit[c.keys[i]] > 0 /\ Window[c.keys[i]] > 0)
ChecksAfter(c, i) == {j \in DOMAIN c.keys : i < j /\ Enforced(c, j)}
FirstOf(i, S) == i \in S /\ \A j \in S : i <= j

Answer(t) == req' = [req EXCEPT ![t] = Idle]
At(c, at, i) == [at |-> at, call |-> c, on |-> i, got |-> 0, timer |-> 0]

(* Mutant: goes on without looking whether there is a next counter.          *)
AdvanceBlind(t, c, i) == req' = [req EXCEPT ![t] = At(c, "incr", i + 1)]

(* Go on with the next counter; after the last one the call is allowed.      *)
Advance(t, c, i) ==
  \/ ChecksAfter(c, i) = {} /\ Answer(t)
  \/ \E j \in DOMAIN c.keys :
       /\ FirstOf(j, ChecksAfter(c, i))
       /\ req' = [req EXCEPT ![t] = At(c, "incr", j)]

(* A refused call raises RateLimitExceeded, or sleeps and tries again.       *)
Refuse(t, ticks) ==
  IF req[t].call.wait
  THEN req' = [req EXCEPT ![t] =
         [At(req[t].call, "sleep", 1) EXCEPT !.timer = LargerOf(ticks, 1)]]
  ELSE Answer(t)

(* The answer of TTL, or the whole window when there is none.                *)
TicksLeft(k) == IF redis[k].ttl > 0 THEN redis[k].ttl ELSE Window[k]

(* History of a charge on counter k by call c.                               *)
Shared(c, k) ==
  IF c.many /\ k = FirstKey(c)
  THEN [share EXCEPT ![k][LastKey(c)] = Plus(k, @, c.cost)]
  ELSE share

-----------------------------------------------------------------------------
Ask(t, c) ==
  /\ req[t].at = "idle"
  /\ IF c.many THEN req' = [req EXCEPT ![t] = At(c, "eval", 1)]
     ELSE Advance(t, c, 0)
  /\ UNCHANGED <<require, traffic, redis, memory, faults, passed, share>>

(* Mutant: compares what was used so far.                                    *)
NoRoomLeft(c) ==
  {i \in DOMAIN c.keys : redis[c.keys[i]].count >= Limit[c.keys[i]]}

(* _CHECK_MANY_SCRIPT: counters without room; the charge when there are none *)
NoRoom(c) ==
  {i \in DOMAIN c.keys : redis[c.keys[i]].count + c.cost > Limit[c.keys[i]]}

(* Mutant: the script does not set the expiry of a new counter.              *)
ChargedForever(c) ==
  [k \in Keys |->
     IF k \notin KeysOf(c) THEN redis[k]
     ELSE [count |-> Plus(k, redis[k].count, c.cost),
           ttl |-> IF redis[k].count = 0 THEN -1 ELSE redis[k].ttl]]

Charged(c) ==
  [k \in Keys |->
     IF k \notin KeysOf(c) THEN redis[k]
     ELSE [count |-> Plus(k, redis[k].count, c.cost),
           ttl |-> IF redis[k].count = 0 THEN Window[k] ELSE redis[k].ttl]]

(* RedisRateLimiter.check_many, its EVAL answered.                           *)
CheckMany(t) ==
  /\ req[t].at = "eval"
  /\ LET c == req[t].call IN
       IF NoRoom(c) = {}
       THEN /\ redis' = Charged(c)
            /\ passed' = [k \in Keys |-> IF k \in KeysOf(c)
                            THEN Plus(k, passed[k], c.cost) ELSE passed[k]]
            /\ share' = Shared(c, FirstKey(c))
            /\ Answer(t)
       ELSE /\ \E i \in DOMAIN c.keys :
                 FirstOf(i, NoRoom(c)) /\ Refuse(t, TicksLeft(c.keys[i]))
            /\ UNCHANGED <<redis, passed, share>>
  /\ UNCHANGED <<require, traffic, memory, faults>>

(* Mutant: goes on counter by counter whether Redis is required or not.      *)
FallBackAlways(t) ==
  IF req[t].call.fresh THEN Answer(t) ELSE Advance(t, req[t].call, 0)

(* A failing Redis: an error where it is required, else the auth routes take *)
(* an empty limiter, which has room, and the slots go on counter by counter. *)
AfterEvalRaises(t) ==
  IF require \/ req[t].call.fresh THEN Answer(t)
  ELSE Advance(t, req[t].call, 0)

(* EVAL raises; the script may have run.                                     *)
EvalRaises(t) ==
  /\ req[t].at = "eval"
  /\ "error" \in Faults /\ faults < MaxFaults
  /\ faults' = faults + 1
  /\ LET c == req[t].call IN
       \/ UNCHANGED <<redis, share>>
       \/ /\ NoRoom(c) = {}
          /\ redis' = Charged(c)
          /\ share' = Shared(c, FirstKey(c))
  /\ AfterEvalRaises(t)
  /\ UNCHANGED <<require, traffic, memory, passed>>

-----------------------------------------------------------------------------
(* RedisRateLimiter.check: INCRBY, EXPIRE when it made the counter, TTL.     *)
Incremented(t) ==
  [redis EXCEPT ![KeyOf(t)] =
     [count |-> Plus(KeyOf(t), @.count, req[t].call.cost),
      ttl |-> IF @.count = 0 THEN -1 ELSE @.ttl]]

(* Mutant: the expiry is set again by every check.                           *)
AfterIncrAlways(n, cost) == "expire"

AfterIncr(n, cost) == IF n = cost THEN "expire" ELSE "ttl"

Incr(t) ==
  /\ req[t].at = "incr"
  /\ LET c == req[t].call
         k == KeyOf(t)
         n == Plus(k, redis[k].count, c.cost)
     IN /\ redis' = Incremented(t)
        /\ req' = [req EXCEPT ![t].at = AfterIncr(n, c.cost), ![t].got = n]
        /\ passed' = [passed EXCEPT ![k] =
                        IF n <= Limit[k] THEN Plus(k, @, c.cost) ELSE @]
        /\ share' = Shared(c, k)
  /\ UNCHANGED <<require, traffic, memory, faults>>

SetExpiry(t) ==
  /\ req[t].at = "expire"
  /\ redis' = [redis EXCEPT ![KeyOf(t)].ttl = Window[KeyOf(t)]]
  /\ req' = [req EXCEPT ![t].at = "ttl"]
  /\ UNCHANGED <<require, traffic, memory, faults, passed, share>>

Judge(t) ==
  /\ req[t].at = "ttl"
  /\ IF req[t].got <= Limit[KeyOf(t)] THEN Advance(t, req[t].call, req[t].on)
     ELSE Refuse(t, TicksLeft(KeyOf(t)))
  /\ UNCHANGED <<require, traffic, redis, memory, faults, passed, share>>

(* A command of check raises; an INCRBY may have been done. Raising with a   *)
(* counter made and no expiry set is the fault "expire".                     *)
CheckRaises(t) ==
  /\ req[t].at \in {"incr", "expire", "ttl"}
  /\ "error" \in Faults /\ faults < MaxFaults
  /\ faults' = faults + 1
  /\ \/ /\ req[t].at = "expire" => "expire" \in Faults
        /\ UNCHANGED <<redis, share>>
     \/ /\ req[t].at = "incr"
        /\ redis[KeyOf(t)].count = 0 => "expire" \in Faults
        /\ redis' = Incremented(t)
        /\ share' = Shared(req[t].call, KeyOf(t))
  /\ IF require THEN Answer(t) ELSE req' = [req EXCEPT ![t].at = "read"]
  /\ UNCHANGED <<require, traffic, memory, passed>>

-----------------------------------------------------------------------------
(* InMemoryRateLimiter.check: reads the counter and stores it one higher;    *)
(* nothing locks it in between.                                              *)
MemoryRead(t) ==
  /\ req[t].at = "read"
  /\ LET m == memory[KeyOf(t)] IN
       req' = [req EXCEPT ![t].at = "store", ![t].got = m.count,
                 ![t].timer = IF m.ttl = 0 THEN Window[KeyOf(t)] ELSE m.ttl]
  /\ UNCHANGED <<require, traffic, redis, memory, faults, passed, share>>

MemoryStore(t) ==
  /\ req[t].at = "store"
  /\ LET k == KeyOf(t)
         n == Plus(k, req[t].got, req[t].call.cost)
     IN /\ memory' = [memory EXCEPT ![k] = IF req[t].timer = 0 THEN Absent
                        ELSE [count |-> n, ttl |-> req[t].timer]]
        /\ IF n <= Limit[k] THEN Advance(t, req[t].call, req[t].on)
           ELSE Refuse(t, req[t].timer)
  /\ UNCHANGED <<require, traffic, redis, faults, passed, share>>

Wake(t) ==
  /\ req[t].at = "sleep" /\ req[t].timer = 0
  /\ req' = [req EXCEPT ![t] = At(req[t].call, "eval", 1)]
  /\ UNCHANGED <<require, traffic, redis, memory, faults, passed, share>>

-----------------------------------------------------------------------------
(* A second passes; counters whose time is up are gone.                      *)
Aged(c) ==
  IF c.ttl = 1 THEN Absent
  ELSE [c EXCEPT !.ttl = IF @ > 0 THEN @ - 1 ELSE @]

Tick ==
  /\ redis' = [k \in Keys |-> Aged(redis[k])]
  /\ memory' = [k \in Keys |-> Aged(memory[k])]
  /\ req' = [t \in Threads |->
       IF req[t].at \in {"store", "sleep"} /\ req[t].timer > 0
       THEN [req[t] EXCEPT !.timer = @ - 1] ELSE req[t]]
  /\ passed' = [k \in Keys |-> IF redis[k].ttl = 1 THEN 0 ELSE passed[k]]
  /\ share' = [k \in Keys |-> [l \in Keys |->
                 IF redis[k].ttl = 1 THEN 0 ELSE share[k][l]]]
  /\ UNCHANGED <<require, traffic, faults>>

(* The process stops and starts again. Stopping with a counter made and no   *)
(* expiry set is the fault "expire".                                         *)
Stop ==
  /\ "stop" \in Faults /\ faults < MaxFaults
  /\ "expire" \in Faults \/ \A t \in Threads : req[t].at # "expire"
  /\ faults' = faults + 1
  /\ req' = [t \in Threads |-> Idle]
  /\ memory' = [k \in Keys |-> Absent]
  /\ UNCHANGED <<require, traffic, redis, passed, share>>

Step(t) ==
  \/ CheckMany(t) \/ Incr(t) \/ SetExpiry(t) \/ Judge(t)
  \/ MemoryRead(t) \/ MemoryStore(t) \/ Wake(t)

Next ==
  \/ \E t \in Threads : \E c \in traffic[t] : Ask(t, c)
  \/ \E t \in Threads : Step(t) \/ EvalRaises(t) \/ CheckRaises(t)
  \/ Tick
  \/ Stop

Spec == Init /\ [][Next]_vars

(* Time passes, and a thread that can go on does.                            *)
FairSpec == Spec /\ WF_vars(Tick) /\ \A t \in Threads : WF_vars(Step(t))

-----------------------------------------------------------------------------
(* Type invariant.                                                           *)
TypeOK ==
  /\ require \in BOOLEAN
  /\ traffic \in Traffic
  /\ redis \in [Keys -> [count: Nat, ttl: Nat \cup {-1}]]
  /\ memory \in [Keys -> [count: Nat, ttl: Nat]]
  /\ req \in [Threads -> Request \cup {Idle}]
  /\ \A t \in Threads : req[t].at # "idle" =>
       req[t].call \in traffic[t] /\ req[t].on \in DOMAIN req[t].call.keys
  /\ faults \in Nat
  /\ passed \in [Keys -> Nat]
  /\ share \in [Keys -> [Keys -> Nat]]

(* "Per user per minute", "Per-account provider budget units" (README): a    *)
(* Redis counter never lets more units through in one of its windows than    *)
(* its limit, whatever the costs, whichever threads check it in whatever     *)
(* order, also when commands fail after having had their effect              *)
(* (RedisRateLimiter.check and check_many).                                  *)
WindowKept == \A k \in Keys : passed[k] <= LargerOf(Limit[k], 0)

(* "so one public user cannot monopolize yfinance capacity" (README): where  *)
(* Redis is required, one account takes less than twice its own budget out   *)
(* of one window of the shared one, however often it asks and is refused,    *)
(* and with answers of Redis lost (acquire_provider_fetch_slot).             *)
NoMonopoly ==
  require => \A t \in Threads : \A c \in traffic[t] :
    c.many /\ Limit[LastKey(c)] > 0 =>
      share[FirstKey(c)][LastKey(c)] < 2 * Limit[LastKey(c)]

(* A call that waits for room gets it, and every call ends: the one worker   *)
(* that fetches does not wait for ever (acquire_provider_fetch_slot).        *)
EveryCallEnds ==
  \A t \in Threads : req[t].at # "idle" ~> req[t].at = "idle"

(* "Too many market-data refresh requests. Try again shortly." (the message  *)
(* of enforce_market_data_refresh_limits): a budget that is used up has room *)
(* again later, however impatiently the user goes on asking.                 *)
AdmissionKeys ==
  {k \in Keys : /\ Limit[k] > 0 /\ Window[k] > 0
                /\ \E served \in Traffic : \E t \in Threads : \E c \in served[t] :
                     ~c.many /\ k \in KeysOf(c)}
BudgetComesBack ==
  \A k \in AdmissionKeys : redis[k].count >= Limit[k] ~> redis[k].count < Limit[k]
=============================================================================
