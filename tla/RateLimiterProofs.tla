-------------------------- MODULE RateLimiterProofs --------------------------
(***************************************************************************)
(* Proofs about RateLimiter, for any counters, limits, windows, threads    *)
(* and traffic.                                                            *)
(***************************************************************************)
EXTENDS RateLimiter, TLAPS

(* What a window let through is on its counter.                              *)
PassedInv ==
  \A k \in Keys :
    /\ redis[k].count <= Cap[k]
    /\ passed[k] <= redis[k].count
    /\ passed[k] <= LargerOf(Limit[k], 0)

(* Where Redis is required, all-or-none calls are never charged one by one.  *)
Calm(r) ==
  /\ r.at \in {"incr", "expire", "ttl"} => ~r.call.many
  /\ r.at \notin {"read", "store"}
  /\ r.at \in {"eval", "sleep"} => r.call.many
NoFallback == require => \A t \in Threads : Calm(req[t])

ManyKeys ==
  {k \in Keys : \E t \in Threads : \E c \in traffic[t] : c.many /\ k \in KeysOf(c)}

(* Then their counters stay within the limit, and exist just as long as they *)
(* have an expiry.                                                           *)
ManyInv ==
  require => \A k \in ManyKeys :
    /\ redis[k].count <= LargerOf(Limit[k], 0)
    /\ redis[k].count = 0 <=> redis[k].ttl = 0
    /\ redis[k].ttl \in 0 .. Window[k]

(* How the windows of the shared counter f and of an account's own counter l *)
(* lie: l's began before f's (then a unit of l is not in f's window), with   *)
(* it, or within it (then what l's last window took was less than its limit).*)
Lies(s, fcount, fttl, lcount, lttl, lim, win) ==
  /\ fcount = 0 => s = 0
  /\ lcount = 0 => s < lim /\ (fttl = win => s = 0)
  /\ lcount > 0 =>
       /\ lttl < fttl => s < lcount
       /\ lttl = fttl => s <= lcount
       /\ lttl > fttl => s < lim + lcount
Within(f, l) ==
  Lies(share[f][l], redis[f].count, redis[f].ttl, redis[l].count, redis[l].ttl,
       Limit[l], Window[f])

ShareInv ==
  require => \A t \in Threads : \A c \in traffic[t] :
    c.many /\ Limit[LastKey(c)] > 0 => Within(FirstKey(c), LastKey(c))

IInv == TypeOK /\ PassedInv /\ NoFallback /\ ManyInv /\ ShareInv

-----------------------------------------------------------------------------
(* Data.                                                                     *)

LEMMA PlusFacts ==
  ASSUME NEW k \in Keys, NEW n \in Nat, NEW cost \in Nat \ {0}
  PROVE  /\ Plus(k, n, cost) \in Nat
         /\ Plus(k, n, cost) <= n + cost
         /\ Plus(k, n, cost) <= Cap[k]
         /\ n <= Cap[k] => Plus(k, n, cost) >= n
         /\ n + cost <= LargerOf(Limit[k], 0) => Plus(k, n, cost) = n + cost
         /\ Plus(k, n, cost) <= Limit[k] => Plus(k, n, cost) = n + cost
         /\ cost < Cap[k] => Plus(k, n, cost) > 0
<1>1. Cap[k] \in Nat /\ Limit[k] \in Int /\ Limit[k] < Cap[k]
  BY CapAssumption, LimitAssumption
<1>2. QED
  BY <1>1 DEF Plus, LargerOf

LEMMA CallFacts ==
  ASSUME TypeOK, NEW t \in Threads, NEW c \in traffic[t]
  PROVE  /\ c \in Call
         /\ c.cost \in Nat \ {0}
         /\ c.many \in BOOLEAN /\ c.wait \in BOOLEAN
         /\ c.wait => c.many
         /\ 1 \in DOMAIN c.keys
         /\ \A i \in DOMAIN c.keys : i \in Nat /\ c.keys[i] \in Keys
                                     /\ c.cost < Cap[c.keys[i]]
         /\ KeysOf(c) \subseteq Keys
         /\ FirstKey(c) \in KeysOf(c) /\ LastKey(c) \in KeysOf(c)
         /\ \A k \in KeysOf(c) : c.cost < Cap[k]
<1>1. traffic \in Traffic
  BY DEF TypeOK
<1>2. /\ c \in Call /\ c.keys # << >>
      /\ \A i \in DOMAIN c.keys : c.cost < Cap[c.keys[i]]
      /\ c.wait => c.many
  BY <1>1, TrafficAssumption
<1>3. /\ c.keys \in Seq(Keys) /\ c.cost \in Nat \ {0}
      /\ c.many \in BOOLEAN /\ c.wait \in BOOLEAN
  BY <1>2 DEF Call
<1>4. /\ Len(c.keys) \in Nat /\ Len(c.keys) > 0
      /\ DOMAIN c.keys = 1 .. Len(c.keys)
      /\ \A i \in 1 .. Len(c.keys) : c.keys[i] \in Keys
  BY <1>2, <1>3
<1>5. 1 \in DOMAIN c.keys /\ Len(c.keys) \in DOMAIN c.keys
  BY <1>4
<1>6. KeysOf(c) \subseteq Keys /\ \A k \in KeysOf(c) : c.cost < Cap[k]
  BY <1>2, <1>4 DEF KeysOf
<1>7. FirstKey(c) \in KeysOf(c) /\ LastKey(c) \in KeysOf(c)
  BY <1>5 DEF KeysOf, FirstKey, LastKey
<1>8. QED
  BY <1>2, <1>3, <1>4, <1>5, <1>6, <1>7

(* Keys of an all-or-none call have one window and are nobody else's.        *)
LEMMA ManyFacts ==
  ASSUME TypeOK, NEW t \in Threads, NEW c \in traffic[t], c.many
  PROVE  /\ KeysOf(c) \subseteq ManyKeys
         /\ \A k, l \in KeysOf(c) : Window[k] = Window[l] /\ Window[k] \in Nat \ {0}
<1>1. KeysOf(c) \subseteq ManyKeys
  BY CallFacts DEF ManyKeys
<1>2. \A i, j \in DOMAIN c.keys :
        Window[c.keys[i]] = Window[c.keys[j]] /\ Window[c.keys[i]] > 0
  BY ManyAssumption DEF TypeOK
<1>3. QED
  BY <1>1, <1>2, CallFacts, WindowAssumption DEF KeysOf

LEMMA EachFacts ==
  ASSUME TypeOK, NEW t \in Threads, NEW c \in traffic[t], ~c.many,
         NEW i \in DOMAIN c.keys
  PROVE  c.keys[i] \notin ManyKeys
<1>1. SUFFICES ASSUME NEW s \in Threads, NEW d \in traffic[s], d.many,
                      c.keys[i] \in KeysOf(d)
               PROVE  FALSE
  BY DEF ManyKeys
<1>2. PICK j \in DOMAIN d.keys : c.keys[i] = d.keys[j]
  BY <1>1 DEF KeysOf
<1>3. d.keys[j] # c.keys[i]
  BY <1>1, ManyAssumption DEF TypeOK
<1>4. QED
  BY <1>2, <1>3
-----------------------------------------------------------------------------
(* Requests.                                                                 *)

Fits(t, r) ==
  /\ r \in Request \cup {Idle}
  /\ r.at # "idle" => r.call \in traffic[t] /\ r.on \in DOMAIN r.call.keys

(* Thread t goes on with the request r.                                      *)
Moved(t, r) == Fits(t, r) /\ req' = [req EXCEPT ![t] = r] /\ (require => Calm(r))

LEMMA RequestFacts ==
  ASSUME TypeOK, NEW t \in Threads
  PROVE  /\ Fits(t, req[t])
         /\ req[t].at # "idle" =>
              /\ req[t] \in Request
              /\ req[t].at \in Steps
              /\ req[t].call \in traffic[t]
              /\ req[t].on \in DOMAIN req[t].call.keys
              /\ req[t].got \in Nat /\ req[t].timer \in Nat
              /\ KeyOf(t) \in Keys /\ KeyOf(t) \in KeysOf(req[t].call)
<1>1. Fits(t, req[t])
  BY DEF Fits, TypeOK
<1>2. ASSUME req[t].at # "idle"
      PROVE  /\ req[t] \in Request
             /\ req[t].at \in Steps
             /\ req[t].got \in Nat /\ req[t].timer \in Nat
  BY <1>1, <1>2 DEF Fits, Idle, Request
<1>3. ASSUME req[t].at # "idle"
      PROVE  KeyOf(t) \in Keys /\ KeyOf(t) \in KeysOf(req[t].call)
  <2>1. req[t].call \in traffic[t] /\ req[t].on \in DOMAIN req[t].call.keys
    BY <1>1, <1>3 DEF Fits
  <2>2. KeyOf(t) \in KeysOf(req[t].call)
    BY <2>1 DEF KeyOf, KeysOf
  <2>3. QED
    BY <2>1, <2>2, CallFacts
<1>4. QED
  BY <1>1, <1>2, <1>3 DEF Fits

LEMMA IdleFits ==
  ASSUME NEW t \in Threads
  PROVE  Fits(t, Idle) /\ Calm(Idle)
BY DEF Fits, Calm, Idle

LEMMA AtFits ==
  ASSUME TypeOK, NEW t \in Threads, NEW c \in traffic[t], NEW at \in Steps,
         NEW i \in DOMAIN c.keys
  PROVE  /\ Fits(t, At(c, at, i)) /\ At(c, at, i) \in Request
         /\ At(c, at, i).at = at /\ At(c, at, i).call = c
<1>1. c \in Call /\ i \in Nat
  BY CallFacts
<1>2. QED
  BY <1>1 DEF Fits, At, Request

LEMMA AnswerMoves ==
  ASSUME NEW t \in Threads, Answer(t)
  PROVE  \E r : Moved(t, r)
BY IdleFits DEF Answer, Moved

LEMMA AdvanceMoves ==
  ASSUME TypeOK, NEW t \in Threads, NEW c \in traffic[t], NEW i, Advance(t, c, i),
         require => ~c.many
  PROVE  \E r : Moved(t, r)
<1>1. CASE Answer(t)
  BY <1>1, AnswerMoves
<1>2. ASSUME NEW j \in DOMAIN c.keys, req' = [req EXCEPT ![t] = At(c, "incr", j)]
      PROVE  \E r : Moved(t, r)
  <2>1. /\ Fits(t, At(c, "incr", j))
        /\ At(c, "incr", j).at = "incr" /\ At(c, "incr", j).call = c
    BY AtFits DEF Steps
  <2>2. require => Calm(At(c, "incr", j))
    BY <2>1 DEF Calm
  <2>3. QED
    BY <1>2, <2>1, <2>2 DEF Moved
<1>3. QED
  BY <1>1, <1>2 DEF Advance

LEMMA RefuseMoves ==
  ASSUME TypeOK, NEW t \in Threads, NEW ticks \in Nat, req[t].at # "idle",
         Refuse(t, ticks)
  PROVE  \E r : Moved(t, r)
<1> DEFINE c == req[t].call
           n == LargerOf(ticks, 1)
           r == [At(c, "sleep", 1) EXCEPT !.timer = n]
<1>1. CASE Answer(t)
  BY <1>1, AnswerMoves
<1>2. CASE c.wait /\ req' = [req EXCEPT ![t] = r]
  <2>1. c \in traffic[t]
    BY RequestFacts
  <2>2. 1 \in DOMAIN c.keys /\ c.many /\ c \in Call
    BY <1>2, <2>1, CallFacts
  <2>3. n \in Nat
    BY DEF LargerOf
  <2>4. r \in Request /\ r.at = "sleep" /\ r.call = c /\ r.on = 1
    BY <2>2, <2>3 DEF At, Request, Steps
  <2>5. Fits(t, r) /\ Calm(r)
    BY <2>1, <2>2, <2>4 DEF Fits, Calm
  <2>6. QED
    BY <1>2, <2>5 DEF Moved
<1>3. QED
  BY <1>1, <1>2 DEF Refuse

(* Another step of the same call.                                            *)
LEMMA StepMoves ==
  ASSUME TypeOK, NEW t \in Threads, req[t].at # "idle", NEW at \in Steps,
         NEW got \in Nat, NEW timer \in Nat,
         req' = [req EXCEPT ![t].at = at, ![t].got = got, ![t].timer = timer],
         require => IF at \in {"eval", "sleep"} THEN req[t].call.many
                    ELSE ~req[t].call.many /\ at \notin {"read", "store"}
  PROVE  \E r : Moved(t, r)
<1> DEFINE r == [req[t] EXCEPT !.at = at, !.got = got, !.timer = timer]
<1>1. req[t] \in Request /\ req[t].call \in traffic[t]
      /\ req[t].on \in DOMAIN req[t].call.keys
  BY RequestFacts
<1>2. r \in Request /\ r.at = at /\ r.call = req[t].call /\ r.on = req[t].on
  BY <1>1 DEF Request
<1>3. Fits(t, r)
  BY <1>1, <1>2 DEF Fits
<1>4. require => Calm(r)
  BY <1>2 DEF Calm
<1>5. req' = [req EXCEPT ![t] = r]
  BY DEF TypeOK
<1>6. QED
  BY <1>3, <1>4, <1>5 DEF Moved

(* Then the requests keep their types and their calm.                        *)
ReqOK ==
  /\ req \in [Threads -> Request \cup {Idle}]
  /\ \A t \in Threads : req[t].at # "idle" =>
       req[t].call \in traffic[t] /\ req[t].on \in DOMAIN req[t].call.keys
Steady == require' = require /\ traffic' = traffic

LEMMA MovedKeeps ==
  ASSUME TypeOK, NoFallback, Steady, NEW t \in Threads, \E r : Moved(t, r)
  PROVE  ReqOK' /\ NoFallback'
<1>1. PICK r : Moved(t, r)
  OBVIOUS
<1>2. /\ req' \in [Threads -> Request \cup {Idle}]
      /\ \A s \in Threads : req'[s] = IF s = t THEN r ELSE req[s]
  BY <1>1 DEF Moved, Fits, TypeOK
<1>3. ASSUME NEW s \in Threads, req'[s].at # "idle"
      PROVE  req'[s].call \in traffic[s] /\ req'[s].on \in DOMAIN req'[s].call.keys
  BY <1>1, <1>2, <1>3 DEF Moved, Fits, TypeOK
<1>4. ASSUME require, NEW s \in Threads
      PROVE  Calm(req'[s])
  BY <1>1, <1>2, <1>4 DEF Moved, NoFallback
<1>5. ReqOK'
  BY <1>2, <1>3 DEF ReqOK, Steady
<1>6. NoFallback'
  BY <1>4 DEF NoFallback, Steady
<1>7. QED
  BY <1>5, <1>6
-----------------------------------------------------------------------------
(* Counters.                                                                 *)

CountersOK ==
  /\ redis \in [Keys -> [count: Nat, ttl: Nat \cup {-1}]]
  /\ passed \in [Keys -> Nat]
  /\ share \in [Keys -> [Keys -> Nat]]

LEMMA CounterFacts ==
  ASSUME TypeOK, NEW k \in Keys
  PROVE  /\ redis[k].count \in Nat
         /\ redis[k].ttl \in Int /\ redis[k].ttl >= -1
         /\ passed[k] \in Nat
         /\ \A l \in Keys : share[k][l] \in Nat
         /\ Limit[k] \in Int /\ Window[k] \in Nat /\ Cap[k] \in Nat /\ Limit[k] < Cap[k]
<1>1. redis[k] \in [count: Nat, ttl: Nat \cup {-1}]
  BY DEF TypeOK
<1>2. QED
  BY <1>1, LimitAssumption, WindowAssumption, CapAssumption DEF TypeOK

LEMMA SharedFacts ==
  ASSUME TypeOK, NEW t \in Threads, NEW c \in traffic[t], NEW k \in Keys
  PROVE  /\ Shared(c, k) \in [Keys -> [Keys -> Nat]]
         /\ ~c.many => Shared(c, k) = share
         /\ \A f, l \in Keys :
              Shared(c, k)[f][l] =
                IF c.many /\ k = FirstKey(c) /\ f = k /\ l = LastKey(c)
                THEN Plus(f, share[f][l], c.cost) ELSE share[f][l]
<1>1. c.cost \in Nat \ {0} /\ LastKey(c) \in Keys /\ share \in [Keys -> [Keys -> Nat]]
  BY CallFacts DEF TypeOK
<1>2. Plus(k, share[k][LastKey(c)], c.cost) \in Nat
  BY <1>1, PlusFacts
<1>3. QED
  BY <1>1, <1>2 DEF Shared

(* What a step leaves alone keeps the invariants of all-or-none counters.    *)
LEMMA ManyAloneKeeps ==
  ASSUME TypeOK, ManyInv, ShareInv, Steady,
         require => \A k \in ManyKeys :
           redis'[k] = redis[k] /\ \A l \in ManyKeys : share'[k][l] = share[k][l]
  PROVE  ManyInv' /\ ShareInv'
<1>1. ManyKeys' = ManyKeys
  BY DEF ManyKeys, Steady
<1>2. ManyInv'
  BY <1>1 DEF ManyInv, Steady
<1>3. ASSUME require, NEW t \in Threads, NEW c \in traffic[t], c.many,
             Limit[LastKey(c)] > 0
      PROVE  Within(FirstKey(c), LastKey(c))'
  <2>1. FirstKey(c) \in ManyKeys /\ LastKey(c) \in ManyKeys
    BY <1>3, ManyFacts, CallFacts
  <2>2. Within(FirstKey(c), LastKey(c))
    BY <1>3 DEF ShareInv
  <2>3. QED
    BY <1>3, <2>1, <2>2 DEF Within, FirstKey, LastKey
<1>4. QED
  BY <1>2, <1>3 DEF ShareInv, Steady

(* INCRBY                                                                    *)
LEMMA IncrementKeeps ==
  ASSUME IInv, Steady, NEW t \in Threads, req[t].at = "incr",
         redis' = Incremented(t), share' = Shared(req[t].call, KeyOf(t)),
         \/ passed' = passed
         \/ LET n == Plus(KeyOf(t), redis[KeyOf(t)].count, req[t].call.cost) IN
              passed' = [passed EXCEPT ![KeyOf(t)] = IF n <= Limit[KeyOf(t)]
                           THEN Plus(KeyOf(t), @, req[t].call.cost) ELSE @]
  PROVE  CountersOK' /\ PassedInv' /\ ManyInv' /\ ShareInv'
<1> DEFINE c == req[t].call
           k == KeyOf(t)
           n == Plus(k, redis[k].count, c.cost)
<1>1. TypeOK /\ PassedInv /\ NoFallback /\ ManyInv /\ ShareInv
  BY DEF IInv
<1>2. c \in traffic[t] /\ k \in Keys /\ req[t].on \in DOMAIN c.keys
  BY <1>1, RequestFacts
<1>3. c.cost \in Nat \ {0}
  BY <1>1, <1>2, CallFacts
<1>4. /\ redis[k].count \in Nat /\ passed[k] \in Nat /\ Limit[k] \in Int
      /\ redis \in [Keys -> [count: Nat, ttl: Nat \cup {-1}]]
      /\ passed \in [Keys -> Nat]
  BY <1>1, <1>2, CounterFacts DEF TypeOK
<1>5. /\ n \in Nat /\ n <= Cap[k] /\ n >= redis[k].count
      /\ n <= Limit[k] => n = redis[k].count + c.cost
  BY <1>1, <1>2, <1>3, <1>4, PlusFacts DEF PassedInv
<1>6. redis' = [redis EXCEPT ![k] =
                  [count |-> n, ttl |-> IF redis[k].count = 0 THEN -1 ELSE redis[k].ttl]]
  BY <1>2, <1>4 DEF Incremented
<1>7. /\ redis' \in [Keys -> [count: Nat, ttl: Nat \cup {-1}]]
      /\ \A l \in Keys : redis'[l].count = IF l = k THEN n ELSE redis[l].count
      /\ \A l \in Keys \ {k} : redis'[l] = redis[l]
  BY <1>2, <1>4, <1>5, <1>6
<1>8. /\ Plus(k, passed[k], c.cost) \in Nat
      /\ Plus(k, passed[k], c.cost) <= passed[k] + c.cost
  BY <1>2, <1>3, <1>4, PlusFacts
<1>9. /\ passed' \in [Keys -> Nat]
      /\ \A l \in Keys \ {k} : passed'[l] = passed[l]
      /\ \/ passed'[k] = passed[k]
         \/ n <= Limit[k] /\ passed'[k] = Plus(k, passed[k], c.cost)
  BY <1>2, <1>4, <1>8
<1>10. CountersOK'
  BY <1>1, <1>2, <1>7, <1>9, SharedFacts DEF CountersOK
<1>11. PassedInv'
  <2>0. passed[k] <= redis[k].count /\ passed[k] <= LargerOf(Limit[k], 0)
    BY <1>1, <1>2 DEF PassedInv
  <2>1. passed'[k] <= n /\ passed'[k] <= LargerOf(Limit[k], 0)
    <3>1. CASE passed'[k] = passed[k]
      BY <1>4, <1>5, <2>0, <3>1
    <3>2. CASE n <= Limit[k] /\ passed'[k] = Plus(k, passed[k], c.cost)
      <4>1. n = redis[k].count + c.cost
        BY <1>5, <3>2
      <4>2. passed'[k] <= n
        BY <1>3, <1>4, <1>8, <2>0, <3>2, <4>1
      <4>3. LargerOf(Limit[k], 0) >= Limit[k] /\ LargerOf(Limit[k], 0) \in Int
        BY <1>4 DEF LargerOf
      <4>4. QED
        BY <1>4, <1>5, <1>8, <3>2, <4>2, <4>3
    <3>3. QED
      BY <1>9, <3>1, <3>2
  <2>2. QED
    BY <1>1, <1>5, <1>7, <1>9, <2>1 DEF PassedInv
<1>12. ASSUME require
       PROVE  k \notin ManyKeys /\ share' = share
  <2>1. ~c.many
    BY <1>1, <1>12 DEF NoFallback, Calm
  <2>2. QED
    BY <1>1, <1>2, <2>1, EachFacts, SharedFacts DEF KeyOf
<1>13. ManyInv' /\ ShareInv'
  <2>1. ManyKeys \subseteq Keys
    BY DEF ManyKeys
  <2>2. QED
    BY <1>1, <1>7, <1>12, <2>1, ManyAloneKeeps
<1>14. QED
  BY <1>10, <1>11, <1>13

(* EXPIRE                                                                    *)
LEMMA ExpiryKeeps ==
  ASSUME IInv, Steady, NEW t \in Threads, req[t].at = "expire",
         redis' = [redis EXCEPT ![KeyOf(t)].ttl = Window[KeyOf(t)]],
         passed' = passed, share' = share
  PROVE  CountersOK' /\ PassedInv' /\ ManyInv' /\ ShareInv'
<1> DEFINE k == KeyOf(t)
<1>1. TypeOK /\ PassedInv /\ NoFallback /\ ManyInv /\ ShareInv
  BY DEF IInv
<1>2. k \in Keys /\ req[t].call \in traffic[t] /\ req[t].on \in DOMAIN req[t].call.keys
  BY <1>1, RequestFacts
<1>3. Window[k] \in Nat /\ redis \in [Keys -> [count: Nat, ttl: Nat \cup {-1}]]
  BY <1>1, <1>2, CounterFacts DEF TypeOK
<1>4. /\ redis' \in [Keys -> [count: Nat, ttl: Nat \cup {-1}]]
      /\ \A l \in Keys : redis'[l].count = redis[l].count
      /\ \A l \in Keys \ {k} : redis'[l] = redis[l]
  BY <1>2, <1>3
<1>5. CountersOK' /\ PassedInv'
  BY <1>1, <1>4 DEF CountersOK, PassedInv, TypeOK
<1>6. require => k \notin ManyKeys
  BY <1>1, <1>2, EachFacts DEF NoFallback, Calm, KeyOf
<1>7. ManyKeys \subseteq Keys
  BY DEF ManyKeys
<1>8. ManyInv' /\ ShareInv'
  BY <1>1, <1>4, <1>6, <1>7, ManyAloneKeeps
<1>9. QED
  BY <1>5, <1>8

(* A step that touches no Redis counter.                                     *)
LEMMA UntouchedKeeps ==
  ASSUME IInv, Steady, UNCHANGED <<redis, passed, share>>
  PROVE  CountersOK' /\ PassedInv' /\ ManyInv' /\ ShareInv'
<1>1. TypeOK /\ PassedInv /\ ManyInv /\ ShareInv
  BY DEF IInv
<1>2. CountersOK' /\ PassedInv'
  BY <1>1 DEF CountersOK, PassedInv, TypeOK
<1>3. ManyInv' /\ ShareInv'
  BY <1>1, ManyAloneKeeps
<1>4. QED
  BY <1>2, <1>3
(* The script charges every counter of the call.                             *)
LEMMA ChargeFacts ==
  ASSUME IInv, NEW t \in Threads, NEW c \in traffic[t], NoRoom(c) = {},
         redis' = Charged(c)
  PROVE  \A k \in Keys :
           /\ k \notin KeysOf(c) => redis'[k] = redis[k]
           /\ k \in KeysOf(c) =>
                /\ redis[k].count + c.cost <= Limit[k]
                /\ redis'[k].count = redis[k].count + c.cost
                /\ redis'[k].ttl = IF redis[k].count = 0 THEN Window[k] ELSE redis[k].ttl
           /\ redis'[k] \in [count: Nat, ttl: Nat \cup {-1}]
<1>1. TypeOK /\ c.cost \in Nat \ {0}
  BY CallFacts DEF IInv
<1>2. SUFFICES ASSUME NEW k \in Keys
               PROVE  /\ k \notin KeysOf(c) => redis'[k] = redis[k]
                      /\ k \in KeysOf(c) =>
                           /\ redis[k].count + c.cost <= Limit[k]
                           /\ redis'[k].count = redis[k].count + c.cost
                           /\ redis'[k].ttl = IF redis[k].count = 0 THEN Window[k]
                                             ELSE redis[k].ttl
                      /\ redis'[k] \in [count: Nat, ttl: Nat \cup {-1}]
  OBVIOUS
<1>3. /\ redis[k] \in [count: Nat, ttl: Nat \cup {-1}]
      /\ redis[k].count \in Nat /\ Window[k] \in Nat /\ Limit[k] \in Int
  BY <1>1, CounterFacts DEF TypeOK
<1>4. CASE k \notin KeysOf(c)
  BY <1>3, <1>4 DEF Charged
<1>5. CASE k \in KeysOf(c)
  <2>1. PICK i \in DOMAIN c.keys : c.keys[i] = k
    BY <1>5 DEF KeysOf
  <2>2. redis[k].count + c.cost <= Limit[k]
    BY <1>1, <1>3, <2>1 DEF NoRoom
  <2>3. Plus(k, redis[k].count, c.cost) = redis[k].count + c.cost
    <3>1. /\ Plus(k, redis[k].count, c.cost) <= Limit[k] =>
               Plus(k, redis[k].count, c.cost) = redis[k].count + c.cost
          /\ Plus(k, redis[k].count, c.cost) <= redis[k].count + c.cost
          /\ Plus(k, redis[k].count, c.cost) \in Nat
      BY <1>1, <1>3, PlusFacts
    <3>2. QED
      BY <1>1, <1>3, <2>2, <3>1
  <2>4. redis'[k] = [count |-> redis[k].count + c.cost,
                     ttl |-> IF redis[k].count = 0 THEN Window[k] ELSE redis[k].ttl]
    BY <1>5, <2>3 DEF Charged
  <2>5. QED
    BY <1>1, <1>3, <1>5, <2>2, <2>4
<1>6. QED
  BY <1>4, <1>5

(* How the windows of a pair lie, whatever call d is charged.                *)
LEMMA ChargeKeepsWithin ==
  ASSUME IInv, Steady, require, NEW t \in Threads, NEW d \in traffic[t], d.many,
         NoRoom(d) = {}, redis' = Charged(d), share' = Shared(d, FirstKey(d)),
         NEW s \in Threads, NEW c \in traffic[s], c.many, Limit[LastKey(c)] > 0
  PROVE  Within(FirstKey(c), LastKey(c))'
<1> DEFINE f == FirstKey(c)
           l == LastKey(c)
           both == FirstKey(d) = f /\ LastKey(d) = l
<1>1. TypeOK /\ ManyInv /\ Within(f, l)
  BY DEF IInv, ShareInv
<1>2. /\ f \in Keys /\ l \in Keys /\ f \in ManyKeys /\ l \in ManyKeys
      /\ Window[f] = Window[l] /\ Window[f] \in Nat \ {0}
  BY <1>1, CallFacts, ManyFacts
<1>3. d.cost \in Nat \ {0} /\ FirstKey(d) \in KeysOf(d) /\ LastKey(d) \in KeysOf(d)
      /\ FirstKey(d) \in Keys
  BY <1>1, CallFacts
<1>4. /\ redis[f].count \in Nat /\ redis[l].count \in Nat /\ share[f][l] \in Nat
      /\ Limit[l] \in Int
  BY <1>1, <1>2, CounterFacts
<1>5. /\ redis[f].count = 0 <=> redis[f].ttl = 0
      /\ redis[l].count = 0 <=> redis[l].ttl = 0
      /\ redis[f].ttl \in 0 .. Window[f] /\ redis[l].ttl \in 0 .. Window[l]
      /\ redis[l].count <= Limit[l]
  BY <1>1, <1>2, <1>4 DEF ManyInv, LargerOf
<1>6. /\ share'[f][l] \in Nat
      /\ ~both => share'[f][l] = share[f][l]
      /\ both => share'[f][l] <= share[f][l] + d.cost
  <2>1. share'[f][l] = IF both THEN Plus(f, share[f][l], d.cost) ELSE share[f][l]
    BY <1>1, <1>2, <1>3, SharedFacts
  <2>2. Plus(f, share[f][l], d.cost) \in Nat
        /\ Plus(f, share[f][l], d.cost) <= share[f][l] + d.cost
    BY <1>2, <1>3, <1>4, PlusFacts
  <2>3. QED
    BY <1>4, <2>1, <2>2
<1>7. \A k \in {f, l} :
        /\ k \notin KeysOf(d) => redis'[k].count = redis[k].count /\ redis'[k].ttl = redis[k].ttl
        /\ k \in KeysOf(d) =>
             /\ redis'[k].count = redis[k].count + d.cost
             /\ redis'[k].ttl = IF redis[k].count = 0 THEN Window[k] ELSE redis[k].ttl
  BY <1>2, ChargeFacts
<1>8. both => f \in KeysOf(d) /\ l \in KeysOf(d)
  BY <1>3
<1>9. /\ redis'[f].count \in Nat /\ redis'[l].count \in Nat
      /\ redis'[f].ttl \in Nat /\ redis'[l].ttl \in Nat
  BY <1>2, <1>3, <1>4, <1>5, <1>7
<1>10. Lies(share[f][l], redis[f].count, redis[f].ttl, redis[l].count, redis[l].ttl,
            Limit[l], Window[f])
  BY <1>1 DEF Within
<1>11. Lies(share'[f][l], redis'[f].count, redis'[f].ttl, redis'[l].count, redis'[l].ttl,
            Limit[l], Window[f])
  <2> DEFINE inF == f \in KeysOf(d)
             inL == l \in KeysOf(d)
  <2>1. /\ ~inF \/ ~inL => share'[f][l] = share[f][l]
        /\ share'[f][l] <= share[f][l] + d.cost
    BY <1>3, <1>4, <1>6, <1>8
  <2>2. /\ inF => /\ redis'[f].count = redis[f].count + d.cost
                  /\ redis[f].count = 0 => redis'[f].ttl = Window[f]
                  /\ redis[f].count # 0 => redis'[f].ttl = redis[f].ttl
        /\ ~inF => redis'[f].count = redis[f].count /\ redis'[f].ttl = redis[f].ttl
    BY <1>7
  <2>3. /\ inL => /\ redis'[l].count = redis[l].count + d.cost
                  /\ redis[l].count = 0 => redis'[l].ttl = Window[f]
                  /\ redis[l].count # 0 => redis'[l].ttl = redis[l].ttl
        /\ ~inL => redis'[l].count = redis[l].count /\ redis'[l].ttl = redis[l].ttl
    BY <1>2, <1>7
  <2>4. /\ redis[f].ttl \in Nat /\ redis[l].ttl \in Nat
        /\ redis[f].ttl <= Window[f] /\ redis[l].ttl <= Window[f]
        /\ Window[f] \in Nat /\ Window[f] > 0 /\ d.cost \in Nat /\ d.cost > 0
    BY <1>2, <1>3, <1>5
  <2> DEFINE s0 == share[f][l]
             s1 == share'[f][l]
             fc == redis[f].count
             ft == redis[f].ttl
             lc == redis[l].count
             lt == redis[l].ttl
             fc1 == redis'[f].count
             ft1 == redis'[f].ttl
             lc1 == redis'[l].count
             lt1 == redis'[l].ttl
             lim == Limit[l]
             win == Window[f]
             cost == d.cost
  <2>5. /\ s0 \in Nat /\ s1 \in Nat /\ fc \in Nat /\ lc \in Nat /\ ft \in Nat
        /\ lt \in Nat /\ fc1 \in Nat /\ lc1 \in Nat /\ ft1 \in Nat /\ lt1 \in Nat
        /\ lim \in Int /\ win \in Nat /\ cost \in Nat /\ cost > 0 /\ win > 0
        /\ ft <= win /\ lt <= win /\ s1 <= s0 + cost
        /\ (fc = 0 <=> ft = 0) /\ (lc = 0 <=> lt = 0)
        /\ ~inF \/ ~inL => s1 = s0
    BY <1>4, <1>5, <1>6, <1>9, <2>1, <2>4
  <2>6. /\ inF => /\ fc1 = fc + cost
                  /\ fc = 0 => ft1 = win
                  /\ fc # 0 => ft1 = ft
        /\ ~inF => fc1 = fc /\ ft1 = ft
        /\ inL => /\ lc1 = lc + cost
                  /\ lc = 0 => lt1 = win
                  /\ lc # 0 => lt1 = lt
        /\ ~inL => lc1 = lc /\ lt1 = lt
    BY <2>2, <2>3
  <2>7. Lies(s0, fc, ft, lc, lt, lim, win)
    BY <1>10
  <2> HIDE DEF inF, inL, s0, s1, fc, ft, lc, lt, fc1, ft1, lc1, lt1, lim, win, cost
  <2>8. Lies(s1, fc1, ft1, lc1, lt1, lim, win)
    <3>1. CASE ~inF /\ ~inL
      BY <2>5, <2>6, <2>7, <3>1
    <3>2. CASE ~inF /\ inL
      BY <2>5, <2>6, <2>7, <3>2 DEF Lies
    <3>3. CASE inF /\ ~inL
      BY <2>5, <2>6, <2>7, <3>3 DEF Lies
    <3>4. CASE inF /\ inL /\ fc = 0
      BY <2>5, <2>6, <2>7, <3>4 DEF Lies
    <3>5. CASE inF /\ inL /\ fc # 0 /\ lc = 0
      BY <2>5, <2>6, <2>7, <3>5 DEF Lies
    <3>6. CASE inF /\ inL /\ fc # 0 /\ lc # 0
      BY <2>5, <2>6, <2>7, <3>6 DEF Lies
    <3>7. QED
      BY <3>1, <3>2, <3>3, <3>4, <3>5, <3>6
  <2>9. QED
    BY <2>8 DEF s1, fc1, ft1, lc1, lt1, lim, win
<1>12. QED
  BY <1>11 DEF Within, FirstKey, LastKey

LEMMA ChargeKeeps ==
  ASSUME IInv, Steady, NEW t \in Threads, NEW c \in traffic[t], require => c.many,
         NoRoom(c) = {}, redis' = Charged(c), share' = Shared(c, FirstKey(c)),
         \/ passed' = passed
         \/ passed' = [k \in Keys |-> IF k \in KeysOf(c)
                         THEN Plus(k, passed[k], c.cost) ELSE passed[k]]
  PROVE  CountersOK' /\ PassedInv' /\ ManyInv' /\ ShareInv'
<1>1. TypeOK /\ PassedInv /\ ManyInv
  BY DEF IInv
<1>2. c.cost \in Nat \ {0} /\ FirstKey(c) \in Keys
  BY <1>1, CallFacts
<1>3. \A k \in Keys : /\ redis[k].count \in Nat /\ passed[k] \in Nat
                      /\ Limit[k] \in Int /\ Cap[k] \in Nat /\ Limit[k] < Cap[k]
                      /\ Window[k] \in Nat
  BY <1>1, CounterFacts
<1>4. ASSUME NEW k \in Keys
      PROVE  /\ passed'[k] \in Nat
             /\ passed'[k] <= redis'[k].count /\ redis'[k].count <= Cap[k]
             /\ passed'[k] <= LargerOf(Limit[k], 0)
  <2>1. /\ redis[k].count <= Cap[k] /\ passed[k] <= redis[k].count
        /\ passed[k] <= LargerOf(Limit[k], 0)
    BY <1>1 DEF PassedInv
  <2>2. Plus(k, passed[k], c.cost) \in Nat /\ Plus(k, passed[k], c.cost) <= passed[k] + c.cost
    BY <1>2, <1>3, PlusFacts
  <2>3. CASE k \notin KeysOf(c)
    <3>1. redis'[k] = redis[k] /\ passed'[k] = passed[k]
      BY <2>3, ChargeFacts
    <3>2. QED
      BY <1>3, <2>1, <3>1
  <2>4. CASE k \in KeysOf(c)
    <3>1. /\ redis[k].count + c.cost <= Limit[k]
          /\ redis'[k].count = redis[k].count + c.cost
      BY <2>4, ChargeFacts
    <3>2. passed'[k] = passed[k] \/ passed'[k] = Plus(k, passed[k], c.cost)
      BY <2>4
    <3>3. passed'[k] \in Nat /\ passed'[k] <= passed[k] + c.cost
      BY <1>2, <1>3, <2>2, <3>2
    <3>4. passed'[k] <= redis'[k].count /\ redis'[k].count <= Limit[k]
      BY <1>2, <1>3, <2>1, <3>1, <3>3
    <3>5. QED
      BY <1>2, <1>3, <3>1, <3>3, <3>4 DEF LargerOf
  <2>5. QED
    BY <2>3, <2>4
<1>5. passed' \in [Keys -> Nat]
  BY <1>1, <1>4 DEF TypeOK
<1>6. redis' \in [Keys -> [count: Nat, ttl: Nat \cup {-1}]]
  <2>1. redis' = [k \in Keys |-> redis'[k]]
    BY DEF Charged
  <2>2. \A k \in Keys : redis'[k] \in [count: Nat, ttl: Nat \cup {-1}]
    BY ChargeFacts
  <2>3. QED
    BY <2>1, <2>2
<1>7. CountersOK' /\ PassedInv'
  BY <1>1, <1>2, <1>4, <1>5, <1>6, SharedFacts DEF CountersOK, PassedInv
<1>8. ManyInv'
  <2>1. SUFFICES ASSUME require, NEW k \in ManyKeys
                 PROVE  /\ redis'[k].count <= LargerOf(Limit[k], 0)
                        /\ redis'[k].count = 0 <=> redis'[k].ttl = 0
                        /\ redis'[k].ttl \in 0 .. Window[k]
    BY DEF ManyInv, ManyKeys, Steady
  <2>2. k \in Keys
    BY DEF ManyKeys
  <2>3. /\ redis[k].count <= LargerOf(Limit[k], 0)
        /\ redis[k].count = 0 <=> redis[k].ttl = 0
        /\ redis[k].ttl \in 0 .. Window[k]
    BY <1>1, <2>1 DEF ManyInv
  <2>4. CASE k \notin KeysOf(c)
    BY <2>2, <2>3, <2>4, ChargeFacts
  <2>5. CASE k \in KeysOf(c)
    <3>1. Window[k] \in Nat \ {0}
      BY <1>1, <2>1, <2>5, ManyFacts
    <3>2. /\ redis[k].count + c.cost <= Limit[k]
          /\ redis'[k].count = redis[k].count + c.cost
          /\ redis'[k].ttl = IF redis[k].count = 0 THEN Window[k] ELSE redis[k].ttl
      BY <2>2, <2>5, ChargeFacts
    <3>3. redis'[k].count <= LargerOf(Limit[k], 0) /\ redis'[k].count > 0
      BY <1>2, <1>3, <2>2, <3>2 DEF LargerOf
    <3>4. redis'[k].ttl \in 0 .. Window[k] /\ redis'[k].ttl # 0
      BY <1>3, <2>2, <2>3, <3>1, <3>2
    <3>5. QED
      BY <3>3, <3>4
  <2>6. QED
    BY <2>4, <2>5
<1>9. ShareInv'
  BY ChargeKeepsWithin DEF ShareInv, Steady
<1>10. QED
  BY <1>7, <1>8, <1>9

(* A second passes.                                                          *)
LEMMA AgedFacts ==
  ASSUME TypeOK, NEW k \in Keys, Tick
  PROVE  /\ redis'[k] \in [count: Nat, ttl: Nat \cup {-1}]
         /\ memory'[k] \in [count: Nat, ttl: Nat]
         /\ redis[k].ttl = 1 =>
              /\ redis'[k].count = 0 /\ redis'[k].ttl = 0 /\ passed'[k] = 0
              /\ \A l \in Keys : share'[k][l] = 0
         /\ redis[k].ttl # 1 =>
              /\ redis'[k].count = redis[k].count
              /\ redis'[k].ttl = IF redis[k].ttl > 0 THEN redis[k].ttl - 1 ELSE redis[k].ttl
              /\ passed'[k] = passed[k]
              /\ \A l \in Keys : share'[k][l] = share[k][l]
<1>1. /\ redis[k] \in [count: Nat, ttl: Nat \cup {-1}]
      /\ memory[k] \in [count: Nat, ttl: Nat]
  BY DEF TypeOK
<1>2. /\ redis'[k] = Aged(redis[k]) /\ memory'[k] = Aged(memory[k])
      /\ passed'[k] = IF redis[k].ttl = 1 THEN 0 ELSE passed[k]
      /\ \A l \in Keys : share'[k][l] = IF redis[k].ttl = 1 THEN 0 ELSE share[k][l]
  BY DEF Tick
<1>3. Aged(redis[k]) = IF redis[k].ttl = 1 THEN [count |-> 0, ttl |-> 0]
        ELSE [count |-> redis[k].count,
              ttl |-> IF redis[k].ttl > 0 THEN redis[k].ttl - 1 ELSE redis[k].ttl]
  BY <1>1 DEF Aged, Absent
<1>4. Aged(memory[k]) = IF memory[k].ttl = 1 THEN [count |-> 0, ttl |-> 0]
        ELSE [count |-> memory[k].count,
              ttl |-> IF memory[k].ttl > 0 THEN memory[k].ttl - 1 ELSE memory[k].ttl]
  BY <1>1 DEF Aged, Absent
<1>5. QED
  BY <1>1, <1>2, <1>3, <1>4

LEMMA TickKeepsWithin ==
  ASSUME IInv, Tick, require, NEW t \in Threads, NEW c \in traffic[t], c.many,
         Limit[LastKey(c)] > 0
  PROVE  Within(FirstKey(c), LastKey(c))'
<1> DEFINE f == FirstKey(c)
           l == LastKey(c)
<1>1. TypeOK /\ ManyInv /\ Within(f, l)
  BY DEF IInv, ShareInv
<1>2. /\ f \in Keys /\ l \in Keys /\ f \in ManyKeys /\ l \in ManyKeys
      /\ Window[f] = Window[l] /\ Window[f] \in Nat \ {0}
  BY <1>1, CallFacts, ManyFacts
<1> DEFINE s0 == share[f][l]
           s1 == share'[f][l]
           fc == redis[f].count
           ft == redis[f].ttl
           lc == redis[l].count
           lt == redis[l].ttl
           fc1 == redis'[f].count
           ft1 == redis'[f].ttl
           lc1 == redis'[l].count
           lt1 == redis'[l].ttl
           lim == Limit[l]
           win == Window[f]
<1>3. /\ s0 \in Nat /\ fc \in Nat /\ lc \in Nat /\ lim \in Int
      /\ win \in Nat /\ win > 0 /\ lim > 0
  BY <1>1, <1>2, CounterFacts
<1>4. /\ (fc = 0 <=> ft = 0) /\ (lc = 0 <=> lt = 0)
      /\ ft \in 0 .. win /\ lt \in 0 .. win /\ lc <= lim
  BY <1>1, <1>2, <1>3 DEF ManyInv, LargerOf
<1>5. /\ ft = 1 => fc1 = 0 /\ ft1 = 0 /\ s1 = 0
      /\ ft # 1 => fc1 = fc /\ s1 = s0 /\ ft1 = IF ft > 0 THEN ft - 1 ELSE ft
      /\ lt = 1 => lc1 = 0 /\ lt1 = 0
      /\ lt # 1 => lc1 = lc /\ lt1 = IF lt > 0 THEN lt - 1 ELSE lt
  BY <1>1, <1>2, AgedFacts
<1>6. Lies(s0, fc, ft, lc, lt, lim, win)
  BY <1>1 DEF Within
<1>7. Within(f, l)' <=> Lies(s1, fc1, ft1, lc1, lt1, lim, win)
  BY DEF Within, FirstKey, LastKey
<1> HIDE DEF s0, s1, fc, ft, lc, lt, fc1, ft1, lc1, lt1, lim, win
<1>8. CASE ft = 1
  BY <1>3, <1>4, <1>5, <1>6, <1>7, <1>8 DEF Lies
<1>9. CASE ft # 1 /\ lt = 1
  BY <1>3, <1>4, <1>5, <1>6, <1>7, <1>9 DEF Lies
<1>10. CASE ft # 1 /\ lt # 1
  BY <1>3, <1>4, <1>5, <1>6, <1>7, <1>10 DEF Lies
<1>11. QED
  BY <1>8, <1>9, <1>10

LEMMA TickKeeps ==
  ASSUME IInv, Tick
  PROVE  /\ CountersOK' /\ PassedInv' /\ ManyInv' /\ ShareInv'
         /\ memory' \in [Keys -> [count: Nat, ttl: Nat]]
<1>1. TypeOK /\ PassedInv /\ ManyInv /\ Steady
  BY DEF IInv, Tick, Steady
<1>2. redis' \in [Keys -> [count: Nat, ttl: Nat \cup {-1}]]
  BY <1>1, AgedFacts DEF Tick
<1>3. memory' \in [Keys -> [count: Nat, ttl: Nat]]
  BY <1>1, AgedFacts DEF Tick
<1>4. passed' \in [Keys -> Nat] /\ share' \in [Keys -> [Keys -> Nat]]
  BY <1>1 DEF Tick, TypeOK
<1>5. PassedInv'
  <2>1. SUFFICES ASSUME NEW k \in Keys
                 PROVE  /\ redis'[k].count <= Cap[k]
                        /\ passed'[k] <= redis'[k].count
                        /\ passed'[k] <= LargerOf(Limit[k], 0)
    BY DEF PassedInv
  <2>2. Cap[k] \in Nat /\ Limit[k] \in Int
    BY <1>1, CounterFacts
  <2>3. CASE redis[k].ttl = 1
    <3>1. redis'[k].count = 0 /\ passed'[k] = 0
      BY <1>1, <2>3, AgedFacts
    <3>2. QED
      BY <2>2, <3>1 DEF LargerOf
  <2>4. CASE redis[k].ttl # 1
    BY <1>1, <2>4, AgedFacts DEF PassedInv
  <2>5. QED
    BY <2>3, <2>4
<1>6. ManyInv'
  <2>1. SUFFICES ASSUME require, NEW k \in ManyKeys
                 PROVE  /\ redis'[k].count <= LargerOf(Limit[k], 0)
                        /\ redis'[k].count = 0 <=> redis'[k].ttl = 0
                        /\ redis'[k].ttl \in 0 .. Window[k]
    BY <1>1 DEF ManyInv, ManyKeys, Steady
  <2>2. k \in Keys /\ Limit[k] \in Int /\ Window[k] \in Nat
    BY <1>1, CounterFacts DEF ManyKeys
  <2>3. /\ redis[k].count <= LargerOf(Limit[k], 0)
        /\ redis[k].count = 0 <=> redis[k].ttl = 0
        /\ redis[k].ttl \in 0 .. Window[k]
    BY <1>1, <2>1 DEF ManyInv
  <2>4. CASE redis[k].ttl = 1
    <3>1. redis'[k].count = 0 /\ redis'[k].ttl = 0
      BY <1>1, <2>2, <2>4, AgedFacts
    <3>2. QED
      BY <2>2, <3>1 DEF LargerOf
  <2>5. CASE redis[k].ttl # 1
    <3>1. /\ redis'[k].count = redis[k].count
          /\ redis'[k].ttl = IF redis[k].ttl > 0 THEN redis[k].ttl - 1 ELSE redis[k].ttl
      BY <1>1, <2>2, <2>5, AgedFacts
    <3>2. QED
      BY <2>2, <2>3, <2>5, <3>1
  <2>6. QED
    BY <2>4, <2>5
<1>7. ShareInv'
  BY <1>1, TickKeepsWithin DEF ShareInv, Steady
<1>8. QED
  BY <1>2, <1>3, <1>4, <1>5, <1>6, <1>7 DEF CountersOK
-----------------------------------------------------------------------------
(* Each action.                                                              *)

LEMMA Together ==
  ASSUME IInv, Steady, ReqOK' /\ NoFallback',
         CountersOK' /\ PassedInv' /\ ManyInv' /\ ShareInv',
         memory' \in [Keys -> [count: Nat, ttl: Nat]], faults' \in Nat
  PROVE  IInv'
BY DEF IInv, TypeOK, Steady, ReqOK, CountersOK

LEMMA MemoryFacts ==
  ASSUME TypeOK
  PROVE  memory \in [Keys -> [count: Nat, ttl: Nat]] /\ faults \in Nat
BY DEF TypeOK

LEMMA TicksFacts ==
  ASSUME TypeOK, NEW k \in Keys
  PROVE  TicksLeft(k) \in Nat
BY CounterFacts DEF TicksLeft

LEMMA AskKeeps ==
  ASSUME IInv, NEW t \in Threads, NEW c \in traffic[t], Ask(t, c)
  PROVE  IInv'
<1>1. TypeOK /\ NoFallback /\ Steady
  BY DEF IInv, Ask, Steady
<1>2. \E r : Moved(t, r)
  <2>1. CASE c.many
    <3>1. req' = [req EXCEPT ![t] = At(c, "eval", 1)]
      BY <2>1 DEF Ask
    <3>2. /\ Fits(t, At(c, "eval", 1))
          /\ At(c, "eval", 1).at = "eval" /\ At(c, "eval", 1).call = c
      BY <1>1, AtFits, CallFacts DEF Steps
    <3>3. QED
      BY <2>1, <3>1, <3>2 DEF Moved, Calm
  <2>2. CASE ~c.many
    BY <1>1, <2>2, AdvanceMoves DEF Ask
  <2>3. QED
    BY <2>1, <2>2
<1>3. ReqOK' /\ NoFallback'
  BY <1>1, <1>2, MovedKeeps
<1>4. UNCHANGED <<redis, passed, share>> /\ UNCHANGED <<memory, faults>>
  BY DEF Ask
<1>5. QED
  BY <1>1, <1>3, <1>4, UntouchedKeeps, MemoryFacts, Together

LEMMA CheckManyKeeps ==
  ASSUME IInv, NEW t \in Threads, CheckMany(t)
  PROVE  IInv'
<1> DEFINE c == req[t].call
<1>1. TypeOK /\ NoFallback /\ Steady /\ req[t].at = "eval"
  BY DEF IInv, CheckMany, Steady
<1>2. c \in traffic[t] /\ (require => c.many)
  BY <1>1, RequestFacts DEF NoFallback, Calm
<1>3. /\ \E r : Moved(t, r)
      /\ CountersOK' /\ PassedInv' /\ ManyInv' /\ ShareInv'
  <2>1. CASE NoRoom(c) = {}
    <3>1. /\ redis' = Charged(c) /\ share' = Shared(c, FirstKey(c)) /\ Answer(t)
          /\ passed' = [k \in Keys |-> IF k \in KeysOf(c)
                          THEN Plus(k, passed[k], c.cost) ELSE passed[k]]
      BY <2>1 DEF CheckMany
    <3>2. QED
      BY <1>1, <1>2, <2>1, <3>1, AnswerMoves, ChargeKeeps
  <2>2. CASE NoRoom(c) # {}
    <3>1. /\ UNCHANGED <<redis, passed, share>>
          /\ \E i \in DOMAIN c.keys : Refuse(t, TicksLeft(c.keys[i]))
      BY <2>2 DEF CheckMany
    <3>2. \A i \in DOMAIN c.keys : TicksLeft(c.keys[i]) \in Nat
      BY <1>1, <1>2, CallFacts, TicksFacts
    <3>3. \E r : Moved(t, r)
      BY <1>1, <3>1, <3>2, RefuseMoves
    <3>4. QED
      BY <1>1, <3>1, <3>3, UntouchedKeeps
  <2>3. QED
    BY <2>1, <2>2
<1>4. ReqOK' /\ NoFallback'
  BY <1>1, <1>3, MovedKeeps
<1>5. UNCHANGED <<memory, faults>>
  BY DEF CheckMany
<1>6. QED
  BY <1>1, <1>3, <1>4, <1>5, MemoryFacts, Together

LEMMA EvalRaisesKeeps ==
  ASSUME IInv, NEW t \in Threads, EvalRaises(t)
  PROVE  IInv'
<1> DEFINE c == req[t].call
<1>1. TypeOK /\ NoFallback /\ Steady /\ req[t].at = "eval"
  BY DEF IInv, EvalRaises, Steady
<1>2. c \in traffic[t] /\ (require => c.many)
  BY <1>1, RequestFacts DEF NoFallback, Calm
<1>3. \E r : Moved(t, r)
  <2>1. CASE require \/ c.fresh
    BY <2>1, AnswerMoves DEF EvalRaises, AfterEvalRaises
  <2>2. CASE ~(require \/ c.fresh)
    BY <1>1, <1>2, <2>2, AdvanceMoves DEF EvalRaises, AfterEvalRaises
  <2>3. QED
    BY <2>1, <2>2
<1>4. CountersOK' /\ PassedInv' /\ ManyInv' /\ ShareInv'
  <2>1. CASE UNCHANGED <<redis, share>>
    BY <1>1, <2>1, UntouchedKeeps DEF EvalRaises
  <2>2. CASE NoRoom(c) = {} /\ redis' = Charged(c) /\ share' = Shared(c, FirstKey(c))
    BY <1>1, <1>2, <2>2, ChargeKeeps DEF EvalRaises
  <2>3. QED
    BY <2>1, <2>2 DEF EvalRaises
<1>5. ReqOK' /\ NoFallback'
  BY <1>1, <1>3, MovedKeeps
<1>6. memory' = memory /\ faults' = faults + 1
  BY DEF EvalRaises
<1>7. QED
  BY <1>1, <1>4, <1>5, <1>6, MemoryFacts, Together

LEMMA IncrKeeps ==
  ASSUME IInv, NEW t \in Threads, Incr(t)
  PROVE  IInv'
<1> DEFINE c == req[t].call
           k == KeyOf(t)
           n == Plus(k, redis[k].count, c.cost)
           at == AfterIncr(n, c.cost)
<1>1. TypeOK /\ NoFallback /\ Steady /\ req[t].at = "incr"
  BY DEF IInv, Incr, Steady
<1>2. /\ c \in traffic[t] /\ k \in Keys /\ req[t].timer \in Nat /\ req[t] \in Request
      /\ require => ~c.many
  BY <1>1, RequestFacts DEF NoFallback, Calm
<1>3. n \in Nat
  BY <1>1, <1>2, CallFacts, CounterFacts, PlusFacts
<1>4. at \in {"expire", "ttl"}
  BY DEF AfterIncr
<1>5. req' = [req EXCEPT ![t].at = at, ![t].got = n]
  BY DEF Incr
<1>6. req' = [req EXCEPT ![t].at = at, ![t].got = n, ![t].timer = req[t].timer]
  <2>1. [req[t] EXCEPT !.at = at, !.got = n]
          = [req[t] EXCEPT !.at = at, !.got = n, !.timer = req[t].timer]
    BY <1>2 DEF Request
  <2>2. QED
    BY <1>5, <2>1
<1>7. at \in Steps
  BY <1>4 DEF Steps
<1>8. \E r : Moved(t, r)
  <2> HIDE DEF at, n, c, k
  <2>1. req[t].call.many <=> c.many
    BY DEF c
  <2>2. QED
    BY <1>1, <1>2, <1>3, <1>4, <1>6, <1>7, <2>1, StepMoves
<1>9. ReqOK' /\ NoFallback'
  BY <1>1, <1>8, MovedKeeps
<1>10. CountersOK' /\ PassedInv' /\ ManyInv' /\ ShareInv'
  BY <1>1, IncrementKeeps DEF Incr
<1>11. UNCHANGED <<memory, faults>>
  BY DEF Incr
<1>12. QED
  BY <1>1, <1>9, <1>10, <1>11, MemoryFacts, Together

LEMMA SetExpiryKeeps ==
  ASSUME IInv, NEW t \in Threads, SetExpiry(t)
  PROVE  IInv'
<1>1. TypeOK /\ NoFallback /\ Steady /\ req[t].at = "expire"
  BY DEF IInv, SetExpiry, Steady
<1>2. /\ req[t].got \in Nat /\ req[t].timer \in Nat /\ req[t] \in Request
      /\ require => ~req[t].call.many
  BY <1>1, RequestFacts DEF NoFallback, Calm
<1>3. req' = [req EXCEPT ![t].at = "ttl", ![t].got = req[t].got, ![t].timer = req[t].timer]
  <2>1. [req[t] EXCEPT !.at = "ttl"]
          = [req[t] EXCEPT !.at = "ttl", !.got = req[t].got, !.timer = req[t].timer]
    BY <1>2 DEF Request
  <2>2. req' = [req EXCEPT ![t].at = "ttl"]
    BY DEF SetExpiry
  <2>3. QED
    BY <2>1, <2>2
<1>4. "ttl" \in Steps
  BY DEF Steps
<1>5. \E r : Moved(t, r)
  BY <1>1, <1>2, <1>3, <1>4, StepMoves
<1>6. ReqOK' /\ NoFallback'
  BY <1>1, <1>5, MovedKeeps
<1>7. CountersOK' /\ PassedInv' /\ ManyInv' /\ ShareInv'
  BY <1>1, ExpiryKeeps DEF SetExpiry
<1>8. UNCHANGED <<memory, faults>>
  BY DEF SetExpiry
<1>9. QED
  BY <1>1, <1>6, <1>7, <1>8, MemoryFacts, Together

LEMMA JudgeKeeps ==
  ASSUME IInv, NEW t \in Threads, Judge(t)
  PROVE  IInv'
<1>1. TypeOK /\ NoFallback /\ Steady /\ req[t].at = "ttl"
  BY DEF IInv, Judge, Steady
<1>2. /\ req[t].call \in traffic[t] /\ KeyOf(t) \in Keys
      /\ require => ~req[t].call.many
  BY <1>1, RequestFacts DEF NoFallback, Calm
<1>3. \E r : Moved(t, r)
  <2>1. CASE Advance(t, req[t].call, req[t].on)
    BY <1>1, <1>2, <2>1, AdvanceMoves
  <2>2. CASE Refuse(t, TicksLeft(KeyOf(t)))
    BY <1>1, <1>2, <2>2, TicksFacts, RefuseMoves
  <2>3. QED
    BY <2>1, <2>2 DEF Judge
<1>4. ReqOK' /\ NoFallback'
  BY <1>1, <1>3, MovedKeeps
<1>5. UNCHANGED <<redis, passed, share>> /\ UNCHANGED <<memory, faults>>
  BY DEF Judge
<1>6. QED
  BY <1>1, <1>4, <1>5, UntouchedKeeps, MemoryFacts, Together

LEMMA CheckRaisesKeeps ==
  ASSUME IInv, NEW t \in Threads, CheckRaises(t)
  PROVE  IInv'
<1>1. TypeOK /\ NoFallback /\ Steady /\ req[t].at \in {"incr", "expire", "ttl"}
  BY DEF IInv, CheckRaises, Steady
<1>2. req[t].got \in Nat /\ req[t].timer \in Nat /\ req[t] \in Request
  BY <1>1, RequestFacts
<1>3. \E r : Moved(t, r)
  <2>1. CASE require
    BY <2>1, AnswerMoves DEF CheckRaises
  <2>2. CASE ~require
    <3>1. req' = [req EXCEPT ![t].at = "read"]
      BY <2>2 DEF CheckRaises
    <3>2. [req[t] EXCEPT !.at = "read"]
            = [req[t] EXCEPT !.at = "read", !.got = req[t].got, !.timer = req[t].timer]
      BY <1>2 DEF Request
    <3>3. req' = [req EXCEPT ![t].at = "read", ![t].got = req[t].got,
                             ![t].timer = req[t].timer]
      BY <3>1, <3>2
    <3>4. "read" \in Steps
      BY DEF Steps
    <3>5. QED
      BY <1>1, <1>2, <2>2, <3>3, <3>4, StepMoves
  <2>3. QED
    BY <2>1, <2>2
<1>4. ReqOK' /\ NoFallback'
  BY <1>1, <1>3, MovedKeeps
<1>5. CountersOK' /\ PassedInv' /\ ManyInv' /\ ShareInv'
  <2>1. CASE UNCHANGED <<redis, share>>
    BY <1>1, <2>1, UntouchedKeeps DEF CheckRaises
  <2>2. CASE /\ req[t].at = "incr" /\ redis' = Incremented(t)
             /\ share' = Shared(req[t].call, KeyOf(t))
    BY <1>1, <2>2, IncrementKeeps DEF CheckRaises
  <2>3. QED
    BY <2>1, <2>2 DEF CheckRaises
<1>6. memory' = memory /\ faults' = faults + 1
  BY DEF CheckRaises
<1>7. QED
  BY <1>1, <1>4, <1>5, <1>6, MemoryFacts, Together

LEMMA MemoryReadKeeps ==
  ASSUME IInv, NEW t \in Threads, MemoryRead(t)
  PROVE  IInv'
<1> DEFINE m == memory[KeyOf(t)]
           timer == IF m.ttl = 0 THEN Window[KeyOf(t)] ELSE m.ttl
<1>1. TypeOK /\ NoFallback /\ Steady /\ req[t].at = "read"
  BY DEF IInv, MemoryRead, Steady
<1>2. KeyOf(t) \in Keys /\ ~require
  BY <1>1, RequestFacts DEF NoFallback, Calm
<1>3. m.count \in Nat /\ timer \in Nat
  BY <1>1, <1>2, MemoryFacts, WindowAssumption
<1>4. req' = [req EXCEPT ![t].at = "store", ![t].got = m.count, ![t].timer = timer]
  BY DEF MemoryRead
<1>5. "store" \in Steps
  BY DEF Steps
<1>6. \E r : Moved(t, r)
  BY <1>1, <1>2, <1>3, <1>4, <1>5, StepMoves
<1>7. ReqOK' /\ NoFallback'
  BY <1>1, <1>6, MovedKeeps
<1>8. UNCHANGED <<redis, passed, share>> /\ UNCHANGED <<memory, faults>>
  BY DEF MemoryRead
<1>9. QED
  BY <1>1, <1>7, <1>8, UntouchedKeeps, MemoryFacts, Together

LEMMA MemoryStoreKeeps ==
  ASSUME IInv, NEW t \in Threads, MemoryStore(t)
  PROVE  IInv'
<1> DEFINE k == KeyOf(t)
           n == Plus(k, req[t].got, req[t].call.cost)
<1>1. TypeOK /\ NoFallback /\ Steady /\ req[t].at = "store"
  BY DEF IInv, MemoryStore, Steady
<1>2. /\ req[t].call \in traffic[t] /\ k \in Keys /\ ~require
      /\ req[t].got \in Nat /\ req[t].timer \in Nat
  BY <1>1, RequestFacts DEF NoFallback, Calm
<1>3. n \in Nat
  BY <1>1, <1>2, CallFacts, PlusFacts
<1>4. \E r : Moved(t, r)
  <2>1. CASE Advance(t, req[t].call, req[t].on)
    BY <1>1, <1>2, <2>1, AdvanceMoves
  <2>2. CASE Refuse(t, req[t].timer)
    BY <1>1, <1>2, <2>2, RefuseMoves
  <2>3. QED
    BY <2>1, <2>2 DEF MemoryStore
<1>5. ReqOK' /\ NoFallback'
  BY <1>1, <1>4, MovedKeeps
<1>6. UNCHANGED <<redis, passed, share>> /\ UNCHANGED faults
  BY DEF MemoryStore
<1>7. memory' \in [Keys -> [count: Nat, ttl: Nat]]
  <2>1. memory' = [memory EXCEPT ![k] = IF req[t].timer = 0 THEN Absent
                     ELSE [count |-> n, ttl |-> req[t].timer]]
    BY DEF MemoryStore
  <2>2. (IF req[t].timer = 0 THEN Absent ELSE [count |-> n, ttl |-> req[t].timer])
          \in [count: Nat, ttl: Nat]
    BY <1>2, <1>3 DEF Absent
  <2>3. QED
    BY <1>1, <2>1, <2>2, MemoryFacts
<1>8. QED
  BY <1>1, <1>5, <1>6, <1>7, UntouchedKeeps, MemoryFacts, Together

LEMMA WakeKeeps ==
  ASSUME IInv, NEW t \in Threads, Wake(t)
  PROVE  IInv'
<1> DEFINE c == req[t].call
<1>1. TypeOK /\ NoFallback /\ Steady /\ req[t].at = "sleep"
  BY DEF IInv, Wake, Steady
<1>2. c \in traffic[t] /\ (require => c.many)
  BY <1>1, RequestFacts DEF NoFallback, Calm
<1>3. /\ Fits(t, At(c, "eval", 1))
      /\ At(c, "eval", 1).at = "eval" /\ At(c, "eval", 1).call = c
  BY <1>1, <1>2, AtFits, CallFacts DEF Steps
<1>4. \E r : Moved(t, r)
  BY <1>2, <1>3 DEF Wake, Moved, Calm
<1>5. ReqOK' /\ NoFallback'
  BY <1>1, <1>4, MovedKeeps
<1>6. UNCHANGED <<redis, passed, share>> /\ UNCHANGED <<memory, faults>>
  BY DEF Wake
<1>7. QED
  BY <1>1, <1>5, <1>6, UntouchedKeeps, MemoryFacts, Together

LEMMA ClockKeeps ==
  ASSUME IInv, Tick
  PROVE  IInv'
<1>1. TypeOK /\ NoFallback /\ Steady
  BY DEF IInv, Tick, Steady
<1>2. ASSUME NEW t \in Threads
      PROVE  Fits(t, req'[t]) /\ (require => Calm(req'[t]))
  <2>1. Fits(t, req[t]) /\ (require => Calm(req[t]))
    BY <1>1, RequestFacts DEF NoFallback
  <2>2. CASE req'[t] = req[t]
    BY <2>1, <2>2
  <2>3. CASE /\ req[t].at \in {"store", "sleep"} /\ req[t].timer > 0
             /\ req'[t] = [req[t] EXCEPT !.timer = req[t].timer - 1]
    <3>1. req[t] \in Request /\ req[t].timer \in Nat
      BY <1>1, <2>3, RequestFacts
    <3>2. /\ req'[t] \in Request /\ req'[t].at = req[t].at
          /\ req'[t].call = req[t].call /\ req'[t].on = req[t].on
      BY <2>3, <3>1 DEF Request
    <3>3. QED
      BY <2>1, <3>2 DEF Fits, Calm
  <2>4. QED
    BY <2>2, <2>3 DEF Tick
<1>3. ReqOK'
  <2>1. req' = [t \in Threads |-> req'[t]]
    BY DEF Tick
  <2>2. QED
    BY <1>1, <1>2, <2>1 DEF ReqOK, Fits, Steady
<1>4. NoFallback'
  BY <1>1, <1>2 DEF NoFallback, Steady
<1>5. faults' = faults
  BY DEF Tick
<1>6. QED
  BY <1>1, <1>3, <1>4, <1>5, TickKeeps, MemoryFacts, Together

LEMMA StopKeeps ==
  ASSUME IInv, Stop
  PROVE  IInv'
<1>1. TypeOK /\ NoFallback /\ Steady
  BY DEF IInv, Stop, Steady
<1>2. \A t \in Threads : req'[t] = Idle
  BY DEF Stop
<1>3. ReqOK'
  BY <1>2 DEF ReqOK, Stop, Idle
<1>4. NoFallback'
  BY <1>1, <1>2, IdleFits DEF NoFallback, Steady
<1>5. memory' \in [Keys -> [count: Nat, ttl: Nat]] /\ faults' \in Nat
  BY <1>1, MemoryFacts DEF Stop, Absent
<1>6. QED
  BY <1>1, <1>3, <1>4, <1>5, UntouchedKeeps, Together DEF Stop

-----------------------------------------------------------------------------
LEMMA InitHolds == Init => IInv
<1>1. SUFFICES ASSUME Init PROVE IInv
  OBVIOUS
<1>2. /\ \A k \in Keys : redis[k] = Absent /\ passed[k] = 0
                         /\ \A l \in Keys : share[k][l] = 0
      /\ \A t \in Threads : req[t] = Idle
      /\ traffic \in Traffic
  BY <1>1 DEF Init
<1>3. TypeOK
  BY <1>1 DEF Init, TypeOK, Absent, Idle
<1>4. PassedInv
  <2>1. SUFFICES ASSUME NEW k \in Keys
                 PROVE  /\ redis[k].count <= Cap[k] /\ passed[k] <= redis[k].count
                        /\ passed[k] <= LargerOf(Limit[k], 0)
    BY DEF PassedInv
  <2>2. redis[k].count = 0 /\ passed[k] = 0 /\ Cap[k] \in Nat /\ Limit[k] \in Int
    BY <1>2, <1>3, CounterFacts DEF Absent
  <2>3. QED
    BY <2>2 DEF LargerOf
<1>5. NoFallback
  BY <1>2, IdleFits DEF NoFallback
<1>6. ManyInv
  <2>1. SUFFICES ASSUME NEW k \in ManyKeys
                 PROVE  /\ redis[k].count <= LargerOf(Limit[k], 0)
                        /\ redis[k].count = 0 <=> redis[k].ttl = 0
                        /\ redis[k].ttl \in 0 .. Window[k]
    BY DEF ManyInv
  <2>2. k \in Keys
    BY DEF ManyKeys
  <2>3. redis[k].count = 0 /\ redis[k].ttl = 0 /\ Window[k] \in Nat /\ Limit[k] \in Int
    BY <1>2, <1>3, <2>2, CounterFacts DEF Absent
  <2>4. QED
    BY <2>3 DEF LargerOf
<1>7. ShareInv
  <2>1. SUFFICES ASSUME NEW t \in Threads, NEW c \in traffic[t], c.many,
                        Limit[LastKey(c)] > 0
                 PROVE  Within(FirstKey(c), LastKey(c))
    BY DEF ShareInv
  <2>2. FirstKey(c) \in Keys /\ LastKey(c) \in Keys
    BY <1>3, CallFacts
  <2>3. /\ redis[LastKey(c)].count = 0 /\ share[FirstKey(c)][LastKey(c)] = 0
        /\ Limit[LastKey(c)] \in Int
    BY <1>2, <1>3, <2>2, CounterFacts DEF Absent
  <2>4. QED
    BY <2>1, <2>3 DEF Within, Lies
<1>8. QED
  BY <1>3, <1>4, <1>5, <1>6, <1>7 DEF IInv

LEMMA NextKeeps == IInv /\ [Next]_vars => IInv'
<1>1. SUFFICES ASSUME IInv, [Next]_vars PROVE IInv'
  OBVIOUS
<1>2. ASSUME NEW t \in Threads, NEW c \in traffic[t], Ask(t, c) PROVE IInv'
  BY <1>1, <1>2, AskKeeps
<1>3. ASSUME NEW t \in Threads, Step(t) PROVE IInv'
  BY <1>1, <1>3, CheckManyKeeps, IncrKeeps, SetExpiryKeeps, JudgeKeeps, MemoryReadKeeps,
     MemoryStoreKeeps, WakeKeeps DEF Step
<1>4. ASSUME NEW t \in Threads, EvalRaises(t) \/ CheckRaises(t) PROVE IInv'
  BY <1>1, <1>4, EvalRaisesKeeps, CheckRaisesKeeps
<1>5. CASE Tick
  BY <1>1, <1>5, ClockKeeps
<1>6. CASE Stop
  BY <1>1, <1>6, StopKeeps
<1>7. CASE UNCHANGED vars
  <2>1. /\ Steady /\ UNCHANGED <<redis, passed, share>>
        /\ UNCHANGED <<memory, faults>> /\ UNCHANGED req
    BY <1>7 DEF vars, Steady
  <2>2. ReqOK' /\ NoFallback'
    BY <1>1, <2>1 DEF IInv, TypeOK, ReqOK, NoFallback, Steady
  <2>3. QED
    BY <1>1, <2>1, <2>2, UntouchedKeeps, MemoryFacts, Together DEF IInv
<1>8. QED
  BY <1>1, <1>2, <1>3, <1>4, <1>5, <1>6, <1>7 DEF Next

LEMMA Invariance == Spec => []IInv
BY InitHolds, NextKeeps, PTL DEF Spec

LEMMA ShareBounded == IInv => NoMonopoly
<1>1. SUFFICES ASSUME IInv, require, NEW t \in Threads, NEW c \in traffic[t], c.many,
                      Limit[LastKey(c)] > 0
               PROVE  share[FirstKey(c)][LastKey(c)] < 2 * Limit[LastKey(c)]
  BY DEF NoMonopoly
<1> DEFINE f == FirstKey(c)
           l == LastKey(c)
<1>2. TypeOK /\ ManyInv /\ Within(f, l)
  BY <1>1 DEF IInv, ShareInv
<1>3. f \in Keys /\ l \in Keys /\ f \in ManyKeys /\ l \in ManyKeys
  BY <1>1, <1>2, CallFacts, ManyFacts
<1>4. /\ redis[l].count \in Nat /\ share[f][l] \in Nat /\ Limit[l] \in Int
      /\ redis[f].ttl \in Int /\ redis[l].ttl \in Int
  BY <1>2, <1>3, CounterFacts
<1>5. redis[l].count <= Limit[l]
  BY <1>1, <1>2, <1>3, <1>4 DEF ManyInv, LargerOf
<1>6. share[f][l] < 2 * Limit[l]
  <2> DEFINE s == share[f][l]
             lim == Limit[l]
             lc == redis[l].count
             lt == redis[l].ttl
             ft == redis[f].ttl
             fc == redis[f].count
  <2>1. Lies(s, fc, ft, lc, lt, lim, Window[f])
    BY <1>2 DEF Within
  <2>2. s \in Nat /\ lim \in Int /\ lim > 0 /\ lc \in Nat /\ lc <= lim /\ lt \in Int
        /\ ft \in Int
    BY <1>1, <1>4, <1>5
  <2> HIDE DEF s, lim, lc, lt, ft, fc
  <2>3. s < 2 * lim
    BY <2>1, <2>2 DEF Lies
  <2>4. QED
    BY <2>3 DEF s, lim
<1>7. QED
  BY <1>6

-----------------------------------------------------------------------------
(* The limiter's state keeps its types: a counter has an expiry in its       *)
(* window or none, a request is at a counter of its own call.                *)
THEOREM TypeCorrect == Spec => []TypeOK
<1>1. IInv => TypeOK
  BY DEF IInv
<1>2. QED
  BY <1>1, Invariance, PTL

(* No Redis counter lets more through in a window than its limit, for every  *)
(* number of threads and counters, all limits, windows and costs, and all    *)
(* orders of commands, failures and restarts.                                *)
THEOREM BudgetsKept == Spec => []WindowKept
<1>1. IInv => WindowKept
  BY DEF IInv, PassedInv, WindowKept
<1>2. QED
  BY <1>1, Invariance, PTL

(* Where Redis is required, an account takes less than twice its own budget  *)
(* out of one window of the shared one.                                      *)
THEOREM OneAccountCannotTakeAll == Spec => []NoMonopoly
BY ShareBounded, Invariance, PTL
=============================================================================
