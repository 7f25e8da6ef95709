------------------------------ MODULE JobQueue ------------------------------
(***************************************************************************)
(* Background jobs: API request threads insert job rows in the repository  *)
(* and push messages on a Redis list (app/api/routes.py,                   *)
(* app/background/queue.py); workers pop a message, move the row through   *)
(* its statuses and do the work (app/background/worker.py).                *)
(*                                                                         *)
(* Every repository call and every Redis command commits on its own, so    *)
(* each is a step of its own; what a thread read earlier it keeps in its   *)
(* own record and may use when it is no longer true.                       *)
(***************************************************************************)
EXTENDS Naturals, Sequences, FiniteSets

CONSTANTS
  Portfolios,     (* Portfolios, each of one account.                       *)
  Requests,       (* API threads; a thread serves one request at a time.    *)
  Workers,        (* Worker processes.                                      *)
  Kinds,          (* The job types in use.                                  *)
  Ranges,         (* Price-history ranges.                                  *)
  Zooms,          (* Range sequences one history message may ask for.       *)
  MaxJobs,        (* Bound: job rows ever inserted.                         *)
  MaxQueue,       (* Bound: queue length at which API pushes wait.          *)
  RefreshWaits,   (* Does a refresh wait in place for a provider slot?      *)
  Faults,         (* Faults the environment may cause.                      *)
  Starved         (* Portfolios whose account may never get a slot again.   *)

AllKinds == {"rebuild_positions", "refresh_market_data",
             "refresh_bond_market_data", "refresh_market_history",
             "manual_lot_rollup"}

AllFaults == {"push",      (* RPUSH raises.                                  *)
              "request",   (* An API process stops inside a request.         *)
              "worker",    (* A worker stops, or loses the database.         *)
              "budget"}    (* A portfolio has more tickers than a refresh may. *)

ASSUME KindsAssumption == Kinds \subseteq AllKinds
ASSUME BoundsAssumption == MaxJobs \in Nat /\ MaxQueue \in Nat
ASSUME ZoomsAssumption == Zooms \subseteq Seq(Ranges) \ {<<>>}
ASSUME FaultsAssumption == Faults \subseteq AllFaults /\ RefreshWaits \in BOOLEAN
ASSUME StarvedAssumption == Starved \subseteq Portfolios

(* Kinds whose producer first looks for an unfinished job of the kind, and  *)
(* those among them that push a second message for a job still pending.     *)
DedupKinds == {"refresh_market_data", "refresh_bond_market_data",
               "refresh_market_history"}
RepushKinds == {"refresh_market_data", "refresh_market_history"}
ProviderKinds == DedupKinds
InlineKinds == {"manual_lot_rollup"}

Active == {"pending", "running"}
Terminal == {"completed", "failed"}

Jobs == 1 .. MaxJobs
NoJob == 0
RangeSeqs == Seq(Ranges)

VARIABLES
  status,    (* Job id -> status of its row, "absent" before the insert.    *)
  row,       (* Job id -> portfolio and kind of its row.                    *)
  created,   (* Rows inserted; ids are given in the order of created_at.    *)
  queue,     (* The Redis list.                                             *)
  req,       (* What each API thread is doing.                              *)
  wk,        (* What each worker is doing.                                  *)
  slot,      (* Portfolio -> has its account a provider slot left?          *)
  lost,      (* History: jobs whose carrier was lost in a fault.            *)
  asked,     (* History: job -> range sequences pushed for it.              *)
  fetched,   (* History: job -> ranges refreshed on its behalf.             *)
  looked     (* History: job -> rows there were when the request that       *)
             (* inserted it looked for an unfinished one.                   *)

vars == <<status, row, created, queue, req, wk, slot, lost, asked, fetched, looked>>
history == <<lost, asked, fetched, looked>>

Row == [portfolio: Portfolios, kind: Kinds]
NoRow == [portfolio |-> "none", kind |-> "none"]
Message == [job: Jobs, ranges: RangeSeqs, deferred: BOOLEAN]

ReqPcs == {"idle", "create", "reject", "push", "fail", "inline"}
Request == [pc: ReqPcs, row: Row \cup {NoRow}, job: Jobs \cup {NoJob}, ranges: RangeSeqs,
            seen: Jobs \cup {0}]  (* Rows there were when it looked, until it inserts. *)
IdleRequest == [pc |-> "idle", row |-> NoRow, job |-> NoJob, ranges |-> <<>>, seen |-> 0]

(* Steps of process_background_job; a worker in one of WorkingPcs has set   *)
(* its job to running and not yet written the status it leaves it with.     *)
WorkingPcs == {"defer", "refresh", "slot", "complete", "requeue", "fail"}
WkPcs == {"idle", "lookup", "start", "repush"} \cup WorkingPcs
Worker == [pc: WkPcs, job: Jobs \cup {NoJob}, ranges: RangeSeqs, deferred: BOOLEAN]
IdleWorker == [pc |-> "idle", job |-> NoJob, ranges |-> <<>>, deferred |-> FALSE]

Init ==
  /\ status = [j \in Jobs |-> "absent"]
  /\ row = [j \in Jobs |-> NoRow]
  /\ created = 0
  /\ queue = <<>>
  /\ req = [r \in Requests |-> IdleRequest]
  /\ wk = [w \in Workers |-> IdleWorker]
  /\ slot = [p \in Portfolios |-> TRUE]
  /\ lost = {}
  /\ asked = [j \in Jobs |-> {}]
  /\ fetched = [j \in Jobs |-> {}]
  /\ looked = [j \in Jobs |-> 0]

-----------------------------------------------------------------------------
(* API request threads.                                                      *)

(* Unfinished jobs of a portfolio, and the latest one by creation.           *)
Unfinished(p, k) ==
  {j \in Jobs : status[j] \in Active /\ row[j] = [portfolio |-> p, kind |-> k]}
IsLatest(j, S) == j \in S /\ \A i \in S : i <= j

(* The message ranges a request of kind k may carry.                         *)
RequestRanges(k) == IF k = "refresh_market_history" THEN Zooms ELSE {<<>>}

(* Mutant: a request answers with the pending job it found, without pushing. *)
ReusePendingUnpushed(r, p, k) ==
  /\ req[r].pc = "idle"
  /\ Unfinished(p, k) # {}
  /\ UNCHANGED vars

(* A request reads the portfolio and finds its latest unfinished job still   *)
(* pending: it will push another message for that row. (When the latest one  *)
(* is running, or pending and of a kind that is not re-pushed, the request   *)
(* answers with it and changes nothing.)                                     *)
ReusePending(r, p, k) ==
  /\ req[r].pc = "idle"
  /\ k \in Kinds \cap RepushKinds
  /\ \E j \in Jobs, ranges \in RequestRanges(k) :
       /\ IsLatest(j, Unfinished(p, k))
       /\ status[j] = "pending"
       /\ req' = [req EXCEPT ![r] = [pc |-> "push", row |-> row[j], job |-> j,
                                     ranges |-> ranges, seen |-> 0]]
  /\ UNCHANGED <<status, row, created, queue, wk, slot, history>>

(* Every request about to insert a row can (MaxJobs).                        *)
RoomForRow ==
  created + Cardinality({r \in Requests : req[r].pc \in {"create", "reject"}}) < MaxJobs

(* Mutant: only a pending job counts as unfinished.                          *)
FindNoPending(r, p, k) ==
  /\ req[r].pc = "idle"
  /\ RoomForRow
  /\ \A j \in Unfinished(p, k) : status[j] # "pending"
  /\ req' = [req EXCEPT ![r] = [pc |-> "create", job |-> NoJob, ranges |-> <<>>, seen |-> created,
                                row |-> [portfolio |-> p, kind |-> k]]]
  /\ UNCHANGED <<status, row, created, queue, wk, slot, history>>

(* It finds none, or does not look for one: it will insert a row, in a       *)
(* transaction of its own. Handlers are plain functions that run in a thread *)
(* pool, so another request may look before it does.                         *)
FindNone(r, p, k) ==
  /\ req[r].pc = "idle"
  /\ RoomForRow
  /\ k \in DedupKinds => Unfinished(p, k) = {}
  /\ \E ranges \in RequestRanges(k) :
       req' = [req EXCEPT ![r] = [pc |-> "create", job |-> NoJob, ranges |-> ranges, seen |-> created,
                                  row |-> [portfolio |-> p, kind |-> k]]]
  /\ UNCHANGED <<status, row, created, queue, wk, slot, history>>

(* An automatic refresh of too many tickers gets a row only to be failed.    *)
OverBudget(r, p) ==
  /\ "budget" \in Faults
  /\ req[r].pc = "idle"
  /\ RoomForRow
  /\ "refresh_market_data" \in Kinds
  /\ req' = [req EXCEPT ![r] = [pc |-> "reject", job |-> NoJob, ranges |-> <<>>, seen |-> created,
                                row |-> [portfolio |-> p, kind |-> "refresh_market_data"]]]
  /\ UNCHANGED <<status, row, created, queue, wk, slot, history>>

(* The step of a request after its INSERT.                                   *)
AfterCreate(q) ==
  CASE q.pc = "reject" -> "fail"
    [] q.pc = "create" /\ q.row.kind \in InlineKinds -> "inline"
    [] OTHER -> "push"

EnqueueBackgroundJob(r) ==
  LET j == created + 1
  IN /\ req[r].pc \in {"create", "reject"}
     /\ j \in Jobs
     /\ created' = j
     /\ status' = [status EXCEPT ![j] = "pending"]
     /\ row' = [row EXCEPT ![j] = req[r].row]
     /\ looked' = [looked EXCEPT ![j] = req[r].seen]
     /\ req' = [req EXCEPT ![r].pc = AfterCreate(req[r]), ![r].job = j, ![r].seen = 0]
     /\ UNCHANGED <<queue, wk, slot, lost, asked, fetched>>

PushMessage(r) ==
  /\ req[r].pc = "push"
  /\ Len(queue) < MaxQueue
  /\ queue' = Append(queue, [job |-> req[r].job, ranges |-> req[r].ranges,
                             deferred |-> FALSE])
  /\ asked' = [asked EXCEPT ![req[r].job] = @ \cup ({req[r].ranges} \ {<<>>})]
  /\ req' = [req EXCEPT ![r] = IdleRequest]
  /\ UNCHANGED <<status, row, created, wk, slot, lost, fetched, looked>>

(* Mutant: the exception of a push is swallowed, the row stays pending.      *)
PushFailsUnmarked(r) ==
  /\ "push" \in Faults
  /\ req[r].pc = "push"
  /\ req' = [req EXCEPT ![r] = IdleRequest]
  /\ UNCHANGED <<status, row, created, queue, wk, slot, history>>

PushFails(r) ==
  /\ "push" \in Faults
  /\ req[r].pc = "push"
  /\ req' = [req EXCEPT ![r].pc = "fail"]
  /\ UNCHANGED <<status, row, created, queue, wk, slot, history>>

(* complete_background_job sets the status whatever it was.                  *)
MarkUnqueued(r) ==
  /\ req[r].pc = "fail"
  /\ status' = [status EXCEPT ![req[r].job] = "failed"]
  /\ req' = [req EXCEPT ![r] = IdleRequest]
  /\ UNCHANGED <<row, created, queue, wk, slot, history>>

(* record_manual_lots does the work of its job itself.                       *)
FinishInline(r) ==
  /\ req[r].pc = "inline"
  /\ \E s \in Terminal : status' = [status EXCEPT ![req[r].job] = s]
  /\ req' = [req EXCEPT ![r] = IdleRequest]
  /\ UNCHANGED <<row, created, queue, wk, slot, history>>

RequestCrash(r) ==
  /\ "request" \in Faults
  /\ req[r].pc # "idle"
  /\ lost' = lost \cup ({req[r].job} \ {NoJob})
  /\ req' = [req EXCEPT ![r] = IdleRequest]
  /\ UNCHANGED <<status, row, created, queue, wk, slot, asked, fetched, looked>>

-----------------------------------------------------------------------------
(* Workers: run_worker and process_background_job.                           *)

JobKind(w) == row[wk[w].job].kind
JobPortfolio(w) == row[wk[w].job].portfolio
IsHistory(w) == JobKind(w) = "refresh_market_history"

Goto(w, pc) == wk' = [wk EXCEPT ![w].pc = pc]
SetStatus(w, s) == status' = [status EXCEPT ![wk[w].job] = s]

(* BLPOP takes the message off the list for good.                            *)
Dequeue(w) ==
  /\ wk[w].pc = "idle"
  /\ queue # <<>>
  /\ LET m == Head(queue)
     IN wk' = [wk EXCEPT ![w] = [pc |-> "lookup", job |-> m.job, ranges |-> m.ranges,
                                 deferred |-> m.deferred]]
  /\ queue' = Tail(queue)
  /\ UNCHANGED <<status, row, created, req, slot, history>>

(* Mutant: no status check.                                                  *)
FindAny(w) ==
  /\ wk[w].pc = "lookup"
  /\ Goto(w, "start")
  /\ UNCHANGED <<status, row, created, queue, req, slot, history>>

(* The status check, made in a transaction before the one of Start.          *)
FindUnfinished(w) ==
  /\ wk[w].pc = "lookup"
  /\ status[wk[w].job] \in Active
  /\ Goto(w, "start")
  /\ UNCHANGED <<status, row, created, queue, req, slot, history>>

(* Mutant: the status "dropped" of the returned record is also written.      *)
DropAndMark(w) ==
  /\ wk[w].pc = "lookup"
  /\ status[wk[w].job] \notin Active
  /\ SetStatus(w, "dropped")
  /\ wk' = [wk EXCEPT ![w] = IdleWorker]
  /\ UNCHANGED <<row, created, queue, req, slot, history>>

DropFinished(w) ==
  /\ wk[w].pc = "lookup"
  /\ status[wk[w].job] \notin Active
  /\ wk' = [wk EXCEPT ![w] = IdleWorker]
  /\ UNCHANGED <<status, row, created, queue, req, slot, history>>

AfterStart(w) ==
  IF JobKind(w) \notin ProviderKinds THEN "complete"
  ELSE IF wk[w].deferred THEN "defer" ELSE "refresh"

Start(w) ==
  /\ wk[w].pc = "start"
  /\ SetStatus(w, "running")
  /\ Goto(w, AfterStart(w))
  /\ UNCHANGED <<row, created, queue, req, slot, history>>

(* A deferred message is marked running again, then slept upon.              *)
Defer(w) ==
  /\ wk[w].pc = "defer"
  /\ SetStatus(w, "running")
  /\ Goto(w, "refresh")
  /\ UNCHANGED <<row, created, queue, req, slot, history>>

(* Mutant: only the first of the ranges is refreshed.                        *)
RefreshedFirst(w) ==
  /\ Goto(w, "complete")
  /\ fetched' = IF IsHistory(w)
                THEN [fetched EXCEPT ![wk[w].job] = @ \cup {Head(wk[w].ranges)}]
                ELSE fetched

(* What follows a refreshed batch of quotes, or a refreshed history range.   *)
Refreshed(w) ==
  IF IsHistory(w)
  THEN /\ wk' = [wk EXCEPT ![w].ranges = Tail(@),
                           ![w].pc = IF Len(wk[w].ranges) = 1 THEN "complete"
                                     ELSE "refresh"]
       /\ fetched' = [fetched EXCEPT ![wk[w].job] = @ \cup {Head(wk[w].ranges)}]
  ELSE Goto(w, "complete") /\ UNCHANGED fetched

CacheHit(w) ==
  /\ wk[w].pc = "refresh"
  /\ Refreshed(w)
  /\ UNCHANGED <<status, row, created, queue, req, slot, lost, asked, looked>>

CacheMiss(w) ==
  /\ wk[w].pc = "refresh"
  /\ Goto(w, "slot")
  /\ UNCHANGED <<status, row, created, queue, req, slot, history>>

(* With a slot the provider is asked; it may raise.                          *)
Fetch(w) ==
  /\ wk[w].pc = "slot"
  /\ slot[JobPortfolio(w)]
  /\ Refreshed(w) \/ (Goto(w, "fail") /\ UNCHANGED fetched)
  /\ UNCHANGED <<status, row, created, queue, req, slot, lost, asked, looked>>

(* RateLimitExceeded reaches the worker only from a refresh that does not    *)
(* wait; one that waits sleeps in acquire_provider_fetch_slot until Fetch.   *)
RateLimited(w) ==
  /\ ~RefreshWaits
  /\ wk[w].pc = "slot"
  /\ ~slot[JobPortfolio(w)]
  /\ Goto(w, "requeue")
  /\ UNCHANGED <<status, row, created, queue, req, slot, history>>

(* Mutant: the message goes back, the row is not reset to pending.           *)
RequeueStillRunning(w) ==
  /\ wk[w].pc = "requeue"
  /\ Goto(w, "repush")
  /\ UNCHANGED <<status, row, created, queue, req, slot, history>>

(* _requeue_market_data_job: the row first, then the message with what is    *)
(* left to do.                                                               *)
Requeue(w) ==
  /\ wk[w].pc = "requeue"
  /\ SetStatus(w, "pending")
  /\ Goto(w, "repush")
  /\ UNCHANGED <<row, created, queue, req, slot, history>>

Repush(w) ==
  /\ wk[w].pc = "repush"
  /\ queue' = Append(queue, [job |-> wk[w].job, ranges |-> wk[w].ranges,
                             deferred |-> TRUE])
  /\ wk' = [wk EXCEPT ![w] = IdleWorker]
  /\ UNCHANGED <<status, row, created, req, slot, history>>

RepushFails(w) ==
  /\ "push" \in Faults
  /\ wk[w].pc = "repush"
  /\ Goto(w, "fail")
  /\ UNCHANGED <<status, row, created, queue, req, slot, history>>

(* The work itself, apply_market_quotes_to_portfolio or the rebuild, touches *)
(* no job state and lies between this state and the step out of "complete".  *)
(* It may raise, like the cache before it; waiting for a slot does not.      *)
WorkRaises(w) ==
  /\ wk[w].pc \in {"refresh", "complete"}
  /\ Goto(w, "fail")
  /\ UNCHANGED <<status, row, created, queue, req, slot, history>>

Complete(w) ==
  /\ wk[w].pc = "complete"
  /\ SetStatus(w, "completed")
  /\ wk' = [wk EXCEPT ![w] = IdleWorker]
  /\ UNCHANGED <<row, created, queue, req, slot, history>>

(* Mutant: the exception is logged, the row stays running.                   *)
FailUnmarked(w) ==
  /\ wk[w].pc = "fail"
  /\ wk' = [wk EXCEPT ![w] = IdleWorker]
  /\ UNCHANGED <<status, row, created, queue, req, slot, history>>

Fail(w) ==
  /\ wk[w].pc = "fail"
  /\ SetStatus(w, "failed")
  /\ wk' = [wk EXCEPT ![w] = IdleWorker]
  /\ UNCHANGED <<row, created, queue, req, slot, history>>

(* The worker is killed, or the repository raises outside its try block or   *)
(* again inside the handler: the message is gone, the row stays as it is.    *)
WorkerLost(w) ==
  /\ "worker" \in Faults
  /\ wk[w].pc # "idle"
  /\ lost' = lost \cup {wk[w].job}
  /\ wk' = [wk EXCEPT ![w] = IdleWorker]
  /\ UNCHANGED <<status, row, created, queue, req, slot, asked, fetched, looked>>

(* The provider slots of the account, or of all accounts together, are used  *)
(* up: by the fetches of its jobs and by its requests for option chains.     *)
WindowUsed(p) ==
  /\ slot[p]
  /\ slot' = [slot EXCEPT ![p] = FALSE]
  /\ UNCHANGED <<status, row, created, queue, req, wk, history>>

(* The fixed windows that ran out end.                                       *)
WindowEnds(p) ==
  /\ ~slot[p]
  /\ slot' = [slot EXCEPT ![p] = TRUE]
  /\ UNCHANGED <<status, row, created, queue, req, wk, history>>

-----------------------------------------------------------------------------
Ask(r) ==
  \E p \in Portfolios :
    \/ \E k \in Kinds : ReusePending(r, p, k) \/ FindNone(r, p, k)
    \/ OverBudget(r, p)

Serve(r) ==
  \/ EnqueueBackgroundJob(r) \/ PushMessage(r) \/ PushFails(r)
  \/ MarkUnqueued(r) \/ FinishInline(r)

Work(w) ==
  \/ Dequeue(w) \/ FindUnfinished(w) \/ DropFinished(w) \/ Start(w) \/ Defer(w)
  \/ CacheHit(w) \/ CacheMiss(w) \/ Fetch(w) \/ RateLimited(w)
  \/ Requeue(w) \/ Repush(w) \/ RepushFails(w)
  \/ WorkRaises(w) \/ Complete(w) \/ Fail(w)

Next ==
  \/ \E r \in Requests : Ask(r) \/ Serve(r) \/ RequestCrash(r)
  \/ \E w \in Workers : Work(w) \/ WorkerLost(w)
  \/ \E p \in Portfolios : WindowUsed(p) \/ WindowEnds(p)

Spec == Init /\ [][Next]_vars

(* Threads and workers that run take their next step, and the fixed window   *)
(* of every account but the starved ones ends. Nobody has to send a request. *)
(* A push is enabled again and again, not always, only because of MaxQueue   *)
(* (the Redis list has no bound), and a fetch only while others do not use   *)
(* up the window again: those two get strong fairness.                       *)
Fairness ==
  /\ \A r \in Requests : WF_vars(Serve(r)) /\ SF_vars(PushMessage(r) \/ PushFails(r))
  /\ \A w \in Workers : WF_vars(Work(w)) /\ SF_vars(Fetch(w))
  /\ \A p \in Portfolios \ Starved : WF_vars(WindowEnds(p))

(* Users who come back. For quotes they press refresh or change the          *)
(* portfolio (a POST; reading the page pushes nothing), for histories they   *)
(* open the performance page while prices are missing.                       *)
Polling ==
  \A p \in Portfolios, k \in RepushKinds :
    SF_vars(\E r \in Requests : ReusePending(r, p, k))

FairSpec == Spec /\ Fairness /\ Polling

-----------------------------------------------------------------------------
TypeOK ==
  /\ status \in [Jobs -> Active \cup Terminal \cup {"absent"}]
  /\ row \in [Jobs -> Row \cup {NoRow}]
  /\ created \in Jobs \cup {0}
  /\ queue \in Seq(Message)
  /\ req \in [Requests -> Request]
  /\ wk \in [Workers -> Worker]
  /\ slot \in [Portfolios -> BOOLEAN]
  /\ lost \subseteq Jobs
  /\ asked \in [Jobs -> SUBSET RangeSeqs]
  /\ fetched \in [Jobs -> SUBSET Ranges]
  /\ looked \in [Jobs -> Jobs \cup {0}]

InQueue(j) == \E i \in 1 .. Len(queue) : queue[i].job = j
InRequest(j) == \E r \in Requests : req[r].pc \in {"push", "fail", "inline"} /\ req[r].job = j
InWorker(j) == \E w \in Workers : wk[w].pc # "idle" /\ wk[w].job = j
Worked(j) == \E w \in Workers : wk[w].pc \in WorkingPcs /\ wk[w].job = j
Carried(j) == InQueue(j) \/ InRequest(j) \/ InWorker(j)

(* No job is forgotten: an unfinished row always has a message in the queue, *)
(* a request or a worker that will still write its status, unless a fault    *)
(* took the one that would have, and a row says running only while a worker  *)
(* has it in hand.                                                           *)
ActiveJobIsCarried ==
  \A j \in Jobs \ lost : status[j] \in Active => Carried(j)
RunningJobIsWorked ==
  \A j \in Jobs \ lost : status[j] = "running" => Worked(j)

(* A completed history job has refreshed every range of some message that    *)
(* was pushed for it, however often it was rate limited and requeued on the  *)
(* way.                                                                      *)
CompletedHistoryIsFetched ==
  \A j \in Jobs :
    (status[j] = "completed" /\ row[j].kind = "refresh_market_history") =>
      \E ranges \in asked[j] : {ranges[i] : i \in DOMAIN ranges} \subseteq fetched[j]

(* A refresh is doubled only by requests that overlap: of two unfinished     *)
(* refreshes of a kind, the later was asked for by a request that had looked *)
(* for an unfinished one before the earlier was inserted. Nothing else slips *)
(* past the look of _queue_market_data_refresh and its siblings: no row that *)
(* is running, was handed back, or was left behind by a stopped request.     *)
NoRefreshOverlooked ==
  \A i, j \in Jobs :
    (/\ i < j /\ row[i] = row[j] /\ row[i].kind \in DedupKinds
     /\ {status[i], status[j]} \subseteq Active) => looked[j] < i

(* The status check of process_background_job: a finished job is never       *)
(* processed again (README, Background Worker; test                          *)
(* test_worker_drops_already_finished_queued_job_without_reprocessing).      *)
FinishedStaysFinished ==
  [][\A j \in Jobs : status[j] \in Terminal => status'[j] = status[j]]_vars

(* The promise of the README, as a refinement.                               *)
Lifecycle == INSTANCE JobLifecycle
               WITH inline <- {j \in Jobs : row[j].kind \in InlineKinds}
LifecycleSpec == Lifecycle!Spec

(* Every job whose account still gets provider slots ends, unless a fault    *)
(* took its message; an account out of slots holds up nobody else            *)
(* (test_worker_requeues_rate_limited_account_without_blocking_queue).       *)
Ended(j) == status[j] \in Terminal
EveryJobEnds ==
  \A j \in Jobs :
    (status[j] \in Active /\ row[j].portfolio \notin Starved) ~> (Ended(j) \/ j \in lost)

(* A pending quote or history refresh ends even if the request that should   *)
(* have pushed its message stopped before it did: the next one pushes it.    *)
PendingRefreshEnds ==
  \A j \in Jobs :
    (/\ status[j] = "pending" /\ row[j].kind \in RepushKinds
     /\ row[j].portfolio \notin Starved) ~> Ended(j)
=============================================================================
