--------------------------- MODULE JobQueueProofs ---------------------------
(***************************************************************************)
(* Proofs about JobQueue, for any number of portfolios, API threads,       *)
(* workers and jobs, any queue bound and every combination of faults; the  *)
(* last part is about one worker.                                          *)
(***************************************************************************)
EXTENDS JobQueue, TLAPS, SequenceTheorems, FiniteSetTheorems

(* What a carrier of job j must know of it: its row exists, and if the job   *)
(* refreshes history there is still a range to refresh.                      *)
Known(j) == j \in 1 .. created
Fits(j, ranges) ==
  row[j].kind = "refresh_market_history" => ranges # <<>>

(* Only rows that were inserted have a status.                               *)
RowsKnown == \A j \in Jobs : status[j] # "absent" => Known(j)

MessagesFit ==
  \A i \in 1 .. Len(queue) : Known(queue[i].job) /\ Fits(queue[i].job, queue[i].ranges)

(* A request about to insert has a row to insert; one that has inserted or   *)
(* found a row carries its number.                                           *)
RequestsFit ==
  \A r \in Requests :
    /\ req[r].pc \in {"create", "reject"} =>
         /\ req[r].row \in Row
         /\ req[r].row.kind = "refresh_market_history" => req[r].ranges # <<>>
    /\ req[r].pc \in {"push", "fail", "inline"} => Known(req[r].job)
    /\ req[r].pc = "push" => Fits(req[r].job, req[r].ranges)
    /\ req[r].pc = "inline" => row[req[r].job].kind \in InlineKinds

(* A worker between BLPOP and its last write has a job in hand, and until it *)
(* has refreshed them all, ranges to refresh.                                *)
WorkersFit ==
  \A w \in Workers :
    /\ wk[w].pc # "idle" => Known(wk[w].job)
    /\ wk[w].pc \notin {"idle", "complete", "fail"} => Fits(wk[w].job, wk[w].ranges)

IInv == TypeOK /\ RowsKnown /\ MessagesFit /\ RequestsFit /\ WorkersFit

-----------------------------------------------------------------------------
(* The records and sequences of the model.                                   *)

LEMMA IdleOK == IdleWorker \in Worker /\ IdleRequest \in Request
BY DEF IdleWorker, Worker, IdleRequest, Request, NoRow, NoJob, WkPcs, ReqPcs, RangeSeqs

LEMMA KnownJob ==
  ASSUME TypeOK, NEW j, Known(j)
  PROVE  j \in Jobs
BY BoundsAssumption DEF TypeOK, Known, Jobs

(* Goto changes the step of one worker and nothing else it knows.            *)
LEMMA GotoEffect ==
  ASSUME wk \in [Workers -> Worker], NEW w \in Workers, NEW pc \in WkPcs, Goto(w, pc)
  PROVE  /\ wk' \in [Workers -> Worker]
         /\ wk'[w].pc = pc
         /\ wk'[w].job = wk[w].job
         /\ wk'[w].ranges = wk[w].ranges
         /\ \A v \in Workers \ {w} : wk'[v] = wk[v]
<1> DEFINE moved == [wk[w] EXCEPT !.pc = pc]
<1>1. wk[w] \in Worker
  OBVIOUS
<1>2. /\ moved \in Worker
      /\ moved.pc = pc
      /\ moved.job = wk[w].job
      /\ moved.ranges = wk[w].ranges
  BY <1>1 DEF Worker
<1>3. wk' = [wk EXCEPT ![w] = moved]
  BY DEF Goto
<1> HIDE DEF moved
<1>4. QED
  BY <1>1, <1>2, <1>3

LEMMA SetStatusEffect ==
  ASSUME TypeOK, NEW w \in Workers, wk[w].job \in Jobs,
         NEW s \in Active \cup Terminal, SetStatus(w, s)
  PROVE  /\ status' \in [Jobs -> Active \cup Terminal \cup {"absent"}]
         /\ status'[wk[w].job] = s
         /\ \A j \in Jobs \ {wk[w].job} : status'[j] = status[j]
BY DEF TypeOK, SetStatus

(* The loop over the ranges of a history job takes the first one off.        *)
LEMMA RefreshedEffect ==
  ASSUME TypeOK, WorkersFit, NEW w \in Workers, wk[w].pc \in {"refresh", "slot"},
         Refreshed(w)
  PROVE  /\ wk' \in [Workers -> Worker]
         /\ wk'[w].pc \in {"refresh", "complete"}
         /\ wk'[w].job = wk[w].job
         /\ (wk'[w].pc = "refresh" /\ IsHistory(w)) => wk'[w].ranges # <<>>
         /\ wk'[w].pc = "refresh" => IsHistory(w)
         /\ \A v \in Workers \ {w} : wk'[v] = wk[v]
         /\ fetched' \in [Jobs -> SUBSET Ranges]
<1>1. wk[w] \in Worker /\ wk[w].job \in Jobs
  BY KnownJob DEF TypeOK, WorkersFit
<1>2. CASE IsHistory(w)
  <2> DEFINE pc == IF Len(wk[w].ranges) = 1 THEN "complete" ELSE "refresh"
             moved == [wk[w] EXCEPT !.ranges = Tail(@), !.pc = pc]
  <2>1. wk[w].ranges \in Seq(Ranges) /\ wk[w].ranges # <<>>
    BY <1>1, <1>2 DEF WorkersFit, Fits, IsHistory, JobKind, Worker, RangeSeqs
  <2>2. /\ Head(wk[w].ranges) \in Ranges
        /\ Tail(wk[w].ranges) \in Seq(Ranges)
        /\ Len(Tail(wk[w].ranges)) = Len(wk[w].ranges) - 1
        /\ Len(wk[w].ranges) \in Nat
    BY <2>1, HeadTailProperties
  <2>3. pc \in WkPcs /\ pc \in {"refresh", "complete"}
    BY DEF WkPcs, WorkingPcs
  <2>4. pc = "refresh" => Tail(wk[w].ranges) # <<>>
    <3>1. Len(wk[w].ranges) # 0 /\ Len(<<>>) = 0
      BY <2>1, EmptySeq
    <3>2. pc = "refresh" => Len(Tail(wk[w].ranges)) # 0
      BY <2>2, <3>1
    <3>3. QED
      BY <3>1, <3>2
  <2> HIDE DEF pc
  <2>5. /\ moved \in Worker
        /\ moved.pc = pc
        /\ moved.job = wk[w].job
        /\ moved.ranges = Tail(wk[w].ranges)
    BY <1>1, <2>2, <2>3 DEF Worker, RangeSeqs
  <2>6. /\ wk' = [wk EXCEPT ![w] = moved]
        /\ fetched' = [fetched EXCEPT ![wk[w].job] = @ \cup {Head(wk[w].ranges)}]
    BY <1>2 DEF Refreshed, pc
  <2> HIDE DEF moved
  <2>7. fetched' \in [Jobs -> SUBSET Ranges]
    BY <1>1, <2>2, <2>6 DEF TypeOK
  <2>8. QED
    BY <1>2, <2>3, <2>4, <2>5, <2>6, <2>7 DEF TypeOK
<1>3. CASE ~IsHistory(w)
  BY <1>3, GotoEffect DEF Refreshed, TypeOK, WkPcs, WorkingPcs
<1>4. QED
  BY <1>2, <1>3

-----------------------------------------------------------------------------
(* Nothing a worker does to itself disturbs what messages and requests know. *)

LEMMA OthersFit ==
  ASSUME IInv, UNCHANGED <<row, created, queue, req>>
  PROVE  MessagesFit' /\ RequestsFit'
BY DEF IInv, MessagesFit, RequestsFit, Known, Fits

LEMMA MoveFits ==
  ASSUME IInv, NEW w \in Workers, NEW pc \in WkPcs, Goto(w, pc),
         wk[w].pc \notin {"idle", "fail"},
         wk[w].pc = "complete" => pc = "fail",
         UNCHANGED <<row, created, queue, req>>
  PROVE  wk' \in [Workers -> Worker] /\ MessagesFit' /\ RequestsFit' /\ WorkersFit'
<1>1. /\ wk' \in [Workers -> Worker]
      /\ wk'[w].pc = pc /\ wk'[w].job = wk[w].job /\ wk'[w].ranges = wk[w].ranges
      /\ \A v \in Workers \ {w} : wk'[v] = wk[v]
  BY GotoEffect DEF IInv, TypeOK
<1>2. WorkersFit'
  BY <1>1 DEF IInv, WorkersFit, Known, Fits
<1>3. QED
  BY <1>1, <1>2, OthersFit

LEMMA RestFits ==
  ASSUME IInv, NEW w \in Workers, wk' = [wk EXCEPT ![w] = IdleWorker],
         UNCHANGED <<row, created, queue, req>>
  PROVE  wk' \in [Workers -> Worker] /\ MessagesFit' /\ RequestsFit' /\ WorkersFit'
<1>1. wk' \in [Workers -> Worker]
  BY IdleOK DEF IInv, TypeOK
<1>2. wk'[w].pc = "idle" /\ \A v \in Workers \ {w} : wk'[v] = wk[v]
  BY DEF IInv, TypeOK, IdleWorker
<1>3. WorkersFit'
  BY <1>2 DEF IInv, WorkersFit, Known, Fits
<1>4. QED
  BY <1>1, <1>3, OthersFit

(* A worker that refreshed a range still fits.                               *)
LEMMA RefreshedFits ==
  ASSUME IInv, NEW w \in Workers, wk[w].pc \in {"refresh", "slot"}, Refreshed(w),
         UNCHANGED <<row, created, queue, req>>
  PROVE  /\ wk' \in [Workers -> Worker] /\ fetched' \in [Jobs -> SUBSET Ranges]
         /\ MessagesFit' /\ RequestsFit' /\ WorkersFit'
<1>1. /\ wk' \in [Workers -> Worker]
      /\ wk'[w].pc \in {"refresh", "complete"}
      /\ wk'[w].job = wk[w].job
      /\ (wk'[w].pc = "refresh" /\ IsHistory(w)) => wk'[w].ranges # <<>>
      /\ \A v \in Workers \ {w} : wk'[v] = wk[v]
      /\ fetched' \in [Jobs -> SUBSET Ranges]
  BY RefreshedEffect DEF IInv
<1>2. WorkersFit'
  BY <1>1 DEF IInv, WorkersFit, Known, Fits, IsHistory, JobKind
<1>3. QED
  BY <1>1, <1>2, OthersFit

-----------------------------------------------------------------------------
(* IInv is inductive: initially, for the steps of requests, for those of     *)
(* workers, and for the provider windows.                                    *)

LEMMA InitFits == Init => IInv
<1> SUFFICES ASSUME Init PROVE IInv
  OBVIOUS
<1>1. TypeOK
  BY IdleOK, EmptySeq, BoundsAssumption DEF Init, TypeOK, Jobs
<1>2. RowsKnown /\ MessagesFit /\ RequestsFit /\ WorkersFit
  BY EmptySeq DEF Init, RowsKnown, MessagesFit, RequestsFit, WorkersFit, IdleRequest, IdleWorker
<1>3. QED
  BY <1>1, <1>2 DEF IInv

(* A request leaves the messages and the workers as they fit, when the rows  *)
(* stay, and only its own record changes.                                    *)
LEMMA RequestFits ==
  ASSUME IInv, NEW r \in Requests, NEW q \in Request, req' = [req EXCEPT ![r] = q],
         UNCHANGED <<row, created, wk>>,
         q.pc \in {"create", "reject"} =>
           q.row \in Row /\ (q.row.kind = "refresh_market_history" => q.ranges # <<>>),
         q.pc \in {"push", "fail", "inline"} => Known(q.job),
         q.pc = "push" => Fits(q.job, q.ranges),
         q.pc = "inline" => row[q.job].kind \in InlineKinds
  PROVE  req' \in [Requests -> Request] /\ RequestsFit' /\ WorkersFit'
<1>1. req' \in [Requests -> Request] /\ req'[r] = q
  BY DEF IInv, TypeOK
<1>2. \A v \in Requests \ {r} : req'[v] = req[v]
  BY DEF IInv, TypeOK
<1>3. RequestsFit'
  BY <1>1, <1>2 DEF IInv, RequestsFit, Known, Fits
<1>4. WorkersFit'
  BY DEF IInv, WorkersFit, Known, Fits
<1>5. QED
  BY <1>1, <1>3, <1>4

LEMMA RangesOK ==
  ASSUME NEW k, NEW ranges \in RequestRanges(k)
  PROVE  ranges \in RangeSeqs /\ (k = "refresh_market_history" => ranges # <<>>)
BY ZoomsAssumption, EmptySeq DEF RequestRanges, RangeSeqs

LEMMA AskFits ==
  ASSUME IInv, NEW r \in Requests, Ask(r)
  PROVE  IInv'
<1> USE DEF history
<1>1. ASSUME NEW p \in Portfolios, NEW k \in Kinds, ReusePending(r, p, k)
      PROVE  IInv'
  <2>1. PICK j \in Jobs, ranges \in RequestRanges(k) :
          /\ IsLatest(j, Unfinished(p, k))
          /\ status[j] = "pending"
          /\ req' = [req EXCEPT ![r] = [pc |-> "push", row |-> row[j], job |-> j,
                                        ranges |-> ranges, seen |-> 0]]
    BY <1>1 DEF ReusePending
  <2> DEFINE q == [pc |-> "push", row |-> row[j], job |-> j, ranges |-> ranges,
               seen |-> 0]
  <2>2. row[j] = [portfolio |-> p, kind |-> k]
    BY <2>1 DEF IsLatest, Unfinished
  <2>3. Known(j)
    BY <2>1 DEF IInv, RowsKnown
  <2>4. Fits(j, ranges) /\ ranges \in RangeSeqs
    BY <2>2, RangesOK DEF Fits
  <2>5. q \in Request
    BY <2>4, <2>2 DEF Request, ReqPcs, Row, NoRow
  <2>6. UNCHANGED <<status, row, created, queue, wk, slot, lost, asked, fetched, looked>>
    BY <1>1 DEF ReusePending
  <2>7. req' \in [Requests -> Request] /\ RequestsFit' /\ WorkersFit'
    <3> HIDE DEF q
    <3>1. q.pc = "push" /\ q.job = j /\ q.ranges = ranges
      BY DEF q
    <3>2. req' = [req EXCEPT ![r] = q]
      BY <2>1 DEF q
    <3>3. QED
      BY <2>3, <2>4, <2>5, <2>6, <3>1, <3>2, RequestFits
  <2>8. QED
    BY <2>6, <2>7 DEF IInv, TypeOK, RowsKnown, MessagesFit, Known, Fits
<1>2. ASSUME NEW q \in Request, req' = [req EXCEPT ![r] = q],
             UNCHANGED <<status, row, created, queue, wk, slot, lost, asked, fetched, looked>>,
             q.pc \in {"create", "reject"}, q.row \in Row,
             q.row.kind = "refresh_market_history" => q.ranges # <<>>
      PROVE  IInv'
  <2>1. req' \in [Requests -> Request] /\ RequestsFit' /\ WorkersFit'
    BY <1>2, RequestFits
  <2>2. QED
    BY <1>2, <2>1 DEF IInv, TypeOK, RowsKnown, MessagesFit, Known, Fits
<1>3. ASSUME NEW p \in Portfolios, NEW k \in Kinds, FindNone(r, p, k)
      PROVE  IInv'
  <2>1. PICK ranges \in RequestRanges(k) :
          req' = [req EXCEPT ![r] = [pc |-> "create", job |-> NoJob, ranges |-> ranges,
                                     seen |-> created, row |-> [portfolio |-> p, kind |-> k]]]
    BY <1>3 DEF FindNone
  <2> DEFINE q == [pc |-> "create", job |-> NoJob, ranges |-> ranges,
                   seen |-> created, row |-> [portfolio |-> p, kind |-> k]]
  <2>2. ranges \in RangeSeqs /\ (k = "refresh_market_history" => ranges # <<>>)
    BY RangesOK
  <2>3. /\ q \in Request /\ q.pc = "create" /\ q.row \in Row
        /\ q.row.kind = "refresh_market_history" => q.ranges # <<>>
    BY <2>2 DEF Request, ReqPcs, Row, IInv, TypeOK
  <2>4. UNCHANGED <<status, row, created, queue, wk, slot, lost, asked, fetched, looked>>
    BY <1>3 DEF FindNone
  <2>5. QED
    BY <2>1, <2>3, <2>4, <1>2
<1>4. ASSUME NEW p \in Portfolios, OverBudget(r, p)
      PROVE  IInv'
  <2> DEFINE q == [pc |-> "reject", job |-> NoJob, ranges |-> <<>>, seen |-> created,
                   row |-> [portfolio |-> p, kind |-> "refresh_market_data"]]
  <2>1. q \in Request /\ q.pc = "reject" /\ q.row \in Row
        /\ q.row.kind # "refresh_market_history"
    BY <1>4, EmptySeq DEF OverBudget, Request, ReqPcs, Row, RangeSeqs, IInv, TypeOK
  <2>2. /\ req' = [req EXCEPT ![r] = q]
        /\ UNCHANGED <<status, row, created, queue, wk, slot, lost, asked, fetched, looked>>
    BY <1>4 DEF OverBudget
  <2>3. QED
    BY <2>1, <2>2, <1>2
<1>5. QED
  BY <1>1, <1>3, <1>4 DEF Ask

LEMMA EnqueueFits ==
  ASSUME IInv, NEW r \in Requests, EnqueueBackgroundJob(r)
  PROVE  IInv'
<1>0. PICK j : j = created + 1
  OBVIOUS
<1> DEFINE q == [req[r] EXCEPT !.pc = AfterCreate(req[r]), !.job = j, !.seen = 0]
<1>1. /\ req[r].pc \in {"create", "reject"}
      /\ j \in Jobs
      /\ created' = j
      /\ status' = [status EXCEPT ![j] = "pending"]
      /\ row' = [row EXCEPT ![j] = req[r].row]
      /\ req' = [req EXCEPT ![r] = q]
      /\ looked' = [looked EXCEPT ![j] = req[r].seen]
      /\ UNCHANGED <<queue, wk, slot, lost, asked, fetched>>
  BY <1>0 DEF EnqueueBackgroundJob
<1>2. /\ req[r] \in Request
      /\ req[r].row \in Row
      /\ req[r].row.kind = "refresh_market_history" => req[r].ranges # <<>>
  BY <1>1 DEF IInv, TypeOK, RequestsFit
<1>3. created \in Nat /\ \A i : Known(i) => (Known(i)' /\ row'[i] = row[i])
  BY <1>0, <1>1, BoundsAssumption DEF IInv, TypeOK, Known, Jobs
<1>4. Known(j)' /\ row'[j] = req[r].row
  BY <1>0, <1>1, <1>3 DEF IInv, TypeOK, Known
<1>5. /\ AfterCreate(req[r]) \in {"push", "fail", "inline"}
      /\ AfterCreate(req[r]) = "inline" => req[r].row.kind \in InlineKinds
  BY <1>1 DEF AfterCreate
<1>6. /\ q \in Request /\ req[r].seen \in Jobs \cup {0}
      /\ q.pc = AfterCreate(req[r])
      /\ q.job = j
      /\ q.ranges = req[r].ranges
  BY <1>1, <1>2, <1>5 DEF Request, ReqPcs
<1> HIDE DEF q
<1>7. req' \in [Requests -> Request] /\ req'[r] = q
      /\ \A v \in Requests \ {r} : req'[v] = req[v]
  BY <1>1, <1>6 DEF IInv, TypeOK
<1>8. TypeOK'
  BY <1>1, <1>2, <1>6, <1>7 DEF IInv, TypeOK, Active
<1>9. RowsKnown'
  BY <1>1, <1>3, <1>4 DEF IInv, TypeOK, RowsKnown
<1>10. MessagesFit'
  BY <1>1, <1>3 DEF IInv, MessagesFit, Fits
<1>11. RequestsFit'
  BY <1>2, <1>3, <1>4, <1>5, <1>6, <1>7 DEF IInv, RequestsFit, Fits
<1>12. WorkersFit'
  BY <1>1, <1>3 DEF IInv, WorkersFit, Fits
<1>13. QED
  BY <1>8, <1>9, <1>10, <1>11, <1>12 DEF IInv

(* A request that is done, whatever it wrote in the status of its own job.   *)
LEMMA DoneFits ==
  ASSUME IInv, NEW r \in Requests, req' = [req EXCEPT ![r] = IdleRequest],
         UNCHANGED <<row, created, wk>>
  PROVE  req' \in [Requests -> Request] /\ RequestsFit' /\ WorkersFit'
<1>1. IdleRequest \in Request /\ IdleRequest.pc = "idle"
  BY IdleOK DEF IdleRequest
<1>2. QED
  BY <1>1, RequestFits

LEMMA PushMessageFits ==
  ASSUME IInv, NEW r \in Requests, PushMessage(r)
  PROVE  IInv'
<1> DEFINE m == [job |-> req[r].job, ranges |-> req[r].ranges, deferred |-> FALSE]
<1>1. /\ req[r].pc = "push"
      /\ queue' = Append(queue, m)
      /\ asked' = [asked EXCEPT ![req[r].job] = @ \cup ({req[r].ranges} \ {<<>>})]
      /\ req' = [req EXCEPT ![r] = IdleRequest]
      /\ UNCHANGED <<status, row, created, wk, slot, lost, fetched, looked>>
  BY DEF PushMessage
<1>2. Known(req[r].job) /\ Fits(req[r].job, req[r].ranges) /\ req[r] \in Request
  BY <1>1 DEF IInv, RequestsFit, TypeOK
<1>3. req[r].job \in Jobs /\ req[r].ranges \in RangeSeqs
  BY <1>2, KnownJob DEF IInv, Request
<1>4. m \in Message /\ m.job = req[r].job /\ m.ranges = req[r].ranges
  BY <1>3 DEF Message
<1> HIDE DEF m
<1>5. /\ queue' \in Seq(Message)
      /\ Len(queue') = Len(queue) + 1
      /\ \A i \in 1 .. Len(queue) : queue'[i] = queue[i]
      /\ queue'[Len(queue) + 1] = m
      /\ Len(queue) \in Nat
  BY <1>1, <1>4, AppendProperties, LenProperties DEF IInv, TypeOK
<1>6. req' \in [Requests -> Request] /\ RequestsFit' /\ WorkersFit'
  BY <1>1, DoneFits
<1>7. asked' \in [Jobs -> SUBSET RangeSeqs]
  BY <1>1, <1>3 DEF IInv, TypeOK
<1>8. TypeOK'
  BY <1>1, <1>5, <1>6, <1>7 DEF IInv, TypeOK
<1>9. MessagesFit'
  BY <1>1, <1>2, <1>4, <1>5 DEF IInv, MessagesFit, Known, Fits
<1>10. RowsKnown'
  BY <1>1 DEF IInv, RowsKnown, Known
<1>11. QED
  BY <1>6, <1>8, <1>9, <1>10 DEF IInv

LEMMA ServeFits ==
  ASSUME IInv, NEW r \in Requests, Serve(r) \/ RequestCrash(r)
  PROVE  IInv'
<1> USE DEF history
<1>1. CASE PushFails(r)
  <2> DEFINE q == [req[r] EXCEPT !.pc = "fail"]
  <2>1. /\ req[r].pc = "push"
        /\ req' = [req EXCEPT ![r] = q]
        /\ UNCHANGED <<status, row, created, queue, wk, slot, lost, asked, fetched, looked>>
    BY <1>1 DEF PushFails
  <2>2. req[r] \in Request /\ Known(req[r].job)
    BY <2>1 DEF IInv, TypeOK, RequestsFit
  <2>3. q \in Request /\ q.pc = "fail" /\ q.job = req[r].job
    BY <2>2 DEF Request, ReqPcs
  <2> HIDE DEF q
  <2>4. req' \in [Requests -> Request] /\ RequestsFit' /\ WorkersFit'
    BY <2>1, <2>2, <2>3, RequestFits
  <2>5. QED
    BY <2>1, <2>4 DEF IInv, TypeOK, RowsKnown, MessagesFit, Known, Fits
<1>2. ASSUME NEW s \in Terminal, Known(req[r].job),
             status' = [status EXCEPT ![req[r].job] = s],
             req' = [req EXCEPT ![r] = IdleRequest],
             UNCHANGED <<row, created, queue, wk, slot, lost, asked, fetched, looked>>
      PROVE  IInv'
  <2>1. req' \in [Requests -> Request] /\ RequestsFit' /\ WorkersFit'
    BY <1>2, DoneFits
  <2>2. req[r].job \in Jobs
    BY <1>2, KnownJob DEF IInv
  <2>3. RowsKnown'
    BY <1>2, <2>2 DEF IInv, TypeOK, RowsKnown, Known
  <2>4. QED
    BY <1>2, <2>1, <2>2, <2>3 DEF IInv, TypeOK, MessagesFit, Known, Fits
<1>3. CASE MarkUnqueued(r)
  BY <1>2, <1>3 DEF MarkUnqueued, IInv, RequestsFit, Terminal
<1>4. CASE FinishInline(r)
  BY <1>2, <1>4 DEF FinishInline, IInv, RequestsFit
<1>5. CASE RequestCrash(r)
  <2>1. /\ req[r].job \in Jobs \cup {NoJob}
        /\ lost' = lost \cup ({req[r].job} \ {NoJob})
        /\ req' = [req EXCEPT ![r] = IdleRequest]
        /\ UNCHANGED <<status, row, created, queue, wk, slot, asked, fetched, looked>>
    BY <1>5 DEF RequestCrash, IInv, TypeOK, Request
  <2>2. req' \in [Requests -> Request] /\ RequestsFit' /\ WorkersFit'
    BY <2>1, DoneFits
  <2>3. QED
    BY <2>1, <2>2 DEF IInv, TypeOK, RowsKnown, MessagesFit, Known, Fits
<1>6. QED
  BY <1>1, <1>3, <1>4, <1>5, EnqueueFits, PushMessageFits DEF Serve

LEMMA WorkFits ==
  ASSUME IInv, NEW w \in Workers, Work(w) \/ WorkerLost(w)
  PROVE  IInv'
<1> USE DEF history
<1>1. wk[w].pc # "idle" => Known(wk[w].job) /\ wk[w].job \in Jobs
  BY KnownJob DEF IInv, WorkersFit
<1>2. CASE Dequeue(w)
  <2> DEFINE m == Head(queue)
             x == [pc |-> "lookup", job |-> m.job, ranges |-> m.ranges,
                   deferred |-> m.deferred]
  <2>1. /\ queue # <<>>
        /\ queue' = Tail(queue)
        /\ wk' = [wk EXCEPT ![w] = x]
        /\ UNCHANGED <<status, row, created, req, slot, lost, asked, fetched, looked>>
    BY <1>2 DEF Dequeue
  <2>2. /\ m \in Message /\ m = queue[1]
        /\ Tail(queue) \in Seq(Message)
        /\ Len(Tail(queue)) = Len(queue) - 1
        /\ \A i \in 1 .. Len(Tail(queue)) : Tail(queue)[i] = queue[i + 1]
        /\ Len(queue) \in Nat /\ Len(queue) # 0
    BY <2>1, HeadTailProperties, EmptySeq, LenProperties DEF IInv, TypeOK
  <2>3. Known(m.job) /\ Fits(m.job, m.ranges)
    BY <2>2 DEF IInv, MessagesFit
  <2> HIDE DEF m
  <2>4. x \in Worker /\ x.pc = "lookup" /\ x.job = m.job /\ x.ranges = m.ranges
    BY <2>2 DEF Worker, WkPcs, Message
  <2> HIDE DEF x
  <2>5. /\ wk' \in [Workers -> Worker] /\ wk'[w] = x
        /\ \A v \in Workers \ {w} : wk'[v] = wk[v]
    BY <2>1, <2>4 DEF IInv, TypeOK
  <2>6. MessagesFit'
    BY <2>1, <2>2 DEF IInv, MessagesFit, Known, Fits
  <2>7. WorkersFit'
    BY <2>1, <2>3, <2>4, <2>5 DEF IInv, WorkersFit, Known, Fits
  <2>8. QED
    BY <2>1, <2>2, <2>5, <2>6, <2>7 DEF IInv, TypeOK, RowsKnown, RequestsFit, Known, Fits
<1>3. ASSUME NEW pc \in WkPcs, Goto(w, pc), wk[w].pc \notin {"idle", "fail"},
             wk[w].pc = "complete" => pc = "fail",
             (UNCHANGED status) \/ (\E s \in Active \cup Terminal : SetStatus(w, s)),
             UNCHANGED <<row, created, queue, req, slot, lost, asked, fetched, looked>>
      PROVE  IInv'
  <2>1. wk' \in [Workers -> Worker] /\ MessagesFit' /\ RequestsFit' /\ WorkersFit'
    BY <1>3, MoveFits
  <2>2. /\ status' \in [Jobs -> Active \cup Terminal \cup {"absent"}]
        /\ \A j \in Jobs \ {wk[w].job} : status'[j] = status[j]
    BY <1>1, <1>3, SetStatusEffect DEF IInv, TypeOK
  <2>3. RowsKnown'
    BY <1>1, <1>3, <2>2 DEF IInv, RowsKnown, Known
  <2>4. QED
    BY <1>3, <2>1, <2>2, <2>3 DEF IInv, TypeOK
<1>4. ASSUME wk[w].pc # "idle", wk' = [wk EXCEPT ![w] = IdleWorker],
             (UNCHANGED status) \/ (\E s \in Active \cup Terminal : SetStatus(w, s)),
             lost' \subseteq Jobs,
             UNCHANGED <<row, created, queue, req, slot, asked, fetched, looked>>
      PROVE  IInv'
  <2>1. wk' \in [Workers -> Worker] /\ MessagesFit' /\ RequestsFit' /\ WorkersFit'
    BY <1>4, RestFits
  <2>2. /\ status' \in [Jobs -> Active \cup Terminal \cup {"absent"}]
        /\ \A j \in Jobs \ {wk[w].job} : status'[j] = status[j]
    BY <1>1, <1>4, SetStatusEffect DEF IInv, TypeOK
  <2>3. RowsKnown'
    BY <1>1, <1>4, <2>2 DEF IInv, RowsKnown, Known
  <2>4. QED
    BY <1>4, <2>1, <2>2, <2>3 DEF IInv, TypeOK
<1>5. ASSUME wk[w].pc \in {"refresh", "slot"}, Refreshed(w),
             UNCHANGED <<status, row, created, queue, req, slot, lost, asked, looked>>
      PROVE  IInv'
  BY <1>5, RefreshedFits DEF IInv, TypeOK, RowsKnown, Known
<1> USE DEF WkPcs, WorkingPcs, Active, Terminal
<1>6. CASE FindUnfinished(w)
  BY <1>3, <1>6 DEF FindUnfinished
<1>7. CASE DropFinished(w)
  BY <1>4, <1>7 DEF DropFinished, IInv, TypeOK
<1>8. CASE Start(w)
  <2>1. AfterStart(w) \in {"complete", "defer", "refresh"}
    BY DEF AfterStart
  <2>2. QED
    BY <1>3, <1>8, <2>1 DEF Start
<1>9. CASE Defer(w)
  BY <1>3, <1>9 DEF Defer
<1>10. CASE CacheHit(w)
  BY <1>5, <1>10 DEF CacheHit
<1>11. CASE CacheMiss(w)
  BY <1>3, <1>11 DEF CacheMiss
<1>12. CASE Fetch(w)
  BY <1>3, <1>5, <1>12 DEF Fetch
<1>13. CASE RateLimited(w)
  BY <1>3, <1>13 DEF RateLimited
<1>14. CASE Requeue(w)
  BY <1>3, <1>14 DEF Requeue
<1>15. CASE Repush(w)
  <2> DEFINE m == [job |-> wk[w].job, ranges |-> wk[w].ranges, deferred |-> TRUE]
  <2>1. /\ wk[w].pc = "repush"
        /\ queue' = Append(queue, m)
        /\ wk' = [wk EXCEPT ![w] = IdleWorker]
        /\ UNCHANGED <<status, row, created, req, slot, lost, asked, fetched, looked>>
    BY <1>15 DEF Repush
  <2>2. Known(wk[w].job) /\ Fits(wk[w].job, wk[w].ranges) /\ wk[w].ranges \in RangeSeqs
    BY <2>1 DEF IInv, WorkersFit, TypeOK, Worker
  <2>3. m \in Message /\ m.job = wk[w].job /\ m.ranges = wk[w].ranges
    BY <1>1, <2>1, <2>2 DEF Message
  <2> HIDE DEF m
  <2>4. /\ queue' \in Seq(Message)
        /\ Len(queue') = Len(queue) + 1
        /\ \A i \in 1 .. Len(queue) : queue'[i] = queue[i]
        /\ queue'[Len(queue) + 1] = m
        /\ Len(queue) \in Nat
    BY <2>1, <2>3, AppendProperties, LenProperties DEF IInv, TypeOK
  <2>5. /\ wk' \in [Workers -> Worker] /\ wk'[w].pc = "idle"
        /\ \A v \in Workers \ {w} : wk'[v] = wk[v]
    BY <2>1, IdleOK DEF IInv, TypeOK, IdleWorker
  <2>6. MessagesFit'
    BY <2>1, <2>2, <2>3, <2>4 DEF IInv, MessagesFit, Known, Fits
  <2>7. WorkersFit'
    BY <2>1, <2>5 DEF IInv, WorkersFit, Known, Fits
  <2>8. QED
    BY <2>1, <2>4, <2>5, <2>6, <2>7 DEF IInv, TypeOK, RowsKnown, RequestsFit, Known, Fits
<1>16. CASE RepushFails(w)
  BY <1>3, <1>16 DEF RepushFails
<1>17. CASE WorkRaises(w)
  BY <1>3, <1>17 DEF WorkRaises
<1>18. CASE Complete(w)
  BY <1>4, <1>18 DEF Complete, IInv, TypeOK
<1>19. CASE Fail(w)
  BY <1>4, <1>19 DEF Fail, IInv, TypeOK
<1>20. CASE WorkerLost(w)
  BY <1>1, <1>4, <1>20 DEF WorkerLost, IInv, TypeOK
<1>21. QED
  BY <1>2, <1>6, <1>7, <1>8, <1>9, <1>10, <1>11, <1>12, <1>13, <1>14, <1>15,
     <1>16, <1>17, <1>18, <1>19, <1>20 DEF Work

LEMMA StepFits == IInv /\ [Next]_vars => IInv'
<1> SUFFICES ASSUME IInv, [Next]_vars PROVE IInv'
  OBVIOUS
<1>1. CASE \E r \in Requests : Ask(r) \/ Serve(r) \/ RequestCrash(r)
  BY <1>1, AskFits, ServeFits
<1>2. CASE \E w \in Workers : Work(w) \/ WorkerLost(w)
  BY <1>2, WorkFits
<1>3. CASE (\E p \in Portfolios : WindowUsed(p) \/ WindowEnds(p)) \/ UNCHANGED vars
  BY <1>3 DEF WindowUsed, WindowEnds, vars, history, IInv, TypeOK, RowsKnown,
              MessagesFit, RequestsFit, WorkersFit, Known, Fits
<1>4. QED
  BY <1>1, <1>2, <1>3 DEF Next

LEMMA FitAlways == Spec => []IInv
BY InitFits, StepFits, PTL DEF Spec

(* Types: whatever the threads and workers do, in whatever order and with    *)
(* whatever faults, every status is one the API schemas know, and no step of *)
(* a worker or request is taken on a job whose row does not exist.           *)
THEOREM TypeCorrect == Spec => []TypeOK
BY FitAlways, PTL DEF IInv

-----------------------------------------------------------------------------
(* Every step is about one job k (NoJob: about none): the other jobs keep    *)
(* their status and their carriers, and k keeps one, ends, or is lost.       *)

LEMMA KeepCarried ==
  ASSUME ActiveJobIsCarried, NEW k,
         lost \subseteq lost',
         \A j \in Jobs \ {k} : status'[j] = status[j],
         \A j \in Jobs \ {k} : InQueue(j) => InQueue(j)',
         \A r \in Requests : \/ req'[r] = req[r]
                             \/ req[r].pc \in {"idle", "create", "reject"}
                             \/ req[r].job = k,
         \A w \in Workers : \/ wk'[w] = wk[w]
                            \/ wk[w].pc = "idle"
                            \/ wk[w].job = k,
         k \in Jobs => k \in lost' \/ status'[k] \notin Active \/ Carried(k)'
  PROVE  ActiveJobIsCarried'
<1> SUFFICES ASSUME NEW j \in Jobs, j \notin lost', status'[j] \in Active
             PROVE  Carried(j)'
  BY DEF ActiveJobIsCarried, Jobs, Active
<1>1. CASE j = k
  BY <1>1
<1>2. CASE j # k
  <2>1. Carried(j)
    BY <1>2 DEF ActiveJobIsCarried
  <2>2. CASE InQueue(j)
    BY <1>2, <2>2 DEF Carried
  <2>3. CASE InRequest(j)
    BY <1>2, <2>3 DEF Carried, InRequest
  <2>4. CASE InWorker(j)
    BY <1>2, <2>4 DEF Carried, InWorker
  <2>5. QED
    BY <2>1, <2>2, <2>3, <2>4 DEF Carried
<1>3. QED
  BY <1>1, <1>2

LEMMA PushInQueue ==
  ASSUME queue \in Seq(Message), NEW m \in Message, queue' = Append(queue, m),
         NEW k, m.job = k
  PROVE  InQueue(k)' /\ \A j : InQueue(j) => InQueue(j)'
<1>1. /\ Len(queue') = Len(queue) + 1
      /\ \A i \in 1 .. Len(queue) : queue'[i] = queue[i]
      /\ queue'[Len(queue) + 1] = m
      /\ Len(queue) \in Nat
  BY AppendProperties, LenProperties
<1>2. \A j : InQueue(j) => InQueue(j)'
  BY <1>1 DEF InQueue
<1>3. Len(queue') \in 1 .. Len(queue') /\ queue'[Len(queue')].job = k
  BY <1>1
<1>4. InQueue(k)'
  BY <1>3 DEF InQueue
<1>5. QED
  BY <1>2, <1>4

LEMMA RequestCarries ==
  ASSUME IInv, ActiveJobIsCarried, NEW r \in Requests,
         Ask(r) \/ Serve(r) \/ RequestCrash(r)
  PROVE  ActiveJobIsCarried'
<1> USE DEF history
<1>1. NoJob \notin Jobs
  BY DEF NoJob, Jobs
<1>2. \A q : req' = [req EXCEPT ![r] = q] =>
        req'[r] = q /\ \A v \in Requests \ {r} : req'[v] = req[v]
  BY DEF IInv, TypeOK
<1>3. UNCHANGED queue => \A j : InQueue(j) => InQueue(j)'
  BY DEF InQueue
<1>4. CASE Ask(r)
  <2>1. /\ req[r].pc = "idle"
        /\ \A v \in Requests \ {r} : req'[v] = req[v]
        /\ UNCHANGED <<status, queue, wk, lost>>
    BY <1>2, <1>4 DEF Ask, ReusePending, FindNone, OverBudget
  <2>2. QED
    BY <1>1, <1>3, <2>1, KeepCarried
<1>5. CASE EnqueueBackgroundJob(r)
  <2>0. PICK j : j = created + 1
    OBVIOUS
  <2> DEFINE q == [req[r] EXCEPT !.pc = AfterCreate(req[r]), !.job = j, !.seen = 0]
  <2>1. /\ req[r].pc \in {"create", "reject"}
        /\ status' = [status EXCEPT ![j] = "pending"]
        /\ req' = [req EXCEPT ![r] = q]
        /\ UNCHANGED <<queue, wk, lost>>
    BY <1>5, <2>0 DEF EnqueueBackgroundJob
  <2>2. q.pc \in {"push", "fail", "inline"} /\ q.job = j
    BY <2>1 DEF AfterCreate, IInv, TypeOK, Request
  <2> HIDE DEF q
  <2>3. InRequest(j)'
    BY <1>2, <2>1, <2>2 DEF InRequest
  <2>4. \A i \in Jobs \ {j} : status'[i] = status[i]
    BY <2>1 DEF IInv, TypeOK
  <2>5. QED
    BY <1>2, <1>3, <2>1, <2>3, <2>4, KeepCarried DEF Carried
<1>6. CASE PushMessage(r)
  <2>0. PICK k : k = req[r].job
    OBVIOUS
  <2> DEFINE m == [job |-> k, ranges |-> req[r].ranges, deferred |-> FALSE]
  <2>1. /\ req[r].pc = "push"
        /\ queue' = Append(queue, m)
        /\ req' = [req EXCEPT ![r] = IdleRequest]
        /\ UNCHANGED <<status, wk, lost>>
    BY <1>6, <2>0 DEF PushMessage
  <2>2. m \in Message /\ m.job = k
    BY <2>0, <2>1, KnownJob DEF IInv, TypeOK, RequestsFit, Request, Message
  <2> HIDE DEF m
  <2>3. InQueue(k)' /\ \A j : InQueue(j) => InQueue(j)'
    BY <2>1, <2>2, PushInQueue DEF IInv, TypeOK
  <2>4. QED
    BY <1>2, <2>0, <2>1, <2>3, KeepCarried DEF Carried
<1>7. ASSUME \/ \E s \in Terminal : status' = [status EXCEPT ![req[r].job] = s]
             \/ UNCHANGED status /\ lost' = lost \cup ({req[r].job} \ {NoJob}),
             lost \subseteq lost',
             req' = [req EXCEPT ![r] = IdleRequest],
             UNCHANGED <<queue, wk>>
      PROVE  ActiveJobIsCarried'
  <2>0. PICK k : k = req[r].job
    OBVIOUS
  <2>1. \A j \in Jobs \ {k} : status'[j] = status[j]
    BY <1>7, <2>0 DEF IInv, TypeOK
  <2>2. k \in Jobs => k \in lost' \/ status'[k] \notin Active
    BY <1>1, <1>7, <2>0 DEF IInv, TypeOK, Active, Terminal
  <2>3. QED
    BY <1>2, <1>3, <1>7, <2>0, <2>1, <2>2, KeepCarried
<1>8. CASE PushFails(r)
  <2>0. PICK k : k = req[r].job
    OBVIOUS
  <2> DEFINE q == [req[r] EXCEPT !.pc = "fail"]
  <2>1. /\ req' = [req EXCEPT ![r] = q]
        /\ UNCHANGED <<status, queue, wk, lost>>
    BY <1>8 DEF PushFails
  <2>2. q.pc = "fail" /\ q.job = k
    BY <2>0 DEF IInv, TypeOK, Request
  <2> HIDE DEF q
  <2>3. InRequest(k)'
    BY <1>2, <2>1, <2>2 DEF InRequest
  <2>4. QED
    BY <1>2, <1>3, <2>0, <2>1, <2>3, KeepCarried DEF Carried
<1>9. CASE MarkUnqueued(r)
  BY <1>7, <1>9 DEF MarkUnqueued, Terminal
<1>10. CASE FinishInline(r)
  BY <1>7, <1>10 DEF FinishInline, Terminal
<1>11. CASE RequestCrash(r)
  BY <1>7, <1>11 DEF RequestCrash
<1>12. QED
  BY <1>4, <1>5, <1>6, <1>8, <1>9, <1>10, <1>11 DEF Serve

LEMMA WorkerCarries ==
  ASSUME IInv, ActiveJobIsCarried, NEW w \in Workers, Work(w) \/ WorkerLost(w)
  PROVE  ActiveJobIsCarried'
<1> USE DEF history
<1>0. PICK k : k = wk[w].job
  OBVIOUS
<1>1. \A x : wk' = [wk EXCEPT ![w] = x] =>
        wk'[w] = x /\ \A v \in Workers \ {w} : wk'[v] = wk[v]
  BY DEF IInv, TypeOK
<1>2. UNCHANGED queue => \A j : InQueue(j) => InQueue(j)'
  BY DEF InQueue
<1>3. (\E s \in Active \cup Terminal : SetStatus(w, s)) =>
        \A j \in Jobs \ {k} : status'[j] = status[j]
  BY <1>0 DEF SetStatus, IInv, TypeOK
<1>4. wk[w].pc # "idle" => k \in Jobs
  BY <1>0, KnownJob DEF IInv, WorkersFit
<1>5. CASE Dequeue(w)
  <2>0. PICK i : i = Head(queue).job
    OBVIOUS
  <2> DEFINE x == [pc |-> "lookup", job |-> i, ranges |-> Head(queue).ranges,
                   deferred |-> Head(queue).deferred]
  <2>1. /\ wk[w].pc = "idle"
        /\ queue # <<>>
        /\ queue' = Tail(queue)
        /\ wk' = [wk EXCEPT ![w] = x]
        /\ UNCHANGED <<status, req, lost>>
    BY <1>5, <2>0 DEF Dequeue
  <2>2. \A j : (InQueue(j) /\ j # i) => InQueue(j)'
    <3>1. /\ Head(queue) = queue[1]
          /\ Len(Tail(queue)) = Len(queue) - 1
          /\ \A n \in 1 .. Len(Tail(queue)) : Tail(queue)[n] = queue[n + 1]
          /\ Len(queue) \in Nat
      BY <2>1, HeadTailProperties, LenProperties DEF IInv, TypeOK
    <3>2. SUFFICES ASSUME NEW j, j # i, NEW n \in 1 .. Len(queue), queue[n].job = j
                   PROVE  InQueue(j)'
      BY DEF InQueue
    <3>3. n - 1 \in 1 .. Len(queue') /\ queue'[n - 1].job = j
      BY <2>0, <2>1, <3>1, <3>2
    <3>4. QED
      BY <3>3 DEF InQueue
  <2>3. InWorker(i)'
    <3>1. x.pc = "lookup" /\ x.job = i
      OBVIOUS
    <3> HIDE DEF x
    <3>2. QED
      BY <1>1, <2>1, <3>1 DEF InWorker
  <2>4. QED
    BY <1>1, <2>1, <2>2, <2>3, KeepCarried DEF Carried
<1>6. ASSUME NEW pc \in WkPcs \ {"idle"}, Goto(w, pc), wk[w].pc # "idle",
             (UNCHANGED status) \/ (\E s \in Active \cup Terminal : SetStatus(w, s)),
             UNCHANGED <<queue, req, lost>>
      PROVE  ActiveJobIsCarried'
  <2>1. /\ wk'[w].pc = pc /\ wk'[w].job = k
        /\ \A v \in Workers \ {w} : wk'[v] = wk[v]
    BY <1>0, <1>6, GotoEffect DEF IInv, TypeOK
  <2>2. InWorker(k)'
    BY <1>6, <2>1 DEF InWorker
  <2>3. QED
    BY <1>0, <1>2, <1>3, <1>6, <2>1, <2>2, KeepCarried DEF Carried
<1>7. ASSUME wk[w].pc # "idle", wk' = [wk EXCEPT ![w] = IdleWorker],
             lost \subseteq lost',
             \/ UNCHANGED status /\ (status[k] \notin Active \/ k \in lost')
             \/ \E s \in Terminal : SetStatus(w, s),
             UNCHANGED <<queue, req>>
      PROVE  ActiveJobIsCarried'
  <2>1. k \in lost' \/ status'[k] \notin Active
    BY <1>0, <1>4, <1>7 DEF SetStatus, IInv, TypeOK, Active, Terminal
  <2>2. QED
    BY <1>0, <1>1, <1>2, <1>3, <1>7, <2>1, KeepCarried
<1>8. ASSUME wk[w].pc \in {"refresh", "slot"}, Refreshed(w),
             UNCHANGED <<status, queue, req, lost>>
      PROVE  ActiveJobIsCarried'
  <2>1. /\ wk'[w].pc # "idle" /\ wk'[w].job = k
        /\ \A v \in Workers \ {w} : wk'[v] = wk[v]
    BY <1>0, <1>8, RefreshedEffect DEF IInv
  <2>2. InWorker(k)'
    BY <2>1 DEF InWorker
  <2>3. QED
    BY <1>0, <1>2, <1>8, <2>1, <2>2, KeepCarried DEF Carried
<1>9. CASE Repush(w)
  <2> DEFINE m == [job |-> k, ranges |-> wk[w].ranges, deferred |-> TRUE]
  <2>1. /\ wk[w].pc = "repush"
        /\ queue' = Append(queue, m)
        /\ wk' = [wk EXCEPT ![w] = IdleWorker]
        /\ UNCHANGED <<status, req, lost>>
    BY <1>0, <1>9 DEF Repush
  <2>2. m \in Message /\ m.job = k
    BY <1>4, <2>1 DEF IInv, TypeOK, Worker, Message
  <2> HIDE DEF m
  <2>3. InQueue(k)' /\ \A j : InQueue(j) => InQueue(j)'
    BY <2>1, <2>2, PushInQueue DEF IInv, TypeOK
  <2>4. QED
    BY <1>0, <1>1, <2>1, <2>3, KeepCarried DEF Carried
<1>10. CASE FindUnfinished(w) \/ Start(w) \/ Defer(w) \/ CacheMiss(w) \/ RateLimited(w)
            \/ Requeue(w) \/ RepushFails(w) \/ WorkRaises(w)
  <2>1. AfterStart(w) \in {"complete", "defer", "refresh"}
    BY DEF AfterStart
  <2>2. QED
    BY <1>6, <1>10, <2>1
       DEF FindUnfinished, Start, Defer, CacheMiss, RateLimited, Requeue, RepushFails,
           WorkRaises, WkPcs, WorkingPcs, Active, Terminal
<1>11. CASE CacheHit(w) \/ Fetch(w)
  BY <1>6, <1>8, <1>11 DEF CacheHit, Fetch, WkPcs, WorkingPcs
<1>12. CASE DropFinished(w)
  BY <1>0, <1>7, <1>12 DEF DropFinished
<1>13. CASE Complete(w) \/ Fail(w)
  BY <1>7, <1>13 DEF Complete, Fail, Terminal
<1>14. CASE WorkerLost(w)
  BY <1>0, <1>7, <1>14 DEF WorkerLost
<1>15. QED
  BY <1>5, <1>9, <1>10, <1>11, <1>12, <1>13, <1>14 DEF Work

(* No job is forgotten: an unfinished job that no fault touched always has a *)
(* message in the Redis list, or a request or a worker that is still to      *)
(* write its status.                                                         *)
THEOREM NoJobIsForgotten == Spec => []ActiveJobIsCarried
<1>1. Init => ActiveJobIsCarried
  BY DEF Init, ActiveJobIsCarried, Active
<1>2. IInv /\ ActiveJobIsCarried /\ [Next]_vars => ActiveJobIsCarried'
  <2> SUFFICES ASSUME IInv, ActiveJobIsCarried, [Next]_vars PROVE ActiveJobIsCarried'
    OBVIOUS
  <2>1. CASE \E r \in Requests : Ask(r) \/ Serve(r) \/ RequestCrash(r)
    BY <2>1, RequestCarries
  <2>2. CASE \E w \in Workers : Work(w) \/ WorkerLost(w)
    BY <2>2, WorkerCarries
  <2>3. CASE (\E p \in Portfolios : WindowUsed(p) \/ WindowEnds(p)) \/ UNCHANGED vars
    BY <2>3 DEF WindowUsed, WindowEnds, vars, history, ActiveJobIsCarried, Carried,
                InQueue, InRequest, InWorker
  <2>4. QED
    BY <2>1, <2>2, <2>3 DEF Next
<1>3. QED
  BY <1>1, <1>2, FitAlways, PTL DEF Spec

-----------------------------------------------------------------------------
(* A step may take job k, and no other, out of a worker's hands; then k does *)
(* not run any more, or is lost.                                             *)
LEMMA KeepWorked ==
  ASSUME RunningJobIsWorked, NEW k,
         lost \subseteq lost',
         \A j \in Jobs \ {k} : status'[j] = status[j] \/ status'[j] # "running",
         \A w \in Workers : \/ wk'[w] = wk[w]
                            \/ wk[w].pc \notin WorkingPcs
                            \/ wk[w].job = k,
         k \in Jobs => \/ k \in lost'
                       \/ status'[k] # "running"
                       \/ Worked(k)'
  PROVE  RunningJobIsWorked'
<1> SUFFICES ASSUME NEW j \in Jobs, j \notin lost', status'[j] = "running"
             PROVE  Worked(j)'
  BY DEF RunningJobIsWorked, Jobs
<1>1. CASE j = k
  BY <1>1
<1>2. CASE j # k
  <2>1. Worked(j)
    BY <1>2 DEF RunningJobIsWorked
  <2>2. QED
    BY <1>2, <2>1 DEF Worked
<1>3. QED
  BY <1>1, <1>2

LEMMA RequestLeavesRunning ==
  ASSUME IInv, RunningJobIsWorked, NEW r \in Requests,
         Ask(r) \/ Serve(r) \/ RequestCrash(r)
  PROVE  RunningJobIsWorked'
<1>1. UNCHANGED wk /\ lost \subseteq lost'
  BY DEF Ask, Serve, ReusePending, FindNone, OverBudget, EnqueueBackgroundJob, PushMessage,
         PushFails, MarkUnqueued, FinishInline, RequestCrash, history
<1>2. \/ UNCHANGED status
      \/ \E j : status' = [status EXCEPT ![j] = "pending"]
      \/ \E j : \E s \in Terminal : status' = [status EXCEPT ![j] = s]
  <2>1. CASE EnqueueBackgroundJob(r)
    <3>1. status' = [status EXCEPT ![created + 1] = "pending"]
      BY <2>1 DEF EnqueueBackgroundJob
    <3>2. QED
      BY <3>1
  <2>2. CASE MarkUnqueued(r) \/ FinishInline(r)
    <3>1. \E s \in Terminal : status' = [status EXCEPT ![req[r].job] = s]
      BY <2>2 DEF MarkUnqueued, FinishInline, Terminal
    <3>2. QED
      BY <3>1
  <2>3. CASE Ask(r) \/ PushMessage(r) \/ PushFails(r) \/ RequestCrash(r)
    BY <2>3 DEF Ask, ReusePending, FindNone, OverBudget, PushMessage, PushFails,
                RequestCrash
  <2>4. QED
    BY <2>1, <2>2, <2>3 DEF Serve
<1>3. \A j \in Jobs : status'[j] = status[j] \/ status'[j] # "running"
  BY <1>2 DEF IInv, TypeOK, Terminal
<1>4. NoJob \notin Jobs
  BY DEF NoJob, Jobs
<1>5. QED
  BY <1>1, <1>3, <1>4, KeepWorked

LEMMA WorkerHandsOver ==
  ASSUME IInv, RunningJobIsWorked, NEW w \in Workers, Work(w) \/ WorkerLost(w)
  PROVE  RunningJobIsWorked'
<1> USE DEF history
<1>0. PICK k : k = wk[w].job
  OBVIOUS
<1>1. \A x : wk' = [wk EXCEPT ![w] = x] =>
        wk'[w] = x /\ \A v \in Workers \ {w} : wk'[v] = wk[v]
  BY DEF IInv, TypeOK
<1>2. (\E s \in Active \cup Terminal : SetStatus(w, s)) =>
        \A j \in Jobs \ {k} : status'[j] = status[j]
  BY <1>0 DEF SetStatus, IInv, TypeOK
<1>3. wk[w].pc # "idle" => k \in Jobs
  BY <1>0, KnownJob DEF IInv, WorkersFit
<1>4. NoJob \notin Jobs
  BY DEF NoJob, Jobs
<1>5. ASSUME wk[w].pc \notin WorkingPcs, UNCHANGED <<status, lost>>,
             \A v \in Workers \ {w} : wk'[v] = wk[v]
      PROVE  RunningJobIsWorked'
  BY <1>4, <1>5, KeepWorked
<1>6. ASSUME NEW pc \in WorkingPcs, Goto(w, pc), wk[w].pc # "idle",
             (UNCHANGED status) \/ (\E s \in Active \cup Terminal : SetStatus(w, s)),
             UNCHANGED lost
      PROVE  RunningJobIsWorked'
  <2>1. /\ wk'[w].pc = pc /\ wk'[w].job = k
        /\ \A v \in Workers \ {w} : wk'[v] = wk[v]
    BY <1>0, <1>6, GotoEffect DEF IInv, TypeOK, WkPcs
  <2>2. Worked(k)'
    BY <1>6, <2>1 DEF Worked
  <2>3. QED
    BY <1>0, <1>2, <1>6, <2>1, <2>2, KeepWorked
<1>7. ASSUME wk[w].pc # "idle", lost \subseteq lost',
             \/ UNCHANGED status /\ k \in lost'
             \/ \E s \in (Active \cup Terminal) \ {"running"} : SetStatus(w, s),
             \A v \in Workers \ {w} : wk'[v] = wk[v]
      PROVE  RunningJobIsWorked'
  <2>1. k \in lost' \/ status'[k] # "running"
    BY <1>0, <1>3, <1>7 DEF SetStatus, IInv, TypeOK
  <2>2. QED
    BY <1>0, <1>2, <1>7, <2>1, KeepWorked
<1>8. ASSUME wk[w].pc \in {"refresh", "slot"}, Refreshed(w), UNCHANGED <<status, lost>>
      PROVE  RunningJobIsWorked'
  <2>1. /\ wk'[w].pc \in WorkingPcs /\ wk'[w].job = k
        /\ \A v \in Workers \ {w} : wk'[v] = wk[v]
    BY <1>0, <1>8, RefreshedEffect DEF IInv, WorkingPcs
  <2>2. Worked(k)'
    BY <2>1 DEF Worked
  <2>3. QED
    BY <1>0, <1>8, <2>1, <2>2, KeepWorked
<1>9. CASE Dequeue(w) \/ DropFinished(w) \/ Repush(w)
  BY <1>1, <1>5, <1>9 DEF Dequeue, DropFinished, Repush, WorkingPcs
<1>10. CASE FindUnfinished(w)
  <2>1. wk[w].pc \notin WorkingPcs /\ UNCHANGED <<status, lost>>
    BY <1>10 DEF FindUnfinished, WorkingPcs
  <2>2. \A v \in Workers \ {w} : wk'[v] = wk[v]
    BY <1>10, GotoEffect DEF FindUnfinished, IInv, TypeOK, WkPcs
  <2>3. QED
    BY <1>5, <2>1, <2>2
<1>11. CASE Start(w) \/ Defer(w) \/ CacheMiss(w) \/ RateLimited(w) \/ RepushFails(w)
            \/ WorkRaises(w)
  <2>1. AfterStart(w) \in {"complete", "defer", "refresh"}
    BY DEF AfterStart
  <2>2. QED
    BY <1>6, <1>11, <2>1
       DEF Start, Defer, CacheMiss, RateLimited, RepushFails, WorkRaises, WorkingPcs, Active
<1>12. CASE CacheHit(w) \/ Fetch(w)
  BY <1>6, <1>8, <1>12 DEF CacheHit, Fetch, WorkingPcs
<1>13. CASE Requeue(w)
  <2>1. \A v \in Workers \ {w} : wk'[v] = wk[v]
    BY <1>13, GotoEffect DEF Requeue, IInv, TypeOK, WkPcs
  <2>2. QED
    BY <1>7, <1>13, <2>1 DEF Requeue, Active
<1>14. CASE Complete(w) \/ Fail(w)
  BY <1>1, <1>7, <1>14 DEF Complete, Fail, Terminal
<1>15. CASE WorkerLost(w)
  BY <1>0, <1>1, <1>7, <1>15 DEF WorkerLost
<1>16. QED
  BY <1>9, <1>10, <1>11, <1>12, <1>13, <1>14, <1>15 DEF Work

(* A row says running only while a worker has the job in hand, so a client   *)
(* that polls it does not wait for a job nobody works on; only a fault that  *)
(* stops the worker leaves such a row.                                       *)
THEOREM RunningMeansWorked == Spec => []RunningJobIsWorked
<1>1. Init => RunningJobIsWorked
  BY DEF Init, RunningJobIsWorked
<1>2. IInv /\ RunningJobIsWorked /\ [Next]_vars => RunningJobIsWorked'
  <2> SUFFICES ASSUME IInv, RunningJobIsWorked, [Next]_vars PROVE RunningJobIsWorked'
    OBVIOUS
  <2>1. CASE \E r \in Requests : Ask(r) \/ Serve(r) \/ RequestCrash(r)
    BY <2>1, RequestLeavesRunning
  <2>2. CASE \E w \in Workers : Work(w) \/ WorkerLost(w)
    BY <2>2, WorkerHandsOver
  <2>3. CASE (\E p \in Portfolios : WindowUsed(p) \/ WindowEnds(p)) \/ UNCHANGED vars
    BY <2>3 DEF WindowUsed, WindowEnds, vars, history, RunningJobIsWorked, Worked
  <2>4. QED
    BY <2>1, <2>2, <2>3 DEF Next
<1>3. QED
  BY <1>1, <1>2, FitAlways, PTL DEF Spec

-----------------------------------------------------------------------------
(* What is left to do is never less than what is missing: of the sequence    *)
(* some message asked for, every range is fetched or still to be refreshed.  *)
Elems(s) == {s[i] : i \in DOMAIN s}
Enough(j, S) ==
  row[j].kind = "refresh_market_history" =>
    \E a \in asked[j] : Elems(a) \subseteq fetched[j] \cup S

MessageEnough(m) == Enough(m.job, Elems(m.ranges))
WorkerEnough(w) ==
  wk[w].pc \notin {"idle", "fail"} =>
    Enough(wk[w].job, IF wk[w].pc = "complete" THEN {} ELSE Elems(wk[w].ranges))
RowEnough(j) == status[j] = "completed" => Enough(j, {})

FetchInv ==
  /\ \A i \in 1 .. Len(queue) : MessageEnough(queue[i])
  /\ \A w \in Workers : WorkerEnough(w)
  /\ \A j \in Jobs : RowEnough(j)

(* The history variables only grow, so a step has to care for the message,   *)
(* the worker and the row it changes.                                        *)
LEMMA KeepEnough ==
  ASSUME IInv, FetchInv,
         \A j : Known(j) => /\ row'[j] = row[j]
                            /\ asked[j] \subseteq asked'[j]
                            /\ fetched[j] \subseteq fetched'[j],
         \A i \in 1 .. Len(queue') : \A m : queue'[i] = m =>
           (\E n \in 1 .. Len(queue) : m = queue[n]) \/ MessageEnough(m)',
         \A w \in Workers : wk'[w] = wk[w] \/ WorkerEnough(w)',
         \A j \in Jobs : \/ status'[j] = status[j]
                         \/ status'[j] # "completed"
                         \/ Enough(j, {})'
  PROVE  FetchInv'
<1>1. \A j, S : Known(j) /\ Enough(j, S) => Enough(j, S)'
  <2> SUFFICES ASSUME NEW j, NEW S, Known(j), Enough(j, S) PROVE Enough(j, S)'
    OBVIOUS
  <2>1. row'[j] = row[j] /\ asked[j] \subseteq asked'[j] /\ fetched[j] \subseteq fetched'[j]
    OBVIOUS
  <2>2. QED
    BY <2>1 DEF Enough
<1>2. ASSUME NEW i \in 1 .. Len(queue')
      PROVE  MessageEnough(queue[i])'
  <2>1. PICK m : queue'[i] = m
    OBVIOUS
  <2>2. CASE MessageEnough(m)'
    BY <2>1, <2>2 DEF MessageEnough
  <2>3. CASE \E n \in 1 .. Len(queue) : m = queue[n]
    <3>1. Known(m.job) /\ MessageEnough(m)
      BY <2>3 DEF IInv, MessagesFit, FetchInv
    <3>2. MessageEnough(m)'
      BY <1>1, <3>1 DEF MessageEnough
    <3>3. QED
      BY <2>2, <3>2
  <2>4. QED
    BY <2>1, <2>2, <2>3
<1>3. ASSUME NEW w \in Workers
      PROVE  WorkerEnough(w)'
  <2>1. CASE wk'[w] = wk[w]
    <3>1. PICK x : x = wk[w]
      OBVIOUS
    <3>2. CASE x.pc \in {"idle", "fail"}
      BY <2>1, <3>1, <3>2 DEF WorkerEnough
    <3>3. CASE x.pc \notin {"idle", "fail"}
      <4> DEFINE S == IF x.pc = "complete" THEN {} ELSE Elems(x.ranges)
      <4>1. Known(x.job) /\ Enough(x.job, S)
        BY <3>1, <3>3 DEF IInv, WorkersFit, FetchInv, WorkerEnough
      <4>2. Enough(x.job, S)'
        BY <1>1, <4>1
      <4>3. QED
        BY <2>1, <3>1, <4>2 DEF WorkerEnough
    <3>4. QED
      BY <3>2, <3>3
  <2>2. QED
    BY <2>1
<1>4. ASSUME NEW j \in Jobs
      PROVE  RowEnough(j)'
  <2>1. CASE status'[j] = "completed" /\ status[j] = "completed"
    <3>1. Known(j) /\ Enough(j, {})
      BY <2>1 DEF IInv, RowsKnown, FetchInv, RowEnough
    <3>2. QED
      BY <1>1, <3>1 DEF RowEnough
  <2>2. QED
    BY <2>1 DEF RowEnough
<1>5. Jobs' = Jobs
  BY DEF Jobs
<1>6. QED
  BY <1>2, <1>3, <1>4, <1>5 DEF FetchInv

LEMMA RequestEnough ==
  ASSUME IInv, FetchInv, NEW r \in Requests, Ask(r) \/ Serve(r) \/ RequestCrash(r)
  PROVE  FetchInv'
<1> USE DEF history
<1>1. CASE Ask(r) \/ PushFails(r) \/ RequestCrash(r)
  <2>1. UNCHANGED <<status, row, queue, wk, asked, fetched>>
    BY <1>1 DEF Ask, ReusePending, FindNone, OverBudget, PushFails, RequestCrash
  <2>2. QED
    BY <2>1, KeepEnough
<1>2. CASE EnqueueBackgroundJob(r)
  <2>0. PICK j : j = created + 1
    OBVIOUS
  <2>1. /\ status' = [status EXCEPT ![j] = "pending"]
        /\ row' = [row EXCEPT ![j] = req[r].row]
        /\ UNCHANGED <<queue, wk, asked, fetched>>
    BY <1>2, <2>0 DEF EnqueueBackgroundJob
  <2>2. \A i : Known(i) => row'[i] = row[i]
    BY <2>0, <2>1, KnownJob, BoundsAssumption DEF IInv, TypeOK, Known, Jobs
  <2>3. \A i \in Jobs : status'[i] = status[i] \/ status'[i] # "completed"
    BY <2>1 DEF IInv, TypeOK
  <2>4. QED
    BY <2>1, <2>2, <2>3, KeepEnough
<1>3. CASE PushMessage(r)
  <2>0. PICK k, a : k = req[r].job /\ a = req[r].ranges
    OBVIOUS
  <2> DEFINE m == [job |-> k, ranges |-> a, deferred |-> FALSE]
  <2>1. /\ req[r].pc = "push"
        /\ queue' = Append(queue, m)
        /\ asked' = [asked EXCEPT ![k] = @ \cup ({a} \ {<<>>})]
        /\ UNCHANGED <<status, row, wk, fetched>>
    BY <1>3, <2>0 DEF PushMessage
  <2>2. k \in Jobs /\ Fits(k, a) /\ a \in RangeSeqs
    BY <2>0, <2>1, KnownJob DEF IInv, RequestsFit, TypeOK, Request
  <2>3. m \in Message /\ m.job = k /\ m.ranges = a
    BY <2>2 DEF Message
  <2> HIDE DEF m
  <2>4. row[k].kind = "refresh_market_history" => a \in asked'[k]
    BY <2>1, <2>2 DEF Fits, IInv, TypeOK
  <2>5. MessageEnough(m)'
    BY <2>1, <2>3, <2>4 DEF MessageEnough, Enough
  <2>6. /\ Len(queue') = Len(queue) + 1
        /\ \A i \in 1 .. Len(queue) : queue'[i] = queue[i]
        /\ queue'[Len(queue) + 1] = m
        /\ Len(queue) \in Nat
    BY <2>1, <2>3, AppendProperties, LenProperties DEF IInv, TypeOK
  <2>7. \A i \in 1 .. Len(queue') : i \in 1 .. Len(queue) \/ queue'[i] = m
    BY <2>6
  <2>8. \A j : Known(j) => asked[j] \subseteq asked'[j]
    BY <2>1, <2>2, KnownJob DEF IInv, TypeOK
  <2>9. QED
    BY <2>1, <2>5, <2>6, <2>7, <2>8, KeepEnough
<1>4. CASE MarkUnqueued(r)
  <2>1. \A j \in Jobs : status'[j] = status[j] \/ status'[j] # "completed"
    BY <1>4 DEF MarkUnqueued, IInv, TypeOK
  <2>2. QED
    BY <1>4, <2>1, KeepEnough DEF MarkUnqueued
<1>5. CASE FinishInline(r)
  <2>0. PICK k : k = req[r].job
    OBVIOUS
  <2>1. UNCHANGED <<row, queue, wk, asked, fetched>>
    BY <1>5 DEF FinishInline
  <2>2. \A j \in Jobs \ {k} : status'[j] = status[j]
    BY <1>5, <2>0 DEF FinishInline, IInv, TypeOK
  <2>3. row[k].kind # "refresh_market_history"
    BY <1>5, <2>0 DEF FinishInline, IInv, RequestsFit, InlineKinds
  <2>4. Enough(k, {})'
    BY <2>1, <2>3 DEF Enough
  <2>5. QED
    BY <2>1, <2>2, <2>4, KeepEnough
<1>6. QED
  BY <1>1, <1>2, <1>3, <1>4, <1>5 DEF Serve

LEMMA RefreshedEnough ==
  ASSUME IInv, FetchInv, NEW w \in Workers, wk[w].pc \in {"refresh", "slot"},
         Refreshed(w), UNCHANGED <<status, row, queue, asked>>
  PROVE  FetchInv'
<1>0. PICK k, ranges : k = wk[w].job /\ ranges = wk[w].ranges
  OBVIOUS
<1>1. /\ wk'[w].pc \in {"refresh", "complete"} /\ wk'[w].job = k
      /\ wk'[w].pc = "refresh" => IsHistory(w)
      /\ \A v \in Workers \ {w} : wk'[v] = wk[v]
  BY <1>0, RefreshedEffect DEF IInv
<1>2. Known(k) /\ k \in Jobs /\ wk[w] \in Worker
  BY <1>0, KnownJob DEF IInv, WorkersFit, TypeOK
<1>3. CASE IsHistory(w)
  <2> DEFINE pc == IF Len(ranges) = 1 THEN "complete" ELSE "refresh"
             moved == [wk[w] EXCEPT !.ranges = Tail(@), !.pc = pc]
  <2>1. ranges \in Seq(Ranges) /\ ranges # <<>> /\ row[k].kind = "refresh_market_history"
    BY <1>0, <1>2, <1>3
       DEF IInv, WorkersFit, Fits, IsHistory, JobKind, Worker, RangeSeqs
  <2>2. /\ Head(ranges) = ranges[1]
        /\ Len(Tail(ranges)) = Len(ranges) - 1
        /\ \A i \in 1 .. Len(Tail(ranges)) : Tail(ranges)[i] = ranges[i + 1]
        /\ Len(ranges) \in Nat
        /\ Tail(ranges) \in Seq(Ranges)
        /\ DOMAIN ranges = 1 .. Len(ranges)
        /\ DOMAIN Tail(ranges) = 1 .. Len(Tail(ranges))
    BY <2>1, HeadTailProperties, LenProperties
  <2>3. Elems(ranges) \subseteq {Head(ranges)} \cup Elems(Tail(ranges))
    <3> SUFFICES ASSUME NEW i \in 1 .. Len(ranges), i # 1
                 PROVE  ranges[i] \in Elems(Tail(ranges))
      BY <2>2 DEF Elems
    <3>1. i - 1 \in DOMAIN Tail(ranges) /\ Tail(ranges)[i - 1] = ranges[i]
      BY <2>2
    <3>2. QED
      BY <3>1 DEF Elems
  <2>4. Len(ranges) = 1 => Elems(ranges) \subseteq {Head(ranges)}
    BY <2>2 DEF Elems
  <2>5. pc \in WkPcs /\ (pc = "complete" <=> Len(ranges) = 1)
    BY DEF WkPcs, WorkingPcs
  <2> HIDE DEF pc
  <2>6. moved.pc = pc /\ moved.job = k /\ moved.ranges = Tail(ranges)
    BY <1>0, <1>2, <2>5 DEF Worker
  <2>7. /\ wk' = [wk EXCEPT ![w] = moved]
        /\ fetched' = [fetched EXCEPT ![k] = @ \cup {Head(ranges)}]
    BY <1>0, <1>3 DEF Refreshed, pc
  <2> HIDE DEF moved
  <2>8. /\ wk'[w] = moved
        /\ fetched'[k] = fetched[k] \cup {Head(ranges)}
        /\ \A j \in Jobs : fetched[j] \subseteq fetched'[j]
    BY <1>2, <2>7 DEF IInv, TypeOK
  <2>9. PICK a \in asked[k] : Elems(a) \subseteq fetched[k] \cup Elems(ranges)
    BY <1>0, <2>1 DEF FetchInv, WorkerEnough, Enough
  <2>10. Elems(a) \subseteq fetched'[k] \cup (IF pc = "complete" THEN {} ELSE Elems(Tail(ranges)))
    BY <2>3, <2>4, <2>5, <2>8, <2>9
  <2>11. WorkerEnough(w)'
    <3>1. PICK S : S = IF pc = "complete" THEN {} ELSE Elems(Tail(ranges))
      OBVIOUS
    <3>2. Enough(k, S)'
      BY <2>9, <2>10, <3>1 DEF Enough
    <3>3. wk'[w].job = k /\ wk'[w].pc = pc /\ wk'[w].ranges = Tail(ranges)
      BY <2>6, <2>8
    <3>4. QED
      BY <3>1, <3>2, <3>3 DEF WorkerEnough
  <2>12. QED
    BY <1>1, <2>8, <2>11, KnownJob, KeepEnough DEF IInv
<1>4. CASE ~IsHistory(w)
  <2>1. UNCHANGED fetched /\ wk'[w].pc = "complete"
    BY <1>1, <1>4 DEF Refreshed
  <2>2. row'[k].kind # "refresh_market_history"
    BY <1>0, <1>4 DEF IsHistory, JobKind
  <2>3. WorkerEnough(w)'
    BY <1>1, <2>1, <2>2 DEF WorkerEnough, Enough
  <2>4. QED
    BY <1>1, <2>1, <2>3, KeepEnough
<1>5. QED
  BY <1>3, <1>4

LEMMA WorkEnough ==
  ASSUME IInv, FetchInv, NEW w \in Workers, Work(w) \/ WorkerLost(w)
  PROVE  FetchInv'
<1> USE DEF history
<1>0. PICK k, ranges : k = wk[w].job /\ ranges = wk[w].ranges
  OBVIOUS
<1>1. \A x : wk' = [wk EXCEPT ![w] = x] =>
        wk'[w] = x /\ \A v \in Workers \ {w} : wk'[v] = wk[v]
  BY DEF IInv, TypeOK
<1>2. wk' = [wk EXCEPT ![w] = IdleWorker] => WorkerEnough(w)'
  <2>1. IdleWorker.pc = "idle"
    BY DEF IdleWorker
  <2>2. QED
    BY <1>1, <2>1 DEF WorkerEnough
<1>3. \A s : SetStatus(w, s) =>
        /\ \A j \in Jobs \ {k} : status'[j] = status[j]
        /\ k \in Jobs => status'[k] = s
  BY <1>0 DEF SetStatus, IInv, TypeOK
<1>4. CASE Dequeue(w)
  <2>0. PICK m : m = Head(queue)
    OBVIOUS
  <2> DEFINE x == [pc |-> "lookup", job |-> m.job, ranges |-> m.ranges,
                   deferred |-> m.deferred]
  <2>1. /\ queue # <<>>
        /\ queue' = Tail(queue)
        /\ wk' = [wk EXCEPT ![w] = x]
        /\ UNCHANGED <<status, row, asked, fetched>>
    BY <1>4, <2>0 DEF Dequeue
  <2>2. /\ m = queue[1]
        /\ Len(Tail(queue)) = Len(queue) - 1
        /\ \A i \in 1 .. Len(Tail(queue)) : Tail(queue)[i] = queue[i + 1]
        /\ Len(queue) \in Nat /\ Len(queue) # 0
    BY <2>0, <2>1, HeadTailProperties, EmptySeq, LenProperties DEF IInv, TypeOK
  <2>3. Enough(m.job, Elems(m.ranges))
    BY <2>2 DEF FetchInv, MessageEnough
  <2>4. Enough(m.job, Elems(m.ranges))'
    BY <2>1, <2>3 DEF Enough
  <2>5. x.pc = "lookup" /\ x.job = m.job /\ x.ranges = m.ranges
    OBVIOUS
  <2> HIDE DEF x
  <2>6. WorkerEnough(w)'
    BY <1>1, <2>1, <2>4, <2>5 DEF WorkerEnough
  <2>7. \A i \in 1 .. Len(queue') : \E n \in 1 .. Len(queue) : queue'[i] = queue[n]
    BY <2>1, <2>2
  <2>8. QED
    BY <1>1, <2>1, <2>6, <2>7, KeepEnough
<1>5. ASSUME NEW pc \in WkPcs, Goto(w, pc), wk[w].pc \notin {"idle", "fail"},
             \/ pc = "fail"
             \/ wk[w].pc # "complete" /\ pc # "complete"
             \/ row[k].kind # "refresh_market_history",
             (UNCHANGED status) \/ (\E s \in Active : SetStatus(w, s)),
             UNCHANGED <<row, queue, asked, fetched>>
      PROVE  FetchInv'
  <2>1. /\ wk'[w].pc = pc /\ wk'[w].job = k /\ wk'[w].ranges = ranges
        /\ \A v \in Workers \ {w} : wk'[v] = wk[v]
    BY <1>0, <1>5, GotoEffect DEF IInv, TypeOK
  <2>2. WorkerEnough(w)'
    <3>1. CASE pc = "fail"
      BY <2>1, <3>1 DEF WorkerEnough
    <3>2. CASE wk[w].pc # "complete" /\ pc # "complete"
      <4>1. Enough(k, Elems(ranges))
        BY <1>0, <1>5, <3>2 DEF FetchInv, WorkerEnough
      <4>2. Enough(k, Elems(ranges))'
        BY <1>5, <4>1 DEF Enough
      <4>3. QED
        BY <2>1, <3>2, <4>2 DEF WorkerEnough
    <3>3. CASE row[k].kind # "refresh_market_history"
      BY <1>5, <2>1, <3>3 DEF WorkerEnough, Enough
    <3>4. QED
      BY <1>5, <3>1, <3>2, <3>3
  <2>3. \A j \in Jobs : status'[j] = status[j] \/ status'[j] # "completed"
    BY <1>3, <1>5 DEF Active
  <2>4. QED
    BY <1>5, <2>1, <2>2, <2>3, KeepEnough
<1>6. CASE Start(w)
  <2>1. /\ AfterStart(w) \in {"complete", "defer", "refresh"}
        /\ AfterStart(w) = "complete" => row[k].kind # "refresh_market_history"
    BY <1>0 DEF AfterStart, JobKind, ProviderKinds, DedupKinds
  <2>2. QED
    BY <1>5, <1>6, <2>1 DEF Start, WkPcs, WorkingPcs, Active
<1>7. CASE FindUnfinished(w) \/ Defer(w) \/ CacheMiss(w) \/ RateLimited(w)
           \/ Requeue(w) \/ RepushFails(w) \/ WorkRaises(w)
  BY <1>5, <1>7 DEF FindUnfinished, Defer, CacheMiss, RateLimited, Requeue, RepushFails,
                    WorkRaises, WkPcs, WorkingPcs, Active
<1>8. CASE CacheHit(w)
  BY <1>8, RefreshedEnough DEF CacheHit
<1>9. CASE Fetch(w)
  BY <1>5, <1>9, RefreshedEnough DEF Fetch, WkPcs, WorkingPcs
<1>10. CASE DropFinished(w) \/ WorkerLost(w)
  BY <1>1, <1>2, <1>10, KeepEnough DEF DropFinished, WorkerLost
<1>11. CASE Fail(w)
  <2>1. \A j \in Jobs : status'[j] = status[j] \/ status'[j] # "completed"
    BY <1>3, <1>11 DEF Fail
  <2>2. QED
    BY <1>1, <1>2, <1>11, <2>1, KeepEnough DEF Fail
<1>12. CASE Complete(w)
  <2>1. Enough(k, {})
    BY <1>0, <1>12 DEF Complete, FetchInv, WorkerEnough
  <2>2. Enough(k, {})'
    BY <1>12, <2>1 DEF Complete, Enough
  <2>3. \A j \in Jobs : status'[j] = status[j] \/ Enough(j, {})'
    BY <1>3, <1>12, <2>2 DEF Complete
  <2>4. QED
    BY <1>1, <1>2, <1>12, <2>3, KeepEnough DEF Complete
<1>13. CASE Repush(w)
  <2> DEFINE m == [job |-> k, ranges |-> ranges, deferred |-> TRUE]
  <2>1. /\ wk[w].pc = "repush"
        /\ queue' = Append(queue, m)
        /\ wk' = [wk EXCEPT ![w] = IdleWorker]
        /\ UNCHANGED <<status, row, asked, fetched>>
    BY <1>0, <1>13 DEF Repush
  <2>2. m \in Message /\ m.job = k /\ m.ranges = ranges
    BY <1>0, <2>1, KnownJob DEF IInv, WorkersFit, TypeOK, Worker, Message
  <2> HIDE DEF m
  <2>3. Enough(k, Elems(ranges))
    BY <1>0, <2>1 DEF FetchInv, WorkerEnough
  <2>4. MessageEnough(m)'
    BY <2>1, <2>2, <2>3 DEF MessageEnough, Enough
  <2>5. /\ Len(queue') = Len(queue) + 1
        /\ \A i \in 1 .. Len(queue) : queue'[i] = queue[i]
        /\ queue'[Len(queue) + 1] = m
        /\ Len(queue) \in Nat
    BY <2>1, <2>2, AppendProperties, LenProperties DEF IInv, TypeOK
  <2>6. \A i \in 1 .. Len(queue') : i \in 1 .. Len(queue) \/ queue'[i] = m
    BY <2>5
  <2>7. QED
    BY <1>1, <1>2, <2>1, <2>4, <2>5, <2>6, KeepEnough
<1>14. QED
  BY <1>4, <1>6, <1>7, <1>8, <1>9, <1>10, <1>11, <1>12, <1>13 DEF Work

(* A history job says completed only when every range of a message that was  *)
(* pushed for it was refreshed, however often it was requeued on the way.    *)
THEOREM CompletedMeansFetched == Spec => []CompletedHistoryIsFetched
<1>1. Init => FetchInv
  BY EmptySeq DEF Init, FetchInv, WorkerEnough, RowEnough, IdleWorker
<1>2. IInv /\ FetchInv /\ [Next]_vars => FetchInv'
  <2> SUFFICES ASSUME IInv, FetchInv, [Next]_vars PROVE FetchInv'
    OBVIOUS
  <2>1. CASE \E r \in Requests : Ask(r) \/ Serve(r) \/ RequestCrash(r)
    BY <2>1, RequestEnough
  <2>2. CASE \E w \in Workers : Work(w) \/ WorkerLost(w)
    BY <2>2, WorkEnough
  <2>3. CASE (\E p \in Portfolios : WindowUsed(p) \/ WindowEnds(p)) \/ UNCHANGED vars
    <3>1. UNCHANGED <<status, row, queue, wk, asked, fetched>>
      BY <2>3 DEF WindowUsed, WindowEnds, vars, history
    <3>2. QED
      BY <3>1, KeepEnough
  <2>4. QED
    BY <2>1, <2>2, <2>3 DEF Next
<1>3. FetchInv => CompletedHistoryIsFetched
  BY DEF FetchInv, RowEnough, Enough, Elems, CompletedHistoryIsFetched
<1>4. QED
  BY <1>1, <1>2, <1>3, FitAlways, PTL DEF Spec


-----------------------------------------------------------------------------
(* One worker, a Redis that takes every message the API pushes, and no       *)
(* automatic refresh of too many tickers, whose row the API inserts only to  *)
(* fail it. Without these the code does process a job twice, fail one that   *)
(* already ended (README, section 5), or fail one that no worker had, so     *)
(* they are hypotheses of what follows.                                      *)
OneWorker == \A v, w \in Workers : v = w
PushesSucceed == Faults \cap {"push", "budget"} = {}

(* The rows of record_manual_lots are never queued.                          *)
Queued(j) == row[j].kind \notin InlineKinds
InlineApart ==
  /\ \A i \in 1 .. Len(queue) : Queued(queue[i].job)
  /\ \A r \in Requests : req[r].pc = "push" => Queued(req[r].job)
  /\ \A w \in Workers : wk[w].pc # "idle" => Queued(wk[w].job)

(* A request works on a row of its own, still pending; none gives a row up.  *)
InlineOwned ==
  /\ \A r \in Requests : req[r].pc = "inline" =>
       /\ status[req[r].job] = "pending"
       /\ \A s \in Requests : (req[s].pc = "inline" /\ req[s].job = req[r].job) => s = r
  /\ \A r \in Requests : req[r].pc \notin {"reject", "fail"}

(* What the only worker read or wrote of its row is still true.              *)
WorkerKnows ==
  \A w \in Workers :
    /\ wk[w].pc = "start" => status[wk[w].job] \in Active
    /\ wk[w].pc \in WorkingPcs => status[wk[w].job] = "running"
    /\ wk[w].pc = "repush" => status[wk[w].job] = "pending"

SerialInv == InlineApart /\ InlineOwned /\ WorkerKnows

LEMMA AppendQueued ==
  ASSUME queue \in Seq(Message), InlineApart, NEW m \in Message, Queued(m.job),
         queue' = Append(queue, m)
  PROVE  \A i \in 1 .. Len(queue') : Queued(queue'[i].job)
<1>1. /\ Len(queue') = Len(queue) + 1 /\ Len(queue) \in Nat
      /\ \A i \in 1 .. Len(queue) : queue'[i] = queue[i]
      /\ queue'[Len(queue) + 1] = m
  BY AppendProperties, LenProperties
<1>2. QED
  BY <1>1 DEF InlineApart

(* The worker keeps SerialInv if it leaves its row as its new step says.     *)
LEMMA WorkerKeeps ==
  ASSUME IInv, SerialInv, OneWorker, NEW w \in Workers,
         UNCHANGED <<row, created, req>>,
         \A i \in 1 .. Len(queue') : Queued(queue'[i].job),
         wk'[w].pc # "idle" => Queued(wk'[w].job),
         wk'[w].pc = "start" => status'[wk'[w].job] \in Active,
         wk'[w].pc \in WorkingPcs => status'[wk'[w].job] = "running",
         wk'[w].pc = "repush" => status'[wk'[w].job] = "pending",
         \/ UNCHANGED status
         \/ /\ wk[w].pc # "idle"
            /\ \A j \in Jobs \ {wk[w].job} : status'[j] = status[j]
  PROVE  SerialInv'
<1>1. \A v \in Workers : v = w
  BY DEF OneWorker
<1>2. InlineApart'
  BY <1>1 DEF SerialInv, InlineApart, Queued
<1>3. WorkerKnows'
  BY <1>1 DEF WorkerKnows
<1>4. \A r \in Requests : req[r].pc = "inline" => status'[req[r].job] = status[req[r].job]
  <2> SUFFICES ASSUME NEW r \in Requests, req[r].pc = "inline"
               PROVE  status'[req[r].job] = status[req[r].job]
    OBVIOUS
  <2>1. req[r].job \in Jobs /\ ~Queued(req[r].job)
    BY KnownJob DEF IInv, RequestsFit, Queued
  <2>2. wk[w].pc # "idle" => wk[w].job # req[r].job
    BY <2>1 DEF SerialInv, InlineApart
  <2>3. QED
    BY <2>1, <2>2
<1>5. InlineOwned'
  BY <1>4 DEF SerialInv, InlineOwned
<1>6. QED
  BY <1>2, <1>3, <1>5 DEF SerialInv

(* The moves the only worker makes on the row it has in hand.                *)
QueuedMoves == {<<"pending", "running">>, <<"running", "pending">>,
                <<"running", "completed">>, <<"running", "failed">>}
Moves(j, from, to) ==
  status[j] = from /\ status' = [status EXCEPT ![j] = to]

LEMMA WorkerMoves ==
  ASSUME IInv, SerialInv, OneWorker, PushesSucceed, NEW w \in Workers,
         Work(w) \/ WorkerLost(w)
  PROVE  /\ SerialInv'
         /\ UNCHANGED <<row, created, req>>
         /\ \/ UNCHANGED status
            \/ /\ wk[w].job \in Jobs /\ Queued(wk[w].job)
               /\ \E m \in QueuedMoves : Moves(wk[w].job, m[1], m[2])
<1> USE DEF history
<1>0. PICK k : k = wk[w].job
  OBVIOUS
<1>1. wk[w].pc # "idle" => k \in Jobs /\ Queued(k)
  BY <1>0, KnownJob DEF IInv, WorkersFit, SerialInv, InlineApart
<1>2. ASSUME NEW pc \in WkPcs, Goto(w, pc)
      PROVE  wk'[w].pc = pc /\ wk'[w].job = k
  BY <1>0, <1>2, GotoEffect DEF IInv, TypeOK
<1>3. wk' = [wk EXCEPT ![w] = IdleWorker] => wk'[w].pc = "idle"
  BY DEF IInv, TypeOK, IdleWorker
<1>4. ASSUME NEW s \in Active \cup Terminal, SetStatus(w, s), wk[w].pc # "idle"
      PROVE  status'[k] = s /\ \A j \in Jobs \ {k} : status'[j] = status[j]
  BY <1>0, <1>1, <1>4, SetStatusEffect DEF IInv
<1>5. \A i \in 1 .. Len(queue) : Queued(queue[i].job)
  BY DEF SerialInv, InlineApart
<1>6. WorkingPcs \subseteq WkPcs /\ {"idle", "lookup", "start", "repush"} \subseteq WkPcs
  BY DEF WkPcs
<1>7. UNCHANGED <<row, created, req>>
  BY DEF Work, WorkerLost, Dequeue, FindUnfinished, DropFinished, Start, Defer, CacheHit,
         CacheMiss, Fetch, RateLimited, Requeue, Repush, RepushFails, WorkRaises, Complete,
         Fail
<1>8. /\ \A j : Queued(j) => Queued(j)'
      /\ wk[w].pc = "start" => status[k] \in Active
      /\ wk[w].pc \in WorkingPcs => status[k] = "running"
      /\ wk[w].pc = "repush" => status[k] = "pending"
  BY <1>0, <1>7 DEF Queued, SerialInv, WorkerKnows
(* A step within the work, that leaves the row running.                      *)
<1>9. ASSUME NEW pc \in WorkingPcs, wk[w].pc \in WorkingPcs, wk'[w].pc = pc,
             wk'[w].job = k, UNCHANGED <<status, queue>>
      PROVE  SerialInv'
  BY <1>0, <1>1, <1>5, <1>7, <1>8, <1>9, WorkerKeeps DEF WorkingPcs
<1>10. CASE Dequeue(w)
  <2> DEFINE m == Head(queue)
             x == [pc |-> "lookup", job |-> m.job, ranges |-> m.ranges,
                   deferred |-> m.deferred]
  <2>1. /\ queue # <<>>
        /\ queue' = Tail(queue)
        /\ wk' = [wk EXCEPT ![w] = x]
        /\ UNCHANGED status
    BY <1>10 DEF Dequeue
  <2>2. /\ m = queue[1]
        /\ Len(Tail(queue)) = Len(queue) - 1
        /\ \A i \in 1 .. Len(Tail(queue)) : Tail(queue)[i] = queue[i + 1]
        /\ Len(queue) \in Nat /\ Len(queue) # 0
    BY <2>1, HeadTailProperties, EmptySeq, LenProperties DEF IInv, TypeOK
  <2>3. Queued(m.job) /\ \A i \in 1 .. Len(queue') : Queued(queue'[i].job)
    BY <1>5, <2>1, <2>2
  <2>4. wk'[w].pc = "lookup" /\ wk'[w].job = m.job
    BY <2>1 DEF IInv, TypeOK
  <2> HIDE DEF m, x
  <2>5. SerialInv'
    BY <2>1, <2>3, <2>4, <1>7, <1>8, WorkerKeeps DEF WorkingPcs
  <2>6. QED
    BY <2>1, <2>5, <1>7
<1>11. CASE FindUnfinished(w)
  <2>1. /\ wk[w].pc = "lookup" /\ status[k] \in Active
        /\ Goto(w, "start") /\ UNCHANGED <<status, queue>>
    BY <1>11, <1>0 DEF FindUnfinished
  <2>2. wk'[w].pc = "start" /\ wk'[w].job = k
    BY <2>1, <1>2, <1>6
  <2>3. SerialInv'
    BY <2>1, <2>2, <1>1, <1>5, <1>7, WorkerKeeps DEF WorkingPcs
  <2>4. QED
    BY <2>1, <2>3, <1>7
<1>12. CASE DropFinished(w) \/ WorkerLost(w)
  <2>1. wk'[w].pc = "idle" /\ UNCHANGED <<status, queue>>
    BY <1>12, <1>3 DEF DropFinished, WorkerLost
  <2>2. SerialInv'
    BY <2>1, <1>5, <1>7, WorkerKeeps DEF WorkingPcs
  <2>3. QED
    BY <2>1, <2>2, <1>7
<1>13. CASE Start(w) \/ Defer(w)
  <2>1. PICK pc \in {"complete", "defer", "refresh"} :
          /\ wk[w].pc \in {"start", "defer"}
          /\ SetStatus(w, "running") /\ Goto(w, pc) /\ UNCHANGED queue
    BY <1>13 DEF Start, Defer, AfterStart
  <2>2. wk'[w].pc = pc /\ wk'[w].job = k /\ k \in Jobs /\ Queued(k)
    BY <2>1, <1>1, <1>2, <1>6 DEF WorkingPcs
  <2>3. status'[k] = "running" /\ \A j \in Jobs \ {k} : status'[j] = status[j]
    BY <2>1, <1>4 DEF Active
  <2>4. SerialInv'
    BY <2>1, <2>2, <2>3, <1>0, <1>5, <1>7, WorkerKeeps DEF WorkingPcs
  <2>5. status[k] \in Active
    BY <2>1, <1>8 DEF WorkingPcs, Active
  <2>6. UNCHANGED status \/ Moves(k, "pending", "running")
    BY <2>1, <2>2, <2>5, <1>0 DEF Moves, SetStatus, Active, IInv, TypeOK
  <2>7. QED
    BY <2>2, <2>4, <2>6, <1>0, <1>7 DEF QueuedMoves
<1>14. CASE CacheHit(w) \/ Fetch(w)
  <2>1. /\ wk[w].pc \in {"refresh", "slot"}
        /\ Refreshed(w) \/ Goto(w, "fail")
        /\ UNCHANGED <<status, queue>> /\ wk[w].pc \in WorkingPcs
    BY <1>14 DEF CacheHit, Fetch, WorkingPcs
  <2>2. PICK pc \in WorkingPcs : wk'[w].pc = pc /\ wk'[w].job = k
    BY <2>1, <1>0, <1>2, <1>6, RefreshedEffect DEF IInv, WorkingPcs
  <2>3. QED
    BY <2>1, <2>2, <1>7, <1>9
<1>15. CASE CacheMiss(w) \/ RateLimited(w) \/ WorkRaises(w)
  <2>1. /\ Goto(w, "slot") \/ Goto(w, "requeue") \/ Goto(w, "fail")
        /\ UNCHANGED <<status, queue>> /\ wk[w].pc \in WorkingPcs
    BY <1>15 DEF CacheMiss, RateLimited, WorkRaises, WorkingPcs
  <2>2. PICK pc \in WorkingPcs : wk'[w].pc = pc /\ wk'[w].job = k
    BY <2>1, <1>2, <1>6 DEF WorkingPcs
  <2>3. QED
    BY <2>1, <2>2, <1>7, <1>9
<1>16. CASE Requeue(w)
  <2>1. /\ wk[w].pc = "requeue" /\ SetStatus(w, "pending")
        /\ Goto(w, "repush") /\ UNCHANGED queue
    BY <1>16 DEF Requeue
  <2>2. /\ wk'[w].pc = "repush" /\ wk'[w].job = k /\ k \in Jobs /\ Queued(k)
        /\ status'[k] = "pending" /\ \A j \in Jobs \ {k} : status'[j] = status[j]
    BY <2>1, <1>1, <1>2, <1>4, <1>6 DEF Active
  <2>3. SerialInv'
    BY <2>1, <2>2, <1>0, <1>5, <1>7, WorkerKeeps DEF WorkingPcs
  <2>4. Moves(k, "running", "pending")
    BY <2>1, <1>0, <1>8 DEF Moves, SetStatus, WorkingPcs
  <2>5. QED
    BY <2>2, <2>3, <2>4, <1>0, <1>7 DEF QueuedMoves
<1>17. CASE Repush(w)
  <2> DEFINE m == [job |-> k, ranges |-> wk[w].ranges, deferred |-> TRUE]
  <2>1. /\ wk[w].pc = "repush"
        /\ queue' = Append(queue, m)
        /\ wk' = [wk EXCEPT ![w] = IdleWorker]
        /\ UNCHANGED status
    BY <1>17, <1>0 DEF Repush
  <2>2. m \in Message /\ m.job = k
    BY <1>0, <1>1, <2>1 DEF Message, IInv, TypeOK, Worker
  <2> HIDE DEF m
  <2>3. \A i \in 1 .. Len(queue') : Queued(queue'[i].job)
    BY <2>1, <2>2, <1>1, AppendQueued DEF IInv, TypeOK, SerialInv
  <2>4. SerialInv'
    BY <2>1, <2>3, <1>3, <1>7, WorkerKeeps DEF WorkingPcs
  <2>5. QED
    BY <2>1, <2>4, <1>7
<1>18. CASE RepushFails(w)
  BY <1>18 DEF RepushFails, PushesSucceed
<1>19. CASE Complete(w) \/ Fail(w)
  <2>1. PICK s \in {"completed", "failed"} :
          /\ wk[w].pc \in {"complete", "fail"} /\ SetStatus(w, s)
          /\ wk' = [wk EXCEPT ![w] = IdleWorker] /\ UNCHANGED queue
    BY <1>19 DEF Complete, Fail
  <2>2. /\ wk'[w].pc = "idle" /\ k \in Jobs /\ Queued(k)
        /\ \A j \in Jobs \ {k} : status'[j] = status[j]
    BY <2>1, <1>1, <1>3, <1>4 DEF Terminal
  <2>3. SerialInv'
    BY <2>1, <2>2, <1>0, <1>5, <1>7, WorkerKeeps DEF WorkingPcs
  <2>4. Moves(k, "running", s)
    BY <2>1, <1>0, <1>8 DEF Moves, SetStatus, WorkingPcs
  <2>5. QED
    BY <2>1, <2>2, <2>3, <2>4, <1>0, <1>7 DEF QueuedMoves
<1>20. QED
  BY <1>10, <1>11, <1>12, <1>13, <1>14, <1>15, <1>16, <1>17, <1>18, <1>19 DEF Work

(* What requests do to rows: insert one, or end the one they work on.        *)
Inserts(r) ==
  /\ req[r].pc = "create" /\ req[r].row \in Row
  /\ created + 1 \in Jobs /\ status[created + 1] = "absent"
  /\ row[created + 1] \in Row \cup {NoRow}
  /\ status' = [status EXCEPT ![created + 1] = "pending"]
  /\ row' = [row EXCEPT ![created + 1] = req[r].row]
EndsOwn(r) ==
  /\ req[r].job \in Jobs /\ ~Queued(req[r].job)
  /\ \E s \in Terminal : Moves(req[r].job, "pending", s)
  /\ UNCHANGED row

(* Requests keep SerialInv when their rows and the worker's stay put.        *)
LEMMA RequestKeeps ==
  ASSUME IInv, SerialInv, NEW r \in Requests, UNCHANGED wk,
         \A v \in Requests \ {r} : req'[v] = req[v],
         \A j : Known(j) => row'[j] = row[j],
         \A i \in 1 .. Len(queue') : row'[queue'[i].job].kind \notin InlineKinds,
         req'[r].pc \notin {"reject", "fail"},
         req'[r].pc = "push" => row'[req'[r].job].kind \notin InlineKinds,
         req'[r].pc = "inline" => /\ status'[req'[r].job] = "pending"
                                  /\ ~Known(req'[r].job),
         \A j : (Known(j) /\ Queued(j)) => status'[j] = status[j],
         \A v \in Requests \ {r} :
           req[v].pc = "inline" => status'[req[v].job] = status[req[v].job]
  PROVE  SerialInv'
<1>1. \A w \in Workers : wk[w].pc # "idle" => Known(wk[w].job) /\ Queued(wk[w].job)
  BY DEF IInv, WorkersFit, SerialInv, InlineApart
<1>2. \A v \in Requests :
        req[v].pc \in {"push", "inline"} => Known(req[v].job) /\ req[v].job \in Nat
  BY BoundsAssumption, KnownJob DEF IInv, RequestsFit, Known, TypeOK, Jobs
<1>3. InlineApart'
  <2>1. \A v \in Requests : req'[v].pc = "push" => row'[req'[v].job].kind \notin InlineKinds
    <3>1. \A v \in Requests \ {r} :
            req[v].pc = "push" => row[req[v].job].kind \notin InlineKinds
      BY DEF SerialInv, InlineApart, Queued
    <3>2. \A v \in Requests \ {r} : req[v].pc = "push" => row'[req[v].job] = row[req[v].job]
      <4> SUFFICES ASSUME NEW v \in Requests \ {r}, req[v].pc = "push"
                   PROVE  row'[req[v].job] = row[req[v].job]
        OBVIOUS
      <4>1. PICK j : j = req[v].job
        OBVIOUS
      <4>2. Known(j)
        BY <1>2, <4>1
      <4>3. QED
        BY <4>1, <4>2
    <3>3. QED
      BY <3>1, <3>2
  <2>2. \A w \in Workers : wk'[w].pc # "idle" => row'[wk'[w].job].kind \notin InlineKinds
    BY <1>1 DEF Queued, Known
  <2>3. QED
    BY <2>1, <2>2 DEF InlineApart, Queued
<1>4. \A v \in Requests : req[v].pc = "inline" =>
        \A u \in Requests : req[u].pc = "inline" /\ req[u].job = req[v].job => u = v
  BY DEF SerialInv, InlineOwned
<1>5. \A v \in Requests \ {r} : req[v].pc = "inline" => status'[req[v].job] = "pending"
  BY DEF SerialInv, InlineOwned
<1>6. InlineOwned'
  <2>1. \A v \in Requests : req'[v].pc = "inline" => status'[req'[v].job] = "pending"
    BY <1>5
  <2>2. ASSUME NEW v \in Requests, NEW u \in Requests, req'[v].pc = "inline",
               req'[u].pc = "inline", req'[u].job = req'[v].job
        PROVE  u = v
    <3>1. CASE v # r /\ u # r
      BY <1>4, <2>2, <3>1
    <3>2. PICK j : j = req'[v].job
      OBVIOUS
    <3>3. CASE v = r /\ u # r
      BY <1>2, <2>2, <3>2, <3>3
    <3>4. CASE v # r /\ u = r
      BY <1>2, <2>2, <3>2, <3>4
    <3>5. QED
      BY <3>1, <3>3, <3>4
  <2>3. \A v \in Requests : req'[v].pc \notin {"reject", "fail"}
    BY DEF SerialInv, InlineOwned
  <2>4. QED
    BY <2>1, <2>2, <2>3 DEF InlineOwned
<1>7. \A w \in Workers : wk[w].pc # "idle" => status'[wk[w].job] = status[wk[w].job]
  BY <1>1, <1>2
<1>8. WorkerKnows'
  BY <1>7 DEF SerialInv, WorkerKnows, WorkingPcs
<1>9. QED
  BY <1>3, <1>6, <1>8 DEF SerialInv

LEMMA RequestMoves ==
  ASSUME IInv, SerialInv, PushesSucceed, NEW r \in Requests,
         Ask(r) \/ Serve(r) \/ RequestCrash(r)
  PROVE  /\ SerialInv'
         /\ UNCHANGED <<status, row>> \/ Inserts(r) \/ EndsOwn(r)
<1> USE DEF history
<1>1. \A q : req' = [req EXCEPT ![r] = q] =>
        req'[r] = q /\ \A v \in Requests \ {r} : req'[v] = req[v]
  BY DEF IInv, TypeOK
<1>2. \A i \in 1 .. Len(queue) : Queued(queue[i].job)
  BY DEF SerialInv, InlineApart
<1>3. \A v \in Requests : /\ req[v].pc = "inline" => Known(req[v].job)
                         /\ req[v].pc \notin {"reject", "fail"}
  BY DEF IInv, RequestsFit, SerialInv, InlineOwned
<1>4. ASSUME NEW q, req' = [req EXCEPT ![r] = q], q.pc \in {"idle", "create"},
             UNCHANGED <<status, row, queue, wk>>
      PROVE  SerialInv'
  <2>1. \A i \in 1 .. Len(queue') : row'[queue'[i].job].kind \notin InlineKinds
    BY <1>2, <1>4 DEF Queued
  <2>2. QED
    BY <1>1, <1>4, <2>1, RequestKeeps
<1>5. ASSUME NEW p \in Portfolios, NEW k \in Kinds, ReusePending(r, p, k)
      PROVE  SerialInv' /\ UNCHANGED <<status, row>>
  <2>1. PICK j \in Jobs, ranges \in RequestRanges(k) :
          /\ j \in Unfinished(p, k) /\ k \in RepushKinds
          /\ req' = [req EXCEPT ![r] = [pc |-> "push", row |-> row[j], job |-> j,
                                        ranges |-> ranges, seen |-> 0]]
          /\ UNCHANGED <<status, row, queue, wk>>
    BY <1>5 DEF ReusePending, IsLatest
  <2>2. row[j].kind = k
    BY <2>1 DEF Unfinished
  <2>3. Queued(j)'
    BY <2>1, <2>2 DEF Queued, RepushKinds, InlineKinds
  <2>4. req'[r].pc = "push" /\ req'[r].job = j /\ \A v \in Requests \ {r} : req'[v] = req[v]
    BY <1>1, <2>1
  <2>5. \A i \in 1 .. Len(queue') : row'[queue'[i].job].kind \notin InlineKinds
    BY <1>2, <2>1 DEF Queued
  <2>6. QED
    BY <2>1, <2>3, <2>4, <2>5, RequestKeeps DEF Queued
<1>6. ASSUME NEW p \in Portfolios, NEW k \in Kinds, FindNone(r, p, k)
      PROVE  SerialInv' /\ UNCHANGED <<status, row>>
  BY <1>4, <1>6 DEF FindNone
<1>7. \A p \in Portfolios : ~OverBudget(r, p)
  BY DEF OverBudget, PushesSucceed
<1>8. CASE EnqueueBackgroundJob(r)
  <2>0. PICK j : j = created + 1
    OBVIOUS
  <2>1. /\ req[r].pc = "create" /\ j \in Jobs
        /\ status' = [status EXCEPT ![j] = "pending"]
        /\ row' = [row EXCEPT ![j] = req[r].row]
        /\ req' = [req EXCEPT ![r].pc = AfterCreate(req[r]), ![r].job = j, ![r].seen = 0]
        /\ UNCHANGED <<queue, wk>>
    BY <1>3, <1>8, <2>0 DEF EnqueueBackgroundJob
  <2>2. req[r].row \in Row /\ req[r] \in Request
    BY <2>1 DEF IInv, TypeOK, RequestsFit
  <2>3. /\ req'[r].pc = AfterCreate(req[r]) /\ req'[r].job = j
        /\ \A v \in Requests \ {r} : req'[v] = req[v]
    <3> DEFINE q == [req[r] EXCEPT !.pc = AfterCreate(req[r]), !.job = j, !.seen = 0]
    <3>1. q.pc = AfterCreate(req[r]) /\ q.job = j
      BY <2>2 DEF Request
    <3>2. req' = [req EXCEPT ![r] = q]
      BY <2>1
    <3> HIDE DEF q
    <3>3. QED
      BY <1>1, <3>1, <3>2
  <2>4. ~Known(j) /\ created \in Nat
    BY <2>0, BoundsAssumption DEF Known, IInv, TypeOK, Jobs
  <2>5. status[j] = "absent" /\ row[j] \in Row \cup {NoRow}
    BY <2>1, <2>4 DEF IInv, TypeOK, RowsKnown
  <2>6. /\ \A i \in Jobs \ {j} : status'[i] = status[i] /\ row'[i] = row[i]
        /\ status'[j] = "pending" /\ row'[j] = req[r].row
    BY <2>1 DEF IInv, TypeOK
  <2>7. \A i : Known(i) => (status'[i] = status[i] /\ row'[i] = row[i])
    BY <2>4, <2>6, KnownJob DEF IInv
  <2>8. \A i \in 1 .. Len(queue') : row'[queue'[i].job].kind \notin InlineKinds
    BY <1>2, <2>1, <2>7 DEF Queued, IInv, MessagesFit
  <2>9. /\ AfterCreate(req[r]) \in {"push", "inline"}
        /\ AfterCreate(req[r]) = "push" => Queued(j)'
    BY <2>1, <2>6 DEF AfterCreate, Queued
  <2>10. SerialInv'
    BY <1>3, <2>1, <2>3, <2>4, <2>6, <2>7, <2>8, <2>9, RequestKeeps DEF Known, Queued
  <2>11. Inserts(r)
    BY <2>0, <2>1, <2>2, <2>5 DEF Inserts
  <2>12. QED
    BY <2>10, <2>11
<1>9. CASE PushMessage(r)
  <2> DEFINE m == [job |-> req[r].job, ranges |-> req[r].ranges, deferred |-> FALSE]
  <2>1. /\ req[r].pc = "push" /\ queue' = Append(queue, m)
        /\ req' = [req EXCEPT ![r] = IdleRequest]
        /\ UNCHANGED <<status, row, wk>>
    BY <1>9 DEF PushMessage
  <2>2. m \in Message /\ Queued(m.job)
    BY <2>1, KnownJob DEF Message, IInv, TypeOK, Request, RequestsFit, SerialInv, InlineApart
  <2> HIDE DEF m
  <2>3. \A i \in 1 .. Len(queue') : row'[queue'[i].job].kind \notin InlineKinds
    BY <2>1, <2>2, AppendQueued DEF IInv, TypeOK, SerialInv, Queued
  <2>4. req'[r].pc = "idle" /\ \A v \in Requests \ {r} : req'[v] = req[v]
    BY <1>1, <2>1 DEF IdleRequest
  <2>5. QED
    BY <2>1, <2>3, <2>4, RequestKeeps
<1>10. ~PushFails(r) /\ ~MarkUnqueued(r)
  BY <1>3 DEF PushFails, MarkUnqueued, PushesSucceed
<1>11. CASE FinishInline(r)
  <2>0. PICK j : j = req[r].job
    OBVIOUS
  <2>1. PICK s \in Terminal :
          /\ req[r].pc = "inline" /\ status' = [status EXCEPT ![j] = s]
          /\ req' = [req EXCEPT ![r] = IdleRequest]
          /\ UNCHANGED <<row, queue, wk>>
    BY <1>11, <2>0 DEF FinishInline
  <2>2. /\ j \in Jobs /\ ~Queued(j) /\ status[j] = "pending"
        /\ \A v \in Requests \ {r} : req[v].pc = "inline" => req[v].job # j
    BY <2>0, <2>1, KnownJob DEF IInv, RequestsFit, SerialInv, InlineOwned, Queued
  <2>3. \A i \in Jobs \ {j} : status'[i] = status[i]
    BY <2>1 DEF IInv, TypeOK
  <2>4. \A i \in 1 .. Len(queue') : row'[queue'[i].job].kind \notin InlineKinds
    BY <1>2, <2>1 DEF Queued
  <2>5. req'[r].pc = "idle" /\ \A v \in Requests \ {r} : req'[v] = req[v]
    BY <1>1, <2>1 DEF IdleRequest
  <2>6. /\ \A i : (Known(i) /\ Queued(i)) => status'[i] = status[i]
        /\ \A v \in Requests \ {r} :
             req[v].pc = "inline" => status'[req[v].job] = status[req[v].job]
    BY <1>3, <2>2, <2>3, KnownJob DEF IInv
  <2>7. SerialInv'
    BY <2>1, <2>4, <2>5, <2>6, RequestKeeps
  <2>8. EndsOwn(r)
    BY <2>0, <2>1, <2>2 DEF EndsOwn, Moves
  <2>9. QED
    BY <2>7, <2>8
<1>12. CASE RequestCrash(r)
  BY <1>4, <1>12 DEF RequestCrash, IdleRequest
<1>13. QED
  BY <1>5, <1>6, <1>7, <1>8, <1>9, <1>10, <1>11, <1>12 DEF Ask, Serve
LEMMA SerialInit == Init => SerialInv
<1> SUFFICES ASSUME Init PROVE SerialInv
  OBVIOUS
<1>1. Len(queue) = 0
  BY EmptySeq DEF Init
<1>2. QED
  BY <1>1 DEF Init, SerialInv, InlineApart, InlineOwned, WorkerKnows, IdleRequest, IdleWorker,
              WorkingPcs

LEMMA OthersKeep ==
  ASSUME SerialInv, UNCHANGED <<status, row, queue, req, wk>>
  PROVE  SerialInv'
BY DEF SerialInv, InlineApart, InlineOwned, WorkerKnows, Queued

(* The steps of the system, as they show in the rows.                        *)
LEMMA StepMoves ==
  ASSUME IInv, SerialInv, OneWorker, PushesSucceed, [Next]_vars
  PROVE  /\ SerialInv'
         /\ \/ UNCHANGED <<status, row>>
            \/ \E r \in Requests : Inserts(r) \/ EndsOwn(r)
            \/ /\ UNCHANGED row
               /\ \E j \in Jobs : /\ Queued(j)
                                  /\ \E m \in QueuedMoves : Moves(j, m[1], m[2])
<1>1. CASE \E r \in Requests : Ask(r) \/ Serve(r) \/ RequestCrash(r)
  BY <1>1, RequestMoves
<1>2. CASE \E w \in Workers : Work(w) \/ WorkerLost(w)
  BY <1>2, WorkerMoves
<1>3. CASE (\E p \in Portfolios : WindowUsed(p) \/ WindowEnds(p)) \/ UNCHANGED vars
  BY <1>3, OthersKeep DEF WindowUsed, WindowEnds, vars, history
<1>4. QED
  BY <1>1, <1>2, <1>3 DEF Next

(* A row that was not inserted says nothing.                                 *)
FreshRows == \A j \in Jobs : status[j] = "absent" => row[j] = NoRow

LEMMA FreshKept ==
  ASSUME IInv, SerialInv, FreshRows, OneWorker, PushesSucceed, [Next]_vars
  PROVE  FreshRows'
<1>1. ASSUME NEW i, NEW from, NEW to, to # "absent", Moves(i, from, to), UNCHANGED row
      PROVE  FreshRows'
  BY <1>1 DEF Moves, IInv, TypeOK, FreshRows
<1>2. ASSUME NEW r \in Requests, Inserts(r)
      PROVE  FreshRows'
  BY <1>2 DEF Inserts, IInv, TypeOK, FreshRows
<1>3. ASSUME UNCHANGED <<status, row>>
      PROVE  FreshRows'
  BY <1>3 DEF FreshRows
<1>4. QED
  BY <1>1, <1>2, <1>3, StepMoves DEF EndsOwn, QueuedMoves, Terminal

RowsInv == IInv /\ SerialInv /\ FreshRows

LEMMA RowsStep ==
  ASSUME OneWorker, PushesSucceed
  PROVE  RowsInv /\ [Next]_vars => RowsInv'
BY StepFits, StepMoves, FreshKept DEF RowsInv

LEMMA RowsAlways ==
  ASSUME OneWorker, PushesSucceed
  PROVE  Spec => []RowsInv
<1>1. Init => RowsInv
  BY InitFits, SerialInit DEF RowsInv, FreshRows, Init
<1>2. QED
  BY <1>1, RowsStep, PTL DEF Spec

(* The promise of the README (src/README.md, Background Worker): a job is    *)
(* submitted once, a worker takes it from pending to running, hands it back  *)
(* or ends it, and once ended it never moves again - whatever API threads    *)
(* do at once, however often a message for the job is pushed, and through    *)
(* stops of threads and of the worker.                                       *)
THEOREM LifecycleKept ==
  ASSUME OneWorker, PushesSucceed
  PROVE  Spec => LifecycleSpec
<1> DEFINE inline == {j \in Jobs : row[j].kind \in InlineKinds}
<1>1. Init => Lifecycle!Init
  BY DEF Init, Lifecycle!Init, NoRow, InlineKinds
<1>2. RowsInv /\ [Next]_vars => [Lifecycle!Next]_<<status, inline>>
  <2> SUFFICES ASSUME RowsInv, [Next]_vars
               PROVE  [Lifecycle!Next]_<<status, inline>>
    OBVIOUS
  <2>1. CASE UNCHANGED <<status, row>>
    BY <2>1
  <2>2. ASSUME NEW r \in Requests, Inserts(r)
        PROVE  Lifecycle!Next
    <3>0. PICK j : j = created + 1
      OBVIOUS
    <3>1. /\ j \in Jobs /\ status[j] = "absent" /\ row[j] = NoRow
          /\ status' = [status EXCEPT ![j] = "pending"]
          /\ row' = [row EXCEPT ![j] = req[r].row]
      BY <2>2, <3>0 DEF Inserts, RowsInv, FreshRows
    <3>2. j \notin inline
      BY <3>1 DEF NoRow, InlineKinds
    <3>3. inline' \in {inline, inline \cup {j}}
      BY <3>1, <3>2 DEF RowsInv, IInv, TypeOK
    <3>4. Lifecycle!Submit(j)
      BY <3>1, <3>3 DEF Lifecycle!Submit, Lifecycle!Move
    <3>5. QED
      BY <3>1, <3>4 DEF Lifecycle!Next
  <2>3. ASSUME NEW r \in Requests, EndsOwn(r)
        PROVE  Lifecycle!Next
    <3>1. PICK s \in Terminal : Moves(req[r].job, "pending", s)
      BY <2>3 DEF EndsOwn
    <3>2. req[r].job \in Jobs /\ req[r].job \in inline /\ UNCHANGED inline
      BY <2>3 DEF EndsOwn, Queued
    <3>3. Lifecycle!Succeed(req[r].job) \/ Lifecycle!GiveUp(req[r].job)
      BY <3>1, <3>2 DEF Moves, Lifecycle!Succeed, Lifecycle!GiveUp, Lifecycle!Move, Terminal
    <3>4. QED
      BY <3>2, <3>3 DEF Lifecycle!Next
  <2>4. ASSUME NEW j \in Jobs, Queued(j), UNCHANGED row, NEW m \in QueuedMoves,
               Moves(j, m[1], m[2])
        PROVE  Lifecycle!Next
    <3>1. j \notin inline /\ UNCHANGED inline
      BY <2>4 DEF Queued
    <3>2. PICK from, to : from = m[1] /\ to = m[2]
      OBVIOUS
    <3>3. /\ status[j] = from /\ status' = [status EXCEPT ![j] = to]
          /\ \/ from = "pending" /\ to = "running"
             \/ from = "running" /\ to \in {"pending", "completed", "failed"}
      BY <2>4, <3>2 DEF Moves, QueuedMoves
    <3>4. \/ Lifecycle!Pick(j) \/ Lifecycle!Postpone(j)
          \/ Lifecycle!Succeed(j) \/ Lifecycle!GiveUp(j)
      BY <3>1, <3>3 DEF Lifecycle!Pick, Lifecycle!Postpone, Lifecycle!Succeed,
                        Lifecycle!GiveUp, Lifecycle!Move
    <3>5. QED
      BY <3>4 DEF Lifecycle!Next
  <2>5. QED
    BY <2>1, <2>2, <2>3, <2>4, StepMoves DEF RowsInv
<1>3. QED
  BY <1>1, <1>2, RowsAlways, PTL DEF Spec, LifecycleSpec, Lifecycle!Spec, Lifecycle!vars

(* Under the same hypotheses no job that ended is processed again            *)
(* (process_background_job's status check).                                  *)
THEOREM FinishedJobsStay ==
  ASSUME OneWorker, PushesSucceed
  PROVE  Spec => FinishedStaysFinished
<1>1. RowsInv /\ [Next]_vars =>
        [\A j \in Jobs : status[j] \in Terminal => status'[j] = status[j]]_vars
  <2> SUFFICES ASSUME RowsInv, [Next]_vars, NEW j \in Jobs, status[j] \in Terminal
               PROVE  status'[j] = status[j]
    OBVIOUS
  <2>1. ASSUME NEW i, NEW from \in Active \cup {"absent"}, NEW to, Moves(i, from, to)
        PROVE  status'[j] = status[j]
    BY <2>1 DEF Moves, RowsInv, IInv, TypeOK, Active, Terminal
  <2>2. QED
    BY <2>1, StepMoves DEF RowsInv, Inserts, EndsOwn, QueuedMoves, Moves, Active
<1>2. QED
  BY <1>1, RowsAlways, PTL DEF Spec, FinishedStaysFinished
-----------------------------------------------------------------------------
(* Refreshes asked for by any number of API threads, which may look for an   *)
(* unfinished one at the same time before any of them inserts a row.         *)

(* A request about to insert has looked: it missed no refresh like its own   *)
(* but those inserted since.                                                 *)
SeenKnown == \A r \in Requests : req[r].pc = "create" => req[r].seen <= created
NoneMissed ==
  \A r \in Requests, j \in Jobs :
    (/\ req[r].pc = "create" /\ req[r].row.kind \in DedupKinds
     /\ status[j] \in Active /\ row[j] = req[r].row) => req[r].seen < j

LooksInv == SeenKnown /\ NoneMissed /\ NoRefreshOverlooked

(* A step that starts no job.                                                *)
NoneBegins ==
  /\ UNCHANGED <<row, created, looked>>
  /\ \A j \in Jobs : status'[j] \in Active => status[j] \in Active

LEMMA MovesBeginNone ==
  ASSUME IInv, NEW i, NEW from \in Active, NEW to, Moves(i, from, to),
         UNCHANGED <<row, created, looked>>
  PROVE  NoneBegins
BY DEF IInv, TypeOK, Moves, NoneBegins

(* Only requests insert rows.                                                *)
LEMMA InsertedByRequests ==
  ASSUME [Next]_vars, ~(\E r \in Requests : Ask(r) \/ Serve(r) \/ RequestCrash(r))
  PROVE  UNCHANGED <<created, looked, req>>
<1> USE DEF history
<1>1. ASSUME NEW w \in Workers, Work(w) \/ WorkerLost(w)
      PROVE  UNCHANGED <<created, looked, req>>
  BY <1>1 DEF Work, WorkerLost, Dequeue, FindUnfinished, DropFinished, Start, Defer,
              CacheHit, CacheMiss, Fetch, RateLimited, Requeue, Repush, RepushFails,
              WorkRaises, Complete, Fail
<1>2. CASE (\E p \in Portfolios : WindowUsed(p) \/ WindowEnds(p)) \/ UNCHANGED vars
  BY <1>2 DEF WindowUsed, WindowEnds, vars
<1>3. QED
  BY <1>1, <1>2 DEF Next

LEMMA LooksStep ==
  ASSUME RowsInv, LooksInv, OneWorker, PushesSucceed, [Next]_vars
  PROVE  LooksInv'
<1>1. ASSUME NoneBegins,
             \A r \in Requests : req'[r] = req[r] \/ req'[r].pc # "create"
      PROVE  LooksInv'
  BY <1>1 DEF NoneBegins, LooksInv, SeenKnown, NoneMissed, NoRefreshOverlooked
<1>2. ASSUME NEW r \in Requests, NEW q, req' = [req EXCEPT ![r] = q]
      PROVE  req'[r] = q /\ \A v \in Requests \ {r} : req'[v] = req[v]
  BY <1>2 DEF RowsInv, IInv, TypeOK
<1>3. ASSUME NEW r \in Requests, NEW q, req' = [req EXCEPT ![r] = q], q.pc # "create",
             UNCHANGED <<created, looked>>, UNCHANGED <<status, row>> \/ EndsOwn(r)
      PROVE  LooksInv'
  <2>1. NoneBegins
    <3>1. CASE UNCHANGED <<status, row>>
      BY <1>3, <3>1 DEF NoneBegins
    <3>2. CASE EndsOwn(r)
      BY <1>3, <3>2, MovesBeginNone DEF RowsInv, EndsOwn, Active, Terminal
    <3>3. QED
      BY <1>3, <3>1, <3>2
  <2>2. QED
    BY <1>1, <1>2, <1>3, <2>1
<1>4. ASSUME NEW r \in Requests, Ask(r) \/ Serve(r) \/ RequestCrash(r),
             ~EnqueueBackgroundJob(r), \A p \in Portfolios, k \in Kinds : ~FindNone(r, p, k)
      PROVE  LooksInv'
  <2> USE DEF history
  <2>0. IdleRequest.pc # "create"
    BY DEF IdleRequest
  <2>1. CASE \E p \in Portfolios : OverBudget(r, p)
    BY <2>1 DEF OverBudget, PushesSucceed
  <2>2. CASE \E p \in Portfolios, k \in Kinds : ReusePending(r, p, k)
    <3>1. PICK q : q.pc = "push" /\ req' = [req EXCEPT ![r] = q]
      BY <2>2 DEF ReusePending
    <3>2. UNCHANGED <<status, row, created, looked>>
      BY <2>2 DEF ReusePending
    <3>3. QED
      BY <1>3, <3>1, <3>2
  <2>3. CASE PushMessage(r) \/ RequestCrash(r)
    <3>1. /\ req' = [req EXCEPT ![r] = IdleRequest]
          /\ UNCHANGED <<status, row, created, looked>>
      BY <2>3 DEF PushMessage, RequestCrash
    <3>2. QED
      BY <1>3, <2>0, <3>1
  <2>4. CASE PushFails(r) \/ MarkUnqueued(r)
    BY <2>4 DEF PushFails, MarkUnqueued, PushesSucceed, RowsInv, SerialInv, InlineOwned
  <2>5. CASE FinishInline(r)
    <3>1. /\ req[r].pc # "create" /\ req' = [req EXCEPT ![r] = IdleRequest]
          /\ UNCHANGED <<row, created, looked>>
      BY <2>5 DEF FinishInline
    <3>2. UNCHANGED <<status, row>> \/ EndsOwn(r)
      BY <2>5, <3>1, RequestMoves DEF RowsInv, Inserts, Serve
    <3>3. QED
      BY <1>3, <2>0, <3>1, <3>2
  <2>6. QED
    BY <1>4, <2>1, <2>2, <2>3, <2>4, <2>5 DEF Ask, Serve
<1>5. ASSUME NEW r \in Requests, NEW p \in Portfolios, NEW k \in Kinds, FindNone(r, p, k)
      PROVE  LooksInv'
  <2>1. PICK q :
          /\ q.row = [portfolio |-> p, kind |-> k] /\ q.pc = "create" /\ q.seen = created
          /\ req' = [req EXCEPT ![r] = q]
    BY <1>5 DEF FindNone
  <2>2. /\ k \in DedupKinds =>
             \A j \in Jobs : status[j] \in Active => row[j] # [portfolio |-> p, kind |-> k]
        /\ UNCHANGED <<status, row, created, looked>>
    BY <1>5 DEF FindNone, Unfinished, history
  <2>3. req'[r] = q /\ \A v \in Requests \ {r} : req'[v] = req[v]
    BY <1>2, <2>1
  <2>4. created \in Nat
    BY BoundsAssumption DEF RowsInv, IInv, TypeOK, Jobs
  <2>5. SeenKnown'
    BY <2>1, <2>2, <2>3, <2>4 DEF LooksInv, SeenKnown
  <2>6. NoneMissed'
    BY <2>1, <2>2, <2>3 DEF LooksInv, NoneMissed
  <2>7. QED
    BY <2>2, <2>5, <2>6 DEF LooksInv, NoRefreshOverlooked
<1>6. ASSUME NEW r \in Requests, EnqueueBackgroundJob(r)
      PROVE  LooksInv'
  <2>0. PICK j, x : j = created + 1 /\ x = req[r].row
    OBVIOUS
  <2>1. /\ req[r].pc = "create" /\ j \in Jobs /\ created' = j
        /\ status' = [status EXCEPT ![j] = "pending"] /\ row' = [row EXCEPT ![j] = x]
        /\ looked' = [looked EXCEPT ![j] = req[r].seen]
    BY <1>6, <2>0 DEF EnqueueBackgroundJob, RowsInv, SerialInv, InlineOwned
  <2>2. /\ row'[j] = x /\ looked'[j] = req[r].seen
        /\ \A i \in Jobs \ {j} : /\ status'[i] = status[i] /\ row'[i] = row[i]
                                 /\ looked'[i] = looked[i]
    BY <2>1 DEF RowsInv, IInv, TypeOK
  <2>3. created \in Nat /\ Jobs \subseteq Nat /\ \A i \in Jobs : status[i] # "absent" => i < j
    BY <2>0, BoundsAssumption DEF RowsInv, IInv, TypeOK, RowsKnown, Known, Jobs
  <2>4. req'[r].pc # "create" /\ \A v \in Requests \ {r} : req'[v] = req[v]
    <3> DEFINE q == [req[r] EXCEPT !.pc = AfterCreate(req[r]), !.job = j, !.seen = 0]
    <3>1. q.pc = AfterCreate(req[r])
      BY DEF RowsInv, IInv, TypeOK, Request
    <3>2. req' = [req EXCEPT ![r] = q]
      BY <1>6, <2>0 DEF EnqueueBackgroundJob
    <3> HIDE DEF q
    <3>3. AfterCreate(req[r]) # "create"
      BY <2>1 DEF AfterCreate
    <3>4. QED
      BY <1>2, <3>1, <3>2, <3>3
  <2>5. ASSUME NEW v \in Requests
        PROVE  req[v].seen \in Nat
    <3>1. req[v] \in Request
      BY DEF RowsInv, IInv, TypeOK
    <3>2. req[v].seen \in Jobs \cup {0}
      BY <3>1 DEF Request
    <3>3. QED
      BY <3>2, BoundsAssumption DEF Jobs
  <2>6. SeenKnown'
    BY <2>0, <2>1, <2>3, <2>4, <2>5 DEF LooksInv, SeenKnown
  <2>7. NoneMissed'
    <3> SUFFICES ASSUME NEW v \in Requests, NEW i \in Jobs,
                        req'[v].pc = "create", req'[v].row.kind \in DedupKinds,
                        status'[i] \in Active, row'[i] = req'[v].row
                 PROVE  req'[v].seen < i
      BY DEF NoneMissed
    <3>1. req'[v] = req[v] /\ req[v].seen <= created
      BY <2>4 DEF LooksInv, SeenKnown
    <3>2. CASE i = j
      BY <2>0, <2>3, <2>5, <3>1, <3>2
    <3>3. CASE i # j
      BY <2>2, <3>1, <3>3 DEF LooksInv, NoneMissed
    <3>4. QED
      BY <3>2, <3>3
  <2>8. NoRefreshOverlooked'
    <3> SUFFICES ASSUME NEW i \in Jobs, NEW n \in Jobs, i < n, row'[i] = row'[n],
                        row'[i].kind \in DedupKinds, status'[i] \in Active,
                        status'[n] \in Active
                 PROVE  looked'[n] < i
      BY DEF NoRefreshOverlooked
    <3>1. CASE n = j
      BY <2>0, <2>1, <2>2, <2>3, <3>1 DEF LooksInv, NoneMissed
    <3>2. CASE i = j
      BY <2>2, <2>3, <3>2 DEF Active
    <3>3. CASE i # j /\ n # j
      BY <2>2, <3>3 DEF LooksInv, NoRefreshOverlooked
    <3>4. QED
      BY <3>1, <3>2, <3>3
  <2>9. QED
    BY <2>6, <2>7, <2>8 DEF LooksInv
<1>7. CASE ~(\E r \in Requests : Ask(r) \/ Serve(r) \/ RequestCrash(r))
  <2>1. UNCHANGED <<created, looked, req>>
    BY <1>7, InsertedByRequests
  <2>2. NoneBegins
    <3>1. CASE UNCHANGED <<status, row>>
      BY <2>1, <3>1 DEF NoneBegins
    <3>2. ASSUME NEW j, NEW m \in QueuedMoves, Moves(j, m[1], m[2]), UNCHANGED row
          PROVE  NoneBegins
      BY <2>1, <3>2, MovesBeginNone DEF RowsInv, QueuedMoves, Active
    <3>3. CASE \E w \in Workers : Work(w) \/ WorkerLost(w)
      BY <3>1, <3>2, <3>3, WorkerMoves DEF RowsInv
    <3>4. CASE (\E p \in Portfolios : WindowUsed(p) \/ WindowEnds(p)) \/ UNCHANGED vars
      BY <3>1, <3>4 DEF WindowUsed, WindowEnds, vars
    <3>5. QED
      BY <1>7, <3>3, <3>4 DEF Next
  <2>3. QED
    BY <1>1, <2>1, <2>2
<1>8. QED
  BY <1>4, <1>5, <1>6, <1>7

(* Whatever API threads look and insert at once, a refresh is doubled only   *)
(* by a request that had looked before the other was inserted: the look of   *)
(* _queue_market_data_refresh and its siblings overlooks nothing else        *)
(* through requeues, re-pushed messages and stops of threads and worker.     *)
THEOREM RefreshesOverlap ==
  ASSUME OneWorker, PushesSucceed
  PROVE  Spec => []NoRefreshOverlooked
<1>1. Init => LooksInv
  BY DEF Init, LooksInv, SeenKnown, NoneMissed, NoRefreshOverlooked, IdleRequest, Active
<1>2. RowsInv /\ LooksInv /\ [Next]_vars => LooksInv'
  BY LooksStep
<1>3. LooksInv => NoRefreshOverlooked
  BY DEF LooksInv
<1>4. QED
  BY <1>1, <1>2, <1>3, RowsAlways, PTL DEF Spec
=============================================================================
