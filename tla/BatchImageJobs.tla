--------------------------- MODULE BatchImageJobs ---------------------------
(***************************************************************************)
(* One batch image job and everybody who touches it: Submit, the client's  *)
(* repetition of it and Cancel (HTTP handlers), the recovery of jobs that  *)
(* were not submitted, and the workers, which poll the provider, index its *)
(* output and settle the hold.  The job's row, the hold and the queue are  *)
(* in different stores; a step is one transaction, script or provider call.*)
(***************************************************************************)
EXTENDS BalanceHolds, BatchQueue, FiniteSets

CONSTANTS Costs,       \* what the provider's output may cost
          MaxRetries,  \* batchImageSettlementMaxRetries
          FaultKinds,  \* faults that may happen, see AllFaults
          MaxFaults    \* bound on the number of faults in a behaviour

\* db, redis: a call fails and has no effect; commit: the transaction was done
\* and its answer is lost; provider: a call of the provider fails; crash: the
\* process of a handler or of the recovery dies, or the client disconnects;
\* worker: a worker's process dies; lapse: a heartbeat fails for so long that
\* what it keeps fresh expires; early: the client cancels a batch before
\* Submit has reserved its hold.
AllFaults == {"db", "redis", "commit", "provider", "crash", "worker", "lapse",
              "early"}

ASSUME JobAssumption ==
    /\ Costs \subseteq Nat
    /\ MaxRetries \in Nat \ {0}
    /\ FaultKinds \subseteq AllFaults
    /\ MaxFaults \in Nat

VARIABLES
    job,       \* row of batch_image_jobs
    upstream,  \* the provider's batch and what its output costs
    sub,       \* where Submit is
    can,       \* where Cancel is
    rec,       \* where ReleaseStaleUnsubmittedOnce is
    wk,        \* workers: step, status read, and the provider's answer
    hit,       \* history: kinds of the faults that happened
    faults     \* faults still allowed

actorVars == <<sub, can, rec, wk>>
vars == <<holdVars, queueVars, job, upstream, actorVars, hit, faults>>

Unsubmitted == {"created", "uploading"}
Terminal    == {"completed", "failed", "cancelled"}
Statuses    == Unsubmitted \cup Terminal \cup
               {"none", "submitted", "running", "indexing", "settling"}
Live        == {"queued", "running"}
Ended       == {"succeeded", "failed", "cancelled"}
Answers     == Live \cup Ended

SubSteps == {"idle", "reserve", "items", "upload", "provider", "name",
             "enqueue", "queueFailed", "release", "releaseOnly",
             "releaseFailed", "retry", "fail", "hide", "abort", "done"}
CanSteps == {"idle", "provider", "enqueue", "transition", "release", "retry"}
RecSteps == {"idle", "fail", "release", "retry"}
WkSteps  == {"idle", "lock", "route", "process", "poll", "advance", "index",
             "settling", "unusable", "release", "settle", "capture", "record",
             "exhaust", "releaseFailed", "giveUp", "recheck", "mark", "ack",
             "requeue", "unlock"}

\* named: provider_job_name is set; hidden: user_deleted_at is set; fresh:
\* updated_at is after the recovery's cutoff; retry: retry_count, counts above
\* MaxRetries not told apart; settleErr: last_error_code starts SETTLEMENT_.
Jobs == [status : Statuses, named : BOOLEAN, hidden : BOOLEAN, fresh : BOOLEAN,
         retry : 0 .. MaxRetries, settleErr : BOOLEAN]

\* Type correctness of the stores and of every actor.
TypeOK ==
    /\ HoldTypeOK /\ QueueTypeOK
    /\ job \in Jobs
    /\ upstream \in [state : Answers \cup {"none"}, cost : Costs \cup {0}]
    /\ sub \in SubSteps /\ can \in CanSteps /\ rec \in RecSteps
    /\ wk \in [Workers -> [pc : WkSteps, answer : Answers]]
    /\ hit \in SUBSET AllFaults
    /\ faults \in 0 .. MaxFaults

NewJob == [status |-> "none", named |-> FALSE, hidden |-> FALSE,
           fresh |-> TRUE, retry |-> 0, settleErr |-> FALSE]

\* Nothing yet, or what Submit left when its process died before it called
\* the provider.
Init ==
    /\ \/ HoldInit /\ job = NewJob /\ sub = "idle"
       \/ /\ HoldReserved /\ sub = "done"
          /\ \E s \in Unsubmitted : job = [NewJob EXCEPT !.status = s]
    /\ QueueInit
    /\ upstream = [state |-> "none", cost |-> 0]
    /\ can = "idle" /\ rec = "idle"
    /\ wk = [w \in Workers |-> [pc |-> "idle", answer |-> "queued"]]
    /\ hit = {}
    /\ faults = MaxFaults

-----------------------------------------------------------------------------
(* The row.                                                                *)

NoFault     == UNCHANGED <<hit, faults>>
Fault(kind) == /\ kind \in FaultKinds /\ faults > 0
               /\ faults' = faults - 1 /\ hit' = hit \cup {kind}

\* CanTransitionBatchImageJob, without output_deleted.
Allowed ==
    [s \in Statuses |->
        CASE s = "created"   -> {"uploading", "submitted", "cancelled"}
          [] s = "uploading" -> {"submitted", "cancelled"}
          [] s = "submitted" -> {"running", "indexing", "cancelled"}
          [] s = "running"   -> {"running", "indexing", "cancelled"}
          [] s = "indexing"  -> {"settling"}
          [] s = "settling"  -> {"completed"}
          [] OTHER           -> {}]

CanTransition_mapOnly(to) ==
    \/ to \in Allowed[job.status]
    \/ to = "failed" /\ job.status \in {"submitted", "running"}

CanTransition(to) ==
    to \in Allowed[job.status] \/ (to = "failed" /\ job.status \notin Terminal)

\* TransitionBatchImageJobStatus, and the UPDATEs that stamp updated_at.
MoveTo(to) == job' = [job EXCEPT !.status = to, !.fresh = TRUE]

\* RecordBatchImageJobSubmitFailure, whatever the status is.
RecordFailure ==
    job' = [job EXCEPT !.status = "failed", !.fresh = TRUE,
                       !.settleErr = FALSE]

SameJob  == UNCHANGED <<job, upstream>>
SubStep(next) == sub' = next /\ UNCHANGED <<can, rec, wk>>
CanStep(next) == can' = next /\ UNCHANGED <<sub, rec, wk>>
RecStep(next) == rec' = next /\ UNCHANGED <<sub, can, wk>>
WkStep(w, next) == /\ wk' = [wk EXCEPT ![w].pc = next]
                   /\ UNCHANGED <<sub, can, rec>>

\* releaseBatchImageBalanceHold in a handler: ok goes on, bad after an error.
ReleaseHold(ok, bad) ==
    /\ \/ Release /\ ok /\ NoFault
       \/ ReleaseFails /\ UNCHANGED holdVars /\ bad /\ NoFault
       \/ UNCHANGED holdVars /\ bad /\ Fault("db")
       \/ Release /\ bad /\ Fault("commit")
    /\ UNCHANGED queueVars /\ SameJob

\* Enqueue in a handler; a batch that is already queued is no error.
EnqueueJob(ok, bad) ==
    /\ \/ Enqueue /\ ok /\ NoFault
       \/ UNCHANGED queueVars /\ bad /\ Fault("redis")
    /\ UNCHANGED holdVars /\ SameJob

-----------------------------------------------------------------------------
(* Submit.                                                                 *)

CreateJob ==
    /\ sub = "idle" /\ job.status = "none"
    /\ MoveTo("created") /\ SubStep("reserve") /\ NoFault
    /\ UNCHANGED <<holdVars, queueVars, upstream>>

ReserveBalance ==
    /\ sub = "reserve"
    /\ \/ Reserve /\ SubStep("items") /\ NoFault
       \/ ~EnoughBalance /\ UNCHANGED holdVars /\ SubStep("fail") /\ NoFault
       \/ UNCHANGED holdVars /\ SubStep("fail") /\ Fault("db")
       \/ Reserve /\ SubStep("fail") /\ Fault("commit")
    /\ UNCHANGED queueVars /\ SameJob

CreatePendingItems ==
    /\ sub = "items"
    /\ \/ SubStep("upload") /\ NoFault
       \/ SubStep("release") /\ Fault("db")
    /\ UNCHANGED <<holdVars, queueVars>> /\ SameJob

\* A batch cancelled meanwhile keeps its status.
BeginUpload ==
    /\ sub = "upload"
    /\ \/ CanTransition("uploading") /\ MoveTo("uploading")
          /\ \/ SubStep("provider") /\ NoFault
             \/ SubStep("release") /\ Fault("commit")
       \/ ~CanTransition("uploading") /\ UNCHANGED job
          /\ SubStep("releaseOnly") /\ NoFault
       \/ UNCHANGED job /\ SubStep("release") /\ Fault("db")
    /\ UNCHANGED <<holdVars, queueVars, upstream>>

\* runSubmitHeartbeat, while the provider is called.
TouchSubmitting ==
    /\ sub = "provider" /\ ~job.fresh /\ job.status \in Unsubmitted
    /\ job' = [job EXCEPT !.fresh = TRUE] /\ NoFault
    /\ UNCHANGED <<holdVars, queueVars, upstream, actorVars>>

\* An error may hide that the provider has accepted the batch.
ProviderSubmit ==
    /\ sub = "provider"
    /\ \/ upstream' = [upstream EXCEPT !.state = "queued"]
          /\ \/ SubStep("name") /\ NoFault
             \/ SubStep("release") /\ Fault("provider")
       \/ UNCHANGED upstream /\ SubStep("release") /\ Fault("provider")
    /\ UNCHANGED <<holdVars, queueVars, job>>

UpdateProviderSubmit ==
    /\ sub = "name"
    /\ \/ /\ CanTransition("submitted")
          /\ job' = [job EXCEPT !.status = "submitted", !.named = TRUE,
                                !.fresh = TRUE]
          /\ \/ SubStep("enqueue") /\ NoFault
             \/ SubStep("abort") /\ Fault("commit")
       \/ ~CanTransition("submitted") /\ UNCHANGED job /\ SubStep("abort")
          /\ NoFault
       \/ UNCHANGED job /\ SubStep("abort") /\ Fault("db")
    /\ UNCHANGED <<holdVars, queueVars, upstream>>

EnqueueSubmitted ==
    sub = "enqueue" /\ EnqueueJob(SubStep("done"), SubStep("queueFailed"))

\* The provider's Cancel: a batch that has ended stays as it is.
CancelUpstream ==
    upstream' =
        [upstream EXCEPT !.state = IF @ \in Live THEN "cancelled" ELSE @]

AbortOrphanProviderJob ==
    /\ sub = "abort" /\ SubStep("done")
    /\ \/ CancelUpstream /\ NoFault
       \/ UNCHANGED upstream /\ Fault("provider")
    /\ UNCHANGED <<holdVars, queueVars, job>>

ReleaseFailedSubmitHold ==
    \/ /\ sub = "release"
       /\ ReleaseHold(SubStep("fail"), SubStep("releaseFailed"))
    \/ /\ sub = "releaseOnly"
       /\ ReleaseHold(SubStep("done"), SubStep("releaseFailed"))

\* RecordBatchImageJobSubmitFailure; its error is ignored.
RecordSubmitFailure ==
    /\ \/ sub = "fail" /\ SubStep("hide")
       \/ sub = "releaseFailed" /\ SubStep("retry")
    /\ ((RecordFailure /\ NoFault) \/ (UNCHANGED job /\ Fault("db")))
    /\ UNCHANGED <<holdVars, queueVars, upstream>>

\* The same with markFailed false, after the queue has failed.
RecordQueueFailure ==
    /\ sub = "queueFailed" /\ SubStep("done")
    /\ \/ job' = [job EXCEPT !.fresh = TRUE, !.settleErr = FALSE] /\ NoFault
       \/ UNCHANGED job /\ Fault("db")
    /\ UNCHANGED <<holdVars, queueVars, upstream>>

EnqueueBillingRetry ==
    sub = "retry" /\ EnqueueJob(SubStep("done"), SubStep("done"))

\* MarkBatchImageJobUserDeleted: only a batch that has ended.
MarkUserDeleted ==
    \/ /\ job.status \in Terminal /\ ~job.hidden
       /\ job' = [job EXCEPT !.hidden = TRUE, !.fresh = TRUE] /\ NoFault
    \/ (job.status \notin Terminal \/ job.hidden) /\ UNCHANGED job /\ NoFault
    \/ UNCHANGED job /\ Fault("db")

HidePreUpstreamSubmitFailure ==
    /\ sub = "hide" /\ SubStep("done") /\ MarkUserDeleted
    /\ UNCHANGED <<holdVars, queueVars, upstream>>

\* The client deletes the record of a batch that has ended.
DeleteRecord ==
    /\ job.status \in Terminal /\ ~job.hidden
    /\ job' = [job EXCEPT !.hidden = TRUE, !.fresh = TRUE] /\ NoFault
    /\ UNCHANGED <<holdVars, queueVars, upstream, actorVars>>

\* The client repeats Submit with its idempotency key: a submitted batch is
\* enqueued once more.
Resubmit ==
    /\ sub = "done" /\ job.status = "submitted"
    /\ SubStep("enqueue") /\ NoFault
    /\ UNCHANGED <<holdVars, queueVars>> /\ SameJob

CrashSubmit ==
    /\ sub \notin {"idle", "done"} /\ SubStep("done") /\ Fault("crash")
    /\ UNCHANGED <<holdVars, queueVars>> /\ SameJob

Submit ==
    \/ CreateJob \/ ReserveBalance \/ CreatePendingItems \/ BeginUpload
    \/ ProviderSubmit \/ UpdateProviderSubmit \/ EnqueueSubmitted
    \/ AbortOrphanProviderJob \/ ReleaseFailedSubmitHold \/ RecordSubmitFailure
    \/ RecordQueueFailure \/ EnqueueBillingRetry
    \/ HidePreUpstreamSubmitFailure

-----------------------------------------------------------------------------
(* Cancel.                                                                 *)

\* Cancel reads the job: release what has ended, ask the provider when the
\* batch has a name there, cancel it here when it has none.
CancelRead ==
    /\ can = "idle" /\ job.status # "none" /\ ~job.hidden
    /\ \/ job.status \in {"failed", "cancelled"} /\ CanStep("release")
       \/ /\ job.status \notin Terminal \cup {"settling"}
          /\ CanStep(IF job.named THEN "provider" ELSE "transition")
    /\ ((sub # "reserve" /\ NoFault) \/ (sub = "reserve" /\ Fault("early")))
    /\ UNCHANGED <<holdVars, queueVars>> /\ SameJob

CancelProvider ==
    /\ can = "provider"
    /\ \/ CancelUpstream /\ CanStep("enqueue") /\ NoFault
       \/ UNCHANGED upstream /\ CanStep("idle") /\ Fault("provider")
    /\ UNCHANGED <<holdVars, queueVars, job>>

CancelEnqueue ==
    can = "enqueue" /\ EnqueueJob(CanStep("idle"), CanStep("idle"))

CancelTransition ==
    /\ can = "transition"
    /\ \/ CanTransition("cancelled") /\ MoveTo("cancelled")
          /\ \/ CanStep("release") /\ NoFault
             \/ CanStep("idle") /\ Fault("commit")
       \/ ~CanTransition("cancelled") /\ UNCHANGED job /\ CanStep("idle")
          /\ NoFault
       \/ UNCHANGED job /\ CanStep("idle") /\ Fault("db")
    /\ UNCHANGED <<holdVars, queueVars, upstream>>

CancelRelease ==
    can = "release" /\ ReleaseHold(CanStep("idle"), CanStep("retry"))

CancelRetry == can = "retry" /\ EnqueueJob(CanStep("idle"), CanStep("idle"))

CrashCancel ==
    /\ can # "idle" /\ CanStep("idle") /\ Fault("crash")
    /\ UNCHANGED <<holdVars, queueVars>> /\ SameJob

Cancel == \/ CancelProvider \/ CancelEnqueue \/ CancelTransition
          \/ CancelRelease \/ CancelRetry

-----------------------------------------------------------------------------
(* ReleaseStaleUnsubmittedOnce.                                            *)

\* updated_at falls behind the cutoff: nobody touches the row any more.
AgeRow ==
    /\ job.fresh /\ job.status \in Unsubmitted
    /\ job' = [job EXCEPT !.fresh = FALSE]
    /\ \/ sub \in {"idle", "done"} /\ NoFault
       \/ sub \notin {"idle", "done"} /\ Fault("lapse")
    /\ UNCHANGED <<holdVars, queueVars, upstream, actorVars>>

StaleUnsubmitted == job.status \in Unsubmitted /\ ~job.named /\ ~job.fresh

ListStaleUnsubmitted ==
    /\ rec = "idle" /\ StaleUnsubmitted /\ RecStep("fail") /\ NoFault
    /\ UNCHANGED <<holdVars, queueVars>> /\ SameJob

\* An error with the UPDATE done skips the release.
FailStaleUnsubmitted_unconditional ==
    /\ rec = "fail"
    /\ MoveTo("failed") /\ RecStep("release") /\ NoFault
    /\ UNCHANGED <<holdVars, queueVars, upstream>>

FailStaleUnsubmitted ==
    /\ rec = "fail"
    /\ \/ StaleUnsubmitted /\ MoveTo("failed")
          /\ \/ RecStep("release") /\ NoFault
             \/ RecStep("idle") /\ Fault("commit")
       \/ ~StaleUnsubmitted /\ UNCHANGED job /\ RecStep("idle") /\ NoFault
       \/ UNCHANGED job /\ RecStep("idle") /\ Fault("db")
    /\ UNCHANGED <<holdVars, queueVars, upstream>>

RecoveryRelease ==
    rec = "release" /\ ReleaseHold(RecStep("idle"), RecStep("retry"))

RecoveryRetry == rec = "retry" /\ EnqueueJob(RecStep("idle"), RecStep("idle"))

CrashRecovery ==
    /\ rec # "idle" /\ RecStep("idle") /\ Fault("crash")
    /\ UNCHANGED <<holdVars, queueVars>> /\ SameJob

Recovery == \/ ListStaleUnsubmitted \/ FailStaleUnsubmitted
            \/ RecoveryRelease \/ RecoveryRetry

-----------------------------------------------------------------------------
(* The worker: RunOnce.                                                    *)

At(w, pc) == wk[w].pc = pc

\* A step of a worker that leaves the hold, or the hold and the row, alone.
OnQueue == UNCHANGED holdVars /\ SameJob
OnJob   == UNCHANGED <<holdVars, queueVars, upstream>>
OnHold  == UNCHANGED queueVars /\ SameJob
OnNone  == UNCHANGED <<holdVars, queueVars>> /\ SameJob

ReserveNext(w) ==
    /\ At(w, "idle") /\ ReserveEntry /\ WkStep(w, "lock") /\ NoFault /\ OnQueue

\* The lock is held by another worker: the entry goes to the delayed set.
AcquireLock(w) ==
    /\ At(w, "lock")
    /\ \/ TryAcquireJobLock(w) /\ WkStep(w, "route")
       \/ lock # None /\ RequeueAfter /\ WkStep(w, "idle")
    /\ NoFault /\ OnQueue

\* BatchImagePipelineProcessor.Process: the first read of the job.
Route(w) ==
    /\ At(w, "route")
    /\ \/ WkStep(w, IF job.status = "settling" THEN "settle" ELSE "process")
          /\ NoFault
       \/ WkStep(w, "requeue") /\ Fault("db")
    /\ OnNone

\* BatchImageProviderProcessor.Process: the second read.
Process(w) ==
    /\ At(w, "process")
    /\ \/ job.status \in {"failed", "cancelled"} /\ WkStep(w, "release")
          /\ NoFault
       \/ job.status \in {"settling", "completed"} /\ WkStep(w, "ack")
          /\ NoFault
       \/ job.status = "indexing" /\ WkStep(w, "index") /\ NoFault
       \/ /\ job.status \notin Terminal \cup {"settling", "indexing"}
          /\ WkStep(w, IF job.named THEN "poll" ELSE "requeue") /\ NoFault
       \/ WkStep(w, "requeue") /\ Fault("db")
    /\ OnNone

\* provider.Get.
Poll(w) ==
    /\ At(w, "poll")
    /\ \/ /\ wk' = [wk EXCEPT ![w] =
                [pc     |-> IF upstream.state = "queued" THEN "requeue"
                            ELSE "advance",
                 answer |-> upstream.state]]
          /\ UNCHANGED <<sub, can, rec>> /\ NoFault
       \/ WkStep(w, "requeue") /\ Fault("provider")
    /\ OnNone

StatusOf == [a \in Answers |-> CASE a = "succeeded" -> "indexing"
                                 [] a = "failed"    -> "failed"
                                 [] a = "cancelled" -> "cancelled"
                                 [] OTHER           -> "running"]
After    == [a \in Answers |-> CASE a = "succeeded" -> "index"
                                 [] a \in {"failed", "cancelled"} -> "release"
                                 [] OTHER           -> "requeue"]

\* A transition of the row in a worker: on to ok, or requeue on an error.
Transition(w, to, ok) ==
    /\ \/ CanTransition(to) /\ MoveTo(to)
          /\ \/ WkStep(w, ok) /\ NoFault
             \/ WkStep(w, "requeue") /\ Fault("commit")
       \/ ~CanTransition(to) /\ UNCHANGED job /\ WkStep(w, "requeue")
          /\ NoFault
       \/ UNCHANGED job /\ WkStep(w, "requeue") /\ Fault("db")
    /\ OnJob

Advance(w) ==
    /\ At(w, "advance")
    /\ Transition(w, StatusOf[wk[w].answer], After[wk[w].answer])

\* BatchImageResultIndexer.Index: the output may not be there yet or cannot be
\* used; ReplaceBatchImageItemsForJob only rebuilds a job that is indexing.
Index(w) ==
    /\ At(w, "index")
    /\ \/ WkStep(w, IF job.status = "indexing" THEN "settling" ELSE "requeue")
          /\ NoFault
       \/ WkStep(w, "unusable") /\ NoFault
       \/ WkStep(w, "requeue") /\ Fault("provider")
    /\ OnNone

ToSettling(w) == At(w, "settling") /\ Transition(w, "settling", "requeue")

IndexingFailed(w) == At(w, "unusable") /\ Transition(w, "failed", "release")

ReleaseTerminalHold(w) ==
    At(w, "release") /\ ReleaseHold(WkStep(w, "ack"), WkStep(w, "requeue"))

-----------------------------------------------------------------------------
(* BatchImageSettlementService.Settle.                                     *)

Exhausted == job.retry >= MaxRetries /\ job.settleErr

Settle(w) ==
    /\ At(w, "settle")
    /\ \/ job.status = "completed" /\ WkStep(w, "ack") /\ NoFault
       \/ job.status \notin {"settling", "completed"} /\ WkStep(w, "requeue")
          /\ NoFault
       \/ job.status = "settling" /\ Exhausted /\ WkStep(w, "exhaust")
          /\ NoFault
       \/ /\ job.status = "settling" /\ ~Exhausted
          /\ WkStep(w, IF upstream.cost > Hold THEN "record" ELSE "capture")
             /\ NoFault
       \/ WkStep(w, "requeue") /\ Fault("db")
    /\ OnNone

CaptureHold_tolerant(w) ==
    /\ At(w, "capture")
    /\ \/ Capture(upstream.cost) /\ WkStep(w, "mark") /\ NoFault
       \/ UNCHANGED holdVars /\ WkStep(w, "mark") /\ Fault("db")
    /\ OnHold

CaptureHold(w) ==
    /\ At(w, "capture")
    /\ \/ Capture(upstream.cost) /\ WkStep(w, "mark") /\ NoFault
       \/ CaptureFails(upstream.cost) /\ UNCHANGED holdVars
          /\ WkStep(w, "record") /\ NoFault
       \/ UNCHANGED holdVars /\ WkStep(w, "record") /\ Fault("db")
       \/ Capture(upstream.cost) /\ WkStep(w, "record") /\ Fault("commit")
    /\ OnHold

\* SetBatchImageJobSettlementFailed, whatever the status is.
CountRetry ==
    job' = [job EXCEPT !.retry = IF @ < MaxRetries THEN @ + 1 ELSE @,
                       !.settleErr = TRUE, !.fresh = TRUE]

\* recordSettlementFailure; an error of it is only logged.  Only an error of
\* the capture makes the pipeline read the job again.
RecordSettlementFailure(w) ==
    LET onError == IF upstream.cost > Hold THEN "requeue" ELSE "recheck" IN
    /\ At(w, "record")
    /\ \/ CountRetry /\ NoFault
          /\ WkStep(w, IF job'.retry >= MaxRetries THEN "exhaust" ELSE onError)
       \/ UNCHANGED job /\ Fault("db") /\ WkStep(w, onError)
    /\ OnJob

\* failExhaustedSettlement: give the hold back, then fail the job.
ExhaustRelease(w) ==
    /\ At(w, "exhaust")
    /\ ReleaseHold(WkStep(w, "giveUp"), WkStep(w, "releaseFailed"))

ReleaseFailed(w) ==
    /\ At(w, "releaseFailed") /\ WkStep(w, "recheck")
    /\ ((CountRetry /\ NoFault) \/ (UNCHANGED job /\ Fault("db")))
    /\ OnJob

GiveUp(w) == At(w, "giveUp") /\ Transition(w, "failed", "recheck")

\* After ErrBatchImageSettlementBillingFailed the job is read again.
Recheck(w) ==
    /\ At(w, "recheck")
    /\ \/ WkStep(w, IF job.status \in Terminal THEN "ack" ELSE "requeue")
          /\ NoFault
       \/ WkStep(w, "requeue") /\ Fault("db")
    /\ OnNone

\* MarkBatchImageJobSettled.
MarkSettled(w) ==
    /\ At(w, "mark")
    /\ \/ job.status = "settling" /\ MoveTo("completed")
          /\ \/ WkStep(w, "ack") /\ NoFault
             \/ WkStep(w, "requeue") /\ Fault("commit")
       \/ job.status # "settling" /\ UNCHANGED job /\ WkStep(w, "requeue")
          /\ NoFault
       \/ UNCHANGED job /\ WkStep(w, "requeue") /\ Fault("db")
    /\ OnJob

\* Ack or RequeueAfter, then the deferred release of the lock.
Finish(w) ==
    /\ \/ At(w, "ack") /\ AckEntry /\ NoFault
       \/ At(w, "requeue") /\ RequeueAfter /\ NoFault
       \/ wk[w].pc \in {"ack", "requeue"} /\ UNCHANGED queueVars
          /\ Fault("redis")
    /\ WkStep(w, "unlock") /\ OnQueue

Unlock(w) ==
    /\ At(w, "unlock") /\ ReleaseLock(w) /\ WkStep(w, "idle") /\ NoFault
       /\ OnQueue

CrashWorker(w) ==
    /\ ~At(w, "idle") /\ WkStep(w, "idle") /\ AbandonLock(w) /\ Fault("worker")
    /\ OnQueue

Work(w) ==
    \/ ReserveNext(w) \/ AcquireLock(w) \/ Route(w) \/ Process(w) \/ Poll(w)
    \/ Advance(w) \/ Index(w) \/ ToSettling(w) \/ IndexingFailed(w)
    \/ ReleaseTerminalHold(w) \/ Settle(w) \/ CaptureHold(w)
    \/ RecordSettlementFailure(w) \/ ExhaustRelease(w) \/ ReleaseFailed(w)
    \/ GiveUp(w) \/ Recheck(w) \/ MarkSettled(w) \/ Finish(w) \/ Unlock(w)

-----------------------------------------------------------------------------
(* The queue's own jobs, the clock and the provider.                       *)

QueueStep == UNCHANGED <<holdVars, job, upstream, actorVars>>

DelayedMover == MoveDueDelayedToReady /\ NoFault /\ QueueStep

StaleActiveRecovery == RecoverStaleActive /\ NoFault /\ QueueStep

Busy(w) == wk[w].pc # "idle"

\* runJobHeartbeat keeps the active entry and the lock while a worker runs.
ActiveAges ==
    /\ AgeActive /\ QueueStep
    /\ \/ (\A w \in Workers : ~Busy(w)) /\ NoFault
       \/ (\E w \in Workers : Busy(w)) /\ Fault("lapse")

LockExpires ==
    /\ DropLock /\ QueueStep
    /\ ((lock = Lost /\ NoFault) \/ (lock # Lost /\ Fault("lapse")))

\* The provider runs and ends the batch.
UpstreamMoves ==
    /\ upstream.state \in Live /\ NoFault
    /\ \/ /\ upstream.state = "queued"
          /\ upstream' = [upstream EXCEPT !.state = "running"]
       \/ upstream' = [upstream EXCEPT !.state = "failed"]
       \/ \E c \in Costs : upstream' = [state |-> "succeeded", cost |-> c]
    /\ UNCHANGED <<holdVars, queueVars, job, actorVars>>

Next ==
    \/ Submit \/ TouchSubmitting \/ Resubmit \/ CrashSubmit \/ DeleteRecord
    \/ CancelRead \/ Cancel \/ CrashCancel
    \/ AgeRow \/ Recovery \/ CrashRecovery
    \/ \E w \in Workers : Work(w) \/ CrashWorker(w)
    \/ DelayedMover \/ StaleActiveRecovery \/ ActiveAges \/ LockExpires
    \/ UpstreamMoves

\* Handlers that started go on, the loops of the runtime run, time passes and
\* the provider ends every batch; nobody has to submit, repeat or cancel.
Fairness ==
    /\ WF_vars(Submit) /\ WF_vars(Cancel)
    /\ WF_vars(AgeRow /\ sub = "done") /\ WF_vars(Recovery)
    /\ \A w \in Workers : WF_vars(Work(w))
    /\ WF_vars(DelayedMover) /\ WF_vars(StaleActiveRecovery)
    /\ WF_vars(ActiveAges) /\ WF_vars(LockExpires)
    /\ WF_vars(UpstreamMoves)

Spec == Init /\ [][Next]_vars
FairSpec == Spec /\ Fairness

-----------------------------------------------------------------------------
(* Properties.                                                             *)

\* No COMMIT was lost and no heartbeat lapsed, and no more calls failed than a
\* settlement is retried.  More of them can use up the retries of a settlement
\* whose capture is done: failExhaustedSettlement then gives the hold back too.
Calm ==
    /\ hit \cap {"commit", "lapse"} = {}
    /\ MaxFaults - faults <= MaxRetries

\* The user's frozen balance is the hold of the other batches and of this one
\* while it is open: a batch never gives back, or keeps, another batch's money
\* (releaseUsageBillingBatchImageBalance: no "phantom release").  A COMMIT
\* whose answer is lost on the last capture, or a worker whose lock lapsed,
\* can capture and release one hold.
FrozenIsOpenHolds ==
    Calm => purse.frozen = Other + (IF HoldOpen THEN Hold ELSE 0)

\* Who completed is charged, who failed or was cancelled is not: the capture
\* and the status agree although they are written by separate transactions
\* (Settle, failExhaustedSettlement, Cancel, the recovery).
ChargedIffCompleted ==
    Calm =>
        /\ job.status = "completed" => "capture" \in moved
        /\ job.status \in {"failed", "cancelled"} => "capture" \notin moved

\* No hold is given back while the provider works on its batch, whatever the
\* recovery, a repeated Submit, the workers and the compensations of their
\* errors have read before: only Cancel does so, whose client may cancel a
\* batch that is being submitted (Cancel decides on the row it read first).
RunningIsNotRefunded ==
    "release" \in moved /\ job.named /\ upstream.state \in Live =>
        job.status = "cancelled"

\* Failures of statements and of workers; a handler that dies, a queue that fails,
\* or a lost COMMIT may leave a hold nobody settles.
Benign == {"db", "provider", "worker"}

\* Every hold is captured or given back in the end.
EveryHoldEnds == HoldOpen ~> (~HoldOpen \/ ~(hit \subseteq Benign))
=============================================================================
