-------------------------- MODULE PromptAuditQueue --------------------------
(***************************************************************************)
(* The queue of the asynchronous prompt audit: Enqueuer.Enqueue stages a   *)
(* job in prompt_audit_jobs, stores the prompt in Redis and publishes the  *)
(* job; the workers of every process claim jobs, scan the prompt chunk by  *)
(* chunk under a lease and record the verdict; ReclaimStale takes jobs     *)
(* from those who stopped.  A step is one statement, one transaction after *)
(* its first lock, or one call of Redis or of the scanner.                 *)
(***************************************************************************)
EXTENDS Naturals, FiniteSets

CONSTANTS Jobs,         \* prompts to audit, each with its Enqueue
          Workers,      \* goroutines of Runner.worker, in any process
          Capacity,     \* cfg.QueueCapacity
          MaxAttempts,  \* max_attempts of a job
          MaxChunks,    \* bound on the chunks of a prompt
          None,         \* no job
          FaultKinds,   \* faults that may happen, see AllFaults
          MaxFaults     \* bound on the number of faults in a behaviour

\* db, redis: a call fails without effect; commit: a statement or transaction
\* is done and its answer lost; crash: an Enqueue or a worker stops, also by
\* the 2 s limit of Enqueue; panic: the scan panics; slow: a live Enqueue or
\* worker is slower than the reclaimer allows.
AllFaults == {"db", "redis", "commit", "crash", "panic", "slow"}

ASSUME AuditAssumption ==
    /\ IsFiniteSet(Jobs)
    /\ None \notin Jobs
    /\ Capacity \in Nat
    /\ MaxAttempts \in Nat \ {0}
    /\ MaxChunks \in Nat \ {0}
    /\ FaultKinds \subseteq AllFaults
    /\ MaxFaults \in Nat

VARIABLES
    job,        \* rows of prompt_audit_jobs
    events,     \* rows of prompt_audit_events, counted per job
    payload,    \* prompts in Redis
    admission,  \* the transaction that holds the admission lock
    enq,        \* where the Enqueue of each job is
    wk,         \* workers: step, the job as claimed, chunks left
    lost,       \* history: a prompt expired, or an answer was lost
    faults      \* faults still allowed

vars == <<job, events, payload, admission, enq, wk, lost, faults>>

Active   == {"staging", "queued", "processing", "retry"}
Statuses == Active \cup {"absent", "done", "failed", "deleted"}
EnqSteps == {"new", "insert", "payload", "publish", "undo", "markFailed",
             "end"}
WkSteps  == {"idle", "get", "refresh", "scan", "complete", "retry", "fail",
             "panic", "delete"}

\* stale: updated_at of a staging job, or processing_started_at of a
\* processing one, is before the reclaimer's cutoff; due: next_attempt_at has
\* come.
Rows == [status : Statuses, attempts : 0 .. MaxAttempts,
         version : 0 .. MaxAttempts, stale : BOOLEAN, due : BOOLEAN]

Claims == [pc : WkSteps, job : Jobs \cup {None}, attempts : 0 .. MaxAttempts,
           version : 0 .. MaxAttempts, left : 0 .. MaxChunks]

NoClaim == [pc |-> "idle", job |-> None, attempts |-> 0, version |-> 0,
            left |-> 0]

\* Type correctness, and the attempts of a job stay within max_attempts.
TypeOK ==
    /\ job \in [Jobs -> Rows]
    /\ events \in [Jobs -> Nat]
    /\ payload \in SUBSET Jobs
    /\ admission \in Jobs \cup {None}
    /\ enq \in [Jobs -> EnqSteps]
    /\ wk \in [Workers -> Claims]
    /\ lost \in BOOLEAN
    /\ faults \in 0 .. MaxFaults

Init ==
    /\ job = [j \in Jobs |-> [status |-> "absent", attempts |-> 0,
                              version |-> 0, stale |-> FALSE, due |-> FALSE]]
    /\ events = [j \in Jobs |-> 0]
    /\ payload = {}
    /\ admission = None
    /\ enq = [j \in Jobs |-> "new"]
    /\ wk = [w \in Workers |-> NoClaim]
    /\ lost = FALSE
    /\ faults = MaxFaults

-----------------------------------------------------------------------------
NoFault     == UNCHANGED <<lost, faults>>
Fault(kind) == /\ kind \in FaultKinds /\ faults > 0
               /\ faults' = faults - 1 /\ lost' = (lost \/ kind = "commit")

Is(j, status)  == job[j].status = status
ActiveJobs     == {j \in Jobs : job[j].status \in Active}
Goto(j, step)  == enq' = [enq EXCEPT ![j] = step]
WkGoto(w, pc)  == wk' = [wk EXCEPT ![w].pc = pc]
WkEnd(w)       == wk' = [wk EXCEPT ![w] = NoClaim]
Become(j, status) == job' = [job EXCEPT ![j].status = status,
                                        ![j].stale = FALSE]

\* An UPDATE of one row, and what follows if it is done, matches nothing (or
\* fails), or is done without its answer.
Update(matches, effect, ok, bad) ==
    \/ matches /\ effect /\ ok /\ NoFault
    \/ ~matches /\ UNCHANGED job /\ bad /\ NoFault
    \/ UNCHANGED job /\ bad /\ Fault("db")
    \/ matches /\ effect /\ bad /\ Fault("commit")

-----------------------------------------------------------------------------
(* Enqueue.                                                                *)

ByEnqueue == UNCHANGED <<events, wk>>

\* CreateStagingWithCapacity: the lock is only tried, and kept to the COMMIT.
TryAdmission(j) ==
    /\ enq[j] = "new"
    /\ \/ /\ admission = None /\ Cardinality(ActiveJobs) < Capacity
          /\ admission' = j /\ Goto(j, "insert")
       \/ /\ admission # None \/ Cardinality(ActiveJobs) >= Capacity
          /\ UNCHANGED admission /\ Goto(j, "end")
    /\ UNCHANGED <<job, payload>> /\ ByEnqueue /\ NoFault

InsertStaging(j) ==
    /\ enq[j] = "insert"
    /\ \/ Become(j, "staging") /\ Goto(j, "payload") /\ NoFault
       \/ Become(j, "staging") /\ Goto(j, "end") /\ Fault("commit")
       \/ UNCHANGED job /\ Goto(j, "end") /\ Fault("db")
    /\ admission' = IF admission = j THEN None ELSE admission
    /\ UNCHANGED payload /\ ByEnqueue

SetPayload(j) ==
    /\ enq[j] = "payload"
    /\ \/ payload' = payload \cup {j} /\ Goto(j, "publish") /\ NoFault
       \/ UNCHANGED payload /\ Goto(j, "markFailed") /\ Fault("redis")
       \/ payload' = payload \cup {j} /\ Goto(j, "markFailed")
          /\ Fault("commit")
    /\ UNCHANGED <<job, admission>> /\ ByEnqueue

PublishQueued_anyStatus(j) ==
    /\ enq[j] = "publish"
    /\ job' = [job EXCEPT ![j].status = "queued", ![j].stale = FALSE,
                          ![j].due = TRUE]
    /\ Goto(j, "end") /\ NoFault
    /\ UNCHANGED <<payload, admission>> /\ ByEnqueue

PublishQueued(j) ==
    /\ enq[j] = "publish"
    /\ Update(Is(j, "staging"),
              job' = [job EXCEPT ![j].status = "queued", ![j].stale = FALSE,
                                 ![j].due = TRUE],
              Goto(j, "end"), Goto(j, "undo"))
    /\ UNCHANGED <<payload, admission>> /\ ByEnqueue

DeletePayload(j) ==
    /\ enq[j] = "undo" /\ Goto(j, "markFailed")
    /\ \/ payload' = payload \ {j} /\ NoFault
       \/ UNCHANGED payload /\ Fault("redis")
    /\ UNCHANGED <<job, admission>> /\ ByEnqueue

MarkStagingFailed(j) ==
    /\ enq[j] = "markFailed"
    /\ Update(Is(j, "staging"), Become(j, "failed"),
              Goto(j, "end"), Goto(j, "end"))
    /\ UNCHANGED <<payload, admission>> /\ ByEnqueue

CrashEnqueue(j) ==
    /\ enq[j] \notin {"new", "end"} /\ Goto(j, "end") /\ Fault("crash")
    /\ admission' = IF admission = j THEN None ELSE admission
    /\ UNCHANGED <<job, payload>> /\ ByEnqueue

Enqueue(j) ==
    \/ TryAdmission(j) \/ InsertStaging(j) \/ SetPayload(j)
    \/ PublishQueued(j) \/ DeletePayload(j) \/ MarkStagingFailed(j)

\* RecordBlocking: a request audited before it is answered leaves a job that
\* is done, and its event; the capacity is not asked.
RecordBlocking(j) ==
    /\ enq[j] = "new" /\ Goto(j, "end")
    /\ Become(j, "done")
    /\ \E n \in {0, 1} : events' = [events EXCEPT ![j] = n]
    /\ UNCHANGED <<payload, admission, wk>> /\ NoFault

-----------------------------------------------------------------------------
(* The worker.                                                             *)

At(w, pc)   == wk[w].pc = pc
Mine(w)     == wk[w].job
ByWorker    == UNCHANGED <<admission, enq>>

\* WHERE status='processing' AND claim_version=$2.
Current(w) ==
    Is(Mine(w), "processing") /\ job[Mine(w)].version = wk[w].version

ClaimNextJob(w) ==
    /\ At(w, "idle")
    /\ \E j \in Jobs :
          /\ job[j].status \in {"queued", "retry"} /\ job[j].due
          /\ job' = [job EXCEPT ![j].status = "processing",
                                ![j].stale = FALSE,
                                ![j].attempts = @ + 1, ![j].version = @ + 1]
          /\ \/ wk' = [wk EXCEPT ![w] =
                   [pc |-> "get", job |-> j, attempts |-> job'[j].attempts,
                    version |-> job'[j].version, left |-> 0]]
                /\ NoFault
             \/ UNCHANGED wk /\ Fault("commit")
    /\ UNCHANGED <<events, payload>> /\ ByWorker

\* finishFailure: retry an error that allows it while attempts are left.
AfterError(w, retryable) ==
    WkGoto(w, IF retryable /\ wk[w].attempts < MaxAttempts THEN "retry"
              ELSE "fail")

\* An error of Redis counts as a prompt that is gone; without endpoints the
\* job is retried.
GetPayload(w) ==
    /\ At(w, "get")
    /\ \/ /\ Mine(w) \in payload /\ NoFault
          /\ \/ \E n \in 1 .. MaxChunks :
                   wk' = [wk EXCEPT ![w].pc = "refresh", ![w].left = n]
             \/ AfterError(w, TRUE)
       \/ Mine(w) \notin payload /\ AfterError(w, FALSE) /\ NoFault
       \/ AfterError(w, FALSE) /\ Fault("redis")
    /\ UNCHANGED <<job, events, payload>> /\ ByWorker

RefreshLease(w) ==
    /\ At(w, "refresh")
    /\ Update(Current(w), job' = [job EXCEPT ![Mine(w)].stale = FALSE],
              WkGoto(w, "scan"), WkEnd(w))
    /\ UNCHANGED <<events, payload>> /\ ByWorker

\* scanWithFailover: a chunk that asks to block ends the scan.
ScanChunk(w) ==
    /\ At(w, "scan")
    /\ \/ /\ wk[w].left > 1 /\ NoFault
          /\ wk' = [wk EXCEPT ![w].pc = "refresh", ![w].left = @ - 1]
       \/ WkGoto(w, "complete") /\ NoFault
       \/ (\E retryable \in BOOLEAN : AfterError(w, retryable)) /\ NoFault
       \/ WkGoto(w, "panic") /\ Fault("panic")
    /\ UNCHANGED <<job, events, payload>> /\ ByWorker

\* The verdict and its event, if it is one to keep, in one transaction.
Complete(w) ==
    /\ At(w, "complete")
    /\ \/ /\ Current(w) /\ Become(Mine(w), "done")
          /\ \E n \in {0, 1} : events' = [events EXCEPT ![Mine(w)] = @ + n]
          /\ \/ WkGoto(w, "delete") /\ NoFault
             \/ WkEnd(w) /\ Fault("commit")
       \/ /\ UNCHANGED <<job, events>> /\ WkEnd(w)
          /\ \/ ~Current(w) /\ NoFault
             \/ Fault("db")
    /\ UNCHANGED payload /\ ByWorker

RetryJob_anyClaim(w) ==
    /\ At(w, "retry")
    /\ Update(Is(Mine(w), "processing"),
              job' = [job EXCEPT ![Mine(w)].status = "retry",
                                 ![Mine(w)].stale = FALSE,
                                 ![Mine(w)].due = FALSE],
              WkEnd(w), WkEnd(w))
    /\ UNCHANGED <<events, payload>> /\ ByWorker

RetryJob(w) ==
    /\ At(w, "retry")
    /\ Update(Current(w),
              job' = [job EXCEPT ![Mine(w)].status = "retry",
                                 ![Mine(w)].stale = FALSE,
                                 ![Mine(w)].due = FALSE],
              WkEnd(w), WkEnd(w))
    /\ UNCHANGED <<events, payload>> /\ ByWorker

FailJob_thenAlwaysDelete(w) ==
    /\ At(w, "fail")
    /\ Update(Current(w), Become(Mine(w), "failed"),
              WkGoto(w, "delete"), WkGoto(w, "delete"))
    /\ UNCHANGED <<events, payload>> /\ ByWorker

FailJob(w) ==
    /\ At(w, "fail")
    /\ Update(Current(w), Become(Mine(w), "failed"),
              WkGoto(w, "delete"), WkEnd(w))
    /\ UNCHANGED <<events, payload>> /\ ByWorker

\* processSafely after a panic: the payload is left to its TTL.
FailPanicked(w) ==
    /\ At(w, "panic")
    /\ Update(Current(w), Become(Mine(w), "failed"), WkEnd(w), WkEnd(w))
    /\ UNCHANGED <<events, payload>> /\ ByWorker

DropPayload(w) ==
    /\ At(w, "delete") /\ WkEnd(w)
    /\ \/ payload' = payload \ {Mine(w)} /\ NoFault
       \/ UNCHANGED payload /\ Fault("redis")
    /\ UNCHANGED <<job, events>> /\ ByWorker

CrashWorker(w) ==
    /\ ~At(w, "idle") /\ WkEnd(w) /\ Fault("crash")
    /\ UNCHANGED <<job, events, payload>> /\ ByWorker

Work(w) ==
    \/ ClaimNextJob(w) \/ GetPayload(w) \/ RefreshLease(w) \/ ScanChunk(w)
    \/ Complete(w) \/ RetryJob(w) \/ FailJob(w) \/ FailPanicked(w)
    \/ DropPayload(w)

-----------------------------------------------------------------------------
(* The reclaimer, the clock, Redis and the administrators.                 *)

ByReclaimer == UNCHANGED <<events, payload, admission, enq, wk>>

StaleJobs_processing == {j \in Jobs : job[j].stale /\ Is(j, "processing")}

StaleJobs ==
    {j \in Jobs : job[j].stale /\ job[j].status \in {"staging", "processing"}}

Reclaimed_alwaysRetried(r) ==
    IF r.status = "staging"
    THEN [r EXCEPT !.status = "failed", !.stale = FALSE]
    ELSE [r EXCEPT !.status = "retry", !.stale = FALSE, !.due = TRUE]

Reclaimed(r) ==
    IF r.status = "processing" /\ r.attempts < MaxAttempts
    THEN [r EXCEPT !.status = "retry", !.stale = FALSE, !.due = TRUE]
    ELSE [r EXCEPT !.status = "failed", !.stale = FALSE]

\* One statement; rows that are locked, or beyond its LIMIT, are left.
ReclaimStale ==
    /\ \E S \in SUBSET StaleJobs \ {{}} :
          job' = [j \in Jobs |-> IF j \in S THEN Reclaimed(job[j]) ELSE job[j]]
    /\ NoFault /\ ByReclaimer

\* Somebody alive works on the job and would keep it fresh.
Attended(j) ==
    \/ Is(j, "staging") /\ enq[j] \in {"payload", "publish", "undo",
                                       "markFailed"}
    \/ \E w \in Workers : Mine(w) = j /\ Current(w)

\* More than 90 s (2 min for staging) pass without a refresh.
LeaseAges(j) ==
    /\ job[j].status \in {"staging", "processing"} /\ ~job[j].stale
    /\ job' = [job EXCEPT ![j].stale = TRUE]
    /\ ((~Attended(j) /\ NoFault) \/ (Attended(j) /\ Fault("slow")))
    /\ ByReclaimer

\* The backoff of a retry passes.
ComeDue(j) ==
    /\ Is(j, "retry") /\ ~job[j].due
    /\ job' = [job EXCEPT ![j].due = TRUE]
    /\ NoFault /\ ByReclaimer

\* The payload's TTL runs out before its job ends.
PayloadExpires(j) ==
    /\ j \in payload /\ payload' = payload \ {j}
    /\ lost' = TRUE /\ UNCHANGED faults
    /\ UNCHANGED <<job, events, admission, enq, wk>>

\* DeleteEventsByIDs: the event, its job and what Redis still has of it.
DeleteEvent(j) ==
    /\ Is(j, "done") /\ events[j] > 0
    /\ Become(j, "deleted")
    /\ events' = [events EXCEPT ![j] = 0]
    /\ payload' = payload \ {j}
    /\ UNCHANGED <<admission, enq, wk>> /\ NoFault

Next ==
    \/ \E j \in Jobs :
          \/ Enqueue(j) \/ CrashEnqueue(j) \/ RecordBlocking(j)
          \/ LeaseAges(j) \/ ComeDue(j) \/ PayloadExpires(j) \/ DeleteEvent(j)
    \/ \E w \in Workers : Work(w) \/ CrashWorker(w)
    \/ ReclaimStale

\* Enqueue and the workers go on, the reclaimer's ticker ticks, time passes.
Fairness ==
    /\ \A j \in Jobs : /\ WF_vars(Enqueue(j))
                       /\ WF_vars(LeaseAges(j)) /\ WF_vars(ComeDue(j))
    /\ \A w \in Workers : WF_vars(Work(w))
    /\ WF_vars(ReclaimStale)

Spec == Init /\ [][Next]_vars
FairSpec == Spec /\ Fairness

-----------------------------------------------------------------------------
(* Properties.                                                             *)

\* A job whose lease is fresh is ended only by the worker that has it: a
\* worker whose claim was reclaimed, and whose scan returns at last, changes
\* nothing of the job (claim_version in Complete, Retry and Fail).
Working(w, j) == Mine(w) = j /\ Current(w)
OnlyTheHolderEnds ==
    [][\A j \in Jobs :
          (Is(j, "processing") /\ ~job[j].stale
             /\ job'[j].status # "processing")
          => \E w \in Workers : Working(w, j) /\ wk'[w] # wk[w]]_vars

\* A job that may still be scanned has its prompt, whoever else gave it up:
\* only a worker whose Fail or Complete was its job's last deletes it.  It can
\* expire, and an Enqueue that never learns that it has published deletes it.
PayloadOutlivesJob ==
    ~lost => \A j \in Jobs :
        job[j].status \in {"queued", "processing", "retry"} => j \in payload

\* The jobs do what AuditJobs promises.
Phase(j) == IF job[j].status \in Active THEN "pending" ELSE job[j].status
Promised == INSTANCE AuditJobs WITH phase <- [j \in Jobs |-> Phase(j)]
ImplementsAuditJobs == Promised!Spec

\* Every job that was admitted ends, done or failed, whatever happens to its
\* Enqueue, its workers, its prompt and the scanner.
EveryJobEnds ==
    \A j \in Jobs : job[j].status \in Active ~> job[j].status \notin Active
=============================================================================
