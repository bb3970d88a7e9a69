---------------------------- MODULE Idempotency ----------------------------
(***************************************************************************)
(* IdempotencyCoordinator.Execute: the requests that carry one idempotency *)
(* key in one scope, some with another payload, served by any number of    *)
(* processes over the row of IdempotencyRecords.  A step is one statement  *)
(* on the table, the execution of the operation, or (mode "atomic") the    *)
(* transaction that holds both.                                            *)
(*                                                                         *)
(* A response body is known by the request whose execution produced it.    *)
(* Requests without a key, which are executed as they are, and the missing *)
(* coordinator are left out: they keep no state.                           *)
(***************************************************************************)
EXTENDS IdempotencyRecords, FiniteSets

CONSTANTS Requests,    \* requests with the key
          Payload,     \* the fingerprint of each request
          Modes,       \* how the route executes, see AllModes
          Lease,       \* ProcessingTimeout
          TTL,         \* life of a record, DefaultTTL or the route's own
          Backoff,     \* FailedRetryBackoff
          FaultKinds,  \* faults that may happen, see AllFaults
          MaxFaults,   \* bound on the number of faults in a behaviour
          MaxTime      \* bound on the clock

\* plain: execute, then record; atomic: AtomicSuccess; renewed: ExecutionTimeout.
AllModes == {"plain", "atomic", "renewed"}

\* crash: the process of a request dies; error: a statement fails, perhaps after
\* it was done; stall: a request needs longer than Lease to claim the row.
AllFaults == {"crash", "error", "stall"}

ASSUME IdempotencyAssumption ==
    /\ IsFiniteSet(Requests)
    /\ None \notin Requests
    /\ Modes \subseteq AllModes
    /\ Lease \in Nat \ {0}
    /\ TTL \in Nat /\ TTL > Lease
    /\ Backoff \in Nat
    /\ FaultKinds \subseteq AllFaults
    /\ MaxFaults \in Nat
    /\ MaxTime \in Nat \ {0}

VARIABLES
    mode,      \* the mode of the route
    req,       \* what each request knows
    applied,   \* history: requests whose execution took effect
    promised,  \* history: expiry of the last success that was recorded
    repeated,  \* history: something was claimed before promised was over
    stalled,   \* history: a request needed longer than Lease to claim the row
    faults     \* faults still allowed

vars == <<row, nextId, clock, mode, req, applied, promised, repeated,
          stalled, faults>>

Claiming  == {"create", "get", "reclaimExpired", "reget", "reclaim"}
Executing == {"run", "mark", "markFailed"}
Steps     == Claiming \cup Executing \cup {"idle", "recover", "done"}

\* What the client is told; "none" while there is no answer.
Answers == {"none", "ok", "replayed", "conflict", "inProgress", "failed",
            "unavailable"}

\* now: time.Now() at the start; id: record.ID; from: the status read;
\* expiresAt: written with the result; renewing: the renewal goroutine.
Requested ==
    [pc : Steps, now : Nat, id : Nat, from : Statuses, expiresAt : Nat,
     renewing : BOOLEAN, answer : Answers, data : Requests \cup {None}]

Idle == [pc |-> "idle", now |-> 0, id |-> 0, from |-> "none", expiresAt |-> 0,
         renewing |-> FALSE, answer |-> "none", data |-> None]

\* Type correctness of the row and the requests; who executes knows its record.
TypeOK ==
    /\ row \in Rows({Payload[r] : r \in Requests}, Requests)
    /\ nextId \in 1 .. Cardinality(Requests) + 1
    /\ clock \in 1 .. MaxTime
    /\ mode \in Modes
    /\ req \in [Requests -> Requested]
    /\ applied \in SUBSET Requests
    /\ promised \in Nat
    /\ repeated \in BOOLEAN
    /\ stalled \in BOOLEAN
    /\ faults \in 0 .. MaxFaults
    /\ row = NoRow <=> row.id = 0
    /\ \A r \in Requests :
          req[r].pc \in Executing => req[r].id \in 1 .. nextId - 1

Init ==
    /\ RecordInit
    /\ mode \in Modes
    /\ req = [r \in Requests |-> Idle]
    /\ applied = {} /\ promised = 0 /\ repeated = FALSE /\ stalled = FALSE
    /\ faults = MaxFaults

-----------------------------------------------------------------------------
At(r, pc) == req[r].pc = pc
Live(r)   == req[r].pc \notin {"idle", "done"}

NoFault     == UNCHANGED <<stalled, faults>>
Fault(kind) ==
    /\ kind \in FaultKinds /\ faults > 0
    /\ faults' = faults - 1
    /\ stalled' = (stalled \/ kind = "stall")

Goto(r, pc)    == req' = [req EXCEPT ![r].pc = pc]
SameHistory    == UNCHANGED <<applied, promised, repeated>>

\* Execute returns; the deferred stopRenewal ends the renewal.
Answer(r, answer, data) ==
    req' = [req EXCEPT ![r].pc = "done", ![r].renewing = FALSE,
                       ![r].answer = answer, ![r].data = data]

Refuse(r, answer) == Answer(r, answer, None)

\* The request owns the record with this id and goes on to execute.
Claim(r, id) ==
    /\ req' = [req EXCEPT ![r].pc = "run", ![r].id = id,
                          ![r].expiresAt = req[r].now + TTL,
                          ![r].renewing = (mode = "renewed")]
    /\ repeated' = (repeated \/ promised > clock)
    /\ UNCHANGED <<applied, promised>>

-----------------------------------------------------------------------------
(***************************************************************************)
(* Claiming the record.                                                    *)
(***************************************************************************)

\* The two statements that make a request the owner, with its times.
Inserts(r) ==
    CreateProcessing(Payload[r], req[r].now + Lease, req[r].now + TTL)
TakesOver(r) ==
    TryReclaim(req[r].id, req[r].from, req[r].now,
               req[r].now + Lease, req[r].now + TTL)

\* Execute starts and reads the clock once.
Arrive(r) ==
    /\ At(r, "idle")
    /\ req' = [req EXCEPT ![r].pc = "create", ![r].now = clock]
    /\ UNCHANGED <<row, nextId, clock, mode, stalled, faults>> /\ SameHistory

\* CreateProcessing makes this request the owner, finds a row, or fails.
Create(r) ==
    /\ At(r, "create")
    /\ \/ Inserts(r)
          /\ Claim(r, nextId) /\ NoFault
       \/ row # NoRow /\ Goto(r, "get")
          /\ NoFault /\ SameRow /\ SameHistory
       \/ (Inserts(r) \/ SameRow)
          /\ Refuse(r, "unavailable") /\ Fault("error") /\ SameHistory
    /\ UNCHANGED <<clock, mode>>

\* The switch over the status of a record that is not expired: replay, refuse,
\* or try to take over a failure whose backoff is over.
Dispatch(r) ==
    \/ row.status = "succeeded" /\ Answer(r, "replayed", row.body)
    \/ row.status = "processing" /\ Refuse(r, "inProgress")
    \/ /\ row.status = "failed_retryable" /\ row.lockedUntil > req[r].now
       /\ Refuse(r, "inProgress")
    \/ /\ row.status = "failed_retryable" /\ row.lockedUntil <= req[r].now
       /\ req' = [req EXCEPT ![r].pc = "reclaim", ![r].id = row.id,
                             ![r].from = row.status]

\* The answer to a row that is missing or belongs to another payload.
Mismatch(r) ==
    \/ row = NoRow /\ Refuse(r, "unavailable")
    \/ row # NoRow /\ row.fingerprint # Payload[r] /\ Refuse(r, "conflict")

\* A read that fails, or a stored response that cannot be decoded.
ReadFailed(r) == Refuse(r, "unavailable") /\ Fault("error")

\* GetByScopeAndKeyHash after the insertion found a row.
Get(r) ==
    /\ At(r, "get")
    /\ \/ Mismatch(r) /\ NoFault
       \/ /\ row # NoRow /\ row.fingerprint = Payload[r] /\ NoFault
          /\ \/ row.expiresAt > req[r].now /\ Dispatch(r)
             \/ /\ row.expiresAt <= req[r].now
                /\ req' = [req EXCEPT ![r].pc = "reclaimExpired",
                                      ![r].id = row.id, ![r].from = row.status]
       \/ ReadFailed(r)
    /\ UNCHANGED <<clock, mode>> /\ SameRow /\ SameHistory

\* TryReclaim in two places: of an expired record, where losing means reading
\* the record again, and of a failed one, where it means a conflict.
Reclaim(r, pc) ==
    /\ At(r, pc)
    /\ \/ TakesOver(r)
          /\ Claim(r, req[r].id) /\ NoFault
       \/ /\ ~Reclaimable(req[r].id, req[r].from, req[r].now)
          /\ IF pc = "reclaim" THEN Refuse(r, "inProgress") ELSE Goto(r, "reget")
          /\ NoFault /\ SameRow /\ SameHistory
       \/ (TakesOver(r) \/ SameRow)
          /\ Refuse(r, "unavailable") /\ Fault("error") /\ SameHistory
    /\ UNCHANGED <<clock, mode>>

\* The second read, after an expired record was lost to somebody else.
Reget(r) ==
    /\ At(r, "reget")
    /\ \/ Mismatch(r) /\ NoFault
       \/ row # NoRow /\ row.fingerprint = Payload[r] /\ Dispatch(r) /\ NoFault
       \/ ReadFailed(r)
    /\ UNCHANGED <<clock, mode>> /\ SameRow /\ SameHistory

-----------------------------------------------------------------------------
(***************************************************************************)
(* Executing and recording the result.                                     *)
(***************************************************************************)

\* The record was written: the result is promised until it expires.
Promise(r, expiresAt) ==
    promised' = IF row.id = req[r].id THEN expiresAt ELSE promised

\* execute in plain and renewed mode; in renewed mode the record's expiry is
\* counted from here.
Run(r) ==
    /\ At(r, "run") /\ mode # "atomic"
    /\ \E ok \in BOOLEAN :
          /\ req' = [req EXCEPT
                       ![r].pc = IF ok THEN "mark" ELSE "markFailed",
                       ![r].expiresAt = IF mode = "renewed" THEN clock + TTL
                                                            ELSE @]
          /\ applied' = IF ok THEN applied \cup {r} ELSE applied
    /\ UNCHANGED <<row, nextId, clock, mode, promised, repeated,
                   stalled, faults>>

\* A result that could not be recorded counts as a failure to retry.
Mark_failureIsRetryable(r) ==
    /\ At(r, "mark")
    /\ \/ Answer(r, "ok", r) /\ NoFault
          /\ row' = Succeeded(req[r].id, r, req[r].expiresAt)
          /\ Promise(r, req[r].expiresAt)
       \/ Goto(r, "markFailed") /\ Fault("error") /\ UNCHANGED <<row, promised>>
    /\ UNCHANGED <<nextId, clock, mode, applied, repeated>>

\* MarkSucceeded in plain and renewed mode.
Mark(r) ==
    /\ At(r, "mark")
    /\ \/ Answer(r, "ok", r) /\ NoFault
          /\ row' = Succeeded(req[r].id, r, req[r].expiresAt)
          /\ Promise(r, req[r].expiresAt)
       \/ Refuse(r, "unavailable") /\ Fault("error")
          /\ row' = Succeeded(req[r].id, r, req[r].expiresAt)
          /\ Promise(r, req[r].expiresAt)
       \/ Refuse(r, "unavailable") /\ Fault("error")
          /\ UNCHANGED <<row, promised>>
    /\ UNCHANGED <<nextId, clock, mode, applied, repeated>>

\* markFailedRetryable; the client gets the execution's error either way.
MarkFailed(r) ==
    /\ At(r, "markFailed")
    /\ Refuse(r, "failed")
    /\ \/ /\ row' = FailedRetryable(req[r].id, clock + Backoff, req[r].expiresAt)
          /\ NoFault \/ Fault("error")
       \/ row' = row /\ Fault("error")
    /\ UNCHANGED <<nextId, clock, mode>> /\ SameHistory

\* COMMIT of the operation's writes together with MarkSucceeded.
Commit(r) ==
    /\ applied' = applied \cup {r}
    /\ row' = Succeeded(req[r].id, r, req[r].expiresAt)
    /\ Promise(r, req[r].expiresAt)

\* The transaction of AtomicSuccess: it commits; execute fails and it rolls
\* back; marshalling or MarkSucceeded fails and it rolls back; or COMMIT reports
\* an error, whatever became of it.
Transaction(r) ==
    /\ At(r, "run") /\ mode = "atomic"
    /\ \/ Commit(r) /\ Answer(r, "ok", r) /\ NoFault
       \/ Goto(r, "markFailed") /\ NoFault /\ UNCHANGED <<row, applied, promised>>
       \/ Refuse(r, "unavailable") /\ Fault("error")
          /\ UNCHANGED <<row, applied, promised>>
       \/ Goto(r, "recover") /\ Fault("error")
          /\ (Commit(r) \/ UNCHANGED <<row, applied, promised>>)
    /\ UNCHANGED <<nextId, clock, mode, repeated>>

\* Any success counts as one's own.
Recover_anySuccess(r) ==
    /\ At(r, "recover")
    /\ \/ row.status = "succeeded" /\ Answer(r, "ok", r) /\ NoFault
       \/ row.status # "succeeded" /\ Refuse(r, "unavailable") /\ NoFault
    /\ UNCHANGED <<clock, mode>> /\ SameRow /\ SameHistory

\* atomicCommitSucceeded reads the record back; the post-commit callbacks run
\* with the answer "ok".
Recover(r) ==
    /\ At(r, "recover")
    /\ \/ /\ row.status = "succeeded" /\ row.fingerprint = Payload[r]
          /\ row.body = r
          /\ Answer(r, "ok", r) /\ NoFault
       \/ /\ row.status # "succeeded" \/ row.fingerprint # Payload[r]
             \/ row.body # r
          /\ Refuse(r, "unavailable") /\ NoFault
       \/ ReadFailed(r)
    /\ UNCHANGED <<clock, mode>> /\ SameRow /\ SameHistory

\* One tick of renewProcessingLease: extend, stop when the record is not this
\* payload's any more.  After an error it goes on, which is no step here.
Renew(r) ==
    /\ req[r].renewing
    /\ \/ /\ Extendable(req[r].id, Payload[r])
          /\ row' = Extended(clock + Lease, clock + TTL)
          /\ req' = req /\ NoFault
       \/ /\ ~Extendable(req[r].id, Payload[r]) /\ row' = row
          /\ req' = [req EXCEPT ![r].renewing = FALSE] /\ NoFault
    /\ UNCHANGED <<nextId, clock, mode>> /\ SameHistory

-----------------------------------------------------------------------------
(***************************************************************************)
(* Time, the clean-up and crashes.                                         *)
(***************************************************************************)

Crash(r) ==
    /\ Live(r)
    /\ Refuse(r, "none") /\ Fault("crash")
    /\ UNCHANGED <<clock, mode>> /\ SameRow /\ SameHistory

\* The requests that one more tick makes too slow.
Stalling  == {r \in Requests : req[r].pc \in Claiming
                               /\ clock + 1 >= req[r].now + Lease}
Outliving == {r \in Requests : req[r].pc \in Executing /\ req[r].id = row.id
                               /\ clock + 1 >= row.expiresAt}

\* An execution ends before its record expires: hours, against the seconds or
\* minutes of an operation.
Tick ==
    /\ clock < MaxTime
    /\ clock' = clock + 1
    /\ Outliving = {}
    /\ \/ Stalling = {} /\ NoFault
       \/ Stalling # {} /\ Fault("stall")
    /\ UNCHANGED <<row, nextId, mode, req>> /\ SameHistory

Cleanup ==
    /\ DeleteExpired
    /\ UNCHANGED <<mode, req, stalled, faults>> /\ SameHistory

RequestStep(r) ==
    \/ Arrive(r) \/ Create(r) \/ Get(r) \/ Reclaim(r, "reclaimExpired")
    \/ Reget(r) \/ Reclaim(r, "reclaim") \/ Run(r) \/ Mark(r)
    \/ MarkFailed(r) \/ Transaction(r) \/ Recover(r) \/ Renew(r)

Next ==
    \/ \E r \in Requests : RequestStep(r) \/ Crash(r)
    \/ Tick
    \/ Cleanup

Spec == Init /\ [][Next]_vars

-----------------------------------------------------------------------------
(***************************************************************************)
(* Properties.                                                             *)
(***************************************************************************)

\* The first record is created at 1 or later.
NothingExpired == clock <= TTL

\* Execute, while no record has expired: whatever crashes, fails, stalls or is
\* retried, the operation behind one key takes effect at most once.  A record
\* that stays "processing" after its owner was lost is never executed again,
\* even when its lock has lapsed.
AppliedOnce == NothingExpired => Cardinality(applied) <= 1

\* Execute: as long as requests claim within the lease and executions end within
\* the TTL, at most one request of a key executes at a time, across expiry,
\* clean-up and takeover of the record.
ExecutesAlone ==
    ~stalled =>
        \A p, q \in Requests :
            req[p].pc \in Executing /\ req[q].pc \in Executing => p = q

\* Execute: an answer that carries a result, the first one, a replay or the one
\* recovered after an ambiguous COMMIT, is the result of an execution that took
\* effect, and of the payload the client sent.
AnswersAreApplied ==
    \A r \in Requests :
        req[r].data # None =>
            /\ req[r].data \in applied
            /\ Payload[req[r].data] = Payload[r]

\* The handbook's promise on the TTL: a key is not executed again before the
\* expiry recorded with its last success.
NoRepeatWithinTTL == ~repeated

=============================================================================
