------------------------- MODULE IdempotencyRecords -------------------------
(***************************************************************************)
(* One row of the table idempotency_records: the row of one scope and key  *)
(* hash, which are unique together.  An operator here is one SQL statement *)
(* of idempotency_repo.go.  The coordinator of idempotent requests         *)
(* (Idempotency) and the global lock of system operations                  *)
(* (SystemOperationLock) are the two users of the table.                   *)
(*                                                                         *)
(* Times are ticks of one clock that starts at 1; 0 is a NULL time, and an *)
(* id of 0 says that there is no row.                                      *)
(***************************************************************************)
EXTENDS Naturals

CONSTANT None  \* a NULL fingerprint or response body

VARIABLES
    row,     \* the row
    nextId,  \* the id sequence
    clock    \* time.Now() of every process

recordVars == <<row, nextId, clock>>

Statuses == {"none", "processing", "succeeded", "failed_retryable"}

NoRow == [id |-> 0, fingerprint |-> None, status |-> "none",
          lockedUntil |-> 0, expiresAt |-> 0, body |-> None]

\* Rows with fingerprints and response bodies of the given sets.
Rows(fingerprints, bodies) ==
    [id : Nat, fingerprint : fingerprints \cup {None}, status : Statuses,
     lockedUntil : Nat, expiresAt : Nat, body : bodies \cup {None}]

RecordInit == row = NoRow /\ nextId = 1 /\ clock = 1

SameRow == UNCHANGED <<row, nextId>>

\* INSERT ... ON CONFLICT DO NOTHING, when it inserts.
CreateProcessing(fingerprint, lockedUntil, expiresAt) ==
    /\ row = NoRow
    /\ row' = [id |-> nextId, fingerprint |-> fingerprint,
               status |-> "processing", lockedUntil |-> lockedUntil,
               expiresAt |-> expiresAt, body |-> None]
    /\ nextId' = nextId + 1

\* The lock is not looked at.
Reclaimable_ignoringLock(id, from, now) == row.id = id /\ row.status = from

\* The WHERE clause of TryReclaim; a NULL locked_until is 0.
Reclaimable(id, from, now) ==
    row.id = id /\ row.status = from /\ row.lockedUntil <= now

\* TryReclaim, when it affects the row.  The fingerprint, the response body
\* and the id stay as they are.
TryReclaim(id, from, now, lockedUntil, expiresAt) ==
    /\ Reclaimable(id, from, now)
    /\ row' = [row EXCEPT !.status = "processing",
                          !.lockedUntil = lockedUntil,
                          !.expiresAt = expiresAt]
    /\ nextId' = nextId

\* The WHERE clause of ExtendProcessingLock.
Extendable(id, fingerprint) ==
    row.id = id /\ row.status = "processing" /\ row.fingerprint = fingerprint

\* The row as ExtendProcessingLock leaves it.
Extended(lockedUntil, expiresAt) ==
    [row EXCEPT !.lockedUntil = lockedUntil, !.expiresAt = expiresAt]

\* The row after MarkSucceeded, which asks for the id only.
Succeeded(id, body, expiresAt) ==
    IF row.id = id
    THEN [row EXCEPT !.status = "succeeded", !.body = body,
                     !.lockedUntil = 0, !.expiresAt = expiresAt]
    ELSE row

\* The row after MarkFailedRetryable, which asks for the id only.
FailedRetryable(id, lockedUntil, expiresAt) ==
    IF row.id = id
    THEN [row EXCEPT !.status = "failed_retryable",
                     !.lockedUntil = lockedUntil, !.expiresAt = expiresAt]
    ELSE row

\* IdempotencyCleanupService and DeleteExpired.
DeleteExpired ==
    /\ row # NoRow /\ row.expiresAt <= clock
    /\ row' = NoRow
    /\ UNCHANGED <<nextId, clock>>

=============================================================================
