----------------------------- MODULE BatchQueue -----------------------------
(***************************************************************************)
(* One batch in the Redis queue of batch jobs: the list ready, the sorted  *)
(* sets delayed and active, the inflight key that keeps a batch from being *)
(* enqueued twice, and the lock under which a worker processes it.  Each   *)
(* operation is one script or one MULTI.  Only the age of the active entry *)
(* matters of its score; the inflight key outlives every batch (7 days).   *)
(***************************************************************************)
EXTENDS Integers

CONSTANTS Workers,    \* goroutines of BatchImageWorker.Run, in any process
          MaxCopies,  \* bound on the entries of the batch in ready
          None,       \* nobody holds the lock
          Lost        \* the token of a worker that has died

ASSUME QueueAssumption ==
    /\ MaxCopies \in Nat \ {0}
    /\ None \notin Workers /\ Lost \notin Workers /\ None # Lost

VARIABLES
    ready,      \* entries of the batch in the ready list
    delayed,    \* it is in the delayed set
    active,     \* its entry in the active set: no, fresh or stale
    inflight,   \* its inflight key exists
    lock        \* holder of the token in its lock

queueVars == <<ready, delayed, active, inflight, lock>>

QueueTypeOK ==
    /\ ready \in 0 .. MaxCopies
    /\ delayed \in BOOLEAN
    /\ active \in {"no", "fresh", "stale"}
    /\ inflight \in BOOLEAN
    /\ lock \in Workers \cup {None, Lost}

QueueInit ==
    /\ ready = 0 /\ delayed = FALSE /\ active = "no"
    /\ inflight = FALSE /\ lock = None

-----------------------------------------------------------------------------
Push == ready < MaxCopies /\ ready' = ready + 1

\* ErrBatchImageAlreadyQueued when the inflight key exists.
Enqueue ==
    /\ IF inflight THEN UNCHANGED <<ready, inflight>>
       ELSE Push /\ inflight' = TRUE
    /\ UNCHANGED <<delayed, active, lock>>

ReserveEntry_unguarded ==
    /\ ready' = ready - 1 /\ active' = "fresh"
    /\ UNCHANGED <<delayed, inflight, lock>>

ReserveEntry ==
    /\ ready > 0
    /\ ready' = ready - 1 /\ active' = "fresh"
    /\ UNCHANGED <<delayed, inflight, lock>>

RequeueAfter ==
    /\ active' = "no" /\ delayed' = TRUE
    /\ UNCHANGED <<ready, inflight, lock>>

AckEntry ==
    /\ active' = "no" /\ delayed' = FALSE /\ inflight' = FALSE
    /\ UNCHANGED <<ready, lock>>

TryAcquireJobLock(w) ==
    /\ lock = None /\ lock' = w
    /\ UNCHANGED <<ready, delayed, active, inflight>>

ReleaseLock(w) ==
    /\ lock' = IF lock = w THEN None ELSE lock
    /\ UNCHANGED <<ready, delayed, active, inflight>>

\* A worker dies: nobody has its token any more.
AbandonLock(w) ==
    /\ lock' = IF lock = w THEN Lost ELSE lock
    /\ UNCHANGED <<ready, delayed, active, inflight>>

\* The lock's TTL runs out.
DropLock ==
    /\ lock # None /\ lock' = None
    /\ UNCHANGED <<ready, delayed, active, inflight>>

MoveDueDelayedToReady ==
    /\ delayed /\ delayed' = FALSE /\ Push
    /\ UNCHANGED <<active, inflight, lock>>

\* StaleActiveAfter passes without a heartbeat.
AgeActive ==
    /\ active = "fresh" /\ active' = "stale"
    /\ UNCHANGED <<ready, delayed, inflight, lock>>

RecoverStaleActive ==
    /\ active = "stale" /\ active' = "no" /\ Push
    /\ UNCHANGED <<delayed, inflight, lock>>
=============================================================================
