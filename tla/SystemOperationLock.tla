------------------------ MODULE SystemOperationLock ------------------------
(***************************************************************************)
(* SystemOperationLockService: the global lock under which an update, a    *)
(* rollback or a restart of the server runs (system_handler.go), kept in a *)
(* row of IdempotencyRecords.  A step is one statement on the table; the   *)
(* renewal goroutine runs beside the operation.                            *)
(***************************************************************************)
EXTENDS IdempotencyRecords, FiniteSets

CONSTANTS Operations,      \* operations, each with its own operation id
          LockLease,       \* lease
          RenewInterval,   \* renewInterval, a third of the lease
          LockTTL,         \* ttl
          LockFaultKinds,  \* faults that may happen, see AllLockFaults
          MaxLockFaults,   \* bound on the number of faults in a behaviour
          MaxLockTime      \* bound on the clock

\* crash: the process of an operation dies; error: a statement fails, perhaps
\* after it was done.
AllLockFaults == {"crash", "error"}

ASSUME LockAssumption ==
    /\ IsFiniteSet(Operations) /\ None \notin Operations
    /\ {LockLease, RenewInterval} \subseteq Nat \ {0}
    /\ LockTTL \in Nat /\ LockTTL > LockLease
    /\ LockFaultKinds \subseteq AllLockFaults
    /\ MaxLockFaults \in Nat
    /\ MaxLockTime \in Nat \ {0}

VARIABLES
    op,          \* where each operation is, and the lock it has
    overran,     \* history: an operation went on when its lease had lapsed
    lockFaults   \* faults still allowed

lockVars == <<row, nextId, clock, op, overran, lockFaults>>

Acquiring == {"create", "get", "reclaim"}
Holding   == {"running", "release"}
LockSteps == Acquiring \cup Holding \cup {"idle", "done"}

\* now: time.Now() at the start of Acquire, and of the release; from: the status
\* read; renewAt: when the ticker of renewLoop fires next, 0 when it has ended.
Lock == [pc : LockSteps, now : Nat, id : Nat, from : Statuses, renewAt : Nat]

LockIdle ==
    [pc |-> "idle", now |-> 0, id |-> 0, from |-> "none", renewAt |-> 0]

\* Type correctness of the row and the operations; the ticker of an operation
\* is never overdue.
LockTypeOK ==
    /\ row \in Rows(Operations, Operations)
    /\ nextId \in 1 .. Cardinality(Operations) + 1
    /\ clock \in 1 .. MaxLockTime
    /\ op \in [Operations -> Lock]
    /\ overran \in BOOLEAN
    /\ lockFaults \in 0 .. MaxLockFaults
    /\ \A o \in Operations : op[o].renewAt # 0 =>
          op[o].pc = "running" /\ op[o].renewAt >= clock

LockInit ==
    /\ RecordInit
    /\ op = [o \in Operations |-> LockIdle]
    /\ overran = FALSE
    /\ lockFaults = MaxLockFaults

-----------------------------------------------------------------------------
OpAt(o, pc) == op[o].pc = pc

NoLockFault     == lockFaults' = lockFaults
LockFault(kind) == /\ kind \in LockFaultKinds /\ lockFaults > 0
                   /\ lockFaults' = lockFaults - 1

OpGoto(o, pc) == op' = [op EXCEPT ![o].pc = pc, ![o].renewAt = 0]

\* Acquire has the lock and starts renewLoop; the operation runs.
Locked(o, id) ==
    op' = [op EXCEPT ![o].pc = "running", ![o].id = id,
                     ![o].renewAt = clock + RenewInterval]

\* The two statements of Acquire that take the lock, with its times.
InsertsLock(o) ==
    CreateProcessing(o, op[o].now + LockLease, op[o].now + LockTTL)
TakesLockOver(o) ==
    TryReclaim(op[o].id, op[o].from, op[o].now,
               op[o].now + LockLease, op[o].now + LockTTL)

\* Acquire reads the clock.
Start(o) ==
    /\ OpAt(o, "idle")
    /\ op' = [op EXCEPT ![o].pc = "create", ![o].now = clock]
    /\ UNCHANGED <<row, nextId, clock, overran, lockFaults>>

\* CreateProcessing, with the operation id as fingerprint.
AcquireCreate(o) ==
    /\ OpAt(o, "create")
    /\ \/ InsertsLock(o) /\ Locked(o, nextId) /\ NoLockFault
       \/ row # NoRow /\ OpGoto(o, "get") /\ NoLockFault /\ SameRow
       \/ (InsertsLock(o) \/ SameRow)
          /\ OpGoto(o, "done") /\ LockFault("error")
    /\ UNCHANGED <<clock, overran>>

\* The lock is busy: processing and not lapsed at the time Acquire started.
Held(o) == row.status = "processing" /\ row.lockedUntil > op[o].now

\* GetByScopeAndKeyHash: the row has gone, it is busy, or it can be taken over.
AcquireGet(o) ==
    /\ OpAt(o, "get")
    /\ \/ (row = NoRow \/ Held(o)) /\ OpGoto(o, "done") /\ NoLockFault
       \/ /\ row # NoRow /\ ~Held(o)
          /\ op' = [op EXCEPT ![o].pc = "reclaim", ![o].id = row.id,
                              ![o].from = row.status]
          /\ NoLockFault
       \/ OpGoto(o, "done") /\ LockFault("error")
    /\ UNCHANGED <<clock, overran>> /\ SameRow

\* TryReclaim; losing the race is a busy lock too.
AcquireReclaim(o) ==
    /\ OpAt(o, "reclaim")
    /\ \/ TakesLockOver(o) /\ Locked(o, op[o].id) /\ NoLockFault
       \/ ~Reclaimable(op[o].id, op[o].from, op[o].now)
          /\ OpGoto(o, "done") /\ NoLockFault /\ SameRow
       \/ (TakesLockOver(o) \/ SameRow)
          /\ OpGoto(o, "done") /\ LockFault("error")
    /\ UNCHANGED <<clock, overran>>

\* The renewal ends with the first error.
RenewLoop_endedByError(o) ==
    /\ op[o].renewAt = clock
    /\ \/ /\ Extendable(op[o].id, o)
          /\ row' = Extended(clock + LockLease, clock + LockTTL)
          /\ op' = [op EXCEPT ![o].renewAt = clock + RenewInterval]
          /\ NoLockFault
       \/ /\ row' = row /\ op' = [op EXCEPT ![o].renewAt = 0]
          /\ (~Extendable(op[o].id, o) /\ NoLockFault) \/ LockFault("error")
    /\ UNCHANGED <<nextId, clock, overran>>

\* renewLoop: extend the lease; stop when the row is not this operation's;
\* try again at the next tick after an error.
RenewLoop(o) ==
    /\ op[o].renewAt = clock
    /\ \/ /\ Extendable(op[o].id, o)
          /\ row' = Extended(clock + LockLease, clock + LockTTL)
          /\ op' = [op EXCEPT ![o].renewAt = clock + RenewInterval]
          /\ NoLockFault \/ LockFault("error")
       \/ /\ ~Extendable(op[o].id, o) /\ row' = row
          /\ op' = [op EXCEPT ![o].renewAt = 0] /\ NoLockFault
       \/ /\ LockFault("error") /\ row' = row
          /\ op' = [op EXCEPT ![o].renewAt = clock + RenewInterval]
    /\ UNCHANGED <<nextId, clock, overran>>

\* The operation ends, and the deferred release closes stopCh.
Finish(o) ==
    /\ OpAt(o, "running")
    /\ op' = [op EXCEPT ![o].pc = "release", ![o].now = clock, ![o].renewAt = 0]
    /\ UNCHANGED <<row, nextId, clock, overran, lockFaults>>

\* Release marks the row by its id; its error is ignored.
Release(o) ==
    /\ OpAt(o, "release")
    /\ OpGoto(o, "done")
    /\ \/ /\ row' \in {Succeeded(op[o].id, o, clock + LockTTL),
                       FailedRetryable(op[o].id, clock, clock + LockTTL)}
          /\ NoLockFault
       \/ row' = row /\ LockFault("error")
    /\ UNCHANGED <<nextId, clock, overran>>

OperationCrash(o) ==
    /\ op[o].pc \notin {"idle", "done"}
    /\ OpGoto(o, "done") /\ LockFault("crash")
    /\ UNCHANGED <<clock, overran>> /\ SameRow

\* The operations that are still going on when their lease lapses.
Overrunning == {o \in Operations : op[o].pc \in Holding
                                   /\ clock + 1 >= row.lockedUntil}

\* Time passes when every ticker that is due was served, and every Acquire and
\* every release (releaseCtx, 2 seconds) is faster than a renewal interval, 10.
\* An operation ends before the TTL of its row does: its context ends after
\* systemUpdateTimeout, 15 minutes against an hour.  Nothing makes it end before
\* its lease does, 30 seconds.
LockTick ==
    /\ clock < MaxLockTime
    /\ \A o \in Operations :
          /\ op[o].renewAt # clock
          /\ op[o].pc \in Acquiring \cup {"release"} =>
                clock + 1 < op[o].now + RenewInterval
          /\ op[o].pc \in Holding /\ op[o].id = row.id =>
                clock + 1 < row.expiresAt
    /\ clock' = clock + 1
    /\ overran' = (overran \/ Overrunning # {})
    /\ UNCHANGED <<row, nextId, op, lockFaults>>

LockCleanup == DeleteExpired /\ UNCHANGED <<op, overran, lockFaults>>

LockNext ==
    \/ \E o \in Operations :
          \/ Start(o) \/ AcquireCreate(o) \/ AcquireGet(o) \/ AcquireReclaim(o)
          \/ RenewLoop(o) \/ Finish(o) \/ Release(o) \/ OperationCrash(o)
    \/ LockTick
    \/ LockCleanup

LockSpec == LockInit /\ [][LockNext]_lockVars

-----------------------------------------------------------------------------
\* The operation whose insertion made the row; renewals ask for it.
Inserted(o) == row.id = op[o].id /\ row.fingerprint = o

\* Acquire, renewLoop and Release: two system operations run at the same time
\* only after one of them, or one before them, went on when its lease had lapsed.
\* The operation that made the row is never one of the two, however long it
\* takes: its lease is renewed across failing statements, and the row is not
\* cleaned up under it.
OverlapNeedsOverrun ==
    \A o, p \in Operations :
        OpAt(o, "running") /\ OpAt(p, "running") /\ o # p =>
            overran /\ ~Inserted(o)

\* What SYSTEM_OPERATION_BUSY promises ("another system operation is in
\* progress") and the handler counts on ("a later retry then hits the system
\* operation lock"): no two system operations run at the same time.  The code
\* breaks it: who takes the row over is not renewed, because TryReclaim leaves
\* the fingerprint that ExtendProcessingLock asks for.
OperationsAreExclusive ==
    \A o, p \in Operations : OpAt(o, "running") /\ OpAt(p, "running") => o = p

=============================================================================
