--------------------------- MODULE MCIdempotency ---------------------------
(***************************************************************************)
(* The table idempotency_records for TLC: a behaviour is one row of it,    *)
(* which belongs to a key of the coordinator or to the lock of system      *)
(* operations.  The two never share a row, their scopes differ.            *)
(***************************************************************************)
EXTENDS Idempotency, SystemOperationLock, TLC

CONSTANTS r1, r2, r3, r4, o1, o2, o3

VARIABLE scope  \* whose row it is

tableVars == <<scope, row, nextId, clock, mode, req, applied, promised,
               repeated, stalled, faults, op, overran, lockFaults>>

\* All requests repeat the first one but the last, which uses the key for
\* something else.
OtherPayload == [r \in Requests |-> IF r = r4 THEN "b" ELSE "a"]

\* Requests with one payload are interchangeable, and so are operations.
Symmetry == Permutations(Requests \ {r4}) \cup Permutations(Operations)

ByRequests ==
    /\ scope = "requests"
    /\ UNCHANGED <<scope, op, overran, lockFaults>>

ByOperations ==
    /\ scope = "operations"
    /\ UNCHANGED <<scope, mode, req, applied, promised, repeated, stalled,
                   faults>>

\* The mode is one of the requests only.
TableInit ==
    /\ scope \in {"requests", "operations"}
    /\ Init /\ LockInit
    /\ scope = "operations" => mode = "plain"

\* Next or LockNext, action by action.
TableNext ==
    \/ \E r \in Requests :
          \/ Arrive(r) /\ ByRequests
          \/ Create(r) /\ ByRequests
          \/ Get(r) /\ ByRequests
          \/ Reclaim(r, "reclaimExpired") /\ ByRequests
          \/ Reget(r) /\ ByRequests
          \/ Reclaim(r, "reclaim") /\ ByRequests
          \/ Run(r) /\ ByRequests
          \/ Mark(r) /\ ByRequests
          \/ MarkFailed(r) /\ ByRequests
          \/ Transaction(r) /\ ByRequests
          \/ Recover(r) /\ ByRequests
          \/ Renew(r) /\ ByRequests
          \/ Crash(r) /\ ByRequests
    \/ Tick /\ ByRequests
    \/ Cleanup /\ ByRequests
    \/ \E o \in Operations :
          \/ Start(o) /\ ByOperations
          \/ AcquireCreate(o) /\ ByOperations
          \/ AcquireGet(o) /\ ByOperations
          \/ AcquireReclaim(o) /\ ByOperations
          \/ RenewLoop(o) /\ ByOperations
          \/ Finish(o) /\ ByOperations
          \/ Release(o) /\ ByOperations
          \/ OperationCrash(o) /\ ByOperations
    \/ LockTick /\ ByOperations
    \/ LockCleanup /\ ByOperations

TableSpec == TableInit /\ [][TableNext]_tableVars

=============================================================================
