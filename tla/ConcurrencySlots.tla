-------------------------- MODULE ConcurrencySlots --------------------------
(***************************************************************************)
(* The concurrency limit of one user or one account: the sorted set of     *)
(* slots in Redis, the counter of waiting requests, the active index that  *)
(* the clean-ups look into, and the requests of several server processes   *)
(* that go through acquireUserSlotWithWaitTimeout.  A Lua script or a      *)
(* pipeline is one step; a request makes several.                          *)
(*                                                                         *)
(* A slot older than its TTL is trimmed by every script before it counts,  *)
(* so it is removed here at the moment it expires.  A slot is known by the *)
(* request that holds it; slots nobody will release any more (their        *)
(* process died, or the answer to the acquisition was lost, or the release *)
(* failed) are only counted.  Time is not kept: whatever waits for a TTL   *)
(* may happen at any moment.  The slots of live sessions, which count      *)
(* against the same limit, and those of API keys, which are statistics,    *)
(* are left out.                                                           *)
(***************************************************************************)
EXTENDS Naturals, FiniteSets

CONSTANTS Requests,     \* HTTP requests
          Instances,    \* server processes sharing the Redis
          Home,         \* the process a request is served by
          MaxSlots,     \* maxConcurrency, positive
          MaxWait,      \* queueLimit
          FaultKinds,   \* faults that may happen, see AllFaults
          MaxFaults     \* bound on the number of faults in a behaviour

\* crash: a process dies; lostReply: an acquisition fails, perhaps after it was
\* done; release: a release or a decrement fails, perhaps after it was done;
\* count: the same for an increment; index: an index update fails; cleanup: a
\* call of the start-up clean-up fails; outlive: a request outlives its slot.
AllFaults == {"crash", "lostReply", "release", "count", "index", "cleanup",
              "outlive"}

ASSUME SlotsAssumption ==
    /\ IsFiniteSet(Requests)
    /\ Home \in [Requests -> Instances]
    /\ MaxSlots \in Nat \ {0}
    /\ MaxWait \in Nat \ {0}
    /\ FaultKinds \subseteq AllFaults
    /\ MaxFaults \in Nat

VARIABLES
    slots,    \* members of the slot set whose request will release them
    lost,     \* number of members nobody will release
    wait,     \* the wait counter
    indexed,  \* the active index lists this user or account
    req,      \* where each request is, and whether it believes to hold a slot
    job,      \* the background reconciliation of the index, per process
    proc,     \* life of each process
    opened,   \* history: how often a limit failed open, see Opens
    faults    \* faults still allowed

vars == <<slots, lost, wait, indexed, req, job, proc, opened, faults>>

\* The faults on which a request goes on without being counted.
Opens == {"count", "outlive"}

Steps == {"idle", "touch", "enqueue", "touchWait", "waiting", "leave",
          "running", "read", "drop", "keep"}

\* A process reads the index ("boot"), cleans the slots, the wait counter and
\* the index, and then serves.
Phases == {"down", "boot", "slots", "wait", "index", "cleaned", "up"}

Idle == [pc |-> "idle", holds |-> FALSE, queued |-> FALSE]

\* Type correctness of the Redis keys and the requests.
TypeOK ==
    /\ slots \in SUBSET Requests
    /\ lost \in Nat
    /\ wait \in 0 .. MaxWait
    /\ indexed \in BOOLEAN
    /\ req \in [Requests -> [pc : Steps, holds : BOOLEAN, queued : BOOLEAN]]
    /\ job \in [Instances -> {"idle", "keep", "drop"}]
    /\ proc \in [Instances -> Phases]
    /\ opened \in [Opens -> 0 .. MaxFaults]
    /\ faults \in 0 .. MaxFaults

Init ==
    /\ slots = {} /\ lost = 0 /\ wait = 0 /\ indexed = FALSE
    /\ req = [r \in Requests |-> Idle]
    /\ job = [i \in Instances |-> "idle"]
    /\ proc = [i \in Instances |-> "up"]
    /\ opened = [kind \in Opens |-> 0]
    /\ faults = MaxFaults

-----------------------------------------------------------------------------
At(r, pc)   == req[r].pc = pc /\ proc[Home[r]] = "up"
Goto(r, pc) == req' = [req EXCEPT ![r].pc = pc]

NoFault     == UNCHANGED <<opened, faults>>
Fault(kind) ==
    /\ kind \in FaultKinds /\ faults > 0
    /\ faults' = faults - 1
    /\ opened' = IF kind \in Opens THEN [opened EXCEPT ![kind] = @ + 1]
                                  ELSE opened

\* ZCARD of the slot set.
Count == Cardinality(slots) + lost

\* The limit is passed by one.
Room_offByOne == Count <= MaxSlots

\* acquireScript grants a slot below the limit.
Room == Count < MaxSlots

\* There is something to look after: readActiveLoadForKey.
Loaded == Count > 0 \/ wait > 0

-----------------------------------------------------------------------------
(***************************************************************************)
(* A request.                                                              *)
(***************************************************************************)

\* The script adds the slot and the answer arrives.
Acquired(r) ==
    /\ Room
    /\ slots' = slots \cup {r}
    /\ req' = [req EXCEPT ![r].pc = "touch", ![r].holds = TRUE]
    /\ lost' = lost /\ NoFault

\* The call fails; if only the answer was lost the slot stays in Redis, under
\* an id that is never used again.  The request ends with an error.
AcquireFailed(r) ==
    /\ Fault("lostReply")
    /\ lost' \in {lost, IF Room THEN lost + 1 ELSE lost}
    /\ slots' = slots
    /\ Goto(r, IF req[r].queued THEN "leave" ELSE "idle")

\* AcquireUserSlot, called at once; without a slot the request queues.
TryAcquire(r) ==
    /\ At(r, "idle")
    /\ \/ Acquired(r)
       \/ AcquireFailed(r)
       \/ ~Room /\ Goto(r, "enqueue") /\ NoFault /\ UNCHANGED <<slots, lost>>
    /\ UNCHANGED <<wait, indexed, job, proc>>

\* touchActiveIndexAt after a slot was granted; its failure is only logged.
\* A request that waited leaves the queue next.
TouchSlot(r) ==
    /\ At(r, "touch")
    /\ \/ indexed' = TRUE /\ NoFault
       \/ indexed' = indexed /\ Fault("index")
    /\ Goto(r, IF req[r].queued THEN "leave" ELSE "running")
    /\ UNCHANGED <<slots, lost, wait, job, proc>>

\* incrementWaitScript.
Counted == IF wait < MaxWait THEN wait + 1 ELSE wait

\* decrementWaitScript, floored at zero.
Uncounted == IF wait > 0 THEN wait - 1 ELSE 0

\* A full queue still takes the request.
Enqueue_unlimited(r) ==
    /\ At(r, "enqueue")
    /\ wait' = wait + 1 /\ NoFault
    /\ req' = [req EXCEPT ![r].pc = "touchWait", ![r].queued = TRUE]
    /\ UNCHANGED <<slots, lost, indexed, job, proc>>

\* IncrementWaitCount.  A full queue refuses the request; an error, wherever
\* it struck, lets it wait.
Enqueue(r) ==
    /\ At(r, "enqueue")
    /\ \/ /\ wait < MaxWait /\ NoFault
          /\ wait' = Counted
          /\ req' = [req EXCEPT ![r].pc = "touchWait", ![r].queued = TRUE]
       \/ /\ wait >= MaxWait /\ NoFault
          /\ wait' = wait
          /\ req' = [req EXCEPT ![r] = Idle]
       \/ /\ Fault("count")
          /\ wait' \in {wait, Counted}
          /\ req' = [req EXCEPT ![r].pc = "waiting", ![r].queued = TRUE]
    /\ UNCHANGED <<slots, lost, indexed, job, proc>>

\* touchActiveIndexAt after the request was counted.
TouchWait(r) ==
    /\ At(r, "touchWait")
    /\ \/ indexed' = TRUE /\ NoFault
       \/ indexed' = indexed /\ Fault("index")
    /\ Goto(r, "waiting")
    /\ UNCHANGED <<slots, lost, wait, job, proc>>

\* waitForSlotWithPingTimeout polls with backoff...
Poll(r) ==
    /\ At(r, "waiting")
    /\ Acquired(r) \/ AcquireFailed(r)
    /\ UNCHANGED <<wait, indexed, job, proc>>

\* ...until the timeout or until the client is gone.
GiveUp(r) ==
    /\ At(r, "waiting")
    /\ Goto(r, "leave")
    /\ UNCHANGED <<slots, lost, wait, indexed, job, proc, opened, faults>>

\* The queue is not left when the wait times out.
Leave_onlyWithSlot(r) ==
    /\ At(r, "leave")
    /\ wait' = IF req[r].holds THEN Uncounted ELSE wait
    /\ req' = [req EXCEPT ![r].pc = "read", ![r].queued = FALSE]
    /\ UNCHANGED <<slots, lost, indexed, job, proc, opened, faults>>

\* The deferred DecrementWaitCount; its error is only logged, and the index is
\* then not refreshed.
Leave(r) ==
    /\ At(r, "leave")
    /\ \/ /\ wait' = Uncounted /\ NoFault
          /\ req' = [req EXCEPT ![r].pc = "read", ![r].queued = FALSE]
       \/ /\ wait' \in {wait, Uncounted} /\ Fault("release")
          /\ req' = [req EXCEPT ![r].pc = IF req[r].holds THEN "running" ELSE "idle",
                                ![r].queued = FALSE]
    /\ UNCHANGED <<slots, lost, indexed, job, proc>>

\* The end of a request leaves the queue a second time.
ReleaseSlot_twice(r) ==
    /\ At(r, "running")
    /\ slots' = slots \ {r}
    /\ wait' = Uncounted
    /\ req' = [req EXCEPT ![r].pc = "read", ![r].holds = FALSE]
    /\ UNCHANGED <<lost, indexed, job, proc, opened, faults>>

\* The release function, run once, when the request ends or its context is
\* done (wrapReleaseOnDone): ZREM, then the index is refreshed.  If ZREM fails
\* the slot stays, or only the refresh is left out.
ReleaseSlot(r) ==
    /\ At(r, "running")
    /\ slots' = slots \ {r}
    /\ \/ /\ lost' = lost /\ NoFault
          /\ req' = [req EXCEPT ![r].pc = "read", ![r].holds = FALSE]
       \/ /\ lost' \in {lost, IF r \in slots THEN lost + 1 ELSE lost}
          /\ Fault("release")
          /\ req' = [req EXCEPT ![r] = Idle]
    /\ UNCHANGED <<wait, indexed, job, proc>>

\* refreshActiveIndex reads the load in one call...
ReadLoad(r) ==
    /\ At(r, "read")
    /\ Goto(r, IF Loaded THEN "keep" ELSE "drop")
    /\ UNCHANGED <<slots, lost, wait, indexed, job, proc, opened, faults>>

\* ...and updates the index in another.
RefreshIndex(r) ==
    /\ At(r, "keep") \/ At(r, "drop")
    /\ \/ indexed' = (req[r].pc = "keep") /\ NoFault
       \/ indexed' = indexed /\ Fault("index")
    /\ Goto(r, IF req[r].holds THEN "running" ELSE "idle")
    /\ UNCHANGED <<slots, lost, wait, job, proc>>

-----------------------------------------------------------------------------
(***************************************************************************)
(* Time, clean-ups and processes.                                          *)
(***************************************************************************)

\* A slot nobody releases, or (an outlived slot TTL) that of a request still
\* running, expires.
ExpireSlot ==
    /\ \/ lost > 0 /\ lost' = lost - 1 /\ slots' = slots /\ NoFault
       \/ /\ \E r \in slots : slots' = slots \ {r}
          /\ lost' = lost /\ Fault("outlive")
    /\ UNCHANGED <<wait, indexed, req, job, proc>>

\* The wait counter expires: every increment renews it, and a request waits
\* for less than its TTL, so nobody waits any more.
ExpireWait ==
    /\ wait > 0 /\ \A r \in Requests : ~req[r].queued
    /\ wait' = 0
    /\ UNCHANGED <<slots, lost, indexed, req, job, proc, opened, faults>>

\* reconcileExpiredIndexCandidates reads the load of an entry past its score...
ReconcileRead(i) ==
    /\ proc[i] = "up" /\ job[i] = "idle" /\ indexed
    /\ job' = [job EXCEPT ![i] = IF Loaded THEN "keep" ELSE "drop"]
    /\ UNCHANGED <<slots, lost, wait, indexed, req, proc, opened, faults>>

\* ...and renews or removes the entry in another call.
ReconcileWrite(i) ==
    /\ job[i] # "idle"
    /\ \/ indexed' = (job[i] = "keep") /\ NoFault
       \/ indexed' = indexed /\ Fault("index")
    /\ job' = [job EXCEPT ![i] = "idle"]
    /\ UNCHANGED <<slots, lost, wait, req, proc>>

\* The process dies with its requests: their slots and their places in the
\* wait counter stay in Redis.
Crash(i) ==
    /\ proc[i] # "down" /\ Fault("crash")
    /\ proc' = [proc EXCEPT ![i] = "down"]
    /\ LET mine == {r \in Requests : Home[r] = i}
       IN  /\ req' = [r \in Requests |-> IF r \in mine THEN Idle ELSE req[r]]
           /\ slots' = slots \ mine
           /\ lost' = lost + Cardinality(slots \cap mine)
    /\ job' = [job EXCEPT ![i] = "idle"]
    /\ UNCHANGED <<wait, indexed>>

\* ProvideConcurrencyService runs CleanupStaleProcessSlots before the process
\* serves: it reads the active index...
Boot(i) ==
    /\ proc[i] = "down"
    /\ \/ NoFault /\ proc' = [proc EXCEPT ![i] = IF indexed THEN "slots" ELSE "cleaned"]
       \/ Fault("cleanup") /\ proc' = [proc EXCEPT ![i] = "up"]
    /\ UNCHANGED <<slots, lost, wait, indexed, req, job>>

\* ...and for a listed id removes the slots without its own prefix, which is
\* all of them as it has served nothing yet...
CleanSlots(i) ==
    /\ proc[i] = "slots"
    /\ \/ /\ NoFault /\ slots' = {} /\ lost' = 0
          /\ proc' = [proc EXCEPT ![i] = "wait"]
       \/ /\ Fault("cleanup") /\ UNCHANGED <<slots, lost>>
          /\ proc' = [proc EXCEPT ![i] = "up"]
    /\ UNCHANGED <<wait, indexed, req, job>>

\* ...then the wait counter...
CleanWait(i) ==
    /\ proc[i] = "wait"
    /\ \/ NoFault /\ wait' = 0 /\ proc' = [proc EXCEPT ![i] = "index"]
       \/ Fault("cleanup") /\ wait' = wait /\ proc' = [proc EXCEPT ![i] = "up"]
    /\ UNCHANGED <<slots, lost, indexed, req, job>>

\* ...and, no slot of its own being left, the index entry.
CleanIndex(i) ==
    /\ proc[i] = "index"
    /\ \/ indexed' = FALSE /\ NoFault
       \/ indexed' = indexed /\ Fault("index")
    /\ proc' = [proc EXCEPT ![i] = "cleaned"]
    /\ UNCHANGED <<slots, lost, wait, req, job>>

\* StartSlotCleanupWorker, and the process serves.  A failed clean-up is only
\* logged, so the process gets here then as well.
Serve(i) ==
    /\ proc[i] = "cleaned"
    /\ proc' = [proc EXCEPT ![i] = "up"]
    /\ UNCHANGED <<slots, lost, wait, indexed, req, job, opened, faults>>

ProcessStep(i) ==
    \/ ReconcileRead(i) \/ ReconcileWrite(i) \/ Crash(i) \/ Boot(i)
    \/ CleanSlots(i) \/ CleanWait(i) \/ CleanIndex(i) \/ Serve(i)

RequestStep(r) ==
    \/ TryAcquire(r) \/ TouchSlot(r) \/ Enqueue(r) \/ TouchWait(r) \/ Poll(r)
    \/ GiveUp(r) \/ Leave(r) \/ ReleaseSlot(r) \/ ReadLoad(r) \/ RefreshIndex(r)

Next ==
    \/ \E r \in Requests : RequestStep(r)
    \/ \E i \in Instances : ProcessStep(i)
    \/ ExpireSlot \/ ExpireWait

Spec == Init /\ [][Next]_vars

-----------------------------------------------------------------------------
(***************************************************************************)
(* Properties.                                                             *)
(***************************************************************************)
Holders == {r \in Requests : req[r].holds}
Waiters == {r \in Requests : req[r].queued}

\* No more requests hold a slot of the user or account than its limit, through
\* crashes, lost answers and failed releases and clean-ups, as long as the
\* process that starts is the only one; a request that outlives its slot costs
\* one request, and no more.
CapRespected == Cardinality(Holders) <= MaxSlots + opened["outlive"]

\* The queue limit bounds the requests that really wait, not only the counter:
\* the counter never falls below the number of waiting requests, except by the
\* number of times IncrementWaitCount failed and let the request wait.
WaitersAreCounted == Cardinality(Waiters) <= wait + opened["count"]

\* What requests leave behind comes from faults only: once every request is
\* over and no call has failed, no slot is taken and nobody counts as waiting,
\* so that a busy user is never locked out by requests that are gone.
QuiescentIsClean ==
    faults = MaxFaults /\ (\A r \in Requests : req[r].pc = "idle")
        => slots = {} /\ lost = 0 /\ wait = 0

\* CleanupStaleProcessSlots clears the slots and the wait counts that dead
\* processes left: once it is through, and no other process runs, none is there.
StartupReclaims ==
    \A i \in Instances :
        proc[i] = "cleaned" /\ (\A j \in Instances \ {i} : proc[j] = "down")
            => lost = 0 /\ wait = 0
=============================================================================
