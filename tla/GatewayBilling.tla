--------------------------- MODULE GatewayBilling ---------------------------
(***************************************************************************)
(* What requests of one user do to the user's balance when in-flight       *)
(* reservations are on: the eligibility check reads the cached balance,    *)
(* ReserveInflight reads it again and registers the estimate in Redis, the *)
(* answer is billed by a task of the usage record pool, which charges the  *)
(* database once and then the cache, and the reservation is given back     *)
(* when the handler and the task are both done with it.  A step is one     *)
(* script or call of Redis, one transaction after its first lock, or what  *)
(* a process does in its own memory between two of them.                   *)
(***************************************************************************)
EXTENDS Integers, FiniteSets

CONSTANTS Requests,     \* requests of the user, in any process
          Mandatory,    \* those billed by submitMandatoryUsageRecordTask
          Amount,       \* the estimate of each request
          InitBalances, \* what users.balance may be at the start
          QueueSize,    \* queue of the usage record pool
          None,         \* no cached balance
          FaultKinds,   \* faults that may happen, see AllFaults
          MaxFaults     \* bound on the number of faults in a behaviour

\* db, redis: a call fails without effect; commit: it is done and its answer
\* lost; crash: the process of a request ends; slow: a reservation in use is
\* not renewed within its TTL.
AllFaults == {"db", "redis", "commit", "crash", "slow"}

ASSUME BillingAssumption ==
    /\ IsFiniteSet(Requests)
    /\ Mandatory \subseteq Requests
    /\ Amount \in [Requests -> Nat \ {0}]
    /\ InitBalances \subseteq Nat
    /\ QueueSize \in Nat
    /\ None \notin Int
    /\ FaultKinds \subseteq AllFaults
    /\ MaxFaults \in Nat

VARIABLES
    balance,   \* users.balance
    charged,   \* rows of usage_billing_dedup
    cache,     \* billing:balance of the user in Redis, or None
    writes,    \* cache writes that wait for a worker of the cache queue
    live,      \* reservations in Redis whose TTL has not run out
    req,       \* handlers: step, balance read, cost, reservation handle
    task,      \* billing task of each request
    slipped,   \* history: the accounting was let slip, see Escape
    faults     \* faults still allowed

vars == <<balance, charged, cache, writes, live, req, task, slipped, faults>>

Steps     == {"new", "read", "reserve", "run", "inline", "leave", "end"}
TaskSteps == {"none", "queued", "inline", "deduct", "invalidate", "end"}

\* held: the request has a handle; refs: its count; renewing: its goroutine
\* renews; release: the count has fallen to 0 and Redis is about to be told.
Handlers == [pc : Steps, seen : Int, cost : Nat, held : BOOLEAN,
             refs : 0 .. 2, renewing : BOOLEAN, release : BOOLEAN]

\* A write and the request it comes from; late: the cache has taken a charge
\* since the balance was loaded.  Two loads of one request that find the same
\* balance are one write.
Writes == [by : Requests, from : {"load", "deduct"}, value : Int,
           late : BOOLEAN]

\* Type correctness, and the references of a handle: at most the handler's
\* and the task's.
TypeOK ==
    /\ balance \in Int
    /\ charged \in SUBSET Requests
    /\ cache \in Int \cup {None}
    /\ writes \in SUBSET Writes
    /\ live \in SUBSET Requests
    /\ req \in [Requests -> Handlers]
    /\ task \in [Requests -> TaskSteps]
    /\ slipped \in BOOLEAN
    /\ faults \in 0 .. MaxFaults

Ended == [pc |-> "end", seen |-> 0, cost |-> 0, held |-> FALSE, refs |-> 0,
          renewing |-> FALSE, release |-> FALSE]

Init ==
    /\ balance \in InitBalances /\ charged = {}
    /\ cache = None /\ writes = {}
    /\ live = {}
    /\ req = [r \in Requests |-> [Ended EXCEPT !.pc = "new"]]
    /\ task = [r \in Requests |-> "none"]
    /\ slipped = FALSE /\ faults = MaxFaults

-----------------------------------------------------------------------------
NoFault      == UNCHANGED <<slipped, faults>>
Spend(kind)  == kind \in FaultKinds /\ faults > 0 /\ faults' = faults - 1
Fault(kind)  == Spend(kind) /\ UNCHANGED slipped
Escape(kind) == Spend(kind) /\ slipped' = TRUE

At(r, pc)     == req[r].pc = pc
Goto(r, pc)   == req' = [req EXCEPT ![r].pc = pc]
TaskTo(r, pc) == task' = [task EXCEPT ![r] = pc]

\* The sum of f over a finite set of requests, as a number of units: of this
\* form, which no recursion defines, sums can be reasoned about.
Units(f, S) == UNION {{r} \X (1 .. f[r]) : r \in S}
Total(f, S) == Cardinality(Units(f, S))

Cost      == [r \in Requests |-> req[r].cost]
CostOf(S) == Total(Cost, S)
Reserved  == Total(Amount, live)

\* enqueueCacheWrite.
Write(r, from, v) == {[by |-> r, from |-> from, value |-> v, late |-> FALSE]}
Enqueue(r, from, v) == writes' = writes \cup Write(r, from, v)

-----------------------------------------------------------------------------
(* Admission.                                                              *)

ByHandler == UNCHANGED <<balance, charged, cache, task>>

\* GetUserBalance: the cached balance, or the database's, which a worker
\* will write to the cache if its queue is not full.
GetUserBalance(r, b) ==
    \/ cache # None /\ b = cache /\ UNCHANGED writes /\ NoFault
    \/ /\ b = balance
       /\ Enqueue(r, "load", b) \/ UNCHANGED writes
       /\ \/ cache = None /\ NoFault
          \/ cache # None /\ Fault("redis")

\* checkBalanceEligibility.
CheckEligibility(r) ==
    /\ At(r, "new")
    /\ \/ \E b \in {balance, cache} \ {None} :
             GetUserBalance(r, b) /\ Goto(r, IF b > 0 THEN "read" ELSE "end")
       \/ Fault("db") /\ UNCHANGED writes /\ Goto(r, "end")
    /\ UNCHANGED live /\ ByHandler

ReadForReserve(r) ==
    /\ At(r, "read")
    /\ \/ \E b \in {balance, cache} \ {None} :
             /\ GetUserBalance(r, b)
             /\ req' = [req EXCEPT ![r].pc = "reserve", ![r].seen = b]
       \/ Escape("db") /\ UNCHANGED writes /\ Goto(r, "run")
    /\ UNCHANGED live /\ ByHandler

\* What the handler read is what admission would find now: not used up, and
\* more than the database has only by charges whose reservations count.
Current(b) == b > 0 /\ b <= balance + CostOf(charged \cap live)

\* reserveInflightBalanceScript: without others in flight everybody is let in.
Allowed_alone(r) == live = {} \/ req[r].seen >= Amount[r]

Allowed(r) == live = {} \/ req[r].seen - Reserved >= Amount[r]

Leave(r, pc) == req' = [req EXCEPT ![r].pc = pc, ![r].seen = 0]

ReserveInflight(r) ==
    /\ At(r, "reserve")
    /\ \/ /\ Allowed(r) /\ live' = live \cup {r}
          /\ req' = [req EXCEPT ![r].pc = "run", ![r].seen = 0,
                ![r].held = TRUE, ![r].refs = 1, ![r].renewing = TRUE]
          /\ UNCHANGED faults /\ slipped' = (slipped \/ ~Current(req[r].seen))
       \/ ~Allowed(r) /\ Leave(r, "end") /\ UNCHANGED live /\ NoFault
       \/ Leave(r, "run") /\ UNCHANGED live /\ Escape("redis")
       \/ Allowed(r) /\ live' = live \cup {r} /\ Leave(r, "run")
          /\ Escape("commit")
    /\ UNCHANGED writes /\ ByHandler

-----------------------------------------------------------------------------
(* The answer, and its billing task.                                       *)

\* The pool's queue; a task keeps its place until its charge is made.
Full == Cardinality({r \in Requests : task[r] = "queued"}) >= QueueSize

\* Acquire; it finds nothing to acquire after the last reference.
Acquired_none(h) == h

Acquired(h) == [h EXCEPT !.refs = IF @ > 0 THEN @ + 1 ELSE @]

Submit_dropped(r) ==
    /\ At(r, "run")
    /\ \E c \in 1 .. Amount[r], pc \in {"leave", "inline"} :
         LET h == [req[r] EXCEPT !.pc = pc, !.cost = c] IN
         \/ /\ pc = "leave" /\ ~Full /\ TaskTo(r, "queued")
            /\ req' = [req EXCEPT ![r] = Acquired(h)]
         \/ /\ pc = "inline" /\ ~Full /\ TaskTo(r, "inline")
            /\ req' = [req EXCEPT ![r] = Acquired(h)]
         \/ /\ pc = "leave" /\ Full /\ TaskTo(r, "end")
            /\ req' = [req EXCEPT ![r] = h]
    /\ UNCHANGED <<balance, charged, cache, live, writes>> /\ NoFault

\* Upstream answers within the estimate.  submitUsageRecordTask and
\* submitMandatoryUsageRecordTask queue the task, have it run inline, when
\* the pool is stopped or its policy says so, or drop it and return its
\* reference.
Submit(r) ==
    /\ At(r, "run")
    /\ \E c \in 1 .. Amount[r], pc \in {"leave", "inline"} :
         LET h == [req[r] EXCEPT !.pc = pc, !.cost = c] IN
         \/ /\ pc = "leave" /\ ~Full /\ TaskTo(r, "queued")
            /\ req' = [req EXCEPT ![r] = Acquired(h)]
         \/ /\ pc = "inline" /\ TaskTo(r, "inline")
            /\ req' = [req EXCEPT ![r] = Acquired(h)]
         \/ /\ pc = "leave" /\ Full /\ r \notin Mandatory /\ TaskTo(r, "end")
            /\ req' = [req EXCEPT ![r] = h]
    /\ UNCHANGED <<balance, charged, cache, live, writes>> /\ NoFault

\* Upstream fails, which costs nothing.
Unanswered(r) ==
    /\ At(r, "run") /\ Goto(r, "leave")
    /\ UNCHANGED <<live, writes>> /\ ByHandler /\ NoFault

\* decRef: the last one gives the reservation back.
Dropped(h) ==
    IF h.refs = 0 THEN h
    ELSE [h EXCEPT !.refs = @ - 1, !.release = h.refs = 1]

HandlerDone_renewing(r) ==
    /\ \/ At(r, "leave")
       \/ At(r, "inline") /\ task[r] = "end"
    /\ req' = [req EXCEPT ![r] = [Dropped(@) EXCEPT !.pc = "end"]]
    /\ UNCHANGED <<live, writes>> /\ ByHandler /\ NoFault

HandlerDone(r) ==
    /\ \/ At(r, "leave")
       \/ At(r, "inline") /\ task[r] = "end"
    /\ req' = [req EXCEPT ![r] =
          [Dropped(@) EXCEPT !.pc = "end", !.renewing = FALSE]]
    /\ UNCHANGED <<live, writes>> /\ ByHandler /\ NoFault

\* Release.
Release(r) ==
    /\ req[r].release
    /\ \/ live' = live \ {r} /\ NoFault
       \/ UNCHANGED live /\ Fault("redis")
    /\ req' = [req EXCEPT ![r].release = FALSE]
    /\ UNCHANGED writes /\ ByHandler

\* The task ends, however it does, and returns its reference.
TaskEnds(r) == TaskTo(r, "end") /\ req' = [req EXCEPT ![r] = Dropped(@)]
TaskGoes(r, pc) == TaskTo(r, pc) /\ UNCHANGED req

\* UsageBillingRepository.Apply; a balance that is used up is not deducted
\* from the cache but removed from it.
Charge(r) == balance' = balance - req[r].cost /\ charged' = charged \cup {r}

Apply(r) ==
    /\ task[r] \in {"queued", "inline"}
    /\ \/ /\ Charge(r) /\ NoFault
          /\ TaskGoes(r, IF balance' > 0 THEN "deduct" ELSE "invalidate")
       \/ Charge(r) /\ TaskEnds(r) /\ Escape("commit")
       \/ UNCHANGED <<balance, charged>> /\ TaskEnds(r) /\ Fault("db")
    /\ UNCHANGED <<cache, writes, live>>

Late(W)  == {[w EXCEPT !.late = TRUE] : w \in W}
Lower(c) == cache' = IF cache = None THEN None ELSE cache - c

\* syncBalanceCacheAfterDeduction; a deduction that seems to fail is queued.
DeductCache_queued(r) ==
    /\ task[r] = "deduct" /\ TaskEnds(r)
    /\ Enqueue(r, "deduct", req[r].cost)
    /\ UNCHANGED <<balance, charged, cache, live>> /\ NoFault

DeductCache(r) ==
    /\ task[r] = "deduct" /\ TaskEnds(r)
    /\ \/ /\ Lower(req[r].cost)
          /\ writes' = Late(writes) /\ NoFault
       \/ /\ Lower(req[r].cost) /\ Fault("commit")
          /\ writes' = Late(writes) \cup Write(r, "deduct", req[r].cost)
       \/ /\ UNCHANGED cache /\ Enqueue(r, "deduct", req[r].cost)
          /\ Escape("redis")
    /\ UNCHANGED <<balance, charged, live>>

InvalidateCache(r) ==
    /\ task[r] = "invalidate" /\ TaskEnds(r)
    /\ \/ cache' = None /\ writes' = Late(writes) /\ NoFault
       \/ UNCHANGED <<cache, writes>> /\ Escape("redis")
    /\ UNCHANGED <<balance, charged, live>>

Bill(r) ==
    Apply(r) \/ DeductCache(r) \/ InvalidateCache(r)

Handle(r) ==
    \/ CheckEligibility(r) \/ ReadForReserve(r) \/ ReserveInflight(r)
    \/ Submit(r) \/ Unanswered(r) \/ HandlerDone(r)

-----------------------------------------------------------------------------
(* The cache, Redis, and the end of a process.                             *)

ByRedis == UNCHANGED <<balance, charged, task>>

\* cacheWriteWorker.
CacheWrite(w) ==
    /\ w \in writes /\ writes' = writes \ {w}
    /\ \/ /\ w.from = "load" /\ cache' = w.value
          /\ UNCHANGED faults /\ slipped' = (slipped \/ w.late)
       \/ w.from = "deduct" /\ Lower(w.value) /\ NoFault
       \/ UNCHANGED cache /\ Escape("redis")
    /\ UNCHANGED <<live, req>> /\ ByRedis

CacheExpires ==
    /\ cache # None /\ cache' = None
    /\ UNCHANGED <<writes, live, req>> /\ ByRedis /\ NoFault

InUse(r) ==
    \/ req[r].held /\ req[r].pc # "end"
    \/ req[r].held /\ task[r] \in TaskSteps \ {"none", "end"}
    \/ req[r].release

\* The TTL runs out, of a reservation nobody renews; or of one in use, that
\* renewals came too late for or whose task waits too long.
Lapse(r) ==
    /\ r \in live /\ live' = live \ {r}
    /\ ~InUse(r) /\ ~req[r].renewing /\ NoFault
    /\ UNCHANGED <<cache, writes, req>> /\ ByRedis

LapseInUse(r) ==
    /\ r \in live /\ live' = live \ {r}
    /\ InUse(r) /\ Escape("slow")
    /\ UNCHANGED <<cache, writes, req>> /\ ByRedis

\* The process of the request ends, its cache queue with it.
Crash(r) ==
    /\ \/ req[r].pc \notin {"new", "end"} \/ req[r].release
       \/ task[r] \notin {"none", "end"}
    /\ req' = [req EXCEPT ![r] = Ended]
    /\ TaskTo(r, "end") /\ Escape("crash")
    /\ writes' = {w \in writes : w.by # r}
    /\ UNCHANGED <<balance, charged, cache, live>>

Next ==
    \/ \E r \in Requests :
          \/ Handle(r) \/ Bill(r) \/ Release(r)
          \/ Lapse(r) \/ LapseInUse(r) \/ Crash(r)
    \/ \E w \in writes : CacheWrite(w)
    \/ CacheExpires

Fairness ==
    /\ \A r \in Requests : /\ WF_vars(Handle(r)) /\ WF_vars(Bill(r))
                           /\ WF_vars(Release(r)) /\ WF_vars(Lapse(r))
    /\ WF_vars(\E w \in writes : CacheWrite(w))

Spec == Init /\ [][Next]_vars
FairSpec == Spec /\ Fairness

-----------------------------------------------------------------------------
(* Properties.                                                             *)

\* The balance is overdrawn by no more than one request let in alone: the
\* others found their estimates covered, and a reservation is kept until the
\* cached balance has taken the charge.  Fail-open paths, a balance read or
\* loaded too early, and faults that lose a call are excepted.
OverdrawnByOneAtMost ==
    ~slipped => balance >= 0 \/ \E r \in Requests : balance > -Amount[r]

\* The cached balance exceeds the database's by the charges that are still
\* to be deducted, never by more: what admission reads is not stale.
Undeducted == {r \in charged : task[r] \in {"deduct", "invalidate"}}
CachedIsCovered ==
    ~slipped /\ cache # None =>
        cache <= balance + CostOf(Undeducted)

\* A reservation counts as long as the handler or the billing task of its
\* request is under way: the last decRef does not come before the deduction.
\* Without faults it is gone when they are done with it: a task that was
\* dropped has returned its reference too.
ReservedIffInUse ==
    /\ ~slipped => \A r \in Requests : InUse(r) => r \in live
    /\ faults = MaxFaults => \A r \in live : InUse(r)

\* Every reservation ends, whoever dies or is cut off.
EveryReservationEnds == \A r \in Requests : r \in live ~> r \notin live

\* What must be billed is billed, also when the pool is full or stopped.
MandatoryIsCharged ==
    \A r \in Mandatory :
        req[r].cost > 0 ~> (r \in charged \/ faults < MaxFaults)
=============================================================================
