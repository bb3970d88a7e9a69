----------------------- MODULE BatchImageJobs_proofs -----------------------
(***************************************************************************)
(* Proofs about BatchImageJobs for any number of workers, any hold, any    *)
(* balance and cost, any number of retries, and any number of faults of    *)
(* any kind.                                                               *)
(***************************************************************************)
EXTENDS BatchImageJobs, FiniteSetTheorems, TLAPS

-----------------------------------------------------------------------------
(***************************************************************************)
(* The inductive invariant.                                                *)
(***************************************************************************)

\* Submit before it has called the provider, and on its way out without a
\* stored name.
Early   == {"idle", "reserve", "items", "upload", "provider"}
Failing == {"release", "releaseOnly", "fail", "releaseFailed", "retry", "hide"}

\* The claims say what was moved, except that a release may be claimed for a
\* hold that was never reserved.
ClaimInv ==
    /\ "hold" \in claims <=> "hold" \in moved
    /\ "capture" \in claims <=> "capture" \in moved
    /\ "release" \in moved \/ "capture" \in moved => "hold" \in moved

\* What the row says of the provider's batch and of the hold.
JobInv ==
    /\ job.named =>
          /\ upstream.state # "none" /\ "hold" \in moved
          /\ job.status \notin Unsubmitted \cup {"none"}
    /\ job.status \in {"submitted", "running", "indexing", "settling",
                       "completed"} => job.named
    /\ job.status \in {"indexing", "settling", "completed"} =>
          upstream.state = "succeeded"
    /\ job.named /\ job.status = "failed" => upstream.state \in Ended
    /\ upstream.state # "succeeded" => upstream.cost = 0
    /\ "capture" \in moved => job.named
    /\ "release" \in moved =>
          job.status \notin {"submitted", "running", "indexing"}

\* What Submit knows at its step.
SubInv ==
    /\ sub = "idle" <=> job.status = "none"
    /\ sub \in Early => upstream = [state |-> "none", cost |-> 0]
    /\ sub \in {"idle", "reserve"} => "hold" \notin moved
    /\ sub \in {"items", "upload", "provider", "name"} => "hold" \in moved
    /\ sub = "name" => upstream.state # "none"
    /\ sub \in Early \cup Failing \cup {"name"} => ~job.named
    /\ sub \in Early \cup {"name"} /\ job.status \in Unsubmitted =>
          "release" \notin moved

\* Cancel and the recovery give back what has ended.
CanInv == can = "release" => job.status \in {"failed", "cancelled"}
RecInv == rec = "release" => job.status = "failed"

\* A worker past the poll of a batch that succeeded.
Indexing == {"index", "settling", "unusable"}
Settling == {"settle", "capture", "record", "exhaust", "releaseFailed",
             "giveUp", "mark"}
Past     == /\ job.named /\ upstream.state = "succeeded"
            /\ job.status \in {"indexing", "settling", "completed", "failed"}

\* What a worker knows at its step.
WkInv(w) ==
    /\ wk[w].pc \in {"poll", "advance"} => job.named
    /\ wk[w].pc = "advance" /\ wk[w].answer \in Ended =>
          upstream.state = wk[w].answer
    /\ wk[w].pc \in Indexing \cup Settling => Past
    /\ wk[w].pc \in Settling => job.status # "indexing"
    /\ wk[w].pc = "capture" => upstream.cost <= Hold
    /\ wk[w].pc = "release" => job.status \in {"failed", "cancelled"}

\* While the locks hold: who works has the lock, and the step fits the status.
Locked == WkSteps \ {"idle", "lock"}

WkCalm(w) ==
    /\ wk[w].pc \in Locked => lock = w
    /\ wk[w].pc \in Indexing => job.status = "indexing"
    /\ wk[w].pc \in Settling => job.status = "settling"
    /\ wk[w].pc = "capture" => "release" \notin moved
    /\ wk[w].pc = "mark" => "capture" \in moved
    /\ wk[w].pc \in {"exhaust", "releaseFailed", "giveUp"} =>
          /\ job.retry >= MaxRetries /\ "capture" \notin moved
          /\ upstream.cost <= Hold => job.settleErr

\* Every retry, and every capture that was not recorded, took a fault.
One(b)    == IF b THEN 1 ELSE 0
Recording == \E w \in Workers : wk[w].pc = "record"
Marking   == \E w \in Workers : wk[w].pc = "mark"
Unmarked  == "capture" \in moved /\ job.status = "settling" /\ ~Marking
Load      == job.retry + One(Recording) + One(sub = "queueFailed")
             + One(Unmarked)

\* The money, while nothing but a few single calls fails.
MoneyInv ==
    /\ purse.frozen = Other + (IF HoldOpen THEN Hold ELSE 0)
    /\ "capture" \notin moved \/ "release" \notin moved
    /\ "capture" \in moved =>
          job.status \in {"settling", "completed"} /\ upstream.cost <= Hold
    /\ job.status = "completed" => "capture" \in moved
    /\ upstream.cost <= Hold /\ job.status = "settling" /\ "release" \in moved =>
          Exhausted
    /\ upstream.cost <= Hold => Load + faults <= MaxFaults

Inv ==
    /\ TypeOK /\ ClaimInv /\ JobInv /\ SubInv /\ CanInv /\ RecInv
    /\ \A w \in Workers : WkInv(w)
    /\ Calm => MoneyInv /\ \A w \in Workers : WkCalm(w)

-----------------------------------------------------------------------------
(***************************************************************************)
(* Lemmas about the operators of the model.                                *)
(***************************************************************************)

\* The fault budget goes down, and what was calm was calm before.
Later ==
    /\ hit' \in SUBSET AllFaults /\ faults' \in 0 .. MaxFaults
    /\ faults' <= faults /\ (Calm' => Calm)

\* The constants.
LEMMA Constants ==
    /\ Hold \in Nat \ {0} /\ Other \in Nat /\ Costs \subseteq Nat
    /\ MaxRetries \in Nat \ {0} /\ MaxFaults \in Nat
    /\ MaxCopies \in Nat \ {0} /\ None \notin Workers /\ Lost \notin Workers
    /\ None # Lost
BY HoldAssumption, QueueAssumption, JobAssumption

\* A fault uses up the budget, and a lost COMMIT or a lapse is never calm.
LEMMA Faulty ==
    ASSUME TypeOK
    PROVE  /\ NoFault => Later /\ faults' = faults
           /\ \A kind : Fault(kind) =>
                 /\ Later /\ faults' = faults - 1
                 /\ kind \in {"commit", "lapse"} => ~Calm'
<1>1. /\ faults \in 0 .. MaxFaults /\ MaxFaults \in Nat
      /\ hit \in SUBSET AllFaults /\ MaxRetries \in Nat
  BY Constants DEF TypeOK
<1>2. NoFault => Later /\ faults' = faults
  BY <1>1 DEF NoFault, Later, Calm
<1>3. ASSUME NEW kind, Fault(kind)
      PROVE  /\ Later /\ faults' = faults - 1
             /\ kind \in {"commit", "lapse"} => ~Calm'
  <2>1. /\ kind \in AllFaults /\ faults > 0 /\ faults' = faults - 1
        /\ hit' = hit \cup {kind}
    BY <1>3, JobAssumption DEF Fault
  <2>2. hit' \in SUBSET AllFaults /\ faults' \in 0 .. MaxFaults /\ faults' <= faults
    BY <1>1, <2>1
  <2>3. Calm' => Calm
    BY <1>1, <2>1 DEF Calm
  <2>4. kind \in {"commit", "lapse"} => ~Calm'
    BY <2>1 DEF Calm
  <2> QED
    BY <2>1, <2>2, <2>3, <2>4 DEF Later
<1> QED
  BY <1>2, <1>3

\* The operations on the queue; without a lapse of a live lock, nobody loses it.
LEMMA QueueTypes ==
    ASSUME QueueTypeOK
    PROVE  /\ (Enqueue \/ MoveDueDelayedToReady \/ RecoverStaleActive
                \/ ReserveEntry \/ RequeueAfter \/ AckEntry \/ AgeActive)
              => QueueTypeOK' /\ lock' = lock
           /\ \A w \in Workers : TryAcquireJobLock(w) =>
                 QueueTypeOK' /\ lock = None /\ lock' = w
           /\ \A w \in Workers : ReleaseLock(w) \/ AbandonLock(w) =>
                 QueueTypeOK' /\ (lock # w => lock' = lock)
           /\ DropLock => QueueTypeOK'
<1>1. /\ ready \in 0 .. MaxCopies /\ MaxCopies \in Nat \ {0} /\ delayed \in BOOLEAN
      /\ active \in {"no", "fresh", "stale"} /\ inflight \in BOOLEAN
      /\ lock \in Workers \cup {None, Lost}
  BY Constants DEF QueueTypeOK
<1>2. Push => ready' \in 0 .. MaxCopies
  BY <1>1 DEF Push
<1>3. Enqueue => QueueTypeOK' /\ lock' = lock
  <2> SUFFICES ASSUME Enqueue
               PROVE  QueueTypeOK' /\ lock' = lock
    OBVIOUS
  <2>1. UNCHANGED <<delayed, active, lock>>
    BY DEF Enqueue
  <2>2. ready' \in 0 .. MaxCopies /\ inflight' \in BOOLEAN
    BY <1>1, <1>2 DEF Enqueue
  <2> QED
    BY <1>1, <2>1, <2>2 DEF QueueTypeOK
<1>4. (MoveDueDelayedToReady \/ RecoverStaleActive) =>
          QueueTypeOK' /\ lock' = lock
  BY <1>1, <1>2 DEF MoveDueDelayedToReady, RecoverStaleActive, QueueTypeOK
<1>5. (ReserveEntry \/ RequeueAfter \/ AckEntry \/ AgeActive) =>
          QueueTypeOK' /\ lock' = lock
  <2>1. ReserveEntry => ready' \in 0 .. MaxCopies
    BY <1>1 DEF ReserveEntry
  <2> QED
    BY <1>1, <2>1 DEF ReserveEntry, RequeueAfter, AckEntry, AgeActive, QueueTypeOK
<1>6. \A w \in Workers : TryAcquireJobLock(w) =>
          QueueTypeOK' /\ lock = None /\ lock' = w
  BY <1>1 DEF TryAcquireJobLock, QueueTypeOK
<1>7. \A w \in Workers : ReleaseLock(w) \/ AbandonLock(w) =>
          QueueTypeOK' /\ (lock # w => lock' = lock)
  BY <1>1 DEF ReleaseLock, AbandonLock, QueueTypeOK
<1>8. DropLock => QueueTypeOK'
  BY <1>1 DEF DropLock, QueueTypeOK
<1> QED
  BY <1>3, <1>4, <1>5, <1>6, <1>7, <1>8

OthersStay(w) == \A q \in Workers \ {w} : wk'[q] = wk[q]

\* The steps of a worker.
LEMMA Worked ==
    ASSUME TypeOK, NEW w \in Workers, NEW next \in WkSteps, WkStep(w, next)
    PROVE  /\ wk' \in [Workers -> [pc : WkSteps, answer : Answers]]
           /\ OthersStay(w) /\ wk'[w].pc = next /\ wk'[w].answer = wk[w].answer
           /\ UNCHANGED <<sub, can, rec>>
BY DEF TypeOK, WkStep, OthersStay

\* The types of the row's fields.
LEMMA RowTypes ==
    ASSUME TypeOK
    PROVE  /\ job \in Jobs /\ job.status \in Statuses /\ job.named \in BOOLEAN
           /\ job.hidden \in BOOLEAN /\ job.fresh \in BOOLEAN
           /\ job.retry \in 0 .. MaxRetries /\ job.retry \in Nat
           /\ job.settleErr \in BOOLEAN
           /\ upstream.cost \in Nat /\ faults \in Nat
           /\ upstream.state \in Answers \cup {"none"}
           /\ upstream = [state |-> upstream.state, cost |-> upstream.cost]
<1>1. MaxRetries \in Nat /\ Costs \subseteq Nat /\ MaxFaults \in Nat
  BY Constants
<1>2. job \in Jobs /\ faults \in 0 .. MaxFaults
      /\ upstream \in [state : Answers \cup {"none"}, cost : Costs \cup {0}]
  BY DEF TypeOK
<1>3. upstream.cost \in Nat /\ upstream.state \in Answers \cup {"none"}
      /\ upstream = [state |-> upstream.state, cost |-> upstream.cost]
  <2>1. /\ upstream.cost \in Costs \cup {0}
        /\ upstream.state \in Answers \cup {"none"}
        /\ upstream = [state |-> upstream.state, cost |-> upstream.cost]
    BY <1>2
  <2> QED
    BY <1>1, <2>1
<1> QED
  BY <1>1, <1>2, <1>3 DEF Jobs

\* While the locks hold, who works is alone.
LEMMA Alone ==
    ASSUME Inv, Calm, NEW w \in Workers, wk[w].pc \in Locked,
           NEW q \in Workers \ {w}
    PROVE  wk[q].pc \notin Locked
BY DEF Inv, WkCalm

\* The load is a number.
LEMMA LoadTypes ==
    ASSUME TypeOK
    PROVE  /\ Load \in Nat
           /\ One(Recording) \in Nat /\ One(sub = "queueFailed") \in Nat
           /\ One(Unmarked) \in Nat
BY RowTypes DEF Load, One

\* A step that adds no load it has not paid for with a fault.
Frugal == Load' + faults' <= Load + faults

\* What was paid for stays paid for.
LEMMA Accounts ==
    ASSUME TypeOK, TypeOK', Frugal,
           upstream.cost <= Hold => Load + faults <= MaxFaults,
           upstream'.cost <= Hold => upstream.cost <= Hold
    PROVE  upstream'.cost <= Hold => Load' + faults' <= MaxFaults
<1>1. /\ Load \in Nat /\ faults \in Nat /\ MaxFaults \in Nat
      /\ Load' \in Nat /\ faults' \in Nat
  <2>1. faults \in 0 .. MaxFaults /\ faults' \in 0 .. MaxFaults /\ MaxFaults \in Nat
    BY Constants DEF TypeOK
  <2>2. Load \in Nat
    BY LoadTypes
  <2>3. Load' \in Nat
    <3>1. job'.retry \in Nat
      <4>1. job' \in Jobs /\ MaxRetries \in Nat
        BY Constants DEF TypeOK
      <4> QED
        BY <4>1 DEF Jobs
    <3>2. /\ One(Recording)' \in Nat /\ One(sub = "queueFailed")' \in Nat
          /\ One(Unmarked)' \in Nat
      BY DEF One
    <3> QED
      BY <3>1, <3>2 DEF Load
  <2> QED
    BY <2>1, <2>2, <2>3
<1>2. PICK a \in Nat, b \in Nat, c \in Nat, d \in Nat :
         a = Load' /\ b = faults' /\ c = Load /\ d = faults
  BY <1>1
<1>3. a + b <= c + d /\ (upstream'.cost <= Hold => c + d <= MaxFaults)
  BY <1>2 DEF Frugal
<1>4. upstream'.cost <= Hold => a + b <= MaxFaults
  BY <1>1, <1>3
<1> QED
  BY <1>2, <1>4

\* A handler adds load only when the queue fails it.
LEMMA HandlerFrugal ==
    ASSUME TypeOK, Later, wk' = wk, job'.retry = job.retry, Unmarked' => Unmarked,
           sub' = "queueFailed" => sub = "queueFailed" \/ faults' < faults
    PROVE  Frugal
<1>1. One(Recording)' = One(Recording)
  BY DEF One, Recording
<1>2. /\ faults \in Nat /\ faults' \in Nat /\ faults' <= faults
      /\ job.retry \in Nat
  BY Constants, RowTypes DEF Later
<1>3. One(sub = "queueFailed")' + faults' <= One(sub = "queueFailed") + faults
  <2>1. CASE sub' = "queueFailed" /\ sub # "queueFailed"
    <3>1. faults' < faults
      BY <2>1
    <3>2. One(sub = "queueFailed")' = 1 /\ One(sub = "queueFailed") = 0
      BY <2>1 DEF One
    <3> QED
      BY <1>2, <3>1, <3>2
  <2>2. CASE sub' # "queueFailed" \/ sub = "queueFailed"
    <3>1. One(sub = "queueFailed")' = 0 \/ One(sub = "queueFailed") = 1
      BY <2>2 DEF One
    <3>2. /\ One(sub = "queueFailed")' \in {0, 1}
          /\ One(sub = "queueFailed") \in {0, 1}
      BY DEF One
    <3> QED
      BY <1>2, <3>1, <3>2
  <2> QED
    BY <2>1, <2>2
<1>4. One(Unmarked)' <= One(Unmarked)
  BY DEF One
<1>5. /\ One(Recording) \in Nat /\ One(sub = "queueFailed") \in Nat
      /\ One(Unmarked) \in Nat /\ One(sub = "queueFailed")' \in Nat
      /\ One(Unmarked)' \in Nat
  BY DEF One
<1> QED
  BY <1>1, <1>2, <1>3, <1>4, <1>5 DEF Frugal, Load

-----------------------------------------------------------------------------
(***************************************************************************)
(* Steps that change neither the row, nor the hold, nor a worker.          *)
(***************************************************************************)

\* Handlers go on, and the queue moves.
LEMMA Quiet ==
    ASSUME Inv, Later,
           UNCHANGED <<holdVars, lock, job, upstream, wk>>,
           QueueTypeOK', sub' \in SubSteps, can' \in CanSteps, rec' \in RecSteps,
           SubInv', CanInv', RecInv',
           sub' = "queueFailed" => sub = "queueFailed" \/ faults' < faults
    PROVE  Inv'
<1>1. TypeOK'
  BY DEF Inv, TypeOK, Later, HoldTypeOK, holdVars
<1>2. ClaimInv' /\ JobInv'
  BY DEF Inv, ClaimInv, JobInv, holdVars
<1>3. \A w \in Workers : WkInv(w)'
  BY DEF Inv, WkInv, Past
<1>4. ASSUME Calm'
      PROVE  MoneyInv' /\ \A w \in Workers : WkCalm(w)'
  <2>1. Calm /\ MoneyInv /\ \A w \in Workers : WkCalm(w)
    BY <1>4 DEF Inv, Later
  <2>2. \A w \in Workers : WkCalm(w)'
    BY <2>1 DEF WkCalm, holdVars
  <2>3. Frugal
    BY HandlerFrugal DEF Inv, Unmarked, Marking, holdVars
  <2>5. upstream'.cost <= Hold => Load' + faults' <= MaxFaults
    BY <1>1, <2>1, <2>3, Accounts DEF Inv, MoneyInv
  <2> QED
    BY <2>1, <2>2, <2>5 DEF MoneyInv, HoldOpen, Exhausted, holdVars
<1> QED
  BY <1>1, <1>2, <1>3, <1>4 DEF Inv

\* Submit goes on without the row, or its process dies.
LEMMA InvSubmitQuiet ==
    ASSUME Inv,
           \/ CreatePendingItems \/ EnqueueSubmitted \/ EnqueueBillingRetry
           \/ Resubmit \/ CrashSubmit
    PROVE  Inv'
<1>t. /\ TypeOK /\ QueueTypeOK /\ SubInv /\ CanInv /\ RecInv
      /\ sub \in SubSteps /\ can \in CanSteps /\ rec \in RecSteps
  BY DEF Inv, TypeOK
<1>u. UNCHANGED <<holdVars, lock, job, upstream, wk, can, rec>>
  BY DEF CreatePendingItems, EnqueueSubmitted, EnqueueBillingRetry, Resubmit,
         CrashSubmit, EnqueueJob, SubStep, SameJob, Enqueue, queueVars
<1>f. Later /\ (NoFault \/ faults' < faults)
  <2>1. \A kind : Fault(kind) => Later /\ faults' < faults
    <3>1. faults \in Nat
      BY <1>t, RowTypes
    <3> QED
      BY <1>t, <3>1, Faulty
  <2>2. NoFault => Later
    BY <1>t, Faulty
  <2> QED
    BY <2>1, <2>2
       DEF CreatePendingItems, EnqueueSubmitted, EnqueueBillingRetry, Resubmit,
           CrashSubmit, EnqueueJob
<1>q. QueueTypeOK'
  <2>1. Enqueue => QueueTypeOK'
    BY <1>t, QueueTypes
  <2>2. UNCHANGED queueVars => QueueTypeOK'
    BY <1>t DEF QueueTypeOK, queueVars
  <2> QED
    BY <2>1, <2>2
       DEF CreatePendingItems, EnqueueSubmitted, EnqueueBillingRetry, Resubmit,
           CrashSubmit, EnqueueJob
<1>s. /\ sub # "idle" /\ sub' \in {"upload", "release", "done", "queueFailed",
                                   "enqueue"}
      /\ sub' \in {"upload", "release"} => sub = "items"
      /\ sub' = "queueFailed" => faults' < faults
  <2>1. faults \in Nat /\ (\A kind : Fault(kind) => faults' < faults)
    BY <1>t, Faulty, RowTypes
  <2> QED
    BY <2>1
       DEF CreatePendingItems, EnqueueSubmitted, EnqueueBillingRetry, Resubmit,
           CrashSubmit, EnqueueJob, SubStep
<1>1. sub' \in SubSteps
  BY <1>s DEF SubSteps
<1>2. SubInv'
  BY <1>t, <1>u, <1>s DEF SubInv, holdVars, Early, Failing
<1>3. CanInv' /\ RecInv'
  BY <1>t, <1>u DEF CanInv, RecInv
<1> QED
  BY <1>t, <1>u, <1>f, <1>q, <1>s, <1>1, <1>2, <1>3, Quiet

\* Cancel reads the row, enqueues the batch, or dies.
LEMMA InvCancelQuiet ==
    ASSUME Inv, CancelRead \/ CancelEnqueue \/ CancelRetry \/ CrashCancel
    PROVE  Inv'
<1>t. /\ TypeOK /\ QueueTypeOK /\ SubInv /\ CanInv /\ RecInv
      /\ sub \in SubSteps /\ can \in CanSteps /\ rec \in RecSteps
  BY DEF Inv, TypeOK
<1>u. UNCHANGED <<holdVars, lock, job, upstream, wk, sub, rec>>
  BY DEF CancelRead, CancelEnqueue, CancelRetry, CrashCancel, EnqueueJob,
         CanStep, SameJob, Enqueue, queueVars
<1>f. Later
  BY <1>t, Faulty DEF CancelRead, CancelEnqueue, CancelRetry, CrashCancel,
                      EnqueueJob
<1>q. QueueTypeOK'
  <2>1. Enqueue => QueueTypeOK'
    BY <1>t, QueueTypes
  <2>2. UNCHANGED queueVars => QueueTypeOK'
    BY <1>t DEF QueueTypeOK, queueVars
  <2> QED
    BY <2>1, <2>2 DEF CancelRead, CancelEnqueue, CancelRetry, CrashCancel,
                      EnqueueJob
<1>s. /\ can' \in {"idle", "release", "provider", "transition"}
      /\ can' = "release" => job.status \in {"failed", "cancelled"}
  BY DEF CancelRead, CancelEnqueue, CancelRetry, CrashCancel, EnqueueJob, CanStep
<1>1. can' \in CanSteps
  BY <1>s DEF CanSteps
<1>2. SubInv' /\ RecInv' /\ CanInv'
  BY <1>t, <1>u, <1>s DEF SubInv, RecInv, CanInv, holdVars
<1> QED
  BY <1>t, <1>u, <1>f, <1>q, <1>1, <1>2, Quiet

\* The recovery lists the batch, enqueues it, or dies.
LEMMA InvRecoveryQuiet ==
    ASSUME Inv, ListStaleUnsubmitted \/ RecoveryRetry \/ CrashRecovery
    PROVE  Inv'
<1>t. /\ TypeOK /\ QueueTypeOK /\ SubInv /\ CanInv /\ RecInv
      /\ sub \in SubSteps /\ can \in CanSteps /\ rec \in RecSteps
  BY DEF Inv, TypeOK
<1>u. UNCHANGED <<holdVars, lock, job, upstream, wk, sub, can>>
  BY DEF ListStaleUnsubmitted, RecoveryRetry, CrashRecovery, EnqueueJob,
         RecStep, SameJob, Enqueue, queueVars
<1>f. Later
  BY <1>t, Faulty DEF ListStaleUnsubmitted, RecoveryRetry, CrashRecovery,
                      EnqueueJob
<1>q. QueueTypeOK'
  <2>1. Enqueue => QueueTypeOK'
    BY <1>t, QueueTypes
  <2>2. UNCHANGED queueVars => QueueTypeOK'
    BY <1>t DEF QueueTypeOK, queueVars
  <2> QED
    BY <2>1, <2>2 DEF ListStaleUnsubmitted, RecoveryRetry, CrashRecovery,
                      EnqueueJob
<1>s. rec' \in {"idle", "fail"}
  BY DEF ListStaleUnsubmitted, RecoveryRetry, CrashRecovery, EnqueueJob, RecStep
<1>1. rec' \in RecSteps
  BY <1>s DEF RecSteps
<1>2. SubInv' /\ RecInv' /\ CanInv'
  BY <1>t, <1>u, <1>s DEF SubInv, RecInv, CanInv, holdVars
<1> QED
  BY <1>t, <1>u, <1>f, <1>q, <1>1, <1>2, Quiet

-----------------------------------------------------------------------------
(***************************************************************************)
(* The hold.                                                               *)
(***************************************************************************)

\* What a release does to the hold, whoever makes it.
LEMMA Released ==
    ASSUME Inv, Release
    PROVE  /\ HoldTypeOK' /\ ClaimInv'
           /\ moved \subseteq moved' /\ moved' \subseteq moved \cup {"release"}
           /\ "release" \in moved' => "hold" \in moved
           /\ /\ purse.frozen = Other + (IF HoldOpen THEN Hold ELSE 0)
              /\ "capture" \notin moved
              => purse'.frozen = Other + (IF HoldOpen' THEN Hold ELSE 0)
<1>t. /\ HoldTypeOK /\ ClaimInv /\ Hold \in Nat \ {0} /\ Other \in Nat
  BY Constants DEF Inv, TypeOK
<1>1. CASE AlreadyClaimed("release")
  BY <1>t, <1>1 DEF AlreadyClaimed, holdVars, HoldTypeOK, ClaimInv, HoldOpen
<1>2. CASE /\ Unclaimed("release") /\ Unclaimed("hold")
           /\ claims' = claims \cup {"release"}
           /\ UNCHANGED <<purse, moved>>
  BY <1>t, <1>2 DEF Unclaimed, HoldTypeOK, ClaimInv, HoldOpen, Requests
<1>3. CASE /\ ~Unclaimed("hold") /\ EnoughFrozen
           /\ Move("release", purse.balance + Hold, purse.frozen - Hold)
  <2>1. /\ purse' = [balance |-> purse.balance + Hold,
                     frozen |-> purse.frozen - Hold]
        /\ claims' = claims \cup {"release"} /\ moved' = moved \cup {"release"}
        /\ "release" \notin claims /\ "hold" \in moved
        /\ purse.frozen >= Hold
    BY <1>t, <1>3 DEF Move, Unclaimed, EnoughFrozen, ClaimInv
  <2>2. /\ purse.balance \in Nat /\ purse.frozen \in Nat
        /\ moved \subseteq claims /\ claims \subseteq Requests
    BY <1>t DEF HoldTypeOK
  <2>3. HoldTypeOK'
    BY <1>t, <2>1, <2>2 DEF HoldTypeOK, Requests
  <2>4. ClaimInv'
    BY <1>t, <2>1 DEF ClaimInv
  <2>5. ASSUME "capture" \notin moved
        PROVE  HoldOpen /\ ~HoldOpen'
    BY <2>1, <2>2, <2>5 DEF HoldOpen, Requests
  <2>6. purse'.frozen = purse.frozen - Hold
    BY <2>1
  <2> QED
    BY <1>t, <2>1, <2>2, <2>3, <2>4, <2>5, <2>6
<1> QED
  BY <1>1, <1>2, <1>3 DEF Release

\* A handler gives the hold back: of a batch that does not run, or has ended.
LEMMA HandlerReleases ==
    ASSUME Inv, Later, Release, UNCHANGED <<queueVars, job, upstream, wk>>,
           job.status \notin {"submitted", "running", "indexing", "settling",
                              "completed"},
           sub' \in SubSteps, can' \in CanSteps, rec' \in RecSteps,
           SubInv', CanInv', RecInv', sub' = "queueFailed" => sub = "queueFailed"
    PROVE  Inv'
<1>r. /\ HoldTypeOK' /\ ClaimInv'
      /\ moved \subseteq moved' /\ moved' \subseteq moved \cup {"release"}
      /\ "release" \in moved' => "hold" \in moved
      /\ /\ purse.frozen = Other + (IF HoldOpen THEN Hold ELSE 0)
         /\ "capture" \notin moved
         => purse'.frozen = Other + (IF HoldOpen' THEN Hold ELSE 0)
  BY Released
<1>1. TypeOK'
  BY <1>r DEF Inv, TypeOK, Later, QueueTypeOK, queueVars
<1>2. JobInv'
  BY <1>r DEF Inv, JobInv
<1>3. \A w \in Workers : WkInv(w)'
  BY DEF Inv, WkInv, Past
<1>4. ASSUME Calm'
      PROVE  MoneyInv' /\ \A w \in Workers : WkCalm(w)'
  <2>1. Calm /\ MoneyInv /\ \A w \in Workers : WkCalm(w)
    BY <1>4 DEF Inv, Later
  <2>2. "capture" \notin moved /\ "capture" \notin moved'
    BY <1>r, <2>1 DEF MoneyInv
  <2>3. \A w \in Workers : wk[w].pc \notin Indexing \cup Settling
    BY <2>1 DEF WkCalm
  <2>4. \A w \in Workers : WkCalm(w)'
    BY <2>1, <2>3 DEF WkCalm, Settling, queueVars
  <2>5. Frugal
    BY <2>2, HandlerFrugal DEF Inv, Unmarked
  <2>6. upstream'.cost <= Hold => Load' + faults' <= MaxFaults
    BY <1>1, <2>1, <2>5, Accounts DEF Inv, MoneyInv
  <2> QED
    BY <1>r, <2>1, <2>2, <2>4, <2>6 DEF MoneyInv
<1> QED
  BY <1>r, <1>1, <1>2, <1>3, <1>4 DEF Inv

\* Submit, Cancel or the recovery tries to give the hold back.
LEMMA InvHandlerRelease ==
    ASSUME Inv, ReleaseFailedSubmitHold \/ CancelRelease \/ RecoveryRelease
    PROVE  Inv'
<1>t. /\ TypeOK /\ JobInv /\ SubInv /\ CanInv /\ RecInv /\ QueueTypeOK
      /\ sub \in SubSteps /\ can \in CanSteps /\ rec \in RecSteps
  BY DEF Inv, TypeOK
<1>u. UNCHANGED <<queueVars, job, upstream, wk>>
  BY DEF ReleaseFailedSubmitHold, CancelRelease, RecoveryRelease, ReleaseHold,
         SubStep, CanStep, RecStep, SameJob
<1>f. Later
  BY <1>t, Faulty DEF ReleaseFailedSubmitHold, CancelRelease, RecoveryRelease,
                      ReleaseHold
<1>s. \/ /\ sub \in {"release", "releaseOnly"}
         /\ sub' \in {"fail", "done", "releaseFailed"}
         /\ can' = can /\ rec' = rec
      \/ can = "release" /\ can' \in {"idle", "retry"} /\ sub' = sub /\ rec' = rec
      \/ rec = "release" /\ rec' \in {"idle", "retry"} /\ sub' = sub /\ can' = can
  BY DEF ReleaseFailedSubmitHold, CancelRelease, RecoveryRelease, ReleaseHold,
         SubStep, CanStep, RecStep
<1>1. /\ sub' \in SubSteps /\ can' \in CanSteps /\ rec' \in RecSteps
      /\ sub' = "queueFailed" => sub = "queueFailed"
  BY <1>t, <1>s DEF SubSteps, CanSteps, RecSteps
<1>2. CanInv' /\ RecInv'
  BY <1>t, <1>u, <1>s DEF CanInv, RecInv
<1>3. job.status \notin {"submitted", "running", "indexing", "settling",
                         "completed"}
  BY <1>t, <1>s DEF JobInv, SubInv, CanInv, RecInv, Failing
<1>4. CASE UNCHANGED holdVars
  <2>1. SubInv'
    BY <1>t, <1>u, <1>s, <1>4 DEF SubInv, holdVars, Early, Failing
  <2>2. QueueTypeOK' /\ lock' = lock
    BY <1>t, <1>u DEF QueueTypeOK, queueVars
  <2> QED
    BY <1>u, <1>f, <1>1, <1>2, <1>4, <2>1, <2>2, Quiet
<1>5. CASE Release
  <2>1. /\ moved \subseteq moved' /\ moved' \subseteq moved \cup {"release"}
    BY <1>5, Released
  <2>2. SubInv'
    <3>1. CASE sub' = sub
      <4>1. job.status \in {"failed", "cancelled"}
        BY <1>t, <1>s, <3>1 DEF CanInv, RecInv
      <4> QED
        BY <1>t, <1>u, <2>1, <3>1, <4>1 DEF SubInv, Unsubmitted
    <3>2. CASE /\ sub \in {"release", "releaseOnly"}
               /\ sub' \in {"fail", "done", "releaseFailed"}
      BY <1>t, <1>u, <2>1, <3>2 DEF SubInv, Early, Failing
    <3> QED
      BY <1>s, <3>1, <3>2
  <2> QED
    BY <1>u, <1>f, <1>1, <1>2, <1>3, <1>5, <2>2, HandlerReleases
<1> QED
  BY <1>4, <1>5
     DEF ReleaseFailedSubmitHold, CancelRelease, RecoveryRelease, ReleaseHold

-----------------------------------------------------------------------------
(***************************************************************************)
(* The row, in the handlers.                                               *)
(***************************************************************************)

\* The status of a batch changes that no worker has seen succeed.
LEMMA HandlerMoves ==
    ASSUME Inv, Later, UNCHANGED <<holdVars, queueVars, upstream, wk>>,
           job' \in Jobs, job'.retry = job.retry, job.named => job'.named,
           job.status \notin {"indexing", "settling", "completed"},
           ~(job.named /\ job.status = "failed"),
           job'.status \notin {"indexing", "settling", "completed"},
           job.status \in {"failed", "cancelled"} =>
              job'.status \in {"failed", "cancelled"},
           sub' \in SubSteps, can' \in CanSteps, rec' \in RecSteps,
           sub' = "queueFailed" => sub = "queueFailed",
           JobInv', SubInv', CanInv', RecInv'
    PROVE  Inv'
<1>1. TypeOK'
  BY DEF Inv, TypeOK, Later, HoldTypeOK, holdVars, QueueTypeOK, queueVars
<1>2. ClaimInv'
  BY DEF Inv, ClaimInv, holdVars
<1>3. ~Past
  BY DEF Past
<1>4. \A w \in Workers : wk[w].pc \notin Indexing \cup Settling
  BY <1>3 DEF Inv, WkInv
<1>5. \A w \in Workers : WkInv(w)'
  BY <1>4 DEF Inv, WkInv, Settling
<1>6. ASSUME Calm'
      PROVE  MoneyInv' /\ \A w \in Workers : WkCalm(w)'
  <2>1. Calm /\ MoneyInv /\ \A w \in Workers : WkCalm(w)
    BY <1>6 DEF Inv, Later
  <2>2. "capture" \notin moved /\ moved' = moved /\ purse' = purse
    BY <2>1 DEF MoneyInv, holdVars
  <2>3. \A w \in Workers : WkCalm(w)'
    BY <1>4, <2>1 DEF WkCalm, Settling, queueVars
  <2>4. Frugal
    BY <2>2, HandlerFrugal DEF Inv, Unmarked
  <2>5. upstream'.cost <= Hold => Load' + faults' <= MaxFaults
    BY <1>1, <2>1, <2>4, Accounts DEF Inv, MoneyInv
  <2> QED
    BY <2>1, <2>2, <2>3, <2>5 DEF MoneyInv, HoldOpen
<1> QED
  BY <1>1, <1>2, <1>5, <1>6 DEF Inv

\* The row is touched: its age, its visibility, or the error of its settlement,
\* which no settlement can have exhausted while the queue fails Submit.
LEMMA HandlerTouches ==
    ASSUME Inv, Later, UNCHANGED <<holdVars, queueVars, upstream, wk, can, rec>>,
           job' \in Jobs, job'.retry = job.retry, job'.named = job.named,
           job'.status = job.status,
           job'.settleErr = job.settleErr \/ sub = "queueFailed",
           sub' \in SubSteps, sub' = "queueFailed" => sub = "queueFailed", SubInv'
    PROVE  Inv'
<1>1. TypeOK'
  BY DEF Inv, TypeOK, Later, HoldTypeOK, holdVars, QueueTypeOK, queueVars
<1>2. ClaimInv' /\ JobInv' /\ CanInv' /\ RecInv'
  BY DEF Inv, ClaimInv, holdVars, JobInv, CanInv, RecInv
<1>3. \A w \in Workers : WkInv(w)'
  BY DEF Inv, WkInv, Past
<1>4. ASSUME Calm'
      PROVE  MoneyInv' /\ \A w \in Workers : WkCalm(w)'
  <2>1. Calm /\ MoneyInv /\ \A w \in Workers : WkCalm(w)
    BY <1>4 DEF Inv, Later
  <2>2. moved' = moved /\ purse' = purse
    BY DEF holdVars
  <2>3. ASSUME upstream.cost <= Hold, job.retry >= MaxRetries
        PROVE  job'.settleErr = job.settleErr
    <3>1. /\ Load + faults <= MaxFaults /\ MaxFaults - faults <= MaxRetries
      BY <2>1, <2>3 DEF MoneyInv, Calm
    <3>2. /\ job.retry \in Nat /\ faults \in Nat /\ MaxFaults \in Nat
          /\ MaxRetries \in Nat
          /\ One(Recording) \in Nat /\ One(Unmarked) \in Nat
          /\ One(sub = "queueFailed") \in Nat
      BY RowTypes, LoadTypes, Constants DEF Inv
    <3>3. One(sub = "queueFailed") = 0
      <4>1. PICK a \in Nat, b \in Nat, c \in Nat, d \in Nat :
               /\ a = One(Recording) /\ b = One(sub = "queueFailed")
               /\ c = One(Unmarked) /\ d = faults
        BY <3>2
      <4>2. job.retry + a + b + c + d <= MaxFaults
        BY <3>1, <4>1 DEF Load
      <4>3. MaxFaults - d <= MaxRetries
        BY <3>1, <4>1
      <4>4. b = 0
        BY <2>3, <3>2, <4>2, <4>3
      <4> QED
        BY <4>1, <4>4
    <3>4. sub # "queueFailed"
      BY <3>3 DEF One
    <3> QED
      BY <3>4
  <2>4. \A w \in Workers : WkCalm(w)'
    BY <2>1, <2>2, <2>3 DEF WkCalm, queueVars
  <2>5. Frugal
    BY <2>2, HandlerFrugal DEF Inv, Unmarked, Marking
  <2>6. upstream'.cost <= Hold => Load' + faults' <= MaxFaults
    BY <1>1, <2>1, <2>5, Accounts DEF Inv, MoneyInv
  <2> QED
    BY <2>1, <2>2, <2>3, <2>4, <2>6 DEF MoneyInv, HoldOpen, Exhausted
<1> QED
  BY <1>1, <1>2, <1>3, <1>4 DEF Inv

\* The status as an UPDATE leaves it.
LEMMA Moved ==
    ASSUME TypeOK, NEW to \in Statuses, MoveTo(to)
    PROVE  /\ job' \in Jobs /\ job'.status = to /\ job'.named = job.named
           /\ job'.retry = job.retry /\ job'.settleErr = job.settleErr
BY RowTypes DEF MoveTo, Jobs

\* The row is created, and the upload begins.
LEMMA InvBegin ==
    ASSUME Inv, CreateJob \/ BeginUpload
    PROVE  Inv'
<1>t. /\ TypeOK /\ ClaimInv /\ JobInv /\ SubInv /\ CanInv /\ RecInv /\ QueueTypeOK
      /\ sub \in SubSteps /\ can \in CanSteps /\ rec \in RecSteps
  BY DEF Inv, TypeOK
<1>u. UNCHANGED <<holdVars, queueVars, upstream, wk, can, rec>>
  BY DEF CreateJob, BeginUpload, SubStep
<1>f. Later
  BY <1>t, Faulty DEF CreateJob, BeginUpload
<1>s. {"created", "uploading"} \subseteq Statuses
  BY DEF Statuses, Unsubmitted
<1>1. CASE CreateJob
  <2>1. /\ sub = "idle" /\ job.status = "none" /\ sub' = "reserve"
        /\ MoveTo("created")
    BY <1>1 DEF CreateJob, SubStep
  <2>2. /\ job' \in Jobs /\ job'.status = "created" /\ job'.named = job.named
        /\ job'.retry = job.retry
    BY <1>t, <1>s, <2>1, Moved
  <2>3. ~job.named /\ "hold" \notin moved /\ "release" \notin moved
        /\ "capture" \notin moved
    BY <1>t, <2>1 DEF SubInv, ClaimInv, Early
  <2>4. SubInv'
    BY <1>t, <1>u, <2>1, <2>2, <2>3 DEF SubInv, holdVars, Early, Failing
  <2>5. JobInv'
    BY <1>t, <1>u, <2>2, <2>3 DEF JobInv, holdVars
  <2>6. CanInv' /\ RecInv'
    BY <1>t, <1>u, <2>1 DEF CanInv, RecInv
  <2>7. sub' \in SubSteps /\ can' \in CanSteps /\ rec' \in RecSteps
    BY <1>t, <1>u, <2>1 DEF SubSteps
  <2> QED
    BY <1>u, <1>f, <2>1, <2>2, <2>3, <2>4, <2>5, <2>6, <2>7, HandlerMoves
<1>2. CASE BeginUpload
  <2>1. /\ sub = "upload" /\ sub' \in {"provider", "release", "releaseOnly"}
        /\ sub' \in SubSteps /\ can' \in CanSteps /\ rec' \in RecSteps
    BY <1>2, <1>t, <1>u DEF BeginUpload, SubStep, SubSteps
  <2>2. CASE /\ CanTransition("uploading") /\ MoveTo("uploading")
             /\ sub' \in {"provider", "release"}
    <3>1. job.status = "created"
      BY <1>t, <2>2, RowTypes DEF CanTransition, Allowed
    <3>2. /\ job' \in Jobs /\ job'.status = "uploading"
          /\ job'.named = job.named /\ job'.retry = job.retry
      BY <1>t, <1>s, <2>2, Moved
    <3>3. ~job.named /\ "release" \notin moved
      BY <1>t, <2>1, <3>1 DEF SubInv, Early, Unsubmitted
    <3>4. SubInv'
      BY <1>t, <1>u, <2>1, <2>2, <3>2, <3>3
         DEF SubInv, holdVars, Early, Failing
    <3>5. JobInv'
      BY <1>t, <1>u, <3>2, <3>3 DEF JobInv, holdVars
    <3>6. CanInv' /\ RecInv'
      BY <1>t, <1>u, <3>1 DEF CanInv, RecInv
    <3> QED
      BY <1>u, <1>f, <2>1, <3>1, <3>2, <3>3, <3>4, <3>5, <3>6, HandlerMoves
  <2>3. CASE UNCHANGED job /\ sub' \in {"release", "releaseOnly"}
    <3>1. SubInv'
      BY <1>t, <1>u, <2>1, <2>3 DEF SubInv, holdVars, Early, Failing
    <3>2. CanInv' /\ RecInv'
      BY <1>t, <1>u, <2>3 DEF CanInv, RecInv
    <3>3. QueueTypeOK' /\ lock' = lock
      BY <1>t, <1>u DEF QueueTypeOK, queueVars
    <3> QED
      BY <1>u, <1>f, <2>1, <2>3, <3>1, <3>2, <3>3, Quiet
  <2> QED
    BY <1>2, <2>2, <2>3 DEF BeginUpload, SubStep
<1> QED
  BY <1>1, <1>2

\* The name is stored, or the provider's batch is to be aborted.
LEMMA InvName ==
    ASSUME Inv, UpdateProviderSubmit
    PROVE  Inv'
<1>t. /\ TypeOK /\ ClaimInv /\ JobInv /\ SubInv /\ CanInv /\ RecInv /\ QueueTypeOK
      /\ sub \in SubSteps /\ can \in CanSteps /\ rec \in RecSteps
  BY DEF Inv, TypeOK
<1>u. UNCHANGED <<holdVars, queueVars, upstream, wk, can, rec>> /\ sub = "name"
  BY DEF UpdateProviderSubmit, SubStep
<1>f. Later
  BY <1>t, Faulty DEF UpdateProviderSubmit
<1>s. /\ sub' \in {"enqueue", "abort"} /\ sub' \in SubSteps
      /\ can' \in CanSteps /\ rec' \in RecSteps
  BY <1>t, <1>u DEF UpdateProviderSubmit, SubStep, SubSteps
<1>1. CASE /\ CanTransition("submitted")
           /\ job' = [job EXCEPT !.status = "submitted", !.named = TRUE,
                                 !.fresh = TRUE]
  <2>1. job.status \in {"created", "uploading"}
    BY <1>t, <1>1, RowTypes DEF CanTransition, Allowed
  <2>2. /\ job' \in Jobs /\ job'.status = "submitted" /\ job'.named
        /\ job'.retry = job.retry
    BY <1>t, <1>1, RowTypes DEF Jobs, Statuses
  <2>3. /\ "release" \notin moved /\ "hold" \in moved /\ upstream.state # "none"
        /\ ~job.named
    BY <1>t, <1>u, <2>1 DEF SubInv, Unsubmitted
  <2>4. SubInv'
    BY <1>t, <1>u, <1>s, <2>2 DEF SubInv, holdVars, Early, Failing
  <2>5. JobInv'
    BY <1>t, <1>u, <2>2, <2>3 DEF JobInv, holdVars, Unsubmitted
  <2>6. CanInv' /\ RecInv'
    BY <1>t, <1>u, <2>1 DEF CanInv, RecInv
  <2> QED
    BY <1>u, <1>f, <1>s, <2>1, <2>2, <2>3, <2>4, <2>5, <2>6, HandlerMoves
<1>2. CASE UNCHANGED job
  <2>1. SubInv'
    BY <1>t, <1>u, <1>s, <1>2 DEF SubInv, holdVars, Early, Failing
  <2>2. CanInv' /\ RecInv'
    BY <1>t, <1>u, <1>2 DEF CanInv, RecInv
  <2>3. QueueTypeOK' /\ lock' = lock
    BY <1>t, <1>u DEF QueueTypeOK, queueVars
  <2> QED
    BY <1>u, <1>f, <1>s, <1>2, <2>1, <2>2, <2>3, Quiet
<1> QED
  BY <1>1, <1>2 DEF UpdateProviderSubmit

\* Submit fails: the row says so, whatever its status is.
LEMMA InvSubmitFails ==
    ASSUME Inv, RecordSubmitFailure
    PROVE  Inv'
<1>t. /\ TypeOK /\ ClaimInv /\ JobInv /\ SubInv /\ CanInv /\ RecInv /\ QueueTypeOK
      /\ sub \in SubSteps /\ can \in CanSteps /\ rec \in RecSteps
  BY DEF Inv, TypeOK
<1>u. /\ UNCHANGED <<holdVars, queueVars, upstream, wk, can, rec>>
      /\ sub \in {"fail", "releaseFailed"} /\ sub' \in {"hide", "retry"}
  BY DEF RecordSubmitFailure, SubStep
<1>f. Later
  BY <1>t, Faulty DEF RecordSubmitFailure
<1>s. sub' \in SubSteps /\ can' \in CanSteps /\ rec' \in RecSteps
  BY <1>t, <1>u DEF SubSteps
<1>n. ~job.named /\ job.status # "none"
  BY <1>t, <1>u DEF SubInv, Failing
<1>1. CASE RecordFailure
  <2>1. /\ job' \in Jobs /\ job'.status = "failed" /\ job'.named = job.named
        /\ job'.retry = job.retry
    BY <1>t, <1>1, RowTypes DEF RecordFailure, Jobs, Statuses, Terminal
  <2>2. job.status \notin {"submitted", "running", "indexing", "settling",
                           "completed"}
    BY <1>t, <1>n DEF JobInv
  <2>3. SubInv'
    BY <1>t, <1>u, <1>n, <2>1 DEF SubInv, holdVars, Early, Failing
  <2>4. JobInv'
    BY <1>t, <1>u, <1>n, <2>1 DEF JobInv, holdVars
  <2>5. CanInv' /\ RecInv'
    BY <1>t, <1>u, <2>1 DEF CanInv, RecInv
  <2> QED
    BY <1>u, <1>f, <1>s, <1>n, <2>1, <2>2, <2>3, <2>4, <2>5, HandlerMoves
<1>2. CASE UNCHANGED job
  <2>1. SubInv'
    BY <1>t, <1>u, <1>2 DEF SubInv, holdVars, Early, Failing
  <2>2. CanInv' /\ RecInv'
    BY <1>t, <1>u, <1>2 DEF CanInv, RecInv
  <2>3. QueueTypeOK' /\ lock' = lock
    BY <1>t, <1>u DEF QueueTypeOK, queueVars
  <2> QED
    BY <1>u, <1>f, <1>s, <1>2, <2>1, <2>2, <2>3, Quiet
<1> QED
  BY <1>1, <1>2 DEF RecordSubmitFailure

\* Cancel, or the recovery, ends a batch in its row.
LEMMA InvEndsHere ==
    ASSUME Inv, CancelTransition \/ FailStaleUnsubmitted
    PROVE  Inv'
<1>t. /\ TypeOK /\ ClaimInv /\ JobInv /\ SubInv /\ CanInv /\ RecInv /\ QueueTypeOK
      /\ sub \in SubSteps /\ can \in CanSteps /\ rec \in RecSteps
  BY DEF Inv, TypeOK
<1>u. UNCHANGED <<holdVars, queueVars, upstream, wk, sub>>
  BY DEF CancelTransition, FailStaleUnsubmitted, CanStep, RecStep
<1>f. Later
  BY <1>t, Faulty DEF CancelTransition, FailStaleUnsubmitted
<1>s. /\ sub' \in SubSteps /\ can' \in CanSteps /\ rec' \in RecSteps
      /\ \/ can' \in {"release", "idle"} /\ rec' = rec
         \/ rec' \in {"release", "idle"} /\ can' = can
  BY <1>t, <1>u DEF CancelTransition, FailStaleUnsubmitted, CanStep, RecStep,
                    CanSteps, RecSteps
<1>1. CASE /\ CanTransition("cancelled") /\ MoveTo("cancelled")
           /\ can' \in {"release", "idle"} /\ rec' = rec
  <2>1. job.status \in {"created", "uploading", "submitted", "running"}
    BY <1>t, <1>1, RowTypes DEF CanTransition, Allowed
  <2>2. /\ job' \in Jobs /\ job'.status = "cancelled" /\ job'.named = job.named
        /\ job'.retry = job.retry
    BY <1>t, <1>1, Moved DEF Statuses, Terminal
  <2>3. SubInv'
    BY <1>t, <1>u, <2>1, <2>2 DEF SubInv, holdVars, Unsubmitted
  <2>4. JobInv'
    BY <1>t, <1>u, <2>1, <2>2 DEF JobInv, holdVars, Unsubmitted
  <2>5. CanInv' /\ RecInv'
    BY <1>t, <1>1, <2>1, <2>2 DEF CanInv, RecInv
  <2> QED
    BY <1>u, <1>f, <1>s, <2>1, <2>2, <2>3, <2>4, <2>5, HandlerMoves
<1>2. CASE /\ StaleUnsubmitted /\ MoveTo("failed")
           /\ rec' \in {"release", "idle"} /\ can' = can
  <2>1. job.status \in Unsubmitted /\ ~job.named
    BY <1>2 DEF StaleUnsubmitted
  <2>2. /\ job' \in Jobs /\ job'.status = "failed" /\ job'.named = job.named
        /\ job'.retry = job.retry
    BY <1>t, <1>2, Moved DEF Statuses, Terminal
  <2>3. SubInv'
    BY <1>t, <1>u, <2>1, <2>2 DEF SubInv, holdVars, Unsubmitted
  <2>4. JobInv'
    BY <1>t, <1>u, <2>1, <2>2 DEF JobInv, holdVars, Unsubmitted
  <2>5. CanInv' /\ RecInv'
    BY <1>t, <1>2, <2>1, <2>2 DEF CanInv, RecInv, Unsubmitted
  <2> QED
    BY <1>u, <1>f, <1>s, <2>1, <2>2, <2>3, <2>4, <2>5, HandlerMoves
       DEF Unsubmitted
<1>3. CASE /\ UNCHANGED job
           /\ \/ can' = "idle" /\ rec' = rec
              \/ rec' = "idle" /\ can' = can
  <2>1. SubInv' /\ CanInv' /\ RecInv'
    BY <1>t, <1>u, <1>3 DEF SubInv, CanInv, RecInv, holdVars
  <2>2. QueueTypeOK' /\ lock' = lock
    BY <1>t, <1>u DEF QueueTypeOK, queueVars
  <2> QED
    BY <1>u, <1>f, <1>s, <1>3, <2>1, <2>2, Quiet
<1> QED
  BY <1>1, <1>2, <1>3 DEF CancelTransition, FailStaleUnsubmitted, CanStep, RecStep

\* The row is touched, hidden, or falls behind the recovery's cutoff.
LEMMA InvTouch ==
    ASSUME Inv,
           \/ TouchSubmitting \/ RecordQueueFailure \/ DeleteRecord \/ AgeRow
           \/ HidePreUpstreamSubmitFailure
    PROVE  Inv'
<1>t. /\ TypeOK /\ SubInv /\ sub \in SubSteps
  BY DEF Inv, TypeOK
<1>u. UNCHANGED <<holdVars, queueVars, upstream, wk, can, rec>>
  BY DEF TouchSubmitting, RecordQueueFailure, DeleteRecord, AgeRow,
         HidePreUpstreamSubmitFailure, SubStep, actorVars
<1>f. Later
  BY <1>t, Faulty DEF TouchSubmitting, RecordQueueFailure, DeleteRecord, AgeRow,
                      HidePreUpstreamSubmitFailure, MarkUserDeleted
<1>1. /\ job' \in Jobs /\ job'.retry = job.retry /\ job'.named = job.named
      /\ job'.status = job.status
      /\ job'.settleErr = job.settleErr \/ sub = "queueFailed"
  <2>1. job \in Jobs
    BY <1>t, RowTypes
  <2> QED
    BY <2>1 DEF TouchSubmitting, RecordQueueFailure, DeleteRecord, AgeRow,
                HidePreUpstreamSubmitFailure, MarkUserDeleted, Jobs
<1>2. sub' = sub \/ (sub' = "done" /\ sub \in {"hide", "queueFailed"})
  BY DEF TouchSubmitting, RecordQueueFailure, DeleteRecord, AgeRow,
         HidePreUpstreamSubmitFailure, SubStep, actorVars
<1>3. sub' \in SubSteps /\ (sub' = "queueFailed" => sub = "queueFailed")
  BY <1>t, <1>2 DEF SubSteps
<1>4. SubInv'
  BY <1>t, <1>u, <1>1, <1>2 DEF SubInv, holdVars, Early, Failing
<1> QED
  BY <1>u, <1>f, <1>1, <1>3, <1>4, HandlerTouches

\* The hold is reserved.
LEMMA InvReserve ==
    ASSUME Inv, ReserveBalance
    PROVE  Inv'
<1>t. /\ TypeOK /\ ClaimInv /\ JobInv /\ SubInv /\ CanInv /\ RecInv /\ QueueTypeOK
      /\ sub \in SubSteps /\ can \in CanSteps /\ rec \in RecSteps /\ HoldTypeOK
      /\ Hold \in Nat \ {0} /\ Other \in Nat
  BY Constants DEF Inv, TypeOK
<1>u. /\ UNCHANGED <<queueVars, job, upstream, wk, can, rec>>
      /\ sub = "reserve" /\ sub' \in {"items", "fail"}
  BY DEF ReserveBalance, SubStep, SameJob
<1>f. Later
  BY <1>t, Faulty DEF ReserveBalance
<1>s. sub' \in SubSteps /\ can' \in CanSteps /\ rec' \in RecSteps
  BY <1>t, <1>u DEF SubSteps
<1>n. ~job.named /\ moved = {}
  BY <1>t, <1>u DEF SubInv, ClaimInv, HoldTypeOK, Requests, Early
<1>1. CASE Reserve
  <2>1. /\ purse' = [balance |-> purse.balance - Hold,
                     frozen |-> purse.frozen + Hold]
        /\ claims' = claims \cup {"hold"} /\ moved' = moved \cup {"hold"}
        /\ purse.balance >= Hold
        /\ purse.balance \in Nat /\ purse.frozen \in Nat
    BY <1>t, <1>1 DEF Reserve, Move, EnoughBalance, HoldTypeOK
  <2>2. HoldTypeOK'
    BY <1>t, <2>1 DEF HoldTypeOK, Requests
  <2>3. TypeOK'
    BY <1>t, <1>u, <1>f, <1>s, <2>2
       DEF TypeOK, Later, QueueTypeOK, queueVars
  <2>4. ClaimInv' /\ moved' = {"hold"}
    BY <1>t, <1>n, <2>1 DEF ClaimInv
  <2>5. JobInv' /\ CanInv' /\ RecInv'
    BY <1>t, <1>u, <1>n, <2>4 DEF JobInv, CanInv, RecInv
  <2>6. SubInv'
    BY <1>t, <1>u, <2>4 DEF SubInv, Early, Failing
  <2>7. \A w \in Workers : WkInv(w)'
    BY <1>u DEF Inv, WkInv, Past
  <2>8. ASSUME Calm'
        PROVE  MoneyInv' /\ \A w \in Workers : WkCalm(w)'
    <3>1. Calm /\ MoneyInv /\ \A w \in Workers : WkCalm(w)
      BY <1>f, <2>8 DEF Inv, Later
    <3>2. ~HoldOpen /\ HoldOpen'
      BY <1>n, <2>4 DEF HoldOpen
    <3>3. purse'.frozen = Other + (IF HoldOpen' THEN Hold ELSE 0)
      <4>1. purse.frozen = Other /\ purse'.frozen = purse.frozen + Hold
        BY <1>t, <2>1, <3>1, <3>2 DEF MoneyInv
      <4> QED
        BY <1>t, <3>2, <4>1
    <3>4. \A w \in Workers : WkCalm(w)'
      BY <1>u, <1>n, <2>4, <3>1 DEF WkCalm, queueVars
    <3>5. Frugal
      BY <1>t, <1>u, <1>f, <1>n, <2>4, HandlerFrugal DEF Unmarked
    <3>6. upstream'.cost <= Hold => Load' + faults' <= MaxFaults
      BY <1>t, <1>u, <2>3, <3>1, <3>5, Accounts DEF MoneyInv
    <3> QED
      BY <1>u, <1>n, <2>4, <3>1, <3>3, <3>4, <3>6 DEF MoneyInv
  <2> QED
    BY <2>3, <2>4, <2>5, <2>6, <2>7, <2>8 DEF Inv
<1>2. CASE UNCHANGED holdVars /\ sub' = "fail"
  <2>1. SubInv' /\ CanInv' /\ RecInv'
    BY <1>t, <1>u, <1>2 DEF SubInv, CanInv, RecInv, holdVars, Early, Failing
  <2>2. QueueTypeOK' /\ lock' = lock
    BY <1>t, <1>u DEF QueueTypeOK, queueVars
  <2> QED
    BY <1>u, <1>f, <1>s, <1>2, <2>1, <2>2, Quiet
<1> QED
  BY <1>1, <1>2 DEF ReserveBalance, SubStep

-----------------------------------------------------------------------------
(***************************************************************************)
(* The provider.                                                           *)
(***************************************************************************)

\* The provider's batch moves, which has not ended yet.
LEMMA UpstreamChanges ==
    ASSUME Inv, Later, UNCHANGED <<holdVars, queueVars, job, wk>>,
           upstream' \in [state : Answers \cup {"none"}, cost : Costs \cup {0}],
           upstream.state \in Live \cup {"none"}, upstream'.state # "none",
           upstream.state = "none" => ~job.named,
           upstream'.state # "succeeded" => upstream'.cost = 0,
           sub' \in SubSteps, can' \in CanSteps, rec' \in RecSteps,
           SubInv', CanInv', RecInv', sub' = "queueFailed" => sub = "queueFailed"
    PROVE  Inv'
<1>1. TypeOK'
  BY DEF Inv, TypeOK, Later, HoldTypeOK, holdVars, QueueTypeOK, queueVars
<1>2. ClaimInv'
  BY DEF Inv, ClaimInv, holdVars
<1>e. /\ upstream.state # "succeeded" /\ upstream.state \notin Ended
      /\ upstream.cost = 0
  BY DEF Inv, JobInv, Live, Ended
<1>3. JobInv'
  BY <1>e DEF Inv, JobInv, holdVars
<1>4. \A w \in Workers : wk[w].pc \notin Indexing \cup Settling
  BY <1>e DEF Inv, WkInv, Past
<1>5. \A w \in Workers : WkInv(w)'
  BY <1>4, <1>e DEF Inv, WkInv, Settling
<1>6. ASSUME Calm'
      PROVE  MoneyInv' /\ \A w \in Workers : WkCalm(w)'
  <2>1. Calm /\ MoneyInv /\ \A w \in Workers : WkCalm(w)
    BY <1>6 DEF Inv, Later
  <2>2. job.status \notin {"settling", "completed"} /\ "capture" \notin moved
    BY <1>e, <2>1 DEF Inv, JobInv, MoneyInv
  <2>3. \A w \in Workers : WkCalm(w)'
    BY <1>4, <2>1 DEF WkCalm, Settling, queueVars
  <2>4. Frugal
    BY <2>2, HandlerFrugal DEF Inv, Unmarked
  <2>5. upstream.cost <= Hold
    BY <1>e, Constants
  <2>6. upstream'.cost <= Hold => Load' + faults' <= MaxFaults
    BY <1>1, <2>1, <2>4, <2>5, Accounts DEF Inv, MoneyInv
  <2> QED
    BY <2>1, <2>2, <2>3, <2>6 DEF MoneyInv, HoldOpen, Exhausted, holdVars
<1> QED
  BY <1>1, <1>2, <1>3, <1>5, <1>6 DEF Inv

\* The batch is handed to the provider.
LEMMA InvProviderSubmit ==
    ASSUME Inv, ProviderSubmit
    PROVE  Inv'
<1>t. /\ TypeOK /\ JobInv /\ SubInv /\ CanInv /\ RecInv /\ QueueTypeOK
      /\ sub \in SubSteps /\ can \in CanSteps /\ rec \in RecSteps
  BY DEF Inv, TypeOK
<1>u. /\ UNCHANGED <<holdVars, queueVars, job, wk, can, rec>>
      /\ sub = "provider" /\ sub' \in {"name", "release"}
  BY DEF ProviderSubmit, SubStep
<1>f. Later
  BY <1>t, Faulty DEF ProviderSubmit
<1>s. sub' \in SubSteps /\ can' \in CanSteps /\ rec' \in RecSteps
  BY <1>t, <1>u DEF SubSteps
<1>1. CASE upstream' = [upstream EXCEPT !.state = "queued"]
  <2>1. upstream = [state |-> "none", cost |-> 0] /\ ~job.named
    BY <1>t, <1>u DEF SubInv, Early
  <2>2. upstream' = [state |-> "queued", cost |-> 0]
    BY <1>1, <2>1
  <2>3. upstream' \in [state : Answers \cup {"none"}, cost : Costs \cup {0}]
    BY <2>2 DEF Answers, Live
  <2>4. SubInv'
    BY <1>t, <1>u, <2>2 DEF SubInv, holdVars, Early, Failing
  <2>5. CanInv' /\ RecInv'
    BY <1>t, <1>u DEF CanInv, RecInv
  <2> QED
    BY <1>u, <1>f, <1>s, <2>1, <2>2, <2>3, <2>4, <2>5, UpstreamChanges
<1>2. CASE UNCHANGED upstream /\ sub' = "release"
  <2>1. SubInv' /\ CanInv' /\ RecInv'
    BY <1>t, <1>u, <1>2 DEF SubInv, CanInv, RecInv, holdVars, Early, Failing
  <2>2. QueueTypeOK' /\ lock' = lock
    BY <1>t, <1>u DEF QueueTypeOK, queueVars
  <2> QED
    BY <1>u, <1>f, <1>s, <1>2, <2>1, <2>2, Quiet
<1> QED
  BY <1>1, <1>2 DEF ProviderSubmit, SubStep

\* The provider is told to cancel, or its batch goes on.
LEMMA InvUpstream ==
    ASSUME Inv, AbortOrphanProviderJob \/ CancelProvider \/ UpstreamMoves
    PROVE  Inv'
<1>t. /\ TypeOK /\ JobInv /\ SubInv /\ CanInv /\ RecInv /\ QueueTypeOK
      /\ sub \in SubSteps /\ can \in CanSteps /\ rec \in RecSteps
  BY DEF Inv, TypeOK
<1>u. UNCHANGED <<holdVars, queueVars, job, wk, rec>>
  BY DEF AbortOrphanProviderJob, CancelProvider, UpstreamMoves, SubStep, CanStep,
         actorVars
<1>f. Later
  BY <1>t, Faulty DEF AbortOrphanProviderJob, CancelProvider, UpstreamMoves
<1>s. /\ sub' = sub \/ (sub = "abort" /\ sub' = "done")
      /\ can' = can \/ can' \in {"enqueue", "idle"}
      /\ sub' \in SubSteps /\ can' \in CanSteps /\ rec' \in RecSteps
  BY <1>t, <1>u DEF AbortOrphanProviderJob, CancelProvider, UpstreamMoves,
                    SubStep, CanStep, actorVars, SubSteps, CanSteps
<1>c. CanInv' /\ RecInv'
  BY <1>t, <1>u, <1>s DEF CanInv, RecInv
<1>1. CASE upstream' = upstream
  <2>1. SubInv'
    BY <1>t, <1>u, <1>s, <1>1 DEF SubInv, holdVars, Early, Failing
  <2>2. QueueTypeOK' /\ lock' = lock
    BY <1>t, <1>u DEF QueueTypeOK, queueVars
  <2> QED
    BY <1>u, <1>f, <1>s, <1>c, <1>1, <2>1, <2>2, Quiet
<1>2. CASE /\ upstream.state \in Live
           /\ \/ \E st \in {"cancelled", "running", "failed"} :
                    upstream' = [upstream EXCEPT !.state = st]
              \/ \E c \in Costs : upstream' = [state |-> "succeeded", cost |-> c]
  <2>1. /\ upstream.cost = 0 /\ upstream.state # "none"
        /\ upstream = [state |-> upstream.state, cost |-> upstream.cost]
    BY <1>t, <1>2, RowTypes DEF JobInv, Live
  <2>2. \/ \E st \in {"cancelled", "running", "failed"} :
              upstream' = [state |-> st, cost |-> 0]
        \/ \E c \in Costs : upstream' = [state |-> "succeeded", cost |-> c]
    BY <1>2, <2>1
  <2>3. /\ upstream' \in [state : Answers \cup {"none"}, cost : Costs \cup {0}]
        /\ upstream'.state # "none"
        /\ upstream'.state # "succeeded" => upstream'.cost = 0
    BY <2>2 DEF Answers, Live, Ended
  <2>4. sub \notin Early
    BY <1>t, <2>1 DEF SubInv
  <2>5. SubInv'
    BY <1>t, <1>u, <1>s, <2>3, <2>4 DEF SubInv, holdVars, Early, Failing
  <2> QED
    BY <1>u, <1>f, <1>s, <1>c, <1>2, <2>1, <2>3, <2>5, UpstreamChanges
<1>3. CancelUpstream => \/ upstream' = upstream
                        \/ /\ upstream.state \in Live
                           /\ upstream' = [upstream EXCEPT !.state = "cancelled"]
  <2>1. upstream = [state |-> upstream.state, cost |-> upstream.cost]
    BY <1>t, RowTypes
  <2> QED
    BY <2>1 DEF CancelUpstream
<1> QED
  BY <1>1, <1>2, <1>3 DEF AbortOrphanProviderJob, CancelProvider, UpstreamMoves

-----------------------------------------------------------------------------
(***************************************************************************)
(* The queue's own jobs.                                                   *)
(***************************************************************************)

\* Entries move and age.
LEMMA InvQueue ==
    ASSUME Inv, DelayedMover \/ StaleActiveRecovery \/ ActiveAges
    PROVE  Inv'
<1>t. /\ TypeOK /\ SubInv /\ CanInv /\ RecInv /\ QueueTypeOK
      /\ sub \in SubSteps /\ can \in CanSteps /\ rec \in RecSteps
  BY DEF Inv, TypeOK
<1>u. UNCHANGED <<holdVars, job, upstream, sub, can, rec, wk>>
  BY DEF DelayedMover, StaleActiveRecovery, ActiveAges, QueueStep, actorVars
<1>f. Later
  BY <1>t, Faulty DEF DelayedMover, StaleActiveRecovery, ActiveAges
<1>1. QueueTypeOK' /\ lock' = lock
  BY <1>t, QueueTypes DEF DelayedMover, StaleActiveRecovery, ActiveAges
<1>2. SubInv' /\ CanInv' /\ RecInv'
  BY <1>t, <1>u DEF SubInv, CanInv, RecInv, holdVars
<1> QED
  BY <1>t, <1>u, <1>f, <1>1, <1>2, Quiet

\* A lock runs out: that of a dead worker, or not calmly.
LEMMA InvLockExpires ==
    ASSUME Inv, LockExpires
    PROVE  Inv'
<1>t. TypeOK /\ QueueTypeOK /\ None \notin Workers /\ Lost \notin Workers
  BY Constants DEF Inv, TypeOK
<1>u. /\ UNCHANGED <<holdVars, job, upstream, sub, can, rec, wk>>
      /\ DropLock /\ (lock = Lost \/ Fault("lapse"))
  BY DEF LockExpires, QueueStep, actorVars
<1>f. Later /\ (lock # Lost => ~Calm')
  BY <1>t, Faulty DEF LockExpires
<1>1. QueueTypeOK'
  BY <1>t, <1>u, QueueTypes
<1>2. TypeOK'
  BY <1>t, <1>u, <1>f, <1>1 DEF TypeOK, Later, HoldTypeOK, holdVars
<1>3. /\ ClaimInv' /\ JobInv' /\ SubInv' /\ CanInv' /\ RecInv'
      /\ \A w \in Workers : WkInv(w)'
  BY <1>u DEF Inv, ClaimInv, JobInv, SubInv, CanInv, RecInv, WkInv, Past, holdVars
<1>4. ASSUME Calm'
      PROVE  MoneyInv' /\ \A w \in Workers : WkCalm(w)'
  <2>1. Calm /\ MoneyInv /\ (\A w \in Workers : WkCalm(w)) /\ lock = Lost
    BY <1>f, <1>4 DEF Inv, Later
  <2>2. \A w \in Workers : wk[w].pc \notin Locked
    BY <1>t, <2>1 DEF WkCalm
  <2>3. \A w \in Workers : wk[w].pc \notin Indexing \cup Settling
    BY <1>t, <2>2 DEF Locked, Indexing, Settling, TypeOK, WkSteps
  <2>4. \A w \in Workers : WkCalm(w)'
    BY <1>u, <2>2, <2>3 DEF WkCalm, Settling
  <2>5. Frugal
    BY <1>t, <1>u, <1>f, HandlerFrugal DEF Unmarked, Marking, holdVars
  <2>6. upstream'.cost <= Hold => Load' + faults' <= MaxFaults
    BY <1>t, <1>u, <1>2, <2>1, <2>5, Accounts DEF MoneyInv
  <2> QED
    BY <1>u, <2>1, <2>4, <2>6 DEF MoneyInv, HoldOpen, Exhausted, holdVars
<1> QED
  BY <1>2, <1>3, <1>4 DEF Inv

-----------------------------------------------------------------------------
(***************************************************************************)
(* The workers.                                                            *)
(***************************************************************************)

\* The load a worker adds: it records a failure that took a fault, and leaves a
\* capture unrecorded only after one.
LEMMA WorkerFrugal ==
    ASSUME TypeOK, Later, NEW w \in Workers, OthersStay(w),
           job'.retry = job.retry, sub' = sub,
           wk'[w].pc = "record" => wk[w].pc = "record" \/ faults' < faults,
           Unmarked' => Unmarked \/ faults' < faults,
           wk'[w].pc = "record" /\ wk[w].pc # "record" => (Unmarked' => Unmarked)
    PROVE  Frugal
<1>1. /\ faults \in Nat /\ faults' \in Nat /\ faults' <= faults
      /\ job.retry \in Nat
  BY Constants, RowTypes DEF Later
<1>2. One(sub = "queueFailed")' = One(sub = "queueFailed")
  BY DEF One
<1>3. ASSUME Recording', ~Recording
      PROVE  wk'[w].pc = "record" /\ wk[w].pc # "record"
  BY <1>3 DEF Recording, OthersStay
<1>4. One(Recording)' + One(Unmarked)' + faults'
        <= One(Recording) + One(Unmarked) + faults
  <2>0. /\ One(Recording) \in {0, 1} /\ One(Recording)' \in {0, 1}
        /\ One(Unmarked) \in {0, 1} /\ One(Unmarked)' \in {0, 1}
    BY DEF One
  <2>1. CASE Recording' /\ ~Recording
    <3>1. faults' < faults /\ (Unmarked' => Unmarked)
      BY <1>3, <2>1
    <3>2. One(Unmarked)' <= One(Unmarked)
      BY <3>1 DEF One
    <3> QED
      BY <1>1, <2>0, <3>1, <3>2
  <2>2. CASE Recording' => Recording
    <3>1. One(Recording)' <= One(Recording)
      BY <2>2 DEF One
    <3>2. One(Unmarked)' + faults' <= One(Unmarked) + faults
      <4>1. CASE Unmarked' => Unmarked
        <5>1. One(Unmarked)' <= One(Unmarked)
          BY <4>1 DEF One
        <5> QED
          BY <1>1, <2>0, <5>1
      <4>2. CASE faults' < faults
        BY <1>1, <2>0, <4>2
      <4> QED
        BY <4>1, <4>2
    <3> QED
      BY <1>1, <2>0, <3>1, <3>2
  <2> QED
    BY <2>1, <2>2
<1>5. /\ One(Recording) \in Nat /\ One(sub = "queueFailed") \in Nat
      /\ One(Unmarked) \in Nat /\ One(Recording)' \in Nat
      /\ One(Unmarked)' \in Nat
  BY DEF One
<1>6. PICK a \in Nat, b \in Nat, c \in Nat, d \in Nat, e \in Nat :
         /\ a = One(Recording) /\ b = One(sub = "queueFailed")
         /\ c = One(Unmarked) /\ d = One(Recording)' /\ e = One(Unmarked)'
  BY <1>5
<1>7. Load = job.retry + a + b + c /\ Load' = job.retry + d + b + e
  BY <1>2, <1>6 DEF Load
<1>8. PICK r \in Nat, f \in Nat, g \in Nat :
         r = job.retry /\ f = faults /\ g = faults'
  BY <1>1
<1>9. d + e + g <= a + c + f
  BY <1>4, <1>6, <1>8
<1>10. r + d + b + e + g <= r + a + b + c + f
  BY <1>9
<1> QED
  BY <1>7, <1>8, <1>10 DEF Frugal

\* A worker goes on without the row and the hold.
LEMMA WorkerReads ==
    ASSUME Inv, Later, NEW w \in Workers,
           UNCHANGED <<holdVars, job, upstream, sub, can, rec>>, QueueTypeOK',
           lock' # lock => lock \notin Workers \ {w},
           wk' \in [Workers -> [pc : WkSteps, answer : Answers]], OthersStay(w),
           WkInv(w)', Calm' => WkCalm(w)',
           wk'[w].pc = "record" =>
              wk[w].pc = "record" \/ faults' < faults \/ upstream.cost > Hold,
           wk[w].pc = "mark" =>
              /\ wk'[w].pc # "record"
              /\ wk'[w].pc = "mark" \/ faults' < faults \/ job.status # "settling"
    PROVE  Inv'
<1>1. TypeOK'
  BY DEF Inv, TypeOK, Later, HoldTypeOK, holdVars
<1>2. ClaimInv' /\ JobInv' /\ SubInv' /\ CanInv' /\ RecInv'
  BY DEF Inv, ClaimInv, JobInv, SubInv, CanInv, RecInv, holdVars
<1>3. ASSUME NEW q \in Workers
      PROVE  WkInv(q)'
  <2>1. CASE q = w
    BY <2>1
  <2>2. CASE q # w
    BY <2>2 DEF Inv, WkInv, Past, OthersStay
  <2> QED
    BY <2>1, <2>2
<1>4. ASSUME Calm'
      PROVE  MoneyInv' /\ \A q \in Workers : WkCalm(q)'
  <2>1. Calm /\ MoneyInv /\ \A q \in Workers : WkCalm(q)
    BY <1>4 DEF Inv, Later
  <2>2. ASSUME NEW q \in Workers
        PROVE  WkCalm(q)'
    <3>1. CASE q = w
      BY <1>4, <3>1
    <3>2. CASE q # w
      <4>1. wk'[q] = wk[q] /\ WkCalm(q)
        BY <2>1, <3>2 DEF OthersStay
      <4>2. wk[q].pc \in Locked => lock' = q
        BY <3>2, <4>1 DEF WkCalm
      <4> QED
        BY <4>1, <4>2 DEF WkCalm, holdVars
    <3> QED
      BY <3>1, <3>2
  <2>3. ASSUME upstream'.cost <= Hold
        PROVE  Load' + faults' <= MaxFaults
    <3>1. ~(upstream.cost > Hold)
      BY <2>3, Constants, RowTypes DEF Inv
    <3>2. moved' = moved
      BY DEF holdVars
    <3>3. ASSUME Unmarked', ~Unmarked
          PROVE  wk[w].pc = "mark" /\ faults' < faults
      <4>1. Marking /\ ~Marking' /\ job.status = "settling"
        BY <3>2, <3>3 DEF Unmarked
      <4>2. wk[w].pc = "mark" /\ wk'[w].pc # "mark"
        BY <4>1 DEF Marking, OthersStay
      <4> QED
        BY <4>1, <4>2
    <3>4. Frugal
      BY <3>1, <3>3, WorkerFrugal DEF Inv
    <3> QED
      BY <1>1, <2>1, <2>3, <3>4, Accounts DEF Inv, MoneyInv
  <2> QED
    BY <2>1, <2>2, <2>3 DEF MoneyInv, HoldOpen, Exhausted, holdVars
<1> QED
  BY <1>1, <1>2, <1>3, <1>4 DEF Inv

\* A worker moves a batch that has a name and has not ended to another status.
LEMMA WorkerMoves ==
    ASSUME Inv, Later, NEW w \in Workers, wk[w].pc \in Locked,
           UNCHANGED <<holdVars, queueVars, upstream, sub, can, rec>>,
           wk' \in [Workers -> [pc : WkSteps, answer : Answers]], OthersStay(w),
           job' \in Jobs, job'.retry = job.retry, job'.named = job.named,
           job.status \notin Terminal \cup {"none"},
           job'.status \notin Unsubmitted \cup {"none"},
           Past => Past' /\ job'.status # "indexing",
           JobInv', WkInv(w)', wk'[w].pc # "record",
           Calm' =>
              /\ WkCalm(w)'
              /\ "capture" \in moved => job'.status = "completed"
              /\ job'.status = "completed" => "capture" \in moved
              /\ job'.status = "settling" => "release" \notin moved
    PROVE  Inv'
<1>m. moved' = moved /\ purse' = purse /\ claims' = claims /\ lock' = lock
  BY DEF holdVars, queueVars
<1>1. TypeOK'
  BY DEF Inv, TypeOK, Later, HoldTypeOK, holdVars, QueueTypeOK, queueVars
<1>2. ClaimInv'
  BY <1>m DEF Inv, ClaimInv
<1>3. SubInv' /\ CanInv' /\ RecInv'
  BY <1>m DEF Inv, SubInv, CanInv, RecInv, Terminal
<1>4. ASSUME NEW q \in Workers
      PROVE  WkInv(q)'
  <2>1. CASE q = w
    BY <2>1
  <2>2. CASE q # w
    <3>1. wk'[q] = wk[q] /\ WkInv(q)
      BY <2>2 DEF Inv, OthersStay
    <3> QED
      BY <3>1 DEF WkInv, Terminal, Settling
  <2> QED
    BY <2>1, <2>2
<1>5. ASSUME Calm'
      PROVE  MoneyInv' /\ \A q \in Workers : WkCalm(q)'
  <2>1. Calm /\ MoneyInv /\ \A q \in Workers : WkCalm(q)
    BY <1>5 DEF Inv, Later
  <2>2. ASSUME NEW q \in Workers
        PROVE  WkCalm(q)'
    <3>1. CASE q = w
      BY <1>5, <3>1
    <3>2. CASE q # w
      <4>1. wk'[q] = wk[q] /\ wk[q].pc \notin Locked /\ wk[q].pc \in WkSteps
        BY <2>1, <3>2, Alone DEF Inv, TypeOK, OthersStay
      <4>2. wk'[q].pc \in {"idle", "lock"}
        BY <4>1 DEF Locked
      <4> QED
        BY <4>2 DEF WkCalm, Locked, Indexing, Settling
    <3> QED
      BY <3>1, <3>2
  <2>3. ~Unmarked'
    BY <1>5, <1>m DEF Unmarked
  <2>4. Frugal
    BY <2>3, WorkerFrugal DEF Inv
  <2>5. upstream'.cost <= Hold => Load' + faults' <= MaxFaults
    BY <1>1, <2>1, <2>4, Accounts DEF Inv, MoneyInv
  <2> QED
    BY <1>5, <1>m, <2>1, <2>2, <2>5 DEF MoneyInv, HoldOpen
<1> QED
  BY <1>1, <1>2, <1>3, <1>4, <1>5 DEF Inv

\* A worker captures the hold or gives it back.
LEMMA WorkerPays ==
    ASSUME Inv, Later, NEW w \in Workers, wk[w].pc \in Locked,
           UNCHANGED <<queueVars, job, upstream, sub, can, rec>>,
           wk' \in [Workers -> [pc : WkSteps, answer : Answers]], OthersStay(w),
           HoldTypeOK', ClaimInv', moved \subseteq moved',
           moved' \subseteq moved \cup {"capture", "release"},
           "capture" \in moved' => "capture" \in moved \/ job.named,
           job.status \in Terminal \cup {"settling"},
           WkInv(w)',
           Calm' =>
              /\ WkCalm(w)'
              /\ purse'.frozen = Other + (IF HoldOpen' THEN Hold ELSE 0)
              /\ "capture" \notin moved' \/ "release" \notin moved'
              /\ "capture" \in moved' =>
                    job.status \in {"settling", "completed"} /\ upstream.cost <= Hold
              /\ upstream.cost <= Hold /\ job.status = "settling"
                    /\ "release" \in moved' => Exhausted
              /\ Frugal
    PROVE  Inv'
<1>1. TypeOK'
  BY DEF Inv, TypeOK, Later, QueueTypeOK, queueVars
<1>2. JobInv'
  BY DEF Inv, JobInv, Terminal
<1>3. SubInv' /\ CanInv' /\ RecInv'
  BY DEF Inv, SubInv, CanInv, RecInv, Terminal, Unsubmitted
<1>4. ASSUME NEW q \in Workers
      PROVE  WkInv(q)'
  <2>1. CASE q = w
    BY <2>1
  <2>2. CASE q # w
    BY <2>2 DEF Inv, WkInv, Past, OthersStay
  <2> QED
    BY <2>1, <2>2
<1>5. ASSUME Calm'
      PROVE  MoneyInv' /\ \A q \in Workers : WkCalm(q)'
  <2>1. Calm /\ MoneyInv /\ \A q \in Workers : WkCalm(q)
    BY <1>5 DEF Inv, Later
  <2>2. ASSUME NEW q \in Workers
        PROVE  WkCalm(q)'
    <3>1. CASE q = w
      BY <1>5, <3>1
    <3>2. CASE q # w
      <4>1. wk'[q] = wk[q] /\ wk[q].pc \notin Locked /\ wk[q].pc \in WkSteps
        BY <2>1, <3>2, Alone DEF Inv, TypeOK, OthersStay
      <4>2. wk'[q].pc \in {"idle", "lock"}
        BY <4>1 DEF Locked
      <4> QED
        BY <4>2 DEF WkCalm, Locked, Indexing, Settling
    <3> QED
      BY <3>1, <3>2
  <2>5. upstream'.cost <= Hold => Load' + faults' <= MaxFaults
    BY <1>1, <1>5, <2>1, Accounts DEF Inv, MoneyInv
  <2> QED
    BY <1>5, <2>1, <2>2, <2>5 DEF MoneyInv, Exhausted
<1> QED
  BY <1>1, <1>2, <1>3, <1>4, <1>5 DEF Inv

\* A failed call of a settlement is counted.
LEMMA WorkerCounts ==
    ASSUME Inv, NEW w \in Workers, NoFault, CountRetry,
           wk[w].pc \in {"record", "releaseFailed"},
           UNCHANGED <<holdVars, queueVars, upstream, sub, can, rec>>,
           wk' \in [Workers -> [pc : WkSteps, answer : Answers]], OthersStay(w),
           wk'[w].pc \in {"exhaust", "requeue", "recheck"},
           wk'[w].pc = "exhaust" =>
              wk[w].pc = "record" /\ job'.retry >= MaxRetries
    PROVE  Inv'
<1>t. /\ TypeOK /\ MaxRetries \in Nat \ {0} /\ job.retry \in 0 .. MaxRetries
      /\ wk[w].pc \in Settling /\ wk[w].pc \in Locked
  BY RowTypes, Constants DEF Inv, Settling, Locked, WkSteps
<1>m. moved' = moved /\ purse' = purse /\ claims' = claims /\ lock' = lock
  BY DEF holdVars, queueVars
<1>f. Later /\ faults' = faults
  BY <1>t, Faulty
<1>j. /\ job' \in Jobs /\ job'.status = job.status /\ job'.named = job.named
      /\ job'.settleErr
      /\ job'.retry = IF job.retry < MaxRetries THEN job.retry + 1 ELSE job.retry
  <2>1. PICK r \in 0 .. MaxRetries :
           r = IF job.retry < MaxRetries THEN job.retry + 1 ELSE job.retry
    BY <1>t
  <2>2. job \in Jobs
    BY <1>t, RowTypes
  <2>3. job' = [job EXCEPT !.retry = r, !.settleErr = TRUE, !.fresh = TRUE]
    BY <2>1 DEF CountRetry
  <2>4. /\ job' \in Jobs /\ job'.status = job.status /\ job'.named = job.named
        /\ job'.settleErr /\ job'.retry = r
    BY <2>2, <2>3 DEF Jobs
  <2> QED
    BY <2>1, <2>4
<1>1. TypeOK'
  BY <1>t, <1>f, <1>j
     DEF TypeOK, Later, HoldTypeOK, holdVars, QueueTypeOK, queueVars
<1>2. ClaimInv' /\ JobInv' /\ SubInv' /\ CanInv' /\ RecInv'
  BY <1>m, <1>j DEF Inv, ClaimInv, JobInv, SubInv, CanInv, RecInv
<1>3. ASSUME NEW q \in Workers
      PROVE  WkInv(q)'
  <2>1. CASE q = w
    BY <1>t, <1>j, <2>1 DEF Inv, WkInv, Past, Indexing, Settling
  <2>2. CASE q # w
    BY <1>j, <2>2 DEF Inv, WkInv, Past, OthersStay
  <2> QED
    BY <2>1, <2>2
<1>4. ASSUME Calm'
      PROVE  MoneyInv' /\ \A q \in Workers : WkCalm(q)'
  <2>1. Calm /\ MoneyInv /\ \A q \in Workers : WkCalm(q)
    BY <1>f, <1>4 DEF Inv, Later
  <2>2. ASSUME NEW q \in Workers \ {w}
        PROVE  wk[q].pc \in {"idle", "lock"} /\ wk'[q] = wk[q]
    <3>1. wk'[q] = wk[q] /\ wk[q].pc \notin Locked /\ wk[q].pc \in WkSteps
      BY <1>t, <2>1, Alone DEF TypeOK, OthersStay
    <3> QED
      BY <3>1 DEF Locked
  <2>3. job.status = "settling" /\ lock = w
    BY <1>t, <2>1 DEF WkCalm
  <2>4. ~Marking /\ ~Marking' /\ (Unmarked' <=> Unmarked)
    BY <1>m, <1>j, <2>2 DEF Marking, Unmarked
  <2>5. Recording' = FALSE /\ (Recording <=> wk[w].pc = "record")
    BY <2>2 DEF Recording
  <2>6. PICK a \in Nat, b \in Nat, c \in Nat, d \in Nat, e \in Nat :
           /\ a = One(Recording) /\ b = One(sub = "queueFailed")
           /\ c = One(Unmarked) /\ d = faults /\ e = job.retry
    BY <1>t, LoadTypes, RowTypes
  <2>7. /\ a = IF wk[w].pc = "record" THEN 1 ELSE 0
        /\ One(Recording)' = 0 /\ One(Unmarked)' = c
        /\ One(sub = "queueFailed")' = b
    BY <2>4, <2>5, <2>6 DEF One
  <2>8. ASSUME wk[w].pc = "releaseFailed"
        PROVE  job'.retry = e
    BY <1>t, <1>j, <2>1, <2>6, <2>8 DEF WkCalm
  <2>9. Frugal
    <3>1. Load = e + a + b + c /\ faults' = d /\ faults = d
      BY <1>f, <2>6 DEF Load
    <3>2. PICK r \in Nat : r = job'.retry
      BY <1>t, <1>j
    <3>3. r <= e + a
      BY <1>t, <1>j, <2>6, <2>7, <2>8, <3>2
    <3>4. Load' = r + 0 + b + c
      BY <2>7, <3>2 DEF Load
    <3>5. r + 0 + b + c + d <= e + a + b + c + d
      BY <3>3
    <3> QED
      BY <3>1, <3>4, <3>5 DEF Frugal
  <2>10. ASSUME wk'[w].pc = "exhaust"
         PROVE  "capture" \notin moved
    <3>1. SUFFICES ASSUME "capture" \in moved PROVE FALSE
      OBVIOUS
    <3>2. upstream.cost <= Hold /\ Unmarked
      BY <2>1, <2>3, <2>4, <3>1 DEF MoneyInv, Unmarked
    <3>3. a = 1 /\ c = 1
      BY <2>6, <2>7, <2>10, <3>2 DEF One
    <3>4. e + a + b + c + d <= MaxFaults
      BY <2>1, <2>6, <3>2 DEF MoneyInv, Load
    <3>5. MaxFaults - d <= MaxRetries /\ MaxFaults \in Nat
      BY <2>1, <2>6, Constants DEF Calm
    <3>6. e + 1 >= MaxRetries
      BY <1>t, <1>j, <2>6, <2>10
    <3> QED
      BY <1>t, <3>3, <3>4, <3>5, <3>6
  <2>11. ASSUME NEW q \in Workers
         PROVE  WkCalm(q)'
    <3>1. CASE q = w
      BY <1>m, <1>j, <2>3, <2>10, <3>1 DEF WkCalm, Indexing, Settling
    <3>2. CASE q # w
      BY <2>2, <3>2 DEF WkCalm, Locked, Indexing, Settling
    <3> QED
      BY <3>1, <3>2
  <2>12. upstream'.cost <= Hold => Load' + faults' <= MaxFaults
    BY <1>t, <1>1, <2>1, <2>9, Accounts DEF MoneyInv
  <2>13. Exhausted => Exhausted'
    BY <1>t, <1>j DEF Exhausted
  <2> QED
    BY <1>m, <1>j, <2>1, <2>11, <2>12, <2>13 DEF MoneyInv, HoldOpen
<1> QED
  BY <1>1, <1>2, <1>3, <1>4 DEF Inv

\* A worker takes an entry, and the lock, or leaves the entry for later.
LEMMA InvTake ==
    ASSUME Inv, NEW w \in Workers, ReserveNext(w) \/ AcquireLock(w)
    PROVE  Inv'
<1>t. TypeOK /\ QueueTypeOK
  BY DEF Inv, TypeOK
<1>u. UNCHANGED <<holdVars, job, upstream>> /\ NoFault
  BY DEF ReserveNext, AcquireLock, OnQueue, SameJob
<1>f. Later
  BY <1>t, <1>u, Faulty
<1>1. CASE ReserveNext(w)
  <2>1. /\ WkStep(w, "lock") /\ "lock" \in WkSteps /\ wk[w].pc = "idle"
        /\ QueueTypeOK' /\ lock' = lock
    BY <1>t, <1>1, QueueTypes DEF ReserveNext, At, WkSteps
  <2>2. /\ wk' \in [Workers -> [pc : WkSteps, answer : Answers]] /\ OthersStay(w)
        /\ wk'[w].pc = "lock" /\ UNCHANGED <<sub, can, rec>>
    BY <1>t, <2>1, Worked
  <2>3. WkInv(w)' /\ WkCalm(w)'
    BY <2>2 DEF WkInv, WkCalm, Indexing, Settling, Locked
  <2> QED
    BY <1>u, <1>f, <2>1, <2>2, <2>3, WorkerReads
<1>2. CASE AcquireLock(w)
  <2>1. PICK next \in {"route", "idle"} :
           /\ WkStep(w, next) /\ next \in WkSteps /\ wk[w].pc = "lock"
           /\ QueueTypeOK' /\ (next = "route" => lock' = w)
           /\ lock' = lock \/ lock = None
    BY <1>t, <1>2, QueueTypes DEF AcquireLock, At, WkSteps
  <2>2. /\ wk' \in [Workers -> [pc : WkSteps, answer : Answers]] /\ OthersStay(w)
        /\ wk'[w].pc = next /\ UNCHANGED <<sub, can, rec>>
    BY <1>t, <2>1, Worked
  <2>3. WkInv(w)' /\ WkCalm(w)'
    BY <2>1, <2>2 DEF WkInv, WkCalm, Indexing, Settling, Locked
  <2>4. lock' # lock => lock \notin Workers \ {w}
    BY <2>1, Constants
  <2> QED
    BY <1>u, <1>f, <2>1, <2>2, <2>3, <2>4, WorkerReads
<1> QED
  BY <1>1, <1>2

\* A worker that leaves the queue, the row and the hold as they are goes on to
\* a step that fits what it read.
LEMMA WorkerLooks ==
    ASSUME Inv, Later, NEW w \in Workers, wk[w].pc \in Locked, wk[w].pc # "mark",
           OnNone, UNCHANGED <<sub, can, rec>>,
           wk' \in [Workers -> [pc : WkSteps, answer : Answers]], OthersStay(w),
           WkInv(w)',
           wk'[w].pc \in Indexing => job.status = "indexing",
           wk'[w].pc \in Settling => job.status = "settling",
           wk'[w].pc \notin {"mark", "releaseFailed", "giveUp"},
           wk'[w].pc = "capture" => ~Exhausted /\ upstream.cost <= Hold,
           wk'[w].pc = "record" => upstream.cost > Hold,
           wk'[w].pc = "exhaust" => Exhausted
    PROVE  Inv'
<1>t. /\ TypeOK /\ QueueTypeOK
  BY DEF Inv, TypeOK
<1>u. /\ UNCHANGED <<holdVars, job, upstream>> /\ QueueTypeOK' /\ lock' = lock
      /\ moved' = moved
  BY <1>t DEF OnNone, SameJob, QueueTypeOK, queueVars, holdVars
<1>1. ASSUME Calm'
      PROVE  WkCalm(w)'
  <2>1. Calm /\ MoneyInv /\ WkCalm(w) /\ lock = w
    BY <1>1 DEF Inv, Later, WkCalm
  <2>2. wk'[w].pc = "capture" => "release" \notin moved
    BY <2>1 DEF MoneyInv, Settling
  <2>3. wk'[w].pc = "exhaust" => "capture" \notin moved
    <3>1. SUFFICES ASSUME wk'[w].pc = "exhaust", "capture" \in moved PROVE FALSE
      OBVIOUS
    <3>2. job.retry >= MaxRetries /\ job.status = "settling"
      BY <3>1 DEF Exhausted, Settling
    <3>3. ~Marking
      <4>1. \A q \in Workers \ {w} : wk[q].pc \notin Locked
        BY <2>1, Alone
      <4> QED
        BY <4>1 DEF Marking, Locked, WkSteps
    <3>4. upstream.cost <= Hold /\ Unmarked
      BY <2>1, <3>1, <3>2, <3>3 DEF MoneyInv, Unmarked
    <3>5. One(Unmarked) = 1
      BY <3>4 DEF One
    <3>6. PICK a \in Nat, b \in Nat, d \in Nat, e \in Nat :
             /\ a = One(Recording) /\ b = One(sub = "queueFailed")
             /\ d = faults /\ e = job.retry
      BY <1>t, LoadTypes, RowTypes
    <3>7. e + a + b + 1 + d <= MaxFaults
      BY <2>1, <3>4, <3>5, <3>6 DEF MoneyInv, Load
    <3>8. MaxFaults - d <= MaxRetries /\ MaxFaults \in Nat /\ MaxRetries \in Nat
      BY <2>1, <3>6, Constants DEF Calm
    <3>9. e >= MaxRetries
      BY <3>2, <3>6
    <3> QED
      BY <3>7, <3>8, <3>9
  <2>4. wk'[w].pc = "exhaust" => job.retry >= MaxRetries /\ job.settleErr
    BY DEF Exhausted
  <2> QED
    BY <1>u, <2>1, <2>2, <2>3, <2>4 DEF WkCalm
<1> QED
  BY <1>u, <1>1, WorkerReads

\* A worker reads the row or asks the provider.
LEMMA InvLook ==
    ASSUME Inv, NEW w \in Workers,
           \/ Route(w) \/ Process(w) \/ Poll(w) \/ Index(w) \/ Settle(w)
           \/ Recheck(w)
    PROVE  Inv'
<1>t. /\ TypeOK /\ JobInv /\ WkInv(w) /\ wk[w].pc \in WkSteps
      /\ upstream.cost \in Nat /\ Hold \in Nat
  BY RowTypes, Constants DEF Inv, TypeOK
<1>f. Later
  BY <1>t, Faulty DEF Route, Process, Poll, Index, Settle, Recheck
<1>u. /\ OnNone
      /\ wk[w].pc \in {"route", "process", "poll", "index", "settle", "recheck"}
  BY DEF Route, Process, Poll, Index, Settle, Recheck, At
<1>l. wk[w].pc \in Locked /\ wk[w].pc # "mark"
  BY <1>u DEF Locked, WkSteps
<1>j. UNCHANGED <<holdVars, job, upstream>>
  BY <1>u DEF OnNone, SameJob
<1>1. CASE Poll(w) /\ wk'[w].pc = "advance"
  <2>1. /\ wk[w].pc = "poll" /\ job.named
    BY <1>t, <1>1 DEF Poll, At, WkInv
  <2>2. upstream.state \in Answers
    BY <1>t, <2>1, RowTypes DEF JobInv
  <2>3. \/ /\ wk' = [wk EXCEPT ![w] =
                [pc     |-> IF upstream.state = "queued" THEN "requeue"
                            ELSE "advance",
                 answer |-> upstream.state]]
           /\ UNCHANGED <<sub, can, rec>>
        \/ WkStep(w, "requeue")
    BY <1>1 DEF Poll
  <2>4. ~WkStep(w, "requeue")
    <3>1. "requeue" \in WkSteps
      BY DEF WkSteps
    <3> QED
      BY <1>t, <1>1, <3>1, Worked
  <2>5. /\ wk' = [wk EXCEPT ![w] =
                [pc     |-> IF upstream.state = "queued" THEN "requeue"
                            ELSE "advance",
                 answer |-> upstream.state]]
        /\ UNCHANGED <<sub, can, rec>>
    BY <2>3, <2>4
  <2>6. PICK p \in {"requeue", "advance"} :
           wk' = [wk EXCEPT ![w] = [pc |-> p, answer |-> upstream.state]]
    BY <2>5
  <2>7. /\ wk' \in [Workers -> [pc : WkSteps, answer : Answers]]
        /\ OthersStay(w) /\ wk'[w].answer = upstream.state
    BY <1>t, <2>2, <2>6 DEF TypeOK, OthersStay, WkSteps
  <2>8. WkInv(w)'
    BY <1>1, <1>j, <2>1, <2>7 DEF WkInv, Indexing, Settling
  <2> QED
    BY <1>1, <1>f, <1>l, <1>u, <2>5, <2>7, <2>8, WorkerLooks
       DEF Indexing, Settling
<1>2. CASE Poll(w) /\ wk'[w].pc # "advance"
  <2>1. /\ wk[w].pc = "poll" /\ job.named
    BY <1>t, <1>2 DEF Poll, At, WkInv
  <2>2. upstream.state \in Answers
    BY <1>t, <2>1, RowTypes DEF JobInv
  <2>3. /\ wk' \in [Workers -> [pc : WkSteps, answer : Answers]]
        /\ OthersStay(w) /\ UNCHANGED <<sub, can, rec>> /\ wk'[w].pc = "requeue"
    <3>1. CASE WkStep(w, "requeue")
      <4>1. "requeue" \in WkSteps
        BY DEF WkSteps
      <4> QED
        BY <1>t, <3>1, <4>1, Worked
    <3>2. CASE /\ wk' = [wk EXCEPT ![w] =
                    [pc     |-> IF upstream.state = "queued" THEN "requeue"
                                ELSE "advance",
                     answer |-> upstream.state]]
               /\ UNCHANGED <<sub, can, rec>>
      <4>1. PICK p \in {"requeue", "advance"} :
               wk' = [wk EXCEPT ![w] = [pc |-> p, answer |-> upstream.state]]
        BY <3>2
      <4>2. wk'[w].pc = p /\ p = "requeue"
        BY <1>t, <1>2, <4>1 DEF TypeOK
      <4> QED
        BY <1>t, <2>2, <3>2, <4>1, <4>2 DEF TypeOK, OthersStay, WkSteps
    <3> QED
      BY <1>2, <3>1, <3>2 DEF Poll
  <2>4. WkInv(w)'
    BY <2>3 DEF WkInv, Indexing, Settling
  <2> QED
    BY <1>f, <1>l, <1>u, <2>3, <2>4, WorkerLooks DEF Indexing, Settling
<1>3. CASE ~Poll(w)
  <2>1. PICK next \in WkSteps :
           /\ WkStep(w, next)
           /\ \/ next \in {"requeue", "ack", "process", "recheck"}
              \/ next = "settle" /\ job.status = "settling"
              \/ next = "release" /\ job.status \in {"failed", "cancelled"}
              \/ next = "index" /\ job.status = "indexing"
              \/ next = "poll" /\ job.named
              \/ next = "settling" /\ job.status = "indexing"
                    /\ wk[w].pc = "index"
              \/ next = "unusable" /\ wk[w].pc = "index"
              \/ /\ next = "exhaust" /\ job.status = "settling" /\ Exhausted
              \/ /\ next = "record" /\ job.status = "settling"
                 /\ upstream.cost > Hold
              \/ /\ next = "capture" /\ job.status = "settling"
                 /\ ~Exhausted /\ ~(upstream.cost > Hold)
    <3>1. Route(w) \/ Process(w) \/ Index(w) \/ Settle(w) \/ Recheck(w)
      BY <1>3
    <3>2. CASE Route(w)
      BY <3>2 DEF Route, WkSteps
    <3>3. CASE Process(w)
      BY <3>3 DEF Process, WkSteps
    <3>4. CASE Index(w)
      BY <3>4 DEF Index, WkSteps, At
    <3>5. CASE Settle(w)
      <4>1. CASE job.status = "completed" /\ WkStep(w, "ack")
        BY <4>1 DEF WkSteps
      <4>2. CASE WkStep(w, "requeue")
        BY <4>2 DEF WkSteps
      <4>3. CASE job.status = "settling" /\ Exhausted /\ WkStep(w, "exhaust")
        BY <4>3 DEF WkSteps
      <4>4. CASE /\ job.status = "settling" /\ ~Exhausted
                 /\ WkStep(w, IF upstream.cost > Hold THEN "record" ELSE "capture")
        <5>1. CASE upstream.cost > Hold
          <6>1. WkStep(w, "record") /\ "record" \in WkSteps
            BY <4>4, <5>1 DEF WkSteps
          <6> QED
            BY <4>4, <5>1, <6>1
        <5>2. CASE ~(upstream.cost > Hold)
          <6>1. WkStep(w, "capture") /\ "capture" \in WkSteps
            BY <4>4, <5>2 DEF WkSteps
          <6> QED
            BY <4>4, <5>2, <6>1
        <5> QED
          BY <5>1, <5>2
      <4> QED
        BY <3>5, <4>1, <4>2, <4>3, <4>4 DEF Settle
    <3>6. CASE Recheck(w)
      BY <3>6 DEF Recheck, WkSteps
    <3> QED
      BY <3>1, <3>2, <3>3, <3>4, <3>5, <3>6
  <2>2. /\ wk' \in [Workers -> [pc : WkSteps, answer : Answers]]
        /\ OthersStay(w) /\ UNCHANGED <<sub, can, rec>> /\ wk'[w].pc = next
    BY <1>t, <2>1, Worked
  <2>i. WkInv(w)' \/ next \in Indexing \cup Settling
    BY <1>j, <2>1, <2>2 DEF WkInv, Indexing, Settling
  <2>3. next \in Indexing \cup Settling => Past
    <3>1. job.status \in {"indexing", "settling"} => Past
      BY <1>t DEF JobInv, Past
    <3>2. wk[w].pc = "index" => Past
      BY <1>t DEF WkInv, Indexing
    <3> QED
      BY <2>1, <3>1, <3>2 DEF Indexing, Settling
  <2>4. WkInv(w)'
    BY <1>t, <1>j, <2>1, <2>2, <2>3, <2>i DEF WkInv, Past, Indexing, Settling
  <2>5. CASE next # "unusable"
    BY <1>t, <1>f, <1>l, <1>u, <2>1, <2>2, <2>4, <2>5, WorkerLooks
       DEF Indexing, Settling
  <2>6. CASE next = "unusable"
    <3>1. QueueTypeOK' /\ lock' = lock
      BY <1>t, <1>u DEF OnNone, TypeOK, QueueTypeOK, queueVars
    <3>2. wk[w].pc = "index"
      BY <2>1, <2>6
    <3>3. Calm' => WkCalm(w)'
      BY <1>f, <1>j, <1>l, <2>2, <2>6, <3>1, <3>2
         DEF Inv, Later, WkCalm, Indexing, Settling
    <3> QED
      BY <1>f, <1>j, <2>2, <2>4, <2>6, <3>1, <3>2, <3>3, WorkerReads
  <2> QED
    BY <2>5, <2>6
<1> QED
  BY <1>1, <1>2, <1>3

\* A worker finishes an entry, gives the lock back, or dies.
LEMMA InvLeave ==
    ASSUME Inv, NEW w \in Workers, Finish(w) \/ Unlock(w) \/ CrashWorker(w)
    PROVE  Inv'
<1>t. TypeOK /\ QueueTypeOK /\ faults \in Nat
  BY RowTypes DEF Inv, TypeOK
<1>u. UNCHANGED <<holdVars, job, upstream>>
  BY DEF Finish, Unlock, CrashWorker, OnQueue, SameJob
<1>f. Later /\ (Fault("worker") => faults' < faults)
  BY <1>t, Faulty DEF Finish, Unlock, CrashWorker
<1>1. PICK next \in {"unlock", "idle"} :
         /\ WkStep(w, next) /\ next \in WkSteps /\ QueueTypeOK'
         /\ next = "unlock" => wk[w].pc \in {"ack", "requeue"} /\ lock' = lock
         /\ lock # w => lock' = lock
         /\ next = "idle" => wk[w].pc = "unlock" \/ Fault("worker")
  <2>1. CASE Finish(w)
    <3>1. (AckEntry \/ RequeueAfter \/ UNCHANGED queueVars) =>
             QueueTypeOK' /\ lock' = lock
      BY <1>t, QueueTypes DEF QueueTypeOK, queueVars
    <3> QED
      BY <2>1, <3>1 DEF Finish, At, WkSteps
  <2>2. CASE Unlock(w) \/ CrashWorker(w)
    BY <1>t, <2>2, QueueTypes DEF Unlock, CrashWorker, At, WkSteps
  <2> QED
    BY <2>1, <2>2
<1>2. /\ wk' \in [Workers -> [pc : WkSteps, answer : Answers]] /\ OthersStay(w)
      /\ wk'[w].pc = next /\ UNCHANGED <<sub, can, rec>>
  BY <1>t, <1>1, Worked
<1>3. WkInv(w)'
  BY <1>1, <1>2 DEF WkInv, Indexing, Settling
<1>4. Calm' => WkCalm(w)'
  BY <1>1, <1>2, <1>f
     DEF Inv, Later, WkCalm, Locked, WkSteps, Indexing, Settling
<1>5. lock' # lock => lock \notin Workers \ {w}
  BY <1>1
<1>6. wk[w].pc = "mark" => faults' < faults
  BY <1>1, <1>f
<1> QED
  BY <1>f, <1>u, <1>1, <1>2, <1>3, <1>4, <1>5, <1>6, WorkerReads

\* A transition that did not take place: the worker leaves the entry for later,
\* or reads the row again.
LEMMA Unmoved ==
    ASSUME Inv, Later, NEW w \in Workers, wk[w].pc \in Locked, wk[w].pc # "mark",
           OnNone, NEW next \in {"requeue", "recheck"}, WkStep(w, next)
    PROVE  Inv'
<1>1. TypeOK /\ next \in WkSteps
  BY DEF Inv, WkSteps
<1>2. /\ wk' \in [Workers -> [pc : WkSteps, answer : Answers]] /\ OthersStay(w)
      /\ wk'[w].pc = next /\ UNCHANGED <<sub, can, rec>>
  BY <1>1, Worked
<1>3. WkInv(w)'
  BY <1>2 DEF WkInv, Indexing, Settling
<1> QED
  BY <1>2, <1>3, WorkerLooks DEF Indexing, Settling

\* The provider's answer becomes the status.
LEMMA InvAdvance ==
    ASSUME Inv, NEW w \in Workers, Advance(w)
    PROVE  Inv'
<1>t. /\ TypeOK /\ JobInv /\ WkInv(w) /\ wk[w].pc = "advance"
      /\ wk[w].answer \in Answers /\ wk[w].pc \in Locked
      /\ job.named /\ job.status \in Statuses
      /\ upstream.state \in Answers \cup {"none"}
  BY RowTypes DEF Inv, TypeOK, Advance, At, WkInv, Locked, WkSteps
<1>1. PICK to \in Statuses, ok \in WkSteps :
         /\ Transition(w, to, ok)
         /\ \/ to = "indexing" /\ ok = "index" /\ wk[w].answer = "succeeded"
            \/ to = "failed" /\ ok = "release" /\ wk[w].answer = "failed"
            \/ to = "cancelled" /\ ok = "release" /\ wk[w].answer = "cancelled"
            \/ to = "running" /\ ok = "requeue"
  BY <1>t DEF Advance, StatusOf, After, Statuses, WkSteps, Answers, Live, Ended,
              Terminal
<1>2. /\ Later /\ OnJob
      /\ \/ /\ CanTransition(to) /\ MoveTo(to)
            /\ WkStep(w, ok) \/ (WkStep(w, "requeue") /\ ~Calm')
         \/ WkStep(w, "requeue") /\ UNCHANGED job
  BY <1>1, <1>t, Faulty DEF Transition
<1>3. CASE WkStep(w, "requeue") /\ UNCHANGED job
  BY <1>t, <1>2, <1>3, Unmoved DEF OnNone, OnJob, SameJob
<1>4. CASE /\ CanTransition(to) /\ MoveTo(to)
           /\ WkStep(w, ok) \/ (WkStep(w, "requeue") /\ ~Calm')
  <2>1. /\ job' \in Jobs /\ job'.status = to /\ job'.named = job.named
        /\ job'.retry = job.retry
    BY <1>t, <1>4, Moved
  <2>2. PICK next \in {ok, "requeue"} :
           /\ WkStep(w, next) /\ next \in WkSteps
           /\ next = "requeue" \/ next = ok
    BY <1>4 DEF WkSteps
  <2>3. /\ wk' \in [Workers -> [pc : WkSteps, answer : Answers]] /\ OthersStay(w)
        /\ wk'[w].pc = next /\ UNCHANGED <<sub, can, rec>>
    BY <1>t, <2>2, Worked
  <2>4. wk[w].answer \in Ended => upstream.state = wk[w].answer
    BY <1>t DEF WkInv
  <2>5. job.status \in {"submitted", "running"}
    <3>1. job.status \notin Terminal \cup Unsubmitted \cup {"none"}
      BY <1>t, <1>1, <1>4 DEF JobInv, CanTransition, Allowed, Terminal
    <3>2. CASE to = "failed"
      <4>1. upstream.state # "succeeded"
        BY <1>1, <2>4, <3>2 DEF Ended
      <4> QED
        BY <1>t, <3>1, <4>1 DEF JobInv, Statuses
    <3>3. CASE to # "failed"
      <4>1. to \in {"indexing", "cancelled", "running"}
        BY <1>1, <3>3
      <4>2. to \in Allowed[job.status]
        BY <1>4, <3>3 DEF CanTransition
      <4> QED
        BY <1>t, <3>1, <4>1, <4>2 DEF Allowed, Statuses, Terminal
    <3> QED
      BY <3>2, <3>3
  <2>6. "release" \notin moved /\ ~Past
    BY <1>t, <2>5 DEF JobInv, Past
  <2>7. UNCHANGED <<holdVars, queueVars, upstream>> /\ moved' = moved
    BY <1>2 DEF OnJob, holdVars
  <2>8. JobInv'
    BY <1>t, <1>1, <2>1, <2>4, <2>5, <2>6, <2>7
       DEF JobInv, Unsubmitted, Ended
  <2>9. WkInv(w)'
    BY <1>t, <1>1, <2>1, <2>2, <2>3, <2>4, <2>7
       DEF WkInv, Past, Indexing, Settling, Ended
  <2>10. ASSUME Calm'
         PROVE  /\ WkCalm(w)' /\ "capture" \notin moved
    <3>1. lock = w /\ "capture" \notin moved
      BY <1>t, <1>2, <2>5, <2>10 DEF Inv, Later, WkCalm, MoneyInv
    <3>2. lock' = lock /\ next = ok
      <4>1. lock' = lock
        BY <2>7 DEF queueVars
      <4>2. wk'[w].pc = ok
        <5>1. WkStep(w, ok)
          BY <1>4, <2>10
        <5> QED
          BY <1>t, <5>1, Worked
      <4> QED
        BY <2>3, <4>1, <4>2
    <3> QED
      BY <1>1, <2>1, <2>3, <3>1, <3>2 DEF WkCalm, Locked, Indexing, Settling
  <2> QED
    BY <1>t, <1>1, <1>2, <2>1, <2>2, <2>3, <2>5, <2>6, <2>7, <2>8, <2>9, <2>10,
       WorkerMoves DEF Terminal, Unsubmitted
<1> QED
  BY <1>2, <1>3, <1>4

\* The output is indexed, cannot be used, or the settlement is given up.
LEMMA InvEndIndexing ==
    ASSUME Inv, NEW w \in Workers, ToSettling(w) \/ IndexingFailed(w) \/ GiveUp(w)
    PROVE  Inv'
<1>1. PICK to \in {"settling", "failed"},
           ok \in {"requeue", "release", "recheck"} :
         /\ Transition(w, to, ok)
         /\ \/ to = "settling" /\ ok = "requeue" /\ wk[w].pc = "settling"
            \/ to = "failed" /\ ok = "release" /\ wk[w].pc = "unusable"
            \/ to = "failed" /\ ok = "recheck" /\ wk[w].pc = "giveUp"
  BY DEF ToSettling, IndexingFailed, GiveUp, At
<1>t. /\ TypeOK /\ JobInv /\ WkInv(w) /\ Past /\ wk[w].pc \in Locked
      /\ wk[w].pc # "mark" /\ to \in Statuses /\ ok \in WkSteps
      /\ wk[w].pc \in Settling => job.status # "indexing"
  BY <1>1 DEF Inv, WkInv, Indexing, Settling, Locked, WkSteps, Statuses, Terminal
<1>2. /\ Later /\ OnJob
      /\ \/ /\ CanTransition(to) /\ MoveTo(to)
            /\ WkStep(w, ok) \/ (WkStep(w, "requeue") /\ ~Calm')
         \/ WkStep(w, "requeue") /\ UNCHANGED job
  BY <1>1, <1>t, Faulty DEF Transition
<1>3. CASE WkStep(w, "requeue") /\ UNCHANGED job
  BY <1>t, <1>2, <1>3, Unmoved DEF OnNone, OnJob, SameJob
<1>4. CASE /\ CanTransition(to) /\ MoveTo(to)
           /\ WkStep(w, ok) \/ (WkStep(w, "requeue") /\ ~Calm')
  <2>1. /\ job' \in Jobs /\ job'.status = to /\ job'.named = job.named
        /\ job'.retry = job.retry
    BY <1>t, <1>4, Moved
  <2>2. PICK next \in {ok, "requeue"} : WkStep(w, next) /\ next \in WkSteps
    BY <1>4 DEF WkSteps
  <2>3. /\ wk' \in [Workers -> [pc : WkSteps, answer : Answers]] /\ OthersStay(w)
        /\ wk'[w].pc = next /\ UNCHANGED <<sub, can, rec>>
    BY <1>t, <2>2, Worked
  <2>5. /\ to = "settling" => job.status = "indexing"
        /\ job.status \in {"indexing", "settling"}
    <3>1. job.status \in {"indexing", "settling", "completed", "failed"}
      BY <1>t DEF Past
    <3> QED
      BY <1>1, <1>4, <3>1 DEF CanTransition, Allowed, Terminal, Statuses
  <2>7. UNCHANGED <<holdVars, queueVars, upstream>> /\ moved' = moved
    BY <1>2 DEF OnJob, holdVars
  <2>6. to = "settling" => "release" \notin moved
    BY <1>t, <2>5 DEF JobInv
  <2>8. JobInv' /\ Past'
    BY <1>t, <1>1, <2>1, <2>5, <2>7 DEF JobInv, Past, Unsubmitted, Ended
  <2>9. WkInv(w)'
    BY <1>t, <1>1, <2>1, <2>2, <2>3 DEF WkInv, Indexing, Settling
  <2>10. ASSUME Calm'
         PROVE  /\ WkCalm(w)' /\ "capture" \notin moved
    <3>1. lock = w /\ lock' = lock
      BY <1>t, <1>2, <2>7, <2>10 DEF Inv, Later, WkCalm, queueVars
    <3>2. "capture" \notin moved
      BY <1>1, <1>2, <2>10
         DEF Inv, Later, WkCalm, MoneyInv, Indexing, Settling
    <3> QED
      BY <1>1, <2>2, <2>3, <3>1, <3>2 DEF WkCalm, Locked, Indexing, Settling
  <2> QED
    BY <1>t, <1>1, <1>2, <2>1, <2>2, <2>3, <2>5, <2>6, <2>7, <2>8, <2>9, <2>10,
       WorkerMoves DEF Terminal, Unsubmitted
<1> QED
  BY <1>2, <1>3, <1>4

\* The settlement is recorded.
LEMMA InvMark ==
    ASSUME Inv, NEW w \in Workers, MarkSettled(w)
    PROVE  Inv'
<1>t. /\ TypeOK /\ JobInv /\ WkInv(w) /\ Past /\ wk[w].pc = "mark"
      /\ wk[w].pc \in Locked /\ faults \in Nat
      /\ {"ack", "requeue"} \subseteq WkSteps /\ "completed" \in Statuses
  BY RowTypes DEF Inv, MarkSettled, At, WkInv, Settling, Locked, WkSteps,
                  Statuses, Terminal
<1>f. Later
  BY <1>t, Faulty DEF MarkSettled
<1>u. UNCHANGED <<holdVars, queueVars, upstream>> /\ moved' = moved
  BY DEF MarkSettled, OnJob, holdVars
<1>1. CASE /\ job.status = "settling" /\ MoveTo("completed")
           /\ WkStep(w, "ack") \/ WkStep(w, "requeue")
  <2>1. /\ job' \in Jobs /\ job'.status = "completed" /\ job'.named = job.named
        /\ job'.retry = job.retry
    BY <1>t, <1>1, Moved
  <2>2. PICK next \in {"ack", "requeue"} : WkStep(w, next) /\ next \in WkSteps
    BY <1>t, <1>1
  <2>3. /\ wk' \in [Workers -> [pc : WkSteps, answer : Answers]] /\ OthersStay(w)
        /\ wk'[w].pc = next /\ UNCHANGED <<sub, can, rec>>
    BY <1>t, <2>2, Worked
  <2>4. JobInv' /\ Past'
    BY <1>t, <1>u, <1>1, <2>1 DEF JobInv, Past, Unsubmitted
  <2>5. WkInv(w)'
    BY <2>3 DEF WkInv, Indexing, Settling
  <2>6. ASSUME Calm'
        PROVE  WkCalm(w)' /\ "capture" \in moved
    <3>1. lock = w /\ "capture" \in moved /\ lock' = lock
      BY <1>t, <1>f, <1>u, <2>6 DEF Inv, Later, WkCalm, queueVars
    <3> QED
      BY <2>3, <3>1 DEF WkCalm, Locked, Indexing, Settling
  <2> QED
    BY <1>t, <1>f, <1>u, <1>1, <2>1, <2>3, <2>4, <2>5, <2>6, WorkerMoves
       DEF Terminal, Unsubmitted
<1>2. CASE /\ UNCHANGED job /\ WkStep(w, "requeue")
           /\ job.status # "settling" \/ Fault("db")
  <2>1. /\ wk' \in [Workers -> [pc : WkSteps, answer : Answers]] /\ OthersStay(w)
        /\ wk'[w].pc = "requeue" /\ UNCHANGED <<sub, can, rec>>
    BY <1>t, <1>2, Worked
  <2>2. WkInv(w)'
    BY <2>1 DEF WkInv, Indexing, Settling
  <2>3. QueueTypeOK' /\ lock' = lock
    BY <1>t, <1>u DEF TypeOK, QueueTypeOK, queueVars
  <2>4. Calm' => WkCalm(w)'
    BY <1>t, <1>f, <2>1, <2>3 DEF Inv, Later, WkCalm, Locked, Indexing, Settling
  <2>5. job.status # "settling" \/ faults' < faults
    BY <1>t, <1>2, Faulty
  <2> QED
    BY <1>t, <1>f, <1>u, <1>2, <2>1, <2>2, <2>3, <2>4, <2>5, WorkerReads
<1> QED
  BY <1>1, <1>2 DEF MarkSettled

\* A worker gives the hold of a batch back that has ended, or that it gives up.
LEMMA InvWorkerRelease ==
    ASSUME Inv, NEW w \in Workers, ReleaseTerminalHold(w) \/ ExhaustRelease(w)
    PROVE  Inv'
<1>1. PICK ok \in {"ack", "giveUp"}, bad \in {"requeue", "releaseFailed"} :
         /\ ReleaseHold(WkStep(w, ok), WkStep(w, bad))
         /\ \/ wk[w].pc = "release" /\ ok = "ack" /\ bad = "requeue"
            \/ wk[w].pc = "exhaust" /\ ok = "giveUp" /\ bad = "releaseFailed"
  BY DEF ReleaseTerminalHold, ExhaustRelease, At
<1>t. /\ TypeOK /\ JobInv /\ WkInv(w) /\ QueueTypeOK /\ wk[w].pc \in Locked
      /\ ok \in WkSteps /\ bad \in WkSteps
  BY <1>1 DEF Inv, TypeOK, Locked, WkSteps
<1>f. Later
  BY <1>1, <1>t, Faulty DEF ReleaseHold
<1>u. UNCHANGED <<queueVars, job, upstream>> /\ QueueTypeOK' /\ lock' = lock
  BY <1>1, <1>t DEF ReleaseHold, SameJob, queueVars, QueueTypeOK
<1>2. PICK next \in {ok, bad} : WkStep(w, next)
  BY <1>1 DEF ReleaseHold
<1>3. /\ wk' \in [Workers -> [pc : WkSteps, answer : Answers]] /\ OthersStay(w)
      /\ wk'[w].pc = next /\ UNCHANGED <<sub, can, rec>>
  BY <1>t, <1>2, Worked
<1>4. /\ wk[w].pc = "exhaust" => Past /\ job.status # "indexing"
      /\ wk[w].pc = "release" => job.status \in {"failed", "cancelled"}
  BY <1>t DEF WkInv, Settling
<1>5. WkInv(w)'
  BY <1>1, <1>u, <1>2, <1>3, <1>4 DEF WkInv, Past, Indexing, Settling
<1>6. job.status \in Terminal \cup {"settling"}
  BY <1>1, <1>4 DEF Past, Terminal
<1>7. ASSUME Calm'
      PROVE  /\ Calm /\ MoneyInv /\ WkCalm(w) /\ lock = w
             /\ "capture" \notin moved
             /\ wk[w].pc = "exhaust" =>
                   /\ job.status = "settling" /\ job.retry >= MaxRetries
                   /\ upstream.cost <= Hold => job.settleErr
  <2>1. Calm /\ MoneyInv /\ WkCalm(w) /\ lock = w
    BY <1>f, <1>t, <1>7 DEF Inv, Later, WkCalm
  <2> QED
    BY <1>1, <1>4, <2>1 DEF MoneyInv, WkCalm, Settling
<1>8. ASSUME Calm', "capture" \notin moved'
      PROVE  Frugal
  BY <1>1, <1>t, <1>f, <1>u, <1>2, <1>3, <1>8, WorkerFrugal DEF Unmarked
<1>9. ASSUME Calm', moved' \subseteq moved \cup {"release"}
      PROVE  WkCalm(w)'
  <2>1. "capture" \notin moved'
    BY <1>7, <1>9
  <2> QED
    BY <1>1, <1>u, <1>2, <1>3, <1>7, <1>9, <2>1
       DEF WkCalm, Locked, Indexing, Settling
<1>10. CASE UNCHANGED holdVars
  <2>1. Calm' => WkCalm(w)'
    BY <1>9, <1>10 DEF holdVars
  <2> QED
    BY <1>1, <1>f, <1>u, <1>2, <1>3, <1>5, <1>10, <2>1, WorkerReads
<1>11. CASE Release
  <2>1. /\ HoldTypeOK' /\ ClaimInv'
        /\ moved \subseteq moved' /\ moved' \subseteq moved \cup {"release"}
        /\ /\ purse.frozen = Other + (IF HoldOpen THEN Hold ELSE 0)
           /\ "capture" \notin moved
           => purse'.frozen = Other + (IF HoldOpen' THEN Hold ELSE 0)
    BY <1>11, Released
  <2>2. ASSUME Calm'
        PROVE  /\ WkCalm(w)' /\ "capture" \notin moved' /\ Frugal
               /\ purse'.frozen = Other + (IF HoldOpen' THEN Hold ELSE 0)
               /\ upstream.cost <= Hold /\ job.status = "settling" => Exhausted
    <3>1. /\ Calm /\ MoneyInv /\ "capture" \notin moved
          /\ wk[w].pc = "exhaust" =>
                /\ job.status = "settling" /\ job.retry >= MaxRetries
                /\ upstream.cost <= Hold => job.settleErr
      BY <1>7, <2>2
    <3>2. "capture" \notin moved'
      BY <2>1, <3>1
    <3>3. Frugal /\ WkCalm(w)'
      BY <1>8, <1>9, <2>1, <2>2, <3>2
    <3>4. purse'.frozen = Other + (IF HoldOpen' THEN Hold ELSE 0)
      BY <2>1, <3>1 DEF MoneyInv
    <3>5. upstream.cost <= Hold /\ job.status = "settling" => Exhausted
      BY <1>1, <1>4, <3>1 DEF Exhausted
    <3> QED
      BY <3>2, <3>3, <3>4, <3>5
  <2> QED
    BY <1>t, <1>f, <1>u, <1>3, <1>5, <1>6, <2>1, <2>2, WorkerPays
<1> QED
  BY <1>1, <1>10, <1>11 DEF ReleaseHold

\* What a capture does to the hold.
LEMMA Captured ==
    ASSUME Inv, job.named, upstream.cost <= Hold, Capture(upstream.cost)
    PROVE  /\ HoldTypeOK' /\ ClaimInv' /\ "capture" \in moved'
           /\ moved \subseteq moved' /\ moved' \subseteq moved \cup {"capture"}
           /\ /\ purse.frozen = Other + (IF HoldOpen THEN Hold ELSE 0)
              /\ "release" \notin moved
              => purse'.frozen = Other + (IF HoldOpen' THEN Hold ELSE 0)
<1>t. /\ HoldTypeOK /\ ClaimInv /\ Hold \in Nat \ {0} /\ Other \in Nat
      /\ "hold" \in moved /\ upstream.cost \in Nat
  BY Constants, RowTypes DEF Inv, TypeOK, JobInv
<1>1. CASE AlreadyClaimed("capture")
  BY <1>t, <1>1 DEF AlreadyClaimed, holdVars, HoldTypeOK, ClaimInv, HoldOpen
<1>2. CASE /\ EnoughFrozen
           /\ Move("capture", purse.balance + (Hold - upstream.cost),
                   purse.frozen - Hold)
  <2>1. /\ purse' = [balance |-> purse.balance + (Hold - upstream.cost),
                     frozen |-> purse.frozen - Hold]
        /\ claims' = claims \cup {"capture"} /\ moved' = moved \cup {"capture"}
        /\ "capture" \notin claims /\ purse.frozen >= Hold
    BY <1>2 DEF Move, Unclaimed, EnoughFrozen
  <2>2. /\ purse.balance \in Nat /\ purse.frozen \in Nat
        /\ moved \subseteq claims /\ claims \subseteq Requests
    BY <1>t DEF HoldTypeOK
  <2>3. purse' \in [balance : Nat, frozen : Nat]
    <3>1. PICK b \in Nat, f \in Nat, c \in Nat :
             b = purse.balance /\ f = purse.frozen /\ c = upstream.cost
      BY <1>t, <2>2
    <3>2. b + (Hold - c) \in Nat /\ f - Hold \in Nat
      BY <1>t, <2>1, <3>1
    <3> QED
      BY <2>1, <3>1, <3>2
  <2>4. HoldTypeOK'
    BY <2>1, <2>2, <2>3 DEF HoldTypeOK, Requests
  <2>5. ClaimInv'
    BY <1>t, <2>1 DEF ClaimInv
  <2>6. ~HoldOpen'
    BY <2>1 DEF HoldOpen
  <2>7. "release" \notin moved => HoldOpen
    BY <1>t, <2>1, <2>2 DEF HoldOpen, Requests
  <2>8. purse'.frozen = purse.frozen - Hold
    BY <2>1
  <2> QED
    BY <1>t, <2>1, <2>2, <2>4, <2>5, <2>6, <2>7, <2>8
<1> QED
  BY <1>1, <1>2 DEF Capture

\* A worker captures the hold, or fails to.
LEMMA InvCapture ==
    ASSUME Inv, NEW w \in Workers, CaptureHold(w)
    PROVE  Inv'
<1>t. /\ TypeOK /\ JobInv /\ WkInv(w) /\ QueueTypeOK /\ wk[w].pc = "capture"
      /\ wk[w].pc \in Locked /\ {"mark", "record"} \subseteq WkSteps
      /\ faults \in Nat /\ faults' \in Nat /\ upstream.cost \in Nat
      /\ Hold \in Nat
  <2>1. Later
    BY Faulty DEF Inv, CaptureHold
  <2> QED
    BY <2>1, RowTypes, Constants
       DEF Inv, TypeOK, CaptureHold, At, Locked, WkSteps, Later
<1>f. Later
  BY <1>t, Faulty DEF CaptureHold
<1>u. UNCHANGED <<queueVars, job, upstream>> /\ QueueTypeOK' /\ lock' = lock
  BY <1>t DEF CaptureHold, OnHold, SameJob, queueVars, QueueTypeOK
<1>1. /\ Past /\ job.status # "indexing" /\ upstream.cost <= Hold /\ job.named
      /\ job.status \in Terminal \cup {"settling"}
  BY <1>t DEF WkInv, Past, Settling, Terminal
<1>2. PICK next \in {"mark", "record"} : WkStep(w, next)
  BY DEF CaptureHold
<1>3. /\ wk' \in [Workers -> [pc : WkSteps, answer : Answers]] /\ OthersStay(w)
      /\ wk'[w].pc = next /\ UNCHANGED <<sub, can, rec>>
  BY <1>t, <1>2, Worked
<1>4. WkInv(w)'
  BY <1>u, <1>1, <1>2, <1>3 DEF WkInv, Past, Indexing, Settling
<1>5. ASSUME Calm'
      PROVE  /\ Calm /\ MoneyInv /\ lock = w /\ job.status = "settling"
             /\ "release" \notin moved
  BY <1>f, <1>t, <1>5 DEF Inv, Later, WkCalm, Settling
<1>6. CASE UNCHANGED holdVars /\ WkStep(w, "record") /\ Fault("db")
  <2>1. wk'[w].pc = "record" /\ faults' < faults
    BY <1>t, <1>6, Worked, Faulty
  <2>2. Calm' => WkCalm(w)'
    BY <1>u, <1>5, <2>1 DEF WkCalm, Locked, Indexing, Settling
  <2> QED
    BY <1>t, <1>f, <1>u, <1>3, <1>4, <1>6, <2>1, <2>2, WorkerReads
<1>7. CASE Capture(upstream.cost) /\ (Calm' => WkStep(w, "mark"))
  <2>1. /\ HoldTypeOK' /\ ClaimInv' /\ "capture" \in moved'
        /\ moved \subseteq moved' /\ moved' \subseteq moved \cup {"capture"}
        /\ /\ purse.frozen = Other + (IF HoldOpen THEN Hold ELSE 0)
           /\ "release" \notin moved
           => purse'.frozen = Other + (IF HoldOpen' THEN Hold ELSE 0)
    BY <1>1, <1>7, Captured
  <2>2. ASSUME Calm'
        PROVE  /\ WkCalm(w)' /\ "release" \notin moved' /\ Frugal
               /\ purse'.frozen = Other + (IF HoldOpen' THEN Hold ELSE 0)
    <3>1. wk'[w].pc = "mark"
      BY <1>t, <1>7, <2>2, Worked
    <3>2. "release" \notin moved'
      BY <1>5, <2>1, <2>2
    <3>3. purse'.frozen = Other + (IF HoldOpen' THEN Hold ELSE 0)
      BY <1>5, <2>1, <2>2 DEF MoneyInv
    <3>4. WkCalm(w)'
      BY <1>u, <1>5, <2>1, <2>2, <3>1 DEF WkCalm, Indexing, Settling
    <3>5. ~Unmarked'
      BY <3>1 DEF Unmarked, Marking
    <3>6. Frugal
      BY <1>t, <1>f, <1>u, <1>3, <3>1, <3>5, WorkerFrugal
    <3> QED
      BY <3>2, <3>3, <3>4, <3>6
  <2> QED
    BY <1>t, <1>f, <1>u, <1>1, <1>3, <1>4, <1>5, <2>1, <2>2, WorkerPays
<1>8. ASSUME CaptureFails(upstream.cost), UNCHANGED holdVars, WkStep(w, "record"),
             NoFault
      PROVE  Inv'
  <2>1. wk'[w].pc = "record"
    BY <1>t, <1>8, Worked
  <2>2. ~Calm'
    <3>1. SUFFICES ASSUME Calm' PROVE FALSE
      OBVIOUS
    <3>2. /\ MoneyInv /\ "release" \notin moved /\ "capture" \notin claims
          /\ ~EnoughFrozen
      BY <1>t, <1>1, <1>5, <1>8, <3>1 DEF CaptureFails, Unclaimed
    <3>3. HoldOpen
      BY <1>t, <1>1, <3>2
         DEF Inv, JobInv, ClaimInv, HoldOpen, TypeOK, HoldTypeOK, Requests
    <3>4. purse.frozen = Other + Hold /\ Other \in Nat
      BY <3>2, <3>3, Constants DEF MoneyInv
    <3> QED
      BY <1>t, <3>2, <3>4 DEF EnoughFrozen
  <2>3. HoldTypeOK' /\ ClaimInv' /\ moved' = moved
    BY <1>t, <1>8 DEF Inv, TypeOK, HoldTypeOK, ClaimInv, holdVars
  <2> QED
    BY <1>t, <1>f, <1>u, <1>1, <1>3, <1>4, <2>2, <2>3, WorkerPays
<1> QED
  BY <1>t, <1>6, <1>7, <1>8, Faulty DEF CaptureHold

\* A worker counts a failed settlement, unless that fails too.
LEMMA InvRecord ==
    ASSUME Inv, NEW w \in Workers,
           RecordSettlementFailure(w) \/ ReleaseFailed(w)
    PROVE  Inv'
<1>t. /\ TypeOK /\ wk[w].pc \in {"record", "releaseFailed"}
      /\ wk[w].pc \in Locked /\ wk[w].pc # "mark"
  BY DEF Inv, RecordSettlementFailure, ReleaseFailed, At, Locked, WkSteps
<1>u. UNCHANGED <<holdVars, queueVars, upstream>> /\ OnJob
  BY DEF RecordSettlementFailure, ReleaseFailed, OnJob
<1>1. PICK next \in {"exhaust", "requeue", "recheck"} :
         /\ WkStep(w, next)
         /\ \/ /\ CountRetry /\ NoFault
               /\ next = "exhaust" =>
                     wk[w].pc = "record" /\ job'.retry >= MaxRetries
            \/ UNCHANGED job /\ Fault("db") /\ next # "exhaust"
  <2>1. CASE ReleaseFailed(w)
    BY <2>1 DEF ReleaseFailed
  <2>2. CASE RecordSettlementFailure(w)
    <3>1. PICK onError \in {"requeue", "recheck"} :
             onError = IF upstream.cost > Hold THEN "requeue" ELSE "recheck"
      OBVIOUS
    <3>2. \/ /\ CountRetry /\ NoFault
             /\ WkStep(w, IF job'.retry >= MaxRetries THEN "exhaust" ELSE onError)
          \/ UNCHANGED job /\ Fault("db") /\ WkStep(w, onError)
      BY <2>2, <3>1 DEF RecordSettlementFailure
    <3>3. wk[w].pc = "record"
      BY <2>2 DEF RecordSettlementFailure, At
    <3>4. CASE job'.retry >= MaxRetries
      BY <3>1, <3>2, <3>3, <3>4
    <3>5. CASE ~(job'.retry >= MaxRetries)
      BY <3>1, <3>2, <3>3, <3>5
    <3> QED
      BY <3>4, <3>5
  <2> QED
    BY <2>1, <2>2
<1>2. next \in WkSteps
  BY <1>1 DEF WkSteps
<1>3. /\ wk' \in [Workers -> [pc : WkSteps, answer : Answers]] /\ OthersStay(w)
      /\ wk'[w].pc = next /\ UNCHANGED <<sub, can, rec>>
  BY <1>t, <1>1, <1>2, Worked
<1>4. CASE /\ CountRetry /\ NoFault
           /\ next = "exhaust" => wk[w].pc = "record" /\ job'.retry >= MaxRetries
  BY <1>t, <1>u, <1>1, <1>3, <1>4, WorkerCounts
<1>5. CASE UNCHANGED job /\ Fault("db") /\ next # "exhaust"
  <2>1. Later
    BY <1>t, <1>5, Faulty
  <2> QED
    BY <1>t, <1>u, <1>1, <1>5, <2>1, Unmoved DEF OnNone, SameJob
<1> QED
  BY <1>1, <1>4, <1>5

-----------------------------------------------------------------------------
(***************************************************************************)
(* The invariant, and what follows from it.                                *)
(***************************************************************************)

\* The initial states.
LEMMA InvInit ==
    ASSUME Init
    PROVE  Inv
<1>c. /\ Hold \in Nat \ {0} /\ Other \in Nat /\ Costs \subseteq Nat
      /\ MaxRetries \in Nat \ {0} /\ MaxFaults \in Nat /\ Owned \subseteq Nat
      /\ MaxCopies \in Nat \ {0}
  BY Constants, HoldAssumption
<1>1. /\ upstream = [state |-> "none", cost |-> 0] /\ can = "idle" /\ rec = "idle"
      /\ wk = [w \in Workers |-> [pc |-> "idle", answer |-> "queued"]]
      /\ hit = {} /\ faults = MaxFaults
  BY DEF Init
<1>2. /\ job \in Jobs /\ ~job.named /\ job.retry = 0
      /\ \/ job.status = "none" /\ sub = "idle" /\ moved = {} /\ claims = {}
            /\ purse \in [balance : Owned, frozen : {Other}]
         \/ job.status \in Unsubmitted /\ sub = "done" /\ moved = {"hold"}
            /\ claims = {"hold"}
            /\ purse \in [balance : Owned, frozen : {Other + Hold}]
  <2>1. NewJob \in Jobs
    BY <1>c DEF NewJob, Jobs, Statuses
  <2>2. CASE HoldInit /\ job = NewJob /\ sub = "idle"
    BY <2>1, <2>2 DEF HoldInit, NewJob
  <2>3. CASE /\ HoldReserved /\ sub = "done"
             /\ \E s \in Unsubmitted : job = [NewJob EXCEPT !.status = s]
    BY <2>1, <2>3 DEF HoldReserved, NewJob, Jobs, Statuses
  <2> QED
    BY <2>2, <2>3 DEF Init
<1>3. HoldTypeOK
  <2>1. PICK f \in Nat : purse \in [balance : Owned, frozen : {f}]
    <3>1. Other \in Nat /\ Other + Hold \in Nat
      BY <1>c
    <3> QED
      BY <1>2, <3>1
  <2>2. purse \in [balance : Nat, frozen : Nat]
    BY <1>c, <2>1
  <2> QED
    BY <1>2, <2>2 DEF HoldTypeOK, Requests
<1>4. QueueTypeOK
  <2>1. QueueInit
    BY DEF Init
  <2>2. 0 \in 0 .. MaxCopies
    BY <1>c
  <2> QED
    BY <2>1, <2>2 DEF QueueInit, QueueTypeOK
<1>5. \A w \in Workers : wk[w].pc = "idle"
  BY <1>1
<1>6. TypeOK
  BY <1>c, <1>1, <1>2, <1>3, <1>4
     DEF TypeOK, SubSteps, CanSteps, RecSteps, WkSteps, Answers, Live
<1>7. ClaimInv /\ JobInv /\ SubInv /\ CanInv /\ RecInv
  BY <1>1, <1>2
     DEF ClaimInv, JobInv, SubInv, CanInv, RecInv, Unsubmitted, Early, Failing
<1>8. \A w \in Workers : WkInv(w) /\ WkCalm(w)
  BY <1>5 DEF WkInv, WkCalm, Indexing, Settling, Locked
<1>9. MoneyInv
  <2>1. One(Recording) = 0 /\ One(sub = "queueFailed") = 0 /\ One(Unmarked) = 0
    BY <1>2, <1>5 DEF One, Recording, Unmarked
  <2>2. Load + faults <= MaxFaults
    BY <1>c, <1>1, <1>2, <2>1 DEF Load
  <2>3. purse.frozen = Other + (IF HoldOpen THEN Hold ELSE 0)
    BY <1>c, <1>2 DEF HoldOpen
  <2> QED
    BY <1>2, <2>2, <2>3 DEF MoneyInv, Unsubmitted
<1> QED
  BY <1>6, <1>7, <1>8, <1>9 DEF Inv

\* Every step of a worker.
LEMMA InvWork ==
    ASSUME Inv, NEW w \in Workers, Work(w) \/ CrashWorker(w)
    PROVE  Inv'
BY InvTake, InvLook, InvLeave, InvAdvance, InvEndIndexing, InvMark,
   InvWorkerRelease, InvCapture, InvRecord DEF Work

\* Every step of the handlers and of the recovery.
LEMMA InvHandlers ==
    ASSUME Inv,
           \/ Submit \/ TouchSubmitting \/ Resubmit \/ CrashSubmit \/ DeleteRecord
           \/ CancelRead \/ Cancel \/ CrashCancel
           \/ AgeRow \/ Recovery \/ CrashRecovery
    PROVE  Inv'
<1>1. CASE Submit
  BY <1>1, InvBegin, InvReserve, InvSubmitQuiet, InvProviderSubmit, InvName,
     InvUpstream, InvHandlerRelease, InvSubmitFails, InvTouch DEF Submit
<1>2. CASE TouchSubmitting \/ DeleteRecord \/ AgeRow
  <2>1. \/ TouchSubmitting \/ RecordQueueFailure \/ DeleteRecord \/ AgeRow
        \/ HidePreUpstreamSubmitFailure
    BY <1>2
  <2> QED
    BY <2>1, InvTouch
<1>3. CASE Resubmit \/ CrashSubmit
  <2>1. \/ CreatePendingItems \/ EnqueueSubmitted \/ EnqueueBillingRetry
        \/ Resubmit \/ CrashSubmit
    BY <1>3
  <2> QED
    BY <2>1, InvSubmitQuiet
<1>4. CASE CancelRead \/ Cancel \/ CrashCancel
  BY <1>4, InvCancelQuiet, InvUpstream, InvEndsHere, InvHandlerRelease DEF Cancel
<1>5. CASE Recovery \/ CrashRecovery
  BY <1>5, InvRecoveryQuiet, InvEndsHere, InvHandlerRelease DEF Recovery
<1> QED
  BY <1>1, <1>2, <1>3, <1>4, <1>5

\* A step that changes nothing.
LEMMA InvStutter ==
    ASSUME Inv, UNCHANGED vars
    PROVE  Inv'
<1>u. UNCHANGED <<holdVars, lock, job, upstream, wk, sub, can, rec, hit, faults>>
  BY DEF vars, actorVars, queueVars
<1>1. QueueTypeOK' /\ Later
  BY <1>u DEF Inv, TypeOK, QueueTypeOK, vars, queueVars, Later, Calm
<1>2. SubInv' /\ CanInv' /\ RecInv'
  BY <1>u DEF Inv, SubInv, CanInv, RecInv, holdVars
<1> QED
  BY <1>u, <1>1, <1>2, Quiet DEF Inv, TypeOK

\* Every reachable state satisfies the invariant.
LEMMA Invariance == Spec => []Inv
<1>1. Init => Inv
  BY InvInit
<1>2. Inv /\ [Next]_vars => Inv'
  <2> SUFFICES ASSUME Inv, [Next]_vars
               PROVE  Inv'
    OBVIOUS
  <2>1. CASE UNCHANGED vars
    BY <2>1, InvStutter
  <2>2. CASE Next
    BY <2>2, InvHandlers, InvWork, InvQueue, InvLockExpires, InvUpstream DEF Next
  <2> QED
    BY <2>1, <2>2
<1> QED
  BY <1>1, <1>2, PTL DEF Spec

\* The row, the stores and every actor have their types.
THEOREM TypeCorrect == Spec => []TypeOK
<1>1. Inv => TypeOK
  BY DEF Inv
<1> QED
  BY <1>1, Invariance, PTL

\* A batch never gives back, or keeps, another batch's money: the user's frozen
\* balance is the other batches' and this one's hold while it is open, as long
\* as no COMMIT is lost, no heartbeat lapses, and no more calls fail than a
\* settlement is retried (UPDATEs of frozen_balance in usage_billing_repo.go).
THEOREM Frozen == Spec => []FrozenIsOpenHolds
<1>1. Inv => FrozenIsOpenHolds
  BY DEF Inv, FrozenIsOpenHolds, MoneyInv
<1> QED
  BY <1>1, Invariance, PTL

\* Under the same conditions the status says whether the user was charged,
\* however Settle, failExhaustedSettlement, Cancel and the recovery interleave.
THEOREM Charged == Spec => []ChargedIffCompleted
<1>1. Inv => ChargedIffCompleted
  BY DEF Inv, ChargedIffCompleted, MoneyInv
<1> QED
  BY <1>1, Invariance, PTL

\* No hold is given back while the provider works on its batch, unless the
\* batch was cancelled: whatever fails, crashes or lapses, and however often.
THEOREM Refunded == Spec => []RunningIsNotRefunded
<1>1. Inv => RunningIsNotRefunded
  <2> SUFFICES ASSUME Inv, "release" \in moved, job.named, upstream.state \in Live
               PROVE  job.status = "cancelled"
    BY DEF RunningIsNotRefunded
  <2>1. JobInv /\ job.status \in Statuses
    BY RowTypes DEF Inv
  <2>2. upstream.state \notin Ended
    BY DEF Live, Ended
  <2> QED
    BY <2>1, <2>2 DEF JobInv, Statuses, Terminal, Ended
<1> QED
  BY <1>1, Invariance, PTL

=============================================================================
