----------------------- MODULE PromptAuditQueue_proofs -----------------------
(***************************************************************************)
(* Proofs about PromptAuditQueue for any jobs, workers, capacity, attempts *)
(* and chunks, and any number of faults of all kinds.                      *)
(***************************************************************************)
EXTENDS PromptAuditQueue, FiniteSetTheorems, TLAPS

-----------------------------------------------------------------------------
(***************************************************************************)
(* The inductive invariant.                                                *)
(***************************************************************************)

\* Steps of Enqueue that come before the row, and after it while its job is
\* not published.
BeforeRow   == {"new", "insert"}
Unpublished == {"payload", "publish"}
Undoing     == {"undo", "markFailed"}
Ended       == {"done", "failed", "deleted"}

\* The version of a job counts its claims as its attempts do; a job that can be
\* claimed has an attempt left; an event belongs to a job that is done.
JobInv ==
    \A j \in Jobs :
        /\ job[j].version = job[j].attempts
        /\ job[j].status \in {"absent", "staging"} => job[j].attempts = 0
        /\ job[j].status \in {"queued", "retry"} => job[j].attempts < MaxAttempts
        /\ events[j] # 0 => job[j].status = "done" /\ events[j] = 1

\* What an Enqueue knows at each of its steps.
EnqInv ==
    \A j \in Jobs :
        /\ enq[j] = "insert" => admission = j
        /\ enq[j] \in BeforeRow => job[j].status = "absent"
        /\ enq[j] \in Unpublished => job[j].status \in {"staging", "failed"}
        /\ enq[j] \in Undoing /\ ~lost => job[j].status \in {"staging", "failed"}

\* The transaction with the admission lock may still insert its job.
AdmissionInv ==
    admission # None =>
        enq[admission] = "insert" /\ Cardinality(ActiveJobs) < Capacity

\* What a worker knows of its claim.
WkInv ==
    \A w \in Workers : wk[w].pc # "idle" =>
        /\ wk[w].job \in Jobs
        /\ wk[w].version = wk[w].attempts
        /\ wk[w].pc = "retry" => wk[w].attempts < MaxAttempts
        /\ wk[w].pc = "delete" => job[wk[w].job].status \in Ended

\* A job that may be scanned, or is about to be published, has its prompt.
PayloadInv ==
    ~lost => \A j \in Jobs :
        \/ job[j].status \in {"queued", "processing", "retry"}
        \/ job[j].status = "staging" /\ enq[j] = "publish"
        => j \in payload

Inv == TypeOK /\ JobInv /\ EnqInv /\ AdmissionInv /\ WkInv /\ PayloadInv

-----------------------------------------------------------------------------
(***************************************************************************)
(* Lemmas about the operators.                                             *)
(***************************************************************************)

\* The fault budget and the history flag stay typed, and nothing lost is found.
LEMMA FaultsTyped ==
    ASSUME lost \in BOOLEAN, faults \in 0 .. MaxFaults,
           NEW kind, NoFault \/ Fault(kind)
    PROVE  /\ lost' \in BOOLEAN /\ faults' \in 0 .. MaxFaults
           /\ lost => lost'
<1>1. lost' \in BOOLEAN /\ (lost => lost')
  BY Zenon DEF NoFault, Fault
<1>2. faults' \in 0 .. MaxFaults
  BY AuditAssumption DEF NoFault, Fault
<1> QED
  BY <1>1, <1>2

\* The active jobs are finitely many, and fewer than Capacity as long as none
\* is added.
LEMMA ActiveFinite ==
    IsFiniteSet(ActiveJobs) /\ Cardinality(ActiveJobs) \in Nat
<1>1. ActiveJobs \in SUBSET Jobs
  BY DEF ActiveJobs
<1> QED
  BY <1>1, AuditAssumption, FS_Subset, FS_CardinalityType

\* Jobs that end leave room below the capacity.
LEMMA ActiveShrinks ==
    ASSUME \A j \in Jobs : job'[j].status \in Active => job[j].status \in Active,
           Cardinality(ActiveJobs) < Capacity
    PROVE  Cardinality(ActiveJobs)' < Capacity
<1>1. ActiveJobs' \in SUBSET ActiveJobs
  BY DEF ActiveJobs
<1>2. Cardinality(ActiveJobs') <= Cardinality(ActiveJobs)
  BY <1>1, ActiveFinite, FS_Subset
<1>3. IsFiniteSet(ActiveJobs') /\ Cardinality(ActiveJobs') \in Nat
  BY <1>1, ActiveFinite, FS_Subset, FS_CardinalityType
<1> QED
  BY <1>2, <1>3, ActiveFinite, AuditAssumption

\* Writing one row keeps the table typed.
LEMMA BecomeTyped ==
    ASSUME job \in [Jobs -> Rows], NEW j \in Jobs, NEW status \in Statuses,
           Become(j, status)
    PROVE  /\ job' \in [Jobs -> Rows]
           /\ \A k \in Jobs \ {j} : job'[k] = job[k]
           /\ job'[j] = [job[j] EXCEPT !.status = status, !.stale = FALSE]
BY DEF Become, Rows

\* What a row is after its status has been written.
LEMMA BecomeRow ==
    ASSUME job \in [Jobs -> Rows], NEW j \in Jobs, NEW status \in Statuses,
           Become(j, status)
    PROVE  /\ job'[j].status = status
           /\ job'[j].version = job[j].version
           /\ job'[j].attempts = job[j].attempts
BY DEF Become, Rows

-----------------------------------------------------------------------------
(***************************************************************************)
(* Enqueue.                                                                *)
(***************************************************************************)

\* An enqueue goes on, or its process dies.
LEMMA InvEnqueue ==
    ASSUME Inv, NEW j \in Jobs,
           Enqueue(j) \/ CrashEnqueue(j) \/ RecordBlocking(j)
    PROVE  Inv'
<1> USE DEF Inv
<1>0. /\ lost' \in BOOLEAN /\ faults' \in 0 .. MaxFaults
      /\ lost => lost'
  BY FaultsTyped DEF TypeOK, Enqueue, TryAdmission, InsertStaging, SetPayload,
     PublishQueued, DeletePayload, MarkStagingFailed, CrashEnqueue,
     RecordBlocking, Update
<1>1. CASE TryAdmission(j)
  <2>1. TypeOK'
    BY <1>0, <1>1 DEF TypeOK, TryAdmission, ByEnqueue, NoFault, Goto, EnqSteps
  <2>2. JobInv' /\ WkInv'
    BY <1>1 DEF JobInv, WkInv, TryAdmission, ByEnqueue
  <2>3. EnqInv'
    BY <1>1, AuditAssumption
    DEF TypeOK, EnqInv, AdmissionInv, TryAdmission, NoFault, Goto, BeforeRow,
        Unpublished, Undoing
  <2>4. AdmissionInv'
    BY <1>1, AuditAssumption
    DEF TypeOK, EnqInv, AdmissionInv, TryAdmission, Goto, ActiveJobs
  <2>5. PayloadInv'
    BY <1>1 DEF TypeOK, PayloadInv, TryAdmission, NoFault, Goto
  <2> QED
    BY <2>1, <2>2, <2>3, <2>4, <2>5
<1>2. CASE InsertStaging(j)
  <2>1. TypeOK'
    BY <1>0, <1>2, BecomeTyped
    DEF TypeOK, InsertStaging, ByEnqueue, Goto, EnqSteps, Statuses, Active
  <2>2. \A k \in Jobs \ {j} : job'[k] = job[k] /\ enq'[k] = enq[k]
    BY <1>2, BecomeTyped DEF TypeOK, InsertStaging, Goto, Statuses, Active
  <2>3. /\ job[j].status = "absent"
        /\ job'[j] = job[j]
           \/ job'[j] = [job[j] EXCEPT !.status = "staging", !.stale = FALSE]
    BY <1>2, BecomeTyped
    DEF TypeOK, EnqInv, InsertStaging, BeforeRow, Statuses, Active
  <2>4. JobInv' /\ WkInv'
    <3>1. UNCHANGED <<events, wk>>
      BY <1>2 DEF InsertStaging, ByEnqueue
    <3>2. JobInv'
      <4> SUFFICES ASSUME NEW k \in Jobs
                   PROVE  /\ job'[k].version = job'[k].attempts
                          /\ job'[k].status \in {"absent", "staging"} =>
                               job'[k].attempts = 0
                          /\ job'[k].status \in {"queued", "retry"} =>
                               job'[k].attempts < MaxAttempts
                          /\ events[k] # 0 =>
                               job'[k].status = "done" /\ events[k] = 1
        BY <3>1 DEF JobInv
      <4>1. CASE k = j
        <5>1. /\ job'[k].status \in {"absent", "staging"}
              /\ job'[k].attempts = job[k].attempts
              /\ job'[k].version = job[k].version
          BY <2>3, <4>1 DEF TypeOK, Rows
        <5> QED
          BY <2>3, <4>1, <5>1 DEF JobInv
      <4>2. CASE k # j
        BY <2>2, <4>2 DEF JobInv
      <4> QED
        BY <4>1, <4>2
    <3>3. WkInv'
      BY <2>2, <2>3, <3>1 DEF TypeOK, WkInv, Ended
    <3> QED
      BY <3>2, <3>3
  <2>5. EnqInv'
    BY <1>0, <1>2, <2>1, <2>2, <2>3
    DEF TypeOK, EnqInv, InsertStaging, Goto, BeforeRow, Unpublished, Undoing,
        Become, Rows
  <2>6. AdmissionInv'
    BY <1>2 DEF EnqInv, AdmissionInv, InsertStaging
  <2>7. PayloadInv'
    BY <1>0, <1>2, <2>2, <2>3 DEF TypeOK, PayloadInv, InsertStaging, Goto, Rows
  <2> QED
    BY <2>1, <2>4, <2>5, <2>6, <2>7
<1>3. CASE SetPayload(j)
  <2>1. TypeOK'
    BY <1>0, <1>3 DEF TypeOK, SetPayload, ByEnqueue, Goto, EnqSteps
  <2>2. JobInv' /\ WkInv'
    BY <1>3 DEF JobInv, WkInv, SetPayload, ByEnqueue
  <2>3. EnqInv'
    BY <1>0, <1>3
    DEF TypeOK, EnqInv, SetPayload, Goto, BeforeRow, Unpublished, Undoing
  <2>4. AdmissionInv'
    BY <1>3 DEF TypeOK, AdmissionInv, SetPayload, Goto, ActiveJobs
  <2>5. PayloadInv'
    BY <1>0, <1>3 DEF TypeOK, PayloadInv, SetPayload, Goto
  <2> QED
    BY <2>1, <2>2, <2>3, <2>4, <2>5
<1>4. CASE PublishQueued(j)
  <2>1. \/ /\ job' = [job EXCEPT ![j].status = "queued", ![j].stale = FALSE,
                                 ![j].due = TRUE]
           /\ job[j].status = "staging"
           /\ Goto(j, "end") \/ (Goto(j, "undo") /\ lost')
        \/ /\ UNCHANGED job /\ Goto(j, "undo")
    BY <1>4, Zenon DEF PublishQueued, Update, Is, Fault
  <2>2. TypeOK'
    <3>1. job' \in [Jobs -> Rows]
      BY <2>1 DEF TypeOK, Rows, Statuses, Active
    <3> QED
      BY <1>0, <1>4, <2>1, <3>1 DEF TypeOK, PublishQueued, ByEnqueue, Goto, EnqSteps
  <2>3. JobInv'
    BY <1>4, <2>1, AuditAssumption
    DEF TypeOK, JobInv, PublishQueued, ByEnqueue, Rows
  <2>4. WkInv'
    BY <1>4, <2>1 DEF TypeOK, WkInv, PublishQueued, ByEnqueue, Rows, Ended
  <2>5. EnqInv'
    BY <1>0, <1>4, <2>1
    DEF TypeOK, EnqInv, PublishQueued, Goto, BeforeRow, Unpublished, Undoing,
        Rows
  <2>6. AdmissionInv'
    <3>1. \A k \in Jobs : job'[k].status \in Active => job[k].status \in Active
      BY <2>1 DEF TypeOK, Rows, Active
    <3>2. admission # None => enq'[admission] = "insert"
      BY <1>4, <2>1 DEF TypeOK, AdmissionInv, PublishQueued, Goto
    <3> QED
      BY <1>4, <3>1, <3>2, ActiveShrinks DEF AdmissionInv, PublishQueued
  <2>7. PayloadInv'
    BY <1>0, <1>4, <2>1 DEF TypeOK, PayloadInv, PublishQueued, Goto, Rows
  <2> QED
    BY <2>2, <2>3, <2>4, <2>5, <2>6, <2>7
<1>5. CASE DeletePayload(j)
  <2>1. TypeOK'
    BY <1>0, <1>5 DEF TypeOK, DeletePayload, ByEnqueue, Goto, EnqSteps
  <2>2. JobInv' /\ WkInv'
    BY <1>5 DEF JobInv, WkInv, DeletePayload, ByEnqueue
  <2>3. EnqInv'
    BY <1>0, <1>5
    DEF TypeOK, EnqInv, DeletePayload, Goto, BeforeRow, Unpublished, Undoing
  <2>4. AdmissionInv'
    BY <1>5 DEF TypeOK, AdmissionInv, DeletePayload, Goto, ActiveJobs
  <2>5. PayloadInv'
    BY <1>0, <1>5 DEF TypeOK, EnqInv, PayloadInv, DeletePayload, Goto, Undoing
  <2> QED
    BY <2>1, <2>2, <2>3, <2>4, <2>5
<1>6. CASE MarkStagingFailed(j)
  <2>1. /\ \/ Become(j, "failed") /\ job[j].status = "staging"
           \/ UNCHANGED job
        /\ Goto(j, "end")
    BY <1>6, Zenon DEF MarkStagingFailed, Update, Is
  <2>2. TypeOK'
    BY <1>0, <1>6, <2>1, BecomeTyped
    DEF TypeOK, MarkStagingFailed, ByEnqueue, Goto, EnqSteps, Statuses, Active
  <2>3. JobInv' /\ WkInv'
    BY <1>6, <2>1
    DEF TypeOK, JobInv, WkInv, MarkStagingFailed, ByEnqueue, Become, Rows, Ended
  <2>4. EnqInv'
    BY <1>0, <1>6, <2>1
    DEF TypeOK, EnqInv, MarkStagingFailed, Goto, BeforeRow, Unpublished,
        Undoing, Become, Rows
  <2>5. AdmissionInv'
    <3>1. \A k \in Jobs : job'[k].status \in Active => job[k].status \in Active
      BY <2>1 DEF TypeOK, Rows, Active, Become
    <3>2. admission # None => enq'[admission] = "insert"
      BY <1>6, <2>1 DEF TypeOK, AdmissionInv, MarkStagingFailed, Goto
    <3> QED
      BY <1>6, <3>1, <3>2, ActiveShrinks DEF AdmissionInv, MarkStagingFailed
  <2>6. PayloadInv'
    BY <1>0, <1>6, <2>1
    DEF TypeOK, PayloadInv, MarkStagingFailed, Goto, Become, Rows
  <2> QED
    BY <2>2, <2>3, <2>4, <2>5, <2>6
<1>7. CASE CrashEnqueue(j)
  <2>1. TypeOK'
    BY <1>0, <1>7 DEF TypeOK, CrashEnqueue, ByEnqueue, Goto, EnqSteps
  <2>2. JobInv' /\ WkInv'
    BY <1>7 DEF JobInv, WkInv, CrashEnqueue, ByEnqueue
  <2>3. EnqInv'
    BY <1>0, <1>7
    DEF TypeOK, EnqInv, CrashEnqueue, Goto, BeforeRow, Unpublished, Undoing
  <2>4. AdmissionInv'
    BY <1>7, AuditAssumption
    DEF TypeOK, AdmissionInv, CrashEnqueue, Goto, ActiveJobs
  <2>5. PayloadInv'
    BY <1>0, <1>7 DEF TypeOK, PayloadInv, CrashEnqueue, Goto
  <2> QED
    BY <2>1, <2>2, <2>3, <2>4, <2>5
<1>8. CASE RecordBlocking(j)
  <2>1. /\ job[j].status = "absent" /\ job[j].attempts = 0
        /\ job[j].version = job[j].attempts
        /\ job' = [job EXCEPT ![j].status = "done", ![j].stale = FALSE]
        /\ enq[j] = "new" /\ enq' = [enq EXCEPT ![j] = "end"]
    BY <1>8 DEF EnqInv, JobInv, RecordBlocking, BeforeRow, Become, Goto
  <2>2. TypeOK'
    <3>1. job' \in [Jobs -> Rows]
      BY <1>8, BecomeTyped DEF TypeOK, RecordBlocking, Statuses
    <3>2. events' \in [Jobs -> Nat]
      BY <1>8 DEF TypeOK, RecordBlocking
    <3> QED
      BY <1>0, <1>8, <2>1, <3>1, <3>2 DEF TypeOK, RecordBlocking, EnqSteps
  <2>3. JobInv' /\ WkInv'
    BY <1>8, <2>1 DEF TypeOK, JobInv, WkInv, RecordBlocking, Rows, Ended
  <2>4. EnqInv'
    BY <1>0, <1>8, <2>1
    DEF TypeOK, EnqInv, RecordBlocking, BeforeRow, Unpublished, Undoing, Rows,
        NoFault
  <2>5. AdmissionInv'
    <3>1. \A k \in Jobs : job'[k].status \in Active => job[k].status \in Active
      BY <2>1 DEF TypeOK, Rows, Active
    <3>2. admission # None => enq'[admission] = "insert"
      BY <2>1 DEF TypeOK, AdmissionInv
    <3> QED
      BY <1>8, <3>1, <3>2, ActiveShrinks DEF AdmissionInv, RecordBlocking
  <2>6. PayloadInv'
    BY <1>8, <2>1 DEF TypeOK, PayloadInv, RecordBlocking, NoFault, Rows
  <2> QED
    BY <2>2, <2>3, <2>4, <2>5, <2>6
<1> QED
  BY <1>1, <1>2, <1>3, <1>4, <1>5, <1>6, <1>7, <1>8 DEF Enqueue

-----------------------------------------------------------------------------
(***************************************************************************)
(* The worker.                                                             *)
(***************************************************************************)

\* The worker goes on with the claim it has, or drops it; it deletes nothing.
KeepsClaim(w) ==
    /\ wk' \in [Workers -> Claims]
    /\ \A v \in Workers \ {w} : wk'[v] = wk[v]
    /\ wk'[w].pc # "idle" =>
          /\ wk'[w].job = wk[w].job
          /\ wk'[w].version = wk[w].version
          /\ wk'[w].attempts = wk[w].attempts
          /\ wk'[w].pc # "delete"
          /\ wk'[w].pc = "retry" => wk'[w].attempts < MaxAttempts

\* A worker that goes idle keeps no claim.
LEMMA EndKeepsClaim ==
    ASSUME wk \in [Workers -> Claims], NEW w \in Workers, WkEnd(w)
    PROVE  KeepsClaim(w)
<1>1. NoClaim \in Claims
  BY AuditAssumption DEF NoClaim, Claims, WkSteps
<1> QED
  BY <1>1 DEF KeepsClaim, WkEnd, NoClaim

\* One that takes a step other than those its verdicts lead to keeps its claim.
LEMMA GotoKeepsClaim ==
    ASSUME wk \in [Workers -> Claims], NEW w \in Workers,
           NEW pc \in WkSteps \ {"retry", "delete"}, NEW n \in 0 .. MaxChunks,
           \/ WkGoto(w, pc)
           \/ wk' = [wk EXCEPT ![w].pc = pc, ![w].left = n]
    PROVE  KeepsClaim(w)
<1>1. CASE WkGoto(w, pc)
  BY <1>1 DEF KeepsClaim, WkGoto, Claims
<1>2. CASE wk' = [wk EXCEPT ![w].pc = pc, ![w].left = n]
  BY <1>2 DEF KeepsClaim, Claims
<1> QED
  BY <1>1, <1>2

\* After an error it keeps the claim, and retries with an attempt left.
LEMMA AfterErrorKeepsClaim ==
    ASSUME wk \in [Workers -> Claims], NEW w \in Workers,
           NEW retryable \in BOOLEAN, AfterError(w, retryable)
    PROVE  KeepsClaim(w)
<1>1. CASE retryable /\ wk[w].attempts < MaxAttempts
  <2>1. wk' = [wk EXCEPT ![w].pc = "retry"]
    BY <1>1 DEF AfterError, WkGoto
  <2> QED
    BY <1>1, <2>1 DEF KeepsClaim, Claims, WkSteps
<1>2. CASE ~(retryable /\ wk[w].attempts < MaxAttempts)
  <2>1. WkGoto(w, "fail") /\ 0 \in 0 .. MaxChunks
    BY <1>2, AuditAssumption DEF AfterError
  <2> QED
    BY <2>1, GotoKeepsClaim DEF WkSteps
<1> QED
  BY <1>1, <1>2

\* Steps of a worker that leave the rows alone.
LEMMA InvWorkerLooks ==
    ASSUME Inv, NEW w \in Workers,
           GetPayload(w) \/ ScanChunk(w) \/ CrashWorker(w) \/ DropPayload(w)
    PROVE  Inv'
<1> USE DEF Inv
<1>0. /\ lost' \in BOOLEAN /\ faults' \in 0 .. MaxFaults
      /\ lost => lost'
  BY FaultsTyped
  DEF TypeOK, GetPayload, ScanChunk, CrashWorker, DropPayload
<1>1. UNCHANGED <<job, events, admission, enq>>
  BY DEF GetPayload, ScanChunk, CrashWorker, DropPayload, ByWorker
<1>2. wk[w].pc # "idle" /\ wk \in [Workers -> Claims]
  BY DEF TypeOK, GetPayload, ScanChunk, CrashWorker, DropPayload, At
<1>n. 0 \in 0 .. MaxChunks
  BY AuditAssumption
<1>3. KeepsClaim(w)
  <2>1. CASE GetPayload(w)
    <3>1. CASE AfterError(w, TRUE) \/ AfterError(w, FALSE)
      BY <1>2, <3>1, AfterErrorKeepsClaim
    <3>2. ASSUME NEW n \in 1 .. MaxChunks,
                 wk' = [wk EXCEPT ![w].pc = "refresh", ![w].left = n]
          PROVE  KeepsClaim(w)
      <4>1. n \in 0 .. MaxChunks
        BY AuditAssumption
      <4> QED
        BY <1>2, <3>2, <4>1, GotoKeepsClaim DEF WkSteps
    <3> QED
      BY <2>1, <3>1, <3>2 DEF GetPayload
  <2>2. CASE ScanChunk(w)
    <3>1. CASE \E retryable \in BOOLEAN : AfterError(w, retryable)
      BY <1>2, <3>1, AfterErrorKeepsClaim
    <3>2. CASE WkGoto(w, "complete") \/ WkGoto(w, "panic")
      BY <1>2, <1>n, <3>2, GotoKeepsClaim DEF WkSteps
    <3>3. CASE /\ wk[w].left > 1
               /\ wk' = [wk EXCEPT ![w].pc = "refresh", ![w].left = @ - 1]
      <4>1. wk[w].left - 1 \in 0 .. MaxChunks
        BY <1>2, <3>3, AuditAssumption DEF Claims
      <4> QED
        BY <1>2, <3>3, <4>1, GotoKeepsClaim DEF WkSteps
    <3> QED
      BY <2>2, <3>1, <3>2, <3>3 DEF ScanChunk
  <2>3. CASE CrashWorker(w) \/ DropPayload(w)
    BY <1>2, <2>3, EndKeepsClaim DEF CrashWorker, DropPayload
  <2> QED
    BY <2>1, <2>2, <2>3
<1>4. \/ payload' = payload
      \/ payload' = payload \ {wk[w].job} /\ wk[w].pc = "delete"
  <2>1. CASE GetPayload(w)
    BY <2>1 DEF GetPayload
  <2>2. CASE ScanChunk(w)
    BY <2>2 DEF ScanChunk
  <2>3. CASE CrashWorker(w)
    BY <2>3 DEF CrashWorker
  <2>4. CASE DropPayload(w)
    BY <2>4 DEF DropPayload, At, Mine
  <2> QED
    BY <2>1, <2>2, <2>3, <2>4
<1>5. TypeOK'
  BY <1>0, <1>1, <1>3, <1>4 DEF TypeOK, KeepsClaim
<1>6. JobInv' /\ AdmissionInv'
  BY <1>1 DEF JobInv, AdmissionInv, ActiveJobs
<1>7. EnqInv'
  BY <1>0, <1>1 DEF EnqInv
<1>8. WkInv'
  BY <1>1, <1>2, <1>3 DEF WkInv, KeepsClaim
<1>9. PayloadInv'
  <2>1. CASE payload' = payload
    BY <1>0, <1>1, <2>1 DEF PayloadInv
  <2>2. CASE payload' = payload \ {wk[w].job} /\ wk[w].pc = "delete"
    BY <1>0, <1>1, <1>2, <2>2 DEF WkInv, PayloadInv, Ended
  <2> QED
    BY <1>4, <2>1, <2>2
<1> QED
  BY <1>5, <1>6, <1>7, <1>8, <1>9

\* What a worker or the reclaimer does to a row that is not ended: one that is
\* staged only fails, and one that is published is not staged again.
Moves(old, new) ==
    /\ old.status \in Active
    /\ new.version = new.attempts
    /\ old.status = "staging" =>
          new.status \in {"staging", "failed"} /\ new.attempts = 0
    /\ old.status # "staging" =>
          new.status \in {"processing", "retry", "done", "failed"}
    /\ new.status = "retry" => new.attempts < MaxAttempts

\* Rows that move so keep the invariants, but for the workers' part.
LEMMA InvMoves ==
    ASSUME Inv, lost => lost', UNCHANGED <<payload, admission, enq>>,
           \A k \in Jobs : job'[k] = job[k] \/ Moves(job[k], job'[k]),
           \A k \in Jobs :
              \/ events'[k] = events[k]
              \/ events'[k] \in {0, 1} /\ job'[k].status = "done"
    PROVE  JobInv' /\ EnqInv' /\ AdmissionInv' /\ PayloadInv'
<1> USE DEF Inv
<1>1. JobInv'
  BY DEF JobInv, Moves, Active
<1>2. EnqInv'
  BY DEF EnqInv, Moves, Active, BeforeRow, Unpublished, Undoing
<1>3. AdmissionInv'
  <2>1. \A k \in Jobs : job'[k].status \in Active => job[k].status \in Active
    BY DEF Moves
  <2> QED
    BY <2>1, ActiveShrinks DEF AdmissionInv
<1>4. PayloadInv'
  BY DEF PayloadInv, Moves, Active
<1> QED
  BY <1>1, <1>2, <1>3, <1>4

\* The worker w, with the claim the row has, writes its status.
Writes(w, status) ==
    LET j == wk[w].job IN
    /\ job[j].status = "processing" /\ job[j].version = wk[w].version
    /\ job' \in [Jobs -> Rows]
    /\ \A k \in Jobs \ {j} : job'[k] = job[k]
    /\ job'[j].status = status
    /\ job'[j].version = job[j].version
    /\ job'[j].attempts = job[j].attempts

\* What the steps that write do: to the row, to the events, to the worker.
WriteShape(w) ==
    /\ \/ UNCHANGED <<job, events>>
       \/ Writes(w, "processing") /\ UNCHANGED events
       \/ Writes(w, "failed") /\ UNCHANGED events
       \/ Writes(w, "retry") /\ wk[w].attempts < MaxAttempts
          /\ UNCHANGED events
       \/ Writes(w, "done") /\ \E n \in {0, 1} :
             events' = [events EXCEPT ![wk[w].job] = @ + n]
    /\ \/ KeepsClaim(w)
       \/ (Writes(w, "done") \/ Writes(w, "failed")) /\ WkGoto(w, "delete")
    /\ wk'[w] # wk[w]

WorkerWrite(w) == \/ RefreshLease(w) \/ Complete(w) \/ RetryJob(w)
                  \/ FailJob(w) \/ FailPanicked(w)

\* What a worker that is about to write knows.
LEMMA WriterKnows ==
    ASSUME Inv, NEW w \in Workers, WorkerWrite(w)
    PROVE  /\ wk[w].pc # "idle" /\ wk \in [Workers -> Claims]
           /\ wk[w].job \in Jobs /\ wk[w].version = wk[w].attempts
           /\ wk[w].pc = "retry" => wk[w].attempts < MaxAttempts
           /\ UNCHANGED <<payload, admission, enq>>
<1> USE DEF Inv
<1>1. /\ wk[w].pc # "idle" /\ wk \in [Workers -> Claims]
      /\ UNCHANGED <<payload, admission, enq>>
  BY DEF WorkerWrite, TypeOK, RefreshLease, Complete, RetryJob, FailJob,
     FailPanicked, At, ByWorker
<1> QED
  BY <1>1 DEF WkInv

\* Every write of a worker has the shape, and moves the worker on.
LEMMA WorkerWrites ==
    ASSUME Inv, NEW w \in Workers, WorkerWrite(w)
    PROVE  WriteShape(w)
<1> USE DEF Inv
<1> DEFINE j == wk[w].job
           Row(status) == Writes(w, status)
<1>1. /\ wk[w].pc # "idle" /\ wk \in [Workers -> Claims]
      /\ j \in Jobs /\ wk[w].version = wk[w].attempts
      /\ wk[w].pc = "retry" => wk[w].attempts < MaxAttempts
  BY WriterKnows
<1>n. 0 \in 0 .. MaxChunks
  BY AuditAssumption
<1>m. wk'[w] # wk[w]
  <2>1. WkEnd(w) => wk'[w] # wk[w]
    BY <1>1 DEF WkEnd, NoClaim
  <2>2. ASSUME NEW pc, pc # wk[w].pc, WkGoto(w, pc)
        PROVE  wk'[w] # wk[w]
    <3>1. wk'[w] = [wk[w] EXCEPT !.pc = pc] /\ wk[w] \in Claims
      BY <1>1, <2>2 DEF WkGoto
    <3>2. wk'[w].pc = pc
      BY <3>1 DEF Claims
    <3> QED
      BY <2>2, <3>2
  <2>3. CASE RefreshLease(w)
    <3>1. At(w, "refresh") /\ (WkGoto(w, "scan") \/ WkEnd(w))
      BY <2>3, Zenon DEF RefreshLease, Update
    <3> QED
      BY <2>1, <2>2, <3>1 DEF At
  <2>4. CASE Complete(w)
    BY <2>1, <2>2, <2>4 DEF Complete, At
  <2>5. CASE RetryJob(w)
    BY <2>1, <2>5, Zenon DEF RetryJob, Update
  <2>6. CASE FailJob(w)
    <3>1. At(w, "fail") /\ (WkGoto(w, "delete") \/ WkEnd(w))
      BY <2>6, Zenon DEF FailJob, Update
    <3> QED
      BY <2>1, <2>2, <3>1 DEF At
  <2>7. CASE FailPanicked(w)
    BY <2>1, <2>7, Zenon DEF FailPanicked, Update
  <2> QED
    BY <2>3, <2>4, <2>5, <2>6, <2>7 DEF WorkerWrite
<1>3. /\ \/ UNCHANGED <<job, events>>
         \/ Row("processing") /\ UNCHANGED events
         \/ Row("failed") /\ UNCHANGED events
         \/ Row("retry") /\ wk[w].attempts < MaxAttempts /\ UNCHANGED events
         \/ Row("done") /\ \E n \in {0, 1} :
                              events' = [events EXCEPT ![j] = @ + n]
      /\ \/ KeepsClaim(w)
         \/ (Row("done") \/ Row("failed")) /\ WkGoto(w, "delete")
  <2>1. CASE RefreshLease(w)
    <3>1. \/ UNCHANGED job
          \/ Current(w) /\ job' = [job EXCEPT ![j].stale = FALSE]
      BY <2>1, Zenon DEF RefreshLease, Update, Mine
    <3>2. WkGoto(w, "scan") \/ WkEnd(w)
      BY <2>1, Zenon DEF RefreshLease, Update
    <3>3. KeepsClaim(w)
      BY <1>1, <1>n, <3>2, GotoKeepsClaim, EndKeepsClaim DEF WkSteps
    <3>4. UNCHANGED job \/ Row("processing")
      <4> SUFFICES ASSUME Current(w), job' = [job EXCEPT ![j].stale = FALSE]
                   PROVE  Row("processing")
        BY <3>1
      <4>1. job' \in [Jobs -> Rows] /\ \A k \in Jobs \ {j} : job'[k] = job[k]
        BY <1>1 DEF TypeOK, Rows
      <4>2. job'[j] = [job[j] EXCEPT !.stale = FALSE] /\ job[j] \in Rows
        BY <1>1 DEF TypeOK
      <4> QED
        BY <4>1, <4>2 DEF Writes, Rows, Current, Is, Mine
    <3> QED
      BY <2>1, <3>3, <3>4 DEF RefreshLease
  <2>2. CASE Complete(w)
    <3>1. \/ UNCHANGED <<job, events>>
          \/ /\ Current(w) /\ Become(j, "done")
             /\ \E n \in {0, 1} : events' = [events EXCEPT ![j] = @ + n]
      BY <2>2 DEF Complete, Mine
    <3>2. WkEnd(w) \/ (Current(w) /\ Become(j, "done") /\ WkGoto(w, "delete"))
      BY <2>2 DEF Complete, Mine
    <3>3. Current(w) /\ Become(j, "done") => Row("done")
      <4>1. "done" \in Statuses /\ job \in [Jobs -> Rows]
        BY DEF TypeOK, Statuses
      <4> QED
        BY <1>1, <4>1, BecomeTyped, BecomeRow DEF Writes, Current, Is, Mine
    <3>4. WkEnd(w) => KeepsClaim(w)
      BY <1>1, EndKeepsClaim
    <3> QED
      BY <3>1, <3>2, <3>3, <3>4
  <2>3. CASE RetryJob(w)
    <3>1. \/ UNCHANGED job
          \/ Current(w) /\ job' = [job EXCEPT ![j].status = "retry",
                                             ![j].stale = FALSE,
                                             ![j].due = FALSE]
      BY <2>3, Zenon DEF RetryJob, Update, Mine
    <3>2. WkEnd(w)
      BY <2>3, Zenon DEF RetryJob, Update
    <3>3. KeepsClaim(w)
      BY <1>1, <3>2, EndKeepsClaim
    <3>4. UNCHANGED job \/ Row("retry")
      <4> SUFFICES ASSUME Current(w),
                          job' = [job EXCEPT ![j].status = "retry",
                                             ![j].stale = FALSE,
                                             ![j].due = FALSE]
                   PROVE  Row("retry")
        BY <3>1
      <4>1. job' \in [Jobs -> Rows]
        <5>1. job[j] \in Rows
          BY <1>1 DEF TypeOK
        <5>2. [job[j] EXCEPT !.status = "retry", !.stale = FALSE, !.due = FALSE]
                 \in Rows
          BY <5>1 DEF Rows, Statuses, Active
        <5> QED
          BY <1>1, <5>2 DEF TypeOK
      <4>2. \A k \in Jobs \ {j} : job'[k] = job[k]
        BY <1>1 DEF TypeOK
      <4>3. job'[j] = [job[j] EXCEPT !.status = "retry", !.stale = FALSE,
                                     !.due = FALSE]
        BY <1>1 DEF TypeOK
      <4>4. /\ job'[j].status = "retry" /\ job'[j].version = job[j].version
            /\ job'[j].attempts = job[j].attempts
        BY <1>1, <4>3 DEF TypeOK, Rows
      <4> QED
        BY <4>1, <4>2, <4>4 DEF Writes, Current, Is, Mine
    <3> QED
      BY <1>1, <2>3, <3>3, <3>4 DEF RetryJob, At
  <2>4. CASE FailJob(w)
    <3>1. UNCHANGED job \/ (Current(w) /\ Become(j, "failed"))
      BY <2>4, Zenon DEF FailJob, Update, Mine
    <3>2. \/ WkEnd(w)
          \/ Current(w) /\ Become(j, "failed") /\ WkGoto(w, "delete")
      BY <2>4, Zenon DEF FailJob, Update, Mine
    <3>3. Current(w) /\ Become(j, "failed") => Row("failed")
      <4>1. "failed" \in Statuses /\ job \in [Jobs -> Rows]
        BY DEF TypeOK, Statuses
      <4> QED
        BY <1>1, <4>1, BecomeTyped, BecomeRow DEF Writes, Current, Is, Mine
    <3>4. WkEnd(w) => KeepsClaim(w)
      BY <1>1, EndKeepsClaim
    <3> QED
      BY <2>4, <3>1, <3>2, <3>3, <3>4 DEF FailJob
  <2>5. CASE FailPanicked(w)
    <3>1. UNCHANGED job \/ (Current(w) /\ Become(j, "failed"))
      BY <2>5, Zenon DEF FailPanicked, Update, Mine
    <3>2. WkEnd(w)
      BY <2>5, Zenon DEF FailPanicked, Update
    <3>3. Current(w) /\ Become(j, "failed") => Row("failed")
      <4>1. "failed" \in Statuses /\ job \in [Jobs -> Rows]
        BY DEF TypeOK, Statuses
      <4> QED
        BY <1>1, <4>1, BecomeTyped, BecomeRow DEF Writes, Current, Is, Mine
    <3>4. KeepsClaim(w)
      BY <1>1, <3>2, EndKeepsClaim
    <3> QED
      BY <2>5, <3>1, <3>3, <3>4 DEF FailPanicked
  <2> QED
    BY <2>1, <2>2, <2>3, <2>4, <2>5 DEF WorkerWrite
<1> QED
  BY <1>m, <1>3 DEF WriteShape

\* So the writes of a worker preserve the invariant.
LEMMA InvWorkerWrites ==
    ASSUME Inv, NEW w \in Workers, WorkerWrite(w)
    PROVE  Inv'
<1> USE DEF Inv
<1> DEFINE j == wk[w].job
           Row(status) == Writes(w, status)
<1>0. /\ lost' \in BOOLEAN /\ faults' \in 0 .. MaxFaults
      /\ lost => lost'
  BY FaultsTyped
  DEF WorkerWrite, TypeOK, RefreshLease, Complete, RetryJob, FailJob,
      FailPanicked, Update
<1>1. /\ wk[w].pc # "idle" /\ wk \in [Workers -> Claims]
      /\ j \in Jobs /\ wk[w].version = wk[w].attempts
      /\ wk[w].pc = "retry" => wk[w].attempts < MaxAttempts
  BY WriterKnows
<1>2. UNCHANGED <<payload, admission, enq>>
  BY WriterKnows
<1>3. /\ \/ UNCHANGED <<job, events>>
         \/ Row("processing") /\ UNCHANGED events
         \/ Row("failed") /\ UNCHANGED events
         \/ Row("retry") /\ wk[w].attempts < MaxAttempts /\ UNCHANGED events
         \/ Row("done") /\ \E n \in {0, 1} :
                              events' = [events EXCEPT ![j] = @ + n]
      /\ \/ KeepsClaim(w)
         \/ (Row("done") \/ Row("failed")) /\ WkGoto(w, "delete")
  BY WorkerWrites DEF WriteShape
<1>4. TypeOK'
  <2>1. job' \in [Jobs -> Rows]
    BY <1>3 DEF TypeOK, Writes
  <2>2. events' \in [Jobs -> Nat]
    BY <1>1, <1>3 DEF TypeOK
  <2>3. wk' \in [Workers -> Claims]
    <3>1. CASE KeepsClaim(w)
      BY <3>1 DEF KeepsClaim
    <3>2. CASE WkGoto(w, "delete")
      BY <1>1, <3>2 DEF WkGoto, Claims, WkSteps
    <3> QED
      BY <1>3, <3>1, <3>2
  <2> QED
    BY <1>0, <1>2, <2>1, <2>2, <2>3 DEF TypeOK
<1>5. \A k \in Jobs :
          job'[k] = job[k] \/ (k = j /\ Moves(job[k], job'[k]))
  <2> SUFFICES ASSUME ~UNCHANGED job
               PROVE  /\ \A k \in Jobs \ {j} : job'[k] = job[k]
                      /\ Moves(job[j], job'[j])
    BY <1>1
  <2>1. job[j].version = job[j].attempts
    BY <1>1 DEF JobInv
  <2> QED
    BY <1>1, <1>3, <2>1 DEF Writes, Moves, Active
<1>6. \A k \in Jobs :
          \/ events'[k] = events[k]
          \/ events'[k] \in {0, 1} /\ job'[k].status = "done"
  <2>1. CASE UNCHANGED events
    BY <2>1
  <2>2. CASE Row("done") /\ \E n \in {0, 1} :
                                events' = [events EXCEPT ![j] = @ + n]
    <3>1. events[j] = 0 /\ job'[j].status = "done"
      BY <1>1, <2>2 DEF JobInv, Writes
    <3> QED
      BY <1>1, <2>2, <3>1 DEF TypeOK
  <2> QED
    BY <1>3, <2>1, <2>2
<1>7. WkInv'
  <2> SUFFICES ASSUME NEW v \in Workers, wk'[v].pc # "idle"
               PROVE  /\ wk'[v].job \in Jobs
                      /\ wk'[v].version = wk'[v].attempts
                      /\ wk'[v].pc = "retry" => wk'[v].attempts < MaxAttempts
                      /\ wk'[v].pc = "delete" =>
                            job'[wk'[v].job].status \in Ended
    BY DEF WkInv
  <2>1. CASE v # w
    <3>1. wk'[v] = wk[v]
      BY <1>1, <1>3, <2>1 DEF KeepsClaim, WkGoto
    <3> QED
      BY <1>5, <3>1 DEF WkInv, Moves, Active, Ended
  <2>2. CASE v = w /\ KeepsClaim(w)
    BY <1>1, <2>2 DEF KeepsClaim
  <2>3. CASE /\ v = w /\ (Row("done") \/ Row("failed"))
             /\ WkGoto(w, "delete")
    <3>1. wk'[v] = [wk[v] EXCEPT !.pc = "delete"]
      BY <1>1, <2>3 DEF WkGoto
    <3>2. wk'[v].job = j /\ wk'[v].version = wk[v].version
          /\ wk'[v].attempts = wk[v].attempts /\ wk'[v].pc = "delete"
      BY <1>1, <2>3, <3>1 DEF Claims
    <3> QED
      BY <1>1, <2>3, <3>2 DEF Ended, Writes
  <2> QED
    BY <1>3, <2>1, <2>2, <2>3
<1> QED
  BY <1>0, <1>2, <1>4, <1>5, <1>6, <1>7, InvMoves

\* A worker claims a job that is due.
LEMMA InvClaim ==
    ASSUME Inv, NEW w \in Workers, ClaimNextJob(w)
    PROVE  Inv'
<1> USE DEF Inv
<1>0. /\ lost' \in BOOLEAN /\ faults' \in 0 .. MaxFaults
      /\ lost => lost'
  BY FaultsTyped DEF TypeOK, ClaimNextJob
<1>1. UNCHANGED <<events, payload, admission, enq>> /\ wk[w].pc = "idle"
  BY DEF ClaimNextJob, ByWorker, At
<1> DEFINE claimed(k) == [job[k] EXCEPT !.status = "processing",
                            !.stale = FALSE, !.attempts = @ + 1,
                            !.version = @ + 1]
<1>2. PICK j \in Jobs :
          /\ job[j].status \in {"queued", "retry"}
          /\ job' = [job EXCEPT ![j] = claimed(j)]
          /\ \/ wk' = [wk EXCEPT ![w] =
                   [pc |-> "get", job |-> j, attempts |-> job'[j].attempts,
                    version |-> job'[j].version, left |-> 0]]
             \/ UNCHANGED wk
  BY DEF ClaimNextJob
<1>3. /\ job[j] \in Rows /\ job[j].version = job[j].attempts
      /\ job[j].attempts + 1 \in 0 .. MaxAttempts
  BY <1>2, AuditAssumption DEF TypeOK, JobInv, Rows
<1>4. /\ claimed(j) \in Rows /\ claimed(j).status = "processing"
      /\ claimed(j).version = claimed(j).attempts
  <2>1. /\ claimed(j).status = "processing"
        /\ claimed(j).version = job[j].version + 1
        /\ claimed(j).attempts = job[j].attempts + 1
    BY <1>3 DEF Rows
  <2>2. claimed(j) \in Rows
    BY <1>3, <2>1 DEF Rows, Statuses, Active
  <2> QED
    BY <1>3, <2>1, <2>2
<1> HIDE DEF claimed
<1>5. /\ job'[j] \in Rows /\ job'[j].status = "processing"
      /\ job'[j].version = job'[j].attempts
  BY <1>2, <1>4 DEF TypeOK
<1>6. \A k \in Jobs \ {j} : job'[k] = job[k]
  BY <1>2 DEF TypeOK
<1>7. job' \in [Jobs -> Rows]
  BY <1>2, <1>5, <1>6 DEF TypeOK
<1>8. JobInv' /\ EnqInv' /\ AdmissionInv' /\ PayloadInv'
  <2>1. Moves(job[j], job'[j])
    BY <1>2, <1>5 DEF Moves, Active
  <2> QED
    BY <1>0, <1>1, <1>6, <2>1, InvMoves
<1>9. CASE UNCHANGED wk
  BY <1>0, <1>1, <1>2, <1>6, <1>7, <1>8, <1>9 DEF TypeOK, WkInv, Ended
<1>10. CASE wk' = [wk EXCEPT ![w] =
               [pc |-> "get", job |-> j, attempts |-> job'[j].attempts,
                version |-> job'[j].version, left |-> 0]]
  <2>1. wk'[w] = [pc |-> "get", job |-> j, attempts |-> job'[j].attempts,
                  version |-> job'[j].version, left |-> 0]
        /\ \A v \in Workers \ {w} : wk'[v] = wk[v]
    BY <1>10 DEF TypeOK
  <2>2. wk'[w] \in Claims
    BY <1>5, <2>1, AuditAssumption DEF Claims, Rows, WkSteps
  <2>3. TypeOK'
    BY <1>0, <1>1, <1>7, <1>10, <2>1, <2>2 DEF TypeOK
  <2>4. WkInv'
    BY <1>2, <1>5, <1>6, <2>1 DEF WkInv, Ended
  <2> QED
    BY <1>8, <2>3, <2>4
<1> QED
  BY <1>2, <1>9, <1>10

-----------------------------------------------------------------------------
(***************************************************************************)
(* The reclaimer, the clock, Redis and the administrators.                 *)
(***************************************************************************)

\* The reclaimer takes stale jobs back.
LEMMA InvReclaim ==
    ASSUME Inv, ReclaimStale
    PROVE  Inv'
<1> USE DEF Inv
<1>1. PICK S \in SUBSET StaleJobs \ {{}} :
          job' = [k \in Jobs |-> IF k \in S THEN Reclaimed(job[k]) ELSE job[k]]
  BY DEF ReclaimStale
<1>2. UNCHANGED <<events, payload, admission, enq, wk, lost, faults>>
  BY DEF ReclaimStale, ByReclaimer, NoFault
<1>3. \A k \in Jobs :
          /\ job'[k] \in Rows
          /\ job'[k] = job[k] \/ Moves(job[k], job'[k])
  <2> SUFFICES ASSUME NEW k \in Jobs
               PROVE  /\ job'[k] \in Rows
                      /\ job'[k] = job[k] \/ Moves(job[k], job'[k])
    OBVIOUS
  <2>1. CASE k \notin S
    BY <1>1, <2>1 DEF TypeOK
  <2>2. CASE k \in S
    <3>1. /\ job'[k] = Reclaimed(job[k]) /\ job[k] \in Rows
          /\ job[k].status \in {"staging", "processing"}
          /\ job[k].version = job[k].attempts
          /\ job[k].status = "staging" => job[k].attempts = 0
      BY <1>1, <2>2 DEF TypeOK, JobInv, StaleJobs
    <3>2. CASE job[k].status = "processing" /\ job[k].attempts < MaxAttempts
      <4>1. job'[k] = [job[k] EXCEPT !.status = "retry", !.stale = FALSE,
                                     !.due = TRUE]
        BY <3>1, <3>2 DEF Reclaimed
      <4> QED
        BY <3>1, <3>2, <4>1 DEF Rows, Statuses, Active, Moves
    <3>3. CASE ~(job[k].status = "processing" /\ job[k].attempts < MaxAttempts)
      <4>1. job'[k] = [job[k] EXCEPT !.status = "failed", !.stale = FALSE]
        BY <3>1, <3>3 DEF Reclaimed
      <4> QED
        BY <3>1, <4>1 DEF Rows, Statuses, Active, Moves
    <3> QED
      BY <3>2, <3>3
  <2> QED
    BY <2>1, <2>2
<1>4. TypeOK'
  <2>1. job' \in [Jobs -> Rows]
    BY <1>1, <1>3
  <2> QED
    BY <1>2, <2>1 DEF TypeOK
<1>5. WkInv'
  BY <1>2, <1>3 DEF WkInv, Moves, Active, Ended
<1> QED
  BY <1>2, <1>3, <1>4, <1>5, InvMoves

\* A lease ages, a job comes due.
LEMMA InvClock ==
    ASSUME Inv, NEW j \in Jobs, LeaseAges(j) \/ ComeDue(j)
    PROVE  Inv'
<1> USE DEF Inv
<1>1. /\ lost' \in BOOLEAN /\ faults' \in 0 .. MaxFaults
      /\ lost => lost'
  BY FaultsTyped DEF TypeOK, LeaseAges, ComeDue
<1>2. UNCHANGED <<events, payload, admission, enq, wk>>
  BY DEF LeaseAges, ComeDue, ByReclaimer
<1>3. /\ \/ job' = [job EXCEPT ![j].stale = TRUE]
         \/ job' = [job EXCEPT ![j].due = TRUE]
      /\ job[j].status \in {"staging", "processing", "retry"}
  BY DEF LeaseAges, ComeDue, Is
<1>4. /\ job' \in [Jobs -> Rows]
      /\ \A k \in Jobs \ {j} : job'[k] = job[k]
  BY <1>3 DEF TypeOK, Rows
<1>5. /\ job'[j].status = job[j].status
      /\ job'[j].version = job[j].version
      /\ job'[j].attempts = job[j].attempts
  BY <1>3 DEF TypeOK, Rows
<1>6. Moves(job[j], job'[j])
  BY <1>3, <1>5 DEF JobInv, Moves, Active
<1>7. TypeOK'
  BY <1>1, <1>2, <1>4 DEF TypeOK
<1>8. WkInv'
  BY <1>2, <1>4, <1>5 DEF WkInv
<1> QED
  BY <1>1, <1>2, <1>4, <1>6, <1>7, <1>8, InvMoves

\* A payload expires, an event is deleted.
LEMMA InvGone ==
    ASSUME Inv, NEW j \in Jobs, PayloadExpires(j) \/ DeleteEvent(j)
    PROVE  Inv'
<1> USE DEF Inv
<1>1. CASE PayloadExpires(j)
  BY <1>1 DEF TypeOK, JobInv, EnqInv, AdmissionInv, WkInv, PayloadInv,
              PayloadExpires, ActiveJobs
<1>2. CASE DeleteEvent(j)
  <2>1. /\ UNCHANGED <<admission, enq, wk, lost, faults>>
        /\ payload' = payload \ {j} /\ events' = [events EXCEPT ![j] = 0]
        /\ job[j].status = "done" /\ Become(j, "deleted")
    BY <1>2 DEF DeleteEvent, NoFault, Is
  <2>2. "deleted" \in Statuses /\ job \in [Jobs -> Rows]
    BY DEF TypeOK, Statuses
  <2>3. /\ job' \in [Jobs -> Rows]
        /\ \A k \in Jobs \ {j} : job'[k] = job[k]
        /\ job'[j].status = "deleted"
        /\ job'[j].version = job[j].version
        /\ job'[j].attempts = job[j].attempts
    BY <2>1, <2>2, BecomeTyped, BecomeRow
  <2>4. TypeOK'
    BY <2>1, <2>3 DEF TypeOK
  <2>5. JobInv' /\ WkInv'
    BY <2>1, <2>3 DEF TypeOK, JobInv, WkInv, Ended
  <2>6. EnqInv'
    BY <2>1, <2>3 DEF EnqInv, BeforeRow, Unpublished, Undoing
  <2>7. AdmissionInv'
    <3>1. \A k \in Jobs : job'[k].status \in Active => job[k].status \in Active
      BY <2>3 DEF Active
    <3> QED
      BY <2>1, <3>1, ActiveShrinks DEF AdmissionInv
  <2>8. PayloadInv'
    BY <2>1, <2>3 DEF PayloadInv
  <2> QED
    BY <2>4, <2>5, <2>6, <2>7, <2>8
<1> QED
  BY <1>1, <1>2

-----------------------------------------------------------------------------
(***************************************************************************)
(* The invariant, and what it says.                                        *)
(***************************************************************************)

\* The invariant holds at first.
LEMMA InvInit == Init => Inv
<1> SUFFICES ASSUME Init
             PROVE  Inv
  OBVIOUS
<1>1. NoClaim \in Claims
  BY AuditAssumption DEF NoClaim, Claims, WkSteps
<1>2. TypeOK
  <2>1. [status |-> "absent", attempts |-> 0, version |-> 0, stale |-> FALSE,
         due |-> FALSE] \in Rows
    BY AuditAssumption DEF Rows, Statuses
  <2>2. MaxFaults \in 0 .. MaxFaults
    BY AuditAssumption
  <2> QED
    BY <1>1, <2>1, <2>2 DEF Init, TypeOK, EnqSteps
<1>3. JobInv /\ EnqInv
  BY AuditAssumption
  DEF Init, JobInv, EnqInv, BeforeRow, Unpublished, Undoing
<1>4. AdmissionInv /\ WkInv /\ PayloadInv
  BY DEF Init, AdmissionInv, WkInv, PayloadInv, NoClaim
<1> QED
  BY <1>2, <1>3, <1>4 DEF Inv

\* Every step preserves the invariant.
LEMMA InvStep == Inv /\ [Next]_vars => Inv'
<1> SUFFICES ASSUME Inv, [Next]_vars
             PROVE  Inv'
  OBVIOUS
<1>1. CASE UNCHANGED vars
  BY <1>1 DEF vars, Inv, TypeOK, JobInv, EnqInv, AdmissionInv, WkInv,
     PayloadInv, ActiveJobs
<1>2. ASSUME NEW j \in Jobs,
             Enqueue(j) \/ CrashEnqueue(j) \/ RecordBlocking(j)
      PROVE  Inv'
  BY <1>2, InvEnqueue
<1>3. ASSUME NEW j \in Jobs, LeaseAges(j) \/ ComeDue(j)
      PROVE  Inv'
  BY <1>3, InvClock
<1>4. ASSUME NEW j \in Jobs, PayloadExpires(j) \/ DeleteEvent(j)
      PROVE  Inv'
  BY <1>4, InvGone
<1>5. ASSUME NEW w \in Workers, ClaimNextJob(w)
      PROVE  Inv'
  BY <1>5, InvClaim
<1>6. ASSUME NEW w \in Workers, WorkerWrite(w)
      PROVE  Inv'
  BY <1>6, InvWorkerWrites
<1>7. ASSUME NEW w \in Workers,
             GetPayload(w) \/ ScanChunk(w) \/ CrashWorker(w) \/ DropPayload(w)
      PROVE  Inv'
  BY <1>7, InvWorkerLooks
<1>8. CASE ReclaimStale
  BY <1>8, InvReclaim
<1> QED
  BY <1>1, <1>2, <1>3, <1>4, <1>5, <1>6, <1>7, <1>8
  DEF Next, Work, WorkerWrite

\* So it holds always.
LEMMA InvInductive == Spec => []Inv
BY InvInit, InvStep, PTL DEF Spec

\* The state is typed: among other things no job is claimed more often than
\* max_attempts allows, though the claim checks nothing of the kind.
THEOREM TypeCorrect == Spec => []TypeOK
<1>1. Inv => TypeOK
  BY DEF Inv
<1> QED
  BY <1>1, InvInductive, PTL

\* As long as no prompt expires and no answer is lost, a job that can still be
\* scanned has its prompt, whatever reclaimer, workers and Enqueue do.
THEOREM PayloadKept == Spec => []PayloadOutlivesJob
<1>1. Inv => PayloadOutlivesJob
  BY DEF Inv, PayloadInv, PayloadOutlivesJob
<1> QED
  BY <1>1, InvInductive, PTL

-----------------------------------------------------------------------------
(***************************************************************************)
(* The shape of a step: which job changes its status, and who does it.     *)
(***************************************************************************)

Changes(j, olds, new) ==
    /\ job[j].status \in olds /\ job'[j].status = new
    /\ \A k \in Jobs \ {j} : job'[k].status = job[k].status

Quiet == UNCHANGED events /\ \A k \in Jobs : job'[k].status = job[k].status

Admits(j) == /\ Changes(j, {"absent"}, "staging") /\ UNCHANGED events
             /\ Cardinality(ActiveJobs) < Capacity

\* The job stays active: it is published or claimed.
Advances(j) == /\ \/ Changes(j, {"staging"}, "queued")
                  \/ Changes(j, {"queued", "retry"}, "processing")
               /\ UNCHANGED events

GivesUp(j) == Changes(j, {"staging"}, "failed") /\ UNCHANGED events

Records(j) == /\ Changes(j, {"absent"}, "done")
              /\ \E n \in {0, 1} : events' = [events EXCEPT ![j] = n]

\* The worker w, holding the claim of j, takes it out of processing.
Ends(w, j) ==
    /\ Working(w, j) /\ wk'[w] # wk[w]
    /\ \/ Changes(j, {"processing"}, "retry") /\ UNCHANGED events
       \/ Changes(j, {"processing"}, "failed") /\ UNCHANGED events
       \/ /\ Changes(j, {"processing"}, "done")
          /\ \E n \in {0, 1} : events' = [events EXCEPT ![j] = n]

Reclaims(S) ==
    /\ \A k \in S : job'[k].status \in {"retry", "failed"}
    /\ \A k \in Jobs \ S : job'[k].status = job[k].status
    /\ UNCHANGED events

Deletes(j) == /\ Changes(j, {"done"}, "deleted") /\ events[j] = 1
              /\ events' = [events EXCEPT ![j] = 0]

Shape ==
    \/ Quiet
    \/ \E j \in Jobs : \/ Admits(j) \/ Advances(j) \/ GivesUp(j) \/ Records(j)
                        \/ Deletes(j)
    \/ \E w \in Workers, j \in Jobs : Ends(w, j)
    \/ \E S \in SUBSET StaleJobs : Reclaims(S)

\* What an Enqueue does to its job.
LEMMA EnqueueShape ==
    ASSUME Inv, NEW j \in Jobs,
           Enqueue(j) \/ CrashEnqueue(j) \/ RecordBlocking(j)
    PROVE  Quiet \/ Admits(j) \/ Advances(j) \/ GivesUp(j) \/ Records(j)
<1> USE DEF Inv
<1>s. /\ "staging" \in Statuses /\ "failed" \in Statuses /\ "done" \in Statuses
      /\ job \in [Jobs -> Rows]
  BY DEF TypeOK, Statuses, Active
<1>b. ASSUME NEW status \in Statuses, Become(j, status)
      PROVE  /\ job'[j].status = status
             /\ \A k \in Jobs \ {j} : job'[k].status = job[k].status
  BY <1>s, <1>b, BecomeTyped, BecomeRow
<1>1. CASE \/ TryAdmission(j) \/ SetPayload(j) \/ DeletePayload(j)
           \/ CrashEnqueue(j)
  BY <1>1 DEF TryAdmission, SetPayload, DeletePayload, CrashEnqueue, ByEnqueue,
     Quiet
<1>2. CASE InsertStaging(j)
  <2>1. UNCHANGED events /\ (UNCHANGED job \/ Become(j, "staging"))
    BY <1>2 DEF InsertStaging, ByEnqueue
  <2>2. job[j].status = "absent" /\ Cardinality(ActiveJobs) < Capacity
    BY <1>2, AuditAssumption DEF InsertStaging, EnqInv, AdmissionInv, BeforeRow
  <2> QED
    BY <1>s, <1>b, <2>1, <2>2 DEF Quiet, Admits, Changes
<1>3. CASE PublishQueued(j)
  <2>1. UNCHANGED events
    BY <1>3 DEF PublishQueued, ByEnqueue
  <2>2. \/ UNCHANGED job
        \/ /\ job' = [job EXCEPT ![j].status = "queued", ![j].stale = FALSE,
                                 ![j].due = TRUE]
           /\ job[j].status = "staging"
    BY <1>3, Zenon DEF PublishQueued, Update, Is
  <2>3. UNCHANGED job \/ Changes(j, {"staging"}, "queued")
    BY <1>s, <2>2 DEF Rows, Changes
  <2> QED
    BY <2>1, <2>3 DEF Quiet, Advances
<1>4. CASE MarkStagingFailed(j)
  <2>1. UNCHANGED events
    BY <1>4 DEF MarkStagingFailed, ByEnqueue
  <2>2. UNCHANGED job \/ (Become(j, "failed") /\ job[j].status = "staging")
    BY <1>4, Zenon DEF MarkStagingFailed, Update, Is
  <2> QED
    BY <1>s, <1>b, <2>1, <2>2 DEF Quiet, GivesUp, Changes
<1>5. CASE RecordBlocking(j)
  <2>1. job[j].status = "absent" /\ Become(j, "done")
    BY <1>5 DEF RecordBlocking, EnqInv, BeforeRow
  <2> QED
    BY <1>s, <1>b, <1>5, <2>1 DEF RecordBlocking, Records, Changes
<1> QED
  BY <1>1, <1>2, <1>3, <1>4, <1>5 DEF Enqueue

\* What a worker does to the job it has.
LEMMA WorkerShape ==
    ASSUME Inv, NEW w \in Workers, Work(w) \/ CrashWorker(w)
    PROVE  Quiet \/ \E j \in Jobs : Advances(j) \/ Ends(w, j)
<1> USE DEF Inv
<1>1. CASE GetPayload(w) \/ ScanChunk(w) \/ CrashWorker(w) \/ DropPayload(w)
  BY <1>1 DEF GetPayload, ScanChunk, CrashWorker, DropPayload, Quiet
<1>2. CASE ClaimNextJob(w)
  <2>1. PICK j \in Jobs :
            /\ job[j].status \in {"queued", "retry"}
            /\ job' = [job EXCEPT ![j].status = "processing",
                                  ![j].stale = FALSE,
                                  ![j].attempts = @ + 1, ![j].version = @ + 1]
    BY <1>2 DEF ClaimNextJob
  <2>2. /\ job'[j].status = "processing"
        /\ \A k \in Jobs \ {j} : job'[k].status = job[k].status
    BY <2>1 DEF TypeOK, Rows
  <2>3. Advances(j)
    BY <1>2, <2>1, <2>2 DEF ClaimNextJob, Advances, Changes
  <2> QED
    BY <2>3
<1>3. CASE WorkerWrite(w)
  <2> DEFINE j == wk[w].job
  <2>1. j \in Jobs /\ WriteShape(w)
    BY <1>3, WriterKnows, WorkerWrites
  <2>2. CASE UNCHANGED <<job, events>>
    BY <2>2 DEF Quiet
  <2>3. CASE Writes(w, "processing") /\ UNCHANGED events
    BY <2>1, <2>3 DEF Quiet, Writes
  <2>4. ASSUME NEW status, Writes(w, status)
        PROVE  Working(w, j) /\ Changes(j, {"processing"}, status)
    BY <2>1, <2>4 DEF Writes, Working, Current, Is, Mine, Changes
  <2>5. CASE Writes(w, "retry") /\ UNCHANGED events
    BY <2>1, <2>4, <2>5 DEF Ends, WriteShape
  <2>6. CASE Writes(w, "failed") /\ UNCHANGED events
    BY <2>1, <2>4, <2>6 DEF Ends, WriteShape
  <2>7. CASE Writes(w, "done") /\ \E n \in {0, 1} :
                  events' = [events EXCEPT ![j] = @ + n]
    <3>1. events[j] = 0
      BY <2>1, <2>7 DEF JobInv, Writes
    <3>2. PICK n \in {0, 1} : events' = [events EXCEPT ![j] = @ + n]
      BY <2>7
    <3>3. events[j] + n = n
      BY <3>1
    <3>4. events' = [events EXCEPT ![j] = n]
      BY <3>2, <3>3
    <3> QED
      BY <2>1, <2>4, <2>7, <3>4 DEF Ends, WriteShape
  <2> QED
    BY <2>1, <2>2, <2>3, <2>5, <2>6, <2>7 DEF WriteShape
<1> QED
  BY <1>1, <1>2, <1>3 DEF Work, WorkerWrite

\* Every step has the shape.
LEMMA ShapeStep ==
    ASSUME Inv, [Next]_vars
    PROVE  Shape
<1> USE DEF Inv
<1>1. CASE UNCHANGED vars
  BY <1>1 DEF vars, Shape, Quiet
<1>2. ASSUME NEW j \in Jobs,
             Enqueue(j) \/ CrashEnqueue(j) \/ RecordBlocking(j)
      PROVE  Shape
  BY <1>2, EnqueueShape DEF Shape
<1>3. ASSUME NEW j \in Jobs, LeaseAges(j) \/ ComeDue(j)
      PROVE  Shape
  <2>1. UNCHANGED events
    BY <1>3 DEF LeaseAges, ComeDue, ByReclaimer
  <2>2. \A k \in Jobs : job'[k].status = job[k].status
    BY <1>3 DEF LeaseAges, ComeDue, TypeOK, Rows
  <2> QED
    BY <2>1, <2>2 DEF Shape, Quiet
<1>4. ASSUME NEW j \in Jobs, PayloadExpires(j)
      PROVE  Shape
  BY <1>4 DEF PayloadExpires, Shape, Quiet
<1>5. ASSUME NEW j \in Jobs, DeleteEvent(j)
      PROVE  Shape
  <2>1. "deleted" \in Statuses /\ job \in [Jobs -> Rows]
    BY DEF TypeOK, Statuses
  <2>2. /\ job[j].status = "done" /\ Become(j, "deleted")
        /\ events' = [events EXCEPT ![j] = 0] /\ events[j] = 1
    BY <1>5 DEF DeleteEvent, Is, JobInv
  <2>3. Changes(j, {"done"}, "deleted")
    BY <2>1, <2>2, BecomeTyped, BecomeRow DEF Changes
  <2> QED
    BY <2>2, <2>3 DEF Shape, Deletes
<1>6. ASSUME NEW w \in Workers, Work(w) \/ CrashWorker(w)
      PROVE  Shape
  BY <1>6, WorkerShape DEF Shape
<1>7. CASE ReclaimStale
  <2>1. PICK S \in SUBSET StaleJobs :
            job' = [k \in Jobs |->
                      IF k \in S THEN Reclaimed(job[k]) ELSE job[k]]
    BY <1>7 DEF ReclaimStale
  <2>2. ASSUME NEW k \in S
        PROVE  job'[k].status \in {"retry", "failed"}
    <3>1. job'[k] = Reclaimed(job[k]) /\ job[k] \in Rows
      BY <2>1 DEF StaleJobs, TypeOK
    <3> QED
      BY <3>1 DEF Reclaimed, Rows
  <2>3. \A k \in Jobs \ S : job'[k].status = job[k].status
    BY <2>1
  <2> QED
    BY <1>7, <2>2, <2>3 DEF ReclaimStale, ByReclaimer, Shape, Reclaims
<1> QED
  BY <1>1, <1>2, <1>3, <1>4, <1>5, <1>6, <1>7 DEF Next

-----------------------------------------------------------------------------
(***************************************************************************)
(* What follows from the shape of the steps.                               *)
(***************************************************************************)

\* For any number of workers, reclaims, slow scans and lost answers: a job whose
\* lease is fresh leaves processing by a step of the worker with its claim.
THEOREM HolderEnds == Spec => OnlyTheHolderEnds
<1>1. Inv /\ [Next]_vars =>
        [\A j \in Jobs :
            (Is(j, "processing") /\ ~job[j].stale
               /\ job'[j].status # "processing")
            => \E w \in Workers : Working(w, j) /\ wk'[w] # wk[w]]_vars
  <2> SUFFICES ASSUME Inv, [Next]_vars, NEW j \in Jobs,
                      job[j].status = "processing", ~job[j].stale,
                      job'[j].status # "processing"
               PROVE  \E w \in Workers : Working(w, j) /\ wk'[w] # wk[w]
    BY DEF Is
  <2>1. Shape
    BY ShapeStep
  <2>2. ~Quiet
    BY DEF Quiet
  <2>3. ASSUME NEW k \in Jobs, Admits(k) \/ Advances(k) \/ GivesUp(k)
                               \/ Records(k) \/ Deletes(k)
        PROVE  FALSE
    BY <2>3 DEF Admits, Advances, GivesUp, Records, Deletes, Changes
  <2>4. ASSUME NEW S \in SUBSET StaleJobs, Reclaims(S)
        PROVE  FALSE
    BY <2>4 DEF Reclaims, StaleJobs
  <2>5. PICK w \in Workers, k \in Jobs : Ends(w, k)
    BY <2>1, <2>2, <2>3, <2>4 DEF Shape
  <2>6. k = j
    BY <2>5 DEF Ends, Changes
  <2> QED
    BY <2>5, <2>6 DEF Ends
<1> QED
  BY <1>1, InvInductive, PTL DEF Spec, OnlyTheHolderEnds

phaseBar == [j \in Jobs |-> Phase(j)]

\* The phase a status stands for.
PhaseOf(status) == IF status \in Active THEN "pending" ELSE status

\* A row that changes its status changes its phase.
LEMMA PhaseChanges ==
    ASSUME NEW j \in Jobs, NEW olds, NEW new, Changes(j, olds, new)
    PROVE  /\ phaseBar' = [phaseBar EXCEPT ![j] = PhaseOf(new)]
           /\ \E old \in olds : phaseBar[j] = PhaseOf(old)
<1>1. \A k \in Jobs : phaseBar[k] = PhaseOf(job[k].status)
  BY DEF phaseBar, Phase, PhaseOf
<1>2. \A k \in Jobs : phaseBar'[k] = PhaseOf(job'[k].status)
  BY DEF phaseBar, Phase, PhaseOf
<1>3. DOMAIN phaseBar' = Jobs /\ DOMAIN phaseBar = Jobs
  BY DEF phaseBar
<1>4. \A k \in Jobs :
          phaseBar'[k] = IF k = j THEN PhaseOf(new) ELSE phaseBar[k]
  BY <1>1, <1>2 DEF Changes
<1>5. phaseBar' = [k \in Jobs |-> phaseBar'[k]]
  BY DEF phaseBar
<1>6. [phaseBar EXCEPT ![j] = PhaseOf(new)] =
        [k \in Jobs |-> IF k = j THEN PhaseOf(new) ELSE phaseBar[k]]
  BY DEF phaseBar
<1> QED
  BY <1>1, <1>4, <1>5, <1>6 DEF Changes

\* The jobs, with all that Enqueue, workers, reclaimer and faults do to them,
\* keep the promise of AuditJobs: its capacity, its single end, its events.
THEOREM Refinement == Spec => ImplementsAuditJobs
<1>1. Init => Promised!Init
  BY DEF Init, Promised!Init, Phase, Active
<1>2. Inv /\ [Next]_vars => [Promised!Next]_<<phaseBar, events>>
  <2> SUFFICES ASSUME Inv, [Next]_vars
               PROVE  Promised!Next \/ UNCHANGED <<phaseBar, events>>
    OBVIOUS
  <2>1. Shape
    BY ShapeStep
  <2>2. Promised!Pending = ActiveJobs
    BY DEF Promised!Pending, ActiveJobs, Phase, Active, Inv, TypeOK, Rows,
       Statuses
  <2>3. CASE Quiet
    BY <2>3 DEF Quiet, phaseBar, Phase
  <2>4. ASSUME NEW j \in Jobs, Admits(j)
        PROVE  Promised!Admit(j)
    <3>1. phaseBar' = [phaseBar EXCEPT ![j] = "pending"] /\ phaseBar[j] = "absent"
      BY <2>4, PhaseChanges DEF Admits, PhaseOf, Active
    <3>2. Promised!Cardinality(Promised!Pending) < Capacity /\ UNCHANGED events
      BY <2>2, <2>4, Zenon DEF Admits, Promised!Cardinality, Cardinality
    <3> QED
      BY <3>1, <3>2 DEF Promised!Admit, phaseBar
  <2>5. ASSUME NEW j \in Jobs, Advances(j)
        PROVE  UNCHANGED <<phaseBar, events>>
    <3>1. phaseBar' = [phaseBar EXCEPT ![j] = "pending"] /\ phaseBar[j] = "pending"
      BY <2>5, PhaseChanges DEF Advances, PhaseOf, Active
    <3> QED
      BY <2>5, <3>1 DEF Advances, phaseBar
  <2>6. ASSUME NEW j \in Jobs, NEW olds \in SUBSET Active,
               Changes(j, olds, "failed"), UNCHANGED events
        PROVE  Promised!Fail({j})
    <3>1. phaseBar' = [phaseBar EXCEPT ![j] = "failed"] /\ phaseBar[j] = "pending"
      <4>1. /\ phaseBar' = [phaseBar EXCEPT ![j] = PhaseOf("failed")]
            /\ \E old \in olds : phaseBar[j] = PhaseOf(old)
        BY <2>6, PhaseChanges
      <4> QED
        BY <4>1 DEF PhaseOf, Active
    <3>2. {j} \subseteq Promised!Pending
      BY <2>2, <2>6 DEF Changes, ActiveJobs
    <3>3. phaseBar' = [k \in Jobs |-> IF k \in {j} THEN "failed" ELSE phaseBar[k]]
      BY <3>1 DEF phaseBar
    <3> QED
      BY <2>6, <3>2, <3>3 DEF Promised!Fail, phaseBar
  <2>7. ASSUME NEW j \in Jobs, NEW olds \in SUBSET (Active \cup {"absent"}),
               Changes(j, olds, "done"),
               \E n \in {0, 1} : events' = [events EXCEPT ![j] = n]
        PROVE  Promised!Done(j)
    <3>1. /\ phaseBar' = [phaseBar EXCEPT ![j] = "done"]
          /\ phaseBar[j] \in {"absent", "pending"}
      <4>1. /\ phaseBar' = [phaseBar EXCEPT ![j] = PhaseOf("done")]
            /\ \E old \in olds : phaseBar[j] = PhaseOf(old)
        BY <2>7, PhaseChanges
      <4> QED
        BY <4>1 DEF PhaseOf, Active
    <3> QED
      BY <2>7, <3>1 DEF Promised!Done, phaseBar
  <2>8. ASSUME NEW j \in Jobs, Deletes(j)
        PROVE  Promised!Delete(j)
    <3>1. phaseBar' = [phaseBar EXCEPT ![j] = "deleted"] /\ phaseBar[j] = "done"
      BY <2>8, PhaseChanges DEF Deletes, PhaseOf, Active
    <3> QED
      BY <2>8, <3>1 DEF Deletes, Promised!Delete, phaseBar
  <2>9. ASSUME NEW w \in Workers, NEW j \in Jobs, Ends(w, j)
        PROVE  Promised!Next \/ UNCHANGED <<phaseBar, events>>
    <3>1. CASE Changes(j, {"processing"}, "retry") /\ UNCHANGED events
      <4>1. /\ phaseBar' = [phaseBar EXCEPT ![j] = "pending"]
            /\ phaseBar[j] = "pending"
        BY <3>1, PhaseChanges DEF PhaseOf, Active
      <4> QED
        BY <3>1, <4>1 DEF phaseBar
    <3>2. CASE Changes(j, {"processing"}, "failed") /\ UNCHANGED events
      BY <2>6, <3>2 DEF Active, Promised!Next
    <3>3. CASE /\ Changes(j, {"processing"}, "done")
               /\ \E n \in {0, 1} : events' = [events EXCEPT ![j] = n]
      BY <2>7, <3>3 DEF Active, Promised!Next
    <3> QED
      BY <2>9, <3>1, <3>2, <3>3 DEF Ends
  <2>10. ASSUME NEW S \in SUBSET StaleJobs, Reclaims(S)
         PROVE  Promised!Next
    <3> DEFINE F == {k \in S : job'[k].status = "failed"}
    <3>1. F \subseteq Promised!Pending /\ F \in SUBSET Jobs
      BY <2>2 DEF StaleJobs, ActiveJobs, Active
    <3>2. \A k \in Jobs :
              Phase(k)' = IF k \in F THEN "failed" ELSE Phase(k)
      <4> SUFFICES ASSUME NEW k \in Jobs
                   PROVE  Phase(k)' = IF k \in F THEN "failed" ELSE Phase(k)
        OBVIOUS
      <4>1. CASE k \in S
        BY <2>10, <4>1 DEF Reclaims, StaleJobs, Phase, Active
      <4>2. CASE k \notin S
        BY <2>10, <4>2 DEF Reclaims, Phase
      <4> QED
        BY <4>1, <4>2
    <3>3. Promised!Fail(F)
      <4> HIDE DEF F
      <4> QED
        BY <2>10, <3>1, <3>2 DEF Promised!Fail, Reclaims
    <3> QED
      BY <3>1, <3>3 DEF Promised!Next
  <2>11. ASSUME NEW j \in Jobs, GivesUp(j)
         PROVE  Promised!Next
    BY <2>6, <2>11 DEF GivesUp, Active, Promised!Next
  <2>12. ASSUME NEW j \in Jobs, Records(j)
         PROVE  Promised!Next
    BY <2>7, <2>12 DEF Records, Promised!Next
  <2>13. ASSUME NEW j \in Jobs, Admits(j) \/ Deletes(j)
         PROVE  Promised!Next
    BY <2>4, <2>8, <2>13 DEF Promised!Next
  <2> QED
    BY <2>1, <2>3, <2>5, <2>9, <2>10, <2>11, <2>12, <2>13 DEF Shape
<1> QED
  BY <1>1, <1>2, InvInductive, PTL
  DEF Spec, ImplementsAuditJobs, Promised!Spec, phaseBar

=============================================================================
