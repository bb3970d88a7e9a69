---------------------- MODULE IdempotencyRecords_proofs ----------------------
(***************************************************************************)
(* Proofs about the two users of a row of idempotency_records: Idempotency,*)
(* for any requests, payloads, modes, lease, TTL, backoff and clock, and   *)
(* any number of faults of any kind; and SystemOperationLock, for any      *)
(* operations, lease, TTL and clock, operations that outrun their lease,   *)
(* any number of crashes, and as many errors as the lease outlasts.        *)
(***************************************************************************)
EXTENDS Idempotency, SystemOperationLock, FiniteSetTheorems, TLAPS

-----------------------------------------------------------------------------
(***************************************************************************)
(* Part one: Idempotency.                                                  *)
(***************************************************************************)

-----------------------------------------------------------------------------
(***************************************************************************)
(* The inductive invariant.                                                *)
(***************************************************************************)

Typed ==
    /\ row \in Rows({Payload[r] : r \in Requests}, Requests)
    /\ nextId \in Nat \ {0} /\ clock \in Nat \ {0}
    /\ mode \in Modes
    /\ req \in [Requests -> Requested]
    /\ applied \subseteq Requests
    /\ promised \in Nat /\ {repeated, stalled} \subseteq BOOLEAN
    /\ faults \in 0 .. MaxFaults

\* Ids are not used twice, whoever has the id of the row has its payload, and a
\* stored result took effect, for that payload.
RecordInv ==
    /\ row.id < nextId /\ (row.id = 0 => row = NoRow)
    /\ \A r \in Requests : req[r].id < nextId
    /\ \A r \in Requests :
          req[r].id # 0 /\ req[r].id = row.id => row.fingerprint = Payload[r]
    /\ row.body # None =>
          row.body \in applied /\ Payload[row.body] = row.fingerprint

\* What a request knows at its step, and what it was answered.
RequestInv(r) ==
    /\ req[r].now <= clock
    /\ req[r].pc # "idle" => req[r].now >= 1
    /\ req[r].pc \in Executing \cup {"reclaim", "reclaimExpired"} =>
          req[r].id # 0
    /\ req[r].pc = "reclaim" => req[r].from = "failed_retryable"
    /\ req[r].pc = "mark" => r \in applied
    /\ req[r].pc \in Executing => req[r].expiresAt > TTL
    /\ req[r].data # None =>
          req[r].data \in applied /\ Payload[req[r].data] = Payload[r]

\* Nobody was too slow, or no record has expired yet.
Guarded == ~stalled \/ NothingExpired

\* Requests claim within the lease.
PromptInv ==
    ~stalled => \A r \in Requests :
        req[r].pc \in Claiming => clock < req[r].now + Lease

\* Who executes has the row until it expires, alone; and who has found the row
\* expired, before it was taken over, is too late to take it over again.
OwnerInv ==
    Guarded =>
        /\ \A r \in Requests : req[r].pc \in Executing =>
              /\ row.id = req[r].id /\ row.status = "processing"
              /\ clock < row.expiresAt
        /\ \A p, q \in Requests :
              req[p].pc \in Executing /\ req[q].pc \in Executing => p = q
        /\ \A q, r \in Requests :
              /\ req[q].pc = "reclaimExpired" /\ req[q].from = "processing"
              /\ req[q].id = row.id /\ req[r].pc \in Executing
              => req[q].now < row.lockedUntil

\* Before a record expires nothing that took effect is executed again.
OnceInv ==
    NothingExpired =>
        /\ row.id # 0 => row.expiresAt > TTL
        /\ \A r \in Requests : req[r].pc \notin {"reclaimExpired", "reget"}
        /\ applied # {} =>
              row.id # 0 /\ row.status \in {"processing", "succeeded"}
        /\ \A r \in Requests : req[r].pc \in Executing =>
              applied = IF req[r].pc = "mark" THEN {r} ELSE {}
        /\ \A p, q \in applied : p = q

Inv ==
    /\ Typed /\ RecordInv
    /\ \A r \in Requests : RequestInv(r)
    /\ PromptInv /\ OwnerInv /\ OnceInv

-----------------------------------------------------------------------------
(***************************************************************************)
(* Lemmas about the operators of the model.                                *)
(***************************************************************************)

OthersStay(r) == \A s \in Requests \ {r} : req'[s] = req[s]

\* The fields of a request, of the row, and the constants.
LEMMA Fields ==
    ASSUME Typed, NEW r \in Requests
    PROVE  /\ req \in [Requests -> Requested] /\ req[r] \in Requested
           /\ req[r].pc \in Steps /\ req[r].now \in Nat /\ req[r].id \in Nat
           /\ req[r].from \in Statuses /\ req[r].expiresAt \in Nat
           /\ req[r].renewing \in BOOLEAN /\ req[r].answer \in Answers
           /\ req[r].data \in Requests \cup {None}
           /\ row.id \in Nat /\ row.status \in Statuses
           /\ row.lockedUntil \in Nat /\ row.expiresAt \in Nat
           /\ row.body \in Requests \cup {None} /\ None \notin Requests
           /\ Lease \in Nat \ {0} /\ TTL \in Nat /\ TTL > Lease
           /\ clock \in Nat \ {0} /\ nextId \in Nat \ {0}
<1>1. req \in [Requests -> Requested] /\ req[r] \in Requested
  BY DEF Typed
<1>2. row \in Rows({Payload[s] : s \in Requests}, Requests)
  BY DEF Typed
<1>3. /\ Lease \in Nat \ {0} /\ TTL \in Nat /\ TTL > Lease
      /\ clock \in Nat \ {0} /\ nextId \in Nat \ {0} /\ None \notin Requests
  BY IdempotencyAssumption DEF Typed
<1> QED
  BY <1>1, <1>2, <1>3 DEF Requested, Rows

\* A step of one request.
LEMMA Changed ==
    ASSUME Typed, NEW r \in Requests
    PROVE  /\ \A pc \in Steps : Goto(r, pc) =>
                 /\ req' \in [Requests -> Requested] /\ OthersStay(r)
                 /\ req'[r].pc = pc /\ req'[r].now = req[r].now
                 /\ req'[r].id = req[r].id /\ req'[r].from = req[r].from
                 /\ req'[r].expiresAt = req[r].expiresAt
                 /\ req'[r].data = req[r].data
           /\ \A answer \in Answers : \A data \in Requests \cup {None} :
                 Answer(r, answer, data) =>
                    /\ req' \in [Requests -> Requested] /\ OthersStay(r)
                    /\ req'[r].pc = "done" /\ req'[r].now = req[r].now
                    /\ req'[r].id = req[r].id /\ req'[r].from = req[r].from
                    /\ req'[r].expiresAt = req[r].expiresAt
                    /\ req'[r].data = data
<1>1. req \in [Requests -> Requested] /\ req[r] \in Requested
  BY Fields
<1>2. ASSUME NEW pc \in Steps, Goto(r, pc)
      PROVE  /\ req' \in [Requests -> Requested] /\ OthersStay(r)
             /\ req'[r].pc = pc /\ req'[r].now = req[r].now
             /\ req'[r].id = req[r].id /\ req'[r].from = req[r].from
             /\ req'[r].expiresAt = req[r].expiresAt
             /\ req'[r].data = req[r].data
  BY <1>1, <1>2 DEF Goto, OthersStay, Requested
<1>3. ASSUME NEW answer \in Answers, NEW data \in Requests \cup {None},
             Answer(r, answer, data)
      PROVE  /\ req' \in [Requests -> Requested] /\ OthersStay(r)
             /\ req'[r].pc = "done" /\ req'[r].now = req[r].now
             /\ req'[r].id = req[r].id /\ req'[r].from = req[r].from
             /\ req'[r].expiresAt = req[r].expiresAt
             /\ req'[r].data = data
  <2>1. "done" \in Steps /\ FALSE \in BOOLEAN
    BY DEF Steps
  <2> QED
    BY <1>1, <1>3, <2>1 DEF Answer, OthersStay, Requested
<1> QED
  BY <1>2, <1>3

\* Faults only make the requests that are too slow known.
LEMMA Faulty ==
    ASSUME Typed
    PROVE  /\ NoFault => /\ stalled' = stalled /\ stalled' \in BOOLEAN
                         /\ faults' \in 0 .. MaxFaults
           /\ \A kind : Fault(kind) =>
                 /\ (stalled => stalled') /\ stalled' \in BOOLEAN
                 /\ faults' \in 0 .. MaxFaults
<1>1. faults \in 0 .. MaxFaults /\ MaxFaults \in Nat /\ stalled \in BOOLEAN
  BY IdempotencyAssumption DEF Typed
<1>2. ASSUME NEW kind, Fault(kind)
      PROVE  /\ (stalled => stalled') /\ stalled' \in BOOLEAN
             /\ faults' \in 0 .. MaxFaults
  <2>1. faults' = faults - 1 /\ faults > 0 /\ stalled' = (stalled \/ kind = "stall")
    BY <1>2 DEF Fault
  <2> QED
    BY <1>1, <2>1
<1> QED
  BY <1>1, <1>2 DEF NoFault

-----------------------------------------------------------------------------
(***************************************************************************)
(* Steps that leave the row alone.                                         *)
(***************************************************************************)

\* A step of one request that does not begin to execute.
LEMMA Quiet ==
    ASSUME Inv, NEW r \in Requests,
           UNCHANGED <<row, nextId, clock, mode, applied, promised, repeated>>,
           stalled => stalled', stalled' \in BOOLEAN, faults' \in 0 .. MaxFaults,
           req' \in [Requests -> Requested], OthersStay(r), RequestInv(r)',
           \/ req'[r].id = req[r].id
           \/ req'[r].id = row.id /\ row.fingerprint = Payload[r],
           req'[r].pc \in Executing =>
              /\ req[r].pc \in Executing /\ req'[r].id = req[r].id
              /\ (req'[r].pc = "mark") = (req[r].pc = "mark"),
           ~stalled /\ req'[r].pc \in Claiming => clock < req'[r].now + Lease,
           req'[r].pc = "reclaimExpired" =>
              row.id # 0 /\ row.expiresAt <= req'[r].now,
           req'[r].pc = "reget" => req[r].pc = "reclaimExpired"
    PROVE  Inv'
<1> USE DEF Inv
<1>t. /\ clock \in Nat /\ row.expiresAt \in Nat /\ TTL \in Nat
      /\ req'[r].now \in Nat
  BY Fields DEF Requested
<1>o. \A s \in Requests \ {r} : req'[s] = req[s]
  BY DEF OthersStay
<1>1. Typed'
  BY DEF Typed
<1>2. RecordInv'
  BY <1>o DEF RecordInv
<1>3. \A s \in Requests : RequestInv(s)'
  BY <1>o DEF RequestInv
<1>4. PromptInv'
  BY <1>o DEF PromptInv
<1>e. \A s \in Requests : req'[s].pc \in Executing =>
          req[s].pc \in Executing /\ req'[s].id = req[s].id
  BY <1>o
<1>l. req'[r].now <= clock
  BY DEF RequestInv
<1>5. OwnerInv'
  <2>1. Guarded' => Guarded
    BY DEF Guarded, NothingExpired
  <2>2. ASSUME Guarded, NEW q \in Requests, NEW s \in Requests,
               req'[q].pc = "reclaimExpired", req'[q].from = "processing",
               req'[q].id = row.id, req'[s].pc \in Executing
        PROVE  req'[q].now < row.lockedUntil
    <3>1. clock < row.expiresAt
      BY <1>e, <2>2 DEF OwnerInv
    <3>2. q # r
      BY <1>t, <1>l, <2>2, <3>1
    <3> QED
      BY <1>o, <1>e, <2>2, <3>2 DEF OwnerInv
  <2> QED
    BY <1>e, <2>1, <2>2 DEF OwnerInv
<1>6. OnceInv'
  <2>1. NothingExpired' = NothingExpired
    BY DEF NothingExpired
  <2>2. ASSUME NothingExpired
        PROVE  req'[r].pc \notin {"reclaimExpired", "reget"}
    <3>1. row.id # 0 => row.expiresAt > TTL /\ clock <= TTL
      BY <2>2 DEF OnceInv, NothingExpired
    <3>2. req'[r].pc # "reclaimExpired"
      BY <1>t, <1>l, <3>1
    <3> QED
      BY <2>2, <3>2 DEF OnceInv
  <2> QED
    BY <1>o, <1>e, <2>1, <2>2 DEF OnceInv
<1> QED
  BY <1>1, <1>2, <1>3, <1>4, <1>5, <1>6

\* Quiet for a request that is answered.
LEMMA Ends ==
    ASSUME Inv, NEW r \in Requests,
           UNCHANGED <<row, nextId, clock, mode, applied, promised, repeated>>,
           stalled => stalled', stalled' \in BOOLEAN, faults' \in 0 .. MaxFaults,
           req[r].pc # "idle",
           NEW answer \in Answers, NEW data \in Requests \cup {None},
           Answer(r, answer, data),
           data # None => data \in applied /\ Payload[data] = Payload[r]
    PROVE  Inv'
<1>1. /\ req' \in [Requests -> Requested] /\ OthersStay(r)
      /\ req'[r].pc = "done" /\ req'[r].now = req[r].now
      /\ req'[r].id = req[r].id /\ req'[r].data = data
  BY Changed DEF Inv
<1>2. RequestInv(r)'
  BY <1>1 DEF Inv, RequestInv, Executing
<1> QED
  BY <1>1, <1>2, Quiet DEF Executing, Claiming

\* Ends with an answer that carries no result.
LEMMA Refuses ==
    ASSUME Inv, NEW r \in Requests,
           UNCHANGED <<row, nextId, clock, mode, applied, promised, repeated>>,
           stalled => stalled', stalled' \in BOOLEAN, faults' \in 0 .. MaxFaults,
           req[r].pc # "idle",
           NEW answer \in Answers, Refuse(r, answer)
    PROVE  Inv'
BY Ends DEF Refuse

\* A request arrives.
LEMMA InvArrive ==
    ASSUME Inv, NEW r \in Requests, Arrive(r)
    PROVE  Inv'
<1> USE DEF Inv
<1>u. /\ UNCHANGED <<row, nextId, clock, mode, applied, promised, repeated>>
      /\ stalled' = stalled /\ stalled' \in BOOLEAN /\ faults' \in 0 .. MaxFaults
      /\ req[r].pc = "idle"
      /\ req' = [req EXCEPT ![r].pc = "create", ![r].now = clock]
  BY DEF Arrive, SameHistory, At, Typed
<1>1. req \in [Requests -> Requested] /\ "create" \in Steps /\ clock \in Nat \ {0}
      /\ Lease \in Nat \ {0}
  BY Fields DEF Steps, Claiming
<1>2. /\ req' \in [Requests -> Requested] /\ OthersStay(r)
      /\ req'[r].pc = "create" /\ req'[r].now = clock
      /\ req'[r].id = req[r].id /\ req'[r].data = req[r].data
  BY <1>u, <1>1 DEF OthersStay, Requested
<1>3. RequestInv(r)' /\ clock < clock + Lease
  BY <1>u, <1>1, <1>2 DEF RequestInv, Executing
<1> QED
  BY <1>u, <1>2, <1>3, Quiet DEF Executing

\* The switch over the status: what is replayed took effect.
LEMMA InvDispatch ==
    ASSUME Inv, NEW r \in Requests, Dispatch(r),
           UNCHANGED <<row, nextId, clock, mode, applied, promised, repeated>>,
           NoFault, req[r].pc \in {"get", "reget"},
           row # NoRow, row.fingerprint = Payload[r]
    PROVE  Inv'
<1> USE DEF Inv
<1>f. /\ stalled' = stalled /\ stalled' \in BOOLEAN /\ faults' \in 0 .. MaxFaults
  BY Faulty
<1>1. CASE Answer(r, "replayed", row.body)
  <2>1. /\ row.body \in Requests \cup {None} /\ "replayed" \in Answers
        /\ row.body # None =>
              row.body \in applied /\ Payload[row.body] = Payload[r]
    BY Fields DEF RecordInv, Answers
  <2> QED
    BY <1>f, <1>1, <2>1, Ends
<1>2. CASE Refuse(r, "inProgress")
  <2>1. "inProgress" \in Answers
    BY DEF Answers
  <2> QED
    BY <1>f, <1>2, <2>1, Refuses
<1>3. CASE /\ row.status = "failed_retryable"
           /\ req' = [req EXCEPT ![r].pc = "reclaim", ![r].id = row.id,
                                 ![r].from = row.status]
  <2>1. /\ req \in [Requests -> Requested] /\ "reclaim" \in Steps
        /\ row.id \in Nat /\ row.status \in Statuses /\ row.id # 0
    BY Fields DEF Steps, Claiming, RecordInv
  <2>2. /\ req' \in [Requests -> Requested] /\ OthersStay(r)
        /\ req'[r].pc = "reclaim" /\ req'[r].now = req[r].now
        /\ req'[r].id = row.id /\ req'[r].data = req[r].data
        /\ req'[r].from = "failed_retryable"
    BY <1>3, <2>1 DEF OthersStay, Requested
  <2>3. RequestInv(r)' /\ (~stalled => clock < req[r].now + Lease)
    BY <2>1, <2>2 DEF RequestInv, Executing, PromptInv, Claiming
  <2> QED
    BY <1>f, <2>1, <2>2, <2>3, Quiet DEF Executing
<1> HIDE DEF Inv
<1> QED
  BY <1>1, <1>2, <1>3 DEF Dispatch

\* The record is read.
LEMMA InvGet ==
    ASSUME Inv, NEW r \in Requests, Get(r) \/ Reget(r)
    PROVE  Inv'
<1> USE DEF Inv
<1>u. /\ UNCHANGED <<row, nextId, clock, mode, applied, promised, repeated>>
      /\ req[r].pc \in {"get", "reget"} /\ req[r].pc # "idle"
      /\ {"conflict", "unavailable"} \subseteq Answers
  BY DEF Get, Reget, SameRow, SameHistory, At, Answers
<1>f. /\ (stalled => stalled') /\ stalled' \in BOOLEAN
      /\ faults' \in 0 .. MaxFaults
  BY Faulty DEF Get, Reget, ReadFailed
<1>1. ASSUME NEW answer \in Answers, Refuse(r, answer)
      PROVE  Inv'
  BY <1>u, <1>f, <1>1, Refuses
<1>2. CASE row # NoRow /\ row.fingerprint = Payload[r] /\ NoFault /\ Dispatch(r)
  BY <1>u, <1>2, InvDispatch
<1>3. CASE /\ row # NoRow /\ row.fingerprint = Payload[r]
           /\ row.expiresAt <= req[r].now
           /\ req' = [req EXCEPT ![r].pc = "reclaimExpired",
                                 ![r].id = row.id, ![r].from = row.status]
  <2>1. /\ req \in [Requests -> Requested] /\ "reclaimExpired" \in Steps
        /\ row.id \in Nat /\ row.status \in Statuses /\ row.id # 0
    BY <1>3, Fields DEF Steps, Claiming, RecordInv
  <2>2. /\ req' \in [Requests -> Requested] /\ OthersStay(r)
        /\ req'[r].pc = "reclaimExpired" /\ req'[r].now = req[r].now
        /\ req'[r].id = row.id /\ req'[r].data = req[r].data
    BY <1>3, <2>1 DEF OthersStay, Requested
  <2>3. RequestInv(r)' /\ (~stalled => clock < req[r].now + Lease)
    BY <1>u, <2>1, <2>2 DEF RequestInv, Executing, PromptInv, Claiming
  <2> QED
    BY <1>u, <1>f, <1>3, <2>1, <2>2, <2>3, Quiet DEF Executing
<1> HIDE DEF Inv
<1> QED
  BY <1>u, <1>1, <1>2, <1>3 DEF Get, Reget, Mismatch, ReadFailed

\* A request crashes, or reads the record back.
LEMMA InvRecover ==
    ASSUME Inv, NEW r \in Requests, Crash(r) \/ Recover(r)
    PROVE  Inv'
<1> USE DEF Inv
<1>u. /\ UNCHANGED <<row, nextId, clock, mode, applied, promised, repeated>>
      /\ req[r].pc # "idle" /\ {"none", "ok", "unavailable"} \subseteq Answers
  BY DEF Crash, Recover, SameRow, SameHistory, At, Live, Answers
<1>f. /\ (stalled => stalled') /\ stalled' \in BOOLEAN
      /\ faults' \in 0 .. MaxFaults
  BY Faulty DEF Crash, Recover, ReadFailed
<1>1. ASSUME NEW answer \in Answers, Refuse(r, answer)
      PROVE  Inv'
  BY <1>u, <1>f, <1>1, Refuses
<1>2. CASE row.body = r /\ Answer(r, "ok", r)
  <2>1. r # None /\ r \in applied
    BY <1>2, Fields DEF RecordInv
  <2> QED
    BY <1>u, <1>f, <1>2, <2>1, Ends
<1> HIDE DEF Inv
<1> QED
  BY <1>u, <1>1, <1>2 DEF Crash, Recover, ReadFailed

-----------------------------------------------------------------------------
(***************************************************************************)
(* Taking the row.                                                         *)
(***************************************************************************)

\* The row is created, or taken over, by a request.
Taken(r) ==
    \/ At(r, "create") /\ Inserts(r)
    \/ /\ req[r].pc \in {"reclaim", "reclaimExpired"}
       /\ TakesOver(r)

\* Nobody executes while the row can be taken.
LEMMA Unowned ==
    ASSUME Inv, NEW r \in Requests, Taken(r), Guarded,
           NEW p \in Requests, req[p].pc \in Executing
    PROVE  FALSE
<1>1. row.id = req[p].id /\ row.status = "processing" /\ req[p].id # 0
  BY DEF Inv, OwnerInv, RequestInv
<1>2. row # NoRow
  BY <1>1 DEF NoRow
<1>3. /\ req[r].pc \in {"reclaim", "reclaimExpired"}
      /\ row.id = req[r].id /\ req[r].from = "processing"
      /\ row.lockedUntil <= req[r].now
  BY <1>1, <1>2 DEF Taken, Inserts, TakesOver, CreateProcessing, TryReclaim, Reclaimable
<1>4. req[r].pc = "reclaimExpired"
  BY <1>3 DEF Inv, RequestInv
<1>5. req[r].now < row.lockedUntil
  BY <1>3, <1>4 DEF Inv, OwnerInv
<1>6. row.lockedUntil \in Nat /\ req[r].now \in Nat
  BY Fields DEF Inv
<1> QED
  BY <1>3, <1>5, <1>6

\* The row as it is taken, and the ids.
LEMMA TakenRow ==
    ASSUME Inv, NEW r \in Requests, Taken(r)
    PROVE  /\ row' \in Rows({Payload[s] : s \in Requests}, Requests)
           /\ nextId' \in Nat \ {0} /\ row'.id < nextId' /\ nextId <= nextId'
           /\ row'.id # 0 /\ row'.status = "processing"
           /\ row'.lockedUntil = req[r].now + Lease
           /\ row'.expiresAt = req[r].now + TTL
           /\ row'.fingerprint = Payload[r]
           /\ \A s \in Requests : req[s].id # 0 /\ req[s].id = row'.id =>
                 row'.fingerprint = Payload[s]
           /\ row'.body # None =>
                 row'.body \in applied /\ Payload[row'.body] = row'.fingerprint
           /\ \/ row.id = 0
              \/ req[r].pc = "reclaimExpired"
              \/ row.status = "failed_retryable"
<1>1. /\ req[r].now \in Nat /\ req[r].id \in Nat /\ nextId \in Nat \ {0}
      /\ Lease \in Nat \ {0} /\ TTL \in Nat /\ TTL > Lease
      /\ \A s \in Requests : req[s].id \in Nat
  BY Fields DEF Inv
<1>2. "processing" \in Statuses
  BY DEF Statuses
<1>3. CASE Inserts(r)
  <2>1. /\ row' = [id |-> nextId, fingerprint |-> Payload[r],
                   status |-> "processing", lockedUntil |-> req[r].now + Lease,
                   expiresAt |-> req[r].now + TTL, body |-> None]
        /\ nextId' = nextId + 1 /\ row.id = 0
    BY <1>3 DEF Inserts, CreateProcessing, NoRow
  <2>2. row' \in Rows({Payload[s] : s \in Requests}, Requests)
    BY <1>1, <1>2, <2>1 DEF Rows
  <2>3. \A s \in Requests : req[s].id < nextId
    BY DEF Inv, RecordInv
  <2> QED
    BY <1>1, <2>1, <2>2, <2>3
<1>4. CASE /\ req[r].pc \in {"reclaim", "reclaimExpired"}
           /\ TakesOver(r)
  <2>1. row \in Rows({Payload[s] : s \in Requests}, Requests)
    BY DEF Inv, Typed
  <2>2. /\ row' = [row EXCEPT !.status = "processing",
                              !.lockedUntil = req[r].now + Lease,
                              !.expiresAt = req[r].now + TTL]
        /\ nextId' = nextId /\ row.id = req[r].id /\ row.status = req[r].from
        /\ req[r].id # 0
    BY <1>4 DEF TakesOver, TryReclaim, Reclaimable, Inv, RequestInv
  <2>3. /\ row' \in Rows({Payload[s] : s \in Requests}, Requests)
        /\ row'.id = row.id /\ row'.status = "processing"
        /\ row'.lockedUntil = req[r].now + Lease
        /\ row'.expiresAt = req[r].now + TTL
        /\ row'.fingerprint = row.fingerprint /\ row'.body = row.body
    <3> DEFINE F == {Payload[s] : s \in Requests}
    <3>1. row \in Rows(F, Requests)
      BY <2>1
    <3> HIDE DEF F
    <3>2. req[r].now + Lease \in Nat /\ req[r].now + TTL \in Nat
      BY <1>1
    <3>3. /\ row' \in Rows(F, Requests)
          /\ row'.id = row.id /\ row'.status = "processing"
          /\ row'.lockedUntil = req[r].now + Lease
          /\ row'.expiresAt = req[r].now + TTL
          /\ row'.fingerprint = row.fingerprint /\ row'.body = row.body
      BY <1>2, <2>2, <3>1, <3>2 DEF Rows
    <3> QED
      BY <3>3 DEF F
  <2>4. req[r].pc = "reclaimExpired" \/ row.status = "failed_retryable"
    BY <1>4, <2>2 DEF Inv, RequestInv
  <2>5. row.id < nextId
    BY DEF Inv, RecordInv
  <2> QED
    BY <1>1, <2>2, <2>3, <2>4, <2>5 DEF Inv, RecordInv
<1> QED
  BY <1>3, <1>4 DEF Taken

\* The row is taken, and the request executes, or is lost to an error.
LEMMA Takes ==
    ASSUME Inv, NEW r \in Requests, Taken(r),
           UNCHANGED <<clock, mode, applied, promised>>,
           repeated' \in BOOLEAN,
           stalled => stalled', stalled' \in BOOLEAN, faults' \in 0 .. MaxFaults,
           req' \in [Requests -> Requested], OthersStay(r),
           req'[r].now = req[r].now,
           \/ /\ req'[r].pc = "run" /\ req'[r].id = row'.id
              /\ req'[r].expiresAt = req[r].now + TTL
              /\ req'[r].data = req[r].data
           \/ /\ req'[r].pc = "done" /\ req'[r].id = req[r].id
              /\ req'[r].data = None
    PROVE  Inv'
<1>o. \A s \in Requests \ {r} : req'[s] = req[s]
  BY DEF OthersStay
<1>t. /\ req[r].now \in Nat /\ clock \in Nat \ {0} /\ TTL \in Nat
      /\ Lease \in Nat \ {0} /\ TTL > Lease /\ nextId \in Nat
      /\ \A s \in Requests : req[s].now \in Nat /\ req[s].id \in Nat
  BY Fields DEF Inv
<1>p. req[r].pc \in Claiming /\ req[r].pc # "idle"
  BY DEF Taken, At, Claiming
<1>n. req[r].now >= 1 /\ req[r].now <= clock
  BY <1>p DEF Inv, RequestInv
<1>r. /\ row' \in Rows({Payload[s] : s \in Requests}, Requests)
      /\ nextId' \in Nat \ {0} /\ row'.id < nextId' /\ nextId <= nextId'
      /\ row'.id # 0 /\ row'.status = "processing"
      /\ row'.lockedUntil = req[r].now + Lease
      /\ row'.expiresAt = req[r].now + TTL
      /\ row'.fingerprint = Payload[r]
      /\ \A s \in Requests : req[s].id # 0 /\ req[s].id = row'.id =>
            row'.fingerprint = Payload[s]
      /\ row'.body # None =>
            row'.body \in applied /\ Payload[row'.body] = row'.fingerprint
  BY TakenRow
<1>1. Typed'
  BY <1>r DEF Inv, Typed
<1>2. RecordInv'
  <2>1. \A s \in Requests : req'[s].id \in {req[s].id, row'.id}
    BY <1>o
  <2>2. \A s \in Requests : req[s].id < nextId
    BY DEF Inv, RecordInv
  <2>3. \A s \in Requests : req'[s].id < nextId'
    BY <1>r, <1>t, <2>1, <2>2
  <2>4. \A s \in Requests : req'[s].id # 0 /\ req'[s].id = row'.id =>
            row'.fingerprint = Payload[s]
    BY <1>r, <1>o
  <2> QED
    BY <1>r, <2>3, <2>4 DEF RecordInv
<1>3. \A s \in Requests : RequestInv(s)'
  <2>1. RequestInv(r)'
    BY <1>r, <1>n, <1>t DEF Inv, RequestInv, Executing
  <2> QED
    BY <1>o, <2>1 DEF Inv, RequestInv
<1>4. PromptInv'
  BY <1>o DEF Inv, PromptInv, Claiming
<1>g. Guarded' => Guarded
  BY DEF Guarded, NothingExpired
<1>e. Guarded => \A s \in Requests \ {r} : req'[s].pc \notin Executing
  BY <1>o, Unowned
<1>5. OwnerInv'
  <2>1. ASSUME Guarded'
        PROVE  clock < row'.expiresAt
    <3>1. CASE ~stalled
      <4>1. clock < req[r].now + Lease
        BY <1>p, <3>1 DEF Inv, PromptInv
      <4> QED
        BY <1>r, <1>t, <4>1
    <3>2. CASE NothingExpired
      BY <1>r, <1>t, <1>n, <3>2 DEF NothingExpired
    <3> QED
      BY <1>g, <2>1, <3>1, <3>2 DEF Guarded
  <2>2. ASSUME Guarded', NEW q \in Requests, req'[q].pc = "reclaimExpired"
        PROVE  req'[q].now < row'.lockedUntil
    <3>1. q # r /\ req'[q] = req[q]
      BY <1>o, <2>2
    <3>2. ~stalled
      BY <1>g, <2>2, <3>1 DEF Guarded, Inv, OnceInv
    <3>3. clock < req[r].now + Lease /\ req[q].now <= clock
      BY <1>p, <3>2 DEF Inv, PromptInv, RequestInv
    <3> QED
      BY <1>r, <1>t, <3>1, <3>3
  <2>3. \A s \in Requests : req'[s].pc \in Executing /\ Guarded' =>
            s = r /\ req'[s].id = row'.id
    BY <1>g, <1>e DEF Executing
  <2> QED
    BY <1>r, <2>1, <2>2, <2>3 DEF OwnerInv
<1>6. OnceInv'
  <2> SUFFICES ASSUME NothingExpired
               PROVE  OnceInv'
    BY DEF OnceInv, NothingExpired
  <2>1. Guarded /\ OnceInv
    BY DEF Guarded, Inv
  <2>2. applied = {}
    BY <2>1, TakenRow DEF OnceInv
  <2>3. row'.expiresAt > TTL
    BY <1>r, <1>n, <1>t
  <2>4. \A s \in Requests : req'[s].pc \notin {"reclaimExpired", "reget"}
    BY <1>o, <2>1 DEF OnceInv
  <2>5. \A s \in Requests : req'[s].pc \in Executing => req'[s].pc # "mark"
    BY <1>e, <2>1
  <2> QED
    BY <2>2, <2>3, <2>4, <2>5 DEF OnceInv
<1> QED
  BY <1>1, <1>2, <1>3, <1>4, <1>5, <1>6 DEF Inv

\* The claim of a request, and the answer of one that lost it to an error.
LEMMA Claims ==
    ASSUME Inv, NEW r \in Requests, Taken(r), UNCHANGED <<clock, mode>>,
           \/ NoFault /\ \E id : id = row'.id /\ Claim(r, id)
           \/ Fault("error") /\ SameHistory /\ Refuse(r, "unavailable")
    PROVE  Inv'
<1> USE DEF Inv
<1>f. /\ (stalled => stalled') /\ stalled' \in BOOLEAN
      /\ faults' \in 0 .. MaxFaults
  BY Faulty
<1>t. /\ req \in [Requests -> Requested] /\ req[r].now \in Nat /\ TTL \in Nat
      /\ repeated \in BOOLEAN
  BY Fields DEF Typed
<1>1. CASE \E id : id = row'.id /\ Claim(r, id)
  <2>1. Claim(r, row'.id)
    BY <1>1
  <2>2. /\ req' = [req EXCEPT ![r].pc = "run", ![r].id = row'.id,
                              ![r].expiresAt = req[r].now + TTL,
                              ![r].renewing = (mode = "renewed")]
        /\ repeated' \in BOOLEAN /\ UNCHANGED <<applied, promised>>
    BY <1>t, <2>1 DEF Claim
  <2>3. row'.id \in Nat /\ "run" \in Steps /\ req[r].now + TTL \in Nat
    BY <1>t, TakenRow DEF Rows, Steps, Executing
  <2>b. PICK b \in BOOLEAN, id \in Nat, e \in Nat :
           /\ id = row'.id /\ e = req[r].now + TTL
           /\ req' = [req EXCEPT ![r].pc = "run", ![r].id = id,
                                 ![r].expiresAt = e, ![r].renewing = b]
    BY <2>2, <2>3
  <2>4. /\ req' \in [Requests -> Requested] /\ OthersStay(r)
        /\ req'[r].now = req[r].now /\ req'[r].pc = "run"
        /\ req'[r].id = row'.id /\ req'[r].expiresAt = req[r].now + TTL
        /\ req'[r].data = req[r].data
    <3> DEFINE q == [req[r] EXCEPT !.pc = "run", !.id = id,
                                   !.expiresAt = e, !.renewing = b]
    <3>1. req[r] \in Requested
      BY <1>t
    <3>2. /\ q \in Requested /\ q.pc = "run" /\ q.id = id /\ q.expiresAt = e
          /\ q.now = req[r].now /\ q.data = req[r].data
      BY <2>3, <3>1 DEF Requested
    <3>3. req' = [req EXCEPT ![r] = q]
      BY <1>t, <2>b, <3>1 DEF Requested
    <3> HIDE DEF q
    <3>4. /\ req' \in [Requests -> Requested] /\ req'[r] = q
          /\ \A s \in Requests \ {r} : req'[s] = req[s]
      BY <1>t, <3>2, <3>3
    <3>5. id = row'.id /\ e = req[r].now + TTL
      BY <2>b
    <3> QED
      BY <3>2, <3>4, <3>5 DEF OthersStay
  <2> QED
    BY <1>f, <2>2, <2>4, Takes
<1>2. CASE SameHistory /\ Refuse(r, "unavailable")
  <2>1. "unavailable" \in Answers /\ Answer(r, "unavailable", None)
    BY <1>2 DEF Answers, Refuse
  <2>2. /\ req' \in [Requests -> Requested] /\ OthersStay(r)
        /\ req'[r].now = req[r].now /\ req'[r].pc = "done"
        /\ req'[r].id = req[r].id /\ req'[r].data = None
    BY <2>1, Changed
  <2>3. UNCHANGED <<applied, promised>> /\ repeated' \in BOOLEAN
    BY <1>t, <1>2 DEF SameHistory
  <2> QED
    BY <1>f, <2>2, <2>3, Takes
<1> QED
  BY <1>1, <1>2

\* The record is created, found, or the statement fails.
LEMMA InvCreate ==
    ASSUME Inv, NEW r \in Requests, Create(r)
    PROVE  Inv'
<1>u. UNCHANGED <<clock, mode>> /\ req[r].pc = "create"
  BY DEF Create, At
<1>1. CASE /\ Inserts(r)
           /\ \/ Claim(r, nextId) /\ NoFault
              \/ Refuse(r, "unavailable") /\ Fault("error") /\ SameHistory
  <2>1. Taken(r)
    BY <1>u, <1>1 DEF Taken, At
  <2>2. row'.id = nextId
    BY <1>1 DEF Inserts, CreateProcessing
  <2> QED
    BY <1>u, <1>1, <2>1, <2>2, Claims
<1>2. CASE Goto(r, "get") /\ NoFault /\ SameRow /\ SameHistory
  <2>1. "get" \in Steps
    BY DEF Steps, Claiming
  <2>2. /\ UNCHANGED <<row, nextId, clock, mode, applied, promised, repeated>>
        /\ (stalled => stalled') /\ stalled' \in BOOLEAN
        /\ faults' \in 0 .. MaxFaults
    BY <1>u, <1>2, Faulty DEF Inv, SameRow, SameHistory
  <2>3. /\ req' \in [Requests -> Requested] /\ OthersStay(r)
        /\ req'[r].pc = "get" /\ req'[r].now = req[r].now
        /\ req'[r].id = req[r].id /\ req'[r].data = req[r].data
    BY <1>2, <2>1, Changed DEF Inv
  <2>4. RequestInv(r)' /\ (~stalled => clock < req[r].now + Lease)
    BY <1>u, <2>2, <2>3 DEF Inv, RequestInv, PromptInv, Executing, Claiming
  <2> QED
    BY <2>2, <2>3, <2>4, Quiet DEF Executing
<1>3. CASE SameRow /\ Refuse(r, "unavailable") /\ Fault("error") /\ SameHistory
  <2>1. "unavailable" \in Answers
    BY DEF Answers
  <2>2. /\ UNCHANGED <<row, nextId, clock, mode, applied, promised, repeated>>
        /\ (stalled => stalled') /\ stalled' \in BOOLEAN
        /\ faults' \in 0 .. MaxFaults
    BY <1>u, <1>3, Faulty DEF Inv, SameRow, SameHistory
  <2> QED
    BY <1>u, <1>3, <2>1, <2>2, Refuses
<1> QED
  BY <1>1, <1>2, <1>3 DEF Create

\* The record is taken over, lost to somebody else, or the statement fails.
LEMMA InvReclaim ==
    ASSUME Inv, NEW r \in Requests,
           NEW pc \in {"reclaim", "reclaimExpired"}, Reclaim(r, pc)
    PROVE  Inv'
<1>u. UNCHANGED <<clock, mode>> /\ req[r].pc = pc
  BY DEF Reclaim, At
<1>1. CASE /\ TakesOver(r)
           /\ \/ Claim(r, req[r].id) /\ NoFault
              \/ Refuse(r, "unavailable") /\ Fault("error") /\ SameHistory
  <2>1. Taken(r)
    BY <1>u, <1>1 DEF Taken
  <2>2. row'.id = req[r].id
    <3>1. row.id = req[r].id
      BY <1>1 DEF TakesOver, TryReclaim, Reclaimable
    <3>2. row \in Rows({Payload[s] : s \in Requests}, Requests)
      BY DEF Inv, Typed
    <3> QED
      BY <1>1, <3>1, <3>2 DEF TakesOver, TryReclaim, Rows
  <2> QED
    BY <1>u, <1>1, <2>1, <2>2, Claims
<1>2. CASE /\ SameRow /\ SameHistory /\ NoFault
           /\ pc = "reclaimExpired" /\ Goto(r, "reget")
  <2>1. "reget" \in Steps
    BY DEF Steps, Claiming
  <2>2. /\ UNCHANGED <<row, nextId, clock, mode, applied, promised, repeated>>
        /\ (stalled => stalled') /\ stalled' \in BOOLEAN
        /\ faults' \in 0 .. MaxFaults
    BY <1>u, <1>2, Faulty DEF Inv, SameRow, SameHistory
  <2>3. /\ req' \in [Requests -> Requested] /\ OthersStay(r)
        /\ req'[r].pc = "reget" /\ req'[r].now = req[r].now
        /\ req'[r].id = req[r].id /\ req'[r].data = req[r].data
    BY <1>2, <2>1, Changed DEF Inv
  <2>4. RequestInv(r)' /\ (~stalled => clock < req[r].now + Lease)
    BY <1>u, <1>2, <2>2, <2>3
       DEF Inv, RequestInv, PromptInv, Executing, Claiming
  <2> QED
    BY <1>u, <1>2, <2>2, <2>3, <2>4, Quiet DEF Executing
<1>3. CASE /\ SameRow /\ SameHistory
           /\ \/ Refuse(r, "inProgress") /\ NoFault
              \/ Refuse(r, "unavailable") /\ Fault("error")
  <2>1. "unavailable" \in Answers /\ "inProgress" \in Answers
    BY DEF Answers
  <2>2. /\ UNCHANGED <<row, nextId, clock, mode, applied, promised, repeated>>
        /\ (stalled => stalled') /\ stalled' \in BOOLEAN
        /\ faults' \in 0 .. MaxFaults
    BY <1>u, <1>3, Faulty DEF Inv, SameRow, SameHistory
  <2>3. req[r].pc # "idle"
    BY <1>u
  <2> QED
    BY <1>3, <2>1, <2>2, <2>3, Refuses
<1> QED
  BY <1>1, <1>2, <1>3 DEF Reclaim

-----------------------------------------------------------------------------
(***************************************************************************)
(* Executing and recording the result.                                     *)
(***************************************************************************)

\* The execution is over, and the row says how: with the result of the request,
\* which took effect, or as a failure, when nothing did.
LEMMA Finishes ==
    ASSUME Inv, NEW r \in Requests, req[r].pc \in Executing,
           UNCHANGED <<nextId, clock, mode, repeated>>, promised' \in Nat,
           stalled => stalled', stalled' \in BOOLEAN, faults' \in 0 .. MaxFaults,
           req' \in [Requests -> Requested], OthersStay(r),
           req'[r].pc \in {"done", "recover"}, req'[r].now = req[r].now,
           req'[r].id = req[r].id, req'[r].data \in {req[r].data, r, None},
           \/ /\ applied' = applied \cup {r}
              /\ row' = Succeeded(req[r].id, r, req[r].expiresAt)
           \/ /\ applied' = applied /\ req[r].pc # "mark" /\ req'[r].data # r
              /\ \E t \in Nat :
                    row' = FailedRetryable(req[r].id, t, req[r].expiresAt)
    PROVE  Inv'
<1>o. \A s \in Requests \ {r} : req'[s] = req[s]
  BY DEF OthersStay
<1>t. /\ req[r].expiresAt \in Nat /\ TTL \in Nat /\ None \notin Requests
      /\ req[r].id \in Nat /\ req[r].id # 0 /\ req[r].expiresAt > TTL
  BY Fields DEF Inv, RequestInv
<1>a. applied \subseteq applied' /\ applied' \subseteq Requests
  BY DEF Inv, Typed
<1>r. /\ row' \in Rows({Payload[s] : s \in Requests}, Requests)
      /\ row'.id = row.id /\ row'.fingerprint = row.fingerprint
      /\ row.id # req[r].id => row' = row
      /\ row.id = req[r].id =>
            /\ row'.expiresAt = req[r].expiresAt
            /\ \/ /\ row'.status = "succeeded" /\ applied' = applied \cup {r}
                  /\ row'.body = r
               \/ /\ applied' = applied /\ req[r].pc # "mark"
                  /\ row'.body = row.body
  <2> DEFINE F == {Payload[s] : s \in Requests}
  <2>1. row \in Rows(F, Requests)
    BY DEF Inv, Typed
  <2> HIDE DEF F
  <2>2. {"succeeded", "failed_retryable"} \subseteq Statuses
    BY DEF Statuses
  <2>3. CASE /\ applied' = applied \cup {r}
             /\ row' = Succeeded(req[r].id, r, req[r].expiresAt)
    <3>1. row.id = req[r].id =>
             row' = [row EXCEPT !.status = "succeeded", !.body = r,
                                !.lockedUntil = 0,
                                !.expiresAt = req[r].expiresAt]
      BY <2>3 DEF Succeeded
    <3>2. row.id # req[r].id => row' = row
      BY <2>3 DEF Succeeded
    <3>3. row' \in Rows(F, Requests) /\ row'.id = row.id
          /\ row'.fingerprint = row.fingerprint
      <4>1. CASE row.id = req[r].id
        <5>1. r \in Requests \cup {None} /\ "succeeded" \in Statuses /\ 0 \in Nat
          BY <2>2
        <5> QED
          BY <1>t, <2>1, <3>1, <4>1, <5>1 DEF Rows
      <4>2. CASE row.id # req[r].id
        BY <2>1, <3>2, <4>2
      <4> QED
        BY <4>1, <4>2
    <3>4. row.id = req[r].id =>
             /\ row'.expiresAt = req[r].expiresAt
             /\ row'.status = "succeeded" /\ row'.body = r
      BY <2>1, <3>1 DEF Rows
    <3> QED
      BY <2>3, <3>2, <3>3, <3>4 DEF F
  <2>4. CASE /\ applied' = applied /\ req[r].pc # "mark"
             /\ \E t \in Nat :
                   row' = FailedRetryable(req[r].id, t, req[r].expiresAt)
    <3>1. PICK t \in Nat : row' = FailedRetryable(req[r].id, t, req[r].expiresAt)
      BY <2>4
    <3>2. row.id = req[r].id =>
             row' = [row EXCEPT !.status = "failed_retryable",
                                !.lockedUntil = t,
                                !.expiresAt = req[r].expiresAt]
      BY <3>1 DEF FailedRetryable
    <3>3. row.id # req[r].id => row' = row
      BY <3>1 DEF FailedRetryable
    <3>4. row' \in Rows(F, Requests) /\ row'.id = row.id
          /\ row'.fingerprint = row.fingerprint /\ row'.body = row.body
      BY <1>t, <2>1, <2>2, <3>2, <3>3 DEF Rows
    <3>5. row.id = req[r].id => row'.expiresAt = req[r].expiresAt
      BY <2>1, <3>2 DEF Rows
    <3> QED
      BY <2>4, <3>3, <3>4, <3>5 DEF F
  <2> QED
    BY <2>3, <2>4
<1>1. Typed'
  BY <1>r, <1>a DEF Inv, Typed
<1>2. RecordInv'
  <2>1. /\ row'.id < nextId' /\ (row'.id = 0 => row' = NoRow)
        /\ \A s \in Requests : req'[s].id = req[s].id
    BY <1>o, <1>r, <1>t DEF Inv, RecordInv
  <2>2. row'.body # None =>
           row'.body \in applied' /\ Payload[row'.body] = row'.fingerprint
    BY <1>r, <1>a, <1>t DEF Inv, RecordInv
  <2> QED
    BY <1>r, <2>1, <2>2 DEF Inv, RecordInv
<1>3. \A s \in Requests : RequestInv(s)'
  <2>1. RequestInv(r)'
    BY <1>a, <1>t DEF Inv, RequestInv, Executing
  <2> QED
    BY <1>o, <1>a, <2>1 DEF Inv, RequestInv
<1>4. PromptInv'
  BY <1>o DEF Inv, PromptInv, Claiming
<1>g. Guarded' => Guarded
  BY DEF Guarded, NothingExpired
<1>e. Guarded => \A s \in Requests : req'[s].pc \notin Executing
  BY <1>o DEF Inv, OwnerInv, Executing
<1>5. OwnerInv'
  BY <1>e, <1>g DEF OwnerInv
<1>6. OnceInv'
  <2> SUFFICES ASSUME NothingExpired
               PROVE  OnceInv'
    BY DEF OnceInv, NothingExpired
  <2>1. Guarded /\ OnceInv /\ row.id = req[r].id
    BY DEF Guarded, Inv, OwnerInv
  <2>2. applied = IF req[r].pc = "mark" THEN {r} ELSE {}
    BY <2>1 DEF OnceInv
  <2>3. /\ row'.expiresAt > TTL /\ row'.id # 0
        /\ applied' # {} => row'.status = "succeeded" /\ applied' = {r}
    BY <1>r, <1>t, <2>1, <2>2
  <2>4. \A s \in Requests : req'[s].pc \notin {"reclaimExpired", "reget"}
    BY <1>o, <2>1 DEF OnceInv
  <2> QED
    BY <1>e, <2>1, <2>3, <2>4 DEF OnceInv
<1> QED
  BY <1>1, <1>2, <1>3, <1>4, <1>5, <1>6 DEF Inv

\* The operation is executed outside of a transaction.
LEMMA InvRun ==
    ASSUME Inv, NEW r \in Requests, Run(r)
    PROVE  Inv'
<1>u. /\ UNCHANGED <<row, nextId, clock, mode, promised, repeated, stalled,
                     faults>>
      /\ req[r].pc = "run"
  BY DEF Run, At
<1>1. PICK ok \in BOOLEAN :
        /\ req' = [req EXCEPT
                     ![r].pc = IF ok THEN "mark" ELSE "markFailed",
                     ![r].expiresAt = IF mode = "renewed" THEN clock + TTL
                                                          ELSE @]
        /\ applied' = IF ok THEN applied \cup {r} ELSE applied
  BY DEF Run
<1>t. /\ req \in [Requests -> Requested] /\ req[r] \in Requested
      /\ req[r].expiresAt \in Nat /\ clock \in Nat \ {0} /\ TTL \in Nat
      /\ req[r].expiresAt > TTL
  BY <1>u, Fields DEF Inv, RequestInv, Executing
<1>2. PICK pc \in {"mark", "markFailed"}, e \in Nat :
        /\ pc = (IF ok THEN "mark" ELSE "markFailed") /\ e > TTL
        /\ req' = [req EXCEPT ![r].pc = pc, ![r].expiresAt = e]
  <2> DEFINE d == IF mode = "renewed" THEN clock + TTL ELSE req[r].expiresAt
  <2>1. d \in Nat /\ d > TTL
    BY <1>t
  <2>2. req' = [req EXCEPT ![r].pc = IF ok THEN "mark" ELSE "markFailed",
                           ![r].expiresAt = d]
    BY <1>1, <1>t DEF Requested
  <2> QED
    BY <2>1, <2>2
<1>3. /\ req' \in [Requests -> Requested]
      /\ \A s \in Requests \ {r} : req'[s] = req[s]
      /\ req'[r].pc = pc /\ req'[r].now = req[r].now
      /\ req'[r].id = req[r].id /\ req'[r].data = req[r].data
      /\ req'[r].expiresAt = e
  <2>1. pc \in Steps
    BY DEF Steps, Executing
  <2> QED
    BY <1>t, <1>2, <2>1 DEF Requested
<1>a. /\ applied \subseteq applied' /\ applied' \subseteq Requests
      /\ pc = "mark" => applied' = applied \cup {r}
      /\ pc = "markFailed" => applied' = applied
  BY <1>1, <1>2 DEF Inv, Typed
<1>e. \A s \in Requests : /\ (req'[s].pc \in Executing) = (req[s].pc \in Executing)
                          /\ req'[s].id = req[s].id /\ req'[s].now = req[s].now
  BY <1>u, <1>2, <1>3 DEF Executing
<1>4. Typed'
  BY <1>u, <1>3, <1>a DEF Inv, Typed
<1>5. RecordInv'
  BY <1>u, <1>3, <1>a DEF Inv, RecordInv
<1>6. \A s \in Requests : RequestInv(s)'
  <2>1. RequestInv(r)'
    BY <1>u, <1>2, <1>3, <1>a DEF Inv, RequestInv, Executing
  <2> QED
    BY <1>u, <1>3, <1>a, <2>1 DEF Inv, RequestInv
<1>7. PromptInv'
  BY <1>u, <1>3 DEF Inv, PromptInv, Claiming
<1>8. OwnerInv'
  <2>1. Guarded' = Guarded
    BY <1>u DEF Guarded, NothingExpired
  <2>2. ASSUME NEW q \in Requests, req'[q].pc = "reclaimExpired"
        PROVE  req'[q] = req[q]
    BY <1>3, <2>2
  <2> QED
    BY <1>u, <1>e, <2>1, <2>2 DEF Inv, OwnerInv
<1>9. OnceInv'
  <2> SUFFICES ASSUME NothingExpired
               PROVE  OnceInv'
    BY <1>u DEF OnceInv, NothingExpired
  <2>1. OnceInv /\ Guarded
    BY DEF Inv, Guarded
  <2>2. applied = {} /\ row.id # 0 /\ row.status = "processing"
    BY <1>u, <2>1 DEF Inv, OnceInv, OwnerInv, RequestInv, Executing
  <2>3. \A s \in Requests : req'[s].pc \in Executing => s = r
    BY <1>u, <1>e, <2>1 DEF Inv, OwnerInv, Executing
  <2>4. applied' = IF pc = "mark" THEN {r} ELSE {}
    BY <1>a, <2>2
  <2>5. \A s \in Requests : req'[s].pc \notin {"reclaimExpired", "reget"}
    BY <1>3, <2>1 DEF OnceInv
  <2> QED
    BY <1>u, <1>3, <2>1, <2>2, <2>3, <2>4, <2>5 DEF OnceInv
<1> QED
  BY <1>4, <1>5, <1>6, <1>7, <1>8, <1>9 DEF Inv

\* The result, or the failure, is recorded, or could not be.
LEMMA InvMark ==
    ASSUME Inv, NEW r \in Requests, Mark(r) \/ MarkFailed(r)
    PROVE  Inv'
<1>u. /\ UNCHANGED <<nextId, clock, mode, applied, repeated>>
      /\ req[r].pc \in {"mark", "markFailed"}
      /\ req[r].pc \in Executing /\ req[r].pc # "idle"
      /\ {"ok", "failed", "unavailable"} \subseteq Answers
      /\ r \in Requests \cup {None} /\ None \in Requests \cup {None}
      /\ r # None
  BY Fields DEF Inv, Mark, MarkFailed, At, SameHistory, Executing, Answers
<1>f. /\ (stalled => stalled') /\ stalled' \in BOOLEAN
      /\ faults' \in 0 .. MaxFaults
  BY Faulty DEF Inv, Mark, MarkFailed
<1>1. CASE /\ row' = row /\ promised' = promised
           /\ \E answer \in {"failed", "unavailable"} : Refuse(r, answer)
  BY <1>u, <1>f, <1>1, Refuses
<1>2. CASE /\ At(r, "mark")
           /\ row' = Succeeded(req[r].id, r, req[r].expiresAt)
           /\ Promise(r, req[r].expiresAt)
           /\ Answer(r, "ok", r) \/ Refuse(r, "unavailable")
  <2>1. applied' = applied \cup {r}
    BY <1>u, <1>2 DEF Inv, RequestInv, At
  <2>2. promised' \in Nat
    BY <1>2, Fields DEF Inv, Typed, Promise
  <2>3. PICK answer \in Answers, data \in {r, None} : Answer(r, answer, data)
    BY <1>u, <1>2 DEF Refuse
  <2>4. /\ req' \in [Requests -> Requested] /\ OthersStay(r)
        /\ req'[r].pc = "done" /\ req'[r].now = req[r].now
        /\ req'[r].id = req[r].id /\ req'[r].data = data
    BY <1>u, <2>3, Changed DEF Inv
  <2> QED
    BY <1>u, <1>f, <1>2, <2>1, <2>2, <2>4, Finishes
<1>3. CASE /\ At(r, "markFailed") /\ promised' = promised
           /\ row' = FailedRetryable(req[r].id, clock + Backoff, req[r].expiresAt)
           /\ Refuse(r, "failed")
  <2>1. clock + Backoff \in Nat /\ promised' \in Nat
    BY <1>3, IdempotencyAssumption DEF Inv, Typed
  <2>2. Answer(r, "failed", None)
    BY <1>3 DEF Refuse
  <2>3. /\ req' \in [Requests -> Requested] /\ OthersStay(r)
        /\ req'[r].pc = "done" /\ req'[r].now = req[r].now
        /\ req'[r].id = req[r].id /\ req'[r].data = None
    BY <1>u, <2>2, Changed DEF Inv
  <2> QED
    BY <1>u, <1>f, <1>3, <2>1, <2>3, Finishes DEF At
<1> QED
  BY <1>1, <1>2, <1>3 DEF Mark, MarkFailed, SameHistory

\* The transaction commits, rolls back, or ends in doubt.
LEMMA InvTransaction ==
    ASSUME Inv, NEW r \in Requests, Transaction(r)
    PROVE  Inv'
<1>u. /\ UNCHANGED <<nextId, clock, mode, repeated>>
      /\ req[r].pc = "run" /\ req[r].pc \in Executing /\ req[r].pc # "idle"
      /\ {"ok", "unavailable"} \subseteq Answers
      /\ {"markFailed", "recover"} \subseteq Steps
      /\ r \in Requests \cup {None} /\ r # None
  BY Fields DEF Inv, Transaction, At, Executing, Answers, Steps
<1>f. /\ (stalled => stalled') /\ stalled' \in BOOLEAN
      /\ faults' \in 0 .. MaxFaults
  BY Faulty DEF Inv, Transaction
<1>1. CASE Commit(r) /\ (Answer(r, "ok", r) \/ Goto(r, "recover"))
  <2>1. /\ applied' = applied \cup {r}
        /\ row' = Succeeded(req[r].id, r, req[r].expiresAt)
    BY <1>1 DEF Commit
  <2>2. promised' \in Nat
    BY <1>1, Fields DEF Inv, Typed, Commit, Promise
  <2>3. /\ req' \in [Requests -> Requested] /\ OthersStay(r)
        /\ req'[r].pc \in {"done", "recover"} /\ req'[r].now = req[r].now
        /\ req'[r].id = req[r].id /\ req'[r].data \in {r, req[r].data}
    BY <1>u, <1>1, Changed DEF Inv
  <2> QED
    BY <1>u, <1>f, <2>1, <2>2, <2>3, Finishes
<1>2. CASE /\ UNCHANGED <<row, applied, promised>>
           /\ \E pc \in {"markFailed", "recover"} : Goto(r, pc)
  <2>1. PICK pc \in {"markFailed", "recover"} : Goto(r, pc)
    BY <1>2
  <2>2. /\ req' \in [Requests -> Requested] /\ OthersStay(r)
        /\ req'[r].pc = pc /\ req'[r].now = req[r].now
        /\ req'[r].id = req[r].id /\ req'[r].expiresAt = req[r].expiresAt
        /\ req'[r].data = req[r].data
    BY <1>u, <2>1, Changed DEF Inv
  <2>3. RequestInv(r)'
    BY <1>u, <1>2, <2>2 DEF Inv, RequestInv, Executing
  <2> QED
    BY <1>u, <1>f, <1>2, <2>2, <2>3, Quiet DEF Claiming
<1>3. CASE UNCHANGED <<row, applied, promised>> /\ Refuse(r, "unavailable")
  BY <1>u, <1>f, <1>3, Refuses
<1> QED
  BY <1>1, <1>2, <1>3 DEF Transaction

-----------------------------------------------------------------------------
(***************************************************************************)
(* Renewal, time and the clean-up.                                         *)
(***************************************************************************)

\* The lease is extended, or the renewal stops.
LEMMA InvRenew ==
    ASSUME Inv, NEW r \in Requests, Renew(r)
    PROVE  Inv'
<1>u. /\ UNCHANGED <<nextId, clock, mode, applied, promised, repeated, stalled,
                     faults>>
  BY DEF Renew, SameHistory, NoFault
<1>t. /\ clock \in Nat \ {0} /\ Lease \in Nat \ {0} /\ TTL \in Nat
      /\ \A s \in Requests : req[s].now \in Nat
  BY Fields DEF Inv
<1>1. CASE row' = Extended(clock + Lease, clock + TTL) /\ req' = req /\ row.status = "processing"
  <2> DEFINE F == {Payload[s] : s \in Requests}
  <2>1. row \in Rows(F, Requests)
    BY DEF Inv, Typed
  <2> HIDE DEF F
  <2>2. clock + Lease \in Nat /\ clock + TTL \in Nat
    BY <1>t
  <2>3. row' = [row EXCEPT !.lockedUntil = clock + Lease,
                           !.expiresAt = clock + TTL]
    BY <1>1 DEF Extended
  <2>4. /\ row' \in Rows(F, Requests) /\ row'.id = row.id
        /\ row'.fingerprint = row.fingerprint /\ row'.body = row.body
        /\ row'.status = row.status
        /\ row'.lockedUntil = clock + Lease /\ row'.expiresAt = clock + TTL
    BY <2>1, <2>2, <2>3 DEF Rows
  <2>5. Typed'
    BY <1>u, <1>1, <2>4 DEF Inv, Typed, F
  <2>6. RecordInv'
    <3>1. row.id # 0
      BY <1>1 DEF Inv, RecordInv, NoRow
    <3> QED
      BY <1>u, <1>1, <2>4, <3>1 DEF Inv, RecordInv
  <2>7. (\A s \in Requests : RequestInv(s)') /\ PromptInv'
    BY <1>u, <1>1 DEF Inv, RequestInv, PromptInv
  <2>8. OwnerInv'
    <3>1. Guarded' = Guarded
      BY <1>u DEF Guarded, NothingExpired
    <3>2. clock < row'.expiresAt
      BY <1>t, <2>4, Fields, IdempotencyAssumption DEF Inv
    <3>3. \A s \in Requests : req[s].now < row'.lockedUntil
      BY <1>t, <2>4 DEF Inv, RequestInv
    <3>4. CASE Guarded
      <4>1. /\ \A s \in Requests : req[s].pc \in Executing =>
                  row.id = req[s].id /\ row.status = "processing"
            /\ \A p, q \in Requests :
                  req[p].pc \in Executing /\ req[q].pc \in Executing => p = q
        BY <3>4 DEF Inv, OwnerInv
      <4>2. /\ \A s \in Requests : req'[s].pc \in Executing =>
                  /\ row'.id = req'[s].id /\ row'.status = "processing"
                  /\ clock' < row'.expiresAt
            /\ \A p, q \in Requests :
                  req'[p].pc \in Executing /\ req'[q].pc \in Executing => p = q
            /\ \A s \in Requests : req'[s].now < row'.lockedUntil
        BY <1>u, <1>1, <2>4, <3>2, <3>3, <4>1
      <4> QED
        BY <4>2 DEF OwnerInv
    <3>5. CASE ~Guarded
      BY <3>1, <3>5 DEF OwnerInv
    <3> QED
      BY <3>4, <3>5
  <2>9. OnceInv'
    <3>1. row'.expiresAt > TTL
      BY <1>t, <2>4
    <3> QED
      BY <1>u, <1>1, <2>4, <3>1 DEF Inv, OnceInv, NothingExpired
  <2> QED
    BY <2>5, <2>6, <2>7, <2>8, <2>9 DEF Inv
<1>2. CASE row' = row /\ req' = [req EXCEPT ![r].renewing = FALSE]
  <2>1. req \in [Requests -> Requested] /\ req[r] \in Requested
    BY Fields DEF Inv
  <2>2. /\ req' \in [Requests -> Requested]
        /\ \A s \in Requests :
              /\ req'[s].pc = req[s].pc /\ req'[s].now = req[s].now
              /\ req'[s].id = req[s].id /\ req'[s].from = req[s].from
              /\ req'[s].expiresAt = req[s].expiresAt
              /\ req'[s].data = req[s].data
    BY <1>2, <2>1 DEF Requested
  <2>3. Typed' /\ RecordInv'
    BY <1>u, <1>2, <2>2 DEF Inv, Typed, RecordInv
  <2>4. (\A s \in Requests : RequestInv(s)') /\ PromptInv'
    BY <1>u, <2>2 DEF Inv, RequestInv, PromptInv
  <2>5. OwnerInv'
    BY <1>u, <1>2, <2>2 DEF Inv, OwnerInv, Guarded, NothingExpired
  <2>6. OnceInv'
    BY <1>u, <1>2, <2>2 DEF Inv, OnceInv, NothingExpired
  <2> QED
    BY <2>3, <2>4, <2>5, <2>6 DEF Inv
<1> QED
  BY <1>1, <1>2 DEF Renew, Extendable

\* Time passes: nobody executes past the expiry, and who is too slow is known.
LEMMA InvTick ==
    ASSUME Inv, Tick
    PROVE  Inv'
<1>u. /\ UNCHANGED <<row, nextId, mode, req, applied, promised, repeated>>
      /\ clock' = clock + 1 /\ Outliving = {}
  BY DEF Tick, SameHistory
<1>t. /\ clock \in Nat \ {0} /\ Lease \in Nat \ {0} /\ TTL \in Nat
      /\ row.expiresAt \in Nat /\ stalled \in BOOLEAN
      /\ \A s \in Requests : req[s].now \in Nat
  BY Fields, IdempotencyAssumption DEF Inv, Typed, Rows
<1>f. /\ (stalled => stalled') /\ stalled' \in BOOLEAN
      /\ faults' \in 0 .. MaxFaults
      /\ ~stalled' => Stalling = {}
  BY Faulty DEF Inv, Tick, Fault
<1>1. Typed'
  BY <1>u, <1>t, <1>f DEF Inv, Typed
<1>2. RecordInv'
  BY <1>u DEF Inv, RecordInv
<1>3. \A s \in Requests : RequestInv(s)'
  BY <1>u, <1>t DEF Inv, RequestInv
<1>4. PromptInv'
  BY <1>u, <1>t, <1>f DEF PromptInv, Stalling
<1>n. NothingExpired' => NothingExpired
  BY <1>u, <1>t DEF NothingExpired
<1>5. OwnerInv'
  <2>1. Guarded' => Guarded
    BY <1>n, <1>f DEF Guarded
  <2>2. ASSUME Guarded, NEW s \in Requests, req[s].pc \in Executing
        PROVE  clock + 1 < row.expiresAt
    <3>1. row.id = req[s].id
      BY <2>2 DEF Inv, OwnerInv
    <3> QED
      BY <1>u, <1>t, <2>2, <3>1 DEF Outliving
  <2> QED
    BY <1>u, <2>1, <2>2 DEF Inv, OwnerInv
<1>6. OnceInv'
  BY <1>u, <1>n DEF Inv, OnceInv
<1> QED
  BY <1>1, <1>2, <1>3, <1>4, <1>5, <1>6 DEF Inv

\* An expired row is deleted: nobody executes then.
LEMMA InvCleanup ==
    ASSUME Inv, Cleanup
    PROVE  Inv'
<1>u. /\ UNCHANGED <<nextId, clock, mode, req, applied, promised, repeated,
                     stalled, faults>>
      /\ row # NoRow /\ row.expiresAt <= clock /\ row' = NoRow
  BY DEF Cleanup, DeleteExpired, SameHistory
<1>t. /\ clock \in Nat \ {0} /\ TTL \in Nat /\ row.expiresAt \in Nat
      /\ nextId \in Nat \ {0}
  BY IdempotencyAssumption DEF Inv, Typed, Rows
<1>1. Typed'
  <2>1. NoRow \in Rows({Payload[s] : s \in Requests}, Requests)
    BY DEF NoRow, Rows, Statuses
  <2> QED
    BY <1>u, <2>1 DEF Inv, Typed
<1>2. RecordInv'
  BY <1>u, <1>t DEF Inv, RecordInv, NoRow
<1>3. (\A s \in Requests : RequestInv(s)') /\ PromptInv'
  BY <1>u DEF Inv, RequestInv, PromptInv
<1>5. OwnerInv'
  <2>1. Guarded => \A s \in Requests : req[s].pc \notin Executing
    BY <1>u, <1>t DEF Inv, OwnerInv
  <2> QED
    BY <1>u, <2>1 DEF OwnerInv, Guarded, NothingExpired
<1>6. OnceInv'
  <2>1. ~NothingExpired
    BY <1>u, <1>t DEF Inv, RecordInv, OnceInv, NothingExpired
  <2> QED
    BY <1>u, <2>1 DEF OnceInv, NothingExpired
<1> QED
  BY <1>1, <1>2, <1>3, <1>5, <1>6 DEF Inv

-----------------------------------------------------------------------------
(***************************************************************************)
(* The theorems.                                                           *)
(***************************************************************************)

\* Nothing has arrived, and there is no record.
LEMMA InvInit ==
    ASSUME Init
    PROVE  Inv
<1>u. /\ row = NoRow /\ nextId = 1 /\ clock = 1 /\ mode \in Modes
      /\ applied = {} /\ promised = 0 /\ repeated = FALSE /\ stalled = FALSE
      /\ faults = MaxFaults /\ req = [r \in Requests |-> Idle]
  BY DEF Init, RecordInit
<1>i. Idle \in Requested
  BY DEF Idle, Requested, Steps, Statuses, Answers
<1>r. \A r \in Requests : req[r] = Idle
  BY <1>u
<1>1. Typed
  <2>1. NoRow \in Rows({Payload[s] : s \in Requests}, Requests)
    BY DEF NoRow, Rows, Statuses
  <2>2. faults \in 0 .. MaxFaults
    BY <1>u, IdempotencyAssumption
  <2>3. req \in [Requests -> Requested]
    BY <1>u, <1>i
  <2>4. nextId \in Nat \ {0} /\ clock \in Nat \ {0} /\ promised \in Nat
    BY <1>u
  <2>5. {repeated, stalled} \subseteq BOOLEAN /\ applied \subseteq Requests
    BY <1>u
  <2> QED
    BY <1>u, <2>1, <2>2, <2>3, <2>4, <2>5 DEF Typed
<1>2. RecordInv
  BY <1>u, <1>r DEF RecordInv, NoRow, Idle
<1>3. (\A r \in Requests : RequestInv(r)) /\ PromptInv
  BY <1>u, <1>r DEF RequestInv, PromptInv, Idle, Executing, Claiming
<1>4. OwnerInv
  BY <1>r DEF OwnerInv, Idle, Executing
<1>5. OnceInv
  BY <1>u, <1>r DEF OnceInv, Idle, Executing, NoRow
<1> QED
  BY <1>1, <1>2, <1>3, <1>4, <1>5 DEF Inv

\* Every step of the requests, the clock and the clean-up preserves it.
LEMMA InvStep ==
    ASSUME Inv, [Next]_vars
    PROVE  Inv'
<1>1. CASE \E r \in Requests : RequestStep(r) \/ Crash(r)
  BY <1>1, InvArrive, InvCreate, InvGet, InvReclaim, InvRun, InvMark,
     InvTransaction, InvRecover, InvRenew DEF RequestStep
<1>2. CASE Tick
  BY <1>2, InvTick
<1>3. CASE Cleanup
  BY <1>3, InvCleanup
<1>4. CASE UNCHANGED vars
  <2>1. /\ row' = row /\ nextId' = nextId /\ clock' = clock /\ mode' = mode
        /\ req' = req /\ applied' = applied /\ promised' = promised
        /\ repeated' = repeated /\ stalled' = stalled /\ faults' = faults
    BY <1>4 DEF vars
  <2>2. Typed' /\ RecordInv'
    BY <2>1 DEF Inv, Typed, RecordInv
  <2>3. (\A r \in Requests : RequestInv(r)') /\ PromptInv'
    BY <2>1 DEF Inv, RequestInv, PromptInv
  <2>4. OwnerInv' /\ OnceInv'
    BY <2>1 DEF Inv, OwnerInv, OnceInv, Guarded, NothingExpired
  <2> QED
    BY <2>2, <2>3, <2>4 DEF Inv
<1> QED
  BY <1>1, <1>2, <1>3, <1>4 DEF Next

\* The invariant holds in every behaviour of the specification.
LEMMA Invariance == Spec => []Inv
<1>1. Init => Inv
  BY InvInit
<1>2. Inv /\ [Next]_vars => Inv'
  BY InvStep
<1> QED
  BY <1>1, <1>2, PTL DEF Spec

\* Execute: while no record has expired the operation behind one key takes
\* effect at most once, whatever crashes, fails, stalls or is retried.
THEOREM Once == Spec => []AppliedOnce
<1>1. Inv => AppliedOnce
  <2> SUFFICES ASSUME Inv, NothingExpired
               PROVE  Cardinality(applied) <= 1
    BY DEF AppliedOnce
  <2>1. \A p, q \in applied : p = q
    BY DEF Inv, OnceInv
  <2>2. CASE applied = {}
    BY <2>2, FS_EmptySet
  <2>3. CASE applied # {}
    <3>1. PICK p \in applied : TRUE
      BY <2>3
    <3>2. applied = {p}
      BY <2>1, <3>1
    <3>3. Cardinality({p}) = 1
      BY FS_Singleton
    <3> QED
      BY <3>2, <3>3
  <2> QED
    BY <2>2, <2>3
<1> QED
  BY <1>1, Invariance, PTL

\* Execute: as long as requests claim within the lease and executions end within
\* the TTL, one request of a key executes at a time.
THEOREM Alone == Spec => []ExecutesAlone
<1>1. Inv => ExecutesAlone
  BY DEF Inv, OwnerInv, Guarded, ExecutesAlone
<1> QED
  BY <1>1, Invariance, PTL

\* Execute: every result that is answered, first, replayed or recovered, is that
\* of an execution that took effect, for the payload the client sent.
THEOREM Answered == Spec => []AnswersAreApplied
<1>1. Inv => AnswersAreApplied
  BY DEF Inv, RequestInv, AnswersAreApplied
<1> QED
  BY <1>1, Invariance, PTL

-----------------------------------------------------------------------------
(***************************************************************************)
(* Part two: SystemOperationLock.                                          *)
(***************************************************************************)

-----------------------------------------------------------------------------
(***************************************************************************)
(* What is assumed of the lease and of the errors.                         *)
(***************************************************************************)

\* Errors that can still delay a renewal.
ErrorsLeft == IF "error" \in LockFaultKinds THEN lockFaults ELSE 0
MaxErrors  == IF "error" \in LockFaultKinds THEN MaxLockFaults ELSE 0

\* What the errors that are left can still cost, in time.
Slack == ErrorsLeft * RenewInterval

\* A lease outlasts an Acquire, the first renewal and those that fail.
LeaseOutlastsErrors == (MaxErrors + 2) * RenewInterval <= LockLease

-----------------------------------------------------------------------------
(***************************************************************************)
(* The inductive invariant.                                                *)
(***************************************************************************)

LockTyped ==
    /\ row \in Rows(Operations, Operations)
    /\ nextId \in Nat \ {0}
    /\ clock \in Nat \ {0}
    /\ op \in [Operations -> Lock]
    /\ overran \in BOOLEAN
    /\ lockFaults \in 0 .. MaxLockFaults

\* An Acquire is faster than a renewal interval, and the row is not of an
\* operation that has yet to run.
AcquireInv ==
    /\ \A o \in Operations : op[o].pc \in Acquiring =>
          op[o].now <= clock /\ clock < op[o].now + RenewInterval
    /\ \A o \in Operations : op[o].pc \in Acquiring \cup {"idle"} =>
          row.fingerprint # o

\* Who runs, or is about to release, has the row, though not alone, and the row
\* has not expired.  No ticker is overdue.
HolderInv ==
    /\ \A o \in Operations : op[o].pc \in Holding =>
          op[o].id = row.id /\ clock < row.expiresAt
    /\ \A o \in Operations : op[o].renewAt # 0 =>
          op[o].pc = "running" /\ clock <= op[o].renewAt

\* The operation that made the row has it alone while it runs, and its lease
\* outlasts the next renewal and those that may fail.
InserterInv ==
    \A o \in Operations : op[o].pc = "running" /\ row.fingerprint = o =>
        /\ op[o].renewAt # 0 /\ row.status = "processing"
        /\ op[o].renewAt + Slack < row.lockedUntil
        /\ \A p \in Operations \ {o} : op[p].pc \notin Holding

\* So does every other, until one outruns its lease.
LeaseInv ==
    ~overran => \A o \in Operations : op[o].pc \in Holding =>
        /\ row.status = "processing" /\ clock < row.lockedUntil
        /\ \A p \in Operations \ {o} : op[p].pc \notin Holding

LockInv == LockTyped /\ AcquireInv /\ HolderInv /\ InserterInv /\ LeaseInv

-----------------------------------------------------------------------------
(***************************************************************************)
(* Lemmas.                                                                 *)
(***************************************************************************)

\* An error uses up one renewal interval of it; nothing adds to it.
LEMMA SlackSpent ==
    ASSUME lockFaults \in 0 .. MaxLockFaults
    PROVE  /\ Slack \in Nat
           /\ lockFaults' \in 0 .. MaxLockFaults => Slack' \in Nat
           /\ LeaseOutlastsErrors => Slack + 2 * RenewInterval <= LockLease
           /\ NoLockFault =>
                 lockFaults' \in 0 .. MaxLockFaults /\ Slack' = Slack
           /\ \A kind : LockFault(kind) =>
                 lockFaults' \in 0 .. MaxLockFaults /\ Slack' <= Slack
           /\ LockFault("error") => Slack' + RenewInterval = Slack
<1> DEFINE R == RenewInterval
<1>0. R \in Nat /\ MaxLockFaults \in Nat /\ LockLease \in Nat
  BY LockAssumption
<1>1. \A m, n \in Nat : /\ m * R \in Nat
                         /\ (m + n) * R = m * R + n * R
  BY <1>0
<1>2. \A m, n \in Nat : m <= n => m * R <= n * R
  <2> SUFFICES ASSUME NEW m \in Nat, NEW n \in Nat, m <= n
               PROVE  m * R <= n * R
    OBVIOUS
  <2>1. n - m \in Nat /\ n = m + (n - m)
    OBVIOUS
  <2>2. n * R = m * R + (n - m) * R /\ (n - m) * R \in Nat /\ m * R \in Nat
    BY <1>1, <2>1
  <2> HIDE DEF R
  <2> QED
    BY <2>2
<1>3. ErrorsLeft \in Nat /\ MaxErrors \in Nat /\ ErrorsLeft <= MaxErrors
  BY <1>0 DEF ErrorsLeft, MaxErrors
<1>4. Slack \in Nat
  BY <1>1, <1>3 DEF Slack
<1>5. LeaseOutlastsErrors => Slack + 2 * R <= LockLease
  <2> SUFFICES ASSUME LeaseOutlastsErrors
               PROVE  Slack + 2 * R <= LockLease
    OBVIOUS
  <2>1. ErrorsLeft + 2 \in Nat /\ MaxErrors + 2 \in Nat
        /\ ErrorsLeft + 2 <= MaxErrors + 2
    BY <1>3
  <2>2. (ErrorsLeft + 2) * R <= (MaxErrors + 2) * R
    BY <1>2, <2>1
  <2>3. (ErrorsLeft + 2) * R = Slack + 2 * R /\ 2 * R \in Nat
    BY <1>1, <1>3 DEF Slack
  <2>4. (MaxErrors + 2) * R <= LockLease
    BY DEF LeaseOutlastsErrors
  <2>5. (MaxErrors + 2) * R \in Nat
    BY <1>1, <2>1
  <2> HIDE DEF R
  <2> QED
    BY <1>0, <1>4, <2>2, <2>3, <2>4, <2>5
<1>6. NoLockFault => lockFaults' \in 0 .. MaxLockFaults /\ Slack' = Slack
  BY DEF NoLockFault, Slack, ErrorsLeft
<1>7. ASSUME NEW kind, LockFault(kind)
      PROVE  lockFaults' \in 0 .. MaxLockFaults /\ Slack' <= Slack
  <2>1. lockFaults' = lockFaults - 1 /\ lockFaults' \in 0 .. MaxLockFaults
    BY <1>0, <1>7 DEF LockFault
  <2>2. ErrorsLeft' \in Nat /\ ErrorsLeft' <= ErrorsLeft
    BY <1>0, <2>1 DEF ErrorsLeft
  <2>3. Slack' = ErrorsLeft' * R
    BY DEF Slack
  <2> QED
    BY <1>2, <1>3, <2>1, <2>2, <2>3 DEF Slack
<1>8. ASSUME LockFault("error")
      PROVE  Slack' + R = Slack
  <2>1. ErrorsLeft = ErrorsLeft' + 1 /\ ErrorsLeft' \in Nat
    BY <1>0, <1>8 DEF LockFault, ErrorsLeft
  <2>2. (ErrorsLeft' + 1) * R = ErrorsLeft' * R + 1 * R
    BY <1>1, <2>1
  <2>3. 1 * R = R /\ Slack' = ErrorsLeft' * R
    BY <1>0 DEF Slack
  <2> QED
    BY <2>1, <2>2, <2>3 DEF Slack
<1>9. ASSUME lockFaults' \in 0 .. MaxLockFaults
      PROVE  Slack' \in Nat
  <2>1. ErrorsLeft' \in Nat /\ Slack' = ErrorsLeft' * R
    BY <1>0, <1>9 DEF ErrorsLeft, Slack
  <2> QED
    BY <1>1, <2>1
<1> QED
  BY <1>4, <1>5, <1>6, <1>7, <1>8, <1>9

\* Goto moves one operation, which stops renewing.
LEMMA GotoMoves ==
    ASSUME op \in [Operations -> Lock], NEW o \in Operations,
           NEW pc \in LockSteps, OpGoto(o, pc)
    PROVE  /\ op' \in [Operations -> Lock]
           /\ \A p \in Operations \ {o} : op'[p] = op[p]
           /\ op'[o].pc = pc /\ op'[o].renewAt = 0
           /\ op'[o].now = op[o].now /\ op'[o].id = op[o].id
BY DEF OpGoto, Lock

\* Locked makes one operation run, with the lock it names.
LEMMA LockedRuns ==
    ASSUME op \in [Operations -> Lock], clock \in Nat, NEW o \in Operations,
           NEW id \in Nat, Locked(o, id)
    PROVE  /\ op' \in [Operations -> Lock]
           /\ \A p \in Operations \ {o} : op'[p] = op[p]
           /\ op'[o].pc = "running" /\ op'[o].id = id
           /\ op'[o].renewAt = clock + RenewInterval
<1>1. clock + RenewInterval \in Nat
  BY LockAssumption
<1> QED
  BY <1>1 DEF Locked, Lock, LockSteps, Holding

\* The values of the variables and the constants.
LEMMA LockFields ==
    ASSUME LockInv, NEW o \in Operations
    PROVE  /\ op \in [Operations -> Lock] /\ op[o] \in Lock
           /\ op[o].now \in Nat /\ op[o].id \in Nat /\ op[o].renewAt \in Nat
           /\ row \in Rows(Operations, Operations)
           /\ row.lockedUntil \in Nat /\ row.expiresAt \in Nat
           /\ nextId \in Nat \ {0} /\ clock \in Nat \ {0}
           /\ overran \in BOOLEAN /\ lockFaults \in 0 .. MaxLockFaults
           /\ RenewInterval \in Nat \ {0} /\ LockLease \in Nat \ {0}
           /\ LockTTL \in Nat /\ LockLease < LockTTL /\ None \notin Operations
BY LockAssumption DEF LockInv, LockTyped, Lock, Rows

\* A statement that leaves the row to who made it changes nothing for those who
\* have the row besides o: none of them made it, and unless an operation outran
\* its lease there are none.
Rewrites(o) ==
    /\ row'.id = row.id /\ row'.fingerprint = row.fingerprint
    /\ clock < row'.expiresAt
    /\ \A p \in Operations \ {o} :
          op[p].pc = "running" => row.fingerprint # p
    /\ ~overran => \A p \in Operations \ {o} : op[p].pc \notin Holding

\* A statement that makes the row, when nobody has one.
Makes(o) ==
    /\ row'.fingerprint = o
    /\ \A p \in Operations : op[p].pc \notin Holding

\* What a step of o leaves to the others.
LEMMA InvOthers ==
    ASSUME LockInv, NEW o \in Operations, clock' = clock, overran' = overran,
           Slack' <= Slack, Slack \in Nat, Slack' \in Nat,
           \A p \in Operations \ {o} : op'[p] = op[p],
           row' = row \/ Rewrites(o) \/ Makes(o)
    PROVE  \A p \in Operations \ {o} :
              /\ op[p].pc \in Acquiring =>
                    op[p].now <= clock /\ clock < op[p].now + RenewInterval
              /\ op[p].pc \in Acquiring \cup {"idle"} => row'.fingerprint # p
              /\ op[p].pc \in Holding =>
                    op[p].id = row'.id /\ clock < row'.expiresAt
              /\ op[p].renewAt # 0 =>
                    op[p].pc = "running" /\ clock <= op[p].renewAt
              /\ op[p].pc = "running" /\ row'.fingerprint = p =>
                    /\ op[p].renewAt # 0 /\ row'.status = "processing"
                    /\ op[p].renewAt + Slack' < row'.lockedUntil
                    /\ \A q \in Operations \ {p} : op[q].pc \notin Holding
              /\ ~overran /\ op[p].pc \in Holding =>
                    /\ row'.status = "processing" /\ clock < row'.lockedUntil
                    /\ \A q \in Operations \ {p} : op[q].pc \notin Holding
<1> USE DEF LockInv
<1> SUFFICES ASSUME NEW p \in Operations \ {o}
             PROVE  /\ op[p].pc \in Acquiring =>
                          op[p].now <= clock /\ clock < op[p].now + RenewInterval
                    /\ op[p].pc \in Acquiring \cup {"idle"} => row'.fingerprint # p
                    /\ op[p].pc \in Holding =>
                          op[p].id = row'.id /\ clock < row'.expiresAt
                    /\ op[p].renewAt # 0 =>
                          op[p].pc = "running" /\ clock <= op[p].renewAt
                    /\ op[p].pc = "running" /\ row'.fingerprint = p =>
                          /\ op[p].renewAt # 0 /\ row'.status = "processing"
                          /\ op[p].renewAt + Slack' < row'.lockedUntil
                          /\ \A q \in Operations \ {p} : op[q].pc \notin Holding
                    /\ ~overran /\ op[p].pc \in Holding =>
                          /\ row'.status = "processing" /\ clock < row'.lockedUntil
                          /\ \A q \in Operations \ {p} : op[q].pc \notin Holding
  OBVIOUS
<1>1. /\ op[p].pc \in Acquiring =>
            op[p].now <= clock /\ clock < op[p].now + RenewInterval
      /\ op[p].renewAt # 0 => op[p].pc = "running" /\ clock <= op[p].renewAt
  BY DEF AcquireInv, HolderInv
<1>2. CASE row' = row
  <2>1. ASSUME op[p].pc = "running", row.fingerprint = p
        PROVE  /\ op[p].renewAt # 0 /\ row.status = "processing"
               /\ op[p].renewAt + Slack' < row.lockedUntil
               /\ \A q \in Operations \ {p} : op[q].pc \notin Holding
    <3>1. /\ op[p].renewAt # 0 /\ row.status = "processing"
          /\ op[p].renewAt + Slack < row.lockedUntil
          /\ \A q \in Operations \ {p} : op[q].pc \notin Holding
      BY <2>1 DEF InserterInv
    <3>2. op[p].renewAt \in Nat /\ row.lockedUntil \in Nat
      BY LockFields
    <3> QED
      BY <3>1, <3>2
  <2>2. /\ op[p].pc \in Acquiring \cup {"idle"} => row.fingerprint # p
        /\ op[p].pc \in Holding => op[p].id = row.id /\ clock < row.expiresAt
    BY DEF AcquireInv, HolderInv
  <2>3. ~overran /\ op[p].pc \in Holding =>
            /\ row.status = "processing" /\ clock < row.lockedUntil
            /\ \A q \in Operations \ {p} : op[q].pc \notin Holding
    BY DEF LeaseInv
  <2> QED
    BY <1>1, <1>2, <2>1, <2>2, <2>3
<1>3. CASE Rewrites(o)
  <2>1. /\ op[p].pc \in Acquiring \cup {"idle"} => row.fingerprint # p
        /\ op[p].pc \in Holding => op[p].id = row.id
    BY DEF AcquireInv, HolderInv
  <2> QED
    BY <1>1, <1>3, <2>1 DEF Rewrites
<1>4. CASE Makes(o)
  BY <1>1, <1>4 DEF Makes, Holding
<1> QED
  BY <1>2, <1>3, <1>4

\* A step after which o has no lock.
LEMMA InvLeaves ==
    ASSUME LockInv, NEW o \in Operations, LockTyped', clock' = clock,
           overran' = overran, Slack' <= Slack, Slack \in Nat, Slack' \in Nat,
           \A p \in Operations \ {o} : op'[p] = op[p],
           op'[o].pc \notin Holding \cup {"idle"}, op'[o].renewAt = 0,
           op'[o].pc \in Acquiring =>
               /\ op'[o].now <= clock /\ clock < op'[o].now + RenewInterval
               /\ row'.fingerprint # o,
           row' = row \/ Rewrites(o) \/ Makes(o)
    PROVE  LockInv'
<1>1. AcquireInv'
  BY InvOthers DEF AcquireInv
<1>2. HolderInv'
  BY InvOthers DEF HolderInv
<1>3. InserterInv'
  BY InvOthers DEF InserterInv, Holding
<1>4. LeaseInv'
  BY InvOthers DEF LeaseInv
<1> QED
  BY <1>1, <1>2, <1>3, <1>4 DEF LockInv

\* A step that gives the lock to o, with a fresh lease: o made the row, or found
\* its lease lapsed.
LEMMA InvGains ==
    ASSUME LockInv, LeaseOutlastsErrors, NEW o \in Operations,
           op[o].pc \in Acquiring, NEW id \in Nat, Locked(o, id), LockTyped',
           clock' = clock, overran' = overran, NoLockFault,
           row'.id = id, row'.status = "processing",
           row'.lockedUntil = op[o].now + LockLease,
           row'.expiresAt = op[o].now + LockTTL,
           Rewrites(o) \/ Makes(o)
    PROVE  LockInv'
<1>1. /\ \A p \in Operations \ {o} : op'[p] = op[p]
      /\ op'[o].pc = "running" /\ op'[o].id = id
      /\ op'[o].renewAt = clock + RenewInterval
  BY LockedRuns, LockFields
<1>2. /\ Slack' = Slack /\ Slack \in Nat
      /\ Slack + 2 * RenewInterval <= LockLease
  BY SlackSpent, LockFields
<1>3. /\ RenewInterval \in Nat \ {0} /\ LockLease \in Nat /\ LockTTL \in Nat
      /\ LockLease < LockTTL /\ op[o].now \in Nat /\ clock \in Nat \ {0}
  BY LockFields
<1>4. /\ clock < op[o].now + RenewInterval /\ row.fingerprint # o
  BY DEF LockInv, AcquireInv
<1>5. /\ clock < op[o].now + LockLease /\ clock < op[o].now + LockTTL
      /\ clock + RenewInterval + Slack < op[o].now + LockLease
      /\ clock + RenewInterval # 0 /\ clock <= clock + RenewInterval
  <2>1. \A c, r, s, l, n \in Nat :
            s + 2 * r <= l /\ c < n + r => c + r + s < n + l /\ c < n + l
    OBVIOUS
  <2> QED
    BY <1>2, <1>3, <1>4, <2>1
<1>6. row'.fingerprint = o => \A p \in Operations : op[p].pc \notin Holding
  BY <1>4 DEF Rewrites, Makes
<1>7. ~overran => \A p \in Operations \ {o} : op[p].pc \notin Holding
  BY DEF Rewrites, Makes
<1>8. \A p \in Operations \ {o} :
         /\ op[p].pc \in Acquiring =>
               op[p].now <= clock /\ clock < op[p].now + RenewInterval
         /\ op[p].pc \in Acquiring \cup {"idle"} => row'.fingerprint # p
         /\ op[p].pc \in Holding => op[p].id = row'.id /\ clock < row'.expiresAt
         /\ op[p].renewAt # 0 => op[p].pc = "running" /\ clock <= op[p].renewAt
  BY <1>1, <1>2, InvOthers
<1>9. \A p \in Operations \ {o} :
         ~(op[p].pc = "running" /\ row'.fingerprint = p)
  BY DEF Rewrites, Makes, Holding
<1>10. AcquireInv'
  BY <1>1, <1>8 DEF AcquireInv, Acquiring
<1>11. HolderInv'
  BY <1>1, <1>5, <1>8 DEF HolderInv
<1>12. InserterInv'
  BY <1>1, <1>2, <1>5, <1>6, <1>9 DEF InserterInv
<1>13. LeaseInv'
  BY <1>1, <1>5, <1>7 DEF LeaseInv
<1> QED
  BY <1>10, <1>11, <1>12, <1>13 DEF LockInv

-----------------------------------------------------------------------------
(***************************************************************************)
(* The steps.                                                              *)
(***************************************************************************)

\* The row that an Acquire makes, when nobody has one.
LEMMA LockMade ==
    ASSUME LockInv, NEW o \in Operations, InsertsLock(o)
    PROVE  /\ row' \in Rows(Operations, Operations) /\ nextId' \in Nat \ {0}
           /\ row'.id = nextId /\ row'.status = "processing"
           /\ row'.lockedUntil = op[o].now + LockLease
           /\ row'.expiresAt = op[o].now + LockTTL
           /\ Makes(o)
<1>1. /\ op[o].now + LockLease \in Nat /\ op[o].now + LockTTL \in Nat
      /\ nextId \in Nat \ {0} /\ clock \in Nat \ {0}
  BY LockFields
<1>2. /\ row.expiresAt = 0 /\ nextId' = nextId + 1
      /\ row' = [id |-> nextId, fingerprint |-> o, status |-> "processing",
                 lockedUntil |-> op[o].now + LockLease,
                 expiresAt |-> op[o].now + LockTTL, body |-> None]
  BY DEF InsertsLock, CreateProcessing, NoRow
<1>3. \A p \in Operations : op[p].pc \notin Holding
  BY <1>1, <1>2 DEF LockInv, HolderInv
<1> QED
  BY <1>1, <1>2, <1>3 DEF Makes, Rows, Statuses

\* The row that an Acquire takes over; whoever had it has outrun its lease.
LEMMA LockTaken ==
    ASSUME LockInv, LeaseOutlastsErrors, NEW o \in Operations,
           op[o].pc \in Acquiring, TakesLockOver(o)
    PROVE  /\ row' \in Rows(Operations, Operations) /\ nextId' \in Nat \ {0}
           /\ row'.id = op[o].id /\ row'.status = "processing"
           /\ row'.lockedUntil = op[o].now + LockLease
           /\ row'.expiresAt = op[o].now + LockTTL
           /\ Rewrites(o)
<1>1. /\ op[o].now \in Nat /\ clock \in Nat /\ row.lockedUntil \in Nat
      /\ op[o].now + LockLease \in Nat /\ op[o].now + LockTTL \in Nat
      /\ row \in Rows(Operations, Operations) /\ nextId \in Nat \ {0}
      /\ RenewInterval \in Nat /\ LockLease \in Nat /\ LockLease < LockTTL
  BY LockFields
<1>2. /\ row.id = op[o].id /\ row.lockedUntil <= op[o].now /\ nextId' = nextId
      /\ row' = [row EXCEPT !.status = "processing",
                            !.lockedUntil = op[o].now + LockLease,
                            !.expiresAt = op[o].now + LockTTL]
  BY DEF TakesLockOver, TryReclaim, Reclaimable
<1>3. /\ row' \in Rows(Operations, Operations)
      /\ row'.id = row.id /\ row'.fingerprint = row.fingerprint
      /\ row'.status = "processing"
      /\ row'.lockedUntil = op[o].now + LockLease
      /\ row'.expiresAt = op[o].now + LockTTL
  BY <1>1, <1>2 DEF Rows, Statuses
<1>4. op[o].now <= clock /\ clock < op[o].now + RenewInterval
  BY DEF LockInv, AcquireInv
<1>5. row.lockedUntil <= clock
  BY <1>1, <1>2, <1>4
<1>6. ASSUME NEW p \in Operations, op[p].pc = "running", row.fingerprint = p
      PROVE  FALSE
  <2>1. /\ op[p].renewAt # 0 /\ op[p].renewAt + Slack < row.lockedUntil
        /\ clock <= op[p].renewAt
    BY <1>6 DEF LockInv, InserterInv, HolderInv
  <2>2. op[p].renewAt \in Nat /\ Slack \in Nat
    BY LockFields, SlackSpent
  <2> QED
    BY <1>1, <1>5, <2>1, <2>2
<1>7. ~overran => \A p \in Operations : op[p].pc \notin Holding
  BY <1>1, <1>5 DEF LockInv, LeaseInv
<1>8. clock < op[o].now + LockTTL
  <2>1. Slack \in Nat /\ Slack + 2 * RenewInterval <= LockLease
    BY LockFields, SlackSpent
  <2>2. \A c, n, r, s, l, t \in Nat :
            s + 2 * r <= l /\ l < t /\ c < n + r => c < n + t
    OBVIOUS
  <2> QED
    BY <1>1, <1>4, <2>1, <2>2, LockFields
<1>9. Rewrites(o)
  BY <1>3, <1>6, <1>7, <1>8 DEF Rewrites
<1> QED
  BY <1>1, <1>2, <1>3, <1>9

\* Acquire.
LEMMA InvAcquire ==
    ASSUME LockInv, LeaseOutlastsErrors, NEW o \in Operations,
           Start(o) \/ AcquireCreate(o) \/ AcquireGet(o) \/ AcquireReclaim(o)
    PROVE  LockInv'
<1>t. /\ op \in [Operations -> Lock] /\ op[o] \in Lock
      /\ row \in Rows(Operations, Operations) /\ nextId \in Nat \ {0}
      /\ clock \in Nat \ {0} /\ lockFaults \in 0 .. MaxLockFaults
      /\ overran \in BOOLEAN /\ RenewInterval \in Nat \ {0}
      /\ op[o].id \in Nat
  BY LockFields
<1>s. /\ Slack \in Nat
      /\ lockFaults' \in 0 .. MaxLockFaults => Slack' \in Nat
      /\ NoLockFault => lockFaults' \in 0 .. MaxLockFaults /\ Slack' = Slack
      /\ \A kind : LockFault(kind) =>
            lockFaults' \in 0 .. MaxLockFaults /\ Slack' <= Slack
  BY <1>t, SlackSpent
<1>0. overran' = overran /\ clock' = clock
  BY DEF Start, AcquireCreate, AcquireGet, AcquireReclaim
<1>r. op[o].pc \in Acquiring \cup {"idle"} =>
         op[o].renewAt = 0 /\ row.fingerprint # o
  BY DEF LockInv, HolderInv, AcquireInv, Acquiring
\* What is left to show when o has no lock afterwards.
<1>g. ASSUME NEW pc \in {"get", "done"}, OpGoto(o, pc), op[o].pc \in Acquiring,
             NoLockFault \/ \E kind : LockFault(kind),
             row' \in Rows(Operations, Operations), nextId' \in Nat \ {0},
             row' = row \/ (pc = "done" /\ (Rewrites(o) \/ Makes(o)))
      PROVE  LockInv'
  <2>1. pc \in LockSteps /\ pc \notin Holding \cup {"idle"}
        /\ (pc \in Acquiring => pc = "get")
    BY DEF LockSteps, Holding, Acquiring
  <2>2. /\ op' \in [Operations -> Lock]
        /\ \A p \in Operations \ {o} : op'[p] = op[p]
        /\ op'[o].pc = pc /\ op'[o].renewAt = 0
        /\ op'[o].now = op[o].now /\ op'[o].id = op[o].id
    BY <1>t, <1>g, <2>1, GotoMoves
  <2>3. LockTyped'
    BY <1>t, <1>s, <1>0, <1>g, <2>2 DEF LockTyped
  <2>4. Slack' \in Nat /\ Slack' <= Slack
    BY <1>s, <1>g
  <2>5. op[o].now <= clock /\ clock < op[o].now + RenewInterval
    BY <1>g DEF LockInv, AcquireInv
  <2>6. pc \in Acquiring => row'.fingerprint # o
    BY <1>r, <1>g, <2>1
  <2> QED
    BY <1>s, <1>0, <1>g, <2>1, <2>2, <2>3, <2>4, <2>5, <2>6, InvLeaves
<1>1. CASE Start(o)
  <2>1. /\ op[o].pc = "idle" /\ UNCHANGED <<row, nextId, lockFaults>>
        /\ op' = [op EXCEPT ![o].pc = "create", ![o].now = clock]
    BY <1>1 DEF Start, OpAt
  <2>2. /\ op' \in [Operations -> Lock]
        /\ \A p \in Operations \ {o} : op'[p] = op[p]
        /\ op'[o].pc = "create" /\ op'[o].now = clock
        /\ op'[o].renewAt = op[o].renewAt
    BY <1>t, <2>1 DEF Lock, LockSteps, Acquiring
  <2>3. LockTyped' /\ Slack' = Slack
    BY <1>t, <1>0, <2>1, <2>2 DEF LockTyped, Slack, ErrorsLeft
  <2>4. op[o].renewAt = 0 /\ row.fingerprint # o
    BY <1>r, <2>1
  <2>5. clock <= clock /\ clock < clock + RenewInterval
    BY <1>t
  <2>6. "create" \notin Holding \cup {"idle"} /\ row' = row
    BY <2>1 DEF Holding
  <2>7. Slack' <= Slack /\ Slack' \in Nat
    BY <1>s, <2>3
  <2> QED
    BY <1>s, <1>0, <2>2, <2>3, <2>4, <2>5, <2>6, <2>7, InvLeaves
<1>2. CASE AcquireCreate(o)
  <2>1. op[o].pc \in Acquiring
    BY <1>2 DEF AcquireCreate, OpAt, Acquiring
  <2>2. CASE InsertsLock(o) /\ Locked(o, nextId) /\ NoLockFault
    <3>1. /\ row' \in Rows(Operations, Operations) /\ nextId' \in Nat \ {0}
          /\ row'.id = nextId /\ row'.status = "processing"
          /\ row'.lockedUntil = op[o].now + LockLease
          /\ row'.expiresAt = op[o].now + LockTTL
          /\ Makes(o)
      BY <2>2, LockMade
    <3>2. op' \in [Operations -> Lock]
      BY <1>t, <2>2, LockedRuns
    <3>3. LockTyped'
      BY <1>t, <1>s, <1>0, <2>2, <3>1, <3>2 DEF LockTyped
    <3> QED
      BY <1>t, <1>0, <2>1, <2>2, <3>1, <3>3, InvGains
  <2>3. CASE OpGoto(o, "get") /\ NoLockFault /\ SameRow
    BY <1>t, <1>g, <2>1, <2>3 DEF SameRow
  <2>4. CASE /\ InsertsLock(o) \/ SameRow
             /\ OpGoto(o, "done") /\ LockFault("error")
    <3>1. /\ row' \in Rows(Operations, Operations) /\ nextId' \in Nat \ {0}
          /\ row' = row \/ Makes(o)
      BY <1>t, <2>4, LockMade DEF SameRow
    <3> QED
      BY <1>g, <2>1, <2>4, <3>1
  <2> QED
    BY <1>2, <2>2, <2>3, <2>4 DEF AcquireCreate
<1>3. CASE AcquireGet(o)
  <2>1. op[o].pc \in Acquiring /\ UNCHANGED <<row, nextId>>
    BY <1>3 DEF AcquireGet, OpAt, Acquiring, SameRow
  <2>2. CASE OpGoto(o, "done") /\ (NoLockFault \/ LockFault("error"))
    BY <1>t, <1>g, <2>1, <2>2
  <2>3. CASE /\ op' = [op EXCEPT ![o].pc = "reclaim", ![o].id = row.id,
                                 ![o].from = row.status]
             /\ NoLockFault
    <3>1. row.id \in Nat /\ row.status \in Statuses
      BY <1>t DEF Rows
    <3>2. /\ op' \in [Operations -> Lock]
          /\ \A p \in Operations \ {o} : op'[p] = op[p]
          /\ op'[o].pc = "reclaim" /\ op'[o].now = op[o].now
          /\ op'[o].renewAt = op[o].renewAt
      BY <1>t, <2>3, <3>1 DEF Lock, LockSteps, Acquiring
    <3>3. LockTyped'
      BY <1>t, <1>s, <1>0, <2>1, <2>3, <3>2 DEF LockTyped
    <3>4. Slack' <= Slack /\ Slack' \in Nat
      BY <1>s, <2>3
    <3>5. op[o].now <= clock /\ clock < op[o].now + RenewInterval
      BY <2>1 DEF LockInv, AcquireInv
    <3>6. "reclaim" \notin Holding \cup {"idle"}
      BY DEF Holding
    <3> QED
      BY <1>s, <1>0, <1>r, <2>1, <3>2, <3>3, <3>4, <3>5, <3>6, InvLeaves
  <2> QED
    BY <1>3, <2>2, <2>3 DEF AcquireGet
<1>4. CASE AcquireReclaim(o)
  <2>1. op[o].pc \in Acquiring
    BY <1>4 DEF AcquireReclaim, OpAt, Acquiring
  <2>2. CASE TakesLockOver(o) /\ Locked(o, op[o].id) /\ NoLockFault
    <3>1. /\ row' \in Rows(Operations, Operations) /\ nextId' \in Nat \ {0}
          /\ row'.id = op[o].id /\ row'.status = "processing"
          /\ row'.lockedUntil = op[o].now + LockLease
          /\ row'.expiresAt = op[o].now + LockTTL
          /\ Rewrites(o)
      BY <2>1, <2>2, LockTaken
    <3>2. op' \in [Operations -> Lock]
      BY <1>t, <2>2, LockedRuns
    <3>3. LockTyped'
      BY <1>t, <1>s, <1>0, <2>2, <3>1, <3>2 DEF LockTyped
    <3> QED
      BY <1>t, <1>0, <2>1, <2>2, <3>1, <3>3, InvGains
  <2>3. CASE OpGoto(o, "done") /\ NoLockFault /\ SameRow
    BY <1>t, <1>g, <2>1, <2>3 DEF SameRow
  <2>4. CASE /\ TakesLockOver(o) \/ SameRow
             /\ OpGoto(o, "done") /\ LockFault("error")
    <3>1. /\ row' \in Rows(Operations, Operations) /\ nextId' \in Nat \ {0}
          /\ row' = row \/ Rewrites(o)
      BY <1>t, <2>1, <2>4, LockTaken DEF SameRow
    <3> QED
      BY <1>g, <2>1, <2>4, <3>1
  <2> QED
    BY <1>4, <2>2, <2>3, <2>4 DEF AcquireReclaim
<1> QED
  BY <1>1, <1>2, <1>3, <1>4

\* The renewal goroutine keeps the lease of the operation that made the row ahead
\* of its ticker, and no other.
LEMMA LockInvRenew ==
    ASSUME LockInv, LeaseOutlastsErrors, NEW o \in Operations, RenewLoop(o)
    PROVE  LockInv'
<1>t. /\ op \in [Operations -> Lock] /\ op[o] \in Lock
      /\ row \in Rows(Operations, Operations) /\ nextId \in Nat \ {0}
      /\ row.lockedUntil \in Nat /\ row.expiresAt \in Nat
      /\ lockFaults \in 0 .. MaxLockFaults /\ clock \in Nat \ {0}
      /\ overran \in BOOLEAN /\ RenewInterval \in Nat \ {0}
      /\ LockLease \in Nat /\ LockTTL \in Nat /\ LockLease < LockTTL
  BY LockFields
<1>s. /\ Slack \in Nat /\ Slack + 2 * RenewInterval <= LockLease
      /\ lockFaults' \in 0 .. MaxLockFaults => Slack' \in Nat
      /\ NoLockFault => lockFaults' \in 0 .. MaxLockFaults /\ Slack' = Slack
      /\ LockFault("error") =>
            /\ lockFaults' \in 0 .. MaxLockFaults /\ Slack' <= Slack
            /\ Slack' + RenewInterval = Slack
  BY <1>t, SlackSpent
<1>1. /\ op[o].renewAt = clock /\ op[o].renewAt # 0
      /\ UNCHANGED <<nextId, clock, overran>>
  BY <1>t DEF RenewLoop
<1>2. /\ op[o].pc = "running" /\ op[o].pc \in Holding
      /\ op[o].id = row.id /\ clock < row.expiresAt
  BY <1>1 DEF LockInv, HolderInv, Holding
<1>3. row.fingerprint = o =>
         /\ Extendable(op[o].id, o) /\ clock + Slack < row.lockedUntil
         /\ \A p \in Operations \ {o} : op[p].pc \notin Holding
  BY <1>1, <1>2 DEF LockInv, InserterInv, Extendable
\* What is left to show when the ticker was served: the lease is long enough if
\* o made the row, and else it is the one there was.
<1>g. ASSUME NEW at \in Nat, op' = [op EXCEPT ![o].renewAt = at],
             NoLockFault \/ LockFault("error"),
             at # 0 => clock <= at,
             row' = row \/ Rewrites(o),
             row' \in Rows(Operations, Operations),
             row'.id = row.id, row'.fingerprint = row.fingerprint,
             row'.status = row.status, clock < row'.expiresAt,
             row' = row \/ clock < row'.lockedUntil,
             row.fingerprint = o => at # 0 /\ at + Slack' < row'.lockedUntil
      PROVE  LockInv'
  <2>1. /\ op' \in [Operations -> Lock]
        /\ \A p \in Operations \ {o} : op'[p] = op[p]
        /\ op'[o].pc = op[o].pc /\ op'[o].renewAt = at
        /\ op'[o].id = op[o].id /\ op'[o].now = op[o].now
    BY <1>t, <1>g DEF Lock
  <2>2. LockTyped' /\ Slack' \in Nat /\ Slack' <= Slack
    BY <1>t, <1>s, <1>1, <1>g, <2>1 DEF LockTyped
  <2>3. \A p \in Operations \ {o} :
           /\ op[p].pc \in Acquiring =>
                 op[p].now <= clock /\ clock < op[p].now + RenewInterval
           /\ op[p].pc \in Acquiring \cup {"idle"} => row'.fingerprint # p
           /\ op[p].pc \in Holding =>
                 op[p].id = row'.id /\ clock < row'.expiresAt
           /\ op[p].renewAt # 0 =>
                 op[p].pc = "running" /\ clock <= op[p].renewAt
           /\ op[p].pc = "running" /\ row'.fingerprint = p =>
                 /\ op[p].renewAt # 0 /\ row'.status = "processing"
                 /\ op[p].renewAt + Slack' < row'.lockedUntil
                 /\ \A q \in Operations \ {p} : op[q].pc \notin Holding
           /\ ~overran /\ op[p].pc \in Holding =>
                 /\ row'.status = "processing" /\ clock < row'.lockedUntil
                 /\ \A q \in Operations \ {p} : op[q].pc \notin Holding
    BY <1>s, <1>1, <1>g, <2>1, <2>2, InvOthers
  <2>4. AcquireInv'
    BY <1>1, <1>2, <2>1, <2>3 DEF AcquireInv, Acquiring
  <2>5. HolderInv'
    BY <1>1, <1>2, <1>g, <2>1, <2>3 DEF HolderInv
  <2>6. InserterInv'
    <3>1. row'.fingerprint = o =>
             /\ op'[o].renewAt # 0 /\ row'.status = "processing"
             /\ op'[o].renewAt + Slack' < row'.lockedUntil
             /\ \A q \in Operations \ {o} : op[q].pc \notin Holding
      BY <1>3, <1>g, <2>1 DEF Extendable
    <3> QED
      BY <2>1, <2>3, <3>1 DEF InserterInv
  <2>7. LeaseInv'
    <3>1. ~overran =>
             /\ row'.status = "processing" /\ clock < row'.lockedUntil
             /\ \A q \in Operations \ {o} : op[q].pc \notin Holding
      BY <1>2, <1>g DEF LockInv, LeaseInv
    <3> QED
      BY <1>1, <2>1, <2>3, <3>1 DEF LeaseInv
  <2> QED
    BY <2>2, <2>4, <2>5, <2>6, <2>7 DEF LockInv
<1>4. CASE /\ Extendable(op[o].id, o)
           /\ row' = Extended(clock + LockLease, clock + LockTTL)
           /\ op' = [op EXCEPT ![o].renewAt = clock + RenewInterval]
           /\ NoLockFault \/ LockFault("error")
  <2>1. /\ row' \in Rows(Operations, Operations)
        /\ row'.id = row.id /\ row'.status = row.status
        /\ row'.fingerprint = row.fingerprint
        /\ row'.lockedUntil = clock + LockLease
        /\ row'.expiresAt = clock + LockTTL
    <3>1. clock + LockLease \in Nat /\ clock + LockTTL \in Nat
      BY <1>t
    <3> QED
      BY <1>t, <1>4, <3>1 DEF Extended, Rows
  <2>2. Slack' \in Nat /\ Slack' <= Slack
    BY <1>s, <1>4
  <2>3. /\ clock + RenewInterval \in Nat /\ clock <= clock + RenewInterval
        /\ clock + RenewInterval # 0
    BY <1>t
  <2>4. clock + RenewInterval + Slack' < clock + LockLease
    <3>1. \A k, r, l, s, n \in Nat :
              s + 2 * r <= l /\ n <= s /\ r # 0 => k + r + n < k + l
      OBVIOUS
    <3> QED
      BY <1>t, <1>s, <2>2, <3>1
  <2>5. clock < clock + LockLease /\ clock < clock + LockTTL
    <3>1. \A k, l, u \in Nat : l < u /\ l # 0 => k < k + l /\ k < k + u
      OBVIOUS
    <3> QED
      BY <1>t, <3>1, LockFields
  <2>6. row.fingerprint = o
    BY <1>4 DEF Extendable
  <2>7. Rewrites(o)
    BY <1>3, <2>1, <2>5, <2>6 DEF Rewrites
  <2> QED
    BY <1>4, <1>g, <2>1, <2>3, <2>4, <2>5, <2>7
<1>5. CASE /\ ~Extendable(op[o].id, o) /\ row' = row
           /\ op' = [op EXCEPT ![o].renewAt = 0] /\ NoLockFault
  <2>1. row.fingerprint # o
    BY <1>3, <1>5
  <2> QED
    BY <1>t, <1>2, <1>5, <1>g, <2>1
<1>6. CASE /\ LockFault("error") /\ row' = row
           /\ op' = [op EXCEPT ![o].renewAt = clock + RenewInterval]
  <2>1. Slack' \in Nat /\ Slack' + RenewInterval = Slack
    BY <1>s, <1>6
  <2>2. /\ clock + RenewInterval \in Nat /\ clock <= clock + RenewInterval
        /\ clock + RenewInterval # 0
    BY <1>t
  <2>3. row.fingerprint = o => clock + RenewInterval + Slack' < row.lockedUntil
    <3>1. \A k, r, l, s, n \in Nat :
              n + r = s /\ k + s < l => k + r + n < l
      OBVIOUS
    <3> QED
      BY <1>t, <1>s, <1>3, <2>1, <3>1
  <2> QED
    BY <1>t, <1>2, <1>6, <1>g, <2>2, <2>3
<1> QED
  BY <1>4, <1>5, <1>6 DEF RenewLoop

\* An operation that ends, releases its lock or dies takes no row from who made
\* it, and none that it has not outrun.
LEMMA InvEnds ==
    ASSUME LockInv, NEW o \in Operations,
           Finish(o) \/ Release(o) \/ OperationCrash(o)
    PROVE  LockInv'
<1>t. /\ op \in [Operations -> Lock] /\ op[o] \in Lock
      /\ row \in Rows(Operations, Operations) /\ nextId \in Nat \ {0}
      /\ lockFaults \in 0 .. MaxLockFaults /\ clock \in Nat \ {0}
      /\ overran \in BOOLEAN /\ LockTTL \in Nat \ {0} /\ op[o].id \in Nat
  BY LockFields
<1>s. /\ Slack \in Nat
      /\ lockFaults' \in 0 .. MaxLockFaults => Slack' \in Nat
      /\ NoLockFault => lockFaults' \in 0 .. MaxLockFaults /\ Slack' = Slack
      /\ \A kind : LockFault(kind) =>
            lockFaults' \in 0 .. MaxLockFaults /\ Slack' <= Slack
  BY <1>t, SlackSpent
<1>1. CASE Finish(o)
  <2>1. /\ op[o].pc = "running"
        /\ op' = [op EXCEPT ![o].pc = "release", ![o].now = clock,
                            ![o].renewAt = 0]
        /\ UNCHANGED <<row, nextId, clock, overran, lockFaults>>
    BY <1>1 DEF Finish, OpAt
  <2>2. "release" \in LockSteps /\ {"running", "release"} = Holding
    BY DEF LockSteps, Holding
  <2>3. /\ op' \in [Operations -> Lock]
        /\ \A p \in Operations \ {o} : op'[p] = op[p]
        /\ op'[o].pc = "release" /\ op'[o].renewAt = 0
        /\ op'[o].id = op[o].id
    BY <1>t, <2>1, <2>2 DEF Lock
  <2>4. LockTyped' /\ Slack' = Slack
    BY <1>t, <2>1, <2>3 DEF LockTyped, Slack, ErrorsLeft
  <2>5. AcquireInv'
    BY <2>1, <2>3 DEF LockInv, AcquireInv, Acquiring
  <2>6. HolderInv'
    BY <2>1, <2>2, <2>3 DEF LockInv, HolderInv
  <2>7. InserterInv' /\ LeaseInv'
    BY <2>1, <2>2, <2>3, <2>4 DEF LockInv, InserterInv, LeaseInv
  <2> QED
    BY <2>4, <2>5, <2>6, <2>7 DEF LockInv
<1>g. ASSUME OpGoto(o, "done"), clock' = clock, nextId' = nextId,
             overran' = overran, NoLockFault \/ \E kind : LockFault(kind),
             row' \in Rows(Operations, Operations), row' = row \/ Rewrites(o)
      PROVE  LockInv'
  <2>1. "done" \in LockSteps /\ "done" \notin Holding \cup Acquiring \cup {"idle"}
    BY DEF LockSteps, Holding, Acquiring
  <2>2. /\ op' \in [Operations -> Lock]
        /\ \A p \in Operations \ {o} : op'[p] = op[p]
        /\ op'[o].pc = "done" /\ op'[o].renewAt = 0
    BY <1>t, <1>g, <2>1, GotoMoves
  <2>3. LockTyped'
    BY <1>t, <1>s, <1>g, <2>2 DEF LockTyped
  <2>4. Slack' \in Nat /\ Slack' <= Slack
    BY <1>s, <1>g
  <2> QED
    BY <1>s, <1>g, <2>1, <2>2, <2>3, <2>4, InvLeaves
<1>2. CASE Release(o)
  <2>1. /\ op[o].pc = "release" /\ op[o].pc \in Holding /\ op[o].id = row.id
        /\ clock + LockTTL \in Nat /\ clock \in Nat /\ clock < clock + LockTTL
    BY <1>t, <1>2 DEF Release, OpAt, Holding, LockInv, HolderInv
  <2>2. ASSUME \/ row' = Succeeded(op[o].id, o, clock + LockTTL)
               \/ row' = FailedRetryable(op[o].id, clock, clock + LockTTL)
        PROVE  /\ row' \in Rows(Operations, Operations) /\ row'.id = row.id
               /\ row'.fingerprint = row.fingerprint /\ clock < row'.expiresAt
    <3>1. CASE row' = Succeeded(op[o].id, o, clock + LockTTL)
      <4>1. row' = [row EXCEPT !.status = "succeeded", !.body = o,
                               !.lockedUntil = 0, !.expiresAt = clock + LockTTL]
        BY <2>1, <3>1 DEF Succeeded
      <4> QED
        BY <1>t, <2>1, <4>1 DEF Rows, Statuses
    <3>2. CASE row' = FailedRetryable(op[o].id, clock, clock + LockTTL)
      <4>1. row' = [row EXCEPT !.status = "failed_retryable",
                               !.lockedUntil = clock,
                               !.expiresAt = clock + LockTTL]
        BY <2>1, <3>2 DEF FailedRetryable
      <4> QED
        BY <1>t, <2>1, <4>1 DEF Rows, Statuses
    <3> QED
      BY <2>2, <3>1, <3>2
  <2>3. \A p \in Operations \ {o} : op[p].pc = "running" => row.fingerprint # p
    BY <2>1 DEF LockInv, InserterInv
  <2>4. ~overran => \A p \in Operations \ {o} : op[p].pc \notin Holding
    BY <2>1 DEF LockInv, LeaseInv
  <2>5. row' \in Rows(Operations, Operations) /\ (row' = row \/ Rewrites(o))
    BY <1>t, <1>2, <2>2, <2>3, <2>4 DEF Release, Rewrites
  <2> QED
    BY <1>2, <1>g, <2>5 DEF Release
<1>3. CASE OperationCrash(o)
  BY <1>t, <1>3, <1>g DEF OperationCrash, SameRow
<1> QED
  BY <1>1, <1>2, <1>3

\* Time passes no ticker that is due and no TTL, and a lease that is used only
\* when its operation outruns it.
LEMMA LockInvTick ==
    ASSUME LockInv, LockTick
    PROVE  LockInv'
<1>1. /\ clock' = clock + 1 /\ UNCHANGED <<row, nextId, op, lockFaults>>
      /\ overran' = (overran \/ Overrunning # {})
      /\ clock \in Nat \ {0} /\ Slack' = Slack /\ Slack \in Nat
  BY SlackSpent DEF LockTick, LockInv, LockTyped, Slack, ErrorsLeft
<1>2. LockTyped'
  BY <1>1 DEF LockInv, LockTyped
<1>3. AcquireInv'
  <2> SUFFICES ASSUME NEW o \in Operations, op[o].pc \in Acquiring
               PROVE  /\ op[o].now <= clock + 1
                      /\ clock + 1 < op[o].now + RenewInterval
    BY <1>1 DEF LockInv, AcquireInv
  <2>1. op[o].now \in Nat /\ op[o].now <= clock
    BY LockFields DEF LockInv, AcquireInv
  <2> QED
    BY <1>1, <2>1 DEF LockTick
<1>4. HolderInv'
  <2> SUFFICES ASSUME NEW o \in Operations
               PROVE  /\ op[o].pc \in Holding =>
                            op[o].id = row.id /\ clock + 1 < row.expiresAt
                      /\ op[o].renewAt # 0 =>
                            op[o].pc = "running" /\ clock + 1 <= op[o].renewAt
    BY <1>1 DEF HolderInv
  <2>1. op[o].renewAt \in Nat /\ op[o].renewAt # clock
    BY LockFields DEF LockTick
  <2>2. op[o].pc \in Holding => op[o].id = row.id /\ clock + 1 < row.expiresAt
    BY DEF LockTick, LockInv, HolderInv
  <2> QED
    BY <1>1, <2>1, <2>2 DEF LockInv, HolderInv
<1>5. InserterInv'
  BY <1>1 DEF LockInv, InserterInv
<1>6. LeaseInv'
  <2> SUFFICES ASSUME ~overran, Overrunning = {}, NEW o \in Operations,
                      op[o].pc \in Holding
               PROVE  /\ row.status = "processing" /\ clock + 1 < row.lockedUntil
                      /\ \A p \in Operations \ {o} : op[p].pc \notin Holding
    BY <1>1 DEF LeaseInv
  <2>1. ~(clock + 1 >= row.lockedUntil)
    BY DEF Overrunning
  <2>2. row.lockedUntil \in Nat
    BY LockFields
  <2> QED
    BY <1>1, <2>1, <2>2 DEF LockInv, LeaseInv
<1> QED
  BY <1>2, <1>3, <1>4, <1>5, <1>6 DEF LockInv

\* The clean-up deletes no row that somebody has.
LEMMA LockInvCleanup ==
    ASSUME LockInv, LockCleanup
    PROVE  LockInv'
<1>1. /\ row' = NoRow /\ row.expiresAt <= clock
      /\ UNCHANGED <<nextId, clock, op, overran, lockFaults>>
  BY DEF LockCleanup, DeleteExpired
<1>2. \A o \in Operations : op[o].pc \notin Holding
  <2>1. row.expiresAt \in Nat /\ clock \in Nat
    BY DEF LockInv, LockTyped, Rows
  <2> QED
    BY <1>1, <2>1 DEF LockInv, HolderInv
<1>3. LockTyped'
  BY <1>1 DEF LockInv, LockTyped, Rows, NoRow, Statuses
<1>4. \A o \in Operations : row'.fingerprint # o
  BY <1>1, LockAssumption DEF NoRow
<1>5. AcquireInv' /\ HolderInv' /\ InserterInv' /\ LeaseInv'
  BY <1>1, <1>2, <1>4
  DEF LockInv, AcquireInv, HolderInv, InserterInv, LeaseInv, Holding
<1> QED
  BY <1>3, <1>5 DEF LockInv

\* The invariant holds initially.
LEMMA LockInvInit ==
    ASSUME LockInit
    PROVE  LockInv
<1>1. /\ row = NoRow /\ nextId = 1 /\ clock = 1 /\ overran = FALSE
      /\ lockFaults = MaxLockFaults /\ op = [o \in Operations |-> LockIdle]
  BY DEF LockInit, RecordInit
<1>2. LockIdle \in Lock
  BY DEF LockIdle, Lock, LockSteps, Acquiring, Holding, Statuses
<1>3. LockTyped
  <2>1. NoRow \in Rows(Operations, Operations)
    BY DEF NoRow, Rows, Statuses
  <2>2. MaxLockFaults \in 0 .. MaxLockFaults
    BY LockAssumption
  <2>3. /\ op \in [Operations -> Lock] /\ 1 \in Nat \ {0}
        /\ FALSE \in BOOLEAN
    BY <1>1, <1>2
  <2> QED
    BY <1>1, <2>1, <2>2, <2>3 DEF LockTyped
<1>4. \A o \in Operations :
         op[o].pc = "idle" /\ op[o].renewAt = 0 /\ row.fingerprint # o
  BY <1>1, LockAssumption DEF LockIdle, NoRow
<1>5. AcquireInv /\ HolderInv /\ InserterInv /\ LeaseInv
  BY <1>4
  DEF AcquireInv, HolderInv, InserterInv, LeaseInv, Acquiring, Holding
<1> QED
  BY <1>3, <1>5 DEF LockInv

\* The invariant is inductive.
LEMMA LockInvStep ==
    ASSUME LockInv, LeaseOutlastsErrors, [LockNext]_lockVars
    PROVE  LockInv'
<1>1. CASE UNCHANGED lockVars
  BY <1>1 DEF lockVars, LockInv, LockTyped, AcquireInv, HolderInv, InserterInv,
     LeaseInv, Slack, ErrorsLeft
<1>2. CASE LockTick
  BY <1>2, LockInvTick
<1>3. CASE LockCleanup
  BY <1>3, LockInvCleanup
<1>4. ASSUME NEW o \in Operations,
             \/ Start(o) \/ AcquireCreate(o) \/ AcquireGet(o)
             \/ AcquireReclaim(o) \/ RenewLoop(o) \/ Finish(o)
             \/ Release(o) \/ OperationCrash(o)
      PROVE  LockInv'
  <2>1. CASE Start(o) \/ AcquireCreate(o) \/ AcquireGet(o) \/ AcquireReclaim(o)
    BY <2>1, InvAcquire
  <2>2. CASE RenewLoop(o)
    BY <2>2, LockInvRenew
  <2>3. CASE Finish(o) \/ Release(o) \/ OperationCrash(o)
    BY <2>3, InvEnds
  <2> QED
    BY <1>4, <2>1, <2>2, <2>3
<1> QED
  BY <1>1, <1>2, <1>3, <1>4 DEF LockNext

-----------------------------------------------------------------------------
(***************************************************************************)
(* The theorem.                                                            *)
(***************************************************************************)

\* Two operations run at a time only after one went on when its lease had lapsed,
\* and the one that made the row is never of them, if the lease outlasts the
\* renewals that may fail.  How long an operation takes is left open.
THEOREM OverlapIsLate ==
    LeaseOutlastsErrors => (LockSpec => []OverlapNeedsOverrun)
<1>1. LeaseOutlastsErrors /\ LockInit => LockInv
  BY LockInvInit
<1>2. LeaseOutlastsErrors /\ LockInv /\ [LockNext]_lockVars => LockInv'
  BY LockInvStep
<1>3. LockInv => OverlapNeedsOverrun
  BY DEF LockInv, LeaseInv, InserterInv, Holding, OverlapNeedsOverrun, OpAt,
     Inserted
<1>4. ASSUME LeaseOutlastsErrors
      PROVE  LockSpec => []OverlapNeedsOverrun
  BY <1>1, <1>2, <1>3, <1>4, PTL DEF LockSpec
<1> QED
  BY <1>4

=============================================================================
