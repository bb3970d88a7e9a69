---------------------- MODULE ConcurrencySlots_proofs ----------------------
(***************************************************************************)
(* Proofs about ConcurrencySlots for any requests, any limit and queue,    *)
(* and any number of processes and of faults of any kind.  What            *)
(* CleanupStaleProcessSlots does to the slots of a live process is the     *)
(* reason why the limit is only proved as long as no process cleans up     *)
(* while another one serves a request; one process alone never does.       *)
(***************************************************************************)
EXTENDS ConcurrencySlots, FiniteSetTheorems, TLAPS

-----------------------------------------------------------------------------
(***************************************************************************)
(* The inductive invariant.                                                *)
(***************************************************************************)

\* What is known of a request at its step.
Unqueued == {"idle", "enqueue", "running", "read", "drop", "keep"}
Unheld   == {"idle", "enqueue", "touchWait", "waiting"}

ReqInv(r) ==
    /\ req[r].pc \in Unqueued => ~req[r].queued
    /\ req[r].pc \in {"touchWait", "waiting", "leave"} => req[r].queued
    /\ req[r].pc \in Unheld => ~req[r].holds
    /\ req[r].pc = "touch" => req[r].holds
    /\ proc[Home[r]] # "up" => req[r] = Idle

\* A slot in Redis counts against the limit, whoever left it there.
SlotInv == slots \subseteq Holders /\ Count <= MaxSlots

\* A limit that failed open took a fault.
BudgetInv == \A kind \in Opens : opened[kind] + faults <= MaxFaults

\* Without a fault Redis agrees with the requests.
QuietInv ==
    faults = MaxFaults =>
        /\ slots = Holders /\ lost = 0 /\ wait = Cardinality(Waiters)
        /\ \A i \in Instances : proc[i] = "up"

\* Requests without a slot, and without a place in the queue, are those that
\* failed open.
Outlived == Holders \ slots
OpenInv  ==
    /\ Cardinality(Outlived) <= opened["outlive"]
    /\ Cardinality(Waiters) <= wait + opened["count"]

\* A starting process cleans up only while no other one serves a request.
QuietStarts ==
    \A i \in Instances : proc[i] \in {"slots", "wait"} =>
        \A r \in Requests : Home[r] # i => req[r] = Idle

\* Only one process uses the Redis.
OneProcess == \A i, j \in Instances : i = j

Inv ==
    /\ TypeOK /\ SlotInv /\ BudgetInv /\ QuietInv
    /\ \A r \in Requests : ReqInv(r)

\* What a step keeps.
Kept == Inv' /\ (QuietStarts /\ OpenInv => OpenInv')

-----------------------------------------------------------------------------
(***************************************************************************)
(* Lemmas about the operators of the model.                                *)
(***************************************************************************)

\* Every set of requests has a number of members.
LEMMA Finite ==
    ASSUME NEW S \in SUBSET Requests
    PROVE  IsFiniteSet(S) /\ Cardinality(S) \in Nat
BY SlotsAssumption, FS_Subset, FS_CardinalityType

\* One request more or less.
LEMMA OneMore ==
    ASSUME NEW S \in SUBSET Requests, NEW r \in Requests
    PROVE  /\ Cardinality(S \cup {r}) =
                 IF r \in S THEN Cardinality(S) ELSE Cardinality(S) + 1
           /\ Cardinality(S \ {r}) =
                 IF r \in S THEN Cardinality(S) - 1 ELSE Cardinality(S)
BY Finite, FS_AddElement, FS_RemoveElement

\* A part of a set of requests has no more members.
LEMMA Part ==
    ASSUME NEW S \in SUBSET Requests, NEW T \in SUBSET S
    PROVE  Cardinality(T) <= Cardinality(S)
BY Finite, FS_Subset

\* What a fault costs.
LEMMA Paying ==
    ASSUME TypeOK, BudgetInv, NEW kind, NoFault \/ Fault(kind)
    PROVE  /\ opened' \in [Opens -> 0 .. MaxFaults] /\ faults' \in 0 .. MaxFaults
           /\ BudgetInv'
           /\ \A k \in Opens : /\ opened[k] \in Nat /\ opened'[k] \in Nat
                               /\ opened[k] <= opened'[k]
           /\ NoFault => UNCHANGED <<opened, faults>>
           /\ Fault(kind) =>
                 /\ faults' # MaxFaults
                 /\ kind \in Opens => opened'[kind] = opened[kind] + 1
<1>1. /\ MaxFaults \in Nat /\ faults \in 0 .. MaxFaults
      /\ opened \in [Opens -> 0 .. MaxFaults]
      /\ \A k \in Opens : opened[k] \in Nat /\ opened[k] + faults <= MaxFaults
  BY SlotsAssumption DEF TypeOK, BudgetInv
<1>2. CASE NoFault
  BY <1>1, <1>2 DEF NoFault, BudgetInv, Fault
<1>3. CASE Fault(kind)
  <2>1. faults > 0 /\ faults' = faults - 1
    BY <1>3 DEF Fault
  <2>2. CASE kind \in Opens
    <3>1. opened' = [opened EXCEPT ![kind] = opened[kind] + 1]
      BY <1>3, <2>2 DEF Fault
    <3>2. \A k \in Opens :
             opened'[k] = IF k = kind THEN opened[k] + 1 ELSE opened[k]
      BY <1>1, <2>2, <3>1
    <3>3. \A k \in Opens : opened'[k] \in 0 .. MaxFaults
                           /\ opened'[k] + faults' <= MaxFaults
      BY <1>1, <2>1, <3>2
    <3> QED
      BY <1>1, <2>1, <2>2, <3>1, <3>2, <3>3 DEF BudgetInv, NoFault
  <2>3. CASE kind \notin Opens
    <3>1. opened' = opened
      BY <1>3, <2>3 DEF Fault
    <3> QED
      BY <1>1, <2>1, <2>3, <3>1 DEF BudgetInv, NoFault
  <2> QED
    BY <2>2, <2>3
<1> QED
  BY <1>2, <1>3

\* The types of the variables.
LEMMA Types ==
    ASSUME Inv
    PROVE  /\ slots \in SUBSET Requests /\ lost \in Nat /\ wait \in 0 .. MaxWait
           /\ wait \in Nat /\ MaxWait \in Nat \ {0} /\ MaxSlots \in Nat \ {0}
           /\ MaxFaults \in Nat /\ Home \in [Requests -> Instances]
           /\ Holders \in SUBSET Requests /\ Waiters \in SUBSET Requests
           /\ Outlived \in SUBSET Requests
           /\ Cardinality(slots) \in Nat /\ Cardinality(Holders) \in Nat
           /\ Cardinality(Waiters) \in Nat /\ Cardinality(Outlived) \in Nat
           /\ opened["outlive"] \in Nat /\ opened["count"] \in Nat
<1>1. /\ slots \in SUBSET Requests /\ lost \in Nat /\ wait \in 0 .. MaxWait
      /\ MaxWait \in Nat \ {0} /\ MaxSlots \in Nat \ {0} /\ MaxFaults \in Nat
      /\ Home \in [Requests -> Instances]
  BY SlotsAssumption DEF Inv, TypeOK
<1>2. /\ Holders \in SUBSET Requests /\ Waiters \in SUBSET Requests
      /\ Outlived \in SUBSET Requests
  BY DEF Holders, Waiters, Outlived
<1>3. opened["outlive"] \in 0 .. MaxFaults /\ opened["count"] \in 0 .. MaxFaults
  BY DEF Inv, TypeOK, Opens
<1> QED
  BY <1>1, <1>2, <1>3, Finite

\* The conjuncts of the invariant a step may disturb.
LEMMA Conjuncts ==
    ASSUME Inv, NEW kind, NoFault \/ Fault(kind),
           slots' \in SUBSET Requests, lost' \in Nat, wait' \in 0 .. MaxWait,
           indexed' \in BOOLEAN,
           req' \in [Requests -> [pc : Steps, holds : BOOLEAN, queued : BOOLEAN]],
           job' \in [Instances -> {"idle", "keep", "drop"}],
           proc' \in [Instances -> Phases],
           SlotInv', \A r \in Requests : ReqInv(r)', NoFault => QuietInv',
           QuietStarts /\ OpenInv => OpenInv'
    PROVE  Kept
<1>1. TypeOK /\ BudgetInv
  BY DEF Inv
<1>2. TypeOK' /\ BudgetInv'
  BY <1>1, Paying DEF TypeOK
<1>3. QuietInv'
  BY <1>1, Paying DEF QuietInv
<1> QED
  BY <1>2, <1>3 DEF Inv, Kept

-----------------------------------------------------------------------------
(***************************************************************************)
(* A request.                                                              *)
(***************************************************************************)

\* A request moves: who holds a slot and who waits, afterwards.
LEMMA Moves ==
    ASSUME Inv, NEW r \in Requests, proc[Home[r]] = "up",
           NEW q \in [pc : Steps, holds : BOOLEAN, queued : BOOLEAN],
           req' = [req EXCEPT ![r] = q], UNCHANGED <<job, proc>>,
           q.pc \in Unqueued => ~q.queued,
           q.pc \in {"touchWait", "waiting", "leave"} => q.queued,
           q.pc \in Unheld => ~q.holds,
           q.pc = "touch" => q.holds
    PROVE  /\ req' \in [Requests -> [pc : Steps, holds : BOOLEAN,
                                     queued : BOOLEAN]]
           /\ job' \in [Instances -> {"idle", "keep", "drop"}]
           /\ proc' \in [Instances -> Phases]
           /\ \A k \in Requests : ReqInv(k)'
           /\ Holders' = IF q.holds THEN Holders \cup {r} ELSE Holders \ {r}
           /\ Waiters' = IF q.queued THEN Waiters \cup {r} ELSE Waiters \ {r}
           /\ Cardinality(Waiters)' =
                 IF q.queued
                 THEN IF req[r].queued THEN Cardinality(Waiters)
                                       ELSE Cardinality(Waiters) + 1
                 ELSE IF req[r].queued THEN Cardinality(Waiters) - 1
                                       ELSE Cardinality(Waiters)
<1>1. /\ req \in [Requests -> [pc : Steps, holds : BOOLEAN, queued : BOOLEAN]]
      /\ job \in [Instances -> {"idle", "keep", "drop"}]
      /\ proc \in [Instances -> Phases]
  BY DEF Inv, TypeOK
<1>2. \A k \in Requests : req'[k] = IF k = r THEN q ELSE req[k]
  BY <1>1
<1>3. req' \in [Requests -> [pc : Steps, holds : BOOLEAN, queued : BOOLEAN]]
  BY <1>1
<1>4. \A k \in Requests : ReqInv(k)'
  BY <1>2 DEF Inv, ReqInv
<1>5. Holders' = IF q.holds THEN Holders \cup {r} ELSE Holders \ {r}
  BY <1>2 DEF Holders
<1>6. Waiters' = IF q.queued THEN Waiters \cup {r} ELSE Waiters \ {r}
  BY <1>2 DEF Waiters
<1>7. r \in Waiters <=> req[r].queued
  BY DEF Waiters
<1>8. Cardinality(Waiters)' =
         IF q.queued
         THEN IF req[r].queued THEN Cardinality(Waiters)
                               ELSE Cardinality(Waiters) + 1
         ELSE IF req[r].queued THEN Cardinality(Waiters) - 1
                               ELSE Cardinality(Waiters)
  BY <1>6, <1>7, OneMore, Types
<1> QED
  BY <1>1, <1>3, <1>4, <1>5, <1>6, <1>8

\* A request goes on and stays as it is in the slots and in the queue.
LEMMA GoesOn ==
    ASSUME Inv, NEW r \in Requests, proc[Home[r]] = "up", NEW pc \in Steps,
           Goto(r, pc), NEW kind, NoFault \/ Fault(kind),
           UNCHANGED <<slots, wait, job, proc>>, indexed' \in BOOLEAN,
           lost' \in Nat, lost' # lost => Room /\ lost' = lost + 1 /\ Fault(kind),
           pc \in Unqueued => ~req[r].queued,
           pc \in {"touchWait", "waiting", "leave"} => req[r].queued,
           pc \in Unheld => ~req[r].holds,
           pc = "touch" => req[r].holds
    PROVE  Kept
<1>t. /\ req[r] \in [pc : Steps, holds : BOOLEAN, queued : BOOLEAN]
      /\ req \in [Requests -> [pc : Steps, holds : BOOLEAN, queued : BOOLEAN]]
      /\ TypeOK /\ BudgetInv
  BY DEF Inv, TypeOK
<1> DEFINE q == [req[r] EXCEPT !.pc = pc]
<1>1. /\ q \in [pc : Steps, holds : BOOLEAN, queued : BOOLEAN]
      /\ q.pc = pc /\ q.holds = req[r].holds /\ q.queued = req[r].queued
  BY <1>t
<1>2. req' = [req EXCEPT ![r] = q]
  BY DEF Goto
<1> HIDE DEF q
<1>3. /\ req' \in [Requests -> [pc : Steps, holds : BOOLEAN, queued : BOOLEAN]]
      /\ job' \in [Instances -> {"idle", "keep", "drop"}]
      /\ proc' \in [Instances -> Phases]
      /\ \A k \in Requests : ReqInv(k)'
      /\ Holders' = IF q.holds THEN Holders \cup {r} ELSE Holders \ {r}
      /\ Waiters' = IF q.queued THEN Waiters \cup {r} ELSE Waiters \ {r}
  BY <1>1, <1>2, Moves
<1>4. Holders' = Holders /\ Waiters' = Waiters /\ Outlived' = Outlived
  BY <1>1, <1>3 DEF Holders, Waiters, Outlived
<1>5. SlotInv'
  BY <1>4, Types DEF Inv, SlotInv, Count, Room
<1>6. NoFault => QuietInv'
  <2>1. NoFault /\ Fault(kind) => FALSE
    BY <1>t, SlotsAssumption DEF NoFault, Fault, TypeOK
  <2> QED
    BY <1>4, <2>1 DEF Inv, QuietInv, NoFault
<1>7. QuietStarts /\ OpenInv => OpenInv'
  <2>1. /\ opened'["outlive"] \in Nat /\ opened["outlive"] <= opened'["outlive"]
        /\ opened'["count"] \in Nat /\ opened["count"] <= opened'["count"]
    BY <1>t, Paying DEF Opens
  <2> QED
    BY <1>4, <2>1, Types DEF Inv, OpenInv
<1>8. slots' \in SUBSET Requests /\ wait' \in 0 .. MaxWait
  BY Types
<1> QED
  BY <1>3, <1>5, <1>6, <1>7, <1>8, Conjuncts

\* The slot is granted.
LEMMA InvAcquired ==
    ASSUME Inv, NEW r \in Requests, At(r, "idle") \/ At(r, "waiting"),
           Acquired(r), UNCHANGED <<wait, indexed, job, proc>>
    PROVE  Kept
<1>t. /\ req[r] \in [pc : Steps, holds : BOOLEAN, queued : BOOLEAN]
      /\ req \in [Requests -> [pc : Steps, holds : BOOLEAN, queued : BOOLEAN]]
      /\ TypeOK /\ BudgetInv /\ ReqInv(r) /\ indexed \in BOOLEAN
  BY DEF Inv, TypeOK
<1> DEFINE q == [req[r] EXCEPT !.pc = "touch", !.holds = TRUE]
<1>1. /\ q \in [pc : Steps, holds : BOOLEAN, queued : BOOLEAN]
      /\ q.pc = "touch" /\ q.holds = TRUE /\ q.queued = req[r].queued
  BY <1>t DEF Steps
<1>2. req' = [req EXCEPT ![r] = q]
  BY <1>t DEF Acquired
<1> HIDE DEF q
<1>p. proc[Home[r]] = "up" /\ ~req[r].holds
  BY <1>t DEF At, ReqInv, Unheld
<1>3. /\ req' \in [Requests -> [pc : Steps, holds : BOOLEAN, queued : BOOLEAN]]
      /\ job' \in [Instances -> {"idle", "keep", "drop"}]
      /\ proc' \in [Instances -> Phases]
      /\ \A k \in Requests : ReqInv(k)'
      /\ Holders' = IF q.holds THEN Holders \cup {r} ELSE Holders \ {r}
      /\ Waiters' = IF q.queued THEN Waiters \cup {r} ELSE Waiters \ {r}
  BY <1>1, <1>2, <1>p, Moves DEF Unqueued, Unheld
<1>4. /\ Holders' = Holders \cup {r} /\ Waiters' = Waiters
      /\ slots' = slots \cup {r} /\ lost' = lost /\ Room /\ NoFault
      /\ Outlived' = Outlived
  <2>1. r \notin Holders
    BY <1>p DEF Holders
  <2>2. slots' = slots \cup {r} /\ lost' = lost /\ Room /\ NoFault
    BY DEF Acquired
  <2>3. Holders' = Holders \cup {r} /\ Waiters' = Waiters
    BY <1>1, <1>3 DEF Waiters
  <2> QED
    BY <2>1, <2>2, <2>3 DEF Outlived
<1>5. SlotInv'
  <2>1. Cardinality(slots \cup {r}) <= Cardinality(slots) + 1
        /\ Cardinality(slots \cup {r}) \in Nat
    <3>1. slots \in SUBSET Requests /\ Cardinality(slots) \in Nat
      BY Types
    <3>2. Cardinality(slots \cup {r}) =
             IF r \in slots THEN Cardinality(slots) ELSE Cardinality(slots) + 1
      BY <3>1, OneMore
    <3> QED
      BY <3>1, <3>2
  <2>2. Count' <= MaxSlots
    BY <1>4, <2>1, Types DEF Count, Room
  <2> QED
    BY <1>4, <2>2 DEF Inv, SlotInv
<1>6. QuietInv'
  BY <1>4 DEF Inv, QuietInv, NoFault
<1>7. QuietStarts /\ OpenInv => OpenInv'
  BY <1>4 DEF Inv, OpenInv, NoFault
<1>8. slots' \in SUBSET Requests /\ wait' \in 0 .. MaxWait /\ lost' \in Nat
  BY <1>4, Types
<1> QED
  BY <1>t, <1>3, <1>4, <1>5, <1>6, <1>7, <1>8, Conjuncts

\* A request asks for a slot.
LEMMA InvAcquire ==
    ASSUME Inv, NEW r \in Requests, TryAcquire(r) \/ Poll(r)
    PROVE  Kept
<1>t. /\ req[r] \in [pc : Steps, holds : BOOLEAN, queued : BOOLEAN]
      /\ ReqInv(r) /\ indexed \in BOOLEAN /\ lost \in Nat
  BY DEF Inv, TypeOK
<1>u. /\ UNCHANGED <<wait, indexed, job, proc>>
      /\ At(r, "idle") \/ At(r, "waiting")
      /\ proc[Home[r]] = "up" /\ ~req[r].holds
      /\ req[r].queued <=> At(r, "waiting")
  BY <1>t DEF TryAcquire, Poll, At, ReqInv, Unheld, Unqueued
<1>1. CASE Acquired(r)
  BY <1>u, <1>1, InvAcquired
<1>2. CASE AcquireFailed(r)
  <2>1. PICK pc \in {"leave", "idle"} :
           /\ Goto(r, pc)
           /\ pc = IF req[r].queued THEN "leave" ELSE "idle"
    BY <1>2 DEF AcquireFailed
  <2>2. /\ Fault("lostReply") /\ slots' = slots
        /\ lost' \in Nat /\ (lost' # lost => Room /\ lost' = lost + 1)
    BY <1>t, <1>2 DEF AcquireFailed
  <2>3. pc \in Steps
    BY DEF Steps
  <2> QED
    BY <1>t, <1>u, <2>1, <2>2, <2>3, GoesOn DEF Unqueued, Unheld
<1>3. CASE TryAcquire(r) /\ Goto(r, "enqueue") /\ NoFault
           /\ UNCHANGED <<slots, lost>>
  <2>1. "enqueue" \in Steps /\ ~req[r].queued
    BY <1>t, <1>3 DEF Steps, TryAcquire, At, ReqInv, Unqueued
  <2> QED
    BY <1>t, <1>u, <1>3, <2>1, GoesOn DEF Unqueued, Unheld
<1> QED
  BY <1>1, <1>2, <1>3 DEF TryAcquire, Poll

\* A request touches or refreshes the index, or stops waiting.
LEMMA InvQuietStep ==
    ASSUME Inv, NEW r \in Requests,
           \/ TouchSlot(r) \/ TouchWait(r) \/ GiveUp(r) \/ ReadLoad(r)
           \/ RefreshIndex(r)
    PROVE  Kept
<1>t. /\ req[r] \in [pc : Steps, holds : BOOLEAN, queued : BOOLEAN]
      /\ ReqInv(r) /\ indexed \in BOOLEAN /\ lost \in Nat
  BY DEF Inv, TypeOK
<1>1. /\ UNCHANGED <<slots, wait, job, proc, lost>>
      /\ proc[Home[r]] = "up"
      /\ indexed' \in BOOLEAN
      /\ NoFault \/ Fault("index")
  BY <1>t DEF TouchSlot, TouchWait, GiveUp, ReadLoad, RefreshIndex, At, NoFault
<1>2. PICK pc \in Steps :
         /\ Goto(r, pc)
         /\ pc \in Unqueued => ~req[r].queued
         /\ pc \in {"touchWait", "waiting", "leave"} => req[r].queued
         /\ pc \in Unheld => ~req[r].holds
         /\ pc # "touch"
  <2>1. CASE TouchSlot(r)
    <3>1. req[r].pc = "touch" /\ req[r].holds
      BY <1>t, <2>1 DEF TouchSlot, At, ReqInv
    <3>2. CASE req[r].queued
      <4>1. Goto(r, "leave") /\ "leave" \in Steps
        BY <2>1, <3>2 DEF TouchSlot, Steps
      <4> QED
        BY <3>1, <3>2, <4>1 DEF Unqueued, Unheld
    <3>3. CASE ~req[r].queued
      <4>1. Goto(r, "running") /\ "running" \in Steps
        BY <2>1, <3>3 DEF TouchSlot, Steps
      <4> QED
        BY <3>1, <3>3, <4>1 DEF Unqueued, Unheld
    <3> QED
      BY <3>2, <3>3
  <2>2. CASE TouchWait(r)
    <3>1. Goto(r, "waiting") /\ req[r].pc = "touchWait" /\ "waiting" \in Steps
      BY <2>2 DEF TouchWait, At, Steps
    <3> QED
      BY <1>t, <3>1 DEF ReqInv, Unqueued, Unheld
  <2>3. CASE GiveUp(r)
    <3>1. Goto(r, "leave") /\ req[r].pc = "waiting" /\ "leave" \in Steps
      BY <2>3 DEF GiveUp, At, Steps
    <3> QED
      BY <1>t, <3>1 DEF ReqInv, Unqueued, Unheld
  <2>4. CASE ReadLoad(r)
    <3>1. PICK pc \in {"keep", "drop"} : Goto(r, pc)
      BY <2>4 DEF ReadLoad
    <3>2. req[r].pc = "read" /\ pc \in Steps
      BY <2>4 DEF ReadLoad, At, Steps
    <3> QED
      BY <1>t, <3>1, <3>2 DEF ReqInv, Unqueued, Unheld
  <2>5. CASE RefreshIndex(r)
    <3>1. req[r].pc \in {"keep", "drop"}
      BY <2>5 DEF RefreshIndex, At
    <3>2. CASE req[r].holds
      <4>1. Goto(r, "running") /\ "running" \in Steps
        BY <2>5, <3>2 DEF RefreshIndex, Steps
      <4> QED
        BY <1>t, <3>1, <3>2, <4>1 DEF ReqInv, Unqueued, Unheld
    <3>3. CASE ~req[r].holds
      <4>1. Goto(r, "idle") /\ "idle" \in Steps
        BY <2>5, <3>3 DEF RefreshIndex, Steps
      <4> QED
        BY <1>t, <3>1, <3>3, <4>1 DEF ReqInv, Unqueued, Unheld
    <3> QED
      BY <3>2, <3>3
  <2> QED
    BY <2>1, <2>2, <2>3, <2>4, <2>5
<1> QED
  BY <1>t, <1>1, <1>2, GoesOn

\* A request is counted as waiting, turned away, or waits uncounted.
LEMMA InvEnqueue ==
    ASSUME Inv, NEW r \in Requests, Enqueue(r)
    PROVE  Kept
<1>t. /\ req[r] \in [pc : Steps, holds : BOOLEAN, queued : BOOLEAN]
      /\ req \in [Requests -> [pc : Steps, holds : BOOLEAN, queued : BOOLEAN]]
      /\ TypeOK /\ BudgetInv /\ ReqInv(r) /\ indexed \in BOOLEAN
  BY DEF Inv, TypeOK
<1>u. /\ UNCHANGED <<slots, lost, indexed, job, proc>>
      /\ proc[Home[r]] = "up" /\ ~req[r].holds /\ ~req[r].queued
  BY <1>t DEF Enqueue, At, ReqInv, Unheld, Unqueued
<1>w. /\ wait \in 0 .. MaxWait /\ MaxWait \in Nat
      /\ wait' \in {wait, Counted} /\ wait' \in 0 .. MaxWait
      /\ wait' \in Nat /\ wait \in Nat /\ wait <= wait'
  BY Types DEF Enqueue, Counted
<1>1. CASE wait >= MaxWait /\ NoFault /\ req' = [req EXCEPT ![r] = Idle]
  <2>1. wait' = wait
    BY <1>w, <1>1 DEF Counted
  <2>2. Idle \in [pc : Steps, holds : BOOLEAN, queued : BOOLEAN]
    BY DEF Idle, Steps
  <2>3. /\ req' \in [Requests -> [pc : Steps, holds : BOOLEAN, queued : BOOLEAN]]
        /\ job' \in [Instances -> {"idle", "keep", "drop"}]
        /\ proc' \in [Instances -> Phases]
        /\ \A k \in Requests : ReqInv(k)'
        /\ Holders' = Holders \ {r} /\ Waiters' = Waiters \ {r}
    BY <1>u, <1>1, <2>2, Moves DEF Idle
  <2>4. Holders' = Holders /\ Waiters' = Waiters /\ Outlived' = Outlived
    BY <1>u, <2>3 DEF Holders, Waiters, Outlived
  <2>5. SlotInv'
    BY <1>u, <2>4 DEF Inv, SlotInv, Count
  <2>6. QuietInv' /\ (QuietStarts /\ OpenInv => OpenInv')
    BY <1>u, <1>1, <2>1, <2>4 DEF Inv, QuietInv, OpenInv, NoFault
  <2>7. slots' \in SUBSET Requests /\ lost' \in Nat
    BY <1>u, Types
  <2> QED
    BY <1>t, <1>u, <1>w, <1>1, <2>3, <2>5, <2>6, <2>7, Conjuncts
<1>2. ASSUME NEW pc \in {"touchWait", "waiting"},
             req' = [req EXCEPT ![r].pc = pc, ![r].queued = TRUE],
             \/ NoFault /\ wait < MaxWait /\ wait' = Counted
             \/ Fault("count")
      PROVE  Kept
  <2> DEFINE q == [req[r] EXCEPT !.pc = pc, !.queued = TRUE]
  <2>1. /\ q \in [pc : Steps, holds : BOOLEAN, queued : BOOLEAN]
        /\ q.pc = pc /\ q.holds = req[r].holds /\ q.queued = TRUE
    BY <1>t DEF Steps
  <2>2. req' = [req EXCEPT ![r] = q]
    BY <1>t, <1>2
  <2> HIDE DEF q
  <2>3. /\ req' \in [Requests -> [pc : Steps, holds : BOOLEAN, queued : BOOLEAN]]
        /\ job' \in [Instances -> {"idle", "keep", "drop"}]
        /\ proc' \in [Instances -> Phases]
        /\ \A k \in Requests : ReqInv(k)'
        /\ Holders' = IF q.holds THEN Holders \cup {r} ELSE Holders \ {r}
        /\ Cardinality(Waiters)' =
              IF q.queued
              THEN IF req[r].queued THEN Cardinality(Waiters)
                                    ELSE Cardinality(Waiters) + 1
              ELSE IF req[r].queued THEN Cardinality(Waiters) - 1
                                    ELSE Cardinality(Waiters)
    BY <1>u, <2>1, <2>2, Moves DEF Unqueued, Unheld
  <2>4. Holders' = Holders /\ Outlived' = Outlived
    BY <1>u, <2>1, <2>3 DEF Holders, Outlived
  <2>5. Cardinality(Waiters)' = Cardinality(Waiters) + 1
    BY <1>u, <2>1, <2>3
  <2>6. SlotInv'
    BY <1>u, <2>4 DEF Inv, SlotInv, Count
  <2>7. NoFault => wait' = wait + 1
    <3>1. NoFault /\ Fault("count") => FALSE
      BY <1>t, SlotsAssumption DEF NoFault, Fault, TypeOK
    <3> QED
      BY <1>2, <1>w, <3>1 DEF Counted
  <2>8. NoFault => QuietInv'
    BY <1>u, <2>4, <2>5, <2>7 DEF Inv, QuietInv, NoFault
  <2>9. /\ \/ NoFault
           \/ opened'["count"] = opened["count"] + 1
        /\ opened'["outlive"] >= opened["outlive"]
        /\ opened'["outlive"] \in Nat /\ opened'["count"] \in Nat
        /\ opened'["count"] >= opened["count"]
    BY <1>t, <1>2, Paying DEF Opens
  <2>10. QuietStarts /\ OpenInv => OpenInv'
    <3> SUFFICES ASSUME QuietStarts, OpenInv
                 PROVE  OpenInv'
      OBVIOUS
    <3>1. Cardinality(Outlived) <= opened["outlive"]
          /\ Cardinality(Waiters) <= wait + opened["count"]
      BY DEF Inv, OpenInv
    <3>2. Cardinality(Outlived)' <= opened'["outlive"]
      BY <2>4, <2>9, <3>1, Types
    <3>3. Cardinality(Waiters) + 1 <= wait' + opened'["count"]
      <4>1. PICK a \in Nat, b \in Nat, c \in Nat, v \in Nat, w \in Nat :
               /\ a = Cardinality(Waiters) /\ b = opened["count"]
               /\ c = opened'["count"] /\ v = wait /\ w = wait'
        BY <1>w, <2>9, Types
      <4>2. a <= v + b /\ c >= b /\ v <= w
        BY <1>w, <2>9, <3>1, <4>1
      <4>3. c = b + 1 \/ w = v + 1
        BY <2>7, <2>9, <4>1
      <4>4. a + 1 <= w + c
        BY <4>2, <4>3
      <4> QED
        BY <4>1, <4>4
    <3> QED
      BY <2>5, <3>2, <3>3 DEF OpenInv
  <2>11. slots' \in SUBSET Requests /\ lost' \in Nat /\ indexed' \in BOOLEAN
    BY <1>t, <1>u, Types
  <2> QED
    BY <1>w, <1>2, <2>3, <2>6, <2>8, <2>10, <2>11, Conjuncts
<1> QED
  BY <1>1, <1>2 DEF Enqueue

\* A request leaves the queue.
LEMMA InvLeave ==
    ASSUME Inv, NEW r \in Requests, Leave(r)
    PROVE  Kept
<1>t. /\ req[r] \in [pc : Steps, holds : BOOLEAN, queued : BOOLEAN]
      /\ req \in [Requests -> [pc : Steps, holds : BOOLEAN, queued : BOOLEAN]]
      /\ TypeOK /\ BudgetInv /\ ReqInv(r) /\ indexed \in BOOLEAN
  BY DEF Inv, TypeOK
<1>u. /\ UNCHANGED <<slots, lost, indexed, job, proc>>
      /\ proc[Home[r]] = "up" /\ req[r].queued
  BY <1>t DEF Leave, At, ReqInv
<1>w. /\ wait \in 0 .. MaxWait /\ MaxWait \in Nat
      /\ wait' \in {wait, Uncounted} /\ wait' \in 0 .. MaxWait
      /\ wait' \in Nat /\ wait \in Nat /\ wait <= wait' + 1
  BY Types DEF Leave, Uncounted
<1>1. PICK pc \in {"read", "running", "idle"} :
         /\ req' = [req EXCEPT ![r].pc = pc, ![r].queued = FALSE]
         /\ pc = "idle" => ~req[r].holds
         /\ \/ NoFault /\ wait' = Uncounted
            \/ Fault("release")
  <2>1. CASE /\ wait' = Uncounted /\ NoFault
             /\ req' = [req EXCEPT ![r].pc = "read", ![r].queued = FALSE]
    BY <2>1
  <2>2. CASE /\ Fault("release")
             /\ req' = [req EXCEPT
                    ![r].pc = IF req[r].holds THEN "running" ELSE "idle",
                    ![r].queued = FALSE]
    <3>1. CASE req[r].holds
      BY <2>2, <3>1
    <3>2. CASE ~req[r].holds
      BY <2>2, <3>2
    <3> QED
      BY <3>1, <3>2
  <2> QED
    BY <2>1, <2>2 DEF Leave
<1> DEFINE q == [req[r] EXCEPT !.pc = pc, !.queued = FALSE]
<1>2. /\ q \in [pc : Steps, holds : BOOLEAN, queued : BOOLEAN]
      /\ q.pc = pc /\ q.holds = req[r].holds /\ q.queued = FALSE
  BY <1>t DEF Steps
<1>3. req' = [req EXCEPT ![r] = q]
  BY <1>t, <1>1
<1> HIDE DEF q
<1>4. /\ req' \in [Requests -> [pc : Steps, holds : BOOLEAN, queued : BOOLEAN]]
      /\ job' \in [Instances -> {"idle", "keep", "drop"}]
      /\ proc' \in [Instances -> Phases]
      /\ \A k \in Requests : ReqInv(k)'
      /\ Holders' = IF q.holds THEN Holders \cup {r} ELSE Holders \ {r}
      /\ Cardinality(Waiters)' =
            IF q.queued
            THEN IF req[r].queued THEN Cardinality(Waiters)
                                  ELSE Cardinality(Waiters) + 1
            ELSE IF req[r].queued THEN Cardinality(Waiters) - 1
                                  ELSE Cardinality(Waiters)
  BY <1>u, <1>1, <1>2, <1>3, Moves DEF Unheld
<1>5. Holders' = Holders /\ Outlived' = Outlived
  BY <1>u, <1>2, <1>4 DEF Holders, Outlived
<1>6. Cardinality(Waiters)' = Cardinality(Waiters) - 1
  BY <1>u, <1>2, <1>4
<1>7. SlotInv'
  BY <1>u, <1>5 DEF Inv, SlotInv, Count
<1>8. NoFault => QuietInv'
  <2>1. NoFault /\ Fault("release") => FALSE
    BY <1>t, SlotsAssumption DEF NoFault, Fault, TypeOK
  <2>2. r \in Waiters /\ Waiters \in SUBSET Requests
    BY <1>u, Types DEF Waiters
  <2>3. Cardinality(Waiters) # 0
    BY <2>2, Finite, FS_EmptySet
  <2>4. NoFault /\ wait = Cardinality(Waiters) => wait' = wait - 1
    BY <1>1, <1>w, <2>1, <2>3 DEF Uncounted
  <2> QED
    BY <1>u, <1>5, <1>6, <2>4 DEF Inv, QuietInv, NoFault
<1>9. QuietStarts /\ OpenInv => OpenInv'
  <2> SUFFICES ASSUME QuietStarts, OpenInv
               PROVE  OpenInv'
    OBVIOUS
  <2>1. /\ opened'["outlive"] >= opened["outlive"]
        /\ opened'["outlive"] \in Nat /\ opened'["count"] \in Nat
        /\ opened'["count"] >= opened["count"]
    BY <1>t, <1>1, Paying DEF Opens
  <2>2. /\ Cardinality(Outlived) <= opened["outlive"]
        /\ Cardinality(Waiters) <= wait + opened["count"]
    BY DEF Inv, OpenInv
  <2>3. Cardinality(Outlived)' <= opened'["outlive"]
    BY <1>5, <2>1, <2>2, Types
  <2>4. Cardinality(Waiters) - 1 <= wait' + opened'["count"]
    <3>1. PICK a \in Nat, b \in Nat, c \in Nat, v \in Nat, w \in Nat :
             /\ a = Cardinality(Waiters) /\ b = opened["count"]
             /\ c = opened'["count"] /\ v = wait /\ w = wait'
      BY <1>w, <2>1, Types
    <3>2. a <= v + b /\ c >= b /\ v <= w + 1
      BY <1>w, <2>1, <2>2, <3>1
    <3>3. a - 1 <= w + c
      BY <3>2
    <3> QED
      BY <3>1, <3>3
  <2> QED
    BY <1>6, <2>3, <2>4 DEF OpenInv
<1>10. slots' \in SUBSET Requests /\ lost' \in Nat /\ indexed' \in BOOLEAN
  BY <1>t, <1>u, Types
<1> QED
  BY <1>w, <1>1, <1>4, <1>7, <1>8, <1>9, <1>10, Conjuncts

\* A request ends and gives its slot back.
LEMMA InvRelease ==
    ASSUME Inv, NEW r \in Requests, ReleaseSlot(r)
    PROVE  Kept
<1>t. /\ req[r] \in [pc : Steps, holds : BOOLEAN, queued : BOOLEAN]
      /\ req \in [Requests -> [pc : Steps, holds : BOOLEAN, queued : BOOLEAN]]
      /\ TypeOK /\ BudgetInv /\ ReqInv(r) /\ indexed \in BOOLEAN
  BY DEF Inv, TypeOK
<1>u. /\ UNCHANGED <<wait, indexed, job, proc>> /\ slots' = slots \ {r}
      /\ proc[Home[r]] = "up" /\ ~req[r].queued
  BY <1>t DEF ReleaseSlot, At, ReqInv, Unqueued
<1>1. PICK q \in [pc : Steps, holds : BOOLEAN, queued : BOOLEAN] :
         /\ req' = [req EXCEPT ![r] = q] /\ q.pc \in {"read", "idle"}
         /\ q.holds = FALSE /\ q.queued = FALSE
         /\ \/ NoFault /\ lost' = lost
            \/ /\ Fault("release")
               /\ lost' \in {lost, IF r \in slots THEN lost + 1 ELSE lost}
  <2>1. CASE /\ lost' = lost /\ NoFault
             /\ req' = [req EXCEPT ![r].pc = "read", ![r].holds = FALSE]
    <3> DEFINE q == [req[r] EXCEPT !.pc = "read", !.holds = FALSE]
    <3>1. /\ q \in [pc : Steps, holds : BOOLEAN, queued : BOOLEAN]
          /\ q.pc = "read" /\ q.holds = FALSE /\ q.queued = req[r].queued
      BY <1>t DEF Steps
    <3>2. req' = [req EXCEPT ![r] = q]
      BY <1>t, <2>1
    <3> HIDE DEF q
    <3> QED
      BY <1>t, <1>u, <2>1, <3>1, <3>2
  <2>2. CASE /\ Fault("release") /\ req' = [req EXCEPT ![r] = Idle]
             /\ lost' \in {lost, IF r \in slots THEN lost + 1 ELSE lost}
    <3>1. /\ Idle \in [pc : Steps, holds : BOOLEAN, queued : BOOLEAN]
          /\ Idle.pc = "idle" /\ Idle.holds = FALSE /\ Idle.queued = FALSE
      BY DEF Idle, Steps
    <3> QED
      BY <2>2, <3>1
  <2> QED
    BY <2>1, <2>2 DEF ReleaseSlot
<1>2. /\ req' \in [Requests -> [pc : Steps, holds : BOOLEAN, queued : BOOLEAN]]
      /\ job' \in [Instances -> {"idle", "keep", "drop"}]
      /\ proc' \in [Instances -> Phases]
      /\ \A k \in Requests : ReqInv(k)'
      /\ Holders' = IF q.holds THEN Holders \cup {r} ELSE Holders \ {r}
      /\ Waiters' = IF q.queued THEN Waiters \cup {r} ELSE Waiters \ {r}
  BY <1>u, <1>1, Moves DEF Unheld
<1>3. Holders' = Holders \ {r} /\ Waiters' = Waiters
  BY <1>u, <1>1, <1>2 DEF Waiters
<1>4. Outlived' \subseteq Outlived
  BY <1>u, <1>3 DEF Outlived
<1>5. SlotInv' /\ lost' \in Nat
  <2>1. slots \in SUBSET Requests /\ Cardinality(slots) \in Nat /\ lost \in Nat
        /\ MaxSlots \in Nat
    BY Types
  <2>2. Cardinality(slots \ {r}) =
           IF r \in slots THEN Cardinality(slots) - 1 ELSE Cardinality(slots)
    BY <2>1, OneMore
  <2>3. Cardinality(slots) + lost <= MaxSlots /\ slots \subseteq Holders
    BY DEF Inv, SlotInv, Count
  <2>4. lost' \in Nat /\ Cardinality(slots \ {r}) + lost' <= MaxSlots
    BY <1>1, <2>1, <2>2, <2>3
  <2> QED
    BY <1>u, <1>3, <2>3, <2>4 DEF SlotInv, Count
<1>6. NoFault => QuietInv'
  <2>1. NoFault /\ Fault("release") => FALSE
    BY <1>t, SlotsAssumption DEF NoFault, Fault, TypeOK
  <2> QED
    BY <1>u, <1>1, <1>3, <2>1 DEF Inv, QuietInv, NoFault
<1>7. QuietStarts /\ OpenInv => OpenInv'
  <2> SUFFICES ASSUME QuietStarts, OpenInv
               PROVE  OpenInv'
    OBVIOUS
  <2>1. /\ opened'["outlive"] >= opened["outlive"]
        /\ opened'["outlive"] \in Nat /\ opened'["count"] \in Nat
        /\ opened'["count"] >= opened["count"]
    BY <1>t, <1>1, Paying DEF Opens
  <2>2. /\ Cardinality(Outlived) <= opened["outlive"]
        /\ Cardinality(Waiters) <= wait + opened["count"]
    BY DEF Inv, OpenInv
  <2>3. /\ Outlived' \in SUBSET Requests /\ Cardinality(Outlived') \in Nat
        /\ Cardinality(Outlived') <= Cardinality(Outlived)
    BY <1>4, Types, Part, Finite
  <2>4. Cardinality(Outlived') <= opened'["outlive"]
    BY <2>1, <2>2, <2>3, Types
  <2> QED
    BY <1>u, <1>3, <2>1, <2>2, <2>4, Types DEF OpenInv
<1>8. slots' \in SUBSET Requests /\ wait' \in 0 .. MaxWait
  BY <1>u, Types
<1> QED
  BY <1>t, <1>u, <1>1, <1>2, <1>5, <1>6, <1>7, <1>8, Conjuncts

-----------------------------------------------------------------------------
(***************************************************************************)
(* Time, clean-ups and processes.                                          *)
(***************************************************************************)

\* A slot expires; that of a running request leaves the request uncounted.
LEMMA InvExpireSlot ==
    ASSUME Inv, ExpireSlot
    PROVE  Kept
<1>t. /\ TypeOK /\ BudgetInv /\ indexed \in BOOLEAN
      /\ req' \in [Requests -> [pc : Steps, holds : BOOLEAN, queued : BOOLEAN]]
      /\ job' \in [Instances -> {"idle", "keep", "drop"}]
      /\ proc' \in [Instances -> Phases]
      /\ UNCHANGED <<wait, indexed, req, job, proc>>
  BY DEF Inv, TypeOK, ExpireSlot
<1>1. Holders' = Holders /\ Waiters' = Waiters /\ \A k \in Requests : ReqInv(k)'
  BY <1>t DEF Inv, Holders, Waiters, ReqInv
<1>2. slots \subseteq Holders /\ Cardinality(slots) + lost <= MaxSlots
  BY DEF Inv, SlotInv, Count
<1>3. CASE lost > 0 /\ lost' = lost - 1 /\ slots' = slots /\ NoFault
  <2>1. lost' \in Nat /\ slots' \in SUBSET Requests /\ wait' \in 0 .. MaxWait
    BY <1>t, <1>3, Types
  <2>2. SlotInv'
    BY <1>1, <1>2, <1>3, <2>1, Types DEF SlotInv, Count
  <2>3. QuietInv'
    BY <1>3, Types DEF Inv, QuietInv, NoFault
  <2>4. Outlived' = Outlived
    BY <1>1, <1>3 DEF Outlived
  <2>5. QuietStarts /\ OpenInv => OpenInv'
    BY <1>t, <1>1, <1>3, <2>4 DEF Inv, OpenInv, NoFault
  <2> QED
    BY <1>t, <1>1, <1>3, <2>1, <2>2, <2>3, <2>5, Conjuncts
<1>4. ASSUME NEW r \in slots, slots' = slots \ {r}, lost' = lost,
             Fault("outlive")
      PROVE  Kept
  <2>1. lost' \in Nat /\ slots' \in SUBSET Requests /\ wait' \in 0 .. MaxWait
        /\ r \in Requests
    BY <1>t, <1>4, Types
  <2>2. SlotInv'
    <3>1. Cardinality(slots') \in Nat /\ Cardinality(slots') <= Cardinality(slots)
      BY <1>4, Types, Part, Finite
    <3> QED
      BY <1>1, <1>2, <1>4, <3>1, Types DEF SlotInv, Count
  <2>3. NoFault => FALSE
    BY <1>t, <1>4, SlotsAssumption DEF NoFault, Fault, TypeOK
  <2>4. Outlived' = Outlived \cup {r}
    BY <1>1, <1>2, <1>4 DEF Outlived
  <2>5. QuietStarts /\ OpenInv => OpenInv'
    <3> SUFFICES ASSUME QuietStarts, OpenInv
                 PROVE  OpenInv'
      OBVIOUS
    <3>1. /\ opened'["outlive"] = opened["outlive"] + 1
          /\ opened'["count"] \in Nat /\ opened["count"] <= opened'["count"]
      BY <1>t, <1>4, Paying DEF Opens
    <3>2. Cardinality(Outlived) <= opened["outlive"]
          /\ Cardinality(Waiters) <= wait + opened["count"]
      BY DEF Inv, OpenInv
    <3>3. Cardinality(Outlived \cup {r}) <= Cardinality(Outlived) + 1
          /\ Cardinality(Outlived \cup {r}) \in Nat
      <4>1. Outlived \in SUBSET Requests /\ Cardinality(Outlived) \in Nat
        BY Types
      <4>2. Cardinality(Outlived \cup {r}) =
               IF r \in Outlived THEN Cardinality(Outlived)
                                 ELSE Cardinality(Outlived) + 1
        BY <2>1, <4>1, OneMore
      <4> QED
        BY <4>1, <4>2
    <3>4. Cardinality(Outlived)' <= opened'["outlive"]
      BY <2>4, <3>1, <3>2, <3>3, Types
    <3>5. Cardinality(Waiters)' <= wait' + opened'["count"]
      BY <1>t, <1>1, <3>1, <3>2, Types
    <3> QED
      BY <3>4, <3>5 DEF OpenInv
  <2> QED
    BY <1>t, <1>1, <1>4, <2>1, <2>2, <2>3, <2>5, Conjuncts
<1> QED
  BY <1>3, <1>4 DEF ExpireSlot

\* The wait counter expires when nobody waits.
LEMMA InvExpireWait ==
    ASSUME Inv, ExpireWait
    PROVE  Kept
<1>t. /\ TypeOK /\ BudgetInv /\ indexed' \in BOOLEAN
      /\ req' \in [Requests -> [pc : Steps, holds : BOOLEAN, queued : BOOLEAN]]
      /\ job' \in [Instances -> {"idle", "keep", "drop"}]
      /\ proc' \in [Instances -> Phases]
      /\ UNCHANGED <<slots, lost, indexed, req, job, proc, opened, faults>>
      /\ wait > 0 /\ wait' = 0 /\ NoFault
  BY DEF Inv, TypeOK, ExpireWait, NoFault
<1>1. Waiters = {} /\ Cardinality(Waiters) = 0
  BY FS_EmptySet DEF ExpireWait, Waiters
<1>2. /\ Holders' = Holders /\ Waiters' = Waiters /\ Outlived' = Outlived
      /\ \A k \in Requests : ReqInv(k)'
  BY <1>t DEF Inv, Holders, Waiters, Outlived, ReqInv
<1>3. SlotInv'
  BY <1>t, <1>2 DEF Inv, SlotInv, Count
<1>4. QuietInv'
  BY <1>t, <1>1, Types DEF Inv, QuietInv
<1>5. QuietStarts /\ OpenInv => OpenInv'
  <2>1. Cardinality(Waiters)' = 0 /\ opened'["count"] \in Nat
    BY <1>t, <1>1, <1>2, Types
  <2> QED
    BY <1>t, <1>2, <2>1 DEF Inv, OpenInv
<1>6. slots' \in SUBSET Requests /\ lost' \in Nat /\ wait' \in 0 .. MaxWait
  BY <1>t, Types
<1> QED
  BY <1>t, <1>2, <1>3, <1>4, <1>5, <1>6, Conjuncts

\* A step of a process that leaves requests, slots and queue alone.
LEMMA Unmoved ==
    ASSUME Inv, NEW kind, NoFault \/ Fault(kind),
           UNCHANGED <<slots, lost, wait, req>>, indexed' \in BOOLEAN,
           job' \in [Instances -> {"idle", "keep", "drop"}],
           proc' \in [Instances -> Phases],
           \A i \in Instances : proc[i] = "up" => proc'[i] = "up"
    PROVE  Kept
<1>t. /\ TypeOK /\ BudgetInv
      /\ req' \in [Requests -> [pc : Steps, holds : BOOLEAN, queued : BOOLEAN]]
  BY DEF Inv, TypeOK
<1>1. Holders' = Holders /\ Waiters' = Waiters /\ Outlived' = Outlived
  BY DEF Holders, Waiters, Outlived
<1>2. \A k \in Requests : ReqInv(k)'
  BY Types DEF Inv, ReqInv
<1>3. SlotInv'
  BY <1>1 DEF Inv, SlotInv, Count
<1>4. NoFault => QuietInv'
  BY <1>1 DEF Inv, QuietInv, NoFault
<1>5. QuietStarts /\ OpenInv => OpenInv'
  <2>1. /\ opened'["outlive"] \in Nat /\ opened["outlive"] <= opened'["outlive"]
        /\ opened'["count"] \in Nat /\ opened["count"] <= opened'["count"]
    BY <1>t, Paying DEF Opens
  <2> QED
    BY <1>1, <2>1, Types DEF Inv, OpenInv
<1>6. slots' \in SUBSET Requests /\ lost' \in Nat /\ wait' \in 0 .. MaxWait
  BY Types
<1> QED
  BY <1>t, <1>2, <1>3, <1>4, <1>5, <1>6, Conjuncts

\* The reconciliation of the index, and the steps of a starting process that
\* leave Redis alone but for the index.
LEMMA InvProcessStep ==
    ASSUME Inv, NEW i \in Instances,
           \/ ReconcileRead(i) \/ ReconcileWrite(i)
           \/ Boot(i) \/ CleanIndex(i) \/ Serve(i)
    PROVE  Kept
<1>t. /\ indexed \in BOOLEAN /\ job \in [Instances -> {"idle", "keep", "drop"}]
      /\ proc \in [Instances -> Phases]
  BY DEF Inv, TypeOK
<1>1. CASE ReconcileRead(i)
  <2>1. job' \in [Instances -> {"idle", "keep", "drop"}]
    BY <1>t, <1>1 DEF ReconcileRead
  <2>2. UNCHANGED <<slots, lost, wait, req>> /\ NoFault /\ indexed' = indexed
        /\ proc' = proc
    BY <1>1 DEF ReconcileRead, NoFault
  <2> QED
    BY <1>t, <2>1, <2>2, Unmoved
<1>2. CASE ReconcileWrite(i)
  <2>1. job' \in [Instances -> {"idle", "keep", "drop"}]
    BY <1>t, <1>2 DEF ReconcileWrite
  <2>2. UNCHANGED <<slots, lost, wait, req>> /\ (NoFault \/ Fault("index"))
        /\ proc' = proc /\ indexed' \in BOOLEAN
    BY <1>t, <1>2 DEF ReconcileWrite
  <2> QED
    BY <1>t, <2>1, <2>2, Unmoved
<1>3. CASE Boot(i)
  <2>1. PICK p \in {"slots", "cleaned", "up"} : proc' = [proc EXCEPT ![i] = p]
    <3>1. CASE indexed
      BY <1>3, <3>1 DEF Boot
    <3>2. CASE ~indexed
      BY <1>3, <3>2 DEF Boot
    <3> QED
      BY <3>1, <3>2
  <2>2. proc' \in [Instances -> Phases]
        /\ \A j \in Instances : proc[j] = "up" => proc'[j] = "up"
    BY <1>t, <1>3, <2>1 DEF Boot, Phases
  <2>3. UNCHANGED <<slots, lost, wait, req>> /\ (NoFault \/ Fault("cleanup"))
        /\ indexed' = indexed /\ job' = job
    BY <1>3 DEF Boot
  <2> QED
    BY <1>t, <2>2, <2>3, Unmoved
<1>4. CASE CleanIndex(i)
  <2>1. proc' \in [Instances -> Phases]
        /\ \A j \in Instances : proc[j] = "up" => proc'[j] = "up"
    BY <1>t, <1>4 DEF CleanIndex, Phases
  <2>2. UNCHANGED <<slots, lost, wait, req>> /\ (NoFault \/ Fault("index"))
        /\ indexed' \in BOOLEAN /\ job' = job
    BY <1>t, <1>4 DEF CleanIndex
  <2> QED
    BY <1>t, <2>1, <2>2, Unmoved
<1>5. CASE Serve(i)
  <2>1. proc' \in [Instances -> Phases]
        /\ \A j \in Instances : proc[j] = "up" => proc'[j] = "up"
    BY <1>t, <1>5 DEF Serve, Phases
  <2>2. UNCHANGED <<slots, lost, wait, req>> /\ NoFault
        /\ indexed' = indexed /\ job' = job
    BY <1>5 DEF Serve, NoFault
  <2> QED
    BY <1>t, <2>1, <2>2, Unmoved
<1> QED
  BY <1>1, <1>2, <1>3, <1>4, <1>5

\* The clean-up of a starting process: its own requests have not begun, so if
\* it is alone nothing it removes is in use.
LEMMA InvCleanUp ==
    ASSUME Inv, NEW i \in Instances, CleanSlots(i) \/ CleanWait(i)
    PROVE  Kept
<1>t. /\ TypeOK /\ BudgetInv
      /\ proc \in [Instances -> Phases] /\ proc[i] # "up"
      /\ UNCHANGED <<indexed, req, job>>
      /\ req' \in [Requests -> [pc : Steps, holds : BOOLEAN, queued : BOOLEAN]]
      /\ job' \in [Instances -> {"idle", "keep", "drop"}]
      /\ indexed' \in BOOLEAN
  BY DEF Inv, TypeOK, CleanSlots, CleanWait
<1>1. PICK p \in {"wait", "index", "up"} : proc' = [proc EXCEPT ![i] = p]
  BY DEF CleanSlots, CleanWait
<1>2. proc' \in [Instances -> Phases]
      /\ \A j \in Instances : proc[j] = "up" => proc'[j] = "up"
  BY <1>t, <1>1 DEF Phases
<1>3. CASE Fault("cleanup") /\ UNCHANGED <<slots, lost, wait>>
  BY <1>t, <1>2, <1>3, Unmoved
<1>4. CASE /\ NoFault
           /\ \/ slots' = {} /\ lost' = 0 /\ wait' = wait
              \/ wait' = 0 /\ UNCHANGED <<slots, lost>>
  <2>1. Holders' = Holders /\ Waiters' = Waiters
    BY <1>t DEF Holders, Waiters
  <2>2. \A k \in Requests : ReqInv(k)'
    BY <1>t, <1>2, Types DEF Inv, ReqInv
  <2>3. SlotInv'
    BY <1>4, <2>1, FS_EmptySet, Types DEF Inv, SlotInv, Count
  <2>4. QuietInv'
    BY <1>t, <1>4 DEF Inv, QuietInv, NoFault
  <2>5. QuietStarts /\ OpenInv => OpenInv'
    <3> SUFFICES ASSUME QuietStarts, OpenInv
                 PROVE  OpenInv'
      OBVIOUS
    <3>1. \A k \in Requests : req[k] = Idle
      BY <1>t, Types DEF Inv, ReqInv, QuietStarts, CleanSlots, CleanWait
    <3>2. Holders = {} /\ Waiters = {}
      BY <3>1 DEF Holders, Waiters, Idle
    <3>3. Outlived' = {} /\ Waiters' = {}
      BY <2>1, <3>2 DEF Outlived
    <3>4. Cardinality(Outlived)' = 0 /\ Cardinality(Waiters)' = 0
      BY <3>3, FS_EmptySet
    <3>5. /\ opened'["outlive"] \in Nat /\ opened'["count"] \in Nat
          /\ wait' \in Nat
      BY <1>4, Types DEF NoFault
    <3> QED
      BY <3>4, <3>5 DEF OpenInv
  <2>6. slots' \in SUBSET Requests /\ lost' \in Nat /\ wait' \in 0 .. MaxWait
    BY <1>4, Types
  <2> QED
    BY <1>t, <1>2, <1>4, <2>2, <2>3, <2>4, <2>5, <2>6, Conjuncts
<1> QED
  BY <1>3, <1>4 DEF CleanSlots, CleanWait

\* A process dies: its slots are left behind, and count all the same.
LEMMA InvCrash ==
    ASSUME Inv, NEW i \in Instances, Crash(i)
    PROVE  Kept
<1>t. /\ TypeOK /\ BudgetInv /\ indexed' \in BOOLEAN
      /\ req \in [Requests -> [pc : Steps, holds : BOOLEAN, queued : BOOLEAN]]
      /\ job' \in [Instances -> {"idle", "keep", "drop"}]
      /\ proc \in [Instances -> Phases]
      /\ proc' \in [Instances -> Phases]
      /\ proc' = [proc EXCEPT ![i] = "down"]
      /\ Fault("crash") /\ wait' = wait
  BY DEF Inv, TypeOK, Crash, Phases
<1> DEFINE mine == {r \in Requests : Home[r] = i}
<1>1. /\ req' = [r \in Requests |-> IF r \in mine THEN Idle ELSE req[r]]
      /\ slots' = slots \ mine
      /\ lost' = lost + Cardinality(slots \cap mine)
  BY DEF Crash
<1>2. Idle \in [pc : Steps, holds : BOOLEAN, queued : BOOLEAN]
      /\ ~Idle.holds /\ ~Idle.queued /\ Idle.pc = "idle"
  BY DEF Idle, Steps
<1>3. req' \in [Requests -> [pc : Steps, holds : BOOLEAN, queued : BOOLEAN]]
  BY <1>t, <1>1, <1>2
<1>4. Holders' = Holders \ mine /\ Waiters' \in SUBSET Waiters
  BY <1>1, <1>2 DEF Holders, Waiters
<1>5. \A k \in Requests : ReqInv(k)'
  <2> TAKE k \in Requests
  <2>1. CASE k \in mine
    <3>1. req'[k] = Idle
      BY <1>1, <2>1
    <3> QED
      BY <1>2, <3>1 DEF ReqInv, Unqueued, Unheld
  <2>2. CASE k \notin mine
    <3>1. req'[k] = req[k] /\ proc'[Home[k]] = proc[Home[k]]
      BY <1>t, <1>1, <2>2, Types
    <3> QED
      BY <3>1 DEF Inv, ReqInv
  <2> QED
    BY <2>1, <2>2
<1>6. /\ SlotInv' /\ lost' \in Nat /\ slots' \in SUBSET Requests
  <2>1. /\ slots \in SUBSET Requests /\ slots \cap mine \in SUBSET Requests
        /\ slots \ mine \in SUBSET Requests
        /\ lost \in Nat /\ MaxSlots \in Nat
    BY Types
  <2>2. PICK a \in Nat, b \in Nat, c \in Nat :
           /\ a = Cardinality(slots) /\ b = Cardinality(slots \cap mine)
           /\ c = Cardinality(slots \ mine)
    BY <2>1, Finite
  <2>3. c = a - b
    BY <2>1, <2>2, Finite, FS_Difference
  <2>4. a + lost <= MaxSlots /\ slots \subseteq Holders
    BY <2>2 DEF Inv, SlotInv, Count
  <2>5. c + (lost + b) <= MaxSlots /\ lost + b \in Nat
    BY <2>1, <2>2, <2>3, <2>4
  <2>6. slots' \subseteq Holders'
    BY <1>1, <1>4, <2>4
  <2> QED
    BY <1>1, <2>1, <2>2, <2>5, <2>6 DEF SlotInv, Count
<1>7. NoFault => FALSE
  BY <1>t, SlotsAssumption DEF NoFault, Fault, TypeOK
<1>8. QuietStarts /\ OpenInv => OpenInv'
  <2> SUFFICES ASSUME QuietStarts, OpenInv
               PROVE  OpenInv'
    OBVIOUS
  <2>1. /\ opened'["outlive"] \in Nat /\ opened["outlive"] <= opened'["outlive"]
        /\ opened'["count"] \in Nat /\ opened["count"] <= opened'["count"]
    BY <1>t, Paying DEF Opens
  <2>2. /\ Cardinality(Outlived) <= opened["outlive"]
        /\ Cardinality(Waiters) <= wait + opened["count"]
    BY DEF Inv, OpenInv
  <2>3. Outlived' \in SUBSET Outlived
    BY <1>1, <1>4 DEF Outlived
  <2>4. /\ Cardinality(Outlived') \in Nat /\ Cardinality(Waiters') \in Nat
        /\ Cardinality(Outlived') <= Cardinality(Outlived)
        /\ Cardinality(Waiters') <= Cardinality(Waiters)
    BY <1>4, <2>3, Types, Part, Finite
  <2>5. Cardinality(Outlived') <= opened'["outlive"]
    BY <2>1, <2>2, <2>4, Types
  <2>6. Cardinality(Waiters') <= wait' + opened'["count"]
    BY <1>t, <2>1, <2>2, <2>4, Types
  <2> QED
    BY <2>5, <2>6 DEF OpenInv
<1>9. wait' \in 0 .. MaxWait
  BY <1>t, Types
<1> QED
  BY <1>t, <1>3, <1>5, <1>6, <1>7, <1>8, <1>9, Conjuncts

-----------------------------------------------------------------------------
(***************************************************************************)
(* The invariant holds.                                                    *)
(***************************************************************************)

\* At the start nobody holds a slot, waits, or has failed.
LEMMA InvInit == Init => Inv /\ OpenInv
<1> SUFFICES ASSUME Init
             PROVE  Inv /\ OpenInv
  OBVIOUS
<1>1. /\ slots = {} /\ lost = 0 /\ wait = 0 /\ indexed = FALSE
      /\ req = [r \in Requests |-> Idle]
      /\ job = [i \in Instances |-> "idle"]
      /\ proc = [i \in Instances |-> "up"]
      /\ opened = [kind \in Opens |-> 0] /\ faults = MaxFaults
  BY DEF Init
<1>2. Idle \in [pc : Steps, holds : BOOLEAN, queued : BOOLEAN]
      /\ ~Idle.holds /\ ~Idle.queued /\ Idle.pc = "idle"
  BY DEF Idle, Steps
<1>3. MaxWait \in Nat /\ MaxSlots \in Nat /\ MaxFaults \in Nat
      /\ Home \in [Requests -> Instances]
  BY SlotsAssumption
<1>4. TypeOK
  <2>1. req \in [Requests -> [pc : Steps, holds : BOOLEAN, queued : BOOLEAN]]
    BY <1>1, <1>2
  <2>2. /\ job \in [Instances -> {"idle", "keep", "drop"}]
        /\ proc \in [Instances -> Phases]
    BY <1>1 DEF Phases
  <2>3. opened \in [Opens -> 0 .. MaxFaults] /\ faults \in 0 .. MaxFaults
    BY <1>1, <1>3
  <2>4. slots \in SUBSET Requests /\ lost \in Nat
    BY <1>1
  <2>5. wait \in 0 .. MaxWait
    BY <1>1, <1>3
  <2>6. indexed \in BOOLEAN
    BY <1>1
  <2> QED
    BY <2>1, <2>2, <2>3, <2>4, <2>5, <2>6 DEF TypeOK
<1>5. Holders = {} /\ Waiters = {} /\ Outlived = {}
  BY <1>1, <1>2 DEF Holders, Waiters, Outlived
<1>6. Cardinality({}) = 0
  BY FS_EmptySet
<1>7. SlotInv /\ BudgetInv /\ QuietInv /\ OpenInv
  BY <1>1, <1>3, <1>5, <1>6
     DEF SlotInv, BudgetInv, QuietInv, OpenInv, Count, Opens
<1>8. \A r \in Requests : ReqInv(r)
  BY <1>1, <1>2, <1>3 DEF ReqInv, Unqueued, Unheld
<1> QED
  BY <1>4, <1>7, <1>8 DEF Inv

\* Every step keeps the invariant.
LEMMA InvNext == Inv /\ [Next]_vars => Kept
<1> SUFFICES ASSUME Inv, [Next]_vars
             PROVE  Kept
  OBVIOUS
<1>1. ASSUME NEW r \in Requests, RequestStep(r)
      PROVE  Kept
  BY <1>1, InvAcquire, InvQuietStep, InvEnqueue, InvLeave, InvRelease
     DEF RequestStep
<1>2. ASSUME NEW i \in Instances, ProcessStep(i)
      PROVE  Kept
  BY <1>2, InvProcessStep, InvCleanUp, InvCrash DEF ProcessStep
<1>3. CASE ExpireSlot \/ ExpireWait
  BY <1>3, InvExpireSlot, InvExpireWait
<1>4. CASE UNCHANGED vars
  <2>1. UNCHANGED <<slots, lost, wait, req, indexed, job, proc>> /\ NoFault
    BY <1>4 DEF vars, NoFault
  <2>2. /\ indexed' \in BOOLEAN /\ job' \in [Instances -> {"idle", "keep", "drop"}]
        /\ proc' \in [Instances -> Phases]
    BY <2>1 DEF Inv, TypeOK
  <2> QED
    BY <2>1, <2>2, Unmoved
<1> QED
  BY <1>1, <1>2, <1>3, <1>4 DEF Next

\* The invariant holds in every behaviour.
LEMMA Invariance == Spec => []Inv
<1>1. Inv /\ [Next]_vars => Inv'
  BY InvNext DEF Kept
<1> QED
  BY InvInit, <1>1, PTL DEF Spec

\* Where no process cleans up beside the requests of another, only those that
\* failed open are not counted.
LEMMA OpenInvariance == Spec => ([]QuietStarts => []OpenInv)
<1>1. Inv /\ QuietStarts /\ OpenInv /\ [Next]_vars => OpenInv'
  BY InvNext DEF Kept
<1> QED
  BY InvInit, Invariance, <1>1, PTL DEF Spec

\* A process that is alone cleans up while it serves nothing.
LEMMA AloneIsQuiet == OneProcess => (Spec => []QuietStarts)
<1>1. OneProcess => QuietStarts
  BY SlotsAssumption DEF OneProcess, QuietStarts
<1>2. ASSUME OneProcess
      PROVE  Spec => []QuietStarts
  BY <1>1, <1>2, PTL
<1> QED
  BY <1>2

\* The variables have their types.
THEOREM TypeCorrect == Spec => []TypeOK
<1>1. Inv => TypeOK
  BY DEF Inv
<1> QED
  BY <1>1, Invariance, PTL

\* Requests that are over leave nothing behind as long as no call has failed:
\* every slot is released and every wait uncounted, whichever way
\* acquireUserSlotWithWaitTimeout ends.
THEOREM Clean == Spec => []QuiescentIsClean
<1>1. Inv => QuiescentIsClean
  <2> SUFFICES ASSUME Inv, faults = MaxFaults,
                      \A r \in Requests : req[r].pc = "idle"
               PROVE  slots = {} /\ lost = 0 /\ wait = 0
    BY DEF QuiescentIsClean
  <2>1. \A r \in Requests : ~req[r].holds /\ ~req[r].queued
    BY DEF Inv, ReqInv, Unqueued, Unheld
  <2>2. Holders = {} /\ Waiters = {}
    BY <2>1 DEF Holders, Waiters
  <2>3. Cardinality(Waiters) = 0
    BY <2>2, FS_EmptySet
  <2> QED
    BY <2>2, <2>3 DEF Inv, QuietInv
<1> QED
  BY <1>1, Invariance, PTL

\* However many processes share the Redis, no more requests of a user or
\* account run than its limit, but for those that outlived their slot: whatever
\* crashes, answers of acquireScript lost, releases and clean-ups that fail; as
\* long as CleanupStaleProcessSlots does not run beside requests of a peer.
THEOREM Capped == Spec => ([]QuietStarts => []CapRespected)
<1>1. Inv /\ OpenInv => CapRespected
  <2> SUFFICES ASSUME Inv, OpenInv
               PROVE  CapRespected
    OBVIOUS
  <2>1. /\ slots \in SUBSET Requests /\ Outlived \in SUBSET Requests
        /\ Holders \in SUBSET Requests
        /\ slots \cap Outlived \in SUBSET Requests
        /\ lost \in Nat /\ MaxSlots \in Nat /\ opened["outlive"] \in Nat
    BY Types
  <2>2. Holders = slots \cup Outlived
    BY DEF Inv, SlotInv, Outlived
  <2>3. PICK a \in Nat, b \in Nat, c \in Nat, d \in Nat :
           /\ a = Cardinality(Holders) /\ b = Cardinality(slots)
           /\ c = Cardinality(Outlived) /\ d = Cardinality(slots \cap Outlived)
    BY <2>1, Finite
  <2>4. a = b + c - d
    BY <2>1, <2>2, <2>3, Finite, FS_Union
  <2>5. b + lost <= MaxSlots /\ c <= opened["outlive"]
    BY <2>3 DEF Inv, SlotInv, OpenInv, Count
  <2>6. a <= MaxSlots + opened["outlive"]
    BY <2>1, <2>3, <2>4, <2>5
  <2> QED
    BY <2>3, <2>6 DEF CapRespected
<1> QED
  BY <1>1, Invariance, OpenInvariance, PTL

\* Under the same condition the requests that wait are bounded, and not only
\* the counter: the queue holds no more than the counter says, but for the
\* times IncrementWaitCount failed and let the request wait.
THEOREM QueueCounted == Spec => ([]QuietStarts => []WaitersAreCounted)
<1>1. OpenInv => WaitersAreCounted
  BY DEF OpenInv, WaitersAreCounted
<1> QED
  BY <1>1, OpenInvariance, PTL

\* A process that has the Redis for itself keeps the limit without condition.
THEOREM CappedAlone == OneProcess => (Spec => []CapRespected)
<1>1. ASSUME OneProcess
      PROVE  Spec => []CapRespected
  <2>1. Spec => []QuietStarts
    BY <1>1, AloneIsQuiet
  <2> QED
    BY <2>1, Capped, PTL
<1> QED
  BY <1>1

\* So it does its queue.
THEOREM QueueCountedAlone == OneProcess => (Spec => []WaitersAreCounted)
<1>1. ASSUME OneProcess
      PROVE  Spec => []WaitersAreCounted
  <2>1. Spec => []QuietStarts
    BY <1>1, AloneIsQuiet
  <2> QED
    BY <2>1, QueueCounted, PTL
<1> QED
  BY <1>1

=============================================================================
