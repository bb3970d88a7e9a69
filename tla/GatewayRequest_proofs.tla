------------------------ MODULE GatewayRequest_proofs ------------------------
(***************************************************************************)
(* Proofs about what a request to the gateway depends on: the balance it   *)
(* is billed against (GatewayBilling, for any requests, prices, pool and   *)
(* cache queue, and any number of faults of any kind), and what is         *)
(* remembered of its key (AuthCache, for any processes, changes and        *)
(* faults).  The two modules share no state; each part below uses the      *)
(* definitions and the assumption of its own module only.                  *)
(***************************************************************************)
EXTENDS GatewayBilling, AuthCache, FiniteSetTheorems, TLAPS

-----------------------------------------------------------------------------
(***************************************************************************)
(* Part one: GatewayBilling.                                               *)
(***************************************************************************)

-----------------------------------------------------------------------------
(* Sums over sets of requests.                                             *)

\* The units of a sum are finitely many.
LEMMA UnitsFinite ==
    ASSUME BillingAssumption,
           NEW S \in SUBSET Requests, NEW f \in [Requests -> Nat]
    PROVE  IsFiniteSet(Units(f, S)) /\ Total(f, S) \in Nat
<1> DEFINE g == [r \in S |-> {r} \X (1 .. f[r])]
           T == {{r} \X (1 .. f[r]) : r \in S}
<1>1. IsFiniteSet(S)
  BY FS_Subset DEF BillingAssumption
<1>2. g \in Surjection(S, T)
  BY DEF Surjection
<1>3. IsFiniteSet(T)
  <2> HIDE DEF g, T
  <2> QED BY <1>1, <1>2, FS_Surjection
<1>4. ASSUME NEW r \in S PROVE IsFiniteSet({r} \X (1 .. f[r]))
  <2>1. f[r] \in Nat
    OBVIOUS
  <2>2. IsFiniteSet(1 .. f[r])
    BY <2>1, FS_Interval
  <2>3. IsFiniteSet({r})
    BY FS_Singleton
  <2> QED BY <2>2, <2>3, FS_Product
<1>5. \A U \in T : IsFiniteSet(U)
  BY <1>4
<1>6. IsFiniteSet(UNION T)
  <2> HIDE DEF T
  <2> QED BY <1>3, <1>5, FS_UNION
<1> QED BY <1>6, FS_CardinalityType DEF Units, Total

\* The sum over no request is 0.
LEMMA TotalEmpty == ASSUME NEW f PROVE Total(f, {}) = 0
BY FS_EmptySet DEF Total, Units

\* The sum over two sets that share no request.
LEMMA TotalUnion ==
    ASSUME BillingAssumption,
           NEW S \in SUBSET Requests, NEW R \in SUBSET Requests, S \cap R = {},
           NEW f \in [Requests -> Nat]
    PROVE  Total(f, S \cup R) = Total(f, S) + Total(f, R)
<1>1. Units(f, S \cup R) = Units(f, S) \cup Units(f, R)
  BY DEF Units
<1>2. Units(f, S) \cap Units(f, R) = {}
  <2>1. SUFFICES ASSUME NEW u \in Units(f, S), u \in Units(f, R) PROVE FALSE
    OBVIOUS
  <2>2. u[1] \in S /\ u[1] \in R
    BY <2>1 DEF Units
  <2> QED BY <2>2
<1>3. IsFiniteSet(Units(f, S)) /\ IsFiniteSet(Units(f, R))
  BY UnitsFinite
<1>4. Cardinality({}) = 0
  BY FS_EmptySet
<1>5. PICK m \in Nat : m = Cardinality(Units(f, S))
  BY UnitsFinite DEF Total
<1>6. PICK n \in Nat : n = Cardinality(Units(f, R))
  BY UnitsFinite DEF Total
<1>7. Cardinality(Units(f, S) \cup Units(f, R)) = m + n - 0
  BY <1>2, <1>3, <1>4, <1>5, <1>6, FS_Union
<1>8. Total(f, S \cup R) = m + n - 0 /\ Total(f, S) = m /\ Total(f, R) = n
  BY <1>1, <1>5, <1>6, <1>7 DEF Total
<1> QED BY <1>8

\* The sum over one request.
LEMMA TotalOne ==
    ASSUME NEW r, NEW f, f[r] \in Nat
    PROVE  Total(f, {r}) = f[r]
<1>1. Units(f, {r}) = {r} \X (1 .. f[r])
  BY DEF Units
<1>2. PICK n \in Nat : n = f[r]
  OBVIOUS
<1>3. IsFiniteSet(1 .. n) /\ Cardinality(1 .. n) = n
  BY FS_Interval
<1>4. IsFiniteSet({r}) /\ Cardinality({r}) = 1
  BY FS_Singleton
<1>5. Cardinality({r} \X (1 .. n)) = 1 * n
  BY <1>3, <1>4, FS_Product
<1>6. 1 * n = n
  OBVIOUS
<1>7. Total(f, {r}) = n
  BY <1>1, <1>2, <1>5, <1>6 DEF Total
<1> QED BY <1>2, <1>7

\* One request more.
LEMMA TotalMore ==
    ASSUME BillingAssumption,
           NEW S \in SUBSET Requests, NEW r \in Requests, r \notin S,
           NEW f \in [Requests -> Nat]
    PROVE  Total(f, S \cup {r}) = Total(f, S) + f[r]
<1>1. Total(f, {r}) = f[r]
  <2>1. f[r] \in Nat
    OBVIOUS
  <2> QED BY <2>1, TotalOne
<1>2. S \cap {r} = {} /\ {r} \in SUBSET Requests
  OBVIOUS
<1> QED BY <1>1, <1>2, TotalUnion

\* One request less.
LEMMA TotalLess ==
    ASSUME BillingAssumption,
           NEW S \in SUBSET Requests, NEW r \in S,
           NEW f \in [Requests -> Nat]
    PROVE  Total(f, S) = Total(f, S \ {r}) + f[r]
<1>1. (S \ {r}) \cup {r} = S /\ r \notin S \ {r}
  OBVIOUS
<1>2. S \ {r} \in SUBSET Requests /\ r \in Requests
  OBVIOUS
<1> QED BY <1>1, <1>2, TotalMore

\* More requests do not sum up to less.
LEMMA TotalSubset ==
    ASSUME BillingAssumption,
           NEW R \in SUBSET Requests, NEW S \in SUBSET R,
           NEW f \in [Requests -> Nat]
    PROVE  Total(f, S) <= Total(f, R)
<1>1. Units(f, S) \in SUBSET Units(f, R)
  BY DEF Units
<1>2. IsFiniteSet(Units(f, R))
  BY UnitsFinite
<1> QED BY <1>1, <1>2, FS_Subset DEF Total

\* Terms that are no more do not sum up to more.
LEMMA TotalLeq ==
    ASSUME BillingAssumption, NEW S \in SUBSET Requests,
           NEW f \in [Requests -> Nat], NEW g \in [Requests -> Nat],
           \A r \in S : f[r] <= g[r]
    PROVE  Total(f, S) <= Total(g, S)
<1>1. Units(f, S) \in SUBSET Units(g, S)
  <2>1. ASSUME NEW r \in S PROVE 1 .. f[r] \subseteq 1 .. g[r]
    <3>1. f[r] \in Nat /\ g[r] \in Nat /\ f[r] <= g[r]
      OBVIOUS
    <3> QED BY <3>1
  <2> QED BY <2>1 DEF Units
<1>2. IsFiniteSet(Units(g, S))
  BY UnitsFinite
<1> QED BY <1>1, <1>2, FS_Subset DEF Total

\* A sum depends on its terms alone.
LEMMA TotalSame ==
    ASSUME NEW S, NEW f, NEW g, \A r \in S : f[r] = g[r]
    PROVE  Total(f, S) = Total(g, S)
<1>1. Units(f, S) = Units(g, S)
  BY DEF Units
<1> QED BY <1>1 DEF Total

-----------------------------------------------------------------------------
(* Handles and charges.                                                    *)

Busy(r) == task[r] \in {"queued", "inline", "deduct", "invalidate"}
One(b)  == IF b THEN 1 ELSE 0

\* The references of a handle are those of its handler and of its task.
HandleOK(r) ==
    /\ req[r].refs = IF req[r].held
                     THEN One(req[r].pc # "end") + One(Busy(r)) ELSE 0
    /\ req[r].renewing => req[r].held /\ req[r].pc # "end"
    /\ req[r].release => req[r].held /\ req[r].refs = 0
    /\ req[r].pc \in {"new", "read", "reserve"} => ~req[r].held
    /\ req[r].pc \in {"new", "read", "reserve", "run"} => task[r] = "none"

\* A charge is within the estimate, and made once, by the task.
ChargeOK(r) ==
    /\ req[r].cost <= Amount[r]
    /\ r \in charged => task[r] \in {"deduct", "invalidate", "end"}
    /\ task[r] \in {"deduct", "invalidate"} => r \in charged

Requested == \A r \in Requests : HandleOK(r) /\ ChargeOK(r)

Typed == TypeOK /\ Requested

\* What a step of one request leaves of the others.
LEMMA OthersKeep ==
    ASSUME Requested, NEW r \in Requests,
           \A q \in Requests \ {r} :
              /\ req'[q] = req[q] /\ task'[q] = task[q]
              /\ q \in charged' <=> q \in charged,
           HandleOK(r)', ChargeOK(r)'
    PROVE  Requested'
<1> SUFFICES ASSUME NEW q \in Requests PROVE (HandleOK(q) /\ ChargeOK(q))'
  BY DEF Requested
<1>1. CASE q = r
  BY <1>1
<1>2. CASE q # r
  BY <1>2 DEF Requested, HandleOK, ChargeOK, Busy, One
<1> QED BY <1>1, <1>2

\* Only the spent fault changes the number of faults.
LEMMA FaultsTyped ==
    ASSUME BillingAssumption, faults \in 0 .. MaxFaults, slipped \in BOOLEAN,
           \/ NoFault
           \/ UNCHANGED faults /\ slipped' \in BOOLEAN
           \/ \E kind : Fault(kind) \/ Escape(kind)
    PROVE  faults' \in 0 .. MaxFaults /\ slipped' \in BOOLEAN
<1>1. MaxFaults \in Nat
  BY DEF BillingAssumption
<1>2. faults' \in 0 .. MaxFaults
  BY <1>1 DEF NoFault, Fault, Escape, Spend
<1>3. slipped' \in BOOLEAN
  BY DEF NoFault, Fault, Escape, Spend
<1> QED BY <1>2, <1>3

\* The state at the start.
LEMMA TypedInit == ASSUME BillingAssumption, Init PROVE Typed
<1>1. /\ balance \in Int /\ charged \in SUBSET Requests
      /\ cache \in Int \cup {None} /\ writes \in SUBSET Writes
      /\ live \in SUBSET Requests
  BY DEF BillingAssumption, Init
<1>2. req \in [Requests -> Handlers] /\ task \in [Requests -> TaskSteps]
  <2>1. Ended \in Handlers
    BY DEF Ended, Handlers, Steps
  <2>2. [Ended EXCEPT !.pc = "new"] \in Handlers
    BY <2>1 DEF Handlers, Steps
  <2>3. req \in [Requests -> Handlers]
    BY <2>2 DEF Init
  <2>4. task \in [Requests -> TaskSteps]
    BY DEF Init, TaskSteps
  <2> QED BY <2>3, <2>4
<1>3. slipped \in BOOLEAN
  BY DEF Init
<1>4. faults \in 0 .. MaxFaults
  BY DEF BillingAssumption, Init
<1>5. TypeOK
  BY <1>1, <1>2, <1>3, <1>4 DEF TypeOK
<1>6. Requested
  BY DEF BillingAssumption, Init, Requested, HandleOK, ChargeOK, Busy, One, Ended
<1> QED BY <1>5, <1>6 DEF Typed

\* A balance read is a number, and what is queued for the cache is a write.
LEMMA ReadTyped ==
    ASSUME BillingAssumption, TypeOK, NEW r \in Requests,
           NEW b \in {balance, cache} \ {None}, GetUserBalance(r, b)
    PROVE  b \in Int /\ writes' \in SUBSET Writes
                     /\ faults' \in 0 .. MaxFaults /\ slipped' \in BOOLEAN
<1>1. b \in Int
  BY DEF TypeOK
<1>2. writes' \in SUBSET Writes
  <2>1. [by |-> r, from |-> "load", value |-> b, late |-> FALSE] \in Writes
    BY <1>1 DEF Writes
  <2> QED BY <2>1 DEF GetUserBalance, Enqueue, Write, TypeOK
<1>3. \/ NoFault
      \/ \E kind : Fault(kind) \/ Escape(kind)
  BY DEF GetUserBalance
<1> QED BY <1>1, <1>2, <1>3, FaultsTyped DEF TypeOK

\* The eligibility check.
LEMMA TypedCheck ==
    ASSUME BillingAssumption, Typed, NEW r \in Requests, CheckEligibility(r)
    PROVE  Typed'
<1> USE DEF Typed
<1>1. PICK pc \in {"read", "end"} : req' = [req EXCEPT ![r].pc = pc]
  BY DEF CheckEligibility, Goto
<1>2. /\ writes' \in SUBSET Writes
      /\ faults' \in 0 .. MaxFaults /\ slipped' \in BOOLEAN
  <2>1. CASE \E b \in {balance, cache} \ {None} : GetUserBalance(r, b)
    BY <2>1, ReadTyped
  <2>2. CASE Fault("db") /\ UNCHANGED writes
    BY <2>2, FaultsTyped DEF TypeOK
  <2> QED BY <2>1, <2>2 DEF CheckEligibility
<1>3. TypeOK'
  BY <1>1, <1>2 DEF CheckEligibility, ByHandler, TypeOK, Handlers, Steps
<1>4. HandleOK(r) /\ ChargeOK(r) /\ req[r].pc = "new"
  BY DEF Requested, CheckEligibility, At
<1>5. req'[r] = [req[r] EXCEPT !.pc = pc]
  BY <1>1 DEF TypeOK
<1>6. HandleOK(r)' /\ ChargeOK(r)'
  BY <1>1, <1>4, <1>5 DEF CheckEligibility, ByHandler, TypeOK, Handlers,
     HandleOK, ChargeOK, Busy, One
<1>7. \A q \in Requests \ {r} : req'[q] = req[q]
  BY <1>1 DEF TypeOK
<1> QED BY <1>3, <1>6, <1>7, OthersKeep DEF CheckEligibility, ByHandler

\* Reading the balance again, for the reservation.
LEMMA TypedRead ==
    ASSUME BillingAssumption, Typed, NEW r \in Requests, ReadForReserve(r)
    PROVE  Typed'
<1> USE DEF Typed
<1>1. PICK pc \in {"reserve", "run"}, v \in Int :
         req' = [req EXCEPT ![r].pc = pc, ![r].seen = v]
  <2>1. CASE \E b \in {balance, cache} \ {None} :
                /\ GetUserBalance(r, b)
                /\ req' = [req EXCEPT ![r].pc = "reserve", ![r].seen = b]
    BY <2>1, ReadTyped
  <2>2. CASE Goto(r, "run")
    <3>1. req[r].seen \in Int
      BY DEF TypeOK, Handlers
    <3>2. req' = [req EXCEPT ![r].pc = "run", ![r].seen = req[r].seen]
      BY <2>2 DEF Goto, TypeOK, Handlers
    <3> QED BY <3>1, <3>2
  <2> QED BY <2>1, <2>2 DEF ReadForReserve
<1>2. /\ writes' \in SUBSET Writes
      /\ faults' \in 0 .. MaxFaults /\ slipped' \in BOOLEAN
  <2>1. CASE \E b \in {balance, cache} \ {None} : GetUserBalance(r, b)
    BY <2>1, ReadTyped
  <2>2. CASE Escape("db") /\ UNCHANGED writes
    BY <2>2, FaultsTyped DEF TypeOK
  <2> QED BY <2>1, <2>2 DEF ReadForReserve
<1>3. req[r] \in Handlers
  BY DEF TypeOK
<1> DEFINE h == [req[r] EXCEPT !.pc = pc, !.seen = v]
<1>4. /\ h \in Handlers /\ h.pc = pc /\ h.cost = req[r].cost
      /\ h.held = req[r].held /\ h.refs = req[r].refs
      /\ h.renewing = req[r].renewing /\ h.release = req[r].release
  BY <1>1, <1>3 DEF Handlers, Steps
<1>5. req' = [req EXCEPT ![r] = h]
  BY <1>1
<1> HIDE DEF h
<1>6. TypeOK'
  <2>1. req' \in [Requests -> Handlers]
    BY <1>4, <1>5 DEF TypeOK
  <2> QED BY <1>2, <2>1 DEF ReadForReserve, ByHandler, TypeOK
<1>7. HandleOK(r) /\ ChargeOK(r) /\ req[r].pc = "read"
  BY DEF Requested, ReadForReserve, At
<1>8. req'[r] = h
  BY <1>5 DEF TypeOK
<1>9. HandleOK(r)' /\ ChargeOK(r)'
  BY <1>1, <1>4, <1>7, <1>8 DEF ReadForReserve, ByHandler,
     HandleOK, ChargeOK, Busy, One
<1>10. \A q \in Requests \ {r} : req'[q] = req[q]
  BY <1>5 DEF TypeOK
<1> QED BY <1>6, <1>9, <1>10, OthersKeep DEF ReadForReserve, ByHandler

\* The reservation.
LEMMA TypedReserve ==
    ASSUME BillingAssumption, Typed, NEW r \in Requests, ReserveInflight(r)
    PROVE  Typed'
<1> USE DEF Typed
<1>1. \/ req' = [req EXCEPT ![r].pc = "run", ![r].seen = 0,
             ![r].held = TRUE, ![r].refs = 1, ![r].renewing = TRUE]
      \/ \E pc \in {"end", "run"} :
            req' = [req EXCEPT ![r].pc = pc, ![r].seen = 0]
  BY DEF ReserveInflight, Leave
<1>2. faults' \in 0 .. MaxFaults /\ slipped' \in BOOLEAN
  <2>1. (slipped \/ ~Current(req[r].seen)) \in BOOLEAN
    OBVIOUS
  <2>2. \/ NoFault
        \/ UNCHANGED faults /\ slipped' \in BOOLEAN
        \/ \E kind : Fault(kind) \/ Escape(kind)
    BY <2>1 DEF ReserveInflight
  <2> QED BY <2>2, FaultsTyped DEF TypeOK
<1>3. live' \in SUBSET Requests
  BY DEF ReserveInflight, TypeOK
<1>4. req' \in [Requests -> Handlers]
  BY <1>1 DEF TypeOK, Handlers, Steps
<1>5. TypeOK'
  BY <1>2, <1>3, <1>4 DEF ReserveInflight, ByHandler, TypeOK
<1>6. HandleOK(r) /\ ChargeOK(r) /\ req[r].pc = "reserve"
  BY DEF Requested, ReserveInflight, At
<1>7. HandleOK(r)' /\ ChargeOK(r)'
  <2>1. CASE req' = [req EXCEPT ![r].pc = "run", ![r].seen = 0,
             ![r].held = TRUE, ![r].refs = 1, ![r].renewing = TRUE]
    BY <1>6, <2>1 DEF ReserveInflight, ByHandler, TypeOK, Handlers,
       HandleOK, ChargeOK, Busy, One
  <2>2. CASE \E pc \in {"end", "run"} :
                req' = [req EXCEPT ![r].pc = pc, ![r].seen = 0]
    BY <1>6, <2>2 DEF ReserveInflight, ByHandler, TypeOK, Handlers,
       HandleOK, ChargeOK, Busy, One
  <2> QED BY <1>1, <2>1, <2>2
<1>8. \A q \in Requests \ {r} : req'[q] = req[q]
  BY <1>1 DEF TypeOK
<1> QED BY <1>5, <1>7, <1>8, OthersKeep DEF ReserveInflight, ByHandler

\* What Submit makes of the handle: the task's reference joins the handler's.
LEMMA AcquiredOne ==
    ASSUME NEW g \in Handlers, g.refs = IF g.held THEN 1 ELSE 0,
           NEW h, h = Acquired(g)
    PROVE  /\ h \in Handlers /\ h.pc = g.pc /\ h.cost = g.cost
           /\ h.held = g.held /\ h.release = g.release
           /\ h.renewing = g.renewing
           /\ h.refs = IF h.held THEN 2 ELSE 0
<1>1. h = [g EXCEPT !.refs = IF g.refs > 0 THEN g.refs + 1 ELSE g.refs]
  BY DEF Acquired, Handlers
<1>2. CASE g.held
  <2>1. h = [g EXCEPT !.refs = 2]
    BY <1>1, <1>2
  <2>2. h \in Handlers
    BY <2>1 DEF Handlers
  <2>3. /\ h.pc = g.pc /\ h.cost = g.cost /\ h.held = g.held /\ h.refs = 2
        /\ h.renewing = g.renewing /\ h.release = g.release
    BY <2>1 DEF Handlers
  <2> QED BY <1>2, <2>2, <2>3
<1>3. CASE ~g.held
  <2>1. h = [g EXCEPT !.refs = 0]
    BY <1>1, <1>3
  <2>2. h \in Handlers
    BY <2>1 DEF Handlers
  <2>3. /\ h.pc = g.pc /\ h.cost = g.cost /\ h.held = g.held /\ h.refs = 0
        /\ h.renewing = g.renewing /\ h.release = g.release
    BY <2>1 DEF Handlers
  <2> QED BY <1>3, <2>2, <2>3
<1> QED BY <1>2, <1>3

\* The answer, and what becomes of its billing task.
LEMMA TypedSubmit ==
    ASSUME BillingAssumption, Typed, NEW r \in Requests, Submit(r)
    PROVE  Typed'
<1> USE DEF Typed
<1>1. HandleOK(r) /\ ChargeOK(r) /\ req[r].pc = "run" /\ Amount[r] \in Nat
  BY DEF Requested, Submit, At, BillingAssumption
<1>2. PICK c \in 1 .. Amount[r], pc \in {"leave", "inline"} :
         LET h == [req[r] EXCEPT !.pc = pc, !.cost = c] IN
         \/ /\ pc = "leave" /\ TaskTo(r, "queued")
            /\ req' = [req EXCEPT ![r] = Acquired(h)]
         \/ /\ pc = "inline" /\ TaskTo(r, "inline")
            /\ req' = [req EXCEPT ![r] = Acquired(h)]
         \/ /\ pc = "leave" /\ TaskTo(r, "end")
            /\ req' = [req EXCEPT ![r] = h]
  BY DEF Submit
<1>3. c \in Nat /\ c <= Amount[r] /\ task[r] = "none" /\ r \notin charged
  BY <1>1, <1>2 DEF HandleOK, ChargeOK
<1> DEFINE g == [req[r] EXCEPT !.pc = pc, !.cost = c]
           h == Acquired(g)
<1>4. /\ g \in Handlers /\ g.pc = pc /\ g.cost = c
      /\ g.held = req[r].held /\ g.release = req[r].release
      /\ g.renewing = req[r].renewing
      /\ g.refs = IF g.held THEN 1 ELSE 0
      /\ ~g.release
  <2>1. /\ req[r] \in Handlers
        /\ req[r].refs = IF req[r].held THEN 1 ELSE 0
    BY <1>1, <1>3 DEF TypeOK, HandleOK, Busy, One
  <2>2. ~req[r].release
    BY <1>1, <2>1 DEF HandleOK
  <2> QED BY <1>2, <1>3, <2>1, <2>2 DEF Handlers, Steps
<1>5. /\ h \in Handlers /\ h.pc = pc /\ h.cost = c
      /\ h.held = req[r].held /\ h.release = req[r].release
      /\ h.renewing = req[r].renewing
      /\ h.refs = IF h.held THEN 2 ELSE 0
      /\ ~h.release
  <2> HIDE DEF g
  <2> QED BY <1>4, AcquiredOne
<1>6. \/ /\ req' = [req EXCEPT ![r] = h]
         /\ task' = [task EXCEPT ![r] = IF pc = "leave" THEN "queued" ELSE "inline"]
      \/ /\ req' = [req EXCEPT ![r] = g] /\ pc = "leave"
         /\ task' = [task EXCEPT ![r] = "end"]
  BY <1>2 DEF TaskTo
<1> HIDE DEF g, h
<1>7. req' \in [Requests -> Handlers] /\ task' \in [Requests -> TaskSteps]
  BY <1>4, <1>5, <1>6 DEF TypeOK, TaskSteps
<1>8. faults' \in 0 .. MaxFaults /\ slipped' \in BOOLEAN
  BY FaultsTyped DEF Submit, TypeOK
<1>9. TypeOK'
  BY <1>7, <1>8 DEF Submit, TypeOK
<1>10. \/ req'[r] = h /\ task'[r] \in {"queued", "inline"}
       \/ req'[r] = g /\ pc = "leave" /\ task'[r] = "end"
  BY <1>6 DEF TypeOK
<1>11. HandleOK(r)'
  BY <1>1, <1>2, <1>4, <1>5, <1>10 DEF HandleOK, Busy, One
<1>12. ChargeOK(r)'
  BY <1>3, <1>4, <1>5, <1>10 DEF ChargeOK, Submit
<1>13. \A q \in Requests \ {r} : req'[q] = req[q] /\ task'[q] = task[q]
  BY <1>6 DEF TypeOK
<1> QED BY <1>9, <1>11, <1>12, <1>13, OthersKeep DEF Submit

\* An answer that fails.
LEMMA TypedUnanswered ==
    ASSUME BillingAssumption, Typed, NEW r \in Requests, Unanswered(r)
    PROVE  Typed'
<1> USE DEF Typed
<1>1. req' = [req EXCEPT ![r].pc = "leave"]
  BY DEF Unanswered, Goto
<1>2. TypeOK'
  <2>1. req' \in [Requests -> Handlers]
    BY <1>1 DEF TypeOK, Handlers, Steps
  <2>2. faults' \in 0 .. MaxFaults /\ slipped' \in BOOLEAN
    BY FaultsTyped DEF Unanswered, TypeOK
  <2> QED BY <2>1, <2>2 DEF Unanswered, ByHandler, TypeOK
<1>3. HandleOK(r) /\ ChargeOK(r) /\ req[r].pc = "run"
  BY DEF Requested, Unanswered, At
<1>4. req'[r] = [req[r] EXCEPT !.pc = "leave"]
  BY <1>1 DEF TypeOK
<1>5. HandleOK(r)' /\ ChargeOK(r)'
  BY <1>3, <1>4 DEF Unanswered, ByHandler, TypeOK, Handlers,
     HandleOK, ChargeOK, Busy, One
<1>6. \A q \in Requests \ {r} : req'[q] = req[q]
  BY <1>1 DEF TypeOK
<1> QED BY <1>2, <1>5, <1>6, OthersKeep DEF Unanswered, ByHandler

\* What decRef makes of a handle.
LEMMA DroppedOne ==
    ASSUME NEW g \in Handlers, NEW h, h = Dropped(g)
    PROVE  /\ h \in Handlers /\ h.pc = g.pc /\ h.cost = g.cost
           /\ h.held = g.held /\ h.renewing = g.renewing
           /\ h.refs = IF g.refs = 0 THEN 0 ELSE g.refs - 1
           /\ h.release <=> IF g.refs = 0 THEN g.release ELSE g.refs = 1
<1>1. CASE g.refs = 0
  BY <1>1 DEF Dropped
<1>2. CASE g.refs # 0
  <2>1. g.refs - 1 \in 0 .. 2 /\ (g.refs = 1) \in BOOLEAN
    BY <1>2 DEF Handlers
  <2>2. h = [g EXCEPT !.refs = g.refs - 1, !.release = g.refs = 1]
    BY <1>2 DEF Dropped, Handlers
  <2>3. h \in Handlers
    BY <2>1, <2>2 DEF Handlers
  <2>4. /\ h.pc = g.pc /\ h.cost = g.cost
        /\ h.held = g.held /\ h.renewing = g.renewing
        /\ h.refs = g.refs - 1
        /\ h.release = (g.refs = 1)
    BY <2>2 DEF Handlers
  <2> QED BY <1>2, <2>3, <2>4
<1> QED BY <1>1, <1>2

\* The handler's reference is returned.
LEMMA TypedHandlerDone ==
    ASSUME BillingAssumption, Typed, NEW r \in Requests, HandlerDone(r)
    PROVE  Typed'
<1> USE DEF Typed
<1> DEFINE d == Dropped(req[r])
           h == [d EXCEPT !.pc = "end", !.renewing = FALSE]
<1>1. /\ req[r] \in Handlers /\ HandleOK(r) /\ ChargeOK(r)
      /\ req[r].pc \in {"leave", "inline"}
  BY DEF Requested, TypeOK, HandlerDone, At
<1>2. /\ d \in Handlers /\ d.cost = req[r].cost /\ d.held = req[r].held
      /\ d.refs = IF req[r].refs = 0 THEN 0 ELSE req[r].refs - 1
      /\ d.release <=> IF req[r].refs = 0 THEN req[r].release
                                            ELSE req[r].refs = 1
  BY <1>1, DroppedOne
<1>3. req' = [req EXCEPT ![r] = h]
  BY DEF HandlerDone, TypeOK
<1> HIDE DEF d
<1>4. /\ h \in Handlers /\ h.pc = "end" /\ h.renewing = FALSE
      /\ h.cost = d.cost /\ h.held = d.held /\ h.refs = d.refs
      /\ h.release = d.release
  BY <1>2 DEF Handlers, Steps
<1> HIDE DEF h
<1>5. TypeOK'
  <2>1. req' \in [Requests -> Handlers]
    BY <1>3, <1>4 DEF TypeOK
  <2>2. faults' \in 0 .. MaxFaults /\ slipped' \in BOOLEAN
    BY FaultsTyped DEF HandlerDone, TypeOK
  <2> QED BY <2>1, <2>2 DEF HandlerDone, ByHandler, TypeOK
<1>6. req'[r] = h /\ UNCHANGED <<task, charged>>
  BY <1>3 DEF HandlerDone, ByHandler, TypeOK
<1>7. HandleOK(r)'
  <2>1. CASE req[r].held
    <3>1. req[r].refs = IF Busy(r) THEN 2 ELSE 1
      BY <1>1, <2>1 DEF HandleOK, One
    <3>2. /\ h.refs = IF Busy(r) THEN 1 ELSE 0
          /\ h.release => h.refs = 0
      BY <1>2, <1>4, <3>1
    <3>3. Busy(r)' <=> Busy(r)
      BY <1>6 DEF Busy
    <3>4. h.refs = One(h.pc # "end") + One(Busy(r)')
      BY <1>4, <3>2, <3>3 DEF One
    <3>5. h.held /\ ~h.renewing
      BY <1>2, <1>4, <2>1
    <3> QED BY <1>4, <1>6, <3>2, <3>4, <3>5 DEF HandleOK
  <2>2. CASE ~req[r].held
    BY <1>1, <1>2, <1>4, <1>6, <2>2 DEF HandleOK, Busy, One
  <2> QED BY <2>1, <2>2
<1>8. ChargeOK(r)'
  BY <1>1, <1>2, <1>4, <1>6 DEF ChargeOK
<1>9. \A q \in Requests \ {r} : req'[q] = req[q]
  BY <1>3 DEF TypeOK
<1> QED BY <1>5, <1>6, <1>7, <1>8, <1>9, OthersKeep

\* The reservation is given back.
LEMMA TypedRelease ==
    ASSUME BillingAssumption, Typed, NEW r \in Requests, Release(r)
    PROVE  Typed'
<1> USE DEF Typed
<1>1. req' = [req EXCEPT ![r].release = FALSE]
  BY DEF Release
<1>2. TypeOK'
  <2>1. req' \in [Requests -> Handlers]
    BY <1>1 DEF TypeOK, Handlers
  <2>2. faults' \in 0 .. MaxFaults /\ slipped' \in BOOLEAN
    BY FaultsTyped DEF Release, TypeOK
  <2>3. live' \in SUBSET Requests
    BY DEF Release, TypeOK
  <2> QED BY <2>1, <2>2, <2>3 DEF Release, ByHandler, TypeOK
<1>3. HandleOK(r) /\ ChargeOK(r)
  BY DEF Requested
<1>4. req'[r] = [req[r] EXCEPT !.release = FALSE]
  BY <1>1 DEF TypeOK
<1>5. HandleOK(r)' /\ ChargeOK(r)'
  BY <1>3, <1>4 DEF Release, ByHandler, TypeOK, Handlers,
     HandleOK, ChargeOK, Busy, One
<1>6. \A q \in Requests \ {r} : req'[q] = req[q]
  BY <1>1 DEF TypeOK
<1> QED BY <1>2, <1>5, <1>6, OthersKeep DEF Release, ByHandler

\* The end of a task returns its reference, whatever it did.
LEMMA TypedTaskEnds ==
    ASSUME BillingAssumption, Typed, NEW r \in Requests, Busy(r), TaskEnds(r),
           \A q \in Requests \ {r} : q \in charged' <=> q \in charged
    PROVE  /\ req' \in [Requests -> Handlers] /\ task' \in [Requests -> TaskSteps]
           /\ Requested'
           /\ \A q \in Requests \ {r} : req'[q] = req[q] /\ task'[q] = task[q]
           /\ req'[r].pc = req[r].pc /\ req'[r].cost = req[r].cost
           /\ req'[r].held = req[r].held /\ task'[r] = "end"
           /\ req'[r].release <=> IF req[r].refs = 0 THEN req[r].release
                                                    ELSE req[r].refs = 1
<1> USE DEF Typed
<1> DEFINE h == Dropped(req[r])
<1>1. req[r] \in Handlers /\ HandleOK(r) /\ ChargeOK(r)
  BY DEF Requested, TypeOK
<1>2. /\ h \in Handlers /\ h.pc = req[r].pc /\ h.cost = req[r].cost
      /\ h.held = req[r].held /\ h.renewing = req[r].renewing
      /\ h.refs = IF req[r].refs = 0 THEN 0 ELSE req[r].refs - 1
      /\ h.release <=> IF req[r].refs = 0 THEN req[r].release
                                            ELSE req[r].refs = 1
  BY <1>1, DroppedOne
<1>3. req' = [req EXCEPT ![r] = h] /\ task' = [task EXCEPT ![r] = "end"]
  BY DEF TaskEnds, TaskTo, TypeOK
<1> HIDE DEF h
<1>4. req' \in [Requests -> Handlers] /\ task' \in [Requests -> TaskSteps]
  BY <1>2, <1>3 DEF TypeOK, TaskSteps
<1>5. req'[r] = h /\ task'[r] = "end"
  BY <1>3 DEF TypeOK
<1>6. HandleOK(r)'
  <2>1. CASE req[r].held
    <3>1. req[r].refs = IF req[r].pc = "end" THEN 1 ELSE 2
      BY <1>1, <2>1 DEF HandleOK, One
    <3>2. /\ h.refs = IF req[r].pc = "end" THEN 0 ELSE 1
          /\ h.release => h.refs = 0
      BY <1>2, <3>1
    <3>3. ~Busy(r)'
      BY <1>5 DEF Busy
    <3>4. h.refs = One(h.pc # "end") + One(Busy(r)')
      BY <1>2, <3>2, <3>3 DEF One
    <3>5. h.held /\ (h.renewing => h.pc # "end")
      BY <1>1, <1>2, <2>1 DEF HandleOK
    <3>6. h.pc \notin {"new", "read", "reserve", "run"}
      BY <1>1, <1>2 DEF HandleOK, Busy
    <3> QED BY <1>5, <3>2, <3>4, <3>5, <3>6 DEF HandleOK
  <2>2. CASE ~req[r].held
    BY <1>1, <1>2, <1>5, <2>2 DEF HandleOK, Busy, One
  <2> QED BY <2>1, <2>2
<1>7. ChargeOK(r)'
  BY <1>1, <1>2, <1>5 DEF ChargeOK
<1>8. \A q \in Requests \ {r} : req'[q] = req[q] /\ task'[q] = task[q]
  BY <1>3 DEF TypeOK
<1>9. Requested'
  BY <1>6, <1>7, <1>8, OthersKeep
<1> QED BY <1>2, <1>4, <1>5, <1>8, <1>9

\* The cost of an answer is a number.
LEMMA CostTyped ==
    ASSUME TypeOK, NEW r \in Requests
    PROVE  req[r].cost \in Nat /\ balance - req[r].cost \in Int
BY DEF TypeOK, Handlers

\* Lowering the cached balance.
LEMMA LowerTyped ==
    ASSUME cache \in Int \cup {None}, NEW c \in Nat, Lower(c)
    PROVE  cache' \in Int \cup {None}
BY DEF Lower

\* The charge.
LEMMA TypedApply ==
    ASSUME BillingAssumption, Typed, NEW r \in Requests, Apply(r)
    PROVE  Typed'
<1> USE DEF Typed
<1>1. /\ HandleOK(r) /\ ChargeOK(r) /\ Busy(r)
      /\ task[r] \in {"queued", "inline"}
  BY DEF Requested, Apply, Busy
<1>2. /\ faults' \in 0 .. MaxFaults /\ slipped' \in BOOLEAN
      /\ balance' \in Int /\ charged' \in SUBSET Requests
  <2>1. faults' \in 0 .. MaxFaults /\ slipped' \in BOOLEAN
    BY FaultsTyped DEF Apply, TypeOK
  <2> QED BY <2>1, CostTyped DEF Apply, Charge, TypeOK
<1>3. \A q \in Requests \ {r} : q \in charged' <=> q \in charged
  BY DEF Apply, Charge
<1>4. CASE TaskEnds(r)
  BY <1>1, <1>2, <1>3, <1>4, TypedTaskEnds DEF Apply, TypeOK
<1>5. CASE \E pc \in {"deduct", "invalidate"} : Charge(r) /\ TaskGoes(r, pc)
  <2>1. PICK pc \in {"deduct", "invalidate"} : Charge(r) /\ TaskGoes(r, pc)
    BY <1>5
  <2>2. req' = req /\ task' = [task EXCEPT ![r] = pc]
    BY <2>1 DEF TaskGoes, TaskTo
  <2>3. task' \in [Requests -> TaskSteps]
    BY <2>2 DEF TypeOK, TaskSteps
  <2>4. TypeOK'
    BY <1>2, <2>2, <2>3 DEF Apply, TypeOK
  <2>5. task'[r] = pc /\ r \in charged'
    BY <2>1, <2>2 DEF Charge, TypeOK
  <2>6. \A q \in Requests \ {r} : task'[q] = task[q]
    BY <2>2 DEF TypeOK
  <2>7. HandleOK(r)' /\ ChargeOK(r)'
    BY <1>1, <2>2, <2>5 DEF HandleOK, ChargeOK, Busy, One
  <2> QED BY <1>3, <2>2, <2>4, <2>6, <2>7, OthersKeep
<1> QED BY <1>4, <1>5 DEF Apply

\* The cached balance takes the charge.
LEMMA TypedDeduct ==
    ASSUME BillingAssumption, Typed, NEW r \in Requests, DeductCache(r)
    PROVE  Typed'
<1> USE DEF Typed
<1>1. req[r].cost \in Nat
  BY CostTyped
<1>2. Busy(r) /\ TaskEnds(r) /\ UNCHANGED charged
  BY DEF DeductCache, Busy
<1>3. faults' \in 0 .. MaxFaults /\ slipped' \in BOOLEAN
  BY FaultsTyped DEF DeductCache, TypeOK
<1>4. cache' \in Int \cup {None}
  BY <1>1, LowerTyped DEF DeductCache, TypeOK
<1>5. writes' \in SUBSET Writes
  <2>1. Write(r, "deduct", req[r].cost) \subseteq Writes
    BY <1>1 DEF Write, Writes
  <2>2. Late(writes) \subseteq Writes
    BY DEF Late, TypeOK, Writes
  <2> QED BY <2>1, <2>2 DEF DeductCache, Enqueue, TypeOK
<1>6. /\ req' \in [Requests -> Handlers] /\ task' \in [Requests -> TaskSteps]
      /\ Requested'
  BY <1>2, TypedTaskEnds
<1> QED BY <1>2, <1>3, <1>4, <1>5, <1>6 DEF DeductCache, TypeOK

\* The cached balance is removed.
LEMMA TypedInvalidate ==
    ASSUME BillingAssumption, Typed, NEW r \in Requests, InvalidateCache(r)
    PROVE  Typed'
<1> USE DEF Typed
<1>1. Busy(r) /\ TaskEnds(r) /\ UNCHANGED charged
  BY DEF InvalidateCache, Busy
<1>2. faults' \in 0 .. MaxFaults /\ slipped' \in BOOLEAN
  BY FaultsTyped DEF InvalidateCache, TypeOK
<1>3. cache' \in Int \cup {None}
  BY DEF InvalidateCache, TypeOK
<1>4. writes' \in SUBSET Writes
  <2>1. Late(writes) \subseteq Writes
    BY DEF Late, TypeOK, Writes
  <2> QED BY <2>1 DEF InvalidateCache, TypeOK
<1>5. /\ req' \in [Requests -> Handlers] /\ task' \in [Requests -> TaskSteps]
      /\ Requested'
  BY <1>1, TypedTaskEnds
<1> QED BY <1>1, <1>2, <1>3, <1>4, <1>5 DEF InvalidateCache, TypeOK

\* Steps that leave the requests alone keep what is known of them.
LEMMA RequestedKept ==
    ASSUME Requested, UNCHANGED <<req, task, charged>>
    PROVE  Requested'
BY DEF Requested, HandleOK, ChargeOK, Busy, One

\* A worker writes to the cache.
LEMMA TypedCacheWrite ==
    ASSUME BillingAssumption, Typed, NEW w \in writes, CacheWrite(w)
    PROVE  Typed'
<1> USE DEF Typed
<1>1. w \in Writes
  BY DEF TypeOK
<1>2. faults' \in 0 .. MaxFaults /\ slipped' \in BOOLEAN
  <2>1. (slipped \/ w.late) \in BOOLEAN
    OBVIOUS
  <2>2. \/ NoFault
        \/ UNCHANGED faults /\ slipped' \in BOOLEAN
        \/ \E kind : Fault(kind) \/ Escape(kind)
    BY <2>1 DEF CacheWrite
  <2> QED BY <2>2, FaultsTyped DEF TypeOK
<1>3. cache' \in Int \cup {None}
  <2>1. w.value \in Int
    BY <1>1 DEF Writes
  <2> QED BY <2>1 DEF CacheWrite, Lower, TypeOK
<1>4. writes' \in SUBSET Writes
  BY DEF CacheWrite, TypeOK
<1> QED BY <1>2, <1>3, <1>4, RequestedKept DEF CacheWrite, ByRedis, TypeOK

\* Entries of Redis run out.
LEMMA TypedExpires ==
    ASSUME BillingAssumption, Typed,
           \/ CacheExpires
           \/ \E r \in Requests : Lapse(r) \/ LapseInUse(r)
    PROVE  Typed'
<1> USE DEF Typed
<1>1. UNCHANGED <<balance, charged, task, writes, req>>
  BY DEF CacheExpires, Lapse, LapseInUse, ByRedis
<1>2. faults' \in 0 .. MaxFaults /\ slipped' \in BOOLEAN
  BY FaultsTyped DEF CacheExpires, Lapse, LapseInUse, TypeOK
<1>3. cache' \in Int \cup {None} /\ live' \in SUBSET Requests
  BY DEF CacheExpires, Lapse, LapseInUse, TypeOK
<1> QED BY <1>1, <1>2, <1>3, RequestedKept DEF TypeOK

\* A process ends.
LEMMA TypedCrash ==
    ASSUME BillingAssumption, Typed, NEW r \in Requests, Crash(r)
    PROVE  Typed'
<1> USE DEF Typed
<1>1. req' = [req EXCEPT ![r] = Ended] /\ task' = [task EXCEPT ![r] = "end"]
  BY DEF Crash, TaskTo
<1>2. /\ Ended \in Handlers /\ Ended.pc = "end" /\ Ended.refs = 0
      /\ Ended.held = FALSE /\ Ended.renewing = FALSE
      /\ Ended.release = FALSE /\ Ended.cost = 0
  BY DEF Ended, Handlers, Steps
<1>3. req' \in [Requests -> Handlers] /\ task' \in [Requests -> TaskSteps]
  BY <1>1, <1>2 DEF TypeOK, TaskSteps
<1>4. faults' \in 0 .. MaxFaults /\ slipped' \in BOOLEAN
  BY FaultsTyped DEF Crash, TypeOK
<1>5. writes' \in SUBSET Writes
  BY DEF Crash, TypeOK
<1>6. TypeOK'
  BY <1>3, <1>4, <1>5 DEF Crash, TypeOK
<1>7. req'[r] = Ended /\ task'[r] = "end" /\ UNCHANGED charged
  BY <1>1 DEF Crash, TypeOK
<1>8. Amount[r] \in Nat
  BY DEF BillingAssumption
<1>9. HandleOK(r)' /\ ChargeOK(r)'
  BY <1>2, <1>7, <1>8 DEF HandleOK, ChargeOK
<1>10. \A q \in Requests \ {r} : req'[q] = req[q] /\ task'[q] = task[q]
  BY <1>1 DEF TypeOK
<1> QED BY <1>6, <1>7, <1>9, <1>10, OthersKeep

\* Every step.
LEMMA TypedStep ==
    ASSUME BillingAssumption, Typed, [Next]_vars
    PROVE  Typed'
<1>1. CASE Next
  BY <1>1, TypedCheck, TypedRead, TypedReserve, TypedSubmit, TypedUnanswered,
     TypedHandlerDone, TypedRelease, TypedApply, TypedDeduct,
     TypedInvalidate, TypedCacheWrite, TypedExpires, TypedCrash
     DEF Next, Handle, Bill
<1>2. CASE UNCHANGED vars
  BY <1>2, RequestedKept DEF Typed, TypeOK, vars
<1> QED BY <1>1, <1>2

-----------------------------------------------------------------------------
(* Reservations.                                                           *)

\* Requests that may still be charged.
Out == {r \in Requests :
          req[r].pc = "run" \/ task[r] \in {"queued", "inline"}}

Kept ==
    /\ ReservedIffInUse
    /\ ~slipped => \A r \in Out : req[r].held

\* The faults of a step, and whether they let the accounting slip.
LEMMA FaultsOf ==
    ASSUME BillingAssumption, Typed
    PROVE  /\ NoFault => slipped' = slipped /\ faults' = faults
           /\ \A kind : Fault(kind) => slipped' = slipped /\ faults' # MaxFaults
           /\ \A kind : Escape(kind) => slipped' /\ faults' # MaxFaults
<1>1. MaxFaults \in Nat /\ faults \in 0 .. MaxFaults
  BY DEF BillingAssumption, Typed, TypeOK
<1>2. \A kind : Spend(kind) => faults' # MaxFaults
  BY <1>1 DEF Spend
<1>3. \A kind : Escape(kind) => slipped'
  BY DEF Escape
<1> QED BY <1>2, <1>3 DEF NoFault, Fault, Escape

\* What a step of one request leaves of the reservations of the others.
LEMMA KeptOthers ==
    ASSUME Kept, NEW r \in Requests,
           slipped => slipped', faults' = MaxFaults => faults = MaxFaults,
           \A q \in Requests \ {r} :
              /\ req'[q] = req[q] /\ task'[q] = task[q]
              /\ q \in live' <=> q \in live,
           live' \subseteq Requests,
           ~slipped' => (InUse(r)' => r \in live'),
           faults' = MaxFaults => (r \in live' => InUse(r)'),
           ~slipped' => (r \in Out' => req'[r].held)
    PROVE  Kept'
<1>1. \A q \in Requests \ {r} : InUse(q)' <=> InUse(q)
  BY DEF InUse
<1>2. \A q \in Requests \ {r} : q \in Out' <=> q \in Out
  BY DEF Out
<1>3. ~slipped' => \A q \in Requests : InUse(q)' => q \in live'
  BY <1>1 DEF Kept, ReservedIffInUse
<1>4. faults' = MaxFaults => \A q \in live' : InUse(q)'
  BY <1>1 DEF Kept, ReservedIffInUse
<1>5. ~slipped' => \A q \in Out' : req'[q].held
  <2>1. \A q \in Out' : q \in Requests
    BY DEF Out
  <2> QED BY <1>2, <2>1 DEF Kept
<1> QED BY <1>3, <1>4, <1>5 DEF Kept, ReservedIffInUse

\* When a reservation is in use, and where its request then is.
LEMMA InUseIs ==
    ASSUME Typed, NEW r \in Requests
    PROVE  /\ InUse(r) <=> \/ req[r].held /\ (req[r].pc # "end" \/ Busy(r))
                           \/ req[r].release
           /\ req[r].pc # "end" \/ Busy(r) =>
                 ~req[r].release /\ (InUse(r) <=> req[r].held)
           /\ r \in Out => /\ req[r].pc # "end" \/ Busy(r)
                           /\ InUse(r) <=> req[r].held
<1>1. task[r] \in TaskSteps /\ HandleOK(r)
  BY DEF Typed, TypeOK, Requested
<1>2. Busy(r) <=> task[r] \in TaskSteps \ {"none", "end"}
  BY <1>1 DEF Busy, TaskSteps
<1>3. InUse(r) <=> \/ req[r].held /\ (req[r].pc # "end" \/ Busy(r))
                   \/ req[r].release
  BY <1>2 DEF InUse
<1>4. ASSUME req[r].pc # "end" \/ Busy(r) PROVE ~req[r].release
  <2>1. SUFFICES ASSUME req[r].release PROVE FALSE
    OBVIOUS
  <2>2. /\ req[r].held /\ req[r].refs = 0
        /\ req[r].refs = One(req[r].pc # "end") + One(Busy(r))
    BY <1>1, <2>1 DEF HandleOK
  <2>3. CASE req[r].pc # "end"
    <3>1. One(req[r].pc # "end") = 1 /\ One(Busy(r)) \in {0, 1}
      BY <2>3 DEF One
    <3> QED BY <2>2, <3>1
  <2>4. CASE Busy(r)
    <3>1. One(req[r].pc # "end") \in {0, 1} /\ One(Busy(r)) = 1
      BY <2>4 DEF One
    <3> QED BY <2>2, <3>1
  <2> QED BY <1>4, <2>3, <2>4
<1>5. r \in Out => req[r].pc # "end" \/ Busy(r)
  BY DEF Out, Busy
<1> QED BY <1>3, <1>4, <1>5

\* Before its admission a request uses no reservation.
LEMMA NotYetInUse ==
    ASSUME Typed, NEW r \in Requests, req[r].pc \in {"new", "read", "reserve"}
    PROVE  ~req[r].held /\ ~req[r].release /\ ~InUse(r) /\ ~Busy(r)
<1>1. HandleOK(r)
  BY DEF Typed, Requested
<1>2. ~req[r].held /\ ~req[r].release /\ task[r] = "none"
  BY <1>1 DEF HandleOK
<1> QED BY <1>2 DEF InUse, Busy

\* A request keeps its place in front of its admission.
LEMMA KeptBefore ==
    ASSUME BillingAssumption, Typed, Typed', Kept, NEW r \in Requests,
           CheckEligibility(r) \/ ReadForReserve(r)
    PROVE  Kept'
<1>1. req[r].pc \in {"new", "read"}
  BY DEF CheckEligibility, ReadForReserve, At
<1>2. ~req[r].held /\ ~req[r].release /\ ~InUse(r) /\ ~Busy(r)
  BY <1>1, NotYetInUse
<1>3. slipped => slipped'
  BY FaultsOf DEF CheckEligibility, ReadForReserve, GetUserBalance
<1>4. faults' = MaxFaults => faults = MaxFaults
  BY FaultsOf DEF CheckEligibility, ReadForReserve, GetUserBalance
<1>5. UNCHANGED <<live, task>>
  BY DEF CheckEligibility, ReadForReserve, ByHandler
<1>6. PICK pc \in Steps :
         /\ \E b : req' = [req EXCEPT ![r].pc = pc, ![r].seen = b]
         /\ pc = "run" => slipped'
  <2>1. CASE \E pc \in {"read", "end"} : Goto(r, pc)
    <3>1. PICK pc \in {"read", "end"} : Goto(r, pc)
      BY <2>1
    <3>2. req' = [req EXCEPT ![r].pc = pc, ![r].seen = req[r].seen]
      BY <3>1 DEF Goto, Typed, TypeOK, Handlers
    <3> QED BY <3>2 DEF Steps
  <2>2. CASE \E b : req' = [req EXCEPT ![r].pc = "reserve", ![r].seen = b]
    BY <2>2 DEF Steps
  <2>3. CASE Escape("db") /\ Goto(r, "run")
    <3>1. req' = [req EXCEPT ![r].pc = "run", ![r].seen = req[r].seen]
      BY <2>3 DEF Goto, Typed, TypeOK, Handlers
    <3>2. slipped'
      BY <2>3, FaultsOf
    <3> QED BY <3>1, <3>2 DEF Steps
  <2> QED BY <2>1, <2>2, <2>3 DEF CheckEligibility, ReadForReserve
<1>7. PICK b : /\ req' = [req EXCEPT ![r].pc = pc, ![r].seen = b]
               /\ req'[r] = [req[r] EXCEPT !.pc = pc, !.seen = b]
  BY <1>6 DEF Typed, TypeOK
<1>8. req'[r].held = req[r].held /\ req'[r].release = req[r].release
      /\ req'[r].pc = pc
  BY <1>7 DEF Typed, TypeOK, Handlers
<1>9. ~InUse(r)'
  BY <1>2, <1>5, <1>8 DEF InUse
<1>10. \A q \in Requests \ {r} : req'[q] = req[q]
  BY <1>7 DEF Typed, TypeOK
<1>11. ~slipped' => r \notin Out'
  BY <1>2, <1>5, <1>6, <1>8 DEF Out, Busy
<1>12. faults' = MaxFaults => (r \in live' => InUse(r)')
  BY <1>2, <1>4, <1>5 DEF Kept, ReservedIffInUse
<1>13. live' \subseteq Requests
  BY DEF Typed, TypeOK
<1> QED BY <1>3, <1>4, <1>5, <1>9, <1>10, <1>11, <1>12, <1>13, KeptOthers

\* Admission registers the reservation that the handle stands for.
LEMMA KeptReserve ==
    ASSUME BillingAssumption, Typed, Typed', Kept, NEW r \in Requests,
           ReserveInflight(r)
    PROVE  Kept'
<1>1. ~req[r].held /\ ~req[r].release /\ ~InUse(r) /\ ~Busy(r)
  BY NotYetInUse DEF ReserveInflight, At
<1>2. UNCHANGED task /\ live' \subseteq Requests
  BY DEF ReserveInflight, ByHandler, Typed, TypeOK
<1>3. CASE /\ live' = live \cup {r}
           /\ req' = [req EXCEPT ![r].pc = "run", ![r].seen = 0,
                ![r].held = TRUE, ![r].refs = 1, ![r].renewing = TRUE]
           /\ UNCHANGED faults /\ slipped' = (slipped \/ ~Current(req[r].seen))
  <2>1. req'[r].held /\ req'[r].pc = "run"
    BY <1>3 DEF Typed, TypeOK, Handlers
  <2>2. InUse(r)' /\ r \in live'
    BY <1>3, <2>1 DEF InUse
  <2>3. \A q \in Requests \ {r} :
           req'[q] = req[q] /\ (q \in live' <=> q \in live)
    BY <1>3 DEF Typed, TypeOK
  <2> QED BY <1>2, <1>3, <2>1, <2>2, <2>3, KeptOthers
<1>4. CASE Leave(r, "end") /\ UNCHANGED live /\ NoFault
  <2>1. req'[r] = [req[r] EXCEPT !.pc = "end", !.seen = 0]
    BY <1>4 DEF Leave, Typed, TypeOK, Handlers
  <2>2. req'[r].held = req[r].held /\ req'[r].pc = "end"
        /\ req'[r].release = req[r].release
    BY <2>1 DEF Typed, TypeOK, Handlers
  <2>3. ~InUse(r)' /\ r \notin Out'
    BY <1>1, <1>2, <2>2 DEF InUse, Out, Busy
  <2>4. \A q \in Requests \ {r} : req'[q] = req[q]
    BY <1>4 DEF Leave, Typed, TypeOK
  <2>5. faults' = MaxFaults => r \notin live'
    BY <1>1, <1>4, FaultsOf DEF Kept, ReservedIffInUse
  <2> QED BY <1>2, <1>4, <2>3, <2>4, <2>5, FaultsOf, KeptOthers
<1>5. CASE \E kind : Escape(kind)
  BY <1>5, FaultsOf DEF Kept, ReservedIffInUse
<1> QED BY <1>3, <1>4, <1>5 DEF ReserveInflight

\* A request that goes on under the handle it has.
LEMMA KeptGoingOn ==
    ASSUME BillingAssumption, Typed, Typed', Kept, NEW r \in Requests,
           NoFault, UNCHANGED live,
           \A q \in Requests \ {r} : req'[q] = req[q] /\ task'[q] = task[q],
           InUse(r)' <=> InUse(r),
           r \in Out' => r \in Out /\ req'[r].held = req[r].held
    PROVE  Kept'
<1>1. slipped' = slipped /\ faults' = faults
  BY FaultsOf
<1>2. live' \subseteq Requests
  BY DEF Typed, TypeOK
<1>3. ~slipped' => (InUse(r)' => r \in live')
  BY <1>1 DEF Kept, ReservedIffInUse
<1>4. faults' = MaxFaults => (r \in live' => InUse(r)')
  BY <1>1 DEF Kept, ReservedIffInUse
<1>5. ~slipped' => (r \in Out' => req'[r].held)
  BY <1>1 DEF Kept
<1> QED BY <1>1, <1>2, <1>3, <1>4, <1>5, KeptOthers

\* The answer leaves the reservation to the handler and the task.
LEMMA KeptAnswer ==
    ASSUME BillingAssumption, Typed, Typed', Kept, NEW r \in Requests,
           Submit(r) \/ Unanswered(r)
    PROVE  Kept'
<1>1. HandleOK(r) /\ req[r].pc = "run" /\ r \in Out
  BY DEF Typed, Requested, Submit, Unanswered, At, Out
<1>2. PICK h : /\ req' = [req EXCEPT ![r] = h]
               /\ h.held = req[r].held /\ h.pc \in {"leave", "inline"}
  <2>1. CASE Unanswered(r)
    <3>1. req' = [req EXCEPT ![r] = [req[r] EXCEPT !.pc = "leave"]]
      BY <2>1 DEF Unanswered, Goto, Typed, TypeOK
    <3>2. req[r] \in Handlers
      BY DEF Typed, TypeOK
    <3> DEFINE h == [req[r] EXCEPT !.pc = "leave"]
    <3>3. h.held = req[r].held /\ h.pc = "leave"
      BY <3>2 DEF Handlers
    <3> HIDE DEF h
    <3>4. req' = [req EXCEPT ![r] = h]
      BY <3>1 DEF h
    <3> QED BY <3>3, <3>4
  <2>2. CASE Submit(r)
    <3>1. PICK c \in 1 .. Amount[r], pc \in {"leave", "inline"} :
             LET h == [req[r] EXCEPT !.pc = pc, !.cost = c] IN
             \/ req' = [req EXCEPT ![r] = Acquired(h)]
             \/ req' = [req EXCEPT ![r] = h]
      BY <2>2 DEF Submit
    <3> DEFINE g == [req[r] EXCEPT !.pc = pc, !.cost = c]
               h == Acquired(g)
    <3>2. /\ req[r] \in Handlers
          /\ req[r].refs = IF req[r].held THEN 1 ELSE 0
      BY <1>1 DEF HandleOK, One, Busy, Typed, TypeOK
    <3>3. c \in Nat
      BY DEF BillingAssumption
    <3>4. /\ g \in Handlers /\ g.held = req[r].held /\ g.pc = pc
          /\ g.refs = IF g.held THEN 1 ELSE 0
      BY <3>2, <3>3 DEF Handlers, Steps
    <3>5. h.held = g.held /\ h.pc = g.pc
      <4> HIDE DEF g
      <4> QED BY <3>4, AcquiredOne
    <3>6. req' = [req EXCEPT ![r] = h] \/ req' = [req EXCEPT ![r] = g]
      BY <3>1
    <3> HIDE DEF g, h
    <3> QED BY <3>4, <3>5, <3>6
  <2> QED BY <2>1, <2>2
<1>3. req'[r] = h
  BY <1>2 DEF Typed, TypeOK
<1>4. \A q \in Requests \ {r} : req'[q] = req[q] /\ task'[q] = task[q]
  BY <1>2 DEF Submit, Unanswered, ByHandler, TaskTo, Typed, TypeOK
<1>5. InUse(r) <=> req[r].held
  BY <1>1, InUseIs
<1>6. InUse(r)' <=> req'[r].held
  <2>1. req'[r].pc # "end"
    BY <1>2, <1>3
  <2>2. HandleOK(r)' /\ (task[r] \in TaskSteps)'
    BY DEF Typed, TypeOK, Requested
  <2>3. ~req'[r].release
    <3>1. SUFFICES ASSUME req'[r].release PROVE FALSE
      OBVIOUS
    <3>2. /\ req'[r].refs = 0
          /\ req'[r].refs = One(TRUE) + One(Busy(r)')
      BY <2>1, <2>2, <3>1 DEF HandleOK
    <3>3. One(TRUE) = 1
      BY DEF One
    <3>4. PICK a \in {0, 1} : One(Busy(r)') = a
      BY DEF One
    <3>5. req'[r].refs = 1 + a
      BY <3>2, <3>3, <3>4
    <3> QED BY <3>2, <3>5
  <2> QED BY <2>1, <2>3 DEF InUse
<1> QED BY <1>1, <1>2, <1>3, <1>4, <1>5, <1>6, KeptGoingOn
     DEF Submit, Unanswered

\* The handler leaves the reservation to the task, or to the release.
LEMMA KeptHandlerDone ==
    ASSUME BillingAssumption, Typed, Typed', Kept, NEW r \in Requests,
           HandlerDone(r)
    PROVE  Kept'
<1> DEFINE d == Dropped(req[r])
           h == [d EXCEPT !.pc = "end", !.renewing = FALSE]
<1>1. /\ req[r] \in Handlers /\ HandleOK(r)
      /\ req[r].pc \in {"leave", "inline"}
  BY DEF Typed, Requested, TypeOK, HandlerDone, At
<1>2. /\ d \in Handlers /\ d.held = req[r].held
      /\ d.release <=> IF req[r].refs = 0 THEN req[r].release
                                            ELSE req[r].refs = 1
  BY <1>1, DroppedOne
<1>3. req' = [req EXCEPT ![r] = h]
  BY DEF HandlerDone, Typed, TypeOK
<1> HIDE DEF d
<1>4. /\ h.pc = "end" /\ h.held = d.held /\ h.release = d.release
  BY <1>2 DEF Handlers
<1> HIDE DEF h
<1>5. req'[r] = h /\ task' = task
  BY <1>3 DEF HandlerDone, ByHandler, Typed, TypeOK
<1>6. ~req[r].release /\ (InUse(r) <=> req[r].held)
  BY <1>1, InUseIs
<1>7. InUse(r)' <=> (req[r].held /\ Busy(r)) \/ h.release
  <2>1. task[r] \in TaskSteps
    BY DEF Typed, TypeOK
  <2>2. Busy(r) <=> task[r] \in TaskSteps \ {"none", "end"}
    BY <2>1 DEF Busy, TaskSteps
  <2> QED BY <1>2, <1>4, <1>5, <2>2 DEF InUse
<1>8. InUse(r)' <=> InUse(r)
  <2>1. CASE req[r].held
    <3>1. req[r].refs = IF Busy(r) THEN 2 ELSE 1
      BY <1>1, <2>1 DEF HandleOK, One
    <3>2. Busy(r) \/ h.release
      BY <1>2, <1>4, <3>1
    <3> QED BY <1>6, <1>7, <2>1, <3>2
  <2>2. CASE ~req[r].held
    <3>1. req[r].refs = 0
      BY <1>1, <2>2 DEF HandleOK
    <3>2. ~h.release
      BY <1>2, <1>4, <1>6, <3>1
    <3> QED BY <1>6, <1>7, <2>2, <3>2
  <2> QED BY <2>1, <2>2
<1>9. r \in Out' => r \in Out /\ req'[r].held = req[r].held
  BY <1>2, <1>4, <1>5 DEF Out
<1>10. \A q \in Requests \ {r} : req'[q] = req[q] /\ task'[q] = task[q]
  BY <1>3, <1>5 DEF Typed, TypeOK
<1> QED BY <1>8, <1>9, <1>10, KeptGoingOn DEF HandlerDone

\* The reservation is removed when nothing uses it any more.
LEMMA KeptRelease ==
    ASSUME BillingAssumption, Typed, Typed', Kept, NEW r \in Requests,
           Release(r)
    PROVE  Kept'
<1>1. req[r].release /\ req' = [req EXCEPT ![r].release = FALSE]
      /\ UNCHANGED task
  BY DEF Release, ByHandler
<1>2. req[r].pc = "end" /\ ~Busy(r)
  BY <1>1, InUseIs
<1>3. req'[r].pc = "end" /\ ~req'[r].release
  BY <1>1, <1>2 DEF Typed, TypeOK, Handlers
<1>4. ~InUse(r)' /\ r \notin Out'
  <2>1. task[r] \in TaskSteps
    BY DEF Typed, TypeOK
  <2>2. task'[r] \in {"none", "end"}
    BY <1>1, <1>2, <2>1 DEF Busy, TaskSteps
  <2> QED BY <1>3, <2>2 DEF InUse, Out
<1>5. \A q \in Requests \ {r} : req'[q] = req[q] /\ task'[q] = task[q]
  BY <1>1 DEF Typed, TypeOK
<1>6. slipped' = slipped
  BY FaultsOf DEF Release
<1>7. /\ faults' = MaxFaults => r \notin live' /\ faults = MaxFaults
      /\ \A q \in Requests \ {r} : q \in live' <=> q \in live
  BY FaultsOf DEF Release
<1>8. live' \subseteq Requests
  BY DEF Typed, TypeOK
<1> QED BY <1>4, <1>5, <1>6, <1>7, <1>8, KeptOthers

\* The task leaves the reservation to the handler, or to the release.
LEMMA InUseTaskEnds ==
    ASSUME BillingAssumption, Typed, NEW r \in Requests, Busy(r), TaskEnds(r),
           \A q \in Requests \ {r} : q \in charged' <=> q \in charged
    PROVE  /\ InUse(r)' <=> InUse(r)
           /\ r \notin Out'
           /\ \A q \in Requests \ {r} : req'[q] = req[q] /\ task'[q] = task[q]
<1>1. /\ \A q \in Requests \ {r} : req'[q] = req[q] /\ task'[q] = task[q]
      /\ req'[r].pc = req[r].pc
      /\ req'[r].held = req[r].held /\ task'[r] = "end"
      /\ req'[r].release <=> IF req[r].refs = 0 THEN req[r].release
                                                ELSE req[r].refs = 1
  BY TypedTaskEnds
<1>2. HandleOK(r) /\ ~req[r].release /\ (InUse(r) <=> req[r].held)
  BY InUseIs DEF Typed, Requested
<1>3. InUse(r)' <=> (req[r].held /\ req[r].pc # "end") \/ req'[r].release
  BY <1>1 DEF InUse
<1>4. InUse(r)' <=> InUse(r)
  <2>1. CASE req[r].held
    <3>1. req[r].refs = IF req[r].pc = "end" THEN 1 ELSE 2
      BY <1>2, <2>1 DEF HandleOK, One
    <3>2. req[r].pc # "end" \/ req'[r].release
      BY <1>1, <3>1
    <3> QED BY <1>2, <1>3, <2>1, <3>2
  <2>2. CASE ~req[r].held
    <3>1. req[r].refs = 0
      BY <1>2, <2>2 DEF HandleOK
    <3> QED BY <1>1, <1>2, <1>3, <2>2, <3>1
  <2> QED BY <2>1, <2>2
<1>5. r \notin Out'
  <2>1. req[r].pc # "run"
    BY <1>2 DEF HandleOK, Busy
  <2> QED BY <1>1, <2>1 DEF Out
<1> QED BY <1>1, <1>4, <1>5

\* The billing task.
LEMMA KeptBill ==
    ASSUME BillingAssumption, Typed, Typed', Kept, NEW r \in Requests, Bill(r)
    PROVE  Kept'
<1>1. Busy(r) /\ UNCHANGED live
  BY DEF Bill, Apply, DeductCache, InvalidateCache, Busy
<1>2. live' \subseteq Requests
  BY DEF Typed, TypeOK
<1>3. CASE TaskEnds(r)
  <2>1. /\ req' \in [Requests -> Handlers]
        /\ \A q \in Requests \ {r} : req'[q] = req[q] /\ task'[q] = task[q]
        /\ InUse(r)' <=> InUse(r)
        /\ r \notin Out'
    <3>1. \A q \in Requests \ {r} : q \in charged' <=> q \in charged
      BY DEF Bill, Apply, Charge, DeductCache, InvalidateCache
    <3> QED BY <1>1, <1>3, <3>1, InUseTaskEnds DEF Typed, TypeOK
  <2>2. slipped => slipped'
    BY FaultsOf DEF Bill, Apply, DeductCache, InvalidateCache
  <2>3. faults' = MaxFaults => faults = MaxFaults
    BY FaultsOf DEF Bill, Apply, DeductCache, InvalidateCache
  <2>4. ~slipped' => (InUse(r)' => r \in live')
    BY <1>1, <2>1, <2>2 DEF Kept, ReservedIffInUse
  <2>5. faults' = MaxFaults => (r \in live' => InUse(r)')
    BY <1>1, <2>1, <2>3 DEF Kept, ReservedIffInUse
  <2> QED BY <1>1, <1>2, <2>1, <2>2, <2>3, <2>4, <2>5, KeptOthers
<1>4. CASE \E pc \in {"deduct", "invalidate"} : TaskGoes(r, pc) /\ NoFault
  <2>1. PICK pc \in {"deduct", "invalidate"} : TaskGoes(r, pc) /\ NoFault
    BY <1>4
  <2>2. req' = req /\ task'[r] = pc
        /\ \A q \in Requests \ {r} : task'[q] = task[q]
    BY <2>1 DEF TaskGoes, TaskTo, Typed, TypeOK
  <2>3. InUse(r)' <=> InUse(r)
    <3>1. InUse(r) <=> req[r].held
      BY <1>1, InUseIs
    <3>2. ~req[r].release
      BY <1>1, InUseIs
    <3> QED BY <2>2, <3>1, <3>2 DEF InUse, TaskSteps
  <2>4. r \in Out' => r \in Out
    BY <2>2 DEF Out
  <2> QED BY <1>1, <2>1, <2>2, <2>3, <2>4, KeptGoingOn
<1> QED BY <1>3, <1>4 DEF Bill, Apply, DeductCache, InvalidateCache

\* Steps that leave the requests and the reservations alone.
LEMMA KeptAside ==
    ASSUME Kept, UNCHANGED <<req, task, live>>,
           slipped => slipped', faults' = MaxFaults => faults = MaxFaults
    PROVE  Kept'
BY DEF Kept, ReservedIffInUse, InUse, Out

\* A reservation that nothing uses may lapse.
LEMMA KeptLapse ==
    ASSUME BillingAssumption, Typed, Kept, NEW r \in Requests, Lapse(r)
    PROVE  Kept'
<1>1. UNCHANGED <<req, task>> /\ live' = live \ {r} /\ ~InUse(r)
  BY DEF Lapse, ByRedis
<1>2. slipped' = slipped /\ faults' = faults
  BY FaultsOf DEF Lapse
<1> QED BY <1>1, <1>2 DEF Kept, ReservedIffInUse, InUse, Out

\* Every step keeps the reservations.
LEMMA KeptStep ==
    ASSUME BillingAssumption, Typed, Typed', Kept, [Next]_vars
    PROVE  Kept'
<1>1. ASSUME NEW r \in Requests, Lapse(r) \/ LapseInUse(r) \/ Crash(r)
      PROVE Kept'
  <2>1. CASE Lapse(r)
    BY <2>1, KeptLapse
  <2>2. CASE LapseInUse(r) \/ Crash(r)
    BY <2>2, FaultsOf DEF LapseInUse, Crash, Kept, ReservedIffInUse
  <2> QED BY <1>1, <2>1, <2>2
<1>2. ASSUME NEW w \in writes, CacheWrite(w) PROVE Kept'
  <2>1. UNCHANGED <<req, task, live>>
    BY <1>2 DEF CacheWrite, ByRedis
  <2>2. slipped => slipped'
    BY <1>2, FaultsOf DEF CacheWrite
  <2>3. faults' = MaxFaults => faults = MaxFaults
    BY <1>2, FaultsOf DEF CacheWrite
  <2> QED BY <2>1, <2>2, <2>3, KeptAside
<1>3. ASSUME CacheExpires PROVE Kept'
  BY <1>3, FaultsOf, KeptAside DEF CacheExpires, ByRedis
<1>4. ASSUME NEW r \in Requests, Handle(r) PROVE Kept'
  BY <1>4, KeptBefore, KeptReserve, KeptAnswer, KeptHandlerDone DEF Handle
<1>5. CASE UNCHANGED vars
  BY <1>5, KeptAside DEF vars
<1> QED BY <1>1, <1>2, <1>3, <1>4, <1>5, KeptBill, KeptRelease DEF Next

\* At the start nothing is reserved.
LEMMA KeptInit == ASSUME Init PROVE Kept
BY DEF Init, Kept, ReservedIffInUse, InUse, Out, Ended

-----------------------------------------------------------------------------
(* The cached balance.                                                     *)

LoadsCovered ==
    ~slipped => \A w \in writes : w.from = "load" /\ ~w.late =>
                    w.value <= balance + CostOf(Undeducted)

DeductsLower == \A w \in writes : w.from = "deduct" => w.value >= 0

Cached == CachedIsCovered /\ LoadsCovered /\ DeductsLower

\* What balance the cache may show.
Cover == balance + CostOf(Undeducted)

\* The costs are numbers, and so are their sums.
LEMMA CostsTyped ==
    ASSUME BillingAssumption, TypeOK
    PROVE  /\ Cost \in [Requests -> Nat] /\ Undeducted \in SUBSET Requests
           /\ CostOf(Undeducted) \in Nat /\ Cover \in Int
           /\ balance <= Cover
<1>1. Cost \in [Requests -> Nat]
  BY DEF Cost, TypeOK, Handlers
<1>2. Undeducted \in SUBSET Requests
  BY DEF Undeducted, TypeOK
<1>3. CostOf(Undeducted) \in Nat
  BY <1>1, <1>2, UnitsFinite DEF CostOf
<1>4. balance \in Int
  BY DEF TypeOK
<1> QED BY <1>1, <1>2, <1>3, <1>4 DEF Cover

\* The cover stays what it is when neither the balance nor a cost that is
\* still to be deducted changes.
LEMMA CoverSame ==
    ASSUME balance' = balance, Undeducted' = Undeducted,
           \A q \in Undeducted : Cost'[q] = Cost[q]
    PROVE  Cover' = Cover
<1>1. Total(Cost', Undeducted) = Total(Cost, Undeducted)
  BY TotalSame
<1>2. CostOf(Undeducted)' = CostOf(Undeducted)
  BY <1>1 DEF CostOf, Total, Units
<1> QED BY <1>2 DEF Cover

\* The cache under the same cover, after reads.
LEMMA CachedSame ==
    ASSUME Cached, Cover' = Cover, slipped => slipped', UNCHANGED cache,
           \A w \in writes' : \/ w \in writes
                              \/ w.from = "load" /\ w.value <= Cover
    PROVE  Cached'
<1>1. CachedIsCovered'
  BY DEF Cached, CachedIsCovered, Cover
<1>2. LoadsCovered'
  <2>1. SUFFICES ASSUME ~slipped', NEW w \in writes', w.from = "load", ~w.late
                 PROVE  w.value <= Cover'
    BY DEF LoadsCovered, Cover
  <2>2. CASE w \in writes
    BY <2>1, <2>2 DEF Cached, LoadsCovered, Cover
  <2>3. CASE w.value <= Cover
    BY <2>3
  <2> QED BY <2>2, <2>3
<1>3. DeductsLower'
  <2>1. \A w \in writes' : w.from = "deduct" => w \in writes
    OBVIOUS
  <2> QED BY <2>1 DEF Cached, DeductsLower
<1> QED BY <1>1, <1>2, <1>3 DEF Cached

\* What a step leaves of the charges of the other requests.
LEMMA UndeductedOthers ==
    ASSUME TypeOK, NEW r \in Requests,
           \A q \in Requests \ {r} :
              /\ req'[q] = req[q] /\ task'[q] = task[q]
              /\ q \in charged' <=> q \in charged,
           charged' \subseteq Requests
    PROVE  /\ \A q \in Requests \ {r} :
                 /\ q \in Undeducted' <=> q \in Undeducted
                 /\ Cost'[q] = Cost[q]
           /\ Undeducted' \subseteq Requests /\ Undeducted \subseteq Requests
<1>1. \A q \in Requests \ {r} : q \in Undeducted' <=> q \in Undeducted
  BY DEF Undeducted
<1>2. \A q \in Requests \ {r} : Cost'[q] = Cost[q]
  BY DEF Cost
<1>3. Undeducted' \subseteq Requests /\ Undeducted \subseteq Requests
  BY DEF Undeducted, TypeOK
<1> QED BY <1>1, <1>2, <1>3

\* A handler has nothing to deduct, or changes nothing of it.
LEMMA CachedHandle ==
    ASSUME BillingAssumption, Typed, Typed', Cached, NEW r \in Requests,
           Handle(r) \/ Release(r)
    PROVE  Cached'
<1>1. UNCHANGED <<balance, charged, cache>>
  BY DEF Handle, Release, CheckEligibility, ReadForReserve, ReserveInflight,
     Submit, Unanswered, HandlerDone, ByHandler
<1>2. \A q \in Requests \ {r} : req'[q] = req[q] /\ task'[q] = task[q]
  BY DEF Handle, Release, CheckEligibility, ReadForReserve, ReserveInflight,
     Submit, Unanswered, HandlerDone, ByHandler, Goto, Leave, TaskTo,
     Typed, TypeOK
<1>3. charged \subseteq Requests /\ charged' = charged
  BY <1>1 DEF Typed, TypeOK
<1>4. /\ \A q \in Requests \ {r} :
             /\ q \in Undeducted' <=> q \in Undeducted
             /\ Cost'[q] = Cost[q]
      /\ Undeducted' \subseteq Requests /\ Undeducted \subseteq Requests
  BY <1>2, <1>3, UndeductedOthers DEF Typed
<1>5. (r \in Undeducted' <=> r \in Undeducted)
      /\ (r \in Undeducted => Cost'[r] = Cost[r])
  <2>1. CASE Submit(r)
    <3>1. r \notin charged /\ r \notin charged'
      BY <1>1, <2>1 DEF Submit, At, Typed, Requested, HandleOK, ChargeOK
    <3> QED BY <3>1 DEF Undeducted
  <2>2. CASE UNCHANGED task /\ req'[r].cost = req[r].cost
    <3>1. Cost'[r] = Cost[r]
      BY <2>2 DEF Cost
    <3> QED BY <1>1, <2>2, <3>1 DEF Undeducted
  <2>3. CASE HandlerDone(r)
    <3>1. req[r] \in Handlers /\ UNCHANGED task
      BY <2>3 DEF HandlerDone, ByHandler, Typed, TypeOK
    <3> DEFINE d == Dropped(req[r])
               h == [d EXCEPT !.pc = "end", !.renewing = FALSE]
    <3>2. d \in Handlers /\ d.cost = req[r].cost
      BY <3>1, DroppedOne
    <3>3. req'[r] = h
      BY <2>3 DEF HandlerDone, Typed, TypeOK
    <3> HIDE DEF d
    <3>4. h.cost = d.cost
      BY <3>2 DEF Handlers
    <3> HIDE DEF h
    <3> QED BY <2>2, <3>1, <3>2, <3>3, <3>4
  <2>4. CASE \/ CheckEligibility(r) \/ ReadForReserve(r)
             \/ ReserveInflight(r) \/ Unanswered(r) \/ Release(r)
    <3>1. UNCHANGED task
      BY <2>4 DEF CheckEligibility, ReadForReserve, ReserveInflight,
         Unanswered, Release, ByHandler
    <3>2. req'[r].cost = req[r].cost
      BY <2>4 DEF CheckEligibility, ReadForReserve, ReserveInflight,
         Unanswered, Release, Goto, Leave, Typed, TypeOK, Handlers
    <3> QED BY <2>2, <3>1, <3>2
  <2> QED BY <2>1, <2>3, <2>4 DEF Handle
<1>6. Undeducted' = Undeducted
  BY <1>4, <1>5
<1>7. Cover' = Cover
  <2>1. \A q \in Undeducted : Cost'[q] = Cost[q]
    BY <1>4, <1>5
  <2> QED BY <1>1, <1>6, <2>1, CoverSame
<1>8. \A w \in writes' : \/ w \in writes
                         \/ w.from = "load" /\ w.value <= Cover
  <2>1. CASE writes' = writes
    BY <2>1
  <2>2. CASE \E b \in {balance, cache} \ {None} : GetUserBalance(r, b)
    <3>1. writes' = writes \/ Enqueue(r, "load", balance)
      BY <2>2 DEF GetUserBalance
    <3>2. \A w \in Write(r, "load", balance) :
             w.from = "load" /\ w.value = balance
      BY DEF Write
    <3> QED BY <3>1, <3>2, CostsTyped DEF Enqueue, Typed
  <2> QED BY <2>1, <2>2 DEF Handle, Release, CheckEligibility,
          ReadForReserve, ReserveInflight, Submit, Unanswered, HandlerDone
<1>9. slipped => slipped'
  <2>1. CASE CheckEligibility(r) \/ ReadForReserve(r)
    BY <2>1, FaultsOf DEF CheckEligibility, ReadForReserve, GetUserBalance
  <2>2. CASE \/ ReserveInflight(r) \/ Submit(r) \/ Unanswered(r)
             \/ HandlerDone(r) \/ Release(r)
    BY <2>2, FaultsOf DEF ReserveInflight, Submit, Unanswered, HandlerDone,
       Release
  <2> QED BY <2>1, <2>2 DEF Handle
<1> QED BY <1>1, <1>7, <1>8, <1>9, CachedSame

\* A charge moves its cost from the balance to what is to be deducted.
LEMMA CoverCharged ==
    ASSUME BillingAssumption, Typed, Typed', NEW r \in Requests,
           Charge(r), UNCHANGED req, r \notin charged,
           task'[r] \in {"deduct", "invalidate"},
           \A q \in Requests \ {r} : task'[q] = task[q]
    PROVE  Cover' = Cover
<1>1. Cost' = Cost
  BY DEF Cost
<1>2. Undeducted' = Undeducted \cup {r} /\ r \notin Undeducted
  BY DEF Undeducted, Charge, Typed, TypeOK
<1>3. Cost \in [Requests -> Nat] /\ Undeducted \in SUBSET Requests
  BY CostsTyped DEF Typed
<1>4. Total(Cost, Undeducted') = Total(Cost, Undeducted) + Cost[r]
  BY <1>2, <1>3, TotalMore
<1>5. CostOf(Undeducted)' = CostOf(Undeducted) + Cost[r]
  BY <1>1, <1>4 DEF CostOf, Total, Units
<1>6. Cost[r] = req[r].cost
  BY DEF Cost
<1>7. /\ balance \in Int /\ req[r].cost \in Nat
      /\ CostOf(Undeducted) \in Nat
  BY CostsTyped, CostTyped DEF Typed, TypeOK
<1>8. balance' = balance - req[r].cost
  BY DEF Charge
<1> QED BY <1>5, <1>6, <1>7, <1>8 DEF Cover

\* A task that is done with the cache has no cost to deduct any more.
LEMMA CoverDone ==
    ASSUME BillingAssumption, Typed, Typed', NEW r \in Requests,
           UNCHANGED <<balance, charged>>, r \in Undeducted, TaskEnds(r)
    PROVE  Cover' = Cover - req[r].cost
<1>1. /\ task'[r] = "end"
      /\ \A q \in Requests \ {r} : req'[q] = req[q] /\ task'[q] = task[q]
  <2>1. Busy(r)
    BY DEF Undeducted, Busy
  <2> QED BY <2>1, TypedTaskEnds
<1>2. charged \subseteq Requests /\ charged' = charged
  BY DEF Typed, TypeOK
<1>3. /\ \A q \in Requests \ {r} :
             /\ q \in Undeducted' <=> q \in Undeducted
             /\ Cost'[q] = Cost[q]
      /\ Undeducted' \subseteq Requests /\ Undeducted \subseteq Requests
  BY <1>1, <1>2, UndeductedOthers DEF Typed
<1>4. Undeducted' = Undeducted \ {r}
  <2>1. r \notin Undeducted'
    BY <1>1 DEF Undeducted
  <2> QED BY <1>3, <2>1
<1>5. Cost \in [Requests -> Nat]
  BY CostsTyped DEF Typed
<1>6. Total(Cost, Undeducted) = Total(Cost, Undeducted \ {r}) + Cost[r]
  BY <1>3, <1>5, TotalLess
<1>7. Total(Cost', Undeducted \ {r}) = Total(Cost, Undeducted \ {r})
  <2>1. \A q \in Undeducted \ {r} : Cost'[q] = Cost[q]
    BY <1>3
  <2> QED BY <2>1, TotalSame
<1>8. CostOf(Undeducted) = CostOf(Undeducted)' + Cost[r]
  BY <1>4, <1>6, <1>7 DEF CostOf, Total, Units
<1>9. Cost[r] = req[r].cost
  BY DEF Cost
<1>10. /\ balance \in Int /\ req[r].cost \in Nat
       /\ CostOf(Undeducted) \in Nat
  BY CostsTyped, CostTyped DEF Typed, TypeOK
<1>11. PICK n \in Nat : n = CostOf(Undeducted)'
  <2>1. Cost' \in [Requests -> Nat]
    BY DEF Cost, Typed, TypeOK, Handlers
  <2>2. Total(Cost', Undeducted') \in Nat
    BY <1>3, <2>1, UnitsFinite
  <2> QED BY <2>2 DEF CostOf, Total, Units
<1>12. Cover = balance + (n + req[r].cost)
  BY <1>8, <1>9, <1>11 DEF Cover
<1>13. Cover' = balance + n
  BY <1>11 DEF Cover
<1> QED BY <1>10, <1>11, <1>12, <1>13

\* A task that fails to charge leaves the cover alone.
LEMMA CoverUncharged ==
    ASSUME BillingAssumption, Typed, NEW r \in Requests,
           UNCHANGED <<balance, charged>>, r \notin charged,
           Busy(r), TaskEnds(r)
    PROVE  Cover' = Cover
<1>1. \A q \in Requests \ {r} : req'[q] = req[q] /\ task'[q] = task[q]
  BY TypedTaskEnds
<1>2. charged \subseteq Requests /\ charged' = charged
  BY DEF Typed, TypeOK
<1>3. /\ \A q \in Requests \ {r} :
             /\ q \in Undeducted' <=> q \in Undeducted
             /\ Cost'[q] = Cost[q]
      /\ Undeducted' \subseteq Requests /\ Undeducted \subseteq Requests
  BY <1>1, <1>2, UndeductedOthers DEF Typed
<1>4. r \notin Undeducted /\ r \notin Undeducted'
  BY <1>2 DEF Undeducted
<1>5. Undeducted' = Undeducted /\ \A q \in Undeducted : Cost'[q] = Cost[q]
  BY <1>3, <1>4
<1> QED BY <1>5, CoverSame

\* The charge, whose cost the cached balance may lack.
LEMMA CachedApply ==
    ASSUME BillingAssumption, Typed, Typed', Cached, NEW r \in Requests,
           Apply(r)
    PROVE  Cached'
<1>1. /\ UNCHANGED <<cache, writes>> /\ r \notin charged /\ Busy(r)
  BY DEF Apply, Busy, Typed, Requested, ChargeOK
<1>2. CASE Escape("commit")
  <2>1. slipped'
    BY <1>2, FaultsOf
  <2> QED BY <1>1, <2>1 DEF Cached, CachedIsCovered, LoadsCovered, DeductsLower
<1>3. CASE UNCHANGED <<balance, charged>> /\ TaskEnds(r) /\ Fault("db")
  <2>1. Cover' = Cover
    BY <1>1, <1>3, CoverUncharged
  <2>2. slipped' = slipped
    BY <1>3, FaultsOf
  <2> QED BY <1>1, <2>1, <2>2, CachedSame
<1>4. CASE \E pc \in {"deduct", "invalidate"} :
              Charge(r) /\ NoFault /\ TaskGoes(r, pc)
  <2>1. PICK pc \in {"deduct", "invalidate"} :
           Charge(r) /\ NoFault /\ TaskGoes(r, pc)
    BY <1>4
  <2>2. /\ UNCHANGED req /\ task'[r] = pc
        /\ \A q \in Requests \ {r} : task'[q] = task[q]
    BY <2>1 DEF TaskGoes, TaskTo, Typed, TypeOK
  <2>3. Cover' = Cover
    BY <1>1, <2>1, <2>2, CoverCharged
  <2>4. slipped' = slipped
    BY <2>1, FaultsOf
  <2> QED BY <1>1, <2>3, <2>4, CachedSame
<1> QED BY <1>2, <1>3, <1>4 DEF Apply

\* After a late write nothing loaded before counts.
LEMMA LateLoads ==
    ASSUME TypeOK, NEW w \in Late(writes)
    PROVE  w.late /\ \E u \in writes : w.from = u.from /\ w.value = u.value
<1>1. PICK u \in writes : w = [u EXCEPT !.late = TRUE]
  BY DEF Late
<1>2. u \in Writes
  BY DEF TypeOK
<1> QED BY <1>1, <1>2 DEF Writes

\* The deduction and the removal, which make the writes late that were
\* loaded before the charge.
LEMMA CachedSettle ==
    ASSUME BillingAssumption, Typed, Typed', Cached, NEW r \in Requests,
           DeductCache(r) \/ InvalidateCache(r)
    PROVE  Cached'
<1>1. /\ r \in Undeducted /\ TaskEnds(r) /\ UNCHANGED <<balance, charged>>
  BY DEF DeductCache, InvalidateCache, Undeducted, Typed, Requested, ChargeOK
<1>2. Cover' = Cover - req[r].cost
  BY <1>1, CoverDone
<1>3. /\ Cover \in Int /\ req[r].cost \in Nat
  BY CostsTyped, CostTyped DEF Typed
<1>4. \A w \in writes' \ writes :
         \/ w.late /\ \E u \in writes : w.from = u.from /\ w.value = u.value
         \/ w.from = "deduct" /\ w.value = req[r].cost
  BY LateLoads DEF DeductCache, InvalidateCache, Enqueue, Write, Typed
<1>5. DeductsLower'
  BY <1>3, <1>4 DEF DeductsLower, Cached
<1>6. CASE slipped'
  BY <1>5, <1>6 DEF Cached, CachedIsCovered, LoadsCovered
<1>7. CASE ~slipped'
  <2>1. /\ ~slipped /\ Late(writes) \subseteq writes'
        /\ writes' \subseteq Late(writes) \cup Write(r, "deduct", req[r].cost)
        /\ Lower(req[r].cost) \/ cache' = None
    BY <1>7, FaultsOf DEF DeductCache, InvalidateCache
  <2>2. LoadsCovered'
    <3>1. \A w \in writes' : w.late \/ w.from = "deduct"
      BY <2>1, LateLoads DEF Write, Typed
    <3> QED BY <3>1 DEF LoadsCovered
  <2>3. CachedIsCovered'
    <3>1. SUFFICES ASSUME cache' # None PROVE cache' <= Cover'
      BY DEF CachedIsCovered, Cover
    <3>2. cache # None /\ cache' = cache - req[r].cost
      BY <2>1, <3>1 DEF Lower
    <3>3. cache \in Int /\ cache <= Cover
      BY <2>1, <3>2 DEF Cached, CachedIsCovered, Cover, Typed, TypeOK
    <3> QED BY <1>2, <1>3, <3>2, <3>3
  <2> QED BY <1>5, <2>2, <2>3 DEF Cached
<1> QED BY <1>6, <1>7

\* A worker writes a balance that is covered, or lowers it.
LEMMA CachedWrite ==
    ASSUME BillingAssumption, Typed, Typed', Cached, NEW w \in writes,
           CacheWrite(w)
    PROVE  Cached'
<1>1. UNCHANGED <<balance, charged, task, req>> /\ writes' \subseteq writes
  BY DEF CacheWrite, ByRedis
<1>2. Cover' = Cover
  BY <1>1 DEF Cover, CostOf, Cost, Undeducted, Total, Units
<1>3. slipped => slipped'
  BY FaultsOf DEF CacheWrite
<1>4. LoadsCovered' /\ DeductsLower'
  BY <1>1, <1>2, <1>3 DEF Cached, LoadsCovered, DeductsLower, Cover
<1>5. CachedIsCovered'
  <2>1. SUFFICES ASSUME ~slipped', cache' # None PROVE cache' <= Cover'
    BY DEF CachedIsCovered, Cover
  <2>2. CASE w.from = "load" /\ cache' = w.value /\ ~w.late
    BY <1>2, <1>3, <2>1, <2>2 DEF Cached, LoadsCovered, Cover
  <2>3. CASE w.from = "deduct" /\ Lower(w.value)
    <3>1. cache # None /\ cache' = cache - w.value
      BY <2>1, <2>3 DEF Lower
    <3>2. cache \in Int /\ w.value \in Int /\ w.value >= 0 /\ Cover \in Int
      BY <2>3, <3>1, CostsTyped
         DEF Cached, DeductsLower, Typed, TypeOK, Writes
    <3>3. cache <= Cover
      BY <1>3, <2>1, <3>1 DEF Cached, CachedIsCovered, Cover
    <3> QED BY <1>2, <3>1, <3>2, <3>3
  <2>4. ~\E kind : Escape(kind)
    BY <2>1, FaultsOf
  <2> QED BY <2>1, <2>2, <2>3, <2>4 DEF CacheWrite
<1> QED BY <1>4, <1>5 DEF Cached

\* Every step keeps the cached balance covered.
LEMMA CachedStep ==
    ASSUME BillingAssumption, Typed, Typed', Cached, [Next]_vars
    PROVE  Cached'
<1>1. ASSUME UNCHANGED <<balance, charged, task, req, writes>>,
             cache' = cache \/ cache' = None, slipped => slipped'
      PROVE  Cached'
  <2>1. Cover' = Cover
    BY <1>1 DEF Cover, CostOf, Cost, Undeducted, Total, Units
  <2> QED BY <1>1, <2>1
          DEF Cached, CachedIsCovered, LoadsCovered, DeductsLower, Cover
<1>2. ASSUME NEW r \in Requests, Lapse(r) \/ LapseInUse(r) PROVE Cached'
  <2>1. UNCHANGED <<balance, charged, task, req, writes, cache>>
    BY <1>2 DEF Lapse, LapseInUse, ByRedis
  <2>2. slipped => slipped'
    BY <1>2, FaultsOf DEF Lapse, LapseInUse
  <2> QED BY <1>1, <2>1, <2>2
<1>3. ASSUME CacheExpires PROVE Cached'
  BY <1>1, <1>3, FaultsOf DEF CacheExpires, ByRedis
<1>4. ASSUME NEW r \in Requests, Crash(r) PROVE Cached'
  <2>1. slipped' /\ writes' \subseteq writes
    BY <1>4, FaultsOf DEF Crash
  <2> QED BY <2>1 DEF Cached, CachedIsCovered, LoadsCovered, DeductsLower
<1>5. CASE UNCHANGED vars
  BY <1>1, <1>5 DEF vars
<1> QED BY <1>2, <1>3, <1>4, <1>5, CachedHandle, CachedApply, CachedSettle,
        CachedWrite DEF Next, Bill

\* At the start nothing is cached.
LEMMA CachedInit == ASSUME Init PROVE Cached
BY DEF Init, Cached, CachedIsCovered, LoadsCovered, DeductsLower

-----------------------------------------------------------------------------
(* The bound on the overdraft.                                             *)

Solvent(d) == d >= 0 \/ \E r \in Requests : d > -Amount[r]

\* What is left when everything let in costs its estimate.
Left == balance - Total(Amount, Out)

Covered == ~slipped => Solvent(Left)

\* The estimates are numbers, and so are their sums.
LEMMA AmountsTyped ==
    ASSUME BillingAssumption
    PROVE  /\ Amount \in [Requests -> Nat] /\ Out \in SUBSET Requests
           /\ Total(Amount, Out) \in Nat
           /\ \A r \in Requests : Amount[r] \in Nat
<1>1. Amount \in [Requests -> Nat] /\ Out \in SUBSET Requests
  BY DEF BillingAssumption, Out
<1> QED BY <1>1, UnitsFinite

\* A balance that is larger is solvent too.
LEMMA SolventUp ==
    ASSUME BillingAssumption, NEW d \in Int, NEW e \in Int, d <= e, Solvent(d)
    PROVE  Solvent(e)
<1>1. CASE d >= 0
  BY <1>1 DEF Solvent
<1>2. CASE \E r \in Requests : d > -Amount[r]
  <2>1. PICK r \in Requests : d > -Amount[r]
    BY <1>2
  <2>2. Amount[r] \in Nat
    BY AmountsTyped
  <2>3. e > -Amount[r]
    BY <2>1, <2>2
  <2> QED BY <2>3 DEF Solvent
<1> QED BY <1>1, <1>2 DEF Solvent

\* When a request leaves those that may still be charged, or stays, no less
\* is left than before, if it cost no more than its estimate.
LEMMA LeftOut ==
    ASSUME BillingAssumption, Typed, NEW r \in Requests, NEW c \in Nat,
           balance' = balance - c, Out' = Out \/ Out' = Out \ {r},
           c = 0 \/ (r \in Out /\ r \notin Out' /\ c <= Amount[r]),
           Solvent(Left)
    PROVE  Solvent(Left')
<1>1. PICK m \in Nat : m = Total(Amount, Out)
  BY AmountsTyped
<1>2. Out' \in SUBSET Out /\ Out \in SUBSET Requests
  BY AmountsTyped
<1>3. PICK n \in Nat : n = Total(Amount, Out')
  BY <1>2, AmountsTyped, UnitsFinite
<1>4. n + c <= m
  <2>1. CASE c = 0
    BY <1>1, <1>2, <1>3, <2>1, AmountsTyped, TotalSubset
  <2>2. CASE r \in Out /\ r \notin Out' /\ c <= Amount[r]
    <3>1. Out' = Out \ {r}
      BY <2>2
    <3>2. m = n + Amount[r]
      BY <1>1, <1>3, <2>2, <3>1, AmountsTyped, TotalLess
    <3> QED BY <2>2, <3>2, AmountsTyped
  <2> QED BY <2>1, <2>2
<1>5. balance \in Int
  BY DEF Typed, TypeOK
<1>6. Left = balance - m /\ Left' = balance - c - n
  BY <1>1, <1>3 DEF Left, Total, Units
<1>7. /\ balance - m \in Int /\ balance - c - n \in Int
      /\ balance - m <= balance - c - n
  BY <1>4, <1>5
<1> QED BY <1>6, <1>7, SolventUp

\* Admission: with nobody in flight the balance is not used up; otherwise
\* what was read covers the estimate and everything in flight, and exceeds
\* the balance only by charges whose reservations count.
LEMMA LeftAdmitted ==
    ASSUME BillingAssumption, Typed, Kept, NEW r \in Requests, ~slipped,
           At(r, "reserve"), Allowed(r), Current(req[r].seen),
           balance' = balance, Out' = Out \cup {r}
    PROVE  Solvent(Left')
<1>1. r \notin Out
  <2>1. req[r].pc = "reserve" /\ ~Busy(r)
    BY NotYetInUse DEF At
  <2> QED BY <2>1 DEF Out, Busy
<1>2. Out \subseteq live
  <2>1. \A q \in Out : q \in Requests /\ InUse(q)
    <3>1. \A q \in Out : q \in Requests /\ req[q].held
      BY DEF Kept, Out
    <3> QED BY <3>1, InUseIs
  <2> QED BY <2>1 DEF Kept, ReservedIffInUse
<1>3. PICK m \in Nat : m = Total(Amount, Out)
  BY AmountsTyped
<1>4. PICK a \in Nat : a = Amount[r]
  BY AmountsTyped
<1>5. Total(Amount, Out \cup {r}) = m + a
  BY <1>1, <1>3, <1>4, AmountsTyped, TotalMore
<1>6. Left' = balance - (m + a)
  BY <1>5 DEF Left, Total, Units
<1>7. PICK s \in Int : s = req[r].seen
  BY DEF Typed, TypeOK, Handlers
<1>8. live \in SUBSET Requests /\ charged \in SUBSET Requests
      /\ balance \in Int /\ Cost \in [Requests -> Nat]
  BY CostsTyped DEF Typed, TypeOK
<1>9. PICK k \in Nat : k = CostOf(charged \cap live)
  <2>1. charged \cap live \in SUBSET Requests
    BY <1>8
  <2>2. Total(Cost, charged \cap live) \in Nat
    BY <1>8, <2>1, UnitsFinite
  <2> QED BY <2>2 DEF CostOf
<1>10. s > 0 /\ s <= balance + k
  BY <1>7, <1>9 DEF Current
<1>11. CASE live = {}
  <2>1. Out = {} /\ charged \cap live = {}
    BY <1>2, <1>11
  <2>2. m = 0 /\ k = 0
    BY <1>3, <1>9, <2>1, TotalEmpty DEF CostOf
  <2>3. balance - (m + a) > -a
    BY <1>8, <1>10, <2>2
  <2> QED BY <1>4, <1>6, <2>3 DEF Solvent
<1>12. CASE req[r].seen - Reserved >= Amount[r]
  <2>1. (charged \cap live) \cap Out = {}
    <3>1. \A q \in Requests : q \in charged => q \notin Out
      BY DEF Typed, Requested, HandleOK, ChargeOK, Out
    <3> QED BY <1>8, <3>1
  <2>2. PICK w \in Nat : w = Total(Amount, charged \cap live)
    <3>1. charged \cap live \in SUBSET Requests
      BY <1>8
    <3> QED BY <3>1, AmountsTyped, UnitsFinite
  <2>3. PICK v \in Nat : v = Reserved
    <3>1. Total(Amount, live) \in Nat
      BY <1>8, AmountsTyped, UnitsFinite
    <3> QED BY <3>1 DEF Reserved
  <2>4. w + m <= v
    <3>1. /\ charged \cap live \in SUBSET Requests /\ Out \in SUBSET Requests
          /\ (charged \cap live) \cup Out \in SUBSET live
      BY <1>2, <1>8, AmountsTyped
    <3>2. Total(Amount, (charged \cap live) \cup Out) = w + m
      BY <1>3, <2>1, <2>2, <3>1, AmountsTyped, TotalUnion
    <3>3. Total(Amount, (charged \cap live) \cup Out) <= Total(Amount, live)
      BY <1>8, <3>1, AmountsTyped, TotalSubset
    <3> QED BY <2>3, <3>2, <3>3 DEF Reserved
  <2>5. k <= w
    <3>1. charged \cap live \in SUBSET Requests
      BY <1>8
    <3>2. \A q \in charged \cap live : Cost[q] <= Amount[q]
      BY <1>8 DEF Cost, Typed, Requested, ChargeOK
    <3> QED BY <1>8, <1>9, <2>2, <3>1, <3>2, AmountsTyped, TotalLeq DEF CostOf
  <2>6. s - v >= a
    BY <1>4, <1>7, <1>12, <2>3
  <2>7. balance - (m + a) >= 0
    BY <1>8, <1>10, <2>4, <2>5, <2>6
  <2> QED BY <1>6, <2>7 DEF Solvent
<1> QED BY <1>11, <1>12 DEF Allowed

\* Admission keeps the bound.
LEMMA CoveredReserve ==
    ASSUME BillingAssumption, Typed, Typed', Kept, Covered, NEW r \in Requests,
           ReserveInflight(r)
    PROVE  Covered'
<1>1. UNCHANGED <<balance, task>> /\ At(r, "reserve") /\ ~Busy(r)
  BY NotYetInUse DEF ReserveInflight, ByHandler, At
<1>2. CASE /\ Allowed(r)
           /\ req' = [req EXCEPT ![r].pc = "run", ![r].seen = 0,
                ![r].held = TRUE, ![r].refs = 1, ![r].renewing = TRUE]
           /\ slipped' = (slipped \/ ~Current(req[r].seen))
  <2>1. req'[r].pc = "run" /\ \A q \in Requests \ {r} : req'[q] = req[q]
    BY <1>2 DEF Typed, TypeOK, Handlers
  <2>2. Out' = Out \cup {r}
    BY <1>1, <2>1 DEF Out
  <2> QED BY <1>1, <1>2, <2>2, LeftAdmitted DEF Covered
<1>3. CASE Leave(r, "end") /\ NoFault
  <2>1. req'[r].pc = "end" /\ \A q \in Requests \ {r} : req'[q] = req[q]
    BY <1>3 DEF Leave, Typed, TypeOK, Handlers
  <2>2. Out' = Out
    BY <1>1, <2>1 DEF Out, At, Busy
  <2>3. Left' = Left
    BY <1>1, <2>2 DEF Left, Total, Units
  <2> QED BY <1>3, <2>3, FaultsOf DEF Covered
<1>4. CASE \E kind : Escape(kind)
  BY <1>4, FaultsOf DEF Covered
<1> QED BY <1>2, <1>3, <1>4 DEF ReserveInflight

\* Steps that charge nothing and let nobody in.
LEMMA CoveredAside ==
    ASSUME BillingAssumption, Typed, Covered, balance' = balance,
           slipped => slipped', NEW r \in Requests,
           Out' = Out \/ Out' = Out \ {r}
    PROVE  Covered'
<1>1. balance' = balance - 0
  BY DEF Typed, TypeOK
<1> QED BY <1>1, LeftOut DEF Covered

\* What a step of one request leaves of the others that may be charged.
LEMMA OutOthers ==
    ASSUME NEW r \in Requests, r \in Out' => r \in Out,
           \A q \in Requests \ {r} : req'[q] = req[q] /\ task'[q] = task[q]
    PROVE  Out' = Out \/ (Out' = Out \ {r} /\ r \notin Out')
BY DEF Out

\* The other steps of a handler.
LEMMA CoveredHandle ==
    ASSUME BillingAssumption, Typed, Typed', Covered, NEW r \in Requests,
           \/ CheckEligibility(r) \/ ReadForReserve(r) \/ Submit(r)
           \/ Unanswered(r) \/ HandlerDone(r) \/ Release(r)
    PROVE  Covered'
<1>1. UNCHANGED balance /\ (slipped => slipped')
  <2>1. UNCHANGED balance
    BY DEF CheckEligibility, ReadForReserve, Submit, Unanswered,
       HandlerDone, Release, ByHandler
  <2>2. ASSUME CheckEligibility(r) \/ ReadForReserve(r)
        PROVE  slipped => slipped'
    BY <2>2, FaultsOf DEF CheckEligibility, ReadForReserve, GetUserBalance
  <2>3. ASSUME Submit(r) \/ Unanswered(r) \/ HandlerDone(r) \/ Release(r)
        PROVE  slipped => slipped'
    BY <2>3, FaultsOf DEF Submit, Unanswered, HandlerDone, Release
  <2> QED BY <2>1, <2>2, <2>3
<1>2. \A q \in Requests \ {r} : req'[q] = req[q] /\ task'[q] = task[q]
  BY DEF Release, CheckEligibility, ReadForReserve, Submit, Unanswered,
     HandlerDone, ByHandler, Goto, TaskTo, Typed, TypeOK
<1>3. CASE slipped'
  BY <1>3 DEF Covered
<1>4. CASE ~slipped'
  <2>1. r \in Out' => r \in Out
    <3>1. CASE Submit(r) \/ Unanswered(r)
      BY <3>1 DEF Submit, Unanswered, At, Out
    <3>2. CASE CheckEligibility(r) \/ ReadForReserve(r)
      <4>1. UNCHANGED task /\ req'[r].pc # "run"
        <5>1. ~\E kind : Escape(kind)
          BY <1>4, FaultsOf
        <5> QED BY <3>2, <5>1 DEF CheckEligibility, ReadForReserve, ByHandler,
                Goto, Typed, TypeOK, Handlers
      <4> QED BY <4>1 DEF Out
    <3>3. CASE HandlerDone(r)
      <4>1. req[r] \in Handlers /\ UNCHANGED task
        BY <3>3 DEF HandlerDone, ByHandler, Typed, TypeOK
      <4> DEFINE d == Dropped(req[r])
                 h == [d EXCEPT !.pc = "end", !.renewing = FALSE]
      <4>2. d \in Handlers
        BY <4>1, DroppedOne
      <4>3. req'[r] = h
        BY <3>3 DEF HandlerDone, Typed, TypeOK
      <4> HIDE DEF d
      <4>4. h.pc = "end"
        BY <4>2 DEF Handlers
      <4> HIDE DEF h
      <4> QED BY <4>1, <4>3, <4>4 DEF Out
    <3>4. CASE Release(r)
      <4>1. UNCHANGED task /\ req'[r].pc = req[r].pc
        BY <3>4 DEF Release, ByHandler, Typed, TypeOK, Handlers
      <4> QED BY <4>1 DEF Out
    <3> QED BY <3>1, <3>2, <3>3, <3>4
  <2> QED BY <1>1, <1>2, <2>1, OutOthers, CoveredAside
<1> QED BY <1>3, <1>4

\* The charge is no more than the estimate that it replaces.
LEMMA CoveredBill ==
    ASSUME BillingAssumption, Typed, Typed', Covered, NEW r \in Requests,
           Bill(r)
    PROVE  Covered'
<1>1. Busy(r) /\ \A q \in Requests \ {r} : q \in charged' <=> q \in charged
  BY DEF Bill, Apply, Charge, DeductCache, InvalidateCache, Busy
<1>2. /\ \A q \in Requests \ {r} : req'[q] = req[q] /\ task'[q] = task[q]
      /\ r \notin Out'
  <2>1. CASE TaskEnds(r)
    BY <1>1, <2>1, InUseTaskEnds
  <2>2. CASE \E pc \in {"deduct", "invalidate"} : TaskGoes(r, pc)
    <3>1. /\ req' = req /\ task'[r] \in {"deduct", "invalidate"}
          /\ \A q \in Requests \ {r} : task'[q] = task[q]
      BY <2>2 DEF TaskGoes, TaskTo, Typed, TypeOK
    <3>2. req[r].pc # "run"
      BY <1>1 DEF Busy, Typed, Requested, HandleOK
    <3> QED BY <3>1, <3>2 DEF Out
  <2> QED BY <2>1, <2>2 DEF Bill, Apply, DeductCache, InvalidateCache
<1>3. Out' = Out \/ Out' = Out \ {r}
  BY <1>2, OutOthers
<1>4. slipped => slipped'
  BY FaultsOf DEF Bill, Apply, DeductCache, InvalidateCache
<1>5. CASE UNCHANGED balance
  BY <1>3, <1>4, <1>5, CoveredAside
<1>6. CASE Apply(r) /\ Charge(r)
  <2>1. r \in Out /\ req[r].cost \in Nat /\ req[r].cost <= Amount[r]
    BY <1>6, CostTyped DEF Apply, Out, Typed, Requested, ChargeOK
  <2>2. balance' = balance - req[r].cost
    BY <1>6 DEF Charge
  <2> QED BY <1>2, <1>3, <1>4, <2>1, <2>2, LeftOut DEF Covered
<1> QED BY <1>5, <1>6 DEF Bill, Apply, DeductCache, InvalidateCache

\* Every step keeps the bound.
LEMMA CoveredStep ==
    ASSUME BillingAssumption, Typed, Typed', Kept, Covered, [Next]_vars
    PROVE  Covered'
<1>1. ASSUME UNCHANGED <<balance, req, task>>, slipped => slipped'
      PROVE  Covered'
  <2>1. Left' = Left
    BY <1>1 DEF Left, Out, Total, Units
  <2> QED BY <1>1, <2>1 DEF Covered
<1>2. ASSUME NEW r \in Requests, Lapse(r) \/ LapseInUse(r) PROVE Covered'
  <2>1. UNCHANGED <<balance, req, task>>
    BY <1>2 DEF Lapse, LapseInUse, ByRedis
  <2>2. slipped => slipped'
    BY <1>2, FaultsOf DEF Lapse, LapseInUse
  <2> QED BY <1>1, <2>1, <2>2
<1>3. ASSUME CacheExpires PROVE Covered'
  BY <1>1, <1>3, FaultsOf DEF CacheExpires, ByRedis
<1>4. ASSUME NEW w \in writes, CacheWrite(w) PROVE Covered'
  <2>1. UNCHANGED <<balance, req, task>>
    BY <1>4 DEF CacheWrite, ByRedis
  <2>2. slipped => slipped'
    BY <1>4, FaultsOf DEF CacheWrite
  <2> QED BY <1>1, <2>1, <2>2
<1>5. ASSUME NEW r \in Requests, Crash(r) PROVE Covered'
  BY <1>5, FaultsOf DEF Crash, Covered
<1>6. CASE UNCHANGED vars
  BY <1>1, <1>6 DEF vars
<1> QED BY <1>2, <1>3, <1>4, <1>5, <1>6, CoveredReserve, CoveredHandle,
        CoveredBill DEF Next, Handle

\* At the start nobody has been let in.
LEMMA CoveredInit == ASSUME BillingAssumption, Init PROVE Covered
<1>1. balance \in Nat
  BY DEF BillingAssumption, Init
<1>2. Out = {}
  BY DEF Init, Out, Ended
<1>3. Total(Amount, Out) = 0
  BY <1>2, TotalEmpty
<1>4. Left >= 0
  BY <1>1, <1>3 DEF Left
<1> QED BY <1>4 DEF Covered, Solvent

-----------------------------------------------------------------------------
(* The theorems.                                                           *)

Inv == Typed /\ Kept /\ Cached /\ Covered

\* The invariant holds at the start and every step keeps it.
LEMMA InvInit == ASSUME BillingAssumption, Init PROVE Inv
BY TypedInit, KeptInit, CachedInit, CoveredInit DEF Inv

LEMMA InvStep == ASSUME BillingAssumption, Inv, [Next]_vars PROVE Inv'
<1>1. Typed'
  BY TypedStep DEF Inv
<1>2. Kept' /\ Cached' /\ Covered'
  BY <1>1, KeptStep, CachedStep, CoveredStep DEF Inv
<1> QED BY <1>1, <1>2 DEF Inv

\* The invariant bounds the overdraft.
LEMMA InvOverdrawn ==
    ASSUME BillingAssumption, Inv PROVE OverdrawnByOneAtMost
<1>1. PICK m \in Nat : m = Total(Amount, Out)
  BY AmountsTyped
<1>2. balance \in Int
  BY DEF Inv, Typed, TypeOK
<1>3. Left = balance - m
  BY <1>1 DEF Left
<1>4. Left \in Int /\ Left <= balance
  BY <1>2, <1>3
<1>5. ~slipped => Solvent(balance)
  BY <1>2, <1>4, SolventUp DEF Inv, Covered
<1> QED BY <1>5 DEF OverdrawnByOneAtMost, Solvent

\* The invariant of the billing of a gateway request.
LEMMA Invariant == Spec => []Inv
<1>1. Init => Inv
  BY InvInit, BillingAssumption
<1>2. Inv /\ [Next]_vars => Inv'
  BY InvStep, BillingAssumption
<1> QED BY <1>1, <1>2, PTL DEF Spec

\* Types of the balance, the cache, the reservations and the requests: what
\* a handler, its task and the workers of the cache queue do to them.
THEOREM TypeCorrect == Spec => []TypeOK
<1>1. Inv => TypeOK
  BY DEF Inv, Typed
<1> QED BY <1>1, Invariant, PTL

\* ReserveInflight and UsageBillingRepository.Apply: however many requests
\* are in flight, whatever they are estimated to cost and in whichever order
\* they are answered and billed, the balance is not overdrawn by more than
\* one of them, that which was let in alone.
THEOREM OverdraftBounded == Spec => []OverdrawnByOneAtMost
<1>1. Inv => OverdrawnByOneAtMost
  BY InvOverdrawn, BillingAssumption
<1> QED BY <1>1, Invariant, PTL

\* The queue of cache writes and syncBalanceCacheAfterDeduction: the cached
\* balance exceeds the database's by no more than the charges still to be
\* deducted from it.
THEOREM CacheCovered == Spec => []CachedIsCovered
<1>1. Inv => CachedIsCovered
  BY DEF Inv, Cached
<1> QED BY <1>1, Invariant, PTL

\* InflightReservationHandle: the references of the handler and of the
\* billing task keep the reservation as long as either may need it, and no
\* longer.
THEOREM ReservationKept == Spec => []ReservedIffInUse
<1>1. Inv => ReservedIffInUse
  BY DEF Inv, Kept
<1> QED BY <1>1, Invariant, PTL

-----------------------------------------------------------------------------
(***************************************************************************)
(* Part two: AuthCache.                                                    *)
(***************************************************************************)

-----------------------------------------------------------------------------
(* Rows and claims.                                                        *)

\* A row is that of a committed change; lookups are waited for only until
\* the row is due.
RowOK(v) ==
    /\ ~Pending(v) => outbox[v] = NoRow
    /\ Pending(v) => v <= db
    /\ outbox[v].due => outbox[v].waits = {}

\* No snapshot is of the future.
SeenOK ==
    /\ l2 # Nothing => l2 <= db
    /\ \A p \in Procs : /\ l1[p] # Nothing => l1[p] <= db
                        /\ reader[p].seen <= db

\* A worker that still has its claim knows the stage of the row.
ClaimOK ==
    \A p \in Procs : \A t \in work[p] :
        /\ t.id <= db
        /\ outbox[t.id].by = p =>
             outbox[t.id].stage = t.stage /\ outbox[t.id].due

Rowed == \A v \in Changes : RowOK(v)

AuthTyped == AuthTypeOK /\ Rowed /\ SeenOK /\ ClaimOK

LEMMA ConstantsAuth ==
    ASSUME AuthCacheAssumption
    PROVE  /\ MaxChanges \in Nat /\ MaxAuthFaults \in Nat
           /\ Nothing \notin Seen /\ Nothing \notin Procs /\ Nothing \notin Int
           /\ Changes \subseteq Nat /\ Seen \subseteq Nat
           /\ \A v \in Changes : v \in Seen
BY DEF AuthCacheAssumption, Changes, Seen

\* What is left of the faults.
LEMMA AuthFaultsTyped ==
    ASSUME AuthCacheAssumption, AuthTypeOK,
           NoAuthFault \/ \E kind : AuthFault(kind)
    PROVE  authFaults' \in 0 .. MaxAuthFaults
BY ConstantsAuth DEF NoAuthFault, AuthFault, AuthTypeOK

\* A process that forgets its snapshot.
LEMMA ForgetTyped ==
    ASSUME AuthTypeOK, SeenOK, NEW p \in Procs, Forget(p)
    PROVE  /\ l1' \in [Procs -> Seen \cup {Nothing}] /\ missed' \subseteq Procs
           /\ l1'[p] = Nothing /\ \A q \in Procs \ {p} : l1'[q] = l1[q]
           /\ \A q \in Procs \ missed' :
                 /\ q \notin missed \/ q = p
                 /\ q = p => ~Reading(p)
BY DEF Forget, AuthTypeOK

\* Removing the snapshot in Redis.
LEMMA DeleteTyped ==
    ASSUME AuthCacheAssumption, AuthTypeOK, NEW ok \in BOOLEAN, DeleteL2(ok)
    PROVE  /\ l2' \in Seen \cup {Nothing} /\ l2' \in {l2, Nothing}
           /\ ok => l2' = Nothing
           /\ authFaults' \in 0 .. MaxAuthFaults
<1>1. NoAuthFault \/ \E kind : AuthFault(kind)
  BY DEF DeleteL2
<1>2. authFaults' \in 0 .. MaxAuthFaults
  BY <1>1, AuthFaultsTyped
<1> QED BY <1>2 DEF DeleteL2, AuthTypeOK

\* A message: the processes that will not see it and may keep or make an old
\* copy have missed it.
LEMMA PublishTyped ==
    ASSUME AuthCacheAssumption, AuthTypeOK, NEW ok \in BOOLEAN, Publish(ok)
    PROVE  /\ inbox' \subseteq Procs /\ missed' \subseteq Procs
           /\ inbox \subseteq inbox' /\ missed \subseteq missed'
           /\ ok => \A q \in Procs \ missed' :
                       q \in inbox' \/ (l1[q] = Nothing /\ ~Reading(q))
           /\ authFaults' \in 0 .. MaxAuthFaults
<1>1. NoAuthFault \/ \E kind : AuthFault(kind)
  BY DEF Publish
<1>2. authFaults' \in 0 .. MaxAuthFaults
  BY <1>1, AuthFaultsTyped
<1>3. CASE Send
  BY <1>2, <1>3 DEF Send, Miss, AuthTypeOK
<1>4. CASE UNCHANGED <<inbox, missed>> /\ ~ok
  BY <1>2, <1>4 DEF AuthTypeOK
<1> QED BY <1>3, <1>4 DEF Publish

\* Steps that leave the rows and the batches alone.
LEMMA RowsKept ==
    ASSUME AuthTyped, UNCHANGED <<db, outbox, work>>
    PROVE  Rowed' /\ ClaimOK'
BY DEF AuthTyped, Rowed, RowOK, Pending, ClaimOK

\* The change is the first that its row is about.
LEMMA AuthTypedChange ==
    ASSUME AuthCacheAssumption, AuthTyped, NEW p \in Procs, Change(p)
    PROVE  AuthTyped'
<1> USE DEF AuthTyped
<1> DEFINE new == [NoRow EXCEPT !.stage = "first", !.due = TRUE]
<1>1. /\ db \in Nat /\ db' = db + 1 /\ db' \in Changes /\ db' \in Seen
      /\ db < MaxChanges
  BY ConstantsAuth DEF Change, AuthTypeOK, Seen, Changes
<1>2. /\ new \in Rows /\ new.stage = "first" /\ new.due /\ new.waits = {}
      /\ new.by = Nothing
  BY DEF NoRow, Rows
<1>3. outbox' = [outbox EXCEPT ![db'] = new]
  BY DEF Change, Row
<1> HIDE DEF new
<1>4. /\ outbox' \in [Changes -> Rows] /\ outbox'[db'] = new
      /\ \A v \in Changes \ {db'} : outbox'[v] = outbox[v]
  BY <1>1, <1>2, <1>3 DEF AuthTypeOK
<1>5. AuthTypeOK'
  <2>1. direct' \in [Procs -> {"no", "delete", "publish"}]
    BY DEF Change, AuthTypeOK
  <2> QED BY <1>1, <1>4, <2>1 DEF Change, AuthTypeOK, ofProc
<1>6. Rowed'
  <2> SUFFICES ASSUME NEW v \in Changes PROVE RowOK(v)'
    BY DEF Rowed
  <2>1. CASE v = db'
    BY <1>1, <1>2, <1>4, <2>1 DEF RowOK, Pending
  <2>2. CASE v # db'
    <3>1. v \in Nat /\ RowOK(v)
      BY ConstantsAuth DEF Rowed
    <3> QED BY <1>1, <1>4, <2>2, <3>1 DEF RowOK, Pending
  <2> QED BY <2>1, <2>2
<1>7. SeenOK'
  <2>1. \A p1 \in Procs : /\ l1[p1] # Nothing => l1[p1] \in Nat
                          /\ reader[p1].seen \in Nat
    BY ConstantsAuth DEF AuthTypeOK, Readers
  <2>2. l2 # Nothing => l2 \in Nat
    BY ConstantsAuth DEF AuthTypeOK
  <2> QED BY <1>1, <2>1, <2>2 DEF SeenOK, Change, ofProc
<1>8. ClaimOK'
  <2> SUFFICES ASSUME NEW q \in Procs, NEW t \in work'[q]
               PROVE  /\ t.id <= db'
                      /\ outbox'[t.id].by = q =>
                           outbox'[t.id].stage = t.stage /\ outbox'[t.id].due
    BY DEF ClaimOK
  <2>1. t \in work[q] /\ t.id \in Changes /\ t.id \in Nat
    BY ConstantsAuth DEF Change, AuthTypeOK, Tasks
  <2>2. t.id <= db
    BY <2>1 DEF ClaimOK
  <2>3. t.id # db' /\ t.id <= db'
    BY <1>1, <2>1, <2>2
  <2> QED BY <1>4, <2>1, <2>3 DEF ClaimOK
<1> QED BY <1>5, <1>6, <1>7, <1>8

\* The direct invalidation, messages, and entries that expire.
LEMMA AuthTypedAside ==
    ASSUME AuthCacheAssumption, AuthTyped, NEW p \in Procs,
           \/ DirectDelete(p) \/ DirectPublish(p) \/ Deliver(p)
           \/ Disconnect(p) \/ Subscribe(p) \/ L1Expires(p) \/ L2Expires
    PROVE  AuthTyped'
<1> USE DEF AuthTyped
<1>1. UNCHANGED <<db, outbox, work, reader, late>>
  BY DEF DirectDelete, DirectPublish, Deliver, Disconnect, Subscribe,
     L1Expires, L2Expires, ByTime, ofKey, ofProc
<1>2. Rowed' /\ ClaimOK'
  BY <1>1, RowsKept
<1>3. /\ l1' \in [Procs -> Seen \cup {Nothing}] /\ missed' \subseteq Procs
      /\ \A q \in Procs : l1'[q] \in {l1[q], Nothing}
  <2>1. CASE Forget(p)
    BY <2>1, ForgetTyped
  <2>2. CASE UNCHANGED l1 /\ missed' \subseteq Procs
    BY <2>2 DEF AuthTypeOK
  <2>3. CASE DirectPublish(p)
    <3>1. UNCHANGED l1 /\ missed' \subseteq Procs
      BY <2>3, PublishTyped DEF DirectPublish
    <3> QED BY <2>2, <3>1
  <2>4. CASE Disconnect(p) \/ Subscribe(p) \/ L2Expires
    <3>1. UNCHANGED l1 /\ missed' \subseteq Procs
      BY <2>4 DEF Disconnect, Subscribe, L2Expires, Miss, ofProc, AuthTypeOK
    <3> QED BY <2>2, <3>1
  <2> QED BY <2>1, <2>3, <2>4 DEF DirectDelete, Deliver, L1Expires
<1>4. l2' \in Seen \cup {Nothing} /\ l2' \in {l2, Nothing}
  <2>1. CASE DirectDelete(p)
    BY <2>1, DeleteTyped DEF DirectDelete
  <2>2. CASE UNCHANGED l2 \/ L2Expires
    BY <2>2 DEF L2Expires, AuthTypeOK
  <2> QED BY <2>1, <2>2 DEF DirectPublish, Deliver, Disconnect, Subscribe,
          L1Expires
<1>5. SeenOK'
  BY <1>1, <1>3, <1>4 DEF SeenOK, AuthTypeOK
<1>6. /\ inbox' \subseteq Procs /\ conn' \subseteq Procs
      /\ direct' \in [Procs -> {"no", "delete", "publish"}]
  <2>1. CASE DirectPublish(p)
    <3>1. inbox' \subseteq Procs
      BY <2>1, PublishTyped DEF DirectPublish
    <3> QED BY <2>1, <3>1 DEF DirectPublish, AuthTypeOK
  <2>2. CASE DirectDelete(p)
    BY <2>2 DEF DirectDelete, AuthTypeOK
  <2>3. CASE Deliver(p) \/ Disconnect(p) \/ Subscribe(p)
    BY <2>3 DEF Deliver, Disconnect, Subscribe, AuthTypeOK
  <2>4. CASE L1Expires(p) \/ L2Expires
    BY <2>4 DEF L1Expires, L2Expires, ByTime, AuthTypeOK
  <2> QED BY <2>1, <2>2, <2>3, <2>4
<1>7. authFaults' \in 0 .. MaxAuthFaults
  <2>1. CASE DirectDelete(p)
    BY <2>1, DeleteTyped DEF DirectDelete
  <2>2. CASE DirectPublish(p)
    BY <2>2, PublishTyped DEF DirectPublish
  <2>3. CASE Disconnect(p)
    BY <2>3, AuthFaultsTyped DEF Disconnect
  <2>4. CASE UNCHANGED authFaults
    BY <2>4 DEF AuthTypeOK
  <2> QED BY <2>1, <2>2, <2>3, <2>4 DEF Deliver, Subscribe, L1Expires,
          L2Expires
<1>8. AuthTypeOK'
  BY <1>1, <1>3, <1>4, <1>6, <1>7 DEF AuthTypeOK
<1> QED BY <1>2, <1>5, <1>8

\* A lookup starts from what is there.
LEMMA AuthTypedLookup ==
    ASSUME AuthCacheAssumption, AuthTyped, NEW p \in Procs, Lookup(p)
    PROVE  AuthTyped'
<1> USE DEF AuthTyped
<1>1. UNCHANGED <<db, outbox, l2, l1, missed, direct, work, conn, inbox, late>>
  BY DEF Lookup, ByReader
<1>2. PICK pc \in {"copy", "load"}, n \in Seen :
         reader' = [reader EXCEPT ![p] = [pc |-> pc, seen |-> n]] /\ n <= db
  <2>1. db \in Seen /\ db <= db
    BY ConstantsAuth DEF AuthTypeOK
  <2>2. l2 # Nothing => l2 \in Seen /\ l2 <= db
    BY DEF AuthTypeOK, SeenOK
  <2> QED BY <2>1, <2>2 DEF Lookup, Find
<1>3. authFaults' \in 0 .. MaxAuthFaults
  BY AuthFaultsTyped DEF Lookup
<1>4. reader' \in [Procs -> Readers]
  BY <1>2 DEF AuthTypeOK, Readers
<1>5. AuthTypeOK'
  BY <1>1, <1>3, <1>4 DEF AuthTypeOK
<1>6. Rowed' /\ ClaimOK'
  BY <1>1, RowsKept
<1>7. SeenOK'
  <2>1. reader'[p].seen = n /\ \A q \in Procs \ {p} : reader'[q] = reader[q]
    BY <1>2 DEF AuthTypeOK
  <2> QED BY <1>1, <1>2, <2>1 DEF SeenOK
<1> QED BY <1>5, <1>6, <1>7

\* What the end of a lookup does to the rows: it is not waited for any more.
LEMMA ReturnTyped ==
    ASSUME AuthCacheAssumption, AuthTyped, NEW p \in Procs, Return(p)
    PROVE  /\ outbox' \in [Changes -> Rows] /\ reader' \in [Procs -> Readers]
           /\ reader'[p] = Idle
           /\ \A q \in Procs \ {p} : reader'[q] = reader[q]
           /\ \A v \in Changes :
                 /\ outbox'[v].stage = outbox[v].stage
                 /\ outbox'[v].due = outbox[v].due
                 /\ outbox'[v].by = outbox[v].by
                 /\ outbox'[v].waits = outbox[v].waits \ {p}
                 /\ outbox[v] = NoRow => outbox'[v] = NoRow
<1> USE DEF AuthTyped
<1>1. Idle \in Readers
  BY ConstantsAuth DEF Idle, Readers, Seen, AuthTypeOK
<1>2. /\ reader' \in [Procs -> Readers] /\ reader'[p] = Idle
      /\ \A q \in Procs \ {p} : reader'[q] = reader[q]
  BY <1>1 DEF Return, AuthTypeOK
<1>3. ASSUME NEW v \in Changes
      PROVE  /\ outbox'[v] \in Rows
             /\ outbox'[v].stage = outbox[v].stage
             /\ outbox'[v].due = outbox[v].due
             /\ outbox'[v].by = outbox[v].by
             /\ outbox'[v].waits = outbox[v].waits \ {p}
             /\ outbox[v] = NoRow => outbox'[v] = NoRow
  <2>1. outbox[v] \in Rows
    BY DEF AuthTypeOK
  <2>2. outbox'[v] = [outbox[v] EXCEPT !.waits = outbox[v].waits \ {p}]
    BY <2>1 DEF Return, Rows
  <2>3. /\ outbox'[v] \in Rows
        /\ outbox'[v].stage = outbox[v].stage
        /\ outbox'[v].due = outbox[v].due
        /\ outbox'[v].by = outbox[v].by
        /\ outbox'[v].waits = outbox[v].waits \ {p}
    BY <2>1, <2>2 DEF Rows
  <2>4. outbox[v] = NoRow => outbox'[v] = NoRow
    <3>1. NoRow.waits \ {p} = NoRow.waits
      BY DEF NoRow
    <3>2. [NoRow EXCEPT !.waits = NoRow.waits] = NoRow
      BY DEF NoRow
    <3> QED BY <2>2, <3>1, <3>2
  <2> QED BY <2>3, <2>4
<1>4. outbox' \in [Changes -> Rows]
  <2>1. outbox' = [v \in Changes |-> outbox'[v]]
    BY DEF Return
  <2> QED BY <1>3, <2>1
<1> QED BY <1>2, <1>3, <1>4

\* The rows and claims when a lookup ends.
LEMMA ReturnRows ==
    ASSUME AuthCacheAssumption, AuthTyped, NEW p \in Procs, Return(p),
           db' = db, \A q \in Procs : work'[q] \subseteq work[q]
    PROVE  Rowed' /\ ClaimOK'
<1> USE DEF AuthTyped
<1>1. \A v \in Changes :
         /\ outbox'[v].stage = outbox[v].stage
         /\ outbox'[v].due = outbox[v].due
         /\ outbox'[v].by = outbox[v].by
         /\ outbox'[v].waits = outbox[v].waits \ {p}
         /\ outbox[v] = NoRow => outbox'[v] = NoRow
  BY ReturnTyped
<1>2. Rowed'
  BY <1>1 DEF Rowed, RowOK, Pending
<1>3. \A q \in Procs : \A t \in work[q] : t.id \in Changes
  BY DEF AuthTypeOK, Tasks
<1> QED BY <1>1, <1>2, <1>3 DEF ClaimOK

\* A lookup ends with its snapshot in the process, and in Redis after a load.
LEMMA AuthTypedRemember ==
    ASSUME AuthCacheAssumption, AuthTyped, NEW p \in Procs, Remember(p)
    PROVE  AuthTyped'
<1> USE DEF AuthTyped
<1>1. UNCHANGED <<db, direct, work, conn, inbox, late>> /\ Return(p)
  BY DEF Remember, ByReader
<1>2. /\ outbox' \in [Changes -> Rows] /\ reader' \in [Procs -> Readers]
      /\ reader'[p] = Idle
      /\ \A q \in Procs \ {p} : reader'[q] = reader[q]
  BY <1>1, ReturnTyped
<1>3. Rowed' /\ ClaimOK'
  <2>1. \A q \in Procs : work'[q] \subseteq work[q]
    BY <1>1
  <2> QED BY <1>1, <2>1, ReturnRows
<1>4. reader[p].seen \in Seen /\ reader[p].seen <= db
  BY DEF AuthTypeOK, Readers, SeenOK
<1>5. /\ l1' \in [Procs -> Seen \cup {Nothing}] /\ missed' \subseteq Procs
      /\ l1'[p] = reader[p].seen /\ \A q \in Procs \ {p} : l1'[q] = l1[q]
  BY <1>4 DEF Remember, AuthTypeOK
<1>6. l2' \in Seen \cup {Nothing} /\ l2' \in {l2, reader[p].seen}
  BY <1>4 DEF Remember, AuthTypeOK
<1>7. authFaults' \in 0 .. MaxAuthFaults
  BY AuthFaultsTyped DEF Remember
<1>8. AuthTypeOK'
  BY <1>1, <1>2, <1>5, <1>6, <1>7 DEF AuthTypeOK
<1>9. SeenOK'
  <2>1. Idle.seen <= db
    BY ConstantsAuth DEF Idle, AuthTypeOK, Seen
  <2> QED BY <1>1, <1>2, <1>4, <1>5, <1>6, <2>1 DEF SeenOK
<1> QED BY <1>3, <1>8, <1>9

\* A process restarts.
LEMMA AuthTypedRestart ==
    ASSUME AuthCacheAssumption, AuthTyped, NEW p \in Procs, Restart(p)
    PROVE  AuthTyped'
<1> USE DEF AuthTyped
<1>1. UNCHANGED <<db, l2, late>> /\ Return(p)
  BY DEF Restart
<1>2. /\ outbox' \in [Changes -> Rows] /\ reader' \in [Procs -> Readers]
      /\ reader'[p] = Idle
      /\ \A q \in Procs \ {p} : reader'[q] = reader[q]
  BY <1>1, ReturnTyped
<1>3. /\ \A q \in Procs : work'[q] \subseteq work[q]
      /\ work' \in [Procs -> SUBSET Tasks]
  BY DEF Restart, AuthTypeOK
<1>4. Rowed' /\ ClaimOK'
  BY <1>1, <1>3, ReturnRows
<1>5. /\ l1' \in [Procs -> Seen \cup {Nothing}] /\ missed' \subseteq Procs
      /\ \A q \in Procs : l1'[q] \in {l1[q], Nothing}
  BY DEF Restart, AuthTypeOK
<1>6. authFaults' \in 0 .. MaxAuthFaults
  BY AuthFaultsTyped DEF Restart
<1>7. /\ direct' \in [Procs -> {"no", "delete", "publish"}]
      /\ conn' \subseteq Procs /\ inbox' \subseteq Procs
  BY DEF Restart, AuthTypeOK
<1>8. \A q \in Procs : \A s, t \in work'[q] : s.id = t.id => s = t
  BY <1>3 DEF AuthTypeOK
<1>9. AuthTypeOK'
  BY <1>1, <1>2, <1>3, <1>5, <1>6, <1>7, <1>8 DEF AuthTypeOK
<1>10. SeenOK'
  <2>1. Idle.seen <= db
    BY ConstantsAuth DEF Idle, AuthTypeOK, Seen
  <2> QED BY <1>1, <1>2, <1>5, <2>1 DEF SeenOK
<1> QED BY <1>4, <1>9, <1>10

\* A step of time on one row.
LEMMA AuthTypedTime ==
    ASSUME AuthCacheAssumption, AuthTyped, NEW v \in Changes,
           ComesDue(v) \/ ComesDueEarly(v) \/ ClaimLapses(v)
    PROVE  AuthTyped'
<1> USE DEF AuthTyped
<1>1. UNCHANGED <<db, l2, l1, reader, missed, direct, work, conn, inbox>>
  BY DEF ComesDue, ComesDueEarly, ClaimLapses, ByTime
<1>2. outbox[v] \in Rows /\ RowOK(v)
  BY DEF AuthTypeOK, Rowed
<1>3. PICK row \in Rows :
         /\ outbox' = [outbox EXCEPT ![v] = row]
         /\ row.stage = outbox[v].stage /\ row.by = outbox[v].by
         /\ outbox[v].due => row.due
         /\ row.due => row.waits = {}
         /\ Pending(v)
  <2>1. CASE ComesDue(v)
    <3> DEFINE row == [outbox[v] EXCEPT !.due = TRUE]
    <3>1. /\ row \in Rows /\ row.stage = outbox[v].stage
          /\ row.by = outbox[v].by /\ row.due /\ row.waits = outbox[v].waits
      BY <1>2 DEF Rows
    <3>2. outbox' = [outbox EXCEPT ![v] = row] /\ outbox[v].waits = {}
          /\ Pending(v)
      BY <2>1 DEF ComesDue, Row
    <3> HIDE DEF row
    <3> QED BY <3>1, <3>2
  <2>2. CASE ComesDueEarly(v)
    <3> DEFINE row == [outbox[v] EXCEPT !.due = TRUE, !.waits = {}]
    <3>1. /\ row \in Rows /\ row.stage = outbox[v].stage
          /\ row.by = outbox[v].by /\ row.due /\ row.waits = {}
      BY <1>2 DEF Rows
    <3>2. outbox' = [outbox EXCEPT ![v] = row] /\ Pending(v)
      BY <2>2 DEF ComesDueEarly, Row
    <3> HIDE DEF row
    <3> QED BY <3>1, <3>2
  <2>3. CASE ClaimLapses(v)
    <3> DEFINE row == [outbox[v] EXCEPT !.lapsed = TRUE]
    <3>1. /\ row \in Rows /\ row.stage = outbox[v].stage
          /\ row.by = outbox[v].by /\ row.due = outbox[v].due
          /\ row.waits = outbox[v].waits
      BY <1>2 DEF Rows
    <3>2. outbox' = [outbox EXCEPT ![v] = row] /\ Pending(v)
      BY <2>3 DEF ClaimLapses, Row
    <3> HIDE DEF row
    <3> QED BY <1>2, <3>1, <3>2 DEF RowOK
  <2> QED BY <2>1, <2>2, <2>3
<1>4. /\ outbox' \in [Changes -> Rows] /\ outbox'[v] = row
      /\ \A u \in Changes \ {v} : outbox'[u] = outbox[u]
  BY <1>3 DEF AuthTypeOK
<1>5. late' \in BOOLEAN
  BY DEF ComesDue, ComesDueEarly, ClaimLapses, AuthTypeOK
<1>6. authFaults' \in 0 .. MaxAuthFaults
  BY AuthFaultsTyped DEF ComesDue, ComesDueEarly, ClaimLapses, NoAuthFault
<1>7. AuthTypeOK'
  BY <1>1, <1>4, <1>5, <1>6 DEF AuthTypeOK
<1>8. Rowed'
  BY <1>1, <1>2, <1>3, <1>4 DEF Rowed, RowOK, Pending
<1>9. ClaimOK'
  <2>1. \A q \in Procs : \A t \in work[q] : t.id \in Changes
    BY DEF AuthTypeOK, Tasks
  <2> QED BY <1>1, <1>3, <1>4, <2>1 DEF ClaimOK
<1>10. SeenOK'
  BY <1>1 DEF SeenOK
<1> QED BY <1>7, <1>8, <1>9, <1>10

\* A worker takes a batch.
LEMMA AuthTypedClaim ==
    ASSUME AuthCacheAssumption, AuthTyped, NEW p \in Procs, Claim(p)
    PROVE  AuthTyped'
<1> USE DEF AuthTyped
<1> DEFINE batch == {v \in Changes : Claimable(v)}
           taken(v) == [id |-> v, stage |-> outbox[v].stage, pc |-> "delete"]
<1>1. UNCHANGED <<db, l2, l1, reader, missed, direct, conn, inbox, late>>
      /\ work[p] = {}
  BY DEF Claim, ofProc
<1>2. ASSUME NEW v \in Changes
      PROVE  /\ outbox'[v] \in Rows
             /\ outbox'[v].stage = outbox[v].stage
             /\ outbox'[v].due = outbox[v].due
             /\ outbox'[v].waits = outbox[v].waits
             /\ v \in batch => outbox'[v].by = p
             /\ v \notin batch => outbox'[v] = outbox[v]
  <2>1. outbox[v] \in Rows
    BY DEF AuthTypeOK
  <2>2. CASE v \in batch
    <3>1. outbox'[v] = [outbox[v] EXCEPT !.by = p, !.lapsed = FALSE]
      BY <2>2 DEF Claim
    <3> QED BY <2>1, <2>2, <3>1 DEF Rows
  <2>3. CASE v \notin batch
    <3>1. outbox'[v] = outbox[v]
      BY <2>3 DEF Claim
    <3> QED BY <2>1, <2>3, <3>1
  <2> QED BY <2>2, <2>3
<1>3. outbox' \in [Changes -> Rows]
  <2>1. outbox' = [v \in Changes |-> outbox'[v]]
    BY DEF Claim
  <2> HIDE DEF batch, taken
  <2> QED BY <1>2, <2>1
<1>4. \A v \in batch : Pending(v) /\ outbox[v].due /\ v \in Changes
  BY DEF Claimable
<1>5. /\ \A q \in Procs \ {p} : work'[q] = work[q]
      /\ work'[p] = {} \/ work'[p] = {taken(v) : v \in batch}
      /\ DOMAIN work' = Procs /\ work' = [q \in Procs |-> work'[q]]
  BY <1>1 DEF Claim, AuthTypeOK
<1>6. ASSUME NEW v \in batch
      PROVE  /\ taken(v) \in Tasks /\ taken(v).id = v
             /\ taken(v).stage = outbox[v].stage /\ taken(v).pc = "delete"
  <2>1. outbox[v] \in Rows /\ Pending(v)
    BY <1>4 DEF AuthTypeOK
  <2>2. outbox[v].stage \in {"first", "second"}
    BY <2>1 DEF Rows, Pending
  <2> QED BY <2>2 DEF Tasks
<1> HIDE DEF taken
<1>7. /\ \A t \in work'[p] : /\ t \in Tasks /\ t.id \in batch /\ t = taken(t.id)
                             /\ t.pc = "delete" /\ t.stage = outbox[t.id].stage
  BY <1>5, <1>6
<1> HIDE DEF batch
<1>8. work' \in [Procs -> SUBSET Tasks]
  <2>1. \A q \in Procs : work'[q] \subseteq Tasks
    BY <1>5, <1>7 DEF AuthTypeOK
  <2> QED BY <1>5, <2>1
<1>9. \A q \in Procs : \A s, t \in work'[q] : s.id = t.id => s = t
  <2> SUFFICES ASSUME NEW q \in Procs, NEW s \in work'[q], NEW t \in work'[q],
                      s.id = t.id
               PROVE  s = t
    OBVIOUS
  <2>1. CASE q = p
    BY <1>7, <2>1
  <2>2. CASE q # p
    BY <1>5, <2>2 DEF AuthTypeOK
  <2> QED BY <2>1, <2>2
<1>10. authFaults' \in 0 .. MaxAuthFaults
  BY AuthFaultsTyped DEF Claim
<1>11. AuthTypeOK'
  BY <1>1, <1>3, <1>8, <1>9, <1>10 DEF AuthTypeOK
<1>12. Rowed'
  <2> SUFFICES ASSUME NEW v \in Changes PROVE RowOK(v)'
    BY DEF Rowed
  <2>1. RowOK(v)
    BY DEF Rowed
  <2>2. ~Pending(v) => outbox'[v] = outbox[v]
    BY <1>2, <1>4
  <2> QED BY <1>1, <1>2, <2>1, <2>2 DEF RowOK, Pending
<1>13. ClaimOK'
  <2> SUFFICES ASSUME NEW q \in Procs, NEW t \in work'[q]
               PROVE  /\ t.id <= db'
                      /\ outbox'[t.id].by = q =>
                           outbox'[t.id].stage = t.stage /\ outbox'[t.id].due
    BY DEF ClaimOK
  <2>1. CASE q = p
    <3>1. /\ t.id \in batch /\ t.id \in Changes /\ t.stage = outbox[t.id].stage
          /\ Pending(t.id) /\ outbox[t.id].due
      BY <1>4, <1>7, <2>1
    <3>2. t.id <= db
      BY <3>1 DEF Rowed, RowOK
    <3> QED BY <1>1, <1>2, <3>1, <3>2
  <2>2. CASE q # p
    <3>1. t \in work[q] /\ t.id \in Changes
      BY <1>5, <2>2 DEF AuthTypeOK, Tasks
    <3>2. outbox'[t.id].by = q => outbox'[t.id] = outbox[t.id]
      BY <1>2, <2>2, <3>1
    <3> QED BY <1>1, <3>1, <3>2 DEF ClaimOK
  <2> QED BY <2>1, <2>2
<1>14. SeenOK'
  BY <1>1 DEF SeenOK
<1> QED BY <1>11, <1>12, <1>13, <1>14

\* A task that goes on is the same task in another step.
LEMMA GoesTyped ==
    ASSUME AuthTypeOK, NEW p \in Procs, NEW t \in work[p],
           NEW pc \in {"delete", "publish", "ack", "retry"}, Goes(p, t, pc)
    PROVE  /\ work' \in [Procs -> SUBSET Tasks]
           /\ \A q \in Procs : \A s, u \in work'[q] : s.id = u.id => s = u
           /\ \A q \in Procs \ {p} : work'[q] = work[q]
           /\ \A s \in work'[p] :
                 \/ s \in work[p] /\ s.id # t.id
                 \/ s.id = t.id /\ s.stage = t.stage /\ s.pc = pc
<1> DEFINE n == [t EXCEPT !.pc = pc]
<1>1. t \in Tasks
  BY DEF AuthTypeOK
<1>2. n \in Tasks /\ n.id = t.id /\ n.stage = t.stage /\ n.pc = pc
  BY <1>1 DEF Tasks
<1>3. work' = [work EXCEPT ![p] = (work[p] \ {t}) \cup {n}]
  BY DEF Goes
<1> HIDE DEF n
<1>4. /\ work'[p] = (work[p] \ {t}) \cup {n}
      /\ \A q \in Procs \ {p} : work'[q] = work[q]
      /\ work' \in [Procs -> SUBSET Tasks]
  BY <1>2, <1>3 DEF AuthTypeOK
<1>5. \A s \in work[p] \ {t} : s.id # t.id
  BY DEF AuthTypeOK
<1>6. \A q \in Procs : \A s, u \in work'[q] : s.id = u.id => s = u
  <2> SUFFICES ASSUME NEW q \in Procs, NEW s \in work'[q], NEW u \in work'[q],
                      s.id = u.id
               PROVE  s = u
    OBVIOUS
  <2>1. CASE q = p
    <3>1. s \in work[p] \ {t} \/ s = n
      BY <1>4, <2>1
    <3>2. u \in work[p] \ {t} \/ u = n
      BY <1>4, <2>1
    <3>3. s \in work[p] /\ u \in work[p] => s = u
      BY DEF AuthTypeOK
    <3> QED BY <1>2, <1>5, <3>1, <3>2, <3>3
  <2>2. CASE q # p
    BY <1>4, <2>2 DEF AuthTypeOK
  <2> QED BY <2>1, <2>2
<1> QED BY <1>2, <1>4, <1>5, <1>6

\* A worker deletes what is cached, and tells the other processes.
LEMMA AuthTypedDeliver ==
    ASSUME AuthCacheAssumption, AuthTyped, NEW p \in Procs, NEW t \in work[p],
           Delete(p, t) \/ Tell(p, t)
    PROVE  AuthTyped'
<1> USE DEF AuthTyped
<1>1. UNCHANGED <<db, outbox, reader, direct, conn, late>>
  BY DEF Delete, Tell, ofKey
<1>2. PICK pc \in {"delete", "publish", "ack", "retry"} : Goes(p, t, pc)
  BY DEF Delete, Tell
<1>3. /\ work' \in [Procs -> SUBSET Tasks]
      /\ \A q \in Procs : \A s, u \in work'[q] : s.id = u.id => s = u
      /\ \A q \in Procs \ {p} : work'[q] = work[q]
      /\ \A s \in work'[p] :
            \/ s \in work[p] /\ s.id # t.id
            \/ s.id = t.id /\ s.stage = t.stage /\ s.pc = pc
  BY <1>2, GoesTyped
<1>4. /\ l2' \in Seen \cup {Nothing} /\ l2' \in {l2, Nothing}
      /\ l1' \in [Procs -> Seen \cup {Nothing}] /\ missed' \subseteq Procs
      /\ \A q \in Procs : l1'[q] \in {l1[q], Nothing}
      /\ inbox' \subseteq Procs
      /\ authFaults' \in 0 .. MaxAuthFaults
  <2>1. CASE Delete(p, t)
    <3>1. /\ l2' \in Seen \cup {Nothing} /\ l2' \in {l2, Nothing}
          /\ authFaults' \in 0 .. MaxAuthFaults
      BY <2>1, DeleteTyped DEF Delete
    <3>2. /\ l1' \in [Procs -> Seen \cup {Nothing}] /\ missed' \subseteq Procs
          /\ \A q \in Procs : l1'[q] \in {l1[q], Nothing}
      BY <2>1, ForgetTyped DEF Delete
    <3>3. inbox' \subseteq Procs
      BY <2>1 DEF Delete, AuthTypeOK
    <3> QED BY <3>1, <3>2, <3>3
  <2>2. CASE Tell(p, t)
    <3>1. /\ inbox' \subseteq Procs /\ missed' \subseteq Procs
          /\ authFaults' \in 0 .. MaxAuthFaults
      BY <2>2, PublishTyped DEF Tell
    <3> QED BY <2>2, <3>1 DEF Tell, AuthTypeOK
  <2> QED BY <2>1, <2>2
<1>5. AuthTypeOK'
  BY <1>1, <1>3, <1>4 DEF AuthTypeOK
<1>6. Rowed'
  BY <1>1 DEF Rowed, RowOK, Pending
<1>7. ClaimOK'
  <2> SUFFICES ASSUME NEW q \in Procs, NEW s \in work'[q]
               PROVE  /\ s.id <= db
                      /\ outbox[s.id].by = q =>
                           outbox[s.id].stage = s.stage /\ outbox[s.id].due
    BY <1>1 DEF ClaimOK
  <2>1. \E u \in work[q] : u.id = s.id /\ u.stage = s.stage
    BY <1>3
  <2> QED BY <2>1 DEF ClaimOK
<1>8. SeenOK'
  BY <1>1, <1>4 DEF SeenOK, AuthTypeOK
<1> QED BY <1>5, <1>6, <1>7, <1>8

\* The rows that a task may leave: freed for a retry, scheduled for the
\* second pass, or deleted.
Outcome(p, t, row) ==
    \/ t.pc = "retry" /\ row = Free(t.id)
    \/ /\ t.pc = "ack" /\ t.stage = "first"
       /\ row = [Free(t.id) EXCEPT !.stage = "second",
                                   !.waits = {q \in Procs : Reading(q)}]
    \/ t.pc = "ack" /\ t.stage = "second" /\ row = NoRow

LEMMA SettleIs ==
    ASSUME NEW p \in Procs, NEW t \in work[p],
           \/ ScheduleSecondPass(p, t) \/ DeleteClaimed(p, t)
           \/ RetryClaimed(p, t)
    PROVE  \E row : Outcome(p, t, row) /\ Settle(p, t, row)
BY DEF ScheduleSecondPass, DeleteClaimed, RetryClaimed, Outcome

\* What is known of such a row.
LEMMA OutcomeTyped ==
    ASSUME AuthCacheAssumption, AuthTyped, NEW p \in Procs, NEW t \in work[p],
           Mine(p, t), NEW row, Outcome(p, t, row)
    PROVE  /\ row \in Rows /\ row.by = Nothing /\ ~row.due
           /\ row.stage = "absent" => row = NoRow
           /\ \/ row.stage = outbox[t.id].stage /\ row.waits = outbox[t.id].waits
              \/ row.stage = "second" /\ row.waits = {q \in Procs : Reading(q)}
              \/ row = NoRow /\ t.pc = "ack" /\ t.stage = "second"
<1>1. t \in Tasks /\ outbox[t.id] \in Rows /\ outbox[t.id].stage # "absent"
  BY DEF AuthTyped, AuthTypeOK, Tasks, Mine, Pending
<1>2. /\ Free(t.id) \in Rows /\ Free(t.id).stage = outbox[t.id].stage
      /\ Free(t.id).by = Nothing /\ ~Free(t.id).due
      /\ Free(t.id).waits = outbox[t.id].waits
  BY <1>1 DEF Free, Rows
<1>3. /\ NoRow \in Rows /\ NoRow.by = Nothing /\ ~NoRow.due
      /\ NoRow.stage = "absent"
  BY DEF NoRow, Rows
<1>4. CASE t.pc = "retry" /\ row = Free(t.id)
  BY <1>1, <1>2, <1>4
<1>5. CASE row = [Free(t.id) EXCEPT !.stage = "second",
                                    !.waits = {q \in Procs : Reading(q)}]
  BY <1>2, <1>5 DEF Rows
<1>6. CASE t.pc = "ack" /\ t.stage = "second" /\ row = NoRow
  BY <1>3, <1>6
<1> QED BY <1>4, <1>5, <1>6 DEF Outcome

\* A worker is done with a row.
LEMMA AuthTypedSettle ==
    ASSUME AuthCacheAssumption, AuthTyped, NEW p \in Procs, NEW t \in work[p],
           NEW row, Outcome(p, t, row), Settle(p, t, row)
    PROVE  AuthTyped'
<1> USE DEF AuthTyped
<1>1. UNCHANGED <<db, l2, l1, reader, missed, direct, conn, inbox, late>>
  BY DEF Settle, ofProc
<1>2. /\ work' \in [Procs -> SUBSET Tasks] /\ work'[p] = work[p] \ {t}
      /\ \A q \in Procs \ {p} : work'[q] = work[q]
  BY DEF Settle, Done, AuthTypeOK
<1>3. \A q \in Procs : work'[q] \subseteq work[q]
  BY <1>2
<1>4. authFaults' \in 0 .. MaxAuthFaults
  BY AuthFaultsTyped DEF Settle
<1>5. t \in Tasks /\ t.id \in Changes
  BY DEF AuthTypeOK, Tasks
<1>6. CASE outbox' = outbox
  <2>1. AuthTypeOK'
    BY <1>1, <1>2, <1>3, <1>4, <1>6 DEF AuthTypeOK
  <2>2. Rowed' /\ SeenOK'
    BY <1>1, <1>6 DEF Rowed, RowOK, Pending, SeenOK
  <2>3. ClaimOK'
    BY <1>1, <1>3, <1>6 DEF ClaimOK
  <2> QED BY <2>1, <2>2, <2>3
<1>7. CASE Mine(p, t) /\ outbox' = [outbox EXCEPT ![t.id] = row]
  <2>1. /\ row \in Rows /\ row.by = Nothing /\ ~row.due
        /\ row.stage = "absent" => row = NoRow
    BY <1>7, OutcomeTyped
  <2>2. /\ outbox' \in [Changes -> Rows] /\ outbox'[t.id] = row
        /\ \A v \in Changes \ {t.id} : outbox'[v] = outbox[v]
    BY <1>5, <1>7, <2>1 DEF AuthTypeOK
  <2>3. AuthTypeOK'
    BY <1>1, <1>2, <1>3, <1>4, <2>2 DEF AuthTypeOK
  <2>4. Rowed'
    <3>1. t.id <= db
      BY <1>5, <1>7 DEF Mine, Rowed, RowOK
    <3> QED BY <1>1, <2>1, <2>2, <3>1 DEF Rowed, RowOK, Pending
  <2>5. ClaimOK'
    <3> SUFFICES ASSUME NEW q \in Procs, NEW s \in work'[q]
                 PROVE  /\ s.id <= db
                        /\ outbox'[s.id].by = q =>
                             outbox'[s.id].stage = s.stage /\ outbox'[s.id].due
      BY <1>1 DEF ClaimOK
    <3>1. s \in work[q] /\ s.id \in Changes
      BY <1>3 DEF AuthTypeOK, Tasks
    <3>2. outbox'[s.id].by = q => s.id # t.id
      BY <2>1, <2>2, ConstantsAuth
    <3> QED BY <2>2, <3>1, <3>2 DEF ClaimOK
  <2>6. SeenOK'
    BY <1>1 DEF SeenOK
  <2> QED BY <2>3, <2>4, <2>5, <2>6
<1> QED BY <1>6, <1>7 DEF Settle, Row

\* Every step.
LEMMA AuthTypedStep ==
    ASSUME AuthCacheAssumption, AuthTyped, [AuthNext]_authVars
    PROVE  AuthTyped'
<1>1. ASSUME NEW p \in Procs, Process(p) PROVE AuthTyped'
  <2>1. PICK t \in work[p] :
           \/ Delete(p, t) \/ Tell(p, t) \/ ScheduleSecondPass(p, t)
           \/ DeleteClaimed(p, t) \/ RetryClaimed(p, t)
    BY <1>1 DEF Process
  <2>2. CASE Delete(p, t) \/ Tell(p, t)
    BY <2>2, AuthTypedDeliver
  <2>3. CASE \/ ScheduleSecondPass(p, t) \/ DeleteClaimed(p, t)
             \/ RetryClaimed(p, t)
    BY <2>3, SettleIs, AuthTypedSettle
  <2> QED BY <2>1, <2>2, <2>3
<1>2. CASE L2Expires
  <2>1. CASE \E p \in Procs : TRUE
    BY <1>2, <2>1, AuthTypedAside
  <2>2. CASE ~\E p \in Procs : TRUE
    <3>1. UNCHANGED <<db, outbox, work, l1, reader, missed, direct, conn,
                      inbox, late, authFaults>> /\ l2' = Nothing
      BY <1>2 DEF L2Expires, ByTime
    <3> QED BY <3>1, RowsKept DEF AuthTyped, AuthTypeOK, SeenOK
  <2> QED BY <2>1, <2>2
<1>3. CASE UNCHANGED authVars
  BY <1>3, RowsKept DEF authVars, ofKey, ofProc, AuthTyped, AuthTypeOK, SeenOK
<1> QED BY <1>1, <1>2, <1>3, AuthTypedChange, AuthTypedAside, AuthTypedLookup,
        AuthTypedRemember, AuthTypedClaim, AuthTypedTime, AuthTypedRestart
        DEF AuthNext

\* The state at the start.
LEMMA AuthTypedInit ==
    ASSUME AuthCacheAssumption, AuthInit PROVE AuthTyped
<1>1. NoRow \in Rows /\ NoRow.stage = "absent" /\ ~NoRow.due
  BY DEF NoRow, Rows
<1>2. Idle \in Readers /\ Idle.seen = 0
  BY ConstantsAuth DEF Idle, Readers, Seen
<1>3. 0 \in Seen
  BY ConstantsAuth DEF Seen
<1>4. AuthTypeOK
  <2>1. /\ db \in Seen /\ outbox \in [Changes -> Rows]
        /\ l2 \in Seen \cup {Nothing} /\ l1 \in [Procs -> Seen \cup {Nothing}]
        /\ reader \in [Procs -> Readers]
    BY <1>1, <1>2, <1>3 DEF AuthInit
  <2>2. /\ direct \in [Procs -> {"no", "delete", "publish"}]
        /\ work \in [Procs -> SUBSET Tasks]
        /\ \A p \in Procs : work[p] = {}
    BY DEF AuthInit
  <2>3. conn \subseteq Procs /\ inbox \subseteq Procs /\ missed \subseteq Procs
    BY DEF AuthInit
  <2>4. authFaults \in 0 .. MaxAuthFaults
    BY ConstantsAuth DEF AuthInit
  <2>5. late \in BOOLEAN
    BY DEF AuthInit
  <2> QED BY <2>1, <2>2, <2>3, <2>4, <2>5 DEF AuthTypeOK
<1>5. Rowed /\ SeenOK /\ ClaimOK
  BY <1>1, <1>2 DEF AuthInit, Rowed, RowOK, Pending, SeenOK, ClaimOK
<1> QED BY <1>4, <1>5 DEF AuthTyped

-----------------------------------------------------------------------------
(* Snapshots that miss a change.                                           *)

\* The changes after the n-th, up to the m-th, have their rows.
Known(n, m, rows) == \A v \in n + 1 .. m : rows[v].stage # "absent"

\* A load that misses a change is waited for by the second pass of its row.
LoadsWait ==
    \A p \in Procs : reader[p].pc = "load" =>
        /\ Known(reader[p].seen, db, outbox)
        /\ \A v \in Changes :
              outbox[v].stage = "second" /\ reader[p].seen < v =>
                  p \in outbox[v].waits

\* A process has, or is about to have, a snapshot that misses the change.
Misses(p, v) ==
    \/ l1[p] # Nothing /\ l1[p] < v
    \/ Reading(p) /\ reader[p].seen < v

\* The second pass removes the snapshot in Redis, then those of the
\* processes, and nobody brings them back.
PassOK ==
    \A p \in Procs : \A t \in work[p] :
        outbox[t.id].by = p /\ t.stage = "second" =>
            /\ t.pc \in {"publish", "ack"} => l2 = Nothing \/ l2 >= t.id
            /\ t.pc = "ack" =>
                 \A q \in Procs \ missed : q \in inbox \/ ~Misses(q, t.id)

\* A snapshot that misses a change has the row of that change, or a message,
\* after it; so has what a lookup has found.
CopiesPending ==
    /\ l2 # Nothing => Known(l2, db, outbox)
    /\ \A p \in Procs \ missed :
          \/ p \in inbox
          \/ /\ l1[p] # Nothing => Known(l1[p], db, outbox)
             /\ Reading(p) => Known(reader[p].seen, db, outbox)

Swept == ~late => LoadsWait /\ PassOK /\ CopiesPending

\* Nothing comes after the last change.
LEMMA KnownLast == ASSUME NEW m \in Int, NEW rows PROVE Known(m, m, rows)
BY DEF Known

\* Rows that stay.
LEMMA KnownKept ==
    ASSUME AuthCacheAssumption, NEW n \in Seen, NEW m \in Seen,
           NEW rows, NEW next, Known(n, m, rows),
           \A v \in Changes : rows[v].stage # "absent" =>
                                next[v].stage # "absent"
    PROVE  Known(n, m, next)
<1>1. \A v \in n + 1 .. m : v \in Changes
  BY ConstantsAuth DEF Seen, Changes
<1> QED BY <1>1 DEF Known

\* One change more, which has its row.
LEMMA KnownMore ==
    ASSUME AuthCacheAssumption, NEW n \in Seen, NEW m \in Seen,
           NEW rows, NEW next, Known(n, m, rows),
           \A v \in Changes \ {m + 1} : next[v] = rows[v],
           next[m + 1].stage # "absent"
    PROVE  Known(n, m + 1, next)
<1>1. n \in Nat /\ m \in Nat
  BY ConstantsAuth
<1>2. ASSUME NEW v \in n + 1 .. m + 1 PROVE next[v].stage # "absent"
  <2>1. CASE v = m + 1
    BY <2>1
  <2>2. CASE v # m + 1
    <3>1. v \in n + 1 .. m /\ v \in Changes
      BY <1>1, <2>2, ConstantsAuth DEF Changes, Seen
    <3> QED BY <2>2, <3>1 DEF Known
  <2> QED BY <2>1, <2>2
<1> QED BY <1>2 DEF Known

\* One row less, which the snapshot does not need.
LEMMA KnownLess ==
    ASSUME AuthCacheAssumption, NEW n \in Seen, NEW m \in Seen,
           NEW rows, NEW next, NEW u \in Changes, Known(n, m, rows), ~(n < u),
           \A v \in Changes \ {u} : next[v] = rows[v]
    PROVE  Known(n, m, next)
<1>1. \A v \in n + 1 .. m : v \in Changes /\ v # u
  BY ConstantsAuth DEF Seen, Changes
<1> QED BY <1>1 DEF Known

\* The changes that snapshots have seen.
LEMMA SeenTyped ==
    ASSUME AuthTyped
    PROVE  /\ db \in Seen
           /\ l2 # Nothing => l2 \in Seen
           /\ \A p \in Procs : /\ l1[p] # Nothing => l1[p] \in Seen
                               /\ reader[p] \in Readers
                               /\ reader[p].seen \in Seen
           /\ \A p \in Procs : \A t \in work[p] : t \in Tasks /\ t.id \in Changes
           /\ \A v \in Changes : outbox[v] \in Rows
BY DEF AuthTyped, AuthTypeOK, Readers, Tasks

\* A snapshot and a lookup of a process stay, or are gone, and a message to
\* it stays.
GoesOn(q) ==
    \/ l1'[q] = Nothing /\ reader'[q].pc = "idle"
    \/ /\ q \notin missed /\ (q \in inbox => q \in inbox')
       /\ l1'[q] = l1[q] \/ l1'[q] = Nothing
       /\ reader'[q] = reader[q]

\* When all rows stay, and all snapshots and lookups do or end, what is known
\* of them stays.
LEMMA CopiesKept ==
    ASSUME AuthCacheAssumption, AuthTyped, CopiesPending, db' = db,
           \A v \in Changes : outbox[v].stage # "absent" =>
                                outbox'[v].stage # "absent",
           l2' = l2 \/ l2' = Nothing,
           \A q \in Procs \ missed' : GoesOn(q)
    PROVE  CopiesPending'
<1>1. l2' # Nothing => Known(l2', db', outbox')
  BY SeenTyped, KnownKept DEF CopiesPending
<1>2. ASSUME NEW q \in Procs \ missed', q \notin inbox'
      PROVE  /\ l1'[q] # Nothing => Known(l1'[q], db', outbox')
             /\ reader'[q].pc # "idle" => Known(reader'[q].seen, db', outbox')
  <2>1. CASE l1'[q] = Nothing /\ reader'[q].pc = "idle"
    BY <2>1
  <2>2. CASE /\ q \notin missed /\ (q \in inbox => q \in inbox')
             /\ l1'[q] = l1[q] \/ l1'[q] = Nothing
             /\ reader'[q] = reader[q]
    <3>1. /\ l1[q] # Nothing => Known(l1[q], db, outbox)
          /\ Reading(q) => Known(reader[q].seen, db, outbox)
      BY <1>2, <2>2 DEF CopiesPending
    <3>2. l1[q] # Nothing => Known(l1[q], db, outbox')
      BY <3>1, SeenTyped, KnownKept
    <3>3. Reading(q) => Known(reader[q].seen, db, outbox')
      BY <3>1, SeenTyped, KnownKept
    <3> QED BY <2>2, <3>2, <3>3 DEF Reading
  <2> QED BY <2>1, <2>2 DEF GoesOn
<1> QED BY <1>1, <1>2 DEF CopiesPending, Reading

\* The same of the processes that a second pass has told.
LEMMA TellsKept ==
    ASSUME NEW v, NEW q \in Procs \ missed',
           GoesOn(q),
           q \notin missed => q \in inbox \/ ~Misses(q, v)
    PROVE  \/ q \in inbox'
           \/ ~ \/ l1'[q] # Nothing /\ l1'[q] < v
                \/ reader'[q].pc # "idle" /\ reader'[q].seen < v
BY DEF Misses, Reading, GoesOn

\* When the tasks stay, or go, under rows that have not changed hands; a task
\* goes on when the snapshot in Redis is gone, and when the processes are told.
LEMMA PassKept ==
    ASSUME AuthTyped, PassOK,
           l2' = l2 \/ l2' = Nothing,
           \A q \in Procs \ missed' : GoesOn(q),
           \A p \in Procs : \A t \in work'[p] :
              outbox'[t.id].by = p =>
                  \/ t \in work[p] /\ outbox[t.id].by = p
                  \/ t.pc \in {"delete", "retry"}
                  \/ t.pc = "publish" /\ l2' = Nothing
                  \/ /\ t.pc = "ack"
                     /\ t.stage = "second" => l2' = Nothing \/ l2' >= t.id
                     /\ \A q \in Procs \ missed' :
                           \/ q \in inbox'
                           \/ l1'[q] = Nothing /\ reader'[q].pc = "idle"
    PROVE  PassOK'
<1> SUFFICES ASSUME NEW p \in Procs, NEW t \in work'[p],
                    outbox'[t.id].by = p, t.stage = "second"
             PROVE  /\ t.pc \in {"publish", "ack"} => l2' = Nothing \/ l2' >= t.id
                    /\ t.pc = "ack" =>
                         \A q \in Procs \ missed' :
                            \/ q \in inbox'
                            \/ ~ \/ l1'[q] # Nothing /\ l1'[q] < t.id
                                 \/ /\ reader'[q].pc # "idle"
                                    /\ reader'[q].seen < t.id
  BY DEF PassOK, Misses, Reading
<1>1. CASE t.pc \in {"delete", "retry"} \/ (t.pc = "publish" /\ l2' = Nothing)
  BY <1>1
<1>2. CASE t \in work[p] /\ outbox[t.id].by = p
  <2>1. /\ t.pc \in {"publish", "ack"} => l2 = Nothing \/ l2 >= t.id
        /\ t.pc = "ack" =>
             \A q \in Procs \ missed : q \in inbox \/ ~Misses(q, t.id)
    BY <1>2 DEF PassOK
  <2>2. ASSUME t.pc = "ack", NEW q \in Procs \ missed'
        PROVE  \/ q \in inbox'
               \/ ~ \/ l1'[q] # Nothing /\ l1'[q] < t.id
                    \/ reader'[q].pc # "idle" /\ reader'[q].seen < t.id
    <3>1. q \notin missed => q \in inbox \/ ~Misses(q, t.id)
      BY <2>1, <2>2
    <3> QED BY <3>1, TellsKept
  <2> QED BY <2>1, <2>2
<1>3. CASE /\ l2' = Nothing \/ l2' >= t.id
           /\ \A q \in Procs \ missed' :
                 q \in inbox' \/ (l1'[q] = Nothing /\ reader'[q].pc = "idle")
  BY <1>3
<1> QED BY <1>1, <1>2, <1>3

\* When the stages of the rows stay, and what waits for a load.
LEMMA LoadsKept ==
    ASSUME AuthCacheAssumption, AuthTyped, LoadsWait, db' = db,
           \A v \in Changes : outbox'[v].stage = outbox[v].stage,
           \A q \in Procs : reader'[q].pc = "load" =>
              /\ reader'[q] = reader[q]
              /\ \A v \in Changes : q \in outbox[v].waits =>
                                      q \in outbox'[v].waits
    PROVE  LoadsWait'
<1> SUFFICES ASSUME NEW q \in Procs, reader'[q].pc = "load"
             PROVE  /\ Known(reader'[q].seen, db', outbox')
                    /\ \A v \in Changes :
                          outbox'[v].stage = "second" /\ reader'[q].seen < v =>
                              q \in outbox'[v].waits
  BY DEF LoadsWait
<1>1. reader'[q] = reader[q] /\ reader[q].pc = "load"
  OBVIOUS
<1>2. Known(reader[q].seen, db, outbox)
  BY <1>1 DEF LoadsWait
<1>3. Known(reader[q].seen, db, outbox')
  BY <1>2, SeenTyped, KnownKept
<1> QED BY <1>1, <1>3 DEF LoadsWait

\* A process that forgets its snapshot, and may find it again, has missed the
\* change.
LEMMA ForgetGoesOn ==
    ASSUME AuthTyped, NEW p \in Procs, Forget(p), reader' = reader,
           \A q \in Procs \ {p} : q \in inbox => q \in inbox'
    PROVE  \A q \in Procs \ missed' : GoesOn(q)
<1>1. /\ l1'[p] = Nothing /\ \A q \in Procs \ {p} : l1'[q] = l1[q]
      /\ \A q \in Procs \ missed' : /\ q \notin missed \/ q = p
                                    /\ q = p => ~Reading(p)
  BY ForgetTyped DEF AuthTyped
<1> QED BY <1>1 DEF GoesOn, Reading

\* A message takes nothing away.
LEMMA PublishGoesOn ==
    ASSUME AuthCacheAssumption, AuthTyped, NEW ok \in BOOLEAN, Publish(ok),
           UNCHANGED <<l1, reader>>
    PROVE  \A q \in Procs \ missed' : GoesOn(q)
<1>1. inbox \subseteq inbox' /\ missed \subseteq missed'
  BY PublishTyped DEF AuthTyped
<1> QED BY <1>1 DEF GoesOn

\* The direct invalidation, messages, and entries that expire.
LEMMA SweptAside ==
    ASSUME AuthCacheAssumption, AuthTyped, Swept, NEW p \in Procs,
           \/ DirectDelete(p) \/ DirectPublish(p) \/ Deliver(p)
           \/ Disconnect(p) \/ Subscribe(p) \/ L1Expires(p) \/ L2Expires
    PROVE  Swept'
<1>1. UNCHANGED <<db, outbox, work, reader, late>>
  BY DEF DirectDelete, DirectPublish, Deliver, Disconnect, Subscribe,
     L1Expires, L2Expires, ByTime, ofKey, ofProc
<1>2. l2' = l2 \/ l2' = Nothing
  <2>1. CASE DirectDelete(p)
    BY <2>1, DeleteTyped DEF DirectDelete, AuthTyped
  <2>2. CASE UNCHANGED l2 \/ L2Expires
    BY <2>2 DEF L2Expires
  <2> QED BY <2>1, <2>2 DEF DirectPublish, Deliver, Disconnect, Subscribe,
          L1Expires
<1>3. \A q \in Procs \ missed' : GoesOn(q)
  <2>1. CASE DirectDelete(p) \/ Deliver(p) \/ L1Expires(p)
    <3>1. Forget(p) /\ \A q \in Procs \ {p} : q \in inbox => q \in inbox'
      BY <2>1 DEF DirectDelete, Deliver, L1Expires, ByTime
    <3> QED BY <1>1, <3>1, ForgetGoesOn
  <2>2. CASE DirectPublish(p)
    BY <2>2, PublishGoesOn DEF DirectPublish
  <2>3. CASE Disconnect(p)
    <3>1. /\ l1' = l1 /\ inbox' = inbox \ {p}
          /\ missed' = missed \cup
               {q \in inbox \cap {p} : l1[q] # Nothing \/ Reading(q)}
      BY <2>3 DEF Disconnect, Miss
    <3> QED BY <1>1, <3>1 DEF GoesOn, Reading
  <2>4. CASE Subscribe(p) \/ L2Expires
    <3>1. UNCHANGED <<l1, missed, inbox>>
      BY <2>4 DEF Subscribe, L2Expires, ofProc, ByTime
    <3> QED BY <1>1, <3>1 DEF GoesOn
  <2> QED BY <2>1, <2>2, <2>3, <2>4
<1> SUFFICES ASSUME ~late PROVE LoadsWait' /\ PassOK' /\ CopiesPending'
  BY <1>1 DEF Swept
<1>4. LoadsWait /\ PassOK /\ CopiesPending
  BY DEF Swept
<1>5. LoadsWait'
  BY <1>1, <1>4, LoadsKept
<1>6. PassOK'
  BY <1>1, <1>2, <1>3, <1>4, PassKept
<1>7. CopiesPending'
  BY <1>1, <1>2, <1>3, <1>4, CopiesKept
<1> QED BY <1>5, <1>6, <1>7

\* A change has its row at once.
LEMMA SweptChange ==
    ASSUME AuthCacheAssumption, AuthTyped, Swept, NEW p \in Procs, Change(p)
    PROVE  Swept'
<1> DEFINE new == [NoRow EXCEPT !.stage = "first", !.due = TRUE]
<1>1. /\ UNCHANGED <<l2, l1, reader, missed, work, inbox, late>>
      /\ db' = db + 1 /\ db < MaxChanges
      /\ outbox' = [outbox EXCEPT ![db'] = new]
  BY DEF Change, Row, ofProc
<1>2. new.stage = "first"
  BY DEF NoRow
<1> HIDE DEF new
<1>3. db \in Seen /\ db \in Nat /\ db + 1 \in Changes
  BY <1>1, ConstantsAuth DEF AuthTyped, AuthTypeOK, Seen, Changes
<1>4. /\ outbox'[db + 1].stage = "first"
      /\ \A v \in Changes \ {db + 1} : outbox'[v] = outbox[v]
  BY <1>1, <1>2, <1>3 DEF AuthTyped, AuthTypeOK
<1>5. ASSUME NEW n \in Seen, Known(n, db, outbox) PROVE Known(n, db', outbox')
  BY <1>1, <1>3, <1>4, <1>5, KnownMore
<1> SUFFICES ASSUME ~late PROVE LoadsWait' /\ PassOK' /\ CopiesPending'
  BY <1>1 DEF Swept
<1>6. LoadsWait /\ PassOK /\ CopiesPending
  BY DEF Swept
<1>7. LoadsWait'
  <2>1. ASSUME NEW q \in Procs, reader[q].pc = "load"
        PROVE  /\ Known(reader[q].seen, db', outbox')
               /\ \A v \in Changes :
                     outbox'[v].stage = "second" /\ reader[q].seen < v =>
                         q \in outbox'[v].waits
    <3>1. Known(reader[q].seen, db', outbox')
      BY <1>5, <1>6, <2>1, SeenTyped DEF LoadsWait
    <3>2. ASSUME NEW v \in Changes, outbox'[v].stage = "second"
          PROVE  outbox'[v] = outbox[v]
      BY <1>4, <3>2
    <3> QED BY <1>6, <2>1, <3>1, <3>2 DEF LoadsWait
  <2> QED BY <1>1, <2>1 DEF LoadsWait
<1>8. PassOK'
  <2>1. ASSUME NEW q \in Procs, NEW t \in work[q]
        PROVE  outbox'[t.id] = outbox[t.id]
    <3>1. t.id \in Changes /\ t.id <= db
      BY SeenTyped DEF AuthTyped, ClaimOK
    <3>2. t.id # db + 1
      BY <1>3, <3>1
    <3> QED BY <1>4, <3>1, <3>2
  <2> QED BY <1>1, <1>6, <2>1 DEF PassOK, Misses, Reading
<1>9. CopiesPending'
  <2>1. l2 # Nothing => Known(l2, db', outbox')
    BY <1>5, <1>6, SeenTyped DEF CopiesPending
  <2>2. ASSUME NEW q \in Procs \ missed, q \notin inbox
        PROVE  /\ l1[q] # Nothing => Known(l1[q], db', outbox')
               /\ Reading(q) => Known(reader[q].seen, db', outbox')
    BY <1>5, <1>6, <2>2, SeenTyped DEF CopiesPending
  <2> QED BY <1>1, <2>1, <2>2 DEF CopiesPending, Reading
<1> QED BY <1>7, <1>8, <1>9

\* A lookup finds what is current, or what is in Redis.
LEMMA SweptLookup ==
    ASSUME AuthCacheAssumption, AuthTyped, Swept, NEW p \in Procs, Lookup(p)
    PROVE  Swept'
<1>1. UNCHANGED <<db, outbox, l2, l1, missed, work, inbox, late>>
      /\ ~Reading(p) /\ l1[p] = Nothing
  BY DEF Lookup, ByReader
<1>2. PICK pc, n : /\ reader' = [reader EXCEPT ![p] = [pc |-> pc, seen |-> n]]
                   /\ \/ pc = "copy" /\ l2 # Nothing /\ n = l2
                      \/ pc = "load" /\ n = db
  BY DEF Lookup, Find
<1>3. /\ reader'[p].pc = pc /\ reader'[p].seen = n
      /\ \A q \in Procs \ {p} : reader'[q] = reader[q]
  BY <1>2 DEF AuthTyped, AuthTypeOK
<1>4. db \in Nat /\ n \in Nat
  BY <1>2, SeenTyped, ConstantsAuth
<1> SUFFICES ASSUME ~late PROVE LoadsWait' /\ PassOK' /\ CopiesPending'
  BY <1>1 DEF Swept
<1>5. LoadsWait /\ PassOK /\ CopiesPending
  BY DEF Swept
<1>6. Known(n, db, outbox)
  BY <1>2, <1>4, <1>5, KnownLast DEF CopiesPending
<1>7. LoadsWait'
  <2>1. ASSUME NEW q \in Procs, reader'[q].pc = "load"
        PROVE  /\ Known(reader'[q].seen, db, outbox)
               /\ \A v \in Changes :
                     outbox[v].stage = "second" /\ reader'[q].seen < v =>
                         q \in outbox[v].waits
    <3>1. CASE q = p
      <4>1. n = db
        BY <1>2, <1>3, <2>1, <3>1
      <4>2. ASSUME NEW v \in Changes, outbox[v].stage = "second", n < v
            PROVE  FALSE
        <5>1. v \in Nat /\ v <= db
          BY <4>2, ConstantsAuth DEF AuthTyped, Rowed, RowOK, Pending
        <5> QED BY <1>4, <4>1, <4>2, <5>1
      <4> QED BY <1>3, <1>6, <3>1, <4>2
    <3>2. CASE q # p
      BY <1>3, <1>5, <2>1, <3>2 DEF LoadsWait
    <3> QED BY <3>1, <3>2
  <2> QED BY <1>1, <2>1 DEF LoadsWait
<1>8. PassOK'
  <2>1. ASSUME NEW w \in Procs, NEW t \in work[w], outbox[t.id].by = w,
               t.stage = "second", t.pc = "ack",
               NEW q \in Procs \ missed, q \notin inbox
        PROVE  ~ \/ l1[q] # Nothing /\ l1[q] < t.id
                 \/ reader'[q].pc # "idle" /\ reader'[q].seen < t.id
    <3>1. t.id \in Nat /\ t.id <= db
      BY SeenTyped, ConstantsAuth DEF AuthTyped, ClaimOK
    <3>2. l2 = Nothing \/ l2 >= t.id
      BY <1>5, <2>1 DEF PassOK
    <3>3. ~Misses(q, t.id)
      BY <1>5, <2>1 DEF PassOK
    <3>4. CASE q = p
      BY <1>1, <1>2, <1>3, <1>4, <3>1, <3>2, <3>4
    <3>5. CASE q # p
      BY <1>3, <3>3, <3>5 DEF Misses, Reading
    <3> QED BY <3>4, <3>5
  <2> QED BY <1>1, <1>5, <2>1 DEF PassOK, Misses, Reading
<1>9. CopiesPending'
  <2>1. ASSUME NEW q \in Procs \ missed, q \notin inbox
        PROVE  /\ l1[q] # Nothing => Known(l1[q], db, outbox)
               /\ reader'[q].pc # "idle" => Known(reader'[q].seen, db, outbox)
    <3>1. CASE q = p
      BY <1>1, <1>3, <1>6, <3>1
    <3>2. CASE q # p
      BY <1>3, <1>5, <2>1, <3>2 DEF CopiesPending, Reading
    <3> QED BY <3>1, <3>2
  <2> QED BY <1>1, <1>5, <2>1 DEF CopiesPending, Reading
<1> QED BY <1>7, <1>8, <1>9

\* A lookup that ends after the second pass has become due has found what the
\* pass is about.
LEMMA PassesSeeLoads ==
    ASSUME AuthCacheAssumption, AuthTyped, LoadsWait, NEW w \in Procs,
           NEW t \in work[w], outbox[t.id].by = w, t.stage = "second",
           NEW p \in Procs, reader[p].pc = "load"
    PROVE  ~(reader[p].seen < t.id)
<1>1. t.id \in Changes
  BY SeenTyped
<1>2. outbox[t.id].stage = "second" /\ outbox[t.id].due
  BY DEF AuthTyped, ClaimOK
<1>3. outbox[t.id].waits = {}
  BY <1>1, <1>2 DEF AuthTyped, Rowed, RowOK
<1> QED BY <1>1, <1>2, <1>3 DEF LoadsWait

\* What a lookup leaves has its rows, as what it found had.
LEMMA SweptRemember ==
    ASSUME AuthCacheAssumption, AuthTyped, Swept, NEW p \in Procs, Remember(p)
    PROVE  Swept'
<1> DEFINE n == reader[p].seen
<1>1. UNCHANGED <<db, work, inbox, late>> /\ Return(p) /\ Reading(p)
  BY DEF Remember, ByReader
<1>2. /\ reader'[p].pc = "idle"
      /\ \A q \in Procs \ {p} : reader'[q] = reader[q]
      /\ \A v \in Changes : /\ outbox'[v].stage = outbox[v].stage
                            /\ outbox'[v].by = outbox[v].by
                            /\ outbox'[v].waits = outbox[v].waits \ {p}
  BY <1>1, ReturnTyped DEF Idle
<1>3. /\ l1'[p] = n /\ \A q \in Procs \ {p} : l1'[q] = l1[q]
      /\ \A q \in Procs \ {p} : q \notin missed' => q \notin missed
      /\ p \notin missed' => p \notin missed \/ n = db
      /\ l2' = l2 \/ (l2' = n /\ reader[p].pc = "load")
  BY DEF Remember, AuthTyped, AuthTypeOK
<1>4. n \in Seen /\ n \in Nat /\ db \in Seen /\ db \in Nat
  BY SeenTyped, ConstantsAuth
<1> HIDE DEF n
<1> SUFFICES ASSUME ~late PROVE LoadsWait' /\ PassOK' /\ CopiesPending'
  BY <1>1 DEF Swept
<1>5. LoadsWait /\ PassOK /\ CopiesPending
  BY DEF Swept
<1>6. ASSUME NEW m \in Seen, Known(m, db, outbox) PROVE Known(m, db, outbox')
  BY <1>2, <1>4, <1>6, KnownKept
<1>7. LoadsWait'
  <2>1. \A q \in Procs : reader'[q].pc = "load" =>
           /\ reader'[q] = reader[q]
           /\ \A v \in Changes : q \in outbox[v].waits => q \in outbox'[v].waits
    BY <1>2
  <2> QED BY <1>1, <1>2, <1>5, <2>1, LoadsKept
<1>8. PassOK'
  <2> SUFFICES ASSUME NEW w \in Procs, NEW t \in work[w], outbox'[t.id].by = w,
                      t.stage = "second", t.pc \in {"publish", "ack"}
               PROVE  /\ l2' = Nothing \/ l2' >= t.id
                      /\ t.pc = "ack" =>
                           \A q \in Procs \ missed' :
                              \/ q \in inbox
                              \/ ~ \/ l1'[q] # Nothing /\ l1'[q] < t.id
                                   \/ /\ reader'[q].pc # "idle"
                                      /\ reader'[q].seen < t.id
    BY <1>1 DEF PassOK, Misses, Reading
  <2>1. t.id \in Changes /\ t.id \in Nat /\ t.id <= db
    BY SeenTyped, ConstantsAuth DEF AuthTyped, ClaimOK
  <2>2. outbox[t.id].by = w
    BY <1>2, <2>1
  <2>3. /\ l2 = Nothing \/ l2 >= t.id
        /\ t.pc = "ack" =>
             \A q \in Procs \ missed : q \in inbox \/ ~Misses(q, t.id)
    BY <1>5, <2>2 DEF PassOK
  <2>4. l2' = Nothing \/ l2' >= t.id
    <3>1. reader[p].pc = "load" => ~(n < t.id)
      BY <1>5, <2>2, PassesSeeLoads DEF n
    <3> QED BY <1>3, <1>4, <2>1, <2>3, <3>1
  <2>5. ASSUME t.pc = "ack", NEW q \in Procs \ missed', q \notin inbox
        PROVE  ~ \/ l1'[q] # Nothing /\ l1'[q] < t.id
                 \/ reader'[q].pc # "idle" /\ reader'[q].seen < t.id
    <3>1. q \notin missed => ~Misses(q, t.id)
      BY <2>3, <2>5
    <3>2. CASE q = p /\ n = db
      BY <1>2, <1>3, <1>4, <2>1, <3>2
    <3>3. CASE q = p /\ q \notin missed
      <4>1. ~(n < t.id)
        BY <1>1, <3>1, <3>3 DEF Misses, n
      <4> QED BY <1>2, <1>3, <3>3, <4>1
    <3>4. CASE q # p
      BY <1>2, <1>3, <3>1, <3>4 DEF Misses, Reading
    <3> QED BY <1>3, <3>2, <3>3, <3>4
  <2> QED BY <2>4, <2>5
<1>9. CopiesPending'
  <2>1. l2' # Nothing => Known(l2', db, outbox')
    <3>1. CASE l2' = l2
      BY <1>5, <1>6, <3>1, SeenTyped DEF CopiesPending
    <3>2. CASE l2' = n /\ reader[p].pc = "load"
      <4>1. Known(n, db, outbox)
        BY <1>5, <3>2 DEF LoadsWait, n
      <4> QED BY <1>4, <1>6, <3>2, <4>1
    <3> QED BY <1>3, <3>1, <3>2
  <2>2. ASSUME NEW q \in Procs \ missed', q \notin inbox
        PROVE  /\ l1'[q] # Nothing => Known(l1'[q], db, outbox')
               /\ reader'[q].pc # "idle" => Known(reader'[q].seen, db, outbox')
    <3>1. CASE q = p
      <4>1. Known(n, db, outbox)
        <5>1. CASE n = db
          BY <1>4, <5>1, KnownLast
        <5>2. CASE q \notin missed
          BY <1>1, <1>5, <2>2, <3>1, <5>2 DEF CopiesPending, n
        <5> QED BY <1>3, <2>2, <3>1, <5>1, <5>2
      <4> QED BY <1>2, <1>3, <1>4, <1>6, <3>1, <4>1
    <3>2. CASE q # p
      <4>1. /\ l1[q] # Nothing => Known(l1[q], db, outbox)
            /\ Reading(q) => Known(reader[q].seen, db, outbox)
        BY <1>3, <1>5, <2>2, <3>2 DEF CopiesPending
      <4> QED BY <1>2, <1>3, <1>6, <3>2, <4>1, SeenTyped DEF Reading
    <3> QED BY <3>1, <3>2
  <2> QED BY <1>1, <2>1, <2>2 DEF CopiesPending, Reading
<1> QED BY <1>7, <1>8, <1>9

\* A restart forgets everything.
LEMMA SweptRestart ==
    ASSUME AuthCacheAssumption, AuthTyped, Swept, NEW p \in Procs, Restart(p)
    PROVE  Swept'
<1>1. UNCHANGED <<db, l2, late>> /\ Return(p)
  BY DEF Restart
<1>2. /\ reader'[p].pc = "idle"
      /\ \A q \in Procs \ {p} : reader'[q] = reader[q]
      /\ \A v \in Changes : /\ outbox'[v].stage = outbox[v].stage
                            /\ outbox'[v].by = outbox[v].by
                            /\ outbox'[v].waits = outbox[v].waits \ {p}
  BY <1>1, ReturnTyped DEF Idle
<1>3. /\ l1'[p] = Nothing /\ \A q \in Procs \ {p} : l1'[q] = l1[q]
      /\ missed' = missed \ {p} /\ inbox' = inbox \ {p}
      /\ work'[p] = {} /\ \A q \in Procs \ {p} : work'[q] = work[q]
  BY DEF Restart, AuthTyped, AuthTypeOK
<1>4. \A q \in Procs \ missed' : GoesOn(q)
  BY <1>2, <1>3 DEF GoesOn
<1> SUFFICES ASSUME ~late PROVE LoadsWait' /\ PassOK' /\ CopiesPending'
  BY <1>1 DEF Swept
<1>5. LoadsWait /\ PassOK /\ CopiesPending
  BY DEF Swept
<1>6. LoadsWait'
  <2>1. \A q \in Procs : reader'[q].pc = "load" =>
           /\ reader'[q] = reader[q]
           /\ \A v \in Changes : q \in outbox[v].waits => q \in outbox'[v].waits
    BY <1>2
  <2> QED BY <1>1, <1>2, <1>5, <2>1, LoadsKept
<1>7. PassOK'
  <2>1. ASSUME NEW w \in Procs, NEW t \in work'[w], outbox'[t.id].by = w
        PROVE  t \in work[w] /\ outbox[t.id].by = w
    <3>1. t \in work[w]
      BY <1>3
    <3> QED BY <1>2, <2>1, <3>1, SeenTyped
  <2> QED BY <1>1, <1>4, <1>5, <2>1, PassKept
<1>8. CopiesPending'
  BY <1>1, <1>2, <1>4, <1>5, CopiesKept
<1> QED BY <1>6, <1>7, <1>8

\* A new claim starts from the beginning.
LEMMA SweptClaim ==
    ASSUME AuthCacheAssumption, AuthTyped, Swept, NEW p \in Procs, Claim(p)
    PROVE  Swept'
<1> DEFINE batch == {v \in Changes : Claimable(v)}
<1>1. /\ UNCHANGED <<db, l2, l1, reader, missed, inbox, late>>
      /\ work[p] = {}
  BY DEF Claim, ofProc
<1>2. ASSUME NEW v \in Changes
      PROVE  /\ outbox'[v].stage = outbox[v].stage
             /\ outbox'[v].waits = outbox[v].waits
             /\ outbox'[v].by # p => outbox'[v].by = outbox[v].by
  <2>1. outbox[v] \in Rows
    BY SeenTyped
  <2>2. CASE v \in batch
    <3>1. outbox'[v] = [outbox[v] EXCEPT !.by = p, !.lapsed = FALSE]
      BY <2>2 DEF Claim
    <3> QED BY <2>1, <3>1 DEF Rows
  <2>3. CASE v \notin batch
    BY <2>3 DEF Claim
  <2> QED BY <2>2, <2>3
<1>3. /\ \A q \in Procs \ {p} : work'[q] = work[q]
      /\ \A t \in work'[p] : t.pc = "delete"
  <2>1. CASE UNCHANGED work
    BY <1>1, <2>1
  <2>2. CASE work' = [work EXCEPT ![p] =
                {[id |-> v, stage |-> outbox[v].stage, pc |-> "delete"] :
                    v \in batch}]
    <3> HIDE DEF batch
    <3> QED BY <2>2 DEF AuthTyped, AuthTypeOK
  <2> QED BY <2>1, <2>2 DEF Claim
<1> HIDE DEF batch
<1>4. \A q \in Procs \ missed' : GoesOn(q)
  BY <1>1 DEF GoesOn
<1> SUFFICES ASSUME ~late PROVE LoadsWait' /\ PassOK' /\ CopiesPending'
  BY <1>1 DEF Swept
<1>5. LoadsWait /\ PassOK /\ CopiesPending
  BY DEF Swept
<1>6. LoadsWait'
  BY <1>1, <1>2, <1>5, LoadsKept
<1>7. PassOK'
  <2>1. ASSUME NEW w \in Procs, NEW t \in work'[w], outbox'[t.id].by = w
        PROVE  (t \in work[w] /\ outbox[t.id].by = w) \/ t.pc = "delete"
    <3>1. CASE w = p
      BY <1>3, <3>1
    <3>2. CASE w # p
      <4>1. t \in work[w] /\ t.id \in Changes
        BY <1>3, <3>2, SeenTyped
      <4> QED BY <1>2, <2>1, <3>2, <4>1
    <3> QED BY <3>1, <3>2
  <2> QED BY <1>1, <1>4, <1>5, <2>1, PassKept
<1>8. CopiesPending'
  BY <1>1, <1>2, <1>4, <1>5, CopiesKept
<1> QED BY <1>6, <1>7, <1>8

\* A row changes hands, becomes due, or lapses.
LEMMA SweptTime ==
    ASSUME AuthCacheAssumption, AuthTyped, Swept, NEW v \in Changes,
           ComesDue(v) \/ ComesDueEarly(v) \/ ClaimLapses(v)
    PROVE  Swept'
<1>1. CASE ComesDueEarly(v)
  BY <1>1 DEF ComesDueEarly, Swept
<1>2. CASE ComesDue(v) \/ ClaimLapses(v)
  <2>1. UNCHANGED <<db, l2, l1, reader, missed, work, inbox, late>>
    BY <1>2 DEF ComesDue, ClaimLapses, ByTime
  <2>2. ASSUME NEW u \in Changes
        PROVE  /\ outbox'[u].stage = outbox[u].stage
               /\ outbox'[u].waits = outbox[u].waits
               /\ outbox'[u].by = outbox[u].by
    <3>1. outbox[v] \in Rows /\ outbox \in [Changes -> Rows]
      BY DEF AuthTyped, AuthTypeOK
    <3>2. CASE ComesDue(v)
      <4> DEFINE row == [outbox[v] EXCEPT !.due = TRUE]
      <4>1. /\ row.stage = outbox[v].stage /\ row.waits = outbox[v].waits
            /\ row.by = outbox[v].by
        BY <3>1 DEF Rows
      <4>2. outbox' = [outbox EXCEPT ![v] = row]
        BY <3>2 DEF ComesDue, Row
      <4> HIDE DEF row
      <4> QED BY <3>1, <4>1, <4>2
    <3>3. CASE ClaimLapses(v)
      <4> DEFINE row == [outbox[v] EXCEPT !.lapsed = TRUE]
      <4>1. /\ row.stage = outbox[v].stage /\ row.waits = outbox[v].waits
            /\ row.by = outbox[v].by
        BY <3>1 DEF Rows
      <4>2. outbox' = [outbox EXCEPT ![v] = row]
        BY <3>3 DEF ClaimLapses, Row
      <4> HIDE DEF row
      <4> QED BY <3>1, <4>1, <4>2
    <3> QED BY <1>2, <3>2, <3>3
  <2>3. \A q \in Procs \ missed' : GoesOn(q)
    BY <2>1 DEF GoesOn
  <2> SUFFICES ASSUME ~late PROVE LoadsWait' /\ PassOK' /\ CopiesPending'
    BY <2>1 DEF Swept
  <2>4. LoadsWait /\ PassOK /\ CopiesPending
    BY DEF Swept
  <2>5. LoadsWait'
    BY <2>1, <2>2, <2>4, LoadsKept
  <2>6. PassOK'
    <3>1. ASSUME NEW w \in Procs, NEW t \in work'[w], outbox'[t.id].by = w
          PROVE  t \in work[w] /\ outbox[t.id].by = w
      BY <2>1, <2>2, <3>1, SeenTyped
    <3> QED BY <2>1, <2>3, <2>4, <3>1, PassKept
  <2>7. CopiesPending'
    BY <2>1, <2>2, <2>3, <2>4, CopiesKept
  <2> QED BY <2>5, <2>6, <2>7
<1> QED BY <1>1, <1>2

\* A pass goes on only when what it was to remove is removed.
LEMMA SweptDelete ==
    ASSUME AuthCacheAssumption, AuthTyped, Swept, NEW p \in Procs,
           NEW t \in work[p], Delete(p, t)
    PROVE  Swept'
<1>1. UNCHANGED <<db, outbox, reader, inbox, late>> /\ Forget(p)
  BY DEF Delete, ofKey
<1>2. PICK ok \in BOOLEAN :
         DeleteL2(ok) /\ Goes(p, t, IF ok THEN "publish" ELSE "retry")
  BY DEF Delete
<1>3. (l2' = l2 \/ l2' = Nothing) /\ (ok => l2' = Nothing)
  BY <1>2, DeleteTyped DEF AuthTyped
<1>4. \A q \in Procs \ missed' : GoesOn(q)
  BY <1>1, ForgetGoesOn
<1>5. PICK pc \in {"publish", "retry"} :
         Goes(p, t, pc) /\ (pc = "publish" => ok)
  BY <1>2
<1>6. /\ \A q \in Procs \ {p} : work'[q] = work[q]
      /\ \A s \in work'[p] : s \in work[p] \/ s.pc = pc
  BY <1>5, GoesTyped DEF AuthTyped
<1> SUFFICES ASSUME ~late PROVE LoadsWait' /\ PassOK' /\ CopiesPending'
  BY <1>1 DEF Swept
<1>7. LoadsWait /\ PassOK /\ CopiesPending
  BY DEF Swept
<1>8. LoadsWait'
  BY <1>1, <1>7, LoadsKept
<1>9. PassOK'
  <2>1. ASSUME NEW w \in Procs, NEW s \in work'[w], outbox'[s.id].by = w
        PROVE  \/ s \in work[w] /\ outbox[s.id].by = w
               \/ s.pc = "retry"
               \/ s.pc = "publish" /\ l2' = Nothing
    BY <1>1, <1>3, <1>5, <1>6, <2>1
  <2> QED BY <1>3, <1>4, <1>7, <2>1, PassKept
<1>10. CopiesPending'
  BY <1>1, <1>3, <1>4, <1>7, CopiesKept
<1> QED BY <1>8, <1>9, <1>10

\* And it is acknowledged only when every process is told.
LEMMA SweptTell ==
    ASSUME AuthCacheAssumption, AuthTyped, Swept, NEW p \in Procs,
           NEW t \in work[p], Tell(p, t)
    PROVE  Swept'
<1>1. UNCHANGED <<db, outbox, l2, l1, reader, late>> /\ t.pc = "publish"
  BY DEF Tell, ofKey
<1>2. PICK ok \in BOOLEAN :
         Publish(ok) /\ Goes(p, t, IF ok THEN "ack" ELSE "retry")
  BY DEF Tell
<1>3. ok => \A q \in Procs \ missed' :
               q \in inbox' \/ (l1[q] = Nothing /\ ~Reading(q))
  BY <1>2, PublishTyped DEF AuthTyped
<1>4. \A q \in Procs \ missed' : GoesOn(q)
  BY <1>1, <1>2, PublishGoesOn
<1>5. PICK pc \in {"ack", "retry"} : Goes(p, t, pc) /\ (pc = "ack" => ok)
  BY <1>2
<1>6. /\ \A q \in Procs \ {p} : work'[q] = work[q]
      /\ \A s \in work'[p] :
            s \in work[p] \/ (s.pc = pc /\ s.id = t.id /\ s.stage = t.stage)
  BY <1>5, GoesTyped DEF AuthTyped
<1> SUFFICES ASSUME ~late PROVE LoadsWait' /\ PassOK' /\ CopiesPending'
  BY <1>1 DEF Swept
<1>7. LoadsWait /\ PassOK /\ CopiesPending
  BY DEF Swept
<1>8. LoadsWait'
  BY <1>1, <1>7, LoadsKept
<1>9. PassOK'
  <2>1. ASSUME NEW w \in Procs, NEW s \in work'[w], outbox'[s.id].by = w
        PROVE  \/ s \in work[w] /\ outbox[s.id].by = w
               \/ s.pc = "retry"
               \/ /\ s.pc = "ack"
                  /\ s.stage = "second" => l2' = Nothing \/ l2' >= s.id
                  /\ \A q \in Procs \ missed' :
                        \/ q \in inbox'
                        \/ l1'[q] = Nothing /\ reader'[q].pc = "idle"
    <3>1. CASE s \in work[w]
      BY <1>1, <2>1, <3>1
    <3>2. CASE w = p /\ s.pc = pc /\ s.id = t.id /\ s.stage = t.stage
      <4>1. outbox[t.id].by = p
        BY <1>1, <2>1, <3>2
      <4>2. t.stage = "second" => l2 = Nothing \/ l2 >= t.id
        BY <1>1, <1>7, <4>1 DEF PassOK
      <4> QED BY <1>1, <1>3, <1>5, <3>2, <4>2 DEF Reading
    <3> QED BY <1>6, <3>1, <3>2
  <2> QED BY <1>1, <1>4, <1>7, <2>1, PassKept
<1>10. CopiesPending'
  BY <1>1, <1>4, <1>7, CopiesKept
<1> QED BY <1>8, <1>9, <1>10

\* A row goes when nothing that misses its change is left.
LEMMA SweptDeleted ==
    ASSUME AuthCacheAssumption, AuthTyped, Swept, ~late,
           NEW p \in Procs, NEW t \in work[p],
           t.pc = "ack", t.stage = "second", outbox[t.id].by = p,
           UNCHANGED <<db, l2, l1, reader, missed, inbox>>,
           outbox'[t.id] = NoRow,
           \A v \in Changes \ {t.id} : outbox'[v] = outbox[v]
    PROVE  LoadsWait' /\ CopiesPending'
<1>1. LoadsWait /\ PassOK /\ CopiesPending
  BY DEF Swept
<1>2. /\ t.id \in Changes /\ t.id \in Nat /\ db \in Seen
      /\ l2 # Nothing => l2 \in Seen /\ l2 \in Nat
      /\ \A q \in Procs : /\ l1[q] # Nothing => l1[q] \in Seen
                          /\ reader[q].seen \in Seen
  BY SeenTyped, ConstantsAuth
<1>3. ASSUME NEW n \in Seen, Known(n, db, outbox), ~(n < t.id)
      PROVE  Known(n, db, outbox')
  BY <1>2, <1>3, KnownLess
<1>4. /\ l2 # Nothing => ~(l2 < t.id)
      /\ \A q \in Procs \ missed : q \in inbox \/ ~Misses(q, t.id)
  <2>1. /\ l2 = Nothing \/ l2 >= t.id
        /\ \A q \in Procs \ missed : q \in inbox \/ ~Misses(q, t.id)
    BY <1>1 DEF PassOK
  <2> QED BY <1>2, <2>1
<1>5. ASSUME NEW q \in Procs, reader[q].pc = "load"
      PROVE  Known(reader[q].seen, db, outbox')
  <2>1. ~(reader[q].seen < t.id)
    BY <1>1, <1>5, PassesSeeLoads
  <2> QED BY <1>1, <1>2, <1>3, <1>5, <2>1 DEF LoadsWait
<1>6. LoadsWait'
  <2>1. ASSUME NEW v \in Changes, outbox'[v].stage = "second"
        PROVE  outbox'[v] = outbox[v]
    BY <2>1 DEF NoRow
  <2> QED BY <1>1, <1>5, <2>1 DEF LoadsWait
<1>7. CopiesPending'
  <2>1. l2 # Nothing => Known(l2, db, outbox')
    BY <1>1, <1>2, <1>3, <1>4 DEF CopiesPending
  <2>2. ASSUME NEW q \in Procs \ missed, q \notin inbox
        PROVE  /\ l1[q] # Nothing => Known(l1[q], db, outbox')
               /\ Reading(q) => Known(reader[q].seen, db, outbox')
    <3>1. ~Misses(q, t.id)
      BY <1>4, <2>2
    <3>2. /\ l1[q] # Nothing => Known(l1[q], db, outbox)
          /\ Reading(q) => Known(reader[q].seen, db, outbox)
      BY <1>1, <2>2 DEF CopiesPending
    <3> QED BY <1>2, <1>3, <3>1, <3>2 DEF Misses
  <2> QED BY <2>1, <2>2 DEF CopiesPending, Reading
<1> QED BY <1>6, <1>7

\* A worker is done with a row.
LEMMA SweptSettle ==
    ASSUME AuthCacheAssumption, AuthTyped, Swept, NEW p \in Procs,
           NEW t \in work[p], NEW row, Outcome(p, t, row), Settle(p, t, row)
    PROVE  Swept'
<1>1. UNCHANGED <<db, l2, l1, reader, missed, inbox, late>>
  BY DEF Settle, ofProc
<1>2. \A q \in Procs : work'[q] \subseteq work[q]
  BY DEF Settle, Done, AuthTyped, AuthTypeOK
<1>3. \A q \in Procs \ missed' : GoesOn(q)
  BY <1>1 DEF GoesOn
<1>4. t.id \in Changes
  BY SeenTyped
<1> SUFFICES ASSUME ~late PROVE LoadsWait' /\ PassOK' /\ CopiesPending'
  BY <1>1 DEF Swept
<1>5. LoadsWait /\ PassOK /\ CopiesPending
  BY DEF Swept
<1>6. CASE outbox' = outbox
  <2>1. LoadsWait'
    BY <1>1, <1>5, <1>6, LoadsKept
  <2>2. PassOK'
    BY <1>1, <1>2, <1>3, <1>5, <1>6, PassKept
  <2>3. CopiesPending'
    BY <1>1, <1>3, <1>5, <1>6, CopiesKept
  <2> QED BY <2>1, <2>2, <2>3
<1>7. CASE Mine(p, t) /\ outbox' = [outbox EXCEPT ![t.id] = row]
  <2>1. /\ row.by = Nothing
        /\ row.stage = "absent" => row = NoRow
        /\ \/ row.stage = outbox[t.id].stage /\ row.waits = outbox[t.id].waits
           \/ row.stage = "second" /\ row.waits = {q \in Procs : Reading(q)}
           \/ row = NoRow /\ t.pc = "ack" /\ t.stage = "second"
    BY <1>7, OutcomeTyped
  <2>2. /\ outbox'[t.id] = row
        /\ \A v \in Changes \ {t.id} : outbox'[v] = outbox[v]
    BY <1>4, <1>7 DEF AuthTyped, AuthTypeOK
  <2>3. outbox[t.id].by = p /\ outbox[t.id].stage # "absent"
    BY <1>7 DEF Mine, Pending
  <2>4. PassOK'
    <3>1. ASSUME NEW w \in Procs, NEW s \in work'[w], outbox'[s.id].by = w
          PROVE  s \in work[w] /\ outbox[s.id].by = w
      <4>1. s \in work[w] /\ s.id \in Changes
        BY <1>2, SeenTyped
      <4>2. s.id # t.id
        BY <2>1, <2>2, <3>1, ConstantsAuth
      <4> QED BY <2>2, <3>1, <4>1, <4>2
    <3> QED BY <1>1, <1>3, <1>5, <3>1, PassKept
  <2>5. CASE row = NoRow /\ t.pc = "ack" /\ t.stage = "second"
    <3>1. LoadsWait' /\ CopiesPending'
      BY <1>1, <2>2, <2>3, <2>5, SweptDeleted
    <3> QED BY <2>4, <3>1
  <2>6. CASE \/ row.stage = outbox[t.id].stage /\ row.waits = outbox[t.id].waits
             \/ row.stage = "second" /\ row.waits = {q \in Procs : Reading(q)}
    <3>1. row.stage # "absent"
      BY <2>3, <2>6
    <3>2. CopiesPending'
      BY <1>1, <1>3, <1>5, <2>2, <3>1, CopiesKept
    <3>3. LoadsWait'
      <4> SUFFICES ASSUME NEW q \in Procs, reader[q].pc = "load"
                   PROVE  /\ Known(reader[q].seen, db, outbox')
                          /\ \A v \in Changes :
                                outbox'[v].stage = "second"
                                /\ reader[q].seen < v => q \in outbox'[v].waits
        BY <1>1 DEF LoadsWait
      <4>1. Known(reader[q].seen, db, outbox)
        BY <1>5 DEF LoadsWait
      <4>2. Known(reader[q].seen, db, outbox')
        BY <2>2, <3>1, <4>1, SeenTyped, KnownKept
      <4>3. ASSUME NEW v \in Changes, outbox'[v].stage = "second",
                   reader[q].seen < v
            PROVE  q \in outbox'[v].waits
        <5>1. CASE outbox'[v].stage = outbox[v].stage
                   /\ outbox'[v].waits = outbox[v].waits
          BY <1>5, <4>3, <5>1 DEF LoadsWait
        <5>2. CASE v = t.id /\ row.waits = {r \in Procs : Reading(r)}
          BY <2>2, <5>2 DEF Reading
        <5> QED BY <2>2, <2>6, <5>1, <5>2
      <4> QED BY <4>2, <4>3
    <3> QED BY <2>4, <3>2, <3>3
  <2> QED BY <2>1, <2>5, <2>6
<1> QED BY <1>6, <1>7 DEF Settle, Row

-----------------------------------------------------------------------------
(* The invariant and the theorems.                                         *)

AuthInv == AuthTyped /\ Swept

LEMMA AuthInvInit == ASSUME AuthCacheAssumption, AuthInit PROVE AuthInv
<1>1. AuthTyped
  BY AuthTypedInit
<1>2. Swept
  BY DEF AuthInit, Idle, Swept, LoadsWait, PassOK, CopiesPending, Reading
<1> QED BY <1>1, <1>2 DEF AuthInv

LEMMA AuthInvStep ==
    ASSUME AuthCacheAssumption, AuthInv, [AuthNext]_authVars
    PROVE  AuthInv'
<1>1. AuthTyped /\ Swept
  BY DEF AuthInv
<1>2. ASSUME NEW p \in Procs, Process(p) PROVE Swept'
  <2>1. PICK t \in work[p] :
           \/ Delete(p, t) \/ Tell(p, t) \/ ScheduleSecondPass(p, t)
           \/ DeleteClaimed(p, t) \/ RetryClaimed(p, t)
    BY <1>2 DEF Process
  <2>2. CASE Delete(p, t)
    BY <1>1, <2>2, SweptDelete
  <2>3. CASE Tell(p, t)
    BY <1>1, <2>3, SweptTell
  <2>4. CASE \/ ScheduleSecondPass(p, t) \/ DeleteClaimed(p, t)
             \/ RetryClaimed(p, t)
    BY <1>1, <2>4, SettleIs, SweptSettle
  <2> QED BY <2>1, <2>2, <2>3, <2>4
<1>3. ASSUME L2Expires PROVE Swept'
  <2>1. CASE \E p \in Procs : TRUE
    BY <1>1, <1>3, <2>1, SweptAside
  <2>2. CASE ~\E p \in Procs : TRUE
    BY <1>3, <2>2 DEF L2Expires, ByTime, Swept, LoadsWait, PassOK,
       CopiesPending
  <2> QED BY <2>1, <2>2
<1>4. ASSUME UNCHANGED authVars PROVE Swept'
  BY <1>1, <1>4 DEF authVars, ofKey, ofProc, Swept, LoadsWait, PassOK, Misses,
     CopiesPending, Reading
<1>5. ASSUME NEW p \in Procs,
             \/ DirectDelete(p) \/ DirectPublish(p) \/ Deliver(p)
             \/ Disconnect(p) \/ Subscribe(p) \/ L1Expires(p)
      PROVE  Swept'
  BY <1>1, <1>5, SweptAside
<1>6. ASSUME NEW p \in Procs,
             \/ Change(p) \/ Lookup(p) \/ Remember(p) \/ Claim(p)
             \/ Restart(p)
      PROVE  Swept'
  BY <1>1, <1>6, SweptChange, SweptLookup, SweptRemember, SweptClaim,
     SweptRestart
<1>7. ASSUME NEW v \in Changes,
             ComesDue(v) \/ ComesDueEarly(v) \/ ClaimLapses(v)
      PROVE  Swept'
  BY <1>1, <1>7, SweptTime
<1>8. Swept'
  BY <1>2, <1>3, <1>4, <1>5, <1>6, <1>7 DEF AuthNext
<1>9. AuthTyped'
  BY <1>1, AuthTypedStep
<1> QED BY <1>8, <1>9 DEF AuthInv

LEMMA AuthInvariant == AuthSpec => []AuthInv
<1>1. AuthInit => AuthInv
  BY AuthInvInit, AuthCacheAssumption
<1>2. AuthInv /\ [AuthNext]_authVars => AuthInv'
  BY AuthInvStep, AuthCacheAssumption
<1> QED BY <1>1, <1>2, PTL DEF AuthSpec

\* api_key_auth_cache_impl.go, auth_cache_invalidation_outbox_repo.go: the
\* rows, caches, batches and lookups have their types, whatever the processes,
\* changes and faults.
THEOREM AuthCacheTypeCorrect == AuthSpec => []AuthTypeOK
<1>1. AuthInv => AuthTypeOK
  BY DEF AuthInv, AuthTyped
<1> QED BY <1>1, AuthInvariant, PTL

\* A snapshot that misses a change, in Redis or in a process, still has the
\* row of the change, or a message to the process, after it; for all numbers
\* of processes, changes and faults.
THEOREM StaleCopiesAreSwept == AuthSpec => []StaleIsPending
<1>1. AuthInv => StaleIsPending
  BY DEF AuthInv, Swept, CopiesPending, Known, StaleIsPending, Pending
<1> QED BY <1>1, AuthInvariant, PTL

=============================================================================
