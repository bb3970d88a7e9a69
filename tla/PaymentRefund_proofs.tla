------------------------- MODULE PaymentRefund_proofs -------------------------
(***************************************************************************)
(* Proofs about PaymentRefund for any number of handlers, of requests to   *)
(* the gateway and of faults, any value of the order and any funds.        *)
(***************************************************************************)
EXTENDS PaymentRefund, FiniteSetTheorems, TLAPS

-----------------------------------------------------------------------------
(***************************************************************************)
(* The inductive invariant.                                                *)
(***************************************************************************)

Querying == {"query", "settle", "refuse", "unreturned"}

\* A refund the gateway pays or may pay, and told the handler so.
Live(r)      == r \notin unheard /\ gateway[r] \in {"processing", "done"}
OnlyLive(s)  == \A r \in Refs : Live(r) => r = s
NoneLive     == \A r \in Refs : ~Live(r)
FailedLogged == "REFUND_FAILED" \in audit

\* A refund whose answer a handler has had.
Answered(r) == r \notin unheard /\ r <= attempts

\* The claim has one owner at most, and the order is REFUNDING while it has one.
OwnerInv ==
    \A a \in Admins : admin[a].pc \in Claimed =>
        /\ order.status = "REFUNDING"
        /\ \A b \in Admins : admin[b].pc \in Claimed => a = b

\* What the status of the order says about the gateway's refunds.
GateInv ==
    /\ \E s \in Refs : OnlyLive(s)
    /\ order.status \in Retryable => NoneLive
    /\ order.status = "REFUND_PENDING" =>
          OnlyLive(pending.ref) /\ Answered(pending.ref)
    /\ order.status \in Refunded /\ order.trade =>
          \E r \in Refs \ unheard : gateway[r] = "done"

\* Refunds are requested in the order of their numbers.
AttemptInv ==
    \A r \in Refs : r > attempts => gateway[r] = "none" /\ r \notin unheard

\* What a handler knows about the gateway's refunds.
GateOf(a) ==
    /\ admin[a].pc \in Claimed \ {"ok", "pending"} => NoneLive
    /\ admin[a].pc = "ok" /\ order.trade =>
          Answered(admin[a].ref) /\ gateway[admin[a].ref] = "done"
    /\ admin[a].pc = "pending" =>
          Answered(admin[a].ref) /\ OnlyLive(admin[a].ref)
    /\ admin[a].pc = "detail" => Answered(pending.ref)
    /\ admin[a].pc \in Querying => Answered(admin[a].ref)
    /\ admin[a].pc = "settle" => gateway[admin[a].ref] = "done"
    /\ admin[a].pc \in {"refuse", "unreturned"} =>
          gateway[admin[a].ref] = "refused"

\* What a finalizer has read is still what the order's REFUND_PENDING row says.
Fresh(a) ==
    /\ order.status = "REFUND_PENDING"
    /\ admin[a].ref = pending.ref /\ admin[a].held = pending.held
    /\ IF pending.held THEN admin[a].deduct = pending.deduct
                       ELSE admin[a].deduct > 0 => pending.rolledBack

\* That refund was finalized as failed, which is logged once only.
Overtaken(ref) == FailedLogged /\ gateway[ref] = "refused"

\* A finalizer is fresh, or too late to finalize anything.
FinalizerOf(a) ==
    /\ admin[a].pc = "detail" =>
          \/ order.status \in Refunded \cup {"REFUND_PENDING"}
          \/ Overtaken(pending.ref)
    /\ admin[a].pc \in Querying =>
          \/ order.status \in Refunded \/ Fresh(a) \/ Overtaken(admin[a].ref)

\* A plan holds what was taken, unless an earlier attempt's is marked.  (A
\* subscription that was revoked may have had fewer days.)
Holds(deduct) == IF Marked THEN deduct = 0
                 ELSE taken <= deduct /\ (active => taken = deduct)

\* What the order and its log rows say about what is taken.
BookInv ==
    ~faults.lost =>
        /\ taken \in 0 .. Credit
        /\ order.status \in Retryable => taken = 0 \/ Marked
        /\ order.status = "REFUND_PENDING" =>
              IF pending.held THEN Holds(pending.deduct)
              ELSE taken = 0 \/ (Marked /\ ~pending.rolledBack)

\* What the plan of the owner says about it.
BookOf(a) ==
    ~faults.lost =>
        /\ admin[a].pc \in {"deduct", "restore"} => taken = 0 \/ Marked
        /\ admin[a].pc \in {"gateway", "ok", "pending", "rollback"} =>
              Holds(admin[a].deduct)
        /\ admin[a].pc = "failed" => Marked

HandlerInv(a) == GateOf(a) /\ FinalizerOf(a) /\ BookOf(a)

Inv ==
    /\ TypeOK /\ OwnerInv /\ GateInv /\ AttemptInv /\ BookInv
    /\ \A a \in Admins : HandlerInv(a)

-----------------------------------------------------------------------------
(***************************************************************************)
(* Types.                                                                  *)
(***************************************************************************)

\* A fault uses one up, and what is lost stays lost.
LEMMA FaultTyped ==
    ASSUME faults \in [left : 0 .. MaxFaults, lost : BOOLEAN]
    PROVE  /\ NoFault => /\ faults' \in [left : 0 .. MaxFaults, lost : BOOLEAN]
                         /\ faults'.lost = faults.lost
           /\ \A kind : Fault(kind) =>
                 /\ faults' \in [left : 0 .. MaxFaults, lost : BOOLEAN]
                 /\ faults.lost => faults'.lost
                 /\ kind \in {"audit", "tail"} => faults'.lost
                 /\ kind \notin {"audit", "tail"} => faults'.lost = faults.lost
<1>1. MaxFaults \in Nat
  BY RefundAssumption
<1>2. ASSUME NEW kind, Fault(kind)
      PROVE  /\ faults' \in [left : 0 .. MaxFaults, lost : BOOLEAN]
             /\ faults.lost => faults'.lost
             /\ kind \in {"audit", "tail"} => faults'.lost
             /\ kind \notin {"audit", "tail"} => faults'.lost = faults.lost
  <2>1. /\ faults.left \in 0 .. MaxFaults /\ faults.left > 0
        /\ faults' = [left |-> faults.left - 1,
                      lost |-> faults.lost \/ kind \in {"audit", "tail"}]
    BY <1>2 DEF Fault
  <2>2. faults.left - 1 \in 0 .. MaxFaults
    BY <1>1, <2>1
  <2>3. (faults.lost \/ kind \in {"audit", "tail"}) \in BOOLEAN
    OBVIOUS
  <2>4. faults' \in [left : 0 .. MaxFaults, lost : BOOLEAN]
    BY <2>1, <2>2, <2>3
  <2>5. faults'.lost = (faults.lost \/ kind \in {"audit", "tail"})
    BY <2>1
  <2> QED
    BY <2>4, <2>5
<1> QED
  BY <1>2 DEF NoFault

\* Goto and Finish move one handler.
LEMMA HandlerMoves ==
    ASSUME TypeOK, NEW a \in Admins
    PROVE  /\ \A pc \in Steps : Goto(a, pc) =>
                 /\ admin' \in [Admins -> Plan]
                 /\ \A b \in Admins \ {a} : admin'[b] = admin[b]
                 /\ admin'[a] = [admin[a] EXCEPT !.pc = pc]
           /\ Finish(a) =>
                 /\ admin' \in [Admins -> Plan]
                 /\ \A b \in Admins \ {a} : admin'[b] = admin[b]
                 /\ admin'[a] = NoPlan /\ admin'[a].pc = "idle"
<1>1. NoPlan \in Plan /\ NoPlan.pc = "idle"
  BY RefundAssumption DEF NoPlan, Plan, Steps, Statuses, Refs
<1>2. admin \in [Admins -> Plan]
  BY DEF TypeOK
<1>3. \A pc \in Steps : Goto(a, pc) =>
          /\ admin' \in [Admins -> Plan]
          /\ \A b \in Admins \ {a} : admin'[b] = admin[b]
          /\ admin'[a] = [admin[a] EXCEPT !.pc = pc]
  BY <1>2 DEF Goto, Plan
<1> QED
  BY <1>1, <1>2, <1>3 DEF Finish

\* The records of the model.
Order == [type : OrderTypes, trade : BOOLEAN, status : Statuses,
          refund : 0 .. Credit]
Faults == [left : 0 .. MaxFaults, lost : BOOLEAN]
GateStates == {"none", "processing", "done", "refused"}

\* The next plans of the handlers, typed.
PlansTyped == admin' \in [Admins -> Plan]

\* The rest of the state, typed.
WorldTyped ==
    /\ order' \in Order
    /\ user' \in {"idle", "checked"}
    /\ funds' \in Int
    /\ active' \in BOOLEAN
    /\ audit' \in SUBSET Actions
    /\ pending' \in Detail
    /\ gateway' \in [Refs -> GateStates]
    /\ attempts' \in 0 .. MaxAttempts
    /\ unheard' \subseteq Refs
    /\ taken' \in Int
    /\ faults' \in Faults

\* Type correctness, in two parts.
LEMMA Typing ==
    /\ TypeOK => /\ order \in Order /\ user \in {"idle", "checked"}
                 /\ funds \in Int /\ active \in BOOLEAN
                 /\ audit \in SUBSET Actions /\ pending \in Detail
                 /\ gateway \in [Refs -> GateStates]
                 /\ attempts \in 0 .. MaxAttempts /\ taken \in Int
                 /\ unheard \subseteq Refs
                 /\ faults \in Faults /\ admin \in [Admins -> Plan]
                 /\ order.status \in Statuses /\ order.refund \in 0 .. Credit
                 /\ \A a \in Admins :
                       /\ admin[a] \in Plan
                       /\ admin[a].amount \in 0 .. Credit
                       /\ admin[a].deduct \in 0 .. Credit
                       /\ admin[a].ref \in Refs
    /\ WorldTyped /\ PlansTyped => TypeOK'
<1>1. ASSUME TypeOK
      PROVE  /\ order \in Order /\ user \in {"idle", "checked"}
             /\ funds \in Int /\ active \in BOOLEAN
             /\ audit \in SUBSET Actions /\ pending \in Detail
             /\ gateway \in [Refs -> GateStates]
             /\ attempts \in 0 .. MaxAttempts /\ taken \in Int
             /\ unheard \subseteq Refs
             /\ faults \in Faults /\ admin \in [Admins -> Plan]
  BY <1>1 DEF TypeOK, Order, Faults, GateStates
<1>2. order \in Order => order.status \in Statuses /\ order.refund \in 0 .. Credit
  BY DEF Order
<1>3. ASSUME admin \in [Admins -> Plan], NEW a \in Admins
      PROVE  /\ admin[a] \in Plan
             /\ admin[a].amount \in 0 .. Credit /\ admin[a].deduct \in 0 .. Credit
             /\ admin[a].ref \in Refs
  BY <1>3 DEF Plan
<1>4. WorldTyped /\ PlansTyped => TypeOK'
  BY DEF WorldTyped, PlansTyped, TypeOK, Order, Faults, GateStates
<1> QED
  BY <1>1, <1>2, <1>3, <1>4

\* A step of the order's status.
LEMMA StatusTyped ==
    ASSUME TypeOK, NEW s \in Statuses, NEW r \in 0 .. Credit
    PROVE  /\ [order EXCEPT !.status = s] \in Order
           /\ [order EXCEPT !.status = s, !.refund = r] \in Order
           /\ [order EXCEPT !.status = s].status = s
           /\ [order EXCEPT !.status = s].type = order.type
           /\ [order EXCEPT !.status = s].trade = order.trade
           /\ [order EXCEPT !.status = s, !.refund = r].status = s
           /\ [order EXCEPT !.status = s, !.refund = r].type = order.type
           /\ [order EXCEPT !.status = s, !.refund = r].trade = order.trade
<1>1. order \in Order
  BY Typing
<1> QED
  BY <1>1 DEF Order

\* What is taken, and what is given back.
LEMMA TakeTyped ==
    ASSUME TypeOK, NEW n \in 0 .. Credit, NEW t \in 0 .. Credit, Take(n, t)
    PROVE  /\ funds' \in Int /\ active' \in BOOLEAN /\ taken' \in Int
           /\ taken = 0 => /\ taken' \in 0 .. Credit /\ taken' <= t
                           /\ active' => taken' = t
<1>1. funds \in Int /\ taken \in Int /\ active \in BOOLEAN /\ Credit \in Nat
  BY RefundAssumption DEF TypeOK
<1> SUFFICES /\ funds' \in Int /\ active' \in BOOLEAN /\ taken' \in Int
             /\ taken = 0 => taken' \in 0 .. Credit /\ taken' <= t
             /\ taken = 0 /\ active' => taken' = t
  OBVIOUS
<1>2. CASE /\ t = Least(n, Greatest(funds, 0))
           /\ funds' = funds - t /\ taken' = taken + t
           /\ active' = active
  BY <1>1, <1>2
<1>3. CASE /\ t = n /\ funds > n /\ funds' = funds - n
           /\ taken' = taken + n /\ active' = TRUE
  BY <1>1, <1>3
<1>4. CASE /\ funds > 0 /\ t = n /\ ~(funds > n) /\ funds' = 0
           /\ taken' = taken + funds /\ active' = FALSE
  <2>1. funds <= n /\ n \in Nat /\ n <= Credit
    BY <1>1, <1>4
  <2>2. /\ funds' \in Int /\ taken' \in Int
        /\ taken = 0 => taken' \in 0 .. Credit /\ taken' <= t
    BY <1>1, <1>4, <2>1
  <2> QED
    BY <1>4, <2>2, Zenon
<1> QED
  BY <1>2, <1>3, <1>4 DEF Take

\* Nothing is given back where there is nothing to give.
LEMMA ReturnTyped ==
    ASSUME TypeOK, NEW n \in 0 .. Credit, Return(n)
    PROVE  /\ funds' \in Int /\ active' \in BOOLEAN /\ taken' \in Int
           /\ active' = active /\ taken' = taken - n /\ (n > 0 => active)
           /\ n = 0 => taken' = taken
<1>1. funds \in Int /\ taken \in Int /\ active \in BOOLEAN /\ Credit \in Nat
  BY RefundAssumption DEF TypeOK
<1>2. Greatest(funds, 0) \in Int
  BY <1>1 DEF Greatest
<1>3. /\ funds' = IF n = 0 THEN funds
                  ELSE n + IF order.type = "subscription"
                           THEN Greatest(funds, 0) ELSE funds
      /\ taken' = taken - n /\ active' = active /\ (n > 0 => active)
  BY DEF Return
<1>4. funds' \in Int
  BY <1>1, <1>2, <1>3
<1> QED
  BY <1>1, <1>3, <1>4

\* Steps of the user, of the provider and of time are typed.
LEMMA TypeWorld ==
    ASSUME TypeOK,
           \/ ValidateRefundRequest \/ RequestRefund \/ Spend
           \/ \E r \in Refs : Settle(r)
    PROVE  TypeOK'
<1>t. WorldTyped /\ PlansTyped => TypeOK'
  BY Typing
<1>1. CASE ValidateRefundRequest \/ Spend
  BY <1>t, <1>1, Typing DEF ValidateRefundRequest, Spend, WorldTyped, PlansTyped,
     fundVars, logVars, gateVars
<1>2. CASE RequestRefund
  <2>1. [order EXCEPT !.status = "REFUND_REQUESTED", !.refund = Credit] \in Order
    <3>1. Credit \in 0 .. Credit /\ "REFUND_REQUESTED" \in Statuses
      BY RefundAssumption DEF Statuses
    <3> QED
      BY <3>1, StatusTyped
  <2>2. order' \in Order /\ user' = "idle"
    BY <1>2, <2>1, Typing DEF RequestRefund
  <2> QED
    BY <1>t, <1>2, <2>2, Typing DEF RequestRefund, WorldTyped, PlansTyped,
       fundVars, logVars, gateVars
<1>3. CASE \E r \in Refs : Settle(r)
  <2>1. gateway' \in [Refs -> GateStates]
    BY <1>3, Typing DEF Settle, GateStates
  <2> QED
    BY <1>t, <1>3, <2>1, Typing DEF Settle, WorldTyped, PlansTyped, fundVars,
       logVars
<1> QED
  BY <1>1, <1>2, <1>3

\* Steps that move one handler, and nothing else but the faults, are typed.
LEMMA TypeMoves ==
    ASSUME TypeOK, NEW a \in Admins,
           \/ PrepareRefund(a) \/ PrepDeduct(a) \/ RequireForce(a)
           \/ QueryAndFinalizeRefund(a) \/ ReadPendingDetail(a)
           \/ QueryRefund(a) \/ Stop(a)
    PROVE  /\ TypeOK'
           /\ UNCHANGED <<order, user, funds, active, taken, audit, pending,
                          gateway, attempts, unheard>>
           /\ faults'.lost = faults.lost
           /\ \A b \in Admins \ {a} : admin'[b] = admin[b]
<1>t. WorldTyped /\ PlansTyped => TypeOK'
  BY Typing
<1>a. /\ admin \in [Admins -> Plan] /\ faults \in Faults
      /\ order.status \in Statuses /\ order.refund \in 0 .. Credit
      /\ pending \in Detail
  BY Typing
<1>u. UNCHANGED <<order, user, funds, active, taken, audit, pending, gateway,
                  attempts, unheard>>
  BY DEF PrepareRefund, PrepDeduct, RequireForce, QueryAndFinalizeRefund,
     ReadPendingDetail, QueryRefund, Stop, fundVars, logVars, gateVars
<1>f. NoFault \/ Fault("error") \/ Fault("stop")
  BY DEF PrepareRefund, PrepDeduct, RequireForce, QueryAndFinalizeRefund,
     ReadPendingDetail, QueryRefund, Stop, NoFault
<1>g. faults' \in Faults /\ faults'.lost = faults.lost
  BY <1>a, <1>f, FaultTyped DEF Faults
<1>w. WorldTyped
  BY <1>u, <1>g, Typing DEF WorldTyped
<1>p. NoPlan \in Plan
  BY RefundAssumption DEF NoPlan, Plan, Steps, Statuses, Refs
<1> DEFINE Moved == PlansTyped /\ \A b \in Admins \ {a} : admin'[b] = admin[b]
<1>1. CASE PrepareRefund(a)
  <2>1. PICK amt \in 1 .. Credit, deduct \in BOOLEAN :
          admin' = [admin EXCEPT ![a] =
                      [NoPlan EXCEPT !.pc = IF deduct THEN "prep" ELSE "claim",
                                     !.seen = order.status, !.amount = amt]]
    BY <1>1 DEF PrepareRefund
  <2>2. [NoPlan EXCEPT !.pc = IF deduct THEN "prep" ELSE "claim",
                       !.seen = order.status, !.amount = amt] \in Plan
    <3>1. (IF deduct THEN "prep" ELSE "claim") \in Steps
      BY DEF Steps
    <3>2. amt \in 0 .. Credit
      BY RefundAssumption
    <3> QED
      BY <1>a, <1>p, <3>1, <3>2 DEF Plan
  <2>3. Moved
    BY <1>a, <2>1, <2>2 DEF PlansTyped
  <2> QED
    BY <1>t, <1>u, <1>g, <1>w, <2>3
<1>2. CASE PrepDeduct(a)
  <2>1. PICK n \in 0 .. Credit :
          admin' = [admin EXCEPT ![a].deduct = n, ![a].pc = "claim"]
    BY <1>2 DEF PrepDeduct
  <2>2. Moved
    BY <1>a, <2>1 DEF PlansTyped, Plan, Steps
  <2> QED
    BY <1>t, <1>u, <1>g, <1>w, <2>2
<1>3. CASE QueryAndFinalizeRefund(a)
  <2>1. [NoPlan EXCEPT !.pc = "detail", !.amount = order.refund] \in Plan
    BY <1>a, <1>p DEF Plan, Steps
  <2>2. Moved
    BY <1>3, <1>a, <2>1 DEF QueryAndFinalizeRefund, PlansTyped
  <2> QED
    BY <1>t, <1>u, <1>g, <1>w, <2>2
<1>4. CASE ReadPendingDetail(a)
  <2>1. PICK n \in 0 .. Credit :
          admin' = [admin EXCEPT ![a].pc = "query", ![a].deduct = n,
                                 ![a].held = pending.held,
                                 ![a].ref = pending.ref]
    BY <1>4 DEF ReadPendingDetail
  <2>2. pending.held \in BOOLEAN /\ pending.ref \in Refs /\ "query" \in Steps
    BY <1>a DEF Detail, Steps
  <2>3. [admin[a] EXCEPT !.pc = "query", !.deduct = n, !.held = pending.held,
                         !.ref = pending.ref] \in Plan
    BY <1>a, <2>2 DEF Plan
  <2>4. admin' = [admin EXCEPT ![a] =
                    [admin[a] EXCEPT !.pc = "query", !.deduct = n,
                                     !.held = pending.held, !.ref = pending.ref]]
    BY <1>a, <2>1
  <2>5. Moved
    BY <1>a, <2>3, <2>4 DEF PlansTyped
  <2> QED
    BY <1>t, <1>u, <1>g, <1>w, <2>5
<1>5. CASE RequireForce(a) \/ QueryRefund(a) \/ Stop(a)
  <2>1. Finish(a) \/ Goto(a, "settle") \/ Goto(a, "refuse")
    BY <1>5 DEF RequireForce, QueryRefund, Stop
  <2>2. {"settle", "refuse"} \subseteq Steps
    BY DEF Steps
  <2>3. Moved
    BY <2>1, <2>2, HandlerMoves DEF PlansTyped
  <2> QED
    BY <1>t, <1>u, <1>g, <1>w, <2>3
<1> QED
  BY <1>1, <1>2, <1>3, <1>4, <1>5

-----------------------------------------------------------------------------
(***************************************************************************)
(* Frames: what is left to show about a step of one handler.               *)
(***************************************************************************)

OthersStay(a) == \A b \in Admins \ {a} : admin'[b] = admin[b]

\* Facts about the world that only grow.
GatewayKeeps ==
    \A r \in Refs :
        /\ gateway[r] \in {"done", "refused"} => gateway'[r] = gateway[r]
        /\ Answered(r) => Answered(r)'

\* A handler that moves without changing the order, the money or the gateway.
LEMMA Moves ==
    ASSUME Inv, NEW a \in Admins, TypeOK', OthersStay(a),
           UNCHANGED <<order, active, taken, pending, gateway, attempts, unheard>>,
           audit \subseteq audit', Marked' = Marked,
           faults.lost => faults'.lost,
           admin'[a].pc \in Claimed => admin[a].pc \in Claimed,
           HandlerInv(a)'
    PROVE  Inv'
<1> USE DEF Inv
<1>1. OwnerInv'
  BY DEF OwnerInv, OthersStay
<1>2. GateInv'
  BY DEF GateInv, Answered, OnlyLive, NoneLive, Live
<1>3. BookInv' /\ AttemptInv'
  BY DEF BookInv, Holds, AttemptInv
<1>4. ASSUME NEW b \in Admins \ {a}
      PROVE  HandlerInv(b)'
  <2>1. admin'[b] = admin[b] /\ HandlerInv(b)
    BY DEF OthersStay
  <2>2. GateOf(b)'
    BY <2>1 DEF HandlerInv, GateOf, Answered, OnlyLive, NoneLive, Live
  <2>3. FinalizerOf(b)'
    BY <2>1 DEF HandlerInv, FinalizerOf, Fresh, Overtaken, FailedLogged
  <2>4. BookOf(b)'
    BY <2>1 DEF HandlerInv, BookOf, Holds
  <2> QED
    BY <2>2, <2>3, <2>4 DEF HandlerInv
<1> QED
  BY <1>1, <1>2, <1>3, <1>4

\* A step of the owner of the claim, or the one that takes it.
LEMMA Owns ==
    ASSUME Inv, NEW a \in Admins, TypeOK', OthersStay(a),
           admin[a].pc \in Claimed \/ order.status \in Retryable,
           audit \subseteq audit', GatewayKeeps,
           order'.status = "REFUNDING" \/ admin'[a].pc \notin Claimed,
           pending' = pending \/ order'.status = "REFUND_PENDING",
           GateInv', AttemptInv', BookInv', HandlerInv(a)'
    PROVE  Inv'
<1> USE DEF Inv
<1>1. /\ order.status \notin Refunded \cup {"REFUND_PENDING"}
      /\ \A b \in Admins \ {a} : admin[b].pc \notin Claimed
  BY DEF OwnerInv, Retryable, Refunded
<1>2. OwnerInv'
  BY <1>1 DEF OwnerInv, OthersStay
<1>3. ASSUME NEW b \in Admins \ {a}
      PROVE  HandlerInv(b)'
  <2>1. admin'[b] = admin[b] /\ HandlerInv(b) /\ admin[b].pc \notin Claimed
    BY <1>1 DEF OthersStay
  <2>2. admin[b].ref \in Refs /\ pending.ref \in Refs
    BY Typing DEF Detail
  <2>3. GateOf(b)'
    <3>1. Answered(pending.ref) => Answered(pending.ref)'
      BY <2>2 DEF GatewayKeeps, GateInv, Answered
    <3>2. Answered(admin[b].ref) => Answered(admin[b].ref)'
      BY <2>1, <2>2 DEF GatewayKeeps, Answered
    <3> QED
      BY <2>1, <2>2, <3>1, <3>2 DEF HandlerInv, GateOf, GatewayKeeps, Claimed
  <2>4. FinalizerOf(b)'
    BY <1>1, <2>1, <2>2
    DEF HandlerInv, FinalizerOf, Fresh, Overtaken, FailedLogged, GatewayKeeps
  <2>5. BookOf(b)'
    BY <2>1 DEF BookOf, Claimed
  <2> QED
    BY <2>3, <2>4, <2>5 DEF HandlerInv
<1> QED
  BY <1>2, <1>3

\* A finalizer that ends the pending refund of the order.
LEMMA Finalizes ==
    ASSUME Inv, NEW a \in Admins, TypeOK', OthersStay(a),
           admin'[a].pc = "idle", order.status = "REFUND_PENDING",
           UNCHANGED <<pending, gateway, attempts, unheard>>, audit \subseteq audit',
           \/ order'.status \in Refunded /\ \E r \in Refs \ unheard : gateway[r] = "done"
           \/ /\ order'.status = "REFUND_FAILED" /\ FailedLogged'
              /\ gateway[pending.ref] = "refused",
           BookInv'
    PROVE  Inv'
<1> USE DEF Inv
<1>1. \A b \in Admins : admin[b].pc \notin Claimed
  BY DEF OwnerInv
<1>2. OwnerInv'
  BY <1>1 DEF OwnerInv, OthersStay, Claimed
<1>3. OnlyLive(pending.ref)
  BY DEF GateInv, Answered
<1>4. GateInv'
  <2>1. gateway[pending.ref] = "refused" => NoneLive
    BY <1>3 DEF OnlyLive, NoneLive, Live
  <2> QED
    BY <2>1 DEF GateInv, Answered, OnlyLive, NoneLive, Live, Retryable, Refunded
<1>5. ASSUME NEW b \in Admins
      PROVE  HandlerInv(b)'
  <2>1. CASE b = a
    BY <2>1 DEF HandlerInv, GateOf, Answered, FinalizerOf, BookOf, Claimed, Querying
  <2>2. CASE b # a
    <3>1. admin'[b] = admin[b] /\ HandlerInv(b) /\ admin[b].pc \notin Claimed
      BY <1>1, <2>2 DEF OthersStay
    <3>2. GateOf(b)'
      BY <3>1 DEF HandlerInv, GateOf, Answered, Claimed
    <3>3. FinalizerOf(b)'
      BY <3>1 DEF HandlerInv, FinalizerOf, Fresh, Overtaken, FailedLogged, Refunded
    <3>4. BookOf(b)'
      BY <3>1 DEF BookOf, Claimed
    <3> QED
      BY <3>2, <3>3, <3>4 DEF HandlerInv
  <2> QED
    BY <2>1, <2>2
<1>6. AttemptInv'
  BY DEF AttemptInv
<1> QED
  BY <1>2, <1>4, <1>5, <1>6

\* Outside the claim and the finalization nothing is known of a handler.
LEMMA Elsewhere ==
    ASSUME NEW a \in Admins,
           admin'[a].pc \notin Claimed \cup Querying \cup {"detail"}
    PROVE  HandlerInv(a)'
BY DEF HandlerInv, GateOf, Answered, FinalizerOf, BookOf, Claimed, Querying

-----------------------------------------------------------------------------
(***************************************************************************)
(* The steps.                                                              *)
(***************************************************************************)

\* Requests of the user, spending and the provider's answers.
LEMMA InvWorld ==
    ASSUME Inv,
           \/ ValidateRefundRequest \/ RequestRefund \/ Spend
           \/ \E r \in Refs : Settle(r)
    PROVE  Inv'
<1> USE DEF Inv
<1>t. TypeOK'
  BY TypeWorld
<1>1. CASE ValidateRefundRequest \/ Spend
  <2>1. UNCHANGED <<order, active, taken, audit, pending, gateway, admin>>
        /\ UNCHANGED <<faults, attempts, unheard>>
    BY <1>1 DEF ValidateRefundRequest, Spend, fundVars, logVars, gateVars
  <2>2. OwnerInv' /\ GateInv' /\ AttemptInv' /\ BookInv'
    BY <2>1 DEF OwnerInv, AttemptInv, GateInv, Answered, OnlyLive, NoneLive, Live, BookInv, Holds, Marked
  <2>3. \A a \in Admins : HandlerInv(a)'
    BY <2>1 DEF HandlerInv, GateOf, Answered, OnlyLive, NoneLive, Live, FinalizerOf, Fresh,
       Overtaken, FailedLogged, BookOf, Holds, Marked
  <2> QED
    BY <1>t, <2>2, <2>3
<1>2. CASE RequestRefund
  <2>1. /\ UNCHANGED <<active, taken, audit, pending, gateway, admin, faults>>
        /\ UNCHANGED <<attempts, unheard>>
        /\ \/ order' = order
           \/ /\ order.status = "COMPLETED"
              /\ order' = [order EXCEPT !.status = "REFUND_REQUESTED",
                                        !.refund = Credit]
    BY <1>2 DEF RequestRefund, fundVars, logVars, gateVars
  <2>2. \/ order' = order
        \/ order.status = "COMPLETED" /\ order'.status = "REFUND_REQUESTED"
    BY <2>1, Typing DEF Order
  <2>3. OwnerInv' /\ AttemptInv'
    BY <2>1, <2>2 DEF OwnerInv, AttemptInv
  <2>4. GateInv'
    BY <2>1, <2>2 DEF GateInv, Answered, OnlyLive, NoneLive, Live, Retryable, Refunded
  <2>5. BookInv'
    BY <2>1, <2>2 DEF BookInv, Holds, Marked, Retryable
  <2>6. ASSUME NEW a \in Admins
        PROVE  HandlerInv(a)'
    <3>1. HandlerInv(a) /\ (admin[a].pc \in Claimed => order' = order)
      BY <2>2 DEF OwnerInv
    <3>2. GateOf(a)'
      BY <2>1, <3>1
      DEF HandlerInv, GateOf, Answered, OnlyLive, NoneLive, Live, Claimed
    <3>3. FinalizerOf(a)'
      BY <2>1, <2>2, <3>1
      DEF HandlerInv, FinalizerOf, Fresh, Overtaken, FailedLogged, Refunded
    <3>4. BookOf(a)'
      BY <2>1, <3>1 DEF HandlerInv, BookOf, Holds, Marked
    <3> QED
      BY <3>2, <3>3, <3>4 DEF HandlerInv
  <2> QED
    BY <1>t, <2>3, <2>4, <2>5, <2>6
<1>3. CASE \E r \in Refs : Settle(r)
  <2>1. /\ UNCHANGED <<order, active, taken, audit, pending, admin, faults>>
        /\ UNCHANGED <<attempts, unheard>>
    BY <1>3 DEF Settle, fundVars, logVars
  <2>2. \A r \in Refs : /\ Live(r)' => Live(r)
                        /\ gateway[r] \in {"done", "refused"} =>
                              gateway'[r] = gateway[r]
    BY <1>3, Typing DEF Settle, Live
  <2>3. OwnerInv' /\ AttemptInv' /\ BookInv'
    <3>1. AttemptInv'
      BY <1>3, Typing DEF Settle, AttemptInv
    <3> QED
      BY <2>1, <3>1 DEF OwnerInv, BookInv, Holds, Marked
  <2>4. GateInv'
    <3>1. \A s \in Refs : OnlyLive(s) => OnlyLive(s)'
      BY <2>2 DEF OnlyLive
    <3>2. pending.ref \in Refs /\ (NoneLive => NoneLive')
      BY <2>2, Typing DEF NoneLive, Detail
    <3> QED
      BY <2>1, <2>2, <3>1, <3>2 DEF GateInv, Answered
  <2>5. ASSUME NEW a \in Admins
        PROVE  HandlerInv(a)'
    <3>1. HandlerInv(a) /\ admin[a].ref \in Refs /\ pending.ref \in Refs
      BY Typing DEF Detail
    <3>2. GateOf(a)'
      BY <2>1, <2>2, <3>1 DEF HandlerInv, GateOf, Answered, OnlyLive, NoneLive
    <3>3. FinalizerOf(a)'
      BY <2>1, <2>2, <3>1 DEF HandlerInv, FinalizerOf, Fresh, Overtaken, FailedLogged
    <3>4. BookOf(a)'
      BY <2>1, <3>1 DEF HandlerInv, BookOf, Holds, Marked
    <3> QED
      BY <3>2, <3>3, <3>4 DEF HandlerInv
  <2> QED
    BY <1>t, <2>1, <2>3, <2>4, <2>5
<1> QED
  BY <1>1, <1>2, <1>3

\* Reads, the provider's answers to queries, and handlers that stop.
LEMMA InvMoves ==
    ASSUME Inv, NEW a \in Admins,
           \/ PrepareRefund(a) \/ PrepDeduct(a) \/ RequireForce(a)
           \/ QueryAndFinalizeRefund(a) \/ ReadPendingDetail(a)
           \/ QueryRefund(a) \/ Stop(a)
    PROVE  Inv'
<1> USE DEF Inv
<1>t. /\ TypeOK'
      /\ UNCHANGED <<order, user, funds, active, taken, audit, pending,
                     gateway, attempts, unheard>>
      /\ faults'.lost = faults.lost
      /\ OthersStay(a)
  BY TypeMoves DEF OthersStay
<1>m. Marked' = Marked
  BY <1>t DEF Marked
<1>a. admin \in [Admins -> Plan]
  BY Typing
<1>g. ASSUME admin'[a].pc \notin Claimed, HandlerInv(a)'
      PROVE  Inv'
  BY <1>t, <1>m, <1>g, Moves
<1>1. CASE PrepareRefund(a) \/ PrepDeduct(a) \/ RequireForce(a) \/ Stop(a)
  <2>1. admin'[a].pc \in {"idle", "prep", "claim"}
    <3>1. CASE PrepareRefund(a)
      <4>1. PICK amt \in 1 .. Credit, deduct \in BOOLEAN :
              admin' = [admin EXCEPT ![a] =
                          [NoPlan EXCEPT !.pc = IF deduct THEN "prep" ELSE "claim",
                                         !.seen = order.status, !.amount = amt]]
        BY <3>1 DEF PrepareRefund
      <4> QED
        BY <1>a, <4>1 DEF NoPlan
    <3>2. CASE PrepDeduct(a)
      BY <1>a, <3>2 DEF PrepDeduct, Plan
    <3>3. CASE RequireForce(a) \/ Stop(a)
      BY <3>3, HandlerMoves DEF RequireForce, Stop
    <3> QED
      BY <1>1, <3>1, <3>2, <3>3
  <2>2. admin'[a].pc \notin Claimed \cup Querying \cup {"detail"}
    BY <2>1 DEF Claimed, Querying
  <2> QED
    BY <1>g, <2>2, Elsewhere
<1>2. CASE QueryAndFinalizeRefund(a)
  <2>1. admin'[a].pc = "detail" /\ order.status = "REFUND_PENDING"
    BY <1>2, <1>a DEF QueryAndFinalizeRefund, NoPlan
  <2>2. Answered(pending.ref)
    BY <2>1 DEF GateInv
  <2>3. HandlerInv(a)'
    BY <1>t, <2>1, <2>2
    DEF HandlerInv, GateOf, Answered, FinalizerOf, BookOf, Claimed, Querying
  <2> QED
    BY <1>g, <2>1, <2>3 DEF Claimed
<1>3. CASE ReadPendingDetail(a)
  <2>1. PICK n \in 0 .. Credit :
          /\ \/ pending.held /\ n = pending.deduct
             \/ ~pending.held /\ ~pending.rolledBack /\ n = 0
             \/ ~pending.held /\ pending.rolledBack
          /\ admin' = [admin EXCEPT ![a].pc = "query", ![a].deduct = n,
                                    ![a].held = pending.held,
                                    ![a].ref = pending.ref]
    BY <1>3 DEF ReadPendingDetail
  <2>2. /\ admin'[a].pc = "query" /\ admin'[a].deduct = n
        /\ admin'[a].held = pending.held /\ admin'[a].ref = pending.ref
    BY <1>a, <2>1 DEF Plan
  <2>3. admin[a].pc = "detail"
    BY <1>3 DEF ReadPendingDetail, At
  <2>4. \/ order.status \in Refunded \cup {"REFUND_PENDING"}
        \/ Overtaken(pending.ref)
    BY <2>3 DEF HandlerInv, FinalizerOf
  <2>a. Answered(admin'[a].ref)
    BY <2>2, <2>3 DEF HandlerInv, GateOf
  <2>5. FinalizerOf(a)'
    BY <1>t, <2>1, <2>2, <2>4 DEF FinalizerOf, Fresh, Overtaken, FailedLogged
  <2>6. HandlerInv(a)'
    BY <1>t, <2>2, <2>5, <2>a DEF HandlerInv, GateOf, Answered, BookOf, Claimed
  <2> QED
    BY <1>g, <2>2, <2>6 DEF Claimed
<1>4. CASE QueryRefund(a)
  <2>1. admin[a].pc = "query"
    BY <1>4 DEF QueryRefund, At
  <2>2. \/ Finish(a)
        \/ gateway[admin[a].ref] = "done" /\ Goto(a, "settle")
        \/ gateway[admin[a].ref] = "refused" /\ Goto(a, "refuse")
    BY <1>4 DEF QueryRefund
  <2>3. CASE Finish(a)
    <3>1. admin'[a].pc = "idle"
      BY <2>3, HandlerMoves
    <3> QED
      BY <1>g, <3>1, Elsewhere DEF Claimed, Querying
  <2>4. ASSUME NEW pc \in {"settle", "refuse"}, Goto(a, pc),
               pc = "settle" => gateway[admin[a].ref] = "done",
               pc = "refuse" => gateway[admin[a].ref] = "refused"
        PROVE  Inv'
    <3>1. /\ admin'[a].pc = pc /\ admin'[a].ref = admin[a].ref
          /\ admin'[a].held = admin[a].held /\ admin'[a].deduct = admin[a].deduct
      BY <1>a, <2>4 DEF Goto, Plan
    <3>2. FinalizerOf(a)'
      BY <1>t, <2>1, <3>1
      DEF HandlerInv, FinalizerOf, Querying, Fresh, Overtaken, FailedLogged
    <3>a. Answered(admin[a].ref)
      BY <2>1 DEF HandlerInv, GateOf, Querying
    <3>3. HandlerInv(a)'
      BY <1>t, <2>4, <3>1, <3>2, <3>a
      DEF HandlerInv, GateOf, Answered, BookOf, Claimed
    <3> QED
      BY <1>g, <3>1, <3>3 DEF Claimed
  <2> QED
    BY <2>2, <2>3, <2>4
<1> QED
  BY <1>1, <1>2, <1>3, <1>4

\* The owner's claim, and what it knows.
LEMMA OwnerKnows ==
    ASSUME Inv, NEW a \in Admins, admin[a].pc \in Claimed
    PROVE  order.status = "REFUNDING" /\ HandlerInv(a)
BY DEF Inv, OwnerInv

\* What is left to show when the order, its log and the gateway stay.
LEMMA OwnsMoney ==
    ASSUME Inv, NEW a \in Admins, TypeOK', OthersStay(a),
           admin[a].pc \in Claimed,
           UNCHANGED <<order, audit, pending, gateway, attempts, unheard>>,
           ~faults'.lost => taken' \in 0 .. Credit,
           HandlerInv(a)'
    PROVE  Inv'
<1>1. order.status = "REFUNDING"
  BY OwnerKnows
<1>2. GateInv' /\ AttemptInv'
  BY DEF Inv, GateInv, Answered, OnlyLive, NoneLive, Live, AttemptInv
<1>3. BookInv'
  BY <1>1 DEF BookInv, Retryable
<1> QED
  BY <1>1, <1>2, <1>3, Owns DEF GatewayKeeps, Answered

\* ExecuteRefund claims an order that may be refunded.
LEMMA InvClaim ==
    ASSUME Inv, NEW a \in Admins, Claim(a)
    PROVE  Inv'
<1> USE DEF Inv
<1>a. admin \in [Admins -> Plan]
  BY Typing
<1>u. /\ UNCHANGED <<user, faults, funds, active, taken, audit, pending,
                     gateway, attempts, unheard>>
      /\ admin[a].pc = "claim"
  BY DEF Claim, At, fundVars, logVars, gateVars
<1>1. CASE order.status \in Retryable
  <2>1. order' = [order EXCEPT !.status = "REFUNDING"] /\ Goto(a, "deduct")
    BY <1>1 DEF Claim, SetStatus
  <2>2. "deduct" \in Steps /\ "REFUNDING" \in Statuses
    BY DEF Steps, Claimed, Statuses
  <2>3. order' \in Order /\ order'.status = "REFUNDING" /\ order.refund \in 0 .. Credit
    BY <2>1, <2>2, Typing, StatusTyped
  <2>4. /\ admin' \in [Admins -> Plan] /\ OthersStay(a)
        /\ admin'[a].pc = "deduct"
    <3>1. /\ admin' \in [Admins -> Plan] /\ OthersStay(a)
          /\ admin'[a] = [admin[a] EXCEPT !.pc = "deduct"]
      BY <2>1, <2>2, HandlerMoves DEF OthersStay
    <3>2. admin[a] \in Plan
      BY <1>a
    <3> QED
      BY <3>1, <3>2 DEF Plan
  <2>5. TypeOK'
    BY <1>u, <2>3, <2>4, Typing DEF WorldTyped, PlansTyped
  <2>6. NoneLive /\ (~faults.lost => taken = 0 \/ Marked)
    BY <1>1 DEF GateInv, Answered, BookInv
  <2>7. GateInv' /\ AttemptInv'
    BY <1>u, <2>3
    DEF GateInv, Answered, OnlyLive, NoneLive, Live, AttemptInv, Retryable, Refunded
  <2>8. BookInv'
    BY <1>u, <2>3 DEF BookInv, Retryable
  <2>9. HandlerInv(a)'
    BY <1>u, <2>4, <2>6
    DEF HandlerInv, GateOf, Answered, FinalizerOf, BookOf, NoneLive, Live, Marked, Querying
  <2> QED
    BY <1>1, <1>u, <2>3, <2>4, <2>5, <2>7, <2>8, <2>9, Owns DEF GatewayKeeps, Answered
<1>2. CASE order.status \notin Retryable
  <2>1. order' = order /\ Finish(a)
    BY <1>2 DEF Claim
  <2>2. /\ admin' \in [Admins -> Plan] /\ OthersStay(a)
        /\ admin'[a].pc = "idle"
    BY <2>1, HandlerMoves DEF OthersStay
  <2>3. TypeOK'
    BY <1>u, <2>1, <2>2, Typing DEF WorldTyped, PlansTyped
  <2>4. admin'[a].pc \notin Claimed \cup Querying \cup {"detail"}
    BY <2>2 DEF Claimed, Querying
  <2> QED
    BY <1>u, <2>1, <2>2, <2>3, <2>4, Elsewhere, Moves DEF Marked
<1> QED
  BY <1>1, <1>2

\* The deduction is what the plan then holds.
LEMMA InvDeduct ==
    ASSUME Inv, NEW a \in Admins, Deduct(a)
    PROVE  Inv'
<1> USE DEF Inv
<1> DEFINE n == admin[a].deduct
           skip == n = 0 \/ Marked
<1>a. admin \in [Admins -> Plan] /\ n \in 0 .. Credit /\ faults \in Faults
  BY Typing
<1>u. /\ UNCHANGED <<order, user, audit, pending, gateway, attempts, unheard>>
      /\ admin[a].pc = "deduct" /\ admin[a].pc \in Claimed
  BY DEF Deduct, At, logVars, gateVars, Claimed
<1>k. /\ NoneLive /\ (~faults.lost => taken = 0 \/ Marked)
      /\ ~faults.lost => taken \in 0 .. Credit
  BY <1>u DEF HandlerInv, GateOf, Answered, BookOf, BookInv, Claimed
\* What is left to show of each way to go on.
<1>g. ASSUME NEW pc \in {"gateway", "restore"}, NEW t \in 0 .. Credit,
             admin' = [admin EXCEPT ![a].pc = pc, ![a].deduct = t],
             funds' \in Int, active' \in BOOLEAN, taken' \in Int,
             NoFault \/ \E kind : Fault(kind),
             ~faults'.lost =>
                 /\ taken' \in 0 .. Credit
                 /\ pc = "gateway" => Holds(t)'
                 /\ pc = "restore" => taken' = 0 \/ Marked
      PROVE  Inv'
  <2>1. pc \in Steps /\ pc \in Claimed
    BY DEF Steps, Claimed
  <2>2. /\ admin' \in [Admins -> Plan] /\ OthersStay(a)
        /\ admin'[a].pc = pc /\ admin'[a].deduct = t
    BY <1>a, <1>g, <2>1 DEF OthersStay, Plan
  <2>3. faults' \in Faults
    BY <1>a, <1>g, FaultTyped DEF Faults
  <2>4. TypeOK'
    BY <1>u, <1>g, <2>2, <2>3, Typing DEF WorldTyped, PlansTyped
  <2>5. HandlerInv(a)'
    <3>1. GateOf(a)' /\ FinalizerOf(a)'
      BY <1>u, <1>k, <2>2 DEF GateOf, Answered, FinalizerOf, NoneLive, Live, Querying
    <3>2. BookOf(a)'
      BY <1>u, <1>g, <2>2 DEF BookOf, Holds, Marked
    <3> QED
      BY <3>1, <3>2 DEF HandlerInv
  <2> QED
    BY <1>u, <1>g, <2>2, <2>4, <2>5, OwnsMoney
<1>m. Marked' = Marked
  BY <1>u DEF Marked
<1>1. CASE /\ skip /\ NoFault
           /\ admin' = [admin EXCEPT ![a].pc = "gateway", ![a].deduct = 0]
           /\ UNCHANGED fundVars
  <2>1. UNCHANGED <<funds, active, taken>> /\ faults' = faults
    BY <1>1 DEF fundVars, NoFault
  <2>2. funds' \in Int /\ active' \in BOOLEAN /\ taken' \in Int
    BY <2>1, Typing
  <2>3. ~faults'.lost => taken' \in 0 .. Credit /\ Holds(0)'
    <3>1. 0 <= 0 /\ (taken = 0 => taken <= 0)
      OBVIOUS
    <3> QED
      BY <1>k, <1>m, <2>1, <3>1 DEF Holds
  <2>4. 0 \in 0 .. Credit
    BY RefundAssumption
  <2> QED
    BY <1>1, <1>g, <2>2, <2>3, <2>4
<1>2. ASSUME NEW t \in 0 .. Credit,
             IF skip THEN n > 0 /\ Fault("audit") ELSE NoFault,
             Take(n, t),
             admin' = [admin EXCEPT ![a].pc = "gateway", ![a].deduct = t]
      PROVE  Inv'
  <2>1. /\ funds' \in Int /\ active' \in BOOLEAN /\ taken' \in Int
        /\ taken = 0 => /\ taken' \in 0 .. Credit /\ taken' <= t
                        /\ active' => taken' = t
    BY <1>a, <1>2, TakeTyped
  <2>2. skip => faults'.lost
    BY <1>a, <1>2, FaultTyped DEF Faults
  <2>3. ~skip => faults' = faults /\ ~Marked
    BY <1>2 DEF NoFault
  <2>4. ~faults'.lost => taken' \in 0 .. Credit /\ Holds(t)'
    BY <1>k, <1>m, <2>1, <2>2, <2>3 DEF Holds
  <2>5. NoFault \/ \E kind : Fault(kind)
    BY <1>2
  <2> QED
    BY <1>2, <1>g, <2>1, <2>4, <2>5
<1>3. CASE /\ ~skip
           /\ (CannotTake /\ NoFault) \/ Fault("error")
           /\ admin' = [admin EXCEPT ![a].pc = "restore", ![a].deduct = n]
           /\ UNCHANGED fundVars
  <2>1. UNCHANGED <<funds, active, taken>> /\ faults'.lost = faults.lost
    BY <1>a, <1>3, FaultTyped DEF fundVars, Faults
  <2>2. funds' \in Int /\ active' \in BOOLEAN /\ taken' \in Int
    BY <2>1, Typing
  <2>3. NoFault \/ \E kind : Fault(kind)
    BY <1>3
  <2> QED
    BY <1>a, <1>k, <1>3, <1>g, <2>1, <2>2, <2>3
<1>4. ASSUME NEW t \in 0 .. Credit,
             Fault("tail"), Take(n, t),
             admin' = [admin EXCEPT ![a].pc = "restore", ![a].deduct = n]
      PROVE  Inv'
  <2>1. /\ funds' \in Int /\ active' \in BOOLEAN /\ taken' \in Int
    BY <1>a, <1>4, TakeTyped
  <2>2. faults'.lost
    BY <1>a, <1>4, FaultTyped DEF Faults
  <2>3. NoFault \/ \E kind : Fault(kind)
    BY <1>4
  <2> QED
    BY <1>a, <1>4, <1>g, <2>1, <2>2, <2>3
<1> QED
  BY <1>1, <1>2, <1>3, <1>4 DEF Deduct

\* Goto, as the steps of the owner and of a finalizer use it.
LEMMA Goes ==
    ASSUME TypeOK, NEW a \in Admins, NEW pc \in Steps, Goto(a, pc)
    PROVE  /\ admin' \in [Admins -> Plan] /\ OthersStay(a)
           /\ admin'[a].pc = pc /\ admin'[a].ref = admin[a].ref
           /\ admin'[a].deduct = admin[a].deduct
           /\ admin'[a].held = admin[a].held
<1>1. admin \in [Admins -> Plan] /\ admin[a] \in Plan
  BY Typing
<1>2. /\ admin' \in [Admins -> Plan] /\ OthersStay(a)
      /\ admin'[a] = [admin[a] EXCEPT !.pc = pc]
  BY HandlerMoves DEF OthersStay
<1> QED
  BY <1>1, <1>2 DEF Plan

\* A handler that ends leaves the others alone, and nothing to show of itself.
LEMMA Ends ==
    ASSUME TypeOK, NEW a \in Admins, Finish(a)
    PROVE  /\ admin' \in [Admins -> Plan] /\ OthersStay(a)
           /\ admin'[a].pc = "idle" /\ admin'[a].pc \notin Claimed
           /\ HandlerInv(a)'
<1>1. /\ admin' \in [Admins -> Plan] /\ OthersStay(a)
      /\ admin'[a].pc = "idle"
  BY HandlerMoves DEF OthersStay
<1>2. admin'[a].pc \notin Claimed \cup Querying \cup {"detail"}
  BY <1>1 DEF Claimed, Querying
<1> QED
  BY <1>1, <1>2, Elsewhere

\* A log row that is not lost is there.
LEMMA Logs ==
    ASSUME TypeOK, NEW action \in Actions, WriteAuditLog(action)
    PROVE  /\ audit \subseteq audit' /\ audit' \in SUBSET Actions
           /\ faults' \in Faults /\ (faults.lost => faults'.lost)
           /\ action # "REFUND_ROLLBACK_FAILED" => Marked' = Marked
           /\ faults'.lost \/ (action \in audit' /\ faults'.lost = faults.lost)
<1>1. faults \in Faults /\ audit \in SUBSET Actions
  BY Typing
<1>2. CASE audit' = audit \cup {action} /\ NoFault
  BY <1>1, <1>2, FaultTyped DEF Faults, Marked
<1>3. CASE audit' = audit /\ Fault("audit")
  BY <1>1, <1>3, FaultTyped DEF Faults, Marked
<1> QED
  BY <1>2, <1>3 DEF WriteAuditLog

\* The gateway is asked once: of what a handler was told, nothing of the order is
\* paid or may be paid.
LEMMA InvGwRefund ==
    ASSUME Inv, NEW a \in Admins, GwRefund(a)
    PROVE  Inv'
<1> USE DEF Inv
<1>a. /\ admin \in [Admins -> Plan] /\ gateway \in [Refs -> GateStates]
      /\ attempts \in 0 .. MaxAttempts /\ MaxAttempts \in Nat
      /\ unheard \subseteq Refs /\ faults \in Faults
  BY Typing, RefundAssumption
<1>u. /\ UNCHANGED <<order, user, funds, active, taken, audit, pending>>
      /\ admin[a].pc = "gateway" /\ admin[a].pc \in Claimed
  BY DEF GwRefund, At, fundVars, logVars, Claimed
<1>f. NoFault \/ Fault("answer") =>
          faults' \in Faults /\ faults'.lost = faults.lost
  BY <1>a, FaultTyped DEF Faults
<1>k. /\ NoneLive /\ order.status = "REFUNDING"
      /\ ~faults.lost => Holds(admin[a].deduct) /\ taken \in 0 .. Credit
  BY <1>u, OwnerKnows DEF HandlerInv, GateOf, BookOf, BookInv
<1>p. {"ok", "pending", "rollback"} \subseteq Steps \cap Claimed
  BY DEF Steps, Claimed
<1>1. ASSUME NEW pc \in {"ok", "rollback"}, Goto(a, pc), UNCHANGED gateVars,
             pc = "ok" => ~order.trade, NoFault
      PROVE  Inv'
  <2>1. /\ admin' \in [Admins -> Plan] /\ OthersStay(a)
        /\ admin'[a].pc = pc /\ admin'[a].deduct = admin[a].deduct
    BY <1>1, <1>p, Goes
  <2>2. UNCHANGED <<gateway, attempts, unheard>>
    BY <1>1 DEF gateVars
  <2>3. TypeOK' /\ faults'.lost = faults.lost
    BY <1>1, <1>f, <1>u, <2>1, <2>2, Typing DEF WorldTyped, PlansTyped
  <2>4. HandlerInv(a)'
    BY <1>u, <1>k, <1>1, <2>1, <2>2, <2>3
    DEF HandlerInv, GateOf, NoneLive, Live, FinalizerOf, BookOf, Holds, Marked,
        Querying
  <2> QED
    BY <1>u, <1>k, <2>1, <2>2, <2>3, <2>4, OwnsMoney
\* A refund that was requested: the handler goes on with the answer, or with an
\* error of which the refund is noted as unheard.
<1>2. ASSUME attempts < MaxAttempts, attempts' = attempts + 1,
             NEW s \in {"done", "processing", "refused"},
             gateway' = [gateway EXCEPT ![attempts + 1] = s],
             NEW pc \in {"ok", "pending", "rollback"}, OthersStay(a),
             admin' \in [Admins -> Plan],
             admin'[a].pc = pc, admin'[a].deduct = admin[a].deduct,
             pc # "rollback" => admin'[a].ref = attempts + 1,
             \/ unheard' = unheard /\ pc = Dispatch(s)
             \/ unheard' = unheard \cup {attempts + 1} /\ pc = "rollback",
             faults' \in Faults, faults'.lost = faults.lost
      PROVE  Inv'
  <2>r. PICK r \in Refs : r = attempts + 1
    BY <1>a, <1>2 DEF Refs
  <2>1. /\ r \in Refs /\ r \in 0 .. MaxAttempts /\ pc \in Steps \cap Claimed
        /\ pc = "ok" => s = "done"
        /\ pc # "rollback" => unheard' = unheard
        /\ pc = "rollback" => s = "refused" \/ r \in unheard'
        /\ unheard \subseteq unheard' /\ unheard' \subseteq unheard \cup {r}
    BY <1>a, <1>2, <1>p, <2>r DEF Dispatch
  <2>4. /\ gateway' \in [Refs -> GateStates] /\ gateway'[r] = s
        /\ \A q \in Refs \ {r} : gateway'[q] = gateway[q]
        /\ gateway[r] = "none"
    BY <1>a, <1>2, <2>r, <2>1 DEF GateStates, AttemptInv
  <2>5. TypeOK'
    BY <1>a, <1>u, <1>2, <2>r, <2>1, <2>4, Typing DEF WorldTyped, PlansTyped
  <2>6. GatewayKeeps
    <3>1. \A q \in Refs : Answered(q) => q # r /\ q <= attempts'
      BY <1>a, <1>2, <2>r DEF Answered, Refs
    <3> QED
      BY <2>1, <2>4, <3>1 DEF GatewayKeeps, Answered
  <2>7. OnlyLive(r)' /\ (pc = "rollback" => NoneLive')
    BY <1>k, <2>1, <2>4 DEF OnlyLive, NoneLive, Live
  <2>8. AttemptInv'
    <3> SUFFICES ASSUME NEW q \in Refs, q > attempts + 1
                 PROVE  gateway'[q] = "none" /\ q \notin unheard'
      BY <1>2 DEF AttemptInv
    <3>1. q # r /\ q > attempts
      BY <1>a, <2>r DEF Refs
    <3> QED
      BY <2>1, <2>4, <3>1 DEF AttemptInv
  <2>9. GateInv'
    <3>1. \E q \in Refs : OnlyLive(q)'
      BY <2>1, <2>7
    <3> QED
      BY <1>u, <1>k, <3>1 DEF GateInv, Retryable, Refunded
  <2>10. BookInv'
    BY <1>u, <1>k, <1>2 DEF BookInv, Retryable
  <2>a. r \notin unheard => Answered(r)' \/ pc = "rollback"
    BY <1>a, <1>2, <2>r, <2>1 DEF Answered
  <2>b. r \notin unheard
    BY <1>a, <2>r DEF AttemptInv
  <2>11. HandlerInv(a)'
    BY <1>u, <1>k, <1>2, <2>r, <2>1, <2>4, <2>7, <2>a, <2>b
    DEF HandlerInv, GateOf, FinalizerOf, BookOf, Holds, Marked, Querying, Claimed
  <2> QED
    BY <1>u, <1>k, <1>2, <2>1, <2>5, <2>6, <2>8, <2>9, <2>10, <2>11, Owns
<1>3. ASSUME attempts < MaxAttempts, attempts' = attempts + 1,
             NEW s \in {"done", "processing", "refused"},
             gateway' = [gateway EXCEPT ![attempts + 1] = s],
             \/ /\ admin' = [admin EXCEPT ![a].ref = attempts + 1,
                                         ![a].pc = Dispatch(s)]
                /\ unheard' = unheard /\ NoFault
             \/ /\ s # "refused" /\ Goto(a, "rollback")
                /\ unheard' = unheard \cup {attempts + 1}
                /\ Fault("answer")
      PROVE  Inv'
  <2>1. CASE /\ admin' = [admin EXCEPT ![a].ref = attempts + 1,
                                       ![a].pc = Dispatch(s)]
             /\ unheard' = unheard /\ NoFault
    <3>1. /\ Dispatch(s) \in {"ok", "pending", "rollback"}
          /\ Dispatch(s) \in Steps /\ attempts + 1 \in Refs
      BY <1>a, <1>3, <1>p DEF Dispatch, Refs
    <3>2. /\ admin' \in [Admins -> Plan] /\ OthersStay(a)
          /\ admin'[a].pc = Dispatch(s) /\ admin'[a].ref = attempts + 1
          /\ admin'[a].deduct = admin[a].deduct
      BY <1>a, <2>1, <3>1 DEF OthersStay, Plan
    <3> QED
      BY <1>2, <1>3, <1>f, <2>1, <3>1, <3>2
  <2>2. CASE /\ Goto(a, "rollback") /\ Fault("answer")
             /\ unheard' = unheard \cup {attempts + 1}
    <3>1. /\ admin' \in [Admins -> Plan] /\ OthersStay(a)
          /\ admin'[a].pc = "rollback" /\ admin'[a].deduct = admin[a].deduct
      BY <1>p, <2>2, Goes
    <3> QED
      BY <1>2, <1>3, <1>f, <2>2, <3>1
  <2> QED
    BY <1>3, <2>1, <2>2
<1> QED
  BY <1>1, <1>3 DEF GwRefund

\* The order is refunded, or its refund is pending.
LEMMA InvAccepted ==
    ASSUME Inv, NEW a \in Admins, MarkRefundOk(a) \/ MarkRefundPending(a)
    PROVE  Inv'
<1> USE DEF Inv
<1>a. /\ admin \in [Admins -> Plan] /\ admin[a] \in Plan
      /\ admin[a].amount \in 0 .. Credit /\ admin[a].deduct \in 0 .. Credit
      /\ admin[a].ref \in Refs
  BY Typing
<1>u. /\ UNCHANGED <<user, funds, active, taken, gateway, attempts, unheard>>
      /\ Finish(a) /\ admin[a].pc \in {"ok", "pending"}
      /\ admin[a].pc \in Claimed
  BY DEF MarkRefundOk, MarkRefundPending, At, fundVars, gateVars, Claimed
<1>e. /\ admin' \in [Admins -> Plan] /\ OthersStay(a)
      /\ admin'[a].pc \notin Claimed /\ HandlerInv(a)'
  BY <1>u, Ends
<1>k. /\ order.status = "REFUNDING" /\ GateOf(a)
      /\ \E s \in Refs : OnlyLive(s)
      /\ ~faults.lost => Holds(admin[a].deduct) /\ taken \in 0 .. Credit
  BY <1>u, OwnerKnows DEF HandlerInv, BookOf, BookInv, GateInv, Answered
<1>g. AttemptInv' /\ GatewayKeeps /\ (\E s \in Refs : OnlyLive(s)')
      /\ \A s : OnlyLive(s)' = OnlyLive(s)
  BY <1>u, <1>k DEF AttemptInv, GatewayKeeps, OnlyLive, Live, Answered
<1>1. CASE MarkRefundOk(a)
  <2>1. /\ WriteAuditLog("REFUND_SUCCESS") /\ pending' = pending
        /\ order' = [order EXCEPT
                       !.status = IF admin[a].amount < Credit
                                  THEN "PARTIALLY_REFUNDED" ELSE "REFUNDED",
                       !.refund = admin[a].amount]
    BY <1>1 DEF MarkRefundOk
  <2>2. PICK s \in Refunded :
            order' = [order EXCEPT !.status = s, !.refund = admin[a].amount]
    BY <2>1 DEF Refunded
  <2>3. s \in Statuses
    BY DEF Refunded, Statuses
  <2>4. order' \in Order /\ order'.status = s /\ order'.trade = order.trade
    BY <1>a, <2>2, <2>3, StatusTyped
  <2>5. /\ audit \subseteq audit' /\ audit' \in SUBSET Actions
        /\ faults' \in Faults /\ (faults.lost => faults'.lost)
    BY <2>1, Logs DEF Actions
  <2>6. TypeOK'
    BY <1>u, <1>e, <2>1, <2>4, <2>5, Typing DEF WorldTyped, PlansTyped
  <2>7. GateInv'
    <3>1. admin[a].pc = "ok"
      BY <1>1 DEF MarkRefundOk, At
    <3>2. order.trade => /\ admin[a].ref \in Refs \ unheard
                         /\ gateway[admin[a].ref] = "done"
      BY <1>a, <1>k, <3>1 DEF GateOf, Answered
    <3> QED
      BY <1>u, <1>a, <1>g, <2>4, <3>2 DEF GateInv, Answered, Refunded, Retryable
  <2>8. BookInv'
    BY <1>u, <1>k, <2>4, <2>5 DEF BookInv, Refunded, Retryable
  <2> QED
    BY <1>u, <1>e, <1>g, <2>1, <2>5, <2>6, <2>7, <2>8, Owns
<1>2. CASE /\ MarkRefundPending(a) /\ Insertable({"REFUND_PENDING"})
  <2>1. /\ order' = [order EXCEPT !.status = "REFUND_PENDING",
                                  !.refund = admin[a].amount]
        /\ audit' = audit \cup {"REFUND_PENDING"} /\ faults' = faults
        /\ pending' = [held |-> TRUE, rolledBack |-> TRUE,
                       deduct |-> admin[a].deduct, ref |-> admin[a].ref]
        /\ admin[a].pc = "pending"
    BY <1>2 DEF MarkRefundPending, At
  <2>2. "REFUND_PENDING" \in Statuses \cap Actions
    BY DEF Statuses, Actions
  <2>3. order' \in Order /\ order'.status = "REFUND_PENDING"
    BY <1>a, <2>1, <2>2, StatusTyped
  <2>4. pending' \in Detail
    BY <1>a, <2>1 DEF Detail
  <2>5. TypeOK'
    BY <1>u, <1>e, <2>1, <2>2, <2>3, <2>4, Typing DEF WorldTyped, PlansTyped
  <2>6. GateInv'
    <3>1. OnlyLive(admin[a].ref) /\ Answered(admin[a].ref)
      BY <1>k, <2>1 DEF GateOf
    <3> QED
      BY <1>u, <1>g, <2>1, <2>3, <3>1 DEF GateInv, Answered, Refunded, Retryable
  <2>7. BookInv'
    <3>1. Marked' = Marked
      BY <2>1 DEF Marked
    <3> QED
      BY <1>u, <1>k, <2>1, <2>3, <3>1 DEF BookInv, Holds, Retryable
  <2> QED
    BY <1>u, <1>e, <1>g, <2>1, <2>3, <2>5, <2>6, <2>7, Owns
<1>3. CASE /\ MarkRefundPending(a) /\ ~Insertable({"REFUND_PENDING"})
  <2>1. UNCHANGED <<order, audit, pending, faults>>
    BY <1>3 DEF MarkRefundPending, logVars
  <2>2. TypeOK'
    BY <1>u, <1>e, <2>1, Typing DEF WorldTyped, PlansTyped
  <2> QED
    BY <1>u, <1>k, <1>e, <2>1, <2>2, OwnsMoney
<1> QED
  BY <1>1, <1>2, <1>3

\* What was taken is given back when the gateway refused.
LEMMA InvRollback ==
    ASSUME Inv, NEW a \in Admins, RollbackRefund(a)
    PROVE  Inv'
<1> USE DEF Inv
<1> DEFINE n == admin[a].deduct
<1>a. n \in 0 .. Credit /\ faults \in Faults /\ taken \in Int /\ Credit \in Nat
  BY Typing, RefundAssumption
<1>u. /\ UNCHANGED <<order, user, audit, pending, gateway, attempts, unheard>>
      /\ admin[a].pc = "rollback" /\ admin[a].pc \in Claimed
  BY DEF RollbackRefund, At, logVars, gateVars, Claimed
<1>k. /\ NoneLive
      /\ ~faults.lost => Holds(n) /\ taken \in 0 .. Credit
  BY <1>u, OwnerKnows DEF HandlerInv, GateOf, Answered, BookOf, BookInv
<1>p. {"restore", "mark"} \subseteq Steps \cap Claimed
  BY DEF Steps, Claimed
\* What is left to show of each way to go on.
<1>g. ASSUME NEW pc \in {"restore", "mark"}, Goto(a, pc),
             funds' \in Int, active' \in BOOLEAN, taken' \in Int,
             NoFault \/ \E kind : Fault(kind),
             ~faults'.lost => taken' \in 0 .. Credit,
             pc = "restore" => (~faults'.lost => taken' = 0 \/ Marked)
      PROVE  Inv'
  <2>1. /\ admin' \in [Admins -> Plan] /\ OthersStay(a)
        /\ admin'[a].pc = pc
    BY <1>g, <1>p, Goes
  <2>2. faults' \in Faults
    BY <1>a, <1>g, FaultTyped DEF Faults
  <2>3. TypeOK'
    BY <1>u, <1>g, <2>1, <2>2, Typing DEF WorldTyped, PlansTyped
  <2>4. HandlerInv(a)'
    BY <1>u, <1>k, <1>g, <2>1
    DEF HandlerInv, GateOf, Answered, NoneLive, Live, FinalizerOf, BookOf, Marked, Querying
  <2> QED
    BY <1>u, <1>g, <2>1, <2>3, <2>4, OwnsMoney
<1>1. CASE Return(n) /\ Goto(a, "restore") /\ NoFault
  <2>1. /\ funds' \in Int /\ active' \in BOOLEAN /\ taken' \in Int
        /\ taken' = taken - n /\ (n > 0 => active)
    BY <1>a, <1>1, ReturnTyped
  <2>2. ASSUME ~faults'.lost
        PROVE  taken' \in 0 .. Credit /\ (taken' = 0 \/ Marked)
    <3>1. Holds(n) /\ taken \in 0 .. Credit
      BY <1>k, <1>1, <2>2 DEF NoFault
    <3>2. CASE Marked
      BY <1>a, <2>1, <3>1, <3>2 DEF Holds
    <3>3. CASE ~Marked
      <4>1. taken <= n /\ (n > 0 => taken = n)
        BY <2>1, <3>1, <3>3 DEF Holds
      <4>2. taken = n
        BY <1>a, <3>1, <4>1
      <4> QED
        BY <1>a, <2>1, <4>2
    <3> QED
      BY <3>2, <3>3
  <2> QED
    BY <1>1, <1>g, <2>1, <2>2
<1>2. CASE /\ (~active /\ NoFault) \/ Fault("error")
           /\ Goto(a, "mark") /\ UNCHANGED fundVars
  <2>1. UNCHANGED <<funds, active, taken>> /\ faults'.lost = faults.lost
    BY <1>a, <1>2, FaultTyped DEF fundVars, Faults
  <2>2. funds' \in Int /\ active' \in BOOLEAN /\ taken' \in Int
    BY <2>1, Typing
  <2>3. NoFault \/ \E kind : Fault(kind)
    BY <1>2
  <2> QED
    BY <1>k, <1>2, <1>g, <2>1, <2>2, <2>3
<1>3. CASE Fault("tail") /\ Return(n) /\ Goto(a, "mark")
  <2>1. funds' \in Int /\ active' \in BOOLEAN /\ taken' \in Int
    BY <1>a, <1>3, ReturnTyped
  <2>2. faults'.lost
    BY <1>a, <1>3, FaultTyped DEF Faults
  <2>3. NoFault \/ \E kind : Fault(kind)
    BY <1>3
  <2> QED
    BY <1>3, <1>g, <2>1, <2>2, <2>3
<1> QED
  BY <1>1, <1>2, <1>3 DEF RollbackRefund

\* The order leaves REFUNDING for a status in which it may be refunded again:
\* nothing is taken then, or it is marked.
LEMMA OwnerGivesUp ==
    ASSUME Inv, NEW a \in Admins,
           admin[a].pc \in Claimed \ {"ok", "pending"},
           NEW s \in Retryable, SetStatus(s),
           OthersStay(a), admin' \in [Admins -> Plan],
           admin'[a].pc \notin Claimed, HandlerInv(a)',
           UNCHANGED <<user, funds, active, taken, audit, pending, gateway,
                       attempts, unheard>>,
           faults' \in Faults, faults.lost => faults'.lost,
           ~faults.lost => taken = 0 \/ Marked
    PROVE  Inv'
<1> USE DEF Inv
<1>1. s \in Statuses /\ order.refund \in 0 .. Credit
  BY Typing DEF Retryable, Statuses
<1>2. order' \in Order /\ order'.status = s
  BY <1>1, StatusTyped DEF SetStatus
<1>3. TypeOK'
  BY <1>2, Typing DEF WorldTyped, PlansTyped
<1>4. NoneLive /\ order.status = "REFUNDING"
  BY OwnerKnows DEF HandlerInv, GateOf, Answered
<1>5. GateInv' /\ AttemptInv'
  BY <1>2, <1>4
  DEF GateInv, Answered, AttemptInv, OnlyLive, NoneLive, Live, Retryable, Refunded
<1>6. BookInv'
  BY <1>2 DEF BookInv, Marked, Retryable
<1> QED
  BY <1>2, <1>3, <1>5, <1>6, Owns DEF GatewayKeeps, Answered

\* The way out of a failed refund, in its four steps.
LEMMA InvFailed ==
    ASSUME Inv, NEW a \in Admins,
           \/ RestoreStatus(a) \/ MarkRollbackFailed(a)
           \/ MarkRefundFailed(a) \/ LogRefundFailed(a)
    PROVE  Inv'
<1> USE DEF Inv
<1>f. faults \in Faults
  BY Typing
<1>1. CASE RestoreStatus(a)
  <2>1. /\ admin[a].pc = "restore" /\ Finish(a)
        /\ UNCHANGED <<user, faults, funds, active, taken, audit, pending,
                       gateway, attempts, unheard>>
        /\ SetStatus("REFUND_REQUESTED") \/ SetStatus("COMPLETED")
    BY <1>1 DEF RestoreStatus, At, fundVars, logVars, gateVars
  <2>2. /\ admin' \in [Admins -> Plan] /\ OthersStay(a)
        /\ admin'[a].pc \notin Claimed /\ HandlerInv(a)'
    BY <2>1, Ends
  <2>3. /\ admin[a].pc \in Claimed \ {"ok", "pending"}
        /\ {"REFUND_REQUESTED", "COMPLETED"} \subseteq Retryable
    BY <2>1 DEF Claimed, Retryable
  <2>4. ~faults.lost => taken = 0 \/ Marked
    BY <2>1 DEF HandlerInv, BookOf
  <2> QED
    BY <1>f, <2>1, <2>2, <2>3, <2>4, OwnerGivesUp
<1>2. CASE MarkRollbackFailed(a)
  <2>1. /\ admin[a].pc = "mark" /\ Goto(a, "failed")
        /\ UNCHANGED <<order, user, pending, funds, active, taken, gateway,
                       attempts, unheard>>
        /\ WriteAuditLog("REFUND_ROLLBACK_FAILED")
    BY <1>2 DEF MarkRollbackFailed, At, fundVars, gateVars
  <2>2. "failed" \in Steps /\ "REFUND_ROLLBACK_FAILED" \in Actions
        /\ admin[a].pc \in Claimed
    BY <2>1 DEF Steps, Claimed, Actions
  <2>3. /\ admin' \in [Admins -> Plan] /\ OthersStay(a)
        /\ admin'[a].pc = "failed"
    BY <2>1, <2>2, Goes
  <2>4. /\ audit \subseteq audit' /\ audit' \in SUBSET Actions
        /\ faults' \in Faults /\ (faults.lost => faults'.lost)
        /\ ~faults'.lost => Marked'
    BY <2>1, <2>2, Logs DEF Marked
  <2>5. TypeOK'
    BY <2>1, <2>3, <2>4, Typing DEF WorldTyped, PlansTyped
  <2>6. /\ NoneLive /\ order.status = "REFUNDING"
        /\ ~faults.lost => taken \in 0 .. Credit
    BY <2>1, <2>2, OwnerKnows DEF HandlerInv, GateOf, Answered, BookInv
  <2>7. GateInv' /\ AttemptInv'
    BY <2>1 DEF GateInv, Answered, AttemptInv, OnlyLive, NoneLive, Live
  <2>8. BookInv'
    BY <2>1, <2>4, <2>6 DEF BookInv, Retryable
  <2>9. HandlerInv(a)'
    BY <2>1, <2>3, <2>4, <2>6
    DEF HandlerInv, GateOf, Answered, NoneLive, Live, FinalizerOf, BookOf, Querying
  <2> QED
    BY <2>1, <2>2, <2>3, <2>4, <2>5, <2>6, <2>7, <2>8, <2>9, Owns
    DEF GatewayKeeps, Answered
<1>3. CASE MarkRefundFailed(a)
  <2>1. /\ admin[a].pc = "failed" /\ Goto(a, "log")
        /\ UNCHANGED <<user, funds, active, taken, audit, pending, gateway,
                       attempts, unheard>>
        /\ \/ SetStatus("REFUND_FAILED") /\ NoFault
           \/ order' = order /\ Fault("error")
    BY <1>3 DEF MarkRefundFailed, At, fundVars, logVars, gateVars
  <2>2. /\ "log" \in Steps /\ "REFUND_FAILED" \in Retryable
        /\ admin[a].pc \in Claimed \ {"ok", "pending"}
        /\ "log" \notin Claimed \cup Querying \cup {"detail"}
    BY <2>1 DEF Steps, Claimed, Retryable, Querying
  <2>3. /\ admin' \in [Admins -> Plan] /\ OthersStay(a)
        /\ admin'[a].pc = "log"
    BY <2>1, <2>2, Goes
  <2>4. HandlerInv(a)' /\ admin'[a].pc \notin Claimed
    BY <2>2, <2>3, Elsewhere
  <2>5. ~faults.lost => Marked /\ taken \in 0 .. Credit
    BY <2>1 DEF HandlerInv, BookOf, BookInv
  <2>6. faults' \in Faults /\ faults'.lost = faults.lost
    BY <1>f, <2>1, FaultTyped DEF Faults
  <2>7. CASE SetStatus("REFUND_FAILED")
    BY <2>1, <2>2, <2>3, <2>4, <2>5, <2>6, <2>7, OwnerGivesUp
  <2>8. CASE order' = order
    <3>1. TypeOK'
      BY <2>1, <2>3, <2>6, <2>8, Typing DEF WorldTyped, PlansTyped
    <3> QED
      BY <2>1, <2>2, <2>3, <2>4, <2>5, <2>6, <2>8, <3>1, OwnsMoney
  <2> QED
    BY <2>1, <2>7, <2>8
<1>4. CASE LogRefundFailed(a)
  <2>1. /\ Finish(a) /\ WriteAuditLog("REFUND_FAILED")
        /\ UNCHANGED <<order, user, pending, funds, active, taken, gateway,
                       attempts, unheard>>
    BY <1>4 DEF LogRefundFailed, fundVars, gateVars
  <2>2. /\ admin' \in [Admins -> Plan] /\ OthersStay(a)
        /\ admin'[a].pc \notin Claimed /\ HandlerInv(a)'
    BY <2>1, Ends
  <2>3. /\ audit \subseteq audit' /\ audit' \in SUBSET Actions
        /\ faults' \in Faults /\ (faults.lost => faults'.lost)
        /\ Marked' = Marked
    BY <2>1, Logs DEF Actions
  <2>4. TypeOK'
    BY <2>1, <2>2, <2>3, Typing DEF WorldTyped, PlansTyped
  <2> QED
    BY <2>1, <2>2, <2>3, <2>4, Moves
<1> QED
  BY <1>1, <1>2, <1>3, <1>4

\* A finalizer that changes nothing but its own step.
LEMMA FinalizerStays ==
    ASSUME Inv, NEW a \in Admins, OthersStay(a), admin' \in [Admins -> Plan],
           UNCHANGED <<order, user, funds, active, taken, audit, pending,
                       gateway, attempts, unheard>>,
           faults' \in Faults, faults.lost => faults'.lost,
           admin'[a].pc \notin Claimed, HandlerInv(a)'
    PROVE  Inv'
<1>1. TypeOK' /\ Marked' = Marked
  BY Typing DEF Inv, WorldTyped, PlansTyped, Marked
<1> QED
  BY <1>1, Moves

\* The pending refund was paid.
LEMMA InvSettle ==
    ASSUME Inv, NEW a \in Admins, FinalizePendingRefundSuccess(a)
    PROVE  Inv'
<1> USE DEF Inv
<1> DEFINE n == IF admin[a].held THEN 0 ELSE admin[a].deduct
<1>a. /\ n \in 0 .. Credit /\ faults \in Faults /\ admin[a].ref \in Refs
      /\ admin[a].deduct \in 0 .. Credit
  BY Typing, RefundAssumption
<1>u. /\ UNCHANGED <<user, pending, faults, gateway, attempts, unheard>>
      /\ Finish(a) /\ admin[a].pc = "settle"
  BY DEF FinalizePendingRefundSuccess, At, gateVars
<1>e. /\ admin' \in [Admins -> Plan] /\ OthersStay(a)
      /\ admin'[a].pc = "idle" /\ admin'[a].pc \notin Claimed
      /\ HandlerInv(a)'
  BY <1>u, Ends
<1>1. CASE UNCHANGED <<order, audit, fundVars>>
  <2>1. UNCHANGED <<funds, active, taken>>
    BY <1>1 DEF fundVars
  <2> QED
    BY <1>a, <1>u, <1>e, <1>1, <2>1, FinalizerStays
<1>2. ASSUME order.status = "REFUND_PENDING",
             order' = [order EXCEPT
                         !.status = IF admin[a].amount < Credit
                                    THEN "PARTIALLY_REFUNDED" ELSE "REFUNDED"],
             audit' = audit \cup {"REFUND_SUCCESS"},
             IF n = 0 THEN UNCHANGED fundVars
                      ELSE \E t \in 0 .. Credit : Take(n, t)
      PROVE  Inv'
  <2>1. PICK s \in Refunded : order' = [order EXCEPT !.status = s]
    BY <1>2 DEF Refunded
  <2>2. s \in Statuses /\ order.refund \in 0 .. Credit
        /\ "REFUND_SUCCESS" \in Actions
    BY Typing DEF Refunded, Statuses, Actions
  <2>3. order' \in Order /\ order'.status = s
    BY <2>1, <2>2, StatusTyped
  <2>4. gateway[admin[a].ref] = "done" /\ admin[a].ref \notin unheard
    BY <1>u DEF HandlerInv, GateOf, Answered, Querying
  <2>5. Fresh(a)
    BY <1>u, <1>2, <2>4
    DEF HandlerInv, FinalizerOf, Querying, Overtaken, Refunded
  <2>6. ~faults.lost => taken \in 0 .. Credit /\ (n > 0 => taken = 0)
    <3>1. n > 0 => ~pending.held /\ pending.rolledBack
      BY <1>a, <2>5 DEF Fresh
    <3> QED
      BY <1>2, <3>1 DEF BookInv
  <2>7. /\ funds' \in Int /\ active' \in BOOLEAN /\ taken' \in Int
        /\ ~faults.lost => taken' \in 0 .. Credit
    <3>1. CASE n = 0
      <4>1. UNCHANGED <<funds, active, taken>>
        BY <1>2, <3>1 DEF fundVars
      <4> QED
        BY <2>6, <4>1, Typing
    <3>2. CASE n # 0
      <4>1. PICK t \in 0 .. Credit : Take(n, t)
        BY <1>2, <3>2
      <4>2. /\ funds' \in Int /\ active' \in BOOLEAN /\ taken' \in Int
            /\ taken = 0 => taken' \in 0 .. Credit
        BY <1>a, <4>1, TakeTyped
      <4>3. n > 0
        BY <1>a, <3>2
      <4> QED
        BY <2>6, <4>2, <4>3
    <3> QED
      BY <3>1, <3>2
  <2>8. TypeOK'
    BY <1>u, <1>e, <1>2, <2>2, <2>3, <2>7, Typing DEF WorldTyped, PlansTyped
  <2>9. BookInv'
    BY <1>u, <2>3, <2>7 DEF BookInv, Refunded, Retryable
  <2> QED
    BY <1>a, <1>u, <1>e, <1>2, <2>3, <2>4, <2>8, <2>9, Finalizes
<1> QED
  BY <1>1, <1>2 DEF FinalizePendingRefundSuccess

\* The pending refund was refused.
LEMMA InvRefuse ==
    ASSUME Inv, NEW a \in Admins, FinalizeRefundFailed(a) \/ FinalizeUnreturned(a)
    PROVE  Inv'
<1> USE DEF Inv
<1> DEFINE n == IF admin[a].held THEN admin[a].deduct ELSE 0
<1>a. /\ n \in 0 .. Credit /\ faults \in Faults /\ admin[a].ref \in Refs
      /\ taken \in Int /\ Credit \in Nat
  BY Typing, RefundAssumption
<1>u. /\ UNCHANGED <<user, pending, gateway, attempts, unheard>>
      /\ admin[a].pc \in {"refuse", "unreturned"}
  BY DEF FinalizeRefundFailed, FinalizeUnreturned, At, gateVars
<1>r. gateway[admin[a].ref] = "refused"
  BY <1>u DEF HandlerInv, GateOf, Answered
<1>s. /\ "REFUND_FAILED" \in Statuses \cap Actions \cap Retryable
      /\ "REFUND_ROLLBACK_FAILED" \in Actions
  BY DEF Statuses, Actions, Retryable
\* Nobody has logged the failure yet: the handler is fresh.
<1>f. ASSUME order.status = "REFUND_PENDING", ~FailedLogged
      PROVE  /\ Fresh(a) /\ gateway[pending.ref] = "refused"
             /\ ~faults.lost =>
                    /\ taken \in 0 .. Credit
                    /\ admin[a].held => Holds(n)
                    /\ ~admin[a].held => taken = 0 \/ Marked
  <2>1. Fresh(a)
    BY <1>u, <1>f
    DEF HandlerInv, FinalizerOf, Querying, Overtaken, Refunded
  <2>2. gateway[pending.ref] = "refused"
    BY <1>r, <2>1 DEF Fresh
  <2>3. ~faults.lost =>
            /\ taken \in 0 .. Credit
            /\ IF pending.held THEN Holds(pending.deduct)
               ELSE taken = 0 \/ (Marked /\ ~pending.rolledBack)
    BY <1>f DEF BookInv
  <2> QED
    BY <2>1, <2>2, <2>3 DEF Fresh
\* What is left to show when the order fails.
<1>g. ASSUME order.status = "REFUND_PENDING", ~FailedLogged, SetStatus("REFUND_FAILED"),
             NEW rows \in SUBSET Actions, "REFUND_FAILED" \in rows,
             audit' = audit \cup rows, Finish(a), faults' = faults,
             funds' \in Int, active' \in BOOLEAN, taken' \in Int,
             ~faults.lost => taken' \in 0 .. Credit /\ (taken' = 0 \/ Marked')
      PROVE  Inv'
  <2>1. /\ admin' \in [Admins -> Plan] /\ OthersStay(a)
        /\ admin'[a].pc = "idle"
    BY <1>g, Ends
  <2>2. order' \in Order /\ order'.status = "REFUND_FAILED"
    <3>1. order.refund \in 0 .. Credit
      BY Typing
    <3> QED
      BY <1>g, <1>s, <3>1, StatusTyped DEF SetStatus
  <2>3. /\ audit \subseteq audit' /\ audit' \in SUBSET Actions /\ FailedLogged'
    BY <1>g, Typing DEF FailedLogged
  <2>4. TypeOK'
    BY <1>a, <1>u, <1>g, <2>1, <2>2, <2>3, Typing DEF WorldTyped, PlansTyped
  <2>5. BookInv'
    BY <1>g, <2>2 DEF BookInv, Retryable
  <2>6. gateway[pending.ref] = "refused"
    BY <1>f, <1>g
  <2> QED
    BY <1>u, <1>g, <2>1, <2>2, <2>3, <2>4, <2>5, <2>6, Finalizes
\* ...and when it does not.
<1>h. ASSUME UNCHANGED <<order, audit, fundVars>>, Finish(a), faults' = faults
      PROVE  Inv'
  <2>1. /\ admin' \in [Admins -> Plan] /\ OthersStay(a)
        /\ admin'[a].pc \notin Claimed /\ HandlerInv(a)'
    BY <1>h, Ends
  <2>2. UNCHANGED <<funds, active, taken>>
    BY <1>h DEF fundVars
  <2> QED
    BY <1>a, <1>u, <1>h, <2>1, <2>2, FinalizerStays
<1>1. CASE FinalizeRefundFailed(a)
  <2>1. CASE /\ order.status = "REFUND_PENDING" /\ Insertable({"REFUND_FAILED"})
             /\ NoFault /\ SetStatus("REFUND_FAILED") /\ Return(n)
             /\ audit' = audit \cup {"REFUND_FAILED"} /\ Finish(a)
    <3>1. ~FailedLogged /\ faults' = faults
      BY <2>1 DEF Insertable, FailedLogged, NoFault
    <3>2. /\ funds' \in Int /\ active' \in BOOLEAN /\ taken' \in Int
          /\ taken' = taken - n /\ (n > 0 => active) /\ (n = 0 => taken' = taken)
      BY <1>a, <2>1, ReturnTyped
    <3>3. Marked' = Marked
      BY <2>1 DEF Marked
    <3>4. ASSUME ~faults.lost
          PROVE  taken' \in 0 .. Credit /\ (taken' = 0 \/ Marked')
      <4>1. CASE ~admin[a].held
        BY <1>f, <2>1, <3>1, <3>2, <3>3, <3>4, <4>1
      <4>2. CASE admin[a].held
        <5>1. Holds(n) /\ taken \in 0 .. Credit
          BY <1>f, <2>1, <3>1, <3>4, <4>2
        <5>2. CASE Marked
          BY <3>2, <3>3, <5>1, <5>2 DEF Holds
        <5>3. CASE ~Marked
          <6>1. taken <= n /\ (n > 0 => taken = n)
            BY <3>2, <5>1, <5>3 DEF Holds
          <6>2. taken = n
            BY <1>a, <5>1, <6>1
          <6> QED
            BY <1>a, <3>2, <6>2
        <5> QED
          BY <5>2, <5>3
      <4> QED
        BY <4>1, <4>2
    <3>5. {"REFUND_FAILED"} \in SUBSET Actions
      BY <1>s
    <3> QED
      BY <1>g, <2>1, <3>1, <3>2, <3>4, <3>5
  <2>2. CASE /\ Goto(a, "unreturned")
             /\ NoFault \/ Fault("error")
             /\ UNCHANGED <<order, audit, fundVars>>
    <3>1. "unreturned" \in Steps \ Claimed
      BY DEF Steps, Claimed
    <3>2. /\ admin' \in [Admins -> Plan] /\ OthersStay(a)
          /\ admin'[a].pc = "unreturned" /\ admin'[a].ref = admin[a].ref
          /\ admin'[a].deduct = admin[a].deduct /\ admin'[a].held = admin[a].held
      BY <2>2, <3>1, Goes
    <3>3. UNCHANGED <<funds, active, taken>> /\ UNCHANGED <<order, audit>>
      BY <2>2 DEF fundVars
    <3>4. FinalizerOf(a)'
      BY <1>u, <3>2, <3>3
      DEF HandlerInv, FinalizerOf, Querying, Fresh, Overtaken, FailedLogged
    <3>5. HandlerInv(a)'
      <4>1. Answered(admin[a].ref)
        BY <1>u, <1>r DEF HandlerInv, GateOf, Querying
      <4>2. Answered(admin[a].ref)'
        BY <4>1, <3>2, <1>u DEF Answered
      <4> QED
        BY <1>u, <1>r, <3>2, <3>4, <4>1, <4>2 DEF HandlerInv, GateOf, BookOf, Claimed
    <3>6. faults' \in Faults /\ faults'.lost = faults.lost
      BY <1>a, <2>2, FaultTyped DEF Faults
    <3> QED
      BY <1>u, <3>1, <3>2, <3>3, <3>5, <3>6, FinalizerStays
  <2>3. CASE NoFault /\ Finish(a) /\ UNCHANGED <<order, audit, fundVars>>
    BY <1>h, <2>3 DEF NoFault
  <2> QED
    BY <1>1, <2>1, <2>2, <2>3 DEF FinalizeRefundFailed
<1>2. CASE FinalizeUnreturned(a)
  <2>1. Finish(a) /\ faults' = faults /\ UNCHANGED fundVars
    BY <1>2 DEF FinalizeUnreturned
  <2>2. CASE /\ order.status = "REFUND_PENDING"
             /\ Insertable({"REFUND_ROLLBACK_FAILED", "REFUND_FAILED"})
             /\ SetStatus("REFUND_FAILED")
             /\ audit' = audit \cup {"REFUND_ROLLBACK_FAILED", "REFUND_FAILED"}
    <3>1. ~FailedLogged /\ Marked'
      BY <2>2 DEF Insertable, FailedLogged, Marked
    <3>2. /\ UNCHANGED <<funds, active, taken>>
          /\ funds \in Int /\ active \in BOOLEAN
      BY <2>1, Typing DEF fundVars
    <3>3. ~faults.lost => taken' \in 0 .. Credit
      BY <1>f, <2>2, <3>1, <3>2
    <3>4. {"REFUND_ROLLBACK_FAILED", "REFUND_FAILED"} \in SUBSET Actions
      BY <1>s
    <3> QED
      BY <1>a, <1>g, <2>1, <2>2, <3>1, <3>2, <3>3, <3>4
  <2>3. CASE UNCHANGED <<order, audit>>
    BY <1>h, <2>1, <2>3
  <2> QED
    BY <1>2, <2>2, <2>3 DEF FinalizeUnreturned
<1> QED
  BY <1>1, <1>2

\* The invariant holds initially.
LEMMA InvInit ==
    ASSUME Init
    PROVE  Inv
<1>a. /\ MaxFaults \in Nat /\ Credit \in Nat \ {0} /\ MaxAttempts \in Nat \ {0}
      /\ MaxExtra \in Nat
  BY RefundAssumption
<1>p. NoPlan \in Plan /\ NoPlan.pc = "idle"
  BY <1>a DEF NoPlan, Plan, Steps, Statuses, Refs
<1>1. admin = [a \in Admins |-> NoPlan]
  BY DEF Init
<1>2. \A a \in Admins : admin[a].pc = "idle"
  BY <1>p, <1>1
<1>3. TypeOK
  <2>1. faults = [left |-> MaxFaults, lost |-> FALSE] /\ active = TRUE
    BY DEF Init
  <2>2. order \in [type : OrderTypes, trade : BOOLEAN, status : Statuses,
                   refund : 0 .. Credit]
    BY DEF Init, Statuses
  <2>3. pending \in Detail
    <3>1. 0 \in 0 .. Credit /\ 1 \in Refs
      BY <1>a DEF Refs
    <3>2. pending \in [held : {FALSE}, rolledBack : BOOLEAN, deduct : {0},
                       ref : {1}]
      BY DEF Init
    <3> QED
      BY <3>1, <3>2 DEF Detail
  <2>4. audit \in SUBSET Actions
    BY DEF Init, Actions
  <2>5. /\ funds \in Int /\ taken \in Int /\ attempts \in 0 .. MaxAttempts
        /\ gateway \in [Refs -> {"none", "processing", "done", "refused"}]
        /\ user \in {"idle", "checked"} /\ unheard \in SUBSET Refs
    BY <1>a DEF Init
  <2>6. admin \in [Admins -> Plan] /\ faults \in [left : 0 .. MaxFaults, lost : BOOLEAN]
    BY <1>a, <1>p, <1>1, <2>1
  <2> QED
    BY <2>1, <2>2, <2>3, <2>4, <2>5, <2>6 DEF TypeOK
<1>4. OwnerInv
  BY <1>2 DEF OwnerInv, Claimed
<1>5. \A a \in Admins : HandlerInv(a)
  BY <1>2 DEF HandlerInv, GateOf, Answered, FinalizerOf, BookOf, Claimed, Querying
<1>6. CASE Completed
  <2>1. \A r \in Refs : gateway[r] = "none"
    BY <1>6 DEF Completed
  <2>2. 1 \in Refs /\ unheard = {}
    BY <1>a DEF Refs, Init
  <2>3. GateInv /\ AttemptInv
    BY <1>6, <2>1, <2>2
    DEF Completed, GateInv, Answered, AttemptInv, OnlyLive, NoneLive, Live, Retryable, Refunded
  <2>4. BookInv
    BY <1>a, <1>6 DEF Completed, BookInv, Retryable
  <2> QED
    BY <1>3, <1>4, <1>5, <2>3, <2>4 DEF Inv
<1>7. CASE LegacyPending
  <2>1. 1 \in Refs /\ \A r \in Refs : gateway[r] = IF r = 1 THEN "processing" ELSE "none"
    BY <1>a, <1>7 DEF Refs, LegacyPending
  <2>2. /\ pending.ref = 1 /\ ~pending.held /\ attempts = 1
        /\ order.status = "REFUND_PENDING" /\ order.refund \in 1 .. Credit
        /\ taken = 0 \/ (/\ Marked /\ ~pending.rolledBack
                         /\ taken = IF order.type = "balance"
                                    THEN order.refund ELSE Credit)
    BY <1>7 DEF LegacyPending, NoDetail, Marked
  <2>3. GateInv /\ AttemptInv
    <3>1. unheard = {} /\ \A r \in Refs : r > 1 => r # 1
      BY DEF Refs, Init
    <3> QED
      BY <2>1, <2>2, <3>1
      DEF GateInv, Answered, AttemptInv, OnlyLive, NoneLive, Live, Retryable, Refunded
  <2>4. BookInv
    <3>1. taken \in 0 .. Credit
      BY <1>a, <2>2
    <3> QED
      BY <2>2, <3>1 DEF BookInv, Retryable
  <2> QED
    BY <1>3, <1>4, <1>5, <2>3, <2>4 DEF Inv
<1> QED
  BY <1>6, <1>7 DEF Init

\* The invariant is inductive.
LEMMA InvStep ==
    ASSUME Inv, [Next]_vars
    PROVE  Inv'
<1>1. CASE UNCHANGED vars
  <2>1. UNCHANGED <<order, user, funds, active, audit, pending, gateway,
                    attempts, unheard, taken, admin, faults>>
    BY <1>1 DEF vars
  <2>2. TypeOK' /\ OwnerInv' /\ GateInv' /\ AttemptInv' /\ BookInv'
    BY <2>1 DEF Inv, TypeOK, OwnerInv, GateInv, Answered, AttemptInv, BookInv, OnlyLive,
       NoneLive, Live, Holds, Marked
  <2>3. \A a \in Admins : HandlerInv(a)'
    BY <2>1 DEF Inv, HandlerInv, GateOf, Answered, OnlyLive, NoneLive, Live, FinalizerOf,
       Fresh, Overtaken, FailedLogged, BookOf, Holds, Marked
  <2> QED
    BY <2>2, <2>3 DEF Inv
<1>2. CASE \/ ValidateRefundRequest \/ RequestRefund \/ Spend
           \/ \E r \in Refs : Settle(r)
  BY <1>2, InvWorld
<1>3. ASSUME NEW a \in Admins,
             \/ PrepareRefund(a) \/ ProcessRefund(a)
             \/ QueryAndFinalizeRefund(a) \/ Finalize(a) \/ Stop(a)
      PROVE  Inv'
  <2>1. CASE \/ PrepareRefund(a) \/ PrepDeduct(a) \/ RequireForce(a)
             \/ QueryAndFinalizeRefund(a) \/ ReadPendingDetail(a)
             \/ QueryRefund(a) \/ Stop(a)
    BY <2>1, InvMoves
  <2>2. CASE Claim(a)
    BY <2>2, InvClaim
  <2>3. CASE Deduct(a)
    BY <2>3, InvDeduct
  <2>4. CASE GwRefund(a)
    BY <2>4, InvGwRefund
  <2>5. CASE MarkRefundOk(a) \/ MarkRefundPending(a)
    BY <2>5, InvAccepted
  <2>6. CASE RollbackRefund(a)
    BY <2>6, InvRollback
  <2>7. CASE \/ RestoreStatus(a) \/ MarkRollbackFailed(a)
             \/ MarkRefundFailed(a) \/ LogRefundFailed(a)
    BY <2>7, InvFailed
  <2>8. CASE FinalizePendingRefundSuccess(a)
    BY <2>8, InvSettle
  <2>9. CASE FinalizeRefundFailed(a) \/ FinalizeUnreturned(a)
    BY <2>9, InvRefuse
  <2> QED
    BY <1>3, <2>1, <2>2, <2>3, <2>4, <2>5, <2>6, <2>7, <2>8, <2>9
    DEF ProcessRefund, Finalize
<1> QED
  BY <1>1, <1>2, <1>3 DEF Next

-----------------------------------------------------------------------------
(***************************************************************************)
(* The theorems.                                                           *)
(***************************************************************************)

\* In every behaviour.
LEMMA Always == Spec => []Inv
BY InvInit, InvStep, PTL DEF Spec

\* The type invariant of the order, the ledger, the provider and the handlers.
THEOREM TypeCorrect == Spec => []TypeOK
<1>1. Inv => TypeOK
  BY DEF Inv
<1> QED
  BY <1>1, Always, PTL

\* Of the refunds whose answer reached a handler the gateway never has two that
\* pay or may still pay, and an order shown as refunded was paid back by such a
\* refund.  Nothing is said of refunds the provider accepted with an error for an
\* answer: each of them may pay the order once more.
THEOREM HeardRefundPaysOnce == Spec => []PaidBackOnce
<1>1. ASSUME Inv
      PROVE  PaidBackOnce
  <2> DEFINE open == {r \in Refs \ unheard :
                         gateway[r] \in {"processing", "done"}}
  <2>1. PICK s \in Refs : OnlyLive(s)
    BY <1>1 DEF Inv, GateInv, Answered
  <2>2. open \subseteq {s}
    BY <2>1 DEF OnlyLive, Live
  <2>3. IsFiniteSet({s}) /\ Cardinality({s}) = 1
    BY FS_Singleton
  <2>4. Cardinality(open) <= 1
    BY <2>2, <2>3, FS_Subset
  <2> QED
    BY <1>1, <2>4 DEF Inv, GateInv, Answered, PaidBackOnce
<1> QED
  BY <1>1, Always, PTL

\* What refunds took and did not give back is between nothing and the credit,
\* and is what the order and its log rows say.
THEOREM Balanced == Spec => []BooksBalance
<1>1. ASSUME Inv
      PROVE  BooksBalance
  <2>1. SUFFICES ASSUME ~faults.lost
        PROVE  /\ taken \in 0 .. Credit
               /\ ~Marked /\ order.status \in Retryable => taken = 0
               /\ ~Marked /\ order.status = "REFUND_PENDING" /\ taken > 0 =>
                     pending.held /\ taken <= pending.deduct
    BY DEF BooksBalance
  <2>2. /\ taken \in 0 .. Credit
        /\ order.status \in Retryable => taken = 0 \/ Marked
        /\ order.status = "REFUND_PENDING" =>
              IF pending.held THEN Holds(pending.deduct)
              ELSE taken = 0 \/ (Marked /\ ~pending.rolledBack)
    BY <1>1, <2>1 DEF Inv, BookInv
  <2> QED
    BY <2>2 DEF Holds
<1> QED
  BY <1>1, Always, PTL

=============================================================================
