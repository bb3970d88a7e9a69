--------------------- MODULE PaymentFulfillment_proofs ---------------------
(***************************************************************************)
(* Proofs about PaymentFulfillment for any set of workers and any number   *)
(* of faults.                                                              *)
(***************************************************************************)
EXTENDS PaymentFulfillment, TLAPS

-----------------------------------------------------------------------------
(***************************************************************************)
(* Type correctness.                                                       *)
(***************************************************************************)

\* The fault budget stays a natural number whether or not a step draws on it.
LEMMA FaultsTyped ==
    ASSUME NEW k, faults \in Nat, Fault(k) \/ NoFault
    PROVE  faults' \in Nat
BY DEF Fault, NoFault

\* Moving a worker on, or ending its request, keeps the workers well typed.
LEMMA GotoTyped ==
    ASSUME worker \in [Workers -> WorkerState], NEW w \in Workers,
           NEW pc \in Steps, Goto(w, pc)
    PROVE  worker' \in [Workers -> WorkerState]
BY DEF Goto, WorkerState

\* A worker that answers is idle again.
LEMMA FinishTyped ==
    ASSUME worker \in [Workers -> WorkerState], webhook \in BOOLEAN,
           NEW w \in Workers, NEW ok \in BOOLEAN, Finish(w, ok)
    PROVE  worker' \in [Workers -> WorkerState] /\ webhook' \in BOOLEAN
BY DEF Finish, Idle, WorkerState, Steps, Sources

\* Types: CreateOrder, the payer, the provider and the clock.
LEMMA TypeOKCreatorWorld ==
    ASSUME TypeOK, CreatorStep \/ WorldStep
    PROVE  TypeOK'
<1>1. CASE CreatePayment
  BY <1>1 DEF TypeOK, CreatePayment, rowVars, grantVars
<1>2. CASE SavePaymentDetails
  BY <1>2 DEF TypeOK, SavePaymentDetails, Write, rowVars, grantVars
<1>3. CASE CreateOrderFailed
  BY <1>3 DEF TypeOK, CreateOrderFailed, Write, rowVars, grantVars, Statuses
<1>4. CASE UserPays
  BY <1>4 DEF TypeOK, UserPays, rowVars, grantVars
<1>5. CASE Tick
  BY <1>5 DEF TypeOK, Tick, worldVars, grantVars
<1>6. CASE Stall
  <2>1. faults' \in Nat
    BY <1>6, FaultsTyped DEF TypeOK, Stall
  <2> QED
    BY <1>6, <2>1 DEF TypeOK, Stall, worldVars, grantVars
<1>7. CASE ComeDue
  BY <1>7 DEF TypeOK, ComeDue, rowVars, grantVars
<1>8. CASE RefundMoves
  BY <1>8 DEF TypeOK, RefundMoves, Write, worldVars, grantVars, Done, Statuses
<1> QED
  BY <1>1, <1>2, <1>3, <1>4, <1>5, <1>6, <1>7, <1>8 DEF CreatorStep, WorldStep

\* Types: a request starts.
LEMMA TypeOKRequest ==
    ASSUME TypeOK, NEW w \in Workers, Request(w)
    PROVE  TypeOK'
<1>1. PICK src \in Sources, pc \in {"confirm", "query", "load"} :
        Begin(w, src, pc)
  BY DEF Request, handleNotify, CancelOrder, ExpireTimedOutOrder, VerifyOrder,
         ReconcilePendingOrder, RetryFulfillment, Sources
<1>2. worker' \in [Workers -> WorkerState]
  BY <1>1 DEF TypeOK, Begin, WorkerState, Steps
<1> QED
  BY <1>1, <1>2 DEF TypeOK, Begin, worldVars, rowVars, grantVars

\* Types: checkPaid, the notification and the lease.
LEMMA TypeOKNotification ==
    ASSUME TypeOK, NEW w \in Workers,
           CheckPaidStep(w) \/ NotificationStep(w) \/ LeaseStep(w)
    PROVE  TypeOK'
<1> USE DEF TypeOK, worldVars, grantVars
<1>0. faults' \in Nat
  BY FaultsTyped DEF CheckPaidStep, NotificationStep, LeaseStep, QueryOrder,
     CancelPayment, MarkCancelled, PersistTradeNo, confirmPaymentRejects,
     toPaid, alreadyProcessed, rejectUnsupportedOrderType, executeFulfillment,
     acquireLease, leaseContended, reloadLease, NoFault
<1>1. CASE QueryOrder(w)
  <2>1. worker' \in [Workers -> WorkerState] /\ webhook' \in BOOLEAN
    BY <1>1, GotoTyped, FinishTyped DEF QueryOrder, Steps
  <2> QED
    BY <1>0, <1>1, <2>1 DEF QueryOrder, rowVars
<1>2. CASE CancelPayment(w)
  BY <1>0, <1>2, GotoTyped DEF CancelPayment, rowVars, Steps
<1>3. CASE MarkCancelled(w)
  BY <1>0, <1>3, FinishTyped DEF MarkCancelled, Write, Statuses
<1>4. CASE PersistTradeNo(w)
  BY <1>0, <1>4, GotoTyped DEF PersistTradeNo, Write, Steps
<1>5. CASE confirmPaymentRejects(w)
  BY <1>0, <1>5, FinishTyped DEF confirmPaymentRejects, rowVars
<1>6. CASE toPaid(w)
  BY <1>0, <1>6, GotoTyped DEF toPaid, Write, Statuses, Steps
<1>7. CASE alreadyProcessed(w)
  <2>1. worker' \in [Workers -> WorkerState] /\ webhook' \in BOOLEAN
    BY <1>7, GotoTyped, FinishTyped DEF alreadyProcessed, Steps
  <2> QED
    BY <1>0, <1>7, <2>1 DEF alreadyProcessed, rowVars
<1>8. CASE rejectUnsupportedOrderType(w)
  BY <1>0, <1>8, FinishTyped DEF rejectUnsupportedOrderType, Write, Statuses
<1>9. CASE executeFulfillment(w)
  <2>1. worker' \in [Workers -> WorkerState] /\ webhook' \in BOOLEAN
    BY <1>9, GotoTyped, FinishTyped DEF executeFulfillment, Steps
  <2> QED
    BY <1>0, <1>9, <2>1 DEF executeFulfillment, rowVars
<1>10. CASE acquireLease(w)
  BY <1>0, <1>10, GotoTyped DEF acquireLease, Write, rowVars, Statuses, Steps
<1>11. CASE leaseContended(w)
  BY <1>0, <1>11, FinishTyped DEF leaseContended, rowVars
<1>12. CASE reloadLease(w)
  <2>1. worker' \in [Workers -> WorkerState] /\ webhook' \in BOOLEAN
    BY <1>12, GotoTyped, FinishTyped DEF reloadLease, Steps, DoSteps
  <2> QED
    BY <1>0, <1>12, <2>1 DEF reloadLease
<1> QED
  BY <1>1, <1>2, <1>3, <1>4, <1>5, <1>6, <1>7, <1>8, <1>9, <1>10, <1>11, <1>12
  DEF CheckPaidStep, NotificationStep, LeaseStep

\* Types: the credit, the rebate and the completion.
LEMMA TypeOKFulfil ==
    ASSUME TypeOK, NEW w \in Workers, GrantStep(w) \/ CompletionStep(w)
    PROVE  TypeOK'
<1> USE DEF TypeOK, worldVars
<1>0. faults' \in Nat
  BY FaultsTyped DEF GrantStep, CompletionStep, lookupCode, createCode,
     redeemCheck, redeemUse, ensureSubscriptionAssigned, applyAffiliateRebate,
     markCompleted, recheckCompleted, checkAnnounced, announceCompleted,
     markFailed, NoFault
<1>1. CASE lookupCode(w)
  BY <1>0, <1>1, GotoTyped DEF lookupCode, rowVars, grantVars, Steps, DoSteps
<1>2. CASE createCode(w)
  BY <1>0, <1>2, GotoTyped DEF createCode, rowVars, Steps, DoSteps
<1>3. CASE redeemCheck(w)
  BY <1>0, <1>3, GotoTyped DEF redeemCheck, rowVars, grantVars, Steps, DoSteps
<1>4. CASE redeemUse(w)
  <2>1. granted' \in Nat
    BY <1>4 DEF redeemUse
  <2> QED
    BY <1>0, <1>4, <2>1, GotoTyped DEF redeemUse, rowVars, Steps, DoSteps
<1>5. CASE ensureSubscriptionAssigned(w)
  <2>1. granted' \in Nat
    BY <1>5 DEF ensureSubscriptionAssigned
  <2>2. audit' \in SUBSET AuditLog
    BY <1>5 DEF ensureSubscriptionAssigned, AuditLog
  <2> QED
    BY <1>0, <1>5, <2>1, <2>2, GotoTyped
    DEF ensureSubscriptionAssigned, rowVars, Steps, DoSteps
<1>6. CASE applyAffiliateRebate(w)
  <2>1. rebates' \in Nat
    BY <1>6 DEF applyAffiliateRebate
  <2>2. audit' \in SUBSET AuditLog
    BY <1>6 DEF applyAffiliateRebate, AuditLog
  <2> QED
    BY <1>0, <1>6, <2>1, <2>2, GotoTyped
    DEF applyAffiliateRebate, rowVars, Steps, DoSteps
<1>7. CASE markCompleted(w)
  BY <1>0, <1>7, GotoTyped
  DEF markCompleted, Write, grantVars, Statuses, Steps, DoSteps
<1>8. CASE recheckCompleted(w)
  <2>1. worker' \in [Workers -> WorkerState] /\ webhook' \in BOOLEAN
    BY <1>8, GotoTyped, FinishTyped DEF recheckCompleted, Steps
  <2> QED
    BY <1>0, <1>8, <2>1 DEF recheckCompleted, rowVars, grantVars
<1>9. CASE checkAnnounced(w)
  <2>1. worker' \in [Workers -> WorkerState] /\ webhook' \in BOOLEAN
    BY <1>9, GotoTyped, FinishTyped DEF checkAnnounced, Steps
  <2> QED
    BY <1>0, <1>9, <2>1 DEF checkAnnounced, rowVars, grantVars
<1>10. CASE announceCompleted(w)
  <2>1. notices' \in Nat
    BY <1>10 DEF announceCompleted
  <2> QED
    BY <1>0, <1>10, <2>1, FinishTyped DEF announceCompleted, rowVars, AuditLog
<1>11. CASE markFailed(w)
  BY <1>0, <1>11, FinishTyped DEF markFailed, Write, grantVars, Statuses
<1> QED
  BY <1>1, <1>2, <1>3, <1>4, <1>5, <1>6, <1>7, <1>8, <1>9, <1>10, <1>11
  DEF GrantStep, CompletionStep

\* Types: crashes, failures and stalls.
LEMMA TypeOKFault ==
    ASSUME TypeOK, NEW w \in Workers, FaultStep(w)
    PROVE  TypeOK'
<1> USE DEF TypeOK, worldVars, grantVars
<1>0. faults' \in Nat
  BY FaultsTyped
  DEF FaultStep, Crash, StatementError, SwallowedReadError, QueryOrderFailed
<1>1. CASE Crash(w)
  BY <1>0, <1>1 DEF Crash, Idle, WorkerState, Steps, Sources
<1>2. CASE StatementError(w)
  BY <1>0, <1>2, GotoTyped DEF StatementError, rowVars, Steps
<1>3. CASE SwallowedReadError(w)
  BY <1>0, <1>3, FinishTyped DEF SwallowedReadError, rowVars
<1>4. CASE QueryOrderFailed(w)
  <2>1. worker' \in [Workers -> WorkerState] /\ webhook' \in BOOLEAN
    BY <1>4, GotoTyped, FinishTyped DEF QueryOrderFailed, Steps
  <2> QED
    BY <1>0, <1>4, <2>1 DEF QueryOrderFailed, rowVars
<1> QED
  BY <1>1, <1>2, <1>3, <1>4 DEF FaultStep

\* Types: every step.
LEMMA TypeOKStep == TypeOK /\ [Next]_vars => TypeOK'
<1> SUFFICES ASSUME TypeOK, [Next]_vars PROVE TypeOK'
  OBVIOUS
<1>1. CASE UNCHANGED vars
  BY <1>1 DEF TypeOK, vars
<1>2. CASE Next
  BY <1>2, TypeOKCreatorWorld, TypeOKRequest, TypeOKNotification,
     TypeOKFulfil, TypeOKFault DEF Next, WorkerStep
<1> QED
  BY <1>1, <1>2

\* Every reachable state of the payment flow is well typed: in particular each
\* goroutine is at a step the code has and the order has a status the lifecycle
\* knows.
THEOREM TypeCorrect == Spec => []TypeOK
<1>1. Init => TypeOK
  <2> SUFFICES ASSUME Init PROVE TypeOK
    OBVIOUS
  <2>1. worker \in [Workers -> WorkerState]
    BY DEF Init, Idle, WorkerState, Steps, Sources
  <2>2. faults \in Nat
    BY PaymentAssumption DEF Init
  <2> QED
    BY <2>1, <2>2 DEF Init, TypeOK, Statuses
<1> QED
  BY <1>1, TypeOKStep, PTL DEF Spec

-----------------------------------------------------------------------------
(***************************************************************************)
(* The inductive invariant.  The properties speak about the order and what *)
(* was granted; between them stand the workers, so the invariant says what *)
(* a worker at each step knows.                                            *)
(***************************************************************************)

\* Steps only a notification of the right payment, or a retry, leads to.
PaidSteps == {"processed", "load", "acquire", "contend", "reload", "announce",
              "notify", "fail"} \cup DoSteps
\* Steps behind a won lease UPDATE.
LeasedSteps   == {"reload", "announce", "notify", "fail"} \cup DoSteps
\* Steps behind the credit, and behind the rebate.
GrantedSteps  == {"rebate", "complete", "recheck", "announce", "notify"}
RebatedSteps  == GrantedSteps \ {"rebate"}
AnnounceSteps == {"announce", "notify"}
BalanceSteps  == {"lookup", "create", "redeem", "use"}

PaidStatuses == {"PAID", "RECHARGING", "FAILED"} \cup Done

PaymentInv ==
    /\ upstream \in {"paid", "mispaid"} => creator = "created"
    /\ order.status = "FAILED" /\ ~order.paidAt => creator = "failed"
    /\ order.paidAt => upstream = "paid" /\ order.status \in PaidStatuses
    /\ order.status \in PaidStatuses \ {"FAILED"} => order.paidAt
    /\ \A w \in Workers :
        /\ worker[w].pc \in PaidSteps => upstream = "paid"
        /\ worker[w].pc \in LeasedSteps => order.paidAt

\* The credit is recorded in the same transaction as its guard.
GrantRecord ==
    /\ orderType = "balance" => granted = IF code = "used" THEN 1 ELSE 0
    /\ orderType = "subscription" =>
         granted = IF "SUBSCRIPTION_ASSIGNED" \in audit THEN 1 ELSE 0
    /\ orderType = "other" => granted = 0
    /\ rebates <= IF "AFFILIATE_REBATE" \in audit THEN 1 ELSE 0

GrantInv ==
    /\ GrantRecord
    /\ granted = 1 => order.paidAt
    /\ "SUCCESS" \in audit => granted = 1
    /\ order.status \in Done => granted = 1 /\ "AFFILIATE_REBATE" \in audit
    /\ \A w \in Workers :
        /\ worker[w].pc \in {"acquire", "contend"} \cup LeasedSteps
             => orderType # "other"
        /\ worker[w].pc \in BalanceSteps => orderType = "balance"
        /\ worker[w].pc = "assign" => orderType = "subscription"
        /\ worker[w].pc \in GrantedSteps => granted = 1
        /\ worker[w].pc \in RebatedSteps => "AFFILIATE_REBATE" \in audit

\* At most one worker ever gets past markCompleted.
NoticeInv ==
    /\ notices \in 0..1
    /\ notices = 1 => order.status \in Done
    /\ \A w \in Workers : worker[w].pc \in AnnounceSteps =>
        /\ order.status \in Done
        /\ notices = 0
        /\ \A v \in Workers : worker[v].pc \in AnnounceSteps => v = w

\* Where the workers are after w moved on to pc.
Moves(w, pc) ==
    \A v \in Workers : worker'[v].pc = IF v = w THEN pc ELSE worker[v].pc

\* A worker that goes on moves, and nobody else does.
LEMMA GotoPc ==
    ASSUME worker \in [Workers -> WorkerState], NEW w \in Workers, NEW pc,
           Goto(w, pc)
    PROVE  Moves(w, pc)
BY DEF Goto, WorkerState, Moves

\* A worker that answers moves to idle, and nobody else moves.
LEMMA FinishPc ==
    ASSUME worker \in [Workers -> WorkerState], NEW w \in Workers, NEW ok,
           Finish(w, ok)
    PROVE  Moves(w, "idle")
BY DEF Finish, Idle, WorkerState, Moves

\* Where the answer of the provider takes a worker.
LEMMA QueryPc ==
    ASSUME worker \in [Workers -> WorkerState], NEW w \in Workers,
           QueryOrder(w) \/ QueryOrderFailed(w)
    PROVE  \E pc \in {"persist", "confirm", "close", "markCancel", "idle"} :
             Moves(w, pc)
<1>1. CASE \E pc \in {"persist", "confirm", "close", "markCancel"} : Goto(w, pc)
  BY <1>1, GotoPc
<1>2. CASE Finish(w, TRUE)
  BY <1>2, FinishPc
<1> QED
  BY <1>1, <1>2 DEF QueryOrder, QueryOrderFailed

\* The payment: CreateOrder, the payer, the provider and the clock.
LEMMA PaymentInvCreatorWorld ==
    ASSUME TypeOK, PaymentInv, CreatorStep \/ WorldStep
    PROVE  PaymentInv'
<1> USE DEF TypeOK, PaymentInv, PaidStatuses
<1>1. CASE CreatePayment
  BY <1>1 DEF CreatePayment, rowVars
<1>2. CASE SavePaymentDetails
  BY <1>2 DEF SavePaymentDetails, Write, rowVars
<1>3. CASE CreateOrderFailed
  BY <1>3 DEF CreateOrderFailed, Write, rowVars, Done
<1>4. CASE UserPays
  BY <1>4 DEF UserPays, rowVars
<1>5. CASE Tick \/ Stall
  BY <1>5 DEF Tick, Stall, worldVars
<1>6. CASE ComeDue
  BY <1>6 DEF ComeDue, rowVars
<1>7. CASE RefundMoves
  BY <1>7 DEF RefundMoves, Write, worldVars, Done
<1> QED
  BY <1>1, <1>2, <1>3, <1>4, <1>5, <1>6, <1>7 DEF CreatorStep, WorldStep

\* A request enters at steps that promise at most a payment.
LEMMA RequestPc ==
    ASSUME TypeOK, PaymentInv, NEW w \in Workers, Request(w)
    PROVE  \E pc \in {"confirm", "query", "load"} :
             /\ pc = "load" => order.paidAt
             /\ Moves(w, pc)
             /\ UNCHANGED <<webhook, faults>>
             /\ UNCHANGED worldVars /\ UNCHANGED rowVars /\ UNCHANGED grantVars
<1>1. PICK src \in Sources, pc \in {"confirm", "query", "load"} :
        Begin(w, src, pc) /\ (pc = "load" => order.paidAt)
  BY DEF Request, handleNotify, CancelOrder, ExpireTimedOutOrder, VerifyOrder,
         ReconcilePendingOrder, RetryFulfillment, Sources
<1> QED
  BY <1>1 DEF Begin, TypeOK, WorkerState, Moves

\* The payment: a request starts.
LEMMA PaymentInvRequest ==
    ASSUME TypeOK, PaymentInv, NEW w \in Workers, Request(w)
    PROVE  PaymentInv'
BY RequestPc
DEF PaymentInv, PaidSteps, LeasedSteps, DoSteps, Moves, worldVars, rowVars

\* The payment: checkPaid, the notification and the lease.
LEMMA PaymentInvNotification ==
    ASSUME TypeOK, PaymentInv, NEW w \in Workers,
           CheckPaidStep(w) \/ NotificationStep(w) \/ LeaseStep(w)
    PROVE  PaymentInv'
<1> USE DEF TypeOK, PaymentInv, PaidStatuses, PaidSteps, LeasedSteps, DoSteps,
            worldVars, At, Moves
<1>1. CASE QueryOrder(w)
  BY <1>1, QueryPc DEF QueryOrder, rowVars
<1>2. CASE CancelPayment(w)
  BY <1>2, GotoPc DEF CancelPayment, rowVars
<1>3. CASE MarkCancelled(w)
  BY <1>3, FinishPc DEF MarkCancelled, Write, Done
<1>4. CASE PersistTradeNo(w)
  <2>1. order'.status = order.status /\ order'.paidAt = order.paidAt
    BY <1>4 DEF PersistTradeNo, Write
  <2> QED
    BY <1>4, <2>1, GotoPc DEF PersistTradeNo
<1>5. CASE confirmPaymentRejects(w)
  BY <1>5, FinishPc DEF confirmPaymentRejects, rowVars
<1>6. CASE toPaid(w)
  <2>1. CASE Payable
    <3>1. order'.status = "PAID" /\ order'.paidAt
      BY <1>6, <2>1 DEF toPaid, Write
    <3> QED
      BY <1>6, <2>1, <3>1, GotoPc DEF toPaid
  <2>2. CASE ~Payable
    BY <1>6, <2>2, GotoPc DEF toPaid
  <2> QED
    BY <2>1, <2>2
<1>7. CASE alreadyProcessed(w)
  BY <1>7, GotoPc, FinishPc DEF alreadyProcessed, rowVars
<1>8. CASE rejectUnsupportedOrderType(w)
  BY <1>8, FinishPc DEF rejectUnsupportedOrderType, Write
<1>9. CASE executeFulfillment(w)
  BY <1>9, GotoPc, FinishPc DEF executeFulfillment, rowVars
<1>10. CASE acquireLease(w)
  <2>1. CASE Leasable
    <3>1. order.paidAt
      BY <1>10, <2>1 DEF acquireLease, Leasable
    <3>2. order'.status = "RECHARGING" /\ order'.paidAt
      BY <1>10, <2>1, <3>1 DEF acquireLease, Write
    <3> QED
      BY <1>10, <2>1, <3>1, <3>2, GotoPc DEF acquireLease
  <2>2. CASE ~Leasable
    BY <1>10, <2>2, GotoPc DEF acquireLease, rowVars
  <2> QED
    BY <2>1, <2>2
<1>11. CASE leaseContended(w)
  BY <1>11, FinishPc DEF leaseContended, rowVars
<1>12. CASE reloadLease(w)
  BY <1>12, GotoPc, FinishPc DEF reloadLease
<1> QED
  BY <1>1, <1>2, <1>3, <1>4, <1>5, <1>6, <1>7, <1>8, <1>9, <1>10, <1>11, <1>12
  DEF CheckPaidStep, NotificationStep, LeaseStep

\* The payment: the credit, the completion and the faults.
LEMMA PaymentInvFulfil ==
    ASSUME TypeOK, PaymentInv, NEW w \in Workers,
           GrantStep(w) \/ CompletionStep(w) \/ FaultStep(w)
    PROVE  PaymentInv'
<1> USE DEF TypeOK, PaymentInv, PaidStatuses, PaidSteps, LeasedSteps, DoSteps,
            worldVars, At, Moves
<1>1. CASE lookupCode(w) \/ createCode(w) \/ redeemCheck(w) \/ redeemUse(w)
  BY <1>1, GotoPc DEF lookupCode, createCode, redeemCheck, redeemUse, rowVars
<1>2. CASE ensureSubscriptionAssigned(w) \/ applyAffiliateRebate(w)
  BY <1>2, GotoPc DEF ensureSubscriptionAssigned, applyAffiliateRebate, rowVars
<1>3. CASE markCompleted(w)
  BY <1>3, GotoPc DEF markCompleted, Write, Done
<1>4. CASE recheckCompleted(w)
  BY <1>4, GotoPc, FinishPc DEF recheckCompleted
<1>5. CASE checkAnnounced(w)
  BY <1>5, GotoPc, FinishPc DEF checkAnnounced, rowVars
<1>6. CASE announceCompleted(w)
  BY <1>6, FinishPc DEF announceCompleted, rowVars
<1>7. CASE markFailed(w)
  BY <1>7, FinishPc DEF markFailed, Write
<1>8. CASE Crash(w)
  BY <1>8 DEF Crash, Idle, WorkerState
<1>9. CASE StatementError(w)
  BY <1>9, GotoPc DEF StatementError, rowVars
<1>10. CASE SwallowedReadError(w)
  BY <1>10, FinishPc DEF SwallowedReadError, rowVars
<1>11. CASE QueryOrderFailed(w)
  BY <1>11, QueryPc DEF QueryOrderFailed, rowVars
<1> QED
  BY <1>1, <1>2, <1>3, <1>4, <1>5, <1>6, <1>7, <1>8, <1>9, <1>10, <1>11
  DEF GrantStep, CompletionStep, FaultStep

\* The payment: every step.
LEMMA PaymentInvStep == TypeOK /\ PaymentInv /\ [Next]_vars => PaymentInv'
<1> SUFFICES ASSUME TypeOK, PaymentInv, [Next]_vars PROVE PaymentInv'
  OBVIOUS
<1>1. CASE UNCHANGED vars
  BY <1>1 DEF PaymentInv, vars
<1>2. CASE Next
  BY <1>2, PaymentInvCreatorWorld, PaymentInvRequest, PaymentInvNotification,
     PaymentInvFulfil DEF Next, WorkerStep
<1> QED
  BY <1>1, <1>2

\* Steps that write nothing but the row, and keep it out of Done (or in it),
\* disturb the grants only through the step the worker goes to.
LEMMA GrantInvQuietStep ==
    ASSUME TypeOK, GrantInv, NEW w \in Workers,
           NEW pc \in {"idle", "confirm", "query", "load", "persist", "close",
                       "markCancel", "processed", "acquire", "contend",
                       "reload", "fail"},
           pc \in {"acquire", "contend", "reload", "fail"}
             => orderType # "other",
           Moves(w, pc),
           order'.paidAt = order.paidAt \/ order'.paidAt,
           order'.status \in Done => order.status \in Done,
           UNCHANGED orderType, UNCHANGED grantVars
    PROVE  GrantInv'
BY DEF GrantInv, GrantRecord, LeasedSteps, DoSteps, BalanceSteps, GrantedSteps,
       RebatedSteps, grantVars, Moves

\* The credit: CreateOrder, the payer, the provider and the clock.
LEMMA GrantInvCreatorWorld ==
    ASSUME TypeOK, PaymentInv, GrantInv, CreatorStep \/ WorldStep
    PROVE  GrantInv'
<1>1. /\ UNCHANGED orderType /\ UNCHANGED grantVars /\ UNCHANGED worker
      /\ order'.paidAt = order.paidAt
      /\ order'.status \in Done => order.status \in Done
  <2> USE DEF TypeOK
  <2>1. CASE CreatePayment
    BY <2>1 DEF CreatePayment, rowVars
  <2>2. CASE SavePaymentDetails
    BY <2>2 DEF SavePaymentDetails, Write, rowVars
  <2>3. CASE CreateOrderFailed
    BY <2>3 DEF CreateOrderFailed, Write, rowVars, Done
  <2>4. CASE UserPays \/ ComeDue
    BY <2>4 DEF UserPays, ComeDue, rowVars
  <2>5. CASE Tick \/ Stall
    BY <2>5 DEF Tick, Stall, worldVars
  <2>6. CASE RefundMoves
    BY <2>6 DEF RefundMoves, Write, worldVars
  <2> QED
    BY <2>1, <2>2, <2>3, <2>4, <2>5, <2>6 DEF CreatorStep, WorldStep
<1> QED
  BY <1>1 DEF GrantInv, GrantRecord, grantVars

\* The credit: a request starts.
LEMMA GrantInvRequest ==
    ASSUME TypeOK, PaymentInv, GrantInv, NEW w \in Workers, Request(w)
    PROVE  GrantInv'
<1>1. PICK pc \in {"confirm", "query", "load"} :
        /\ Moves(w, pc)
        /\ UNCHANGED worldVars /\ UNCHANGED rowVars /\ UNCHANGED grantVars
  BY RequestPc
<1> QED
  BY <1>1, GrantInvQuietStep DEF worldVars, rowVars

\* The credit: checkPaid, the notification and the lease.
LEMMA GrantInvNotification ==
    ASSUME TypeOK, PaymentInv, GrantInv, NEW w \in Workers,
           CheckPaidStep(w) \/ NotificationStep(w) \/ LeaseStep(w)
    PROVE  GrantInv'
<1>0. worker \in [Workers -> WorkerState]
  BY DEF TypeOK
<1>1. CASE QueryOrder(w)
  BY <1>0, <1>1, QueryPc, GrantInvQuietStep DEF QueryOrder, rowVars, worldVars
<1>2. CASE CancelPayment(w)
  BY <1>0, <1>2, GotoPc, GrantInvQuietStep DEF CancelPayment, rowVars
<1>3. CASE MarkCancelled(w)
  <2>1. /\ order'.paidAt = order.paidAt
        /\ order'.status \in Done => order.status \in Done
    BY <1>3 DEF MarkCancelled, Write, Done, TypeOK
  <2> QED
    BY <1>0, <1>3, <2>1, FinishPc, GrantInvQuietStep
    DEF MarkCancelled, worldVars
<1>4. CASE PersistTradeNo(w)
  <2>1. order'.paidAt = order.paidAt /\ order'.status = order.status
    BY <1>4 DEF PersistTradeNo, Write, TypeOK
  <2> QED
    BY <1>0, <1>4, <2>1, GotoPc, GrantInvQuietStep DEF PersistTradeNo, worldVars
<1>5. CASE confirmPaymentRejects(w)
  BY <1>0, <1>5, FinishPc, GrantInvQuietStep
  DEF confirmPaymentRejects, rowVars, worldVars
<1>6. CASE toPaid(w)
  <2>1. \/ order'.status = "PAID" /\ order'.paidAt /\ Goto(w, "load")
        \/ order' = order /\ Goto(w, "processed")
    BY <1>6 DEF toPaid, Write, TypeOK
  <2> QED
    BY <1>0, <1>6, <2>1, GotoPc, GrantInvQuietStep DEF toPaid, worldVars, Done
<1>7. CASE alreadyProcessed(w)
  <2>1. Goto(w, "load") \/ Finish(w, TRUE)
    BY <1>7 DEF alreadyProcessed
  <2> QED
    BY <1>0, <1>7, <2>1, GotoPc, FinishPc, GrantInvQuietStep
    DEF alreadyProcessed, rowVars, worldVars
<1>8. CASE rejectUnsupportedOrderType(w)
  <2>1. /\ order'.paidAt = order.paidAt
        /\ order'.status \in Done => order.status \in Done
    BY <1>8 DEF rejectUnsupportedOrderType, Write, Done, TypeOK
  <2> QED
    BY <1>0, <1>8, <2>1, FinishPc, GrantInvQuietStep
    DEF rejectUnsupportedOrderType, worldVars
<1>9. CASE executeFulfillment(w)
  <2>1. Goto(w, "acquire") \/ \E ok \in BOOLEAN : Finish(w, ok)
    BY <1>9 DEF executeFulfillment
  <2> QED
    BY <1>0, <1>9, <2>1, GotoPc, FinishPc, GrantInvQuietStep
    DEF executeFulfillment, rowVars, worldVars
<1>10. CASE acquireLease(w)
  <2>1. \/ /\ order'.status = "RECHARGING" /\ order'.paidAt = order.paidAt
           /\ Goto(w, "reload")
        \/ order' = order /\ Goto(w, "contend")
    BY <1>10 DEF acquireLease, Write, rowVars, TypeOK
  <2>2. orderType # "other"
    BY <1>10 DEF acquireLease, At, GrantInv
  <2> QED
    BY <1>0, <1>10, <2>1, <2>2, GotoPc, GrantInvQuietStep
    DEF acquireLease, worldVars, Done
<1>11. CASE leaseContended(w)
  BY <1>0, <1>11, FinishPc, GrantInvQuietStep
  DEF leaseContended, rowVars, worldVars
<1>12. CASE reloadLease(w)
  <2>1. CASE Finish(w, FALSE)
    BY <1>0, <1>12, <2>1, FinishPc, GrantInvQuietStep DEF reloadLease, worldVars
  <2>2. CASE Goto(w, IF orderType = "balance" THEN "lookup" ELSE "assign")
    <3>1. orderType \in {"balance", "subscription"}
      BY <1>12, PaymentAssumption
      DEF reloadLease, At, GrantInv, LeasedSteps, TypeOK
    <3>2. Moves(w, IF orderType = "balance" THEN "lookup" ELSE "assign")
      BY <1>0, <2>2, GotoPc
    <3> QED
      BY <1>12, <3>1, <3>2
      DEF reloadLease, worldVars, grantVars, GrantInv, GrantRecord, LeasedSteps,
          DoSteps, BalanceSteps, GrantedSteps, RebatedSteps, Moves
  <2> QED
    BY <1>12, <2>1, <2>2 DEF reloadLease
<1> QED
  BY <1>1, <1>2, <1>3, <1>4, <1>5, <1>6, <1>7, <1>8, <1>9, <1>10, <1>11, <1>12
  DEF CheckPaidStep, NotificationStep, LeaseStep

\* The steps that do write the grants: each credit is taken under its guard.
LEMMA GrantInvGrant ==
    ASSUME TypeOK, PaymentInv, GrantInv, NEW w \in Workers, GrantStep(w)
    PROVE  GrantInv'
<1> USE DEF GrantInv, GrantRecord, LeasedSteps, DoSteps, BalanceSteps,
            GrantedSteps, RebatedSteps, worldVars, rowVars, At, Moves
<1>0. worker \in [Workers -> WorkerState]
  BY DEF TypeOK
<1>1. CASE lookupCode(w)
  <2>1. code \in {"absent", "unused", "used"}
    BY DEF TypeOK
  <2>2. \/ code = "absent" /\ Goto(w, "create")
        \/ code = "unused" /\ Goto(w, "redeem")
        \/ code = "used" /\ Goto(w, "rebate")
    BY <1>1, <2>1 DEF lookupCode
  <2> QED
    BY <1>0, <1>1, <2>2, GotoPc DEF lookupCode, grantVars
<1>2. CASE createCode(w)
  <2>1. \/ code = "absent" /\ code' = "unused" /\ Moves(w, "redeem")
        \/ code' = code /\ Moves(w, "fail")
    BY <1>0, <1>2, GotoPc DEF createCode
  <2> QED
    BY <1>2, <2>1 DEF createCode
<1>3. CASE redeemCheck(w)
  <2>1. Moves(w, "use") \/ Moves(w, "fail")
    BY <1>0, <1>3, GotoPc DEF redeemCheck
  <2> QED
    BY <1>3, <2>1 DEF redeemCheck, grantVars
<1>4. CASE redeemUse(w)
  <2>1. order.paidAt /\ orderType = "balance"
    BY <1>4 DEF redeemUse, PaymentInv
  <2>2. CASE code = "unused"
    <3>1. granted' = 1 /\ code' = "used" /\ Moves(w, "rebate")
      BY <1>0, <1>4, <2>1, <2>2, GotoPc DEF redeemUse
    <3>2. granted = 0
      BY <2>1, <2>2
    <3>3. order' = order /\ UNCHANGED <<orderType, audit, rebates>>
      BY <1>4 DEF redeemUse
    <3> QED
      BY <2>1, <3>1, <3>2, <3>3
  <2>3. CASE code # "unused"
    <3>1. Moves(w, "fail")
      BY <1>0, <1>4, <2>3, GotoPc DEF redeemUse
    <3> QED
      BY <1>4, <2>3, <3>1 DEF redeemUse
  <2> QED
    BY <2>2, <2>3
<1>5. CASE ensureSubscriptionAssigned(w)
  <2>1. order.paidAt /\ orderType = "subscription"
    BY <1>5 DEF ensureSubscriptionAssigned, PaymentInv
  <2>2. Moves(w, "rebate")
    BY <1>0, <1>5, GotoPc DEF ensureSubscriptionAssigned
  <2>3. order' = order /\ UNCHANGED <<orderType, code, rebates>>
    BY <1>5 DEF ensureSubscriptionAssigned
  <2>4. CASE audit \cap {"SUBSCRIPTION_ASSIGNED", "SUCCESS"} = {}
    <3>1. granted = 0 /\ "SUBSCRIPTION_ASSIGNED" \notin audit
                      /\ "SUCCESS" \notin audit
      BY <2>1, <2>4
    <3>2. granted' = 1 /\ audit' = audit \cup {"SUBSCRIPTION_ASSIGNED"}
      BY <1>5, <2>4, <3>1 DEF ensureSubscriptionAssigned
    <3> QED
      BY <2>1, <2>2, <2>3, <3>1, <3>2
  <2>5. CASE audit \cap {"SUBSCRIPTION_ASSIGNED", "SUCCESS"} # {}
    <3>1. granted = 1
      BY <2>1, <2>5
    <3>2. granted' = granted /\ audit' = audit
      BY <1>5, <2>5 DEF ensureSubscriptionAssigned
    <3> QED
      BY <2>1, <2>2, <2>3, <3>1, <3>2
  <2> QED
    BY <2>4, <2>5
<1>6. CASE applyAffiliateRebate(w)
  <2>1. Moves(w, "complete")
    BY <1>0, <1>6, GotoPc DEF applyAffiliateRebate
  <2>2. order' = order /\ UNCHANGED <<orderType, code, granted>>
    BY <1>6 DEF applyAffiliateRebate
  <2>3. CASE "AFFILIATE_REBATE" \notin audit
    <3>1. rebates = 0
      BY <2>3 DEF TypeOK
    <3>2. rebates' <= 1 /\ audit' = audit \cup {"AFFILIATE_REBATE"}
      BY <1>6, <2>3, <3>1 DEF applyAffiliateRebate
    <3> QED
      BY <1>6, <2>1, <2>2, <3>2 DEF applyAffiliateRebate
  <2>4. CASE "AFFILIATE_REBATE" \in audit
    <3>1. rebates' = rebates /\ audit' = audit
      BY <1>6, <2>4 DEF applyAffiliateRebate
    <3> QED
      BY <1>6, <2>1, <2>2, <2>4, <3>1 DEF applyAffiliateRebate
  <2> QED
    BY <2>3, <2>4
<1> QED
  BY <1>1, <1>2, <1>3, <1>4, <1>5, <1>6 DEF GrantStep

\* The credit: the rebate, the completion and the faults.
LEMMA GrantInvCompletion ==
    ASSUME TypeOK, PaymentInv, GrantInv, NEW w \in Workers,
           CompletionStep(w) \/ FaultStep(w)
    PROVE  GrantInv'
<1>0. worker \in [Workers -> WorkerState]
  BY DEF TypeOK
<1>1. CASE markCompleted(w)
  <2>1. granted = 1 /\ "AFFILIATE_REBATE" \in audit
    BY <1>1 DEF markCompleted, At, GrantInv, GrantedSteps, RebatedSteps
  <2>2. \/ Moves(w, "announce") /\ order'.paidAt = order.paidAt
        \/ Moves(w, "recheck") /\ order' = order
    BY <1>0, <1>1, GotoPc DEF markCompleted, Write, TypeOK
  <2> QED
    BY <1>1, <2>1, <2>2
    DEF markCompleted, At, GrantInv, GrantRecord, LeasedSteps, DoSteps,
        BalanceSteps, GrantedSteps, RebatedSteps, Moves, worldVars, grantVars
<1>2. CASE recheckCompleted(w)
  <2>1. Moves(w, "idle") \/ Moves(w, "fail")
    BY <1>0, <1>2, GotoPc, FinishPc DEF recheckCompleted
  <2>2. orderType # "other"
    BY <1>2 DEF recheckCompleted, At, GrantInv, LeasedSteps, DoSteps
  <2> QED
    BY <1>2, <2>1, <2>2, GrantInvQuietStep DEF recheckCompleted, worldVars
<1>3. CASE checkAnnounced(w)
  <2>1. Moves(w, "idle") \/ Moves(w, "notify")
    BY <1>0, <1>3, GotoPc, FinishPc DEF checkAnnounced
  <2> QED
    BY <1>3, <2>1
    DEF checkAnnounced, At, GrantInv, GrantRecord, LeasedSteps, DoSteps,
        BalanceSteps, GrantedSteps, RebatedSteps, Moves, worldVars, rowVars,
        grantVars
<1>4. CASE announceCompleted(w)
  <2>1. Moves(w, "idle")
    BY <1>0, <1>4, FinishPc DEF announceCompleted
  <2>2. granted = 1
    BY <1>4 DEF announceCompleted, At, GrantInv, GrantedSteps
  <2>3. \A a \in {"SUBSCRIPTION_ASSIGNED", "AFFILIATE_REBATE"} :
          a \in audit' <=> a \in audit
    BY <1>4 DEF announceCompleted
  <2> QED
    BY <1>4, <2>1, <2>2, <2>3
    DEF announceCompleted, At, GrantInv, GrantRecord, LeasedSteps, DoSteps,
        BalanceSteps, GrantedSteps, RebatedSteps, Moves, worldVars, rowVars
<1>5. CASE markFailed(w)
  <2>1. /\ order'.paidAt = order.paidAt
        /\ order'.status \in Done => order.status \in Done
    BY <1>5 DEF markFailed, Write, Done, TypeOK
  <2> QED
    BY <1>0, <1>5, <2>1, FinishPc, GrantInvQuietStep DEF markFailed, worldVars
<1>6. CASE Crash(w)
  <2>1. Moves(w, "idle")
    BY <1>0, <1>6 DEF Crash, Idle, WorkerState, Moves
  <2> QED
    BY <1>6, <2>1, GrantInvQuietStep DEF Crash, worldVars
<1>7. CASE StatementError(w)
  <2>1. orderType # "other"
    BY <1>7 DEF StatementError, GrantInv, LeasedSteps
  <2> QED
    BY <1>0, <1>7, <2>1, GotoPc, GrantInvQuietStep
    DEF StatementError, worldVars, rowVars
<1>8. CASE SwallowedReadError(w)
  BY <1>0, <1>8, FinishPc, GrantInvQuietStep
  DEF SwallowedReadError, worldVars, rowVars
<1>9. CASE QueryOrderFailed(w)
  BY <1>0, <1>9, QueryPc, GrantInvQuietStep
  DEF QueryOrderFailed, worldVars, rowVars
<1> QED
  BY <1>1, <1>2, <1>3, <1>4, <1>5, <1>6, <1>7, <1>8, <1>9
  DEF CompletionStep, FaultStep

\* The credit: every step.
LEMMA GrantInvStep ==
    TypeOK /\ PaymentInv /\ GrantInv /\ [Next]_vars => GrantInv'
<1> SUFFICES ASSUME TypeOK, PaymentInv, GrantInv, [Next]_vars PROVE GrantInv'
  OBVIOUS
<1>1. CASE UNCHANGED vars
  BY <1>1 DEF GrantInv, GrantRecord, vars
<1>2. CASE Next
  BY <1>2, GrantInvCreatorWorld, GrantInvRequest, GrantInvNotification,
     GrantInvGrant, GrantInvCompletion DEF Next, WorkerStep
<1> QED
  BY <1>1, <1>2

-----------------------------------------------------------------------------
(***************************************************************************)
(* What a step may do to the order, seen from outside.                     *)
(***************************************************************************)
SamePayment == upstream' = "paid" <=> upstream = "paid"
SamePhase   == /\ order'.paidAt = order.paidAt
               /\ order'.status \in Done <=> order.status \in Done

ReceiveShape   == /\ upstream # "paid" /\ upstream' = "paid"
                  /\ SamePhase /\ granted' = granted
RecogniseShape == /\ upstream = "paid" /\ ~order.paidAt /\ order'.paidAt
                  /\ order.status \notin Done /\ order'.status \notin Done
                  /\ SamePayment /\ granted' = granted
GrantShape     == /\ order.paidAt /\ order.status \notin Done
                  /\ granted = 0 /\ granted' = 1
                  /\ SamePayment /\ SamePhase
CompleteShape  == /\ order.paidAt /\ order.status \notin Done
                  /\ order'.paidAt /\ order'.status \in Done
                  /\ granted = 1 /\ granted' = granted /\ SamePayment
QuietShape     == SamePayment /\ SamePhase /\ granted' = granted

Shape == \/ ReceiveShape \/ RecogniseShape \/ GrantShape \/ CompleteShape
         \/ QuietShape

\* What CreateOrder, the payer, the provider and the clock do to the row.
LEMMA ShapeCreatorWorld ==
    ASSUME TypeOK, PaymentInv, CreatorStep \/ WorldStep
    PROVE  Shape
<1> USE DEF TypeOK, Shape, QuietShape, SamePayment, SamePhase
<1>1. CASE CreatePayment
  BY <1>1 DEF CreatePayment, rowVars, grantVars, PaymentInv
<1>2. CASE SavePaymentDetails
  BY <1>2 DEF SavePaymentDetails, Write, rowVars, grantVars
<1>3. CASE CreateOrderFailed
  <2>1. order.status \notin Done
    BY <1>3 DEF CreateOrderFailed, PaymentInv, PaidStatuses, Done
  <2> QED
    BY <1>3, <2>1 DEF CreateOrderFailed, Write, rowVars, grantVars, Done
<1>4. CASE UserPays
  BY <1>4 DEF UserPays, rowVars, grantVars, ReceiveShape
<1>5. CASE Tick \/ Stall
  BY <1>5 DEF Tick, Stall, worldVars, grantVars
<1>6. CASE ComeDue
  BY <1>6 DEF ComeDue, rowVars, grantVars
<1>7. CASE RefundMoves
  BY <1>7 DEF RefundMoves, Write, worldVars, grantVars
<1> QED
  BY <1>1, <1>2, <1>3, <1>4, <1>5, <1>6, <1>7 DEF CreatorStep, WorldStep

\* What a worker does to the row.
LEMMA ShapeWorker ==
    ASSUME TypeOK, PaymentInv, GrantInv, NEW w \in Workers,
           WorkerStep(w)
    PROVE  Shape
<1> USE DEF TypeOK, Shape, QuietShape, SamePayment, SamePhase, At
<1>1. CASE QueryOrder(w) \/ confirmPaymentRejects(w) \/ alreadyProcessed(w)
             \/ executeFulfillment(w) \/ leaseContended(w)
  BY <1>1 DEF QueryOrder, confirmPaymentRejects, alreadyProcessed,
     executeFulfillment, leaseContended, worldVars, rowVars, grantVars
<1>2. CASE CancelPayment(w)
  BY <1>2 DEF CancelPayment, rowVars, grantVars
<1>3. CASE MarkCancelled(w)
  BY <1>3 DEF MarkCancelled, Write, Done, worldVars, grantVars
<1>4. CASE PersistTradeNo(w)
  BY <1>4 DEF PersistTradeNo, Write, worldVars, grantVars
<1>5. CASE toPaid(w)
  <2>1. CASE Payable
    <3>1. ~order.paidAt /\ order.status \notin Done
      BY <2>1 DEF Payable, PaymentInv, PaidStatuses, Done
    <3>2. order'.paidAt /\ order'.status = "PAID"
      BY <1>5, <2>1 DEF toPaid, Write
    <3> QED
      BY <1>5, <3>1, <3>2
      DEF toPaid, RecogniseShape, worldVars, grantVars, Done
  <2>2. CASE ~Payable
    BY <1>5, <2>2 DEF toPaid, worldVars, grantVars
  <2> QED
    BY <2>1, <2>2
<1>6. CASE rejectUnsupportedOrderType(w)
  BY <1>6 DEF rejectUnsupportedOrderType, Write, Done, worldVars, grantVars
<1>7. CASE acquireLease(w)
  BY <1>7 DEF acquireLease, Leasable, Write, Done, worldVars, rowVars, grantVars
<1>8. CASE reloadLease(w)
  BY <1>8 DEF reloadLease, worldVars, grantVars
<1>9. CASE lookupCode(w) \/ redeemCheck(w) \/ checkAnnounced(w)
  BY <1>9 DEF lookupCode, redeemCheck, checkAnnounced, worldVars, rowVars,
     grantVars
<1>10. CASE createCode(w) \/ applyAffiliateRebate(w) \/ announceCompleted(w)
  BY <1>10 DEF createCode, applyAffiliateRebate, announceCompleted, worldVars,
     rowVars
<1>11. CASE redeemUse(w)
  <2>1. order.paidAt /\ orderType = "balance"
    BY <1>11
    DEF redeemUse, PaymentInv, LeasedSteps, DoSteps, GrantInv, BalanceSteps
  <2>2. CASE code = "unused"
    <3>1. granted = 0 /\ order.status \notin Done
      BY <2>1, <2>2 DEF GrantInv, GrantRecord
    <3> QED
      BY <1>11, <2>1, <2>2, <3>1 DEF redeemUse, GrantShape, worldVars, rowVars
  <2>3. CASE code # "unused"
    BY <1>11, <2>3 DEF redeemUse, worldVars, rowVars
  <2> QED
    BY <2>2, <2>3
<1>12. CASE ensureSubscriptionAssigned(w)
  <2>1. order.paidAt /\ orderType = "subscription"
    BY <1>12
    DEF ensureSubscriptionAssigned, PaymentInv, LeasedSteps, DoSteps, GrantInv
  <2>2. CASE audit \cap {"SUBSCRIPTION_ASSIGNED", "SUCCESS"} = {}
    <3>1. granted = 0 /\ order.status \notin Done
      BY <2>1, <2>2 DEF GrantInv, GrantRecord
    <3>2. granted' = 1
      BY <1>12, <2>2, <3>1 DEF ensureSubscriptionAssigned
    <3> QED
      BY <1>12, <2>1, <3>1, <3>2
      DEF ensureSubscriptionAssigned, GrantShape, worldVars, rowVars
  <2>3. CASE audit \cap {"SUBSCRIPTION_ASSIGNED", "SUCCESS"} # {}
    BY <1>12, <2>3 DEF ensureSubscriptionAssigned, worldVars, rowVars
  <2> QED
    BY <2>2, <2>3
<1>13. CASE markCompleted(w)
  <2>1. order.paidAt /\ granted = 1
    BY <1>13 DEF markCompleted, PaymentInv, LeasedSteps, DoSteps, GrantInv,
       GrantedSteps
  <2>2. CASE HoldsLease(w)
    <3>1. /\ order.status \notin Done
          /\ order'.status = "COMPLETED" /\ order'.paidAt
      BY <1>13, <2>1, <2>2 DEF markCompleted, HoldsLease, Write, Done
    <3> QED
      BY <1>13, <2>1, <3>1
      DEF markCompleted, CompleteShape, worldVars, grantVars, Done
  <2>3. CASE ~HoldsLease(w)
    BY <1>13, <2>3 DEF markCompleted, worldVars, grantVars
  <2> QED
    BY <2>2, <2>3
<1>14. CASE recheckCompleted(w)
  BY <1>14 DEF recheckCompleted, worldVars, grantVars
<1>15. CASE markFailed(w)
  BY <1>15 DEF markFailed, HoldsLease, Write, Done, worldVars, grantVars
<1> QED
  BY <1>1, <1>2, <1>3, <1>4, <1>5, <1>6, <1>7, <1>8, <1>9, <1>10, <1>11,
     <1>12, <1>13, <1>14, <1>15
  DEF WorkerStep, CheckPaidStep, NotificationStep, LeaseStep, GrantStep,
      CompletionStep

\* What any step does to the row.
LEMMA ShapeStep ==
    TypeOK /\ PaymentInv /\ GrantInv /\ [Next]_vars => Shape
<1> SUFFICES ASSUME TypeOK, PaymentInv, GrantInv, [Next]_vars PROVE Shape
  OBVIOUS
<1>1. CASE UNCHANGED vars
  BY <1>1 DEF Shape, QuietShape, SamePayment, SamePhase, vars
<1>2. ASSUME NEW w \in Workers, Request(w) PROVE Shape
  BY <1>2, RequestPc
  DEF Shape, QuietShape, SamePayment, SamePhase, worldVars, rowVars, grantVars
<1>3. ASSUME NEW w \in Workers, FaultStep(w) PROVE Shape
  BY <1>3
  DEF FaultStep, Crash, StatementError, SwallowedReadError, QueryOrderFailed,
      Shape, QuietShape, SamePayment, SamePhase, worldVars, rowVars, grantVars
<1>4. CASE Next
  BY <1>2, <1>3, <1>4, ShapeCreatorWorld, ShapeWorker DEF Next
<1> QED
  BY <1>1, <1>4

-----------------------------------------------------------------------------
(***************************************************************************)
(* The success e-mail.                                                     *)
(***************************************************************************)

\* Steps that neither announce nor leave Done.
LEMMA NoticeInvQuietStep ==
    ASSUME NoticeInv, NEW w \in Workers, NEW pc, pc \notin AnnounceSteps,
           Moves(w, pc), notices' = notices,
           order.status \in Done => order'.status \in Done
    PROVE  NoticeInv'
BY DEF NoticeInv, Moves

\* At most one worker announces the completion: every step.
LEMMA NoticeInvStep ==
    TypeOK /\ PaymentInv /\ GrantInv /\ NoticeInv /\ [Next]_vars => NoticeInv'
<1> SUFFICES ASSUME TypeOK, PaymentInv, GrantInv, NoticeInv, [Next]_vars
             PROVE  NoticeInv'
  OBVIOUS
<1>0. worker \in [Workers -> WorkerState]
  BY DEF TypeOK
<1>d. order.status \in Done => order'.status \in Done
  BY ShapeStep DEF Shape, ReceiveShape, RecogniseShape, GrantShape,
     CompleteShape, QuietShape, SamePhase
<1>1. CASE UNCHANGED vars \/ CreatorStep \/ WorldStep
  <2>1. UNCHANGED <<worker, notices>>
    BY <1>1 DEF vars, CreatorStep, WorldStep, CreatePayment, SavePaymentDetails,
       CreateOrderFailed, UserPays, Tick, Stall, ComeDue, RefundMoves, grantVars
  <2> QED
    BY <1>d, <2>1 DEF NoticeInv
<1>2. ASSUME NEW w \in Workers, Request(w) PROVE NoticeInv'
  BY <1>d, <1>2, RequestPc, NoticeInvQuietStep DEF AnnounceSteps, grantVars
<1>3. ASSUME NEW w \in Workers,
             CheckPaidStep(w) \/ NotificationStep(w) \/ LeaseStep(w)
                \/ GrantStep(w) \/ FaultStep(w)
      PROVE  NoticeInv'
  <2>1. notices' = notices
    BY <1>3 DEF CheckPaidStep, NotificationStep, LeaseStep, GrantStep,
       FaultStep, QueryOrder, CancelPayment, MarkCancelled, PersistTradeNo,
       confirmPaymentRejects, toPaid, alreadyProcessed,
       rejectUnsupportedOrderType, executeFulfillment, acquireLease,
       leaseContended, reloadLease, lookupCode, createCode, redeemCheck,
       redeemUse, ensureSubscriptionAssigned, applyAffiliateRebate, Crash,
       StatementError, SwallowedReadError, QueryOrderFailed, grantVars
  <2>2. \/ \E pc \in Steps \ AnnounceSteps : Goto(w, pc)
        \/ \E ok \in BOOLEAN : Finish(w, ok)
        \/ Crash(w)
    BY <1>3 DEF CheckPaidStep, NotificationStep, LeaseStep, GrantStep,
       FaultStep, QueryOrder, CancelPayment, MarkCancelled, PersistTradeNo,
       confirmPaymentRejects, toPaid, alreadyProcessed,
       rejectUnsupportedOrderType, executeFulfillment, acquireLease,
       leaseContended, reloadLease, lookupCode, createCode, redeemCheck,
       redeemUse, ensureSubscriptionAssigned, applyAffiliateRebate,
       StatementError, SwallowedReadError, QueryOrderFailed, Steps, DoSteps,
       AnnounceSteps, TypeOK
  <2>3. ASSUME Crash(w) PROVE Moves(w, "idle")
    BY <1>0, <2>3 DEF Crash, Idle, WorkerState, Moves
  <2>4. \E pc \in Steps \ AnnounceSteps : Moves(w, pc)
    BY <1>0, <2>2, <2>3, GotoPc, FinishPc DEF Steps, AnnounceSteps
  <2> QED
    BY <1>d, <2>1, <2>4, NoticeInvQuietStep
<1>4. ASSUME NEW w \in Workers, CompletionStep(w) PROVE NoticeInv'
  <2>1. CASE markCompleted(w)
    <3>1. CASE HoldsLease(w)
      <4>1. /\ order.status \notin Done
            /\ order'.status \in Done
            /\ Moves(w, "announce") /\ notices' = notices
        BY <1>0, <2>1, <3>1, GotoPc
        DEF markCompleted, HoldsLease, Write, Done, TypeOK, grantVars
      <4>2. notices = 0 /\ \A v \in Workers : worker[v].pc \notin AnnounceSteps
        BY <4>1 DEF NoticeInv
      <4> QED
        BY <4>1, <4>2 DEF NoticeInv, AnnounceSteps, Moves
    <3>2. CASE ~HoldsLease(w)
      BY <1>0, <1>d, <2>1, <3>2, GotoPc, NoticeInvQuietStep
      DEF markCompleted, AnnounceSteps, grantVars
    <3> QED
      BY <3>1, <3>2
  <2>2. CASE recheckCompleted(w) \/ markFailed(w)
    BY <1>0, <1>d, <2>2, GotoPc, FinishPc, NoticeInvQuietStep
    DEF recheckCompleted, markFailed, AnnounceSteps, grantVars
  <2>3. CASE checkAnnounced(w)
    <3>1. Moves(w, "idle") \/ Moves(w, "notify")
      BY <1>0, <2>3, GotoPc, FinishPc DEF checkAnnounced
    <3>2. worker[w].pc \in AnnounceSteps /\ UNCHANGED <<order, notices>>
      BY <2>3 DEF checkAnnounced, At, AnnounceSteps, rowVars, grantVars
    <3> QED
      BY <3>1, <3>2 DEF NoticeInv, Moves, AnnounceSteps
  <2>4. CASE announceCompleted(w)
    <3>1. /\ Moves(w, "idle") /\ order' = order
          /\ worker[w].pc \in AnnounceSteps /\ notices' = notices + 1
      BY <1>0, <2>4, FinishPc DEF announceCompleted, At, AnnounceSteps, rowVars
    <3>2. /\ order.status \in Done /\ notices = 0
          /\ \A v \in Workers : worker[v].pc \in AnnounceSteps => v = w
      BY <3>1 DEF NoticeInv
    <3> QED
      BY <3>1, <3>2 DEF NoticeInv, Moves, AnnounceSteps
  <2> QED
    BY <1>4, <2>1, <2>2, <2>3, <2>4 DEF CompletionStep
<1> QED
  BY <1>1, <1>2, <1>3, <1>4 DEF Next, WorkerStep

-----------------------------------------------------------------------------
(***************************************************************************)
(* The theorems.                                                           *)
(***************************************************************************)
Inv == TypeOK /\ PaymentInv /\ GrantInv /\ NoticeInv

\* The four parts together are inductive.
LEMMA InvInductive == Spec => []Inv
<1>1. Init => PaymentInv /\ GrantInv /\ NoticeInv
  BY DEF Init, PaymentInv, GrantInv, GrantRecord, NoticeInv, Idle, PaidStatuses,
     PaidSteps, LeasedSteps, DoSteps, BalanceSteps, GrantedSteps, RebatedSteps,
     AnnounceSteps, Done
<1>2. TypeOK /\ PaymentInv /\ GrantInv /\ NoticeInv /\ [Next]_vars
        => PaymentInv' /\ GrantInv' /\ NoticeInv'
  BY PaymentInvStep, GrantInvStep, NoticeInvStep
<1> QED
  BY <1>1, <1>2, TypeCorrect, PTL DEF Spec, Inv

\* For any number of workers, crashes, failing statements, stalls and duplicate
\* notifications: one credit, one rebate and one success e-mail per order.
THEOREM GrantedOnce == Spec => []GrantedAtMostOnce
<1>1. Inv => GrantedAtMostOnce
  BY PaymentAssumption
  DEF Inv, TypeOK, GrantInv, GrantRecord, NoticeInv, GrantedAtMostOnce
<1> QED
  BY <1>1, InvInductive, PTL

\* No path credits an order whose amount the provider does not hold.
THEOREM GrantNeedsPayment == Spec => []NoGrantWithoutPayment
<1>1. Inv => NoGrantWithoutPayment
  <2> SUFFICES ASSUME Inv, granted > 0
               PROVE  upstream = "paid" /\ order.paidAt
    BY DEF NoGrantWithoutPayment
  <2>1. granted = 1
    BY PaymentAssumption DEF Inv, TypeOK, GrantInv, GrantRecord
  <2> QED
    BY <2>1 DEF Inv, GrantInv, PaymentInv
<1> QED
  BY <1>1, InvInductive, PTL

\* COMPLETED, and every refund status behind it, implies the credit and a settled
\* rebate.
THEOREM CompletedMeansGranted == Spec => []CompletedIsGranted
<1>1. Inv => CompletedIsGranted
  BY DEF Inv, GrantInv, CompletedIsGranted
<1> QED
  BY <1>1, InvInductive, PTL

\* A recognised payment is never cancelled or expired away and a completed order
\* is never fulfilled again.
THEOREM NoRegression == Spec => StatusNeverRegresses
<1>1. Inv /\ Inv' /\ [Next]_vars =>
        [/\ order.paidAt => order'.paidAt /\ order'.status \notin
                                {"PENDING", "CANCELLED", "EXPIRED"}
         /\ order.status \in Done => order'.status \in Done]_vars
  <2> SUFFICES ASSUME Inv, Inv', [Next]_vars
               PROVE  /\ order.paidAt => order'.paidAt /\ order'.status \notin
                                {"PENDING", "CANCELLED", "EXPIRED"}
                      /\ order.status \in Done => order'.status \in Done
    OBVIOUS
  <2>1. Shape
    BY ShapeStep DEF Inv
  <2> QED
    BY <2>1 DEF Inv, PaymentInv, PaidStatuses, Done, Shape, ReceiveShape,
       RecogniseShape, GrantShape, CompleteShape, QuietShape, SamePhase
<1> QED
  BY <1>1, InvInductive, PTL DEF Spec, StatusNeverRegresses

\* The detailed order, with all its statements, workers and faults, implements
\* the abstract one.
THEOREM Refinement == Spec => ImplementsPaymentOrder
<1>1. Init => Abstract!Init
  BY DEF Init, Abstract!Init, phaseBar, Done
<1>2. Inv /\ [Next]_vars => [Abstract!Next]_(Abstract!vars)
  <2> SUFFICES ASSUME Inv, [Next]_vars
               PROVE  Abstract!Next \/ UNCHANGED Abstract!vars
    OBVIOUS
  <2>1. Shape
    BY ShapeStep DEF Inv
  <2>2. CASE ReceiveShape
    BY <2>2 DEF ReceiveShape, SamePhase, phaseBar, Abstract!Next,
       Abstract!Receive
  <2>3. CASE RecogniseShape
    BY <2>3 DEF RecogniseShape, SamePayment, phaseBar, Abstract!Next,
       Abstract!Recognise
  <2>4. CASE GrantShape
    BY <2>4 DEF GrantShape, SamePayment, SamePhase, phaseBar, Abstract!Next,
       Abstract!Grant
  <2>5. CASE CompleteShape
    BY <2>5 DEF CompleteShape, SamePayment, phaseBar, Abstract!Next,
       Abstract!Complete
  <2>6. CASE QuietShape
    BY <2>6 DEF QuietShape, SamePayment, SamePhase, phaseBar, Abstract!vars
  <2> QED
    BY <2>1, <2>2, <2>3, <2>4, <2>5, <2>6 DEF Shape
<1> QED
  BY <1>1, <1>2, InvInductive, PTL
  DEF Spec, ImplementsPaymentOrder, Abstract!Spec

=============================================================================
