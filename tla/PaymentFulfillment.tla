------------------------- MODULE PaymentFulfillment -------------------------
(***************************************************************************)
(* One payment order of Sub2API, from the row CreateOrder commits to the   *)
(* credit, and everybody who touches it: the goroutine that created it,    *)
(* the provider's webhooks, the cancel / expire / verify / reconcile paths *)
(* that ask the provider, and an administrator's retry.  Each statement    *)
(* sent to PostgreSQL or Redis is one step, so requests interleave between *)
(* statements; a request may crash, see a statement fail or stall.         *)
(*                                                                         *)
(* updated_at is only ever compared with a lease's version and with "five  *)
(* minutes ago" (paymentGraceMinutes, paymentFulfillmentLeaseDuration), so *)
(* it is kept as two facts: owners, the workers whose lease.version equals *)
(* the row's current updated_at, and order.stale, whether it is five       *)
(* minutes old.  Every UPDATE of the row is stamped by ent and so falsifies*)
(* both.                                                                   *)
(***************************************************************************)
EXTENDS Naturals, FiniteSets

CONSTANTS Workers,      \* goroutines serving requests and background jobs
          OrderTypes,   \* order types the table holds
          FaultKinds,   \* faults that may happen: see AllFaults
          MaxFaults     \* bound on the number of faults in a behaviour

AllFaults == {"crash", "error", "read", "query", "stall"}

ASSUME PaymentAssumption ==
    /\ OrderTypes \subseteq {"balance", "subscription", "other"}
    /\ FaultKinds \subseteq AllFaults
    /\ MaxFaults \in Nat

VARIABLES
    orderType,  \* payment_orders.order_type
    order,      \* payment_orders: status, stale, paidAt, tradeNo
    creator,    \* where the goroutine of CreateOrder is
    due,        \* expires_at <= now
    upstream,   \* the provider's own record of this order
    webhook,    \* the provider still owes us a notification (not acknowledged)
    code,       \* the order's row in redeem_codes
    audit,      \* payment_audit_logs of the order that later steps read
    granted,    \* how often the user received what the order is for
    rebates,    \* how often the inviter received the rebate
    notices,    \* how often the success e-mail was dispatched
    worker,     \* what each goroutine is doing
    owners,     \* workers whose lease.version is the row's updated_at
    claimant,   \* history: the workers that last won the lease UPDATE
    faults      \* faults still allowed

vars == <<orderType, order, creator, due, upstream, webhook, code, audit,
          granted, rebates, notices, worker, owners, claimant, faults>>

rowVars    == <<order, owners, claimant>>
grantVars  == <<code, audit, granted, rebates, notices>>
worldVars  == <<orderType, creator, due, upstream>>

(***************************************************************************)
(* Types.  REFUND stands for the six refund statuses (psIsRefundStatus):   *)
(* fulfillment treats them alike; module PaymentRefund tells them apart.   *)
(***************************************************************************)
Statuses == {"PENDING", "PAID", "RECHARGING", "COMPLETED", "EXPIRED",
             "CANCELLED", "FAILED", "REFUND"}
Done     == {"COMPLETED", "REFUND"}
Sources  == {"webhook", "cancel", "expire", "poll", "retry"}
DoSteps  == {"lookup", "create", "redeem", "use", "assign", "rebate",
             "complete", "recheck"}
Steps    == {"idle", "query", "close", "markCancel", "persist", "confirm",
             "processed", "load", "acquire", "contend", "reload", "announce",
             "notify", "fail"} \cup DoSteps
AuditLog == {"SUBSCRIPTION_ASSIGNED", "AFFILIATE_REBATE", "SUCCESS"}

WorkerState == [pc : Steps, src : Sources, persist : BOOLEAN]
Idle        == [pc |-> "idle", src |-> "poll", persist |-> FALSE]

\* Type correctness of the order, its side tables and the goroutines.
TypeOK ==
    /\ orderType \in OrderTypes
    /\ order \in [status : Statuses, stale : BOOLEAN, paidAt : BOOLEAN,
                  tradeNo : BOOLEAN]
    /\ creator \in {"invoke", "save", "fail", "created", "failed"}
    /\ due \in BOOLEAN
    /\ upstream \in {"none", "open", "paid", "mispaid", "closed"}
    /\ webhook \in BOOLEAN
    /\ code \in {"absent", "unused", "used"}
    /\ audit \in SUBSET AuditLog
    /\ granted \in Nat /\ rebates \in Nat /\ notices \in Nat
    /\ worker \in [Workers -> WorkerState]
    /\ owners \in SUBSET Workers
    /\ claimant \in SUBSET Workers
    /\ faults \in Nat

Init ==
    /\ orderType \in OrderTypes
    /\ order = [status |-> "PENDING", stale |-> FALSE, paidAt |-> FALSE,
                tradeNo |-> FALSE]
    /\ creator = "invoke"
    /\ due = FALSE
    /\ upstream = "none"
    /\ webhook = FALSE
    /\ code = "absent"
    /\ audit = {}
    /\ granted = 0 /\ rebates = 0 /\ notices = 0
    /\ worker = [w \in Workers |-> Idle]
    /\ owners = {}
    /\ claimant = {}
    /\ faults = MaxFaults

-----------------------------------------------------------------------------
(***************************************************************************)
(* Helpers.                                                                *)
(***************************************************************************)

\* An UPDATE of the order row: ent stamps updated_at, so every lease version
\* read before it is out of date.
Write(row) == order' = [row EXCEPT !.stale = FALSE] /\ owners' = {}

\* Worker w goes on to step pc; Goto leaves the row alone.
Goto(w, pc) == worker' = [worker EXCEPT ![w].pc = pc]

\* The request of w ends.  A webhook answered with success is acknowledged and
\* the provider stops redelivering; after an error it redelivers.
Finish(w, ok) ==
    /\ worker' = [worker EXCEPT ![w] = Idle]
    /\ webhook' = (webhook /\ ~(ok /\ worker[w].src = "webhook"))

At(w, pc) == worker[w].pc = pc

NoFault == faults' = faults
Fault(kind) == kind \in FaultKinds /\ faults > 0 /\ faults' = faults - 1

-----------------------------------------------------------------------------
(***************************************************************************)
(* CreateOrder after createOrderInTx committed the PENDING row.            *)
(***************************************************************************)

\* prov.CreatePayment: the provider opens its order; its answer may be lost.
CreatePayment ==
    /\ creator = "invoke"
    /\ \/ upstream' = "open" /\ creator' \in {"save", "fail"}
       \/ upstream' = upstream /\ creator' = "fail"
    /\ UNCHANGED <<orderType, due, webhook, worker, faults>>
    /\ UNCHANGED rowVars /\ UNCHANGED grantVars

\* The unconditional UPDATE with the payment details; only some providers
\* return a trade number here.
SavePaymentDetails ==
    /\ creator = "save"
    /\ \/ /\ \E known \in BOOLEAN :
                Write([order EXCEPT !.tradeNo = @ \/ known])
          /\ creator' = "created"
          /\ claimant' = claimant
       \/ creator' = "fail" /\ UNCHANGED rowVars
    /\ UNCHANGED <<orderType, due, upstream, webhook, worker, faults>>
    /\ UNCHANGED grantVars

\* The unconditional UPDATE to FAILED when invokeProvider returned an error;
\* its own error is ignored.
CreateOrderFailed ==
    /\ creator = "fail"
    /\ creator' = "failed"
    /\ \/ Write([order EXCEPT !.status = "FAILED"]) /\ claimant' = claimant
       \/ UNCHANGED rowVars
    /\ UNCHANGED <<orderType, due, upstream, webhook, worker, faults>>
    /\ UNCHANGED grantVars

-----------------------------------------------------------------------------
(***************************************************************************)
(* The world: the payer, the clock, the refund paths.                      *)
(***************************************************************************)

\* The payer pays on the provider's page (reached through the details CreateOrder
\* returned), with the order's amount or, "mispaid", with another one.
UserPays ==
    /\ upstream = "open"
    /\ creator = "created"
    /\ upstream' \in {"paid", "mispaid"}
    /\ webhook' = TRUE
    /\ UNCHANGED <<orderType, creator, due, worker, faults>>
    /\ UNCHANGED rowVars /\ UNCHANGED grantVars

\* Workers that own the RECHARGING row or are about to read their lease.
Holders == owners \cup {w \in Workers : At(w, "reload")}

\* Five minutes pass since the row's last UPDATE while no fulfillment runs.
Tick ==
    /\ ~order.stale
    /\ Holders = {}
    /\ order' = [order EXCEPT !.stale = TRUE]
    /\ UNCHANGED <<webhook, worker, owners, claimant, faults>>
    /\ UNCHANGED worldVars /\ UNCHANGED grantVars

\* They pass while a fulfillment runs: the request stalls past its lease.
Stall ==
    /\ ~order.stale
    /\ Holders # {}
    /\ Fault("stall")
    /\ order' = [order EXCEPT !.stale = TRUE]
    /\ UNCHANGED <<webhook, worker, owners, claimant>>
    /\ UNCHANGED worldVars /\ UNCHANGED grantVars

\* expires_at passes.
ComeDue ==
    /\ ~due
    /\ due' = TRUE
    /\ UNCHANGED <<orderType, creator, upstream, webhook, worker, faults>>
    /\ UNCHANGED rowVars /\ UNCHANGED grantVars

\* The refund paths move a COMPLETED order among COMPLETED and the refund
\* statuses (restoreStatus, markRefundOk, ...); see PaymentRefund.
RefundMoves ==
    /\ order.status \in Done
    /\ \E s \in Done : Write([order EXCEPT !.status = s])
    /\ UNCHANGED <<webhook, worker, claimant, faults>>
    /\ UNCHANGED worldVars /\ UNCHANGED grantVars

-----------------------------------------------------------------------------
(***************************************************************************)
(* Requests arriving.                                                      *)
(***************************************************************************)

\* A goroutine takes up a request; needsTradeNo records that the order it read
\* had no trade number, so checkPaid will persist the provider's.
Begin(w, src, pc) ==
    /\ At(w, "idle")
    /\ worker' = [worker EXCEPT ![w] =
                    [pc |-> pc, src |-> src, persist |-> ~order.tradeNo]]
    /\ UNCHANGED <<webhook, faults>>
    /\ UNCHANGED worldVars /\ UNCHANGED rowVars /\ UNCHANGED grantVars

\* handleNotify: a verified success notification, first delivery or duplicate.
handleNotify(w) ==
    /\ upstream \in {"paid", "mispaid"}
    /\ Begin(w, "webhook", "confirm")

\* CancelOrder and AdminCancelOrder.
CancelOrder(w) == order.status = "PENDING" /\ Begin(w, "cancel", "query")

\* ExpireTimedOutOrders of the background job.
ExpireTimedOutOrder(w) ==
    order.status = "PENDING" /\ due /\ Begin(w, "expire", "query")

\* VerifyOrderByOutTradeNo, asked for by the user's browser.
VerifyOrder(w) ==
    order.status \in {"PENDING", "EXPIRED"} /\ Begin(w, "poll", "query")

\* ReconcilePendingPaymentOrders of the background job.
ReconcilePendingOrder(w) ==
    order.status = "PENDING" /\ ~due /\ Begin(w, "poll", "query")

\* Mutant: the retry of an order that nobody paid.
RetryFulfillment_unpaid(w) ==
    /\ order.status \in {"FAILED", "PAID", "RECHARGING"}
    /\ orderType # "other"
    /\ Begin(w, "retry", "load")

\* RetryFulfillment by an administrator.
RetryFulfillment(w) ==
    /\ order.paidAt
    /\ order.status \in {"FAILED", "PAID", "RECHARGING"}
    /\ orderType # "other"
    /\ Begin(w, "retry", "load")

-----------------------------------------------------------------------------
(***************************************************************************)
(* checkPaidWithOptions and cancelCore.                                    *)
(***************************************************************************)

Cancels(w) == worker[w].src \in {"cancel", "expire"}

\* QueryOrder, answered: paid leads to a notification, anything else back to the
\* caller; a cancelling caller closes the provider's order first.
QueryOrder(w) ==
    /\ At(w, "query")
    /\ \/ /\ upstream \in {"paid", "mispaid"}
          /\ Goto(w, IF worker[w].persist THEN "persist" ELSE "confirm")
          /\ webhook' = webhook
       \/ /\ upstream \notin {"paid", "mispaid"}
          /\ Cancels(w)
          /\ Goto(w, "close")
          /\ webhook' = webhook
       \/ /\ upstream \notin {"paid", "mispaid"}
          /\ ~Cancels(w)
          /\ Finish(w, TRUE)
    /\ NoFault
    /\ UNCHANGED worldVars /\ UNCHANGED rowVars /\ UNCHANGED grantVars

\* No provider, no reference or no answer: checkPaid returns "" and a cancelling
\* caller goes on to mark the order.
QueryOrderFailed(w) ==
    /\ At(w, "query")
    /\ Fault("query")
    /\ \/ Cancels(w) /\ Goto(w, "markCancel") /\ webhook' = webhook
       \/ ~Cancels(w) /\ Finish(w, TRUE)
    /\ UNCHANGED worldVars /\ UNCHANGED rowVars /\ UNCHANGED grantVars

\* CancelPayment, its result ignored: it closes an order nobody paid.
CancelPayment(w) ==
    /\ At(w, "close")
    /\ Goto(w, "markCancel")
    /\ \/ upstream = "open" /\ upstream' = "closed"
       \/ upstream' = upstream
    /\ NoFault
    /\ UNCHANGED <<orderType, creator, due, webhook>>
    /\ UNCHANGED rowVars /\ UNCHANGED grantVars

\* Mutant: the UPDATE without WHERE status = PENDING.
MarkCancelled_unconditional(w) ==
    /\ At(w, "markCancel")
    /\ Write([order EXCEPT !.status =
                IF worker[w].src = "expire" THEN "EXPIRED" ELSE "CANCELLED"])
    /\ Finish(w, TRUE)
    /\ NoFault /\ claimant' = claimant
    /\ UNCHANGED worldVars /\ UNCHANGED grantVars

\* cancelCore's UPDATE ... WHERE status = PENDING.
MarkCancelled(w) ==
    /\ At(w, "markCancel")
    /\ \/ /\ order.status = "PENDING"
          /\ Write([order EXCEPT !.status =
                      IF worker[w].src = "expire" THEN "EXPIRED"
                                                  ELSE "CANCELLED"])
       \/ order.status # "PENDING" /\ UNCHANGED <<order, owners>>
    /\ Finish(w, TRUE)
    /\ NoFault /\ claimant' = claimant
    /\ UNCHANGED worldVars /\ UNCHANGED grantVars

\* checkPaid's unconditional UPDATE of the trade number; an error is logged.
PersistTradeNo(w) ==
    /\ At(w, "persist")
    /\ Goto(w, "confirm")
    /\ \/ Write([order EXCEPT !.tradeNo = TRUE])
       \/ UNCHANGED <<order, owners>>
    /\ NoFault /\ claimant' = claimant /\ webhook' = webhook
    /\ UNCHANGED worldVars /\ UNCHANGED grantVars

-----------------------------------------------------------------------------
(***************************************************************************)
(* HandlePaymentNotification: confirmPayment, toPaid, alreadyProcessed.    *)
(***************************************************************************)

\* toPaid's WHERE clause.
Payable == \/ order.status \in {"PENDING", "CANCELLED"}
           \/ order.status = "EXPIRED" /\ ~order.stale

\* A notification that fails confirmPayment's checks against the order.
confirmPaymentRejects(w) ==
    /\ At(w, "confirm")
    /\ upstream = "mispaid"
    /\ Finish(w, FALSE)
    /\ NoFault
    /\ UNCHANGED worldVars /\ UNCHANGED rowVars /\ UNCHANGED grantVars

toPaid(w) ==
    /\ At(w, "confirm")
    /\ upstream = "paid"
    /\ \/ /\ Payable
          /\ Write([order EXCEPT !.status = "PAID", !.paidAt = TRUE,
                                 !.tradeNo = TRUE])
          /\ Goto(w, "load")
       \/ ~Payable /\ UNCHANGED <<order, owners>> /\ Goto(w, "processed")
    /\ NoFault /\ claimant' = claimant /\ webhook' = webhook
    /\ UNCHANGED worldVars /\ UNCHANGED grantVars

alreadyProcessed(w) ==
    /\ At(w, "processed")
    /\ \/ /\ order.status \in {"FAILED", "PAID", "RECHARGING"}
          /\ Goto(w, "load") /\ webhook' = webhook
       \/ /\ order.status \notin {"FAILED", "PAID", "RECHARGING"}
          /\ Finish(w, TRUE)
    /\ NoFault
    /\ UNCHANGED worldVars /\ UNCHANGED rowVars /\ UNCHANGED grantVars

-----------------------------------------------------------------------------
(***************************************************************************)
(* executeFulfillment and the lease.                                       *)
(***************************************************************************)

\* Mutant: the row gets a status the rest of the lifecycle does not know.
rejectUnsupportedOrderType_newStatus(w) ==
    /\ At(w, "load")
    /\ orderType = "other"
    /\ Write([order EXCEPT !.status = "REJECTED"])
    /\ Finish(w, TRUE)
    /\ NoFault /\ claimant' = claimant
    /\ UNCHANGED worldVars /\ UNCHANGED grantVars

\* An order of a type the code does not fulfil is marked FAILED and the
\* notification is answered with success.
rejectUnsupportedOrderType(w) ==
    /\ At(w, "load")
    /\ orderType = "other"
    /\ \/ /\ order.status \in {"PAID", "RECHARGING"}
          /\ Write([order EXCEPT !.status = "FAILED"])
       \/ /\ order.status \notin {"PAID", "RECHARGING"}
          /\ UNCHANGED <<order, owners>>
    /\ Finish(w, TRUE)
    /\ NoFault /\ claimant' = claimant
    /\ UNCHANGED worldVars /\ UNCHANGED grantVars

\* ExecuteBalanceFulfillment and ExecuteSubscriptionFulfillment up to the lease.
executeFulfillment(w) ==
    /\ At(w, "load")
    /\ orderType # "other"
    /\ \/ /\ order.status \in {"PAID", "FAILED", "RECHARGING"}
          /\ Goto(w, "acquire") /\ webhook' = webhook
       \/ /\ order.status \notin {"PAID", "FAILED", "RECHARGING"}
          /\ Finish(w, order.status = "COMPLETED")
    /\ NoFault
    /\ UNCHANGED worldVars /\ UNCHANGED rowVars /\ UNCHANGED grantVars

\* Mutant: a RECHARGING order left behind by a dead worker is never taken over.
Leasable_noTakeover == order.status \in {"PAID", "FAILED"}

\* The lease UPDATE's WHERE clause.
Leasable == \/ order.status \in {"PAID", "FAILED"}
            \/ order.status = "RECHARGING" /\ order.stale

\* acquirePaymentFulfillmentLease: the conditional UPDATE ...
acquireLease(w) ==
    /\ At(w, "acquire")
    /\ \/ /\ Leasable
          /\ Write([order EXCEPT !.status = "RECHARGING"])
          /\ claimant' = {w}
          /\ Goto(w, "reload")
       \/ ~Leasable /\ UNCHANGED rowVars /\ Goto(w, "contend")
    /\ NoFault /\ webhook' = webhook
    /\ UNCHANGED worldVars /\ UNCHANGED grantVars

\* ... the reload when it changed no row ...
leaseContended(w) ==
    /\ At(w, "contend")
    /\ Finish(w, order.status = "COMPLETED")
    /\ NoFault
    /\ UNCHANGED worldVars /\ UNCHANGED rowVars /\ UNCHANGED grantVars

\* ... and the separate SELECT that reads the version of the lease it won.
reloadLease(w) ==
    /\ At(w, "reload")
    /\ \/ /\ order.status = "RECHARGING"
          /\ owners' = owners \cup {w}
          /\ Goto(w, IF orderType = "balance" THEN "lookup" ELSE "assign")
          /\ webhook' = webhook
       \/ /\ order.status # "RECHARGING"
          /\ owners' = owners
          /\ Finish(w, FALSE)
    /\ NoFault
    /\ UNCHANGED <<order, claimant>>
    /\ UNCHANGED worldVars /\ UNCHANGED grantVars

-----------------------------------------------------------------------------
(***************************************************************************)
(* doBalance, doSub and what they share.                                   *)
(***************************************************************************)

\* Mutant: any existing code is taken for a redeemed one.
lookupCode_existsIsUsed(w) ==
    /\ At(w, "lookup")
    /\ Goto(w, IF code = "absent" THEN "create" ELSE "rebate")
    /\ NoFault /\ webhook' = webhook
    /\ UNCHANGED worldVars /\ UNCHANGED rowVars /\ UNCHANGED grantVars

\* GetByCode and resolveRedeemAction.
lookupCode(w) ==
    /\ At(w, "lookup")
    /\ Goto(w, CASE code = "absent" -> "create"
                 [] code = "unused" -> "redeem"
                 [] code = "used"   -> "rebate")
    /\ NoFault /\ webhook' = webhook
    /\ UNCHANGED worldVars /\ UNCHANGED rowVars /\ UNCHANGED grantVars

\* CreateCode; redeem_codes.code is unique.
createCode(w) ==
    /\ At(w, "create")
    /\ \/ code = "absent" /\ code' = "unused" /\ Goto(w, "redeem")
       \/ code # "absent" /\ code' = code /\ Goto(w, "fail")
    /\ NoFault /\ webhook' = webhook
    /\ UNCHANGED <<audit, granted, rebates, notices>>
    /\ UNCHANGED worldVars /\ UNCHANGED rowVars

\* redeem: the Redis lock and the check of the code.  The lock only reduces
\* contention (a Redis error lets the caller through and it expires after ten
\* seconds), so another holder makes it fail or not.
redeemCheck(w) ==
    /\ At(w, "redeem")
    /\ \/ code = "unused" /\ Goto(w, "use")
       \/ code # "unused" /\ Goto(w, "fail")
       \/ (\E v \in Workers \ {w} : At(v, "use")) /\ Goto(w, "fail")
    /\ NoFault /\ webhook' = webhook
    /\ UNCHANGED worldVars /\ UNCHANGED rowVars /\ UNCHANGED grantVars

\* Mutant: the UPDATE of the code without WHERE status = 'unused'.
redeemUse_unconditional(w) ==
    /\ At(w, "use")
    /\ code' = "used" /\ granted' = granted + 1
    /\ Goto(w, "rebate")
    /\ NoFault /\ webhook' = webhook
    /\ UNCHANGED <<audit, rebates, notices>>
    /\ UNCHANGED worldVars /\ UNCHANGED rowVars

\* redeem: the transaction, UPDATE redeem_codes ... WHERE status = 'unused' and
\* the user's balance.
redeemUse(w) ==
    /\ At(w, "use")
    /\ \/ /\ code = "unused"
          /\ code' = "used" /\ granted' = granted + 1
          /\ Goto(w, "rebate")
       \/ code # "unused" /\ UNCHANGED <<code, granted>> /\ Goto(w, "fail")
    /\ NoFault /\ webhook' = webhook
    /\ UNCHANGED <<audit, rebates, notices>>
    /\ UNCHANGED worldVars /\ UNCHANGED rowVars

\* Mutant: the assignment without its audit claim.
ensureSubscriptionAssigned_unclaimed(w) ==
    /\ At(w, "assign")
    /\ granted' = granted + 1
    /\ Goto(w, "rebate")
    /\ NoFault /\ webhook' = webhook
    /\ UNCHANGED <<audit, code, rebates, notices>>
    /\ UNCHANGED worldVars /\ UNCHANGED rowVars

\* ensurePaymentSubscriptionAssigned: one transaction, made exclusive by the
\* unique (order_id, action) of the audit row it inserts.
ensureSubscriptionAssigned(w) ==
    /\ At(w, "assign")
    /\ \/ /\ audit \cap {"SUBSCRIPTION_ASSIGNED", "SUCCESS"} = {}
          /\ audit' = audit \cup {"SUBSCRIPTION_ASSIGNED"}
          /\ granted' = granted + 1
       \/ /\ audit \cap {"SUBSCRIPTION_ASSIGNED", "SUCCESS"} # {}
          /\ UNCHANGED <<audit, granted>>
    /\ Goto(w, "rebate")
    /\ NoFault /\ webhook' = webhook
    /\ UNCHANGED <<code, rebates, notices>>
    /\ UNCHANGED worldVars /\ UNCHANGED rowVars

\* applyAffiliateRebateForOrder: one transaction that claims the audit row,
\* accrues and, where there is nothing to accrue, turns the row into SKIPPED.
applyAffiliateRebate(w) ==
    /\ At(w, "rebate")
    /\ \/ /\ "AFFILIATE_REBATE" \notin audit
          /\ audit' = audit \cup {"AFFILIATE_REBATE"}
          /\ rebates' \in {rebates, rebates + 1}
       \/ "AFFILIATE_REBATE" \in audit /\ UNCHANGED <<audit, rebates>>
    /\ Goto(w, "complete")
    /\ NoFault /\ webhook' = webhook
    /\ UNCHANGED <<code, granted, notices>>
    /\ UNCHANGED worldVars /\ UNCHANGED rowVars

\* The WHERE clause of markCompleted and markFailed.
HoldsLease(w) == order.status = "RECHARGING" /\ w \in owners

\* markCompleted: the conditional UPDATE ...
markCompleted(w) ==
    /\ At(w, "complete")
    /\ \/ /\ HoldsLease(w)
          /\ Write([order EXCEPT !.status = "COMPLETED"])
          /\ Goto(w, "announce")
       \/ ~HoldsLease(w) /\ UNCHANGED <<order, owners>> /\ Goto(w, "recheck")
    /\ NoFault /\ webhook' = webhook /\ claimant' = claimant
    /\ UNCHANGED worldVars /\ UNCHANGED grantVars

\* ... the reload when it changed no row ...
recheckCompleted(w) ==
    /\ At(w, "recheck")
    /\ \/ order.status = "COMPLETED" /\ Finish(w, TRUE)
       \/ order.status # "COMPLETED" /\ Goto(w, "fail") /\ webhook' = webhook
    /\ owners' = owners
    /\ NoFault /\ UNCHANGED <<order, claimant>>
    /\ UNCHANGED worldVars /\ UNCHANGED grantVars

\* ... hasAuditLog ...
checkAnnounced(w) ==
    /\ At(w, "announce")
    /\ \/ "SUCCESS" \in audit /\ Finish(w, TRUE)
       \/ "SUCCESS" \notin audit /\ Goto(w, "notify") /\ webhook' = webhook
    /\ NoFault
    /\ UNCHANGED worldVars /\ UNCHANGED rowVars /\ UNCHANGED grantVars

\* ... and writeAuditLog (its error ignored) with the e-mail.
announceCompleted(w) ==
    /\ At(w, "notify")
    /\ audit' \in {audit, audit \cup {"SUCCESS"}}
    /\ notices' = notices + 1
    /\ Finish(w, TRUE)
    /\ NoFault
    /\ UNCHANGED <<code, granted, rebates>>
    /\ UNCHANGED worldVars /\ UNCHANGED rowVars

\* markFailed, after any error in doBalance or doSub.
markFailed(w) ==
    /\ At(w, "fail")
    /\ \/ HoldsLease(w) /\ Write([order EXCEPT !.status = "FAILED"])
       \/ ~HoldsLease(w) /\ order' = order /\ owners' = owners \ {w}
    /\ Finish(w, FALSE)
    /\ NoFault /\ claimant' = claimant
    /\ UNCHANGED worldVars /\ UNCHANGED grantVars

-----------------------------------------------------------------------------
(***************************************************************************)
(* Faults.                                                                 *)
(***************************************************************************)

\* The process dies, or a statement outside doBalance/doSub fails and the
\* request ends with an error: nothing is written and nothing acknowledged.
Crash(w) ==
    /\ worker[w].pc # "idle"
    /\ Fault("crash")
    /\ worker' = [worker EXCEPT ![w] = Idle]
    /\ owners' = owners \ {w}
    /\ UNCHANGED <<webhook, order, claimant>>
    /\ UNCHANGED worldVars /\ UNCHANGED grantVars

\* A statement of doBalance or doSub fails: markFailed follows.  At the step
\* after a transaction this is also a commit whose answer was lost, or the
\* error of a read or a cache invalidation behind the commit.
StatementError(w) ==
    /\ worker[w].pc \in DoSteps \cup {"announce"}
    /\ Fault("error")
    /\ Goto(w, "fail")
    /\ webhook' = webhook
    /\ UNCHANGED worldVars /\ UNCHANGED rowVars /\ UNCHANGED grantVars

\* confirmPayment and alreadyProcessed answer a failed SELECT with success, and
\* handleNotify a failed provider lookup.
SwallowedReadError(w) ==
    /\ worker[w].pc \in {"confirm", "processed"}
    /\ Fault("read")
    /\ Finish(w, TRUE)
    /\ UNCHANGED worldVars /\ UNCHANGED rowVars /\ UNCHANGED grantVars

-----------------------------------------------------------------------------
CreatorStep == CreatePayment \/ SavePaymentDetails \/ CreateOrderFailed

Request(w) ==
    \/ handleNotify(w) \/ CancelOrder(w) \/ ExpireTimedOutOrder(w)
    \/ VerifyOrder(w) \/ ReconcilePendingOrder(w) \/ RetryFulfillment(w)

CheckPaidStep(w) ==
    \/ QueryOrder(w) \/ CancelPayment(w) \/ MarkCancelled(w)
    \/ PersistTradeNo(w)

NotificationStep(w) ==
    \/ confirmPaymentRejects(w) \/ toPaid(w) \/ alreadyProcessed(w)

LeaseStep(w) ==
    \/ rejectUnsupportedOrderType(w) \/ executeFulfillment(w)
    \/ acquireLease(w) \/ leaseContended(w) \/ reloadLease(w)

GrantStep(w) ==
    \/ lookupCode(w) \/ createCode(w) \/ redeemCheck(w) \/ redeemUse(w)
    \/ ensureSubscriptionAssigned(w) \/ applyAffiliateRebate(w)

CompletionStep(w) ==
    \/ markCompleted(w) \/ recheckCompleted(w) \/ checkAnnounced(w)
    \/ announceCompleted(w) \/ markFailed(w)

WorkerStep(w) ==
    \/ CheckPaidStep(w) \/ NotificationStep(w) \/ LeaseStep(w)
    \/ GrantStep(w) \/ CompletionStep(w)

FaultStep(w) ==
    \/ Crash(w) \/ StatementError(w) \/ SwallowedReadError(w)
    \/ QueryOrderFailed(w)

WorldStep == UserPays \/ Tick \/ Stall \/ ComeDue \/ RefundMoves

Next ==
    \/ CreatorStep
    \/ WorldStep
    \/ \E w \in Workers : Request(w) \/ WorkerStep(w) \/ FaultStep(w)

Spec == Init /\ [][Next]_vars

-----------------------------------------------------------------------------
(***************************************************************************)
(* Fairness.  A request runs to its end (Go's scheduler, bounded calls); a *)
(* provider redelivers a notification until it is answered with success    *)
(* (strong fairness: a goroutine is always free in the server, not always  *)
(* in this model's pool); time passes.  Nobody has to pay, cancel, verify  *)
(* or retry.                                                               *)
(***************************************************************************)
Redeliver == webhook /\ \E w \in Workers : handleNotify(w)

Fairness ==
    /\ \A w \in Workers : WF_vars(WorkerStep(w))
    /\ SF_vars(Redeliver)
    /\ WF_vars(Tick)

FairSpec == Spec /\ Fairness

\* With the background job of PaymentOrderExpiryService running as well.
BackgroundJob ==
    \E w \in Workers : ReconcilePendingOrder(w) \/ ExpireTimedOutOrder(w)

FairSpecWithJob == FairSpec /\ SF_vars(BackgroundJob)

-----------------------------------------------------------------------------
(***************************************************************************)
(* Safety.                                                                 *)
(***************************************************************************)

\* Whatever workers overtake each other, crash or retry, an order credits the
\* user once, its inviter once and sends its success e-mail once: the guards
\* are the unused check of redeem_codes, the unique audit rows and the lease.
GrantedAtMostOnce == granted <= 1 /\ rebates <= 1 /\ notices <= 1

\* Goods leave the house only against the order's own amount: no path (retry of
\* an order whose creation failed, a mispaid notification, a poll) reaches the
\* credit without the provider holding the right payment.
NoGrantWithoutPayment == granted > 0 => upstream = "paid" /\ order.paidAt

\* An order shown as COMPLETED (or refunded from there) has been credited and its
\* rebate settled, although the status and the credit are written by different
\* transactions and possibly by different workers.
CompletedIsGranted ==
    order.status \in Done => granted = 1 /\ "AFFILIATE_REBATE" \in audit

\* markFailed: "The lease version prevents a stale worker from overwriting a newer
\* owner" - only the worker that last won the lease UPDATE can pass the version
\* check of markFailed and markCompleted.
LeaseIsExclusive ==
    \A w \in Workers : HoldsLease(w) => w \in claimant

(***************************************************************************)
(* Action properties.                                                      *)
(***************************************************************************)

\* A cancellation or expiry that read PENDING before the payment arrived never
\* takes a recognised payment back, and a completed order never becomes
\* fulfillable again (a late markFailed, a stale lease, a creation failure).
StatusNeverRegresses ==
    [][/\ order.paidAt => order'.paidAt /\ order'.status \notin
                                {"PENDING", "CANCELLED", "EXPIRED"}
       /\ order.status \in Done => order'.status \in Done]_vars

(***************************************************************************)
(* Liveness.                                                               *)
(***************************************************************************)

\* A recognised payment whose notification is not yet acknowledged ends
\* COMPLETED, through any bounded number of crashes, failing statements and
\* stalls; an order of an unsupported type ends FAILED instead.
PaidIsCompleted ==
    (order.paidAt /\ webhook)
        ~> (order.status \in Done \/ orderType = "other")

\* docs/PAYMENT.md: "If the user has actually paid but the callback was delayed,
\* the system will reconcile automatically".
DelayedPaymentIsReconciled == (upstream = "paid") ~> order.paidAt

(***************************************************************************)
(* Refinement: the detailed order implements PaymentOrder.                 *)
(***************************************************************************)
phaseBar == IF order.status \in Done THEN "done"
            ELSE IF order.paidAt THEN "paid" ELSE "unpaid"

Abstract == INSTANCE PaymentOrder WITH
                received <- upstream = "paid",
                phase    <- phaseBar,
                goods    <- granted

\* Seen through its status, the credit and the provider's record, every step of
\* the service is a step of PaymentOrder or changes nothing there.
ImplementsPaymentOrder == Abstract!Spec
=============================================================================
