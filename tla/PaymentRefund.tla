--------------------------- MODULE PaymentRefund ---------------------------
(***************************************************************************)
(* Refund of one order that fulfillment completed: the user's request, the *)
(* administrators' refund requests (PrepareRefund, then ExecuteRefund) and *)
(* their queries of a refund the gateway left open (QueryAndFinalizeRefund)*)
(* run as concurrent HTTP handlers.  Each statement outside a transaction  *)
(* is a step; a transaction is one step, because its first statement locks *)
(* the order row.                                                          *)
(*                                                                         *)
(* What the order gave and a refund takes back is a number: the balance of *)
(* a balance order's user, the days left on a subscription order's         *)
(* subscription.  Audit rows that no later code reads and whose insertion  *)
(* may fail unnoticed (REFUND_REQUESTED, REFUND_GATEWAY_FAILED,            *)
(* REFUND_NO_TRADE_NO, REFUND_QUERY_PENDING...) are left out.              *)
(***************************************************************************)
EXTENDS Integers, FiniteSets

CONSTANTS Admins,       \* handlers serving administrators' refund requests
          OrderTypes,   \* order types the table holds
          Credit,       \* what the order gave: o.Amount, or its days
          MaxExtra,     \* bound: what the user may own beyond Credit at first
          MaxAttempts,  \* bound on the calls of the gateway's refund
          FaultKinds,   \* faults that may happen, see AllFaults
          MaxFaults     \* bound on the number of faults in a behaviour

\* answer: the gateway accepts a refund and the handler is told of an error.
AllFaults == {"stop", "error", "audit", "tail", "answer"}

ASSUME RefundAssumption ==
    /\ OrderTypes \subseteq {"balance", "subscription"}
    /\ Credit \in Nat \ {0}
    /\ MaxExtra \in Nat
    /\ MaxAttempts \in Nat \ {0}
    /\ FaultKinds \subseteq AllFaults
    /\ MaxFaults \in Nat

VARIABLES
    order,      \* payment_orders: type, trade, status, refund
    user,       \* RequestRefund: idle, or its reads passed
    funds,      \* users.balance, or days left on the subscription
    active,     \* the subscription's row is not (soft) deleted
    audit,      \* actions logged for the order in payment_audit_logs
    pending,    \* detail of the order's REFUND_PENDING row
    gateway,    \* the provider's record of each refund requested
    attempts,   \* number of refunds requested from the provider
    unheard,    \* history: refunds accepted with an error for an answer
    taken,      \* history: what refunds took and did not give back
    admin,      \* handlers: step, and the RefundPlan
    faults      \* faults still allowed; history: a log row or an answer is lost

vars == <<order, user, funds, active, audit, pending, gateway, attempts,
          unheard, taken, admin, faults>>

fundVars == <<funds, active, taken>>
logVars  == <<audit, pending>>
gateVars == <<gateway, attempts, unheard>>

Statuses  == {"COMPLETED", "REFUND_REQUESTED", "REFUNDING", "REFUND_PENDING",
              "REFUND_FAILED", "REFUNDED", "PARTIALLY_REFUNDED"}
Retryable == {"COMPLETED", "REFUND_REQUESTED", "REFUND_FAILED"}
Refunded  == {"REFUNDED", "PARTIALLY_REFUNDED"}
Actions   == {"REFUND_PENDING", "REFUND_FAILED", "REFUND_ROLLBACK_FAILED",
              "REFUND_SUCCESS"}
Claimed   == {"deduct", "gateway", "ok", "pending", "rollback", "restore",
              "mark", "failed"}
Steps     == Claimed \cup {"idle", "prep", "claim", "log", "detail", "query",
                           "settle", "refuse", "unreturned"}
Refs      == 1 .. MaxAttempts

\* RefundPlan: the status PrepareRefund saw, the amount, what to deduct or
\* what was deducted (BalanceToDeduct, SubDaysToDeduct; 0 also when there is
\* no subscription to shorten), deductionHeld, and the gateway's refund id.
Plan   == [pc : Steps, seen : Statuses, amount : 0 .. Credit,
           deduct : 0 .. Credit, held : BOOLEAN, ref : Refs]
NoPlan == [pc |-> "idle", seen |-> "COMPLETED", amount |-> 0, deduct |-> 0,
           held |-> FALSE, ref |-> 1]

\* refundPendingAuditDetail: DeductionHeld, or a row of an earlier release,
\* whose deduction was given back on entering pending (DeductionRollbackOK).
Detail   == [held : BOOLEAN, rolledBack : BOOLEAN, deduct : 0 .. Credit,
             ref : Refs]
NoDetail == [held |-> FALSE, rolledBack |-> TRUE, deduct |-> 0, ref |-> 1]

\* Type correctness of the order, the ledger, the provider and the handlers.
TypeOK ==
    /\ order \in [type : OrderTypes, trade : BOOLEAN, status : Statuses,
                  refund : 0 .. Credit]
    /\ user \in {"idle", "checked"}
    /\ funds \in Int
    /\ active \in BOOLEAN
    /\ audit \in SUBSET Actions
    /\ pending \in Detail
    /\ gateway \in [Refs -> {"none", "processing", "done", "refused"}]
    /\ attempts \in 0 .. MaxAttempts
    /\ unheard \subseteq Refs
    /\ taken \in Int
    /\ admin \in [Admins -> Plan]
    /\ faults \in [left : 0 .. MaxFaults, lost : BOOLEAN]

-----------------------------------------------------------------------------
(***************************************************************************)
(* Initial states: a completed order, or a REFUND_PENDING one left by an   *)
(* earlier release, which gave the deduction back on entering pending      *)
(* (successfully or not) and whose audit row may be missing.               *)
(***************************************************************************)
Completed ==
    /\ order.status = "COMPLETED" /\ order.refund = 0
    /\ audit = {} /\ pending = NoDetail /\ taken = 0
    /\ gateway = [r \in Refs |-> "none"] /\ attempts = 0

LegacyPending ==
    /\ order.status = "REFUND_PENDING" /\ order.refund \in 1 .. Credit
    /\ order.trade
    /\ \/ audit = {} /\ pending = NoDetail /\ taken = 0
       \/ audit = {"REFUND_PENDING"} /\ pending = NoDetail /\ taken = 0
       \/ /\ audit = {"REFUND_PENDING", "REFUND_ROLLBACK_FAILED"}
          /\ pending = [NoDetail EXCEPT !.rolledBack = FALSE]
          /\ taken = IF order.type = "balance" THEN order.refund ELSE Credit
    /\ gateway = [r \in Refs |-> IF r = 1 THEN "processing" ELSE "none"]
    /\ attempts = 1

Init ==
    /\ order \in [type : OrderTypes, trade : BOOLEAN,
                  status : {"COMPLETED", "REFUND_PENDING"},
                  refund : 0 .. Credit]
    /\ user = "idle"
    /\ funds \in 0 .. Credit + MaxExtra
    /\ active = TRUE
    /\ audit \in SUBSET {"REFUND_PENDING", "REFUND_ROLLBACK_FAILED"}
    /\ pending \in [held : {FALSE}, rolledBack : BOOLEAN, deduct : {0},
                    ref : {1}]
    /\ gateway \in [Refs -> {"none", "processing"}]
    /\ attempts \in {0, 1}
    /\ unheard = {}
    /\ taken \in 0 .. Credit
    /\ admin = [a \in Admins |-> NoPlan]
    /\ faults = [left |-> MaxFaults, lost |-> FALSE]
    /\ Completed \/ LegacyPending

-----------------------------------------------------------------------------
Least(m, n)    == IF m < n THEN m ELSE n
Greatest(m, n) == IF m > n THEN m ELSE n

At(a, pc)    == admin[a].pc = pc
Goto(a, pc)  == admin' = [admin EXCEPT ![a].pc = pc]
Finish(a)    == admin' = [admin EXCEPT ![a] = NoPlan]
Marked       == "REFUND_ROLLBACK_FAILED" \in audit
SetStatus(s) == order' = [order EXCEPT !.status = s]

NoFault     == faults' = faults
Fault(kind) ==
    /\ kind \in FaultKinds /\ faults.left > 0
    /\ faults' = [left |-> faults.left - 1,
                  lost |-> faults.lost \/ kind \in {"audit", "tail"}]

\* Audit rows without the unique index.
Insertable_duplicates(rows) == rows \subseteq Actions

\* The unique index on (order_id, action): rows can be inserted once.
Insertable(rows) == rows \cap audit = {}

\* writeAuditLog: a failed insertion, also on the unique index, is only
\* reported in the program's log.
WriteAuditLog(action) ==
    \/ audit' = audit \cup {action} /\ NoFault
    \/ audit' = audit /\ Fault("audit")

-----------------------------------------------------------------------------
(***************************************************************************)
(* The user: RequestRefund checks status and balance, then updates the     *)
(* order if it still is COMPLETED.  Elsewhere the user spends the balance  *)
(* (which may become negative), or a day of the subscription passes.       *)
(***************************************************************************)
ValidateRefundRequest ==
    /\ user = "idle"
    /\ order.type = "balance" /\ order.status = "COMPLETED"
    /\ funds >= Credit
    /\ user' = "checked"
    /\ UNCHANGED <<order, admin, faults>>
    /\ UNCHANGED <<fundVars, logVars, gateVars>>

RequestRefund ==
    /\ user = "checked"
    /\ user' = "idle"
    /\ order' = IF order.status = "COMPLETED"
                THEN [order EXCEPT !.status = "REFUND_REQUESTED",
                                   !.refund = Credit]
                ELSE order
    /\ UNCHANGED <<admin, faults>>
    /\ UNCHANGED <<fundVars, logVars, gateVars>>

Spend ==
    /\ funds > IF order.type = "balance" THEN -1 ELSE 0
    /\ funds' = funds - 1
    /\ UNCHANGED <<order, user, active, taken, admin, faults>>
    /\ UNCHANGED <<logVars, gateVars>>

-----------------------------------------------------------------------------
(***************************************************************************)
(* PrepareRefund.                                                          *)
(***************************************************************************)

\* PrepareRefund without the check of REFUND_AMOUNT_EXCEEDED.
PrepareRefund_exceeding(a) ==
    /\ At(a, "idle")
    /\ order.status \in Retryable
    /\ \E amt \in 1 .. Credit + 1 :
          admin' = [admin EXCEPT ![a] =
                      [NoPlan EXCEPT !.pc = "prep", !.seen = order.status,
                                     !.amount = amt]]
    /\ UNCHANGED <<order, user, faults>>
    /\ UNCHANGED <<fundVars, logVars, gateVars>>

\* The order is read, its status checked and the amount chosen.
PrepareRefund(a) ==
    /\ At(a, "idle")
    /\ order.status \in Retryable
    /\ \E amt \in 1 .. Credit, deduct \in BOOLEAN :
          admin' = [admin EXCEPT ![a] =
                      [NoPlan EXCEPT !.pc = IF deduct THEN "prep" ELSE "claim",
                                     !.seen = order.status, !.amount = amt]]
    /\ UNCHANGED <<order, user, faults>>
    /\ UNCHANGED <<fundVars, logVars, gateVars>>

\* GetActiveSubscription finds a subscription that is active; reading through
\* a cache it may also return one that has expired or was revoked since.
FindsSubscription == active /\ funds > 0

\* prepDeduct: what to deduct; without force an uncertain deduction ends the
\* request (RequireForce).
PrepDeduct(a) ==
    /\ At(a, "prep")
    /\ \E force \in BOOLEAN, n \in 0 .. Credit :
          /\ \/ /\ order.type = "balance"
                /\ \/ NoFault /\ (force \/ funds >= admin[a].amount)
                      /\ n = Greatest(0, Least(admin[a].amount, funds))
                   \/ Fault("error") /\ force /\ n = 0
             \/ /\ order.type = "subscription"
                /\ \/ NoFault /\ n = Credit
                   \/ NoFault /\ ~FindsSubscription /\ force /\ n = 0
                   \/ Fault("error") /\ force /\ n = 0
          /\ admin' = [admin EXCEPT ![a].deduct = n, ![a].pc = "claim"]
    /\ UNCHANGED <<order, user>>
    /\ UNCHANGED <<fundVars, logVars, gateVars>>

\* The early returns of prepDeduct that ask for force.
RequireForce(a) ==
    /\ At(a, "prep")
    /\ IF order.type = "balance" THEN funds < admin[a].amount
                                 ELSE ~FindsSubscription
    /\ Finish(a)
    /\ UNCHANGED <<order, user, faults>>
    /\ UNCHANGED <<fundVars, logVars, gateVars>>

-----------------------------------------------------------------------------
(***************************************************************************)
(* ExecuteRefund.                                                          *)
(***************************************************************************)

\* The claim without its status condition.
Claim_unconditional(a) ==
    /\ At(a, "claim")
    /\ SetStatus("REFUNDING") /\ Goto(a, "deduct")
    /\ UNCHANGED <<user, faults>>
    /\ UNCHANGED <<fundVars, logVars, gateVars>>

\* The conditional UPDATE to REFUNDING: the handler that wins owns the order.
Claim(a) ==
    /\ At(a, "claim")
    /\ IF order.status \in Retryable
       THEN SetStatus("REFUNDING") /\ Goto(a, "deduct")
       ELSE order' = order /\ Finish(a)
    /\ UNCHANGED <<user, faults>>
    /\ UNCHANGED <<fundVars, logVars, gateVars>>

\* DeductAvailableBalance takes at most the balance; ExtendSubscription with
\* negative days, or RevokeSubscription when nothing would be left.  t is the
\* plan's deduction afterwards.
Take(n, t) ==
    \/ /\ order.type = "balance"
       /\ t = Least(n, Greatest(funds, 0))
       /\ funds' = funds - t /\ taken' = taken + t
       /\ active' = active
    \/ /\ order.type = "subscription" /\ active /\ funds > 0
       /\ t = n
       /\ IF funds > n
          THEN funds' = funds - n /\ taken' = taken + n /\ active' = TRUE
          ELSE funds' = 0 /\ taken' = taken + funds /\ active' = FALSE

\* An expired or revoked subscription cannot be shortened.
CannotTake == order.type = "subscription" /\ (~active \/ funds <= 0)

\* The deduction, skipped after an attempt whose deduction could not be given
\* back.  hasAuditLog drops its error, so a failed read looks like no row.
\* "tail": ExtendSubscription commits and then fails to read the row back, or
\* RevokeSubscription deletes it and then fails to invalidate the caches.
Deduct(a) ==
    /\ At(a, "deduct")
    /\ LET n == admin[a].deduct
           skip == n = 0 \/ Marked
           next(pc, t) ==
             admin' = [admin EXCEPT ![a].pc = pc, ![a].deduct = t]
       IN  \/ /\ skip /\ NoFault
              /\ next("gateway", 0)
              /\ UNCHANGED fundVars
           \/ \E t \in 0 .. Credit :
                 /\ IF skip THEN n > 0 /\ Fault("audit") ELSE NoFault
                 /\ Take(n, t) /\ next("gateway", t)
           \/ /\ ~skip
              /\ (CannotTake /\ NoFault) \/ Fault("error")
              /\ next("restore", n)
              /\ UNCHANGED fundVars
           \/ \E t \in 0 .. Credit :
                 /\ ~skip /\ order.type = "subscription" /\ Fault("tail")
                 /\ Take(n, t) /\ next("restore", n)
    /\ UNCHANGED <<order, user>>
    /\ UNCHANGED <<logVars, gateVars>>

\* Where finishRefund goes with the provider's answer s.
Dispatch(s) == CASE s = "done"       -> "ok"
                 [] s = "processing" -> "pending"
                 [] s = "refused"    -> "rollback"

\* gwRefund and the dispatch of finishRefund.  Without a trade number the
\* gateway is skipped and counts as success.  Every error is a gateway failure:
\* one before the call (no provider, metadata mismatch), a refusal, a failed or
\* an unknown status, none of which moves money, and also an error in place of
\* the answer of a provider that accepted the refund (a time-out, a connection
\* that broke).  A retry asks for another refund, as alipay and easypay do.
GwRefund(a) ==
    /\ At(a, "gateway")
    /\ \/ /\ ~order.trade
          /\ Goto(a, "ok") /\ NoFault /\ UNCHANGED gateVars
       \/ /\ order.trade /\ attempts < MaxAttempts
          /\ attempts' = attempts + 1
          /\ \E s \in {"done", "processing", "refused"} :
                /\ gateway' = [gateway EXCEPT ![attempts + 1] = s]
                /\ \/ /\ admin' = [admin EXCEPT ![a].ref = attempts + 1,
                                               ![a].pc = Dispatch(s)]
                      /\ unheard' = unheard /\ NoFault
                   \/ /\ s # "refused" /\ Goto(a, "rollback")
                      /\ unheard' = unheard \cup {attempts + 1}
                      /\ Fault("answer")
       \/ /\ order.trade
          /\ Goto(a, "rollback") /\ NoFault /\ UNCHANGED gateVars
    /\ UNCHANGED <<order, user>>
    /\ UNCHANGED <<fundVars, logVars>>

\* markRefundOk: the order is refunded; then REFUND_SUCCESS is logged.
MarkRefundOk(a) ==
    /\ At(a, "ok")
    /\ order' = [order EXCEPT
                   !.status = IF admin[a].amount < Credit
                              THEN "PARTIALLY_REFUNDED" ELSE "REFUNDED",
                   !.refund = admin[a].amount]
    /\ WriteAuditLog("REFUND_SUCCESS")
    /\ Finish(a)
    /\ UNCHANGED <<user, pending>>
    /\ UNCHANGED <<fundVars, gateVars>>

\* markRefundPending: status and audit row in one transaction, which the
\* unique index may abort; the order then stays REFUNDING.
MarkRefundPending(a) ==
    /\ At(a, "pending")
    /\ IF Insertable({"REFUND_PENDING"})
       THEN /\ order' = [order EXCEPT !.status = "REFUND_PENDING",
                                      !.refund = admin[a].amount]
            /\ audit' = audit \cup {"REFUND_PENDING"}
            /\ pending' = [held |-> TRUE, rolledBack |-> TRUE,
                           deduct |-> admin[a].deduct, ref |-> admin[a].ref]
       ELSE UNCHANGED <<order, logVars>>
    /\ Finish(a)
    /\ UNCHANGED <<user, faults>>
    /\ UNCHANGED <<fundVars, gateVars>>

-----------------------------------------------------------------------------
(***************************************************************************)
(* handleGwFail.                                                           *)
(***************************************************************************)

\* UpdateBalance or ExtendSubscription with what the plan deducted; a revoked
\* subscription cannot be extended.
Return(n) ==
    /\ n > 0 => active
    /\ funds' = IF n = 0 THEN funds
                ELSE n + IF order.type = "subscription"
                         THEN Greatest(funds, 0) ELSE funds
    /\ taken' = taken - n
    /\ active' = active

\* RollbackRefund.  "tail": the days were given back, yet an error follows.
RollbackRefund(a) ==
    /\ At(a, "rollback")
    /\ LET n == admin[a].deduct
       IN  \/ Return(n) /\ Goto(a, "restore") /\ NoFault
           \/ /\ n > 0 /\ ((~active /\ NoFault) \/ Fault("error"))
              /\ Goto(a, "mark") /\ UNCHANGED fundVars
           \/ /\ n > 0 /\ order.type = "subscription" /\ Fault("tail")
              /\ Return(n) /\ Goto(a, "mark")
    /\ UNCHANGED <<order, user>>
    /\ UNCHANGED <<logVars, gateVars>>

\* restoreStatus writes the status PrepareRefund saw, or COMPLETED.
RestoreStatus(a) ==
    /\ At(a, "restore")
    /\ SetStatus(IF admin[a].seen = "REFUND_REQUESTED"
                 THEN "REFUND_REQUESTED" ELSE "COMPLETED")
    /\ Finish(a)
    /\ UNCHANGED <<user, faults>>
    /\ UNCHANGED <<fundVars, logVars, gateVars>>

\* The failed rollback is recorded for the next attempt...
MarkRollbackFailed(a) ==
    /\ At(a, "mark")
    /\ WriteAuditLog("REFUND_ROLLBACK_FAILED")
    /\ Goto(a, "failed")
    /\ UNCHANGED <<order, user, pending>>
    /\ UNCHANGED <<fundVars, gateVars>>

\* ...then the order is REFUND_FAILED (an error of this UPDATE is dropped)...
MarkRefundFailed(a) ==
    /\ At(a, "failed")
    /\ \/ SetStatus("REFUND_FAILED") /\ NoFault
       \/ order' = order /\ Fault("error")
    /\ Goto(a, "log")
    /\ UNCHANGED user
    /\ UNCHANGED <<fundVars, logVars, gateVars>>

\* ...and REFUND_FAILED is logged.
LogRefundFailed(a) ==
    /\ At(a, "log")
    /\ WriteAuditLog("REFUND_FAILED")
    /\ Finish(a)
    /\ UNCHANGED <<order, user, pending>>
    /\ UNCHANGED <<fundVars, gateVars>>

-----------------------------------------------------------------------------
(***************************************************************************)
(* QueryAndFinalizeRefund.                                                 *)
(***************************************************************************)

\* The order is read; only a REFUND_PENDING one is finalized.
QueryAndFinalizeRefund(a) ==
    /\ At(a, "idle")
    /\ order.status = "REFUND_PENDING"
    /\ admin' = [admin EXCEPT ![a] =
                   [NoPlan EXCEPT !.pc = "detail", !.amount = order.refund]]
    /\ UNCHANGED <<order, user, faults>>
    /\ UNCHANGED <<fundVars, logVars, gateVars>>

\* latestRefundPendingDetail and the plan made of it: a held deduction is the
\* recorded one, a legacy one that was not given back is not taken again, and
\* a legacy one that was given back is taken at the end.
ReadPendingDetail(a) ==
    /\ At(a, "detail")
    /\ \E n \in 0 .. Credit :
          /\ \/ pending.held /\ n = pending.deduct
             \/ ~pending.held /\ ~pending.rolledBack /\ n = 0
             \/ /\ ~pending.held /\ pending.rolledBack
                /\ \/ order.type = "balance" /\ n = admin[a].amount
                   \/ order.type = "subscription" /\ n = Credit
                   \/ /\ order.type = "subscription" /\ n = 0
                      /\ ~FindsSubscription
          /\ admin' = [admin EXCEPT ![a].pc = "query", ![a].deduct = n,
                                    ![a].held = pending.held,
                                    ![a].ref = pending.ref]
    /\ UNCHANGED <<order, user, faults>>
    /\ UNCHANGED <<fundVars, logVars, gateVars>>

\* The gateway is asked about that refund; while it is processed nothing is
\* decided.
QueryRefund(a) ==
    /\ At(a, "query")
    /\ \/ gateway[admin[a].ref] = "processing" /\ Finish(a)
       \/ gateway[admin[a].ref] = "done" /\ Goto(a, "settle")
       \/ gateway[admin[a].ref] = "refused" /\ Goto(a, "refuse")
    /\ UNCHANGED <<order, user, faults>>
    /\ UNCHANGED <<fundVars, logVars, gateVars>>

\* finalizePendingRefundSuccess: claim, deduction unless held, status and
\* audit in one transaction.
FinalizePendingRefundSuccess(a) ==
    /\ At(a, "settle")
    /\ LET n == IF admin[a].held THEN 0 ELSE admin[a].deduct
           ok == /\ order.status = "REFUND_PENDING"
                 /\ n > 0 => ~CannotTake
                 /\ Insertable({"REFUND_SUCCESS"})
       IN  \/ /\ ok
              /\ order' = [order EXCEPT
                             !.status = IF admin[a].amount < Credit
                                        THEN "PARTIALLY_REFUNDED"
                                        ELSE "REFUNDED"]
              /\ audit' = audit \cup {"REFUND_SUCCESS"}
              /\ IF n = 0 THEN UNCHANGED fundVars
                          ELSE \E t \in 0 .. Credit : Take(n, t)
           \/ ~ok /\ UNCHANGED <<order, audit, fundVars>>
    /\ Finish(a)
    /\ UNCHANGED <<user, pending, faults>>
    /\ UNCHANGED gateVars

\* finalizeRefundFailedTx, first call: claim, return of the held deduction and
\* audit in one transaction; when the return fails the transaction is rolled
\* back and a second one follows.
FinalizeRefundFailed(a) ==
    /\ At(a, "refuse")
    /\ LET n == IF admin[a].held THEN admin[a].deduct ELSE 0
           claimed == order.status = "REFUND_PENDING"
       IN  \/ /\ claimed /\ Insertable({"REFUND_FAILED"}) /\ NoFault
              /\ SetStatus("REFUND_FAILED")
              /\ Return(n)
              /\ audit' = audit \cup {"REFUND_FAILED"}
              /\ Finish(a)
           \/ /\ claimed /\ n > 0 /\ ((~active /\ NoFault) \/ Fault("error"))
              /\ Goto(a, "unreturned")
              /\ UNCHANGED <<order, audit, fundVars>>
           \/ /\ ~claimed \/ (~Insertable({"REFUND_FAILED"}) /\ (n > 0 => active))
              /\ NoFault
              /\ Finish(a)
              /\ UNCHANGED <<order, audit, fundVars>>
    /\ UNCHANGED <<user, pending>>
    /\ UNCHANGED gateVars

\* finalizeRefundFailedTx, second call: the order fails, marked so that a
\* retry does not deduct again.
FinalizeUnreturned(a) ==
    /\ At(a, "unreturned")
    /\ IF /\ order.status = "REFUND_PENDING"
          /\ Insertable({"REFUND_ROLLBACK_FAILED", "REFUND_FAILED"})
       THEN /\ SetStatus("REFUND_FAILED")
            /\ audit' = audit \cup {"REFUND_ROLLBACK_FAILED", "REFUND_FAILED"}
       ELSE UNCHANGED <<order, audit>>
    /\ Finish(a)
    /\ UNCHANGED <<user, pending, faults>>
    /\ UNCHANGED <<fundVars, gateVars>>

-----------------------------------------------------------------------------
(***************************************************************************)
(* The provider settles a refund it accepted; a handler stops before its   *)
(* next statement because the process died, the request's context was      *)
(* cancelled or the statement failed and the error was returned.           *)
(***************************************************************************)
Settle(r) ==
    /\ gateway[r] = "processing"
    /\ \E s \in {"done", "refused"} : gateway' = [gateway EXCEPT ![r] = s]
    /\ UNCHANGED <<order, user, attempts, unheard, admin, faults>>
    /\ UNCHANGED <<fundVars, logVars>>

Stop(a) ==
    /\ ~At(a, "idle") /\ Fault("stop")
    /\ Finish(a)
    /\ UNCHANGED <<order, user>>
    /\ UNCHANGED <<fundVars, logVars, gateVars>>

ProcessRefund(a) ==
    \/ PrepDeduct(a) \/ RequireForce(a) \/ Claim(a) \/ Deduct(a) \/ GwRefund(a)
    \/ MarkRefundOk(a) \/ MarkRefundPending(a) \/ RollbackRefund(a)
    \/ RestoreStatus(a) \/ MarkRollbackFailed(a) \/ MarkRefundFailed(a)
    \/ LogRefundFailed(a)

Finalize(a) ==
    \/ ReadPendingDetail(a) \/ QueryRefund(a)
    \/ FinalizePendingRefundSuccess(a) \/ FinalizeRefundFailed(a)
    \/ FinalizeUnreturned(a)

Next ==
    \/ ValidateRefundRequest \/ RequestRefund \/ Spend
    \/ \E r \in Refs : Settle(r)
    \/ \E a \in Admins :
          PrepareRefund(a) \/ ProcessRefund(a) \/ QueryAndFinalizeRefund(a)
            \/ Finalize(a) \/ Stop(a)

Spec == Init /\ [][Next]_vars

-----------------------------------------------------------------------------
(***************************************************************************)
(* Properties.                                                             *)
(***************************************************************************)

\* What refunds of the order took and did not give back is between nothing
\* and what the order gave, over any number of attempts, finalizers and
\* failures: nothing is deducted twice (ExecuteRefund, finalizePending-
\* RefundSuccess) and nothing returned twice (RollbackRefund, finalizeRefund-
\* Failed).  Unless REFUND_ROLLBACK_FAILED says otherwise, an order that may
\* be refunded again holds nothing of the user's, and what a pending order
\* holds is what its audit row says, so finalizeRefundFailed gives back enough.
\* A log row that is lost unnoticed hides what was taken or given back, and so
\* does an error after extendSubscription has committed.
BooksBalance ==
    ~faults.lost =>
        /\ taken \in 0 .. Credit
        /\ ~Marked /\ order.status \in Retryable => taken = 0
        /\ ~Marked /\ order.status = "REFUND_PENDING" /\ taken > 0 =>
              pending.held /\ taken <= pending.deduct

\* Of the refunds whose answer reached a handler the gateway never has two that
\* pay or may still pay: a retry starts only after the handler was told that the
\* earlier request failed.  And an order is shown as refunded only once such a
\* refund has paid the money back; orders without a trade number have no gateway
\* payment.  A refund that was accepted with an error for an answer (gwRefund)
\* is the exception: the order is rolled back and retried, and may be paid back
\* once more for every such answer.
PaidBackOnce ==
    /\ Cardinality({r \in Refs \ unheard :
                       gateway[r] \in {"processing", "done"}}) <= 1
    /\ order.status \in Refunded /\ order.trade =>
          \E r \in Refs \ unheard : gateway[r] = "done"

\* What markRefundPending and finalizeRefundFailed are documented to ensure: a
\* deduction kept for an open gateway refund can be read back and settled, that
\* is, once no handler runs, an order whose refund the gateway accepted and
\* did not pay yet is REFUND_PENDING.
HeldDeductionIsFinalizable ==
    (\A a \in Admins : At(a, "idle")) /\ (\E r \in Refs : gateway[r] = "processing")
        => order.status = "REFUND_PENDING"

\* The provider settles what it accepted, a handler goes on, and an
\* administrator who sees REFUND_PENDING queries it again.
Fairness ==
    /\ \A r \in Refs : WF_vars(Settle(r))
    /\ \A a \in Admins : WF_vars(ProcessRefund(a) \/ Finalize(a))
    /\ \A a \in Admins : WF_vars(QueryAndFinalizeRefund(a))

FairSpec == Spec /\ Fairness

\* finalizeRefundFailed brings a REFUND_PENDING order whose refund the gateway
\* refused to REFUND_FAILED.
RefusedPendingConverges ==
    (order.status = "REFUND_PENDING" /\ gateway[pending.ref] = "refused")
        ~> (order.status # "REFUND_PENDING")
=============================================================================
