---------------------------- MODULE PaymentOrder ----------------------------
(***************************************************************************)
(* What the payment service promises for one order, whatever crashes,      *)
(* races, retries and duplicate notifications there are: money that was    *)
(* received is recognised at most once, a recognised order grants its      *)
(* goods exactly once before it is completed, and a completed order stays  *)
(* completed (refunds included).                                           *)
(***************************************************************************)
EXTENDS Naturals

VARIABLES received,  \* the provider holds the payer's money for this order
          phase,     \* unpaid, paid (recognised) or done
          goods      \* how often the goods were granted

vars == <<received, phase, goods>>

Init == received = FALSE /\ phase = "unpaid" /\ goods = 0

Receive ==
    /\ ~received
    /\ received' = TRUE
    /\ UNCHANGED <<phase, goods>>

Recognise ==
    /\ received
    /\ phase = "unpaid"
    /\ phase' = "paid"
    /\ UNCHANGED <<received, goods>>

Grant ==
    /\ phase = "paid"
    /\ goods = 0
    /\ goods' = 1
    /\ UNCHANGED <<received, phase>>

Complete ==
    /\ phase = "paid"
    /\ goods = 1
    /\ phase' = "done"
    /\ UNCHANGED <<received, goods>>

Next == Receive \/ Recognise \/ Grant \/ Complete

Spec == Init /\ [][Next]_vars
=============================================================================
