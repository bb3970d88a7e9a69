---------------------------- MODULE BalanceHolds ----------------------------
(***************************************************************************)
(* The hold of one batch on its user's balance: users.balance,             *)
(* users.frozen_balance and the rows of usage_billing_dedup under which    *)
(* ReserveBatchImageBalance, CaptureBatchImageBalance and                  *)
(* ReleaseBatchImageBalance run.  Each is one transaction: the claim of    *)
(* its request id (hold:, capture: or release: and the batch), then an     *)
(* UPDATE of the user's row.  An error rolls the claim back.               *)
(***************************************************************************)
EXTENDS Naturals

CONSTANTS Hold,    \* hold_amount of the batch
          Other,   \* what the user's other batches have frozen
          Owned    \* balances the user may have at first

ASSUME HoldAssumption ==
    /\ Hold \in Nat \ {0}
    /\ Other \in Nat
    /\ Owned \subseteq Nat

VARIABLES
    purse,    \* the user's row: balance, frozen
    claims,   \* request ids claimed in usage_billing_dedup
    moved     \* history: the requests that moved money

holdVars == <<purse, claims, moved>>

Requests == {"hold", "capture", "release"}

HoldTypeOK ==
    /\ purse \in [balance : Nat, frozen : Nat]
    /\ claims \in SUBSET Requests
    /\ moved \in SUBSET claims

HoldInit ==
    /\ purse \in [balance : Owned, frozen : {Other}]
    /\ claims = {}
    /\ moved = {}

\* The hold was reserved before.
HoldReserved ==
    /\ purse \in [balance : Owned, frozen : {Other + Hold}]
    /\ claims = {"hold"}
    /\ moved = {"hold"}

-----------------------------------------------------------------------------
Unclaimed(req) == req \notin claims

\* A repeated request answers without effect.
AlreadyClaimed(req) == req \in claims /\ UNCHANGED holdVars

\* Claim the request and move money from the user's row.
Move(req, balance, frozen) ==
    /\ Unclaimed(req)
    /\ purse' = [balance |-> balance, frozen |-> frozen]
    /\ claims' = claims \cup {req}
    /\ moved' = moved \cup {req}

EnoughBalance == purse.balance >= Hold
EnoughFrozen  == purse.frozen >= Hold

Reserve ==
    EnoughBalance /\ Move("hold", purse.balance - Hold, purse.frozen + Hold)

\* The cost is kept, the rest of the hold given back.
Capture(cost) ==
    \/ AlreadyClaimed("capture")
    \/ /\ cost <= Hold /\ EnoughFrozen
       /\ Move("capture", purse.balance + (Hold - cost), purse.frozen - Hold)

CaptureFails(cost) == Unclaimed("capture") /\ (cost > Hold \/ ~EnoughFrozen)

\* Without the claim of the hold the release moves nothing, and is claimed.
Release_unchecked ==
    \/ AlreadyClaimed("release")
    \/ /\ EnoughFrozen
       /\ Move("release", purse.balance + Hold, purse.frozen - Hold)

Release ==
    \/ AlreadyClaimed("release")
    \/ /\ Unclaimed("release") /\ Unclaimed("hold")
       /\ claims' = claims \cup {"release"}
       /\ UNCHANGED <<purse, moved>>
    \/ /\ ~Unclaimed("hold") /\ EnoughFrozen
       /\ Move("release", purse.balance + Hold, purse.frozen - Hold)

ReleaseFails == Unclaimed("release") /\ ~Unclaimed("hold") /\ ~EnoughFrozen

\* The hold was reserved and is neither captured nor released.
HoldOpen == moved = {"hold"}
=============================================================================
