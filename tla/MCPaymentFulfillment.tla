------------------------ MODULE MCPaymentFulfillment ------------------------
(* Small instances of PaymentFulfillment for TLC. *)
EXTENDS PaymentFulfillment, TLC

\* Workers are interchangeable in every safety property.
WorkerSymmetry == Permutations(Workers)

=============================================================================
