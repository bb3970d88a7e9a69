--------------------------- MODULE MCPaymentRefund ---------------------------
\* Instances of PaymentRefund for TLC; administrators' handlers are alike.
EXTENDS PaymentRefund, TLC

Symmetry == Permutations(Admins)
=============================================================================
