-------------------------- MODULE MCGatewayBilling --------------------------
\* Instances of GatewayBilling for TLC.
EXTENDS GatewayBilling, TLC

CONSTANTS r1, r2

MCAmount2 == r1 :> 1 @@ r2 :> 2
=============================================================================
