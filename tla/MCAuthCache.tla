---------------------------- MODULE MCAuthCache ----------------------------
\* Instances of AuthCache for TLC.
EXTENDS AuthCache

CONSTANTS p1, p2
=============================================================================
