-------------------------- MODULE MCBatchImageJobs --------------------------
EXTENDS BatchImageJobs

CONSTANTS w1, w2

=============================================================================
