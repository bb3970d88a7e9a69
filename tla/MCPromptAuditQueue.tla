------------------------- MODULE MCPromptAuditQueue -------------------------
EXTENDS PromptAuditQueue

CONSTANTS j1, j2, w1, w2

=============================================================================
