--------------------------- MODULE MCOAuthRefresh ---------------------------
EXTENDS OAuthRefresh

CONSTANTS p1, p2

\* The cycle in one process and a request in the other.
MCRefreshers == {<<p1, "background">>, <<p2, "request">>}

=============================================================================
