----------------------------- MODULE MCService -----------------------------
\* Instances of Service for TLC.
EXTENDS Service

\* Handlers that make up a fresh id for each request.
FreshIds == [c \in Clients |-> c]
=============================================================================
