--------------------------- MODULE MCSessionContext --------------------------
\* A session of a few turns whose compactions retain the last two or three events.
EXTENDS SessionContext
=============================================================================
