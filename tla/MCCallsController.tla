------------------------- MODULE MCCallsController -------------------------
EXTENDS CallsController
=============================================================================
