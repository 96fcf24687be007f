---------------------------- MODULE MCCallManager ----------------------------
EXTENDS CallManager
=============================================================================
