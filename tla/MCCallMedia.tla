---------------------------- MODULE MCCallMedia ----------------------------
EXTENDS CallMedia
=============================================================================
