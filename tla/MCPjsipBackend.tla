--------------------------- MODULE MCPjsipBackend ---------------------------
EXTENDS PjsipBackend
=============================================================================
