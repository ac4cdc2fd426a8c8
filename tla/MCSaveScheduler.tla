--------------------------- MODULE MCSaveScheduler ---------------------------
EXTENDS SaveScheduler
=============================================================================
