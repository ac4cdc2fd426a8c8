------------------------------ MODULE MCSdCache ------------------------------
EXTENDS SdCache
=============================================================================
