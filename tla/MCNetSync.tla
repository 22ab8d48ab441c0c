------------------------------ MODULE MCNetSync ------------------------------
EXTENDS NetSync
=============================================================================
