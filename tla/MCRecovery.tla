----------------------------- MODULE MCRecovery -----------------------------
\* The instance of Recovery for TLC.
EXTENDS Recovery
=============================================================================
