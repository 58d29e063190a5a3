---------------------------- MODULE MCDiagnostics ----------------------------
EXTENDS Diagnostics, TLC
=============================================================================
