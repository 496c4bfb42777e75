------------------------------ MODULE MCSandbox ------------------------------
EXTENDS Sandbox, TLC
=============================================================================
