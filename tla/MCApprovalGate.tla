--------------------------- MODULE MCApprovalGate ---------------------------
\* ApprovalGate for every choice of features, mode, scenario and parameters.
EXTENDS ApprovalGate
=============================================================================
