-------------------------- MODULE MCPayloadBudget --------------------------
EXTENDS PayloadBudget
=============================================================================
