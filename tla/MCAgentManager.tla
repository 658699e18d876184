--------------------------- MODULE MCAgentManager ---------------------------
EXTENDS AgentManager

CONSTANT a1

One == {a1}
==============================================================================
