---------------------------- MODULE MCAgentAdmin ----------------------------
(* An instance of AgentAdmin for TLC: two requests with different values.  *)
EXTENDS AgentAdmin

CONSTANTS r1, r2, v1, v2

MCAsks == [r \in {r1, r2} |-> {IF r = r1 THEN v1 ELSE v2}]
=============================================================================
