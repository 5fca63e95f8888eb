--------------------------- MODULE MCPolicyAgent ----------------------------
(* Model-checking instance of PolicyAgent: one policy with a destination,  *)
(* one without.                                                            *)
EXTENDS PolicyAgent, TLC

MCPolicy == {"proxy", "usb"}
MCDeployed == {"proxy"}

Symmetry == Permutations(Call) \cup Permutations(Payload)
=============================================================================
