------------------------ MODULE MCPolicyDistribution ------------------------
(* Instances of PolicyDistribution for TLC.  No VM subscribes to the       *)
(* second file, which stands for whatever else the repository holds: it    *)
(* makes a change set longer, and a change of it rewrites the first.       *)
EXTENDS PolicyDistribution

MCVms == [f \in File |-> IF f = "proxy" THEN Vm ELSE {}]
=============================================================================
