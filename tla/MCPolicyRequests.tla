-------------------------- MODULE MCPolicyRequests --------------------------
(* An instance of the policy requests for TLC: one listed and one unlisted *)
(* name of each kind, and numbers on both sides of every limit.            *)
EXTENDS PolicyRequests

Steps == -2 .. 2
Replicas == 0 .. 3
=============================================================================
