--------------------------- MODULE MCClusterAdapter ---------------------------
(* Instances of the Kubernetes adapter for TLC. *)
EXTENDS AdapterSafety

CONSTANTS t1, t2
=============================================================================
