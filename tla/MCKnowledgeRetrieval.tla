------------------------ MODULE MCKnowledgeRetrieval ------------------------
(* Instances of the knowledge retrieval for TLC. *)
EXTENDS RetrievalSafety

CONSTANTS t1, t2
=============================================================================
