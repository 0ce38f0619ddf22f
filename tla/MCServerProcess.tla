--------------------------- MODULE MCServerProcess ---------------------------
(* The instance of the server process for TLC. *)
EXTENDS ServerSafety, TLC

CONSTANTS t1, t2

\* The first incident waits for an approval, or two executions run at once.
FirstAwaited == <<{"human", "listing"}, {"human", "auto"}, {"human"}>>

\* Nothing tells one thread from another, and nothing is asked that would.
Interchangeable == Permutations(Threads)
=============================================================================
