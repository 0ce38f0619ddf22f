---------------------------- MODULE RetrievalSafety ----------------------------
(***************************************************************************)
(* What the knowledge retrieval promises.  The properties speak of a       *)
(* reindexing that was served alone, until the next one begins (`last`),   *)
(* and of the searches that began after it and met no other (`settled`):   *)
(* two reindexings at once may ruin the table, and a search during one may *)
(* find any part.                                                          *)
(***************************************************************************)
EXTENDS KnowledgeRetrieval

\* Where a request can be.
SearchPlaces ==
    {"build", "index", "lexical", "postgres?", "query", "rows", "opensearch?", "match", "answer"}

ReindexPlaces ==
    {"build", "index", "rebuild", "append", "postgres?", "drop", "create", "insert",
     "opensearch?", "head", "delete", "mapping", "bulk", "answer"}

ThreadStates ==
    [at : SearchPlaces \union ReindexPlaces \union {"idle"}, reindexing : BOOLEAN, index : Nat,
     chunks : Seq(Chunks), found : [Backends -> SUBSET Chunks], reached : SUBSET Backends,
     settled : BOOLEAN, steady : SUBSET Backends]

Untaken == {"idle", "build", "index"}

\* A request is at a place of its kind; past taking an index it has one, which
\* exists; only a query that is under way holds the lock; and a store it has
\* found steady is up.
Placed(t, r) ==
    /\ r.at \in IF r.reindexing THEN ReindexPlaces ELSE SearchPlaces \union {"idle"}
    /\ r.index \in 0 .. published
    /\ r.at \in Untaken <=> r.index = 0
    /\ r.at = "index" => published # 0
    /\ r.at = "append" => r.chunks # << >>
    /\ t \in reading => r.at = "rows"
    /\ r.steady \subseteq Up

IndexObjects == [chunks : Seq(Chunks), connection : 0 .. postgres.starts]

\* The variables have their types, and each request its place; what is
\* published is the newest index.
RetrievalTypeOK ==
    /\ files \subseteq Chunks
    /\ index \in Seq(IndexObjects)
    /\ published = Len(index)
    /\ postgres \in [up : BOOLEAN, starts : Nat, table : (SUBSET Chunks) \union {None}]
    /\ reading \subseteq Threads
    /\ opensearch \in [up : BOOLEAN, docs : (SUBSET Chunks) \union {None}]
    /\ last \in Reindexings \union {None}
    /\ thread \in [Threads -> ThreadStates]
    /\ \A t \in Threads : Placed(t, thread[t])

\* A reindexing takes effect: afterwards the index that searches are given has
\* the chunks of the files, each once, and so has every store that was reached
\* (knowledge.py:44, "Re-ingest ... into every reachable RAG backend").
ReindexTakesEffect ==
    last # None =>
        /\ ToSet(index[published].chunks) = last.files
        /\ IsInjective(index[published].chunks)
        /\ "pgvector" \in last.reached => postgres.table = last.files
        /\ "opensearch" \in last.reached => opensearch.docs = last.files

\* A search after a reindexing finds all of the knowledge, whatever the stores
\* do meanwhile, and a store that was reindexed adds all of it or nothing:
\* nothing old, nothing in part (rag.py:11, "falling back gracefully").
SearchIsExact ==
    \A t \in Threads :
        thread[t].at = "answer" /\ ~thread[t].reindexing /\ thread[t].settled =>
            /\ thread[t].found["tfidf"] = last.files
            /\ \A b \in last.reached : thread[t].found[b] \in {{}, last.files}

\* A store that was reindexed and answers during all of a search contributes to
\* it (rag.py:11, "fuses scores from every reachable backend").  Postgres only
\* until it goes down: the index keeps the connection it lost then, and the
\* store, reachable again, finds nothing until the next reindexing.
ReachedBackendsContribute ==
    \A t \in Threads :
        thread[t].at = "answer" /\ ~thread[t].reindexing /\ thread[t].settled =>
            \A b \in last.reached \intersect thread[t].steady :
                (b = "pgvector" => ~last.restarted) => thread[t].found[b] = last.files

\* Every request is answered, or fails: no reader keeps a reindexing waiting
\* (rag.py:308, "reads must never hold an open transaction ... or DROP/VACUUM
\* during a reindex blocks forever").
RequestsEnd ==
    \A t \in Threads : []<>(thread[t] = Idle)

-----------------------------------------------------------------------------
(* The inductive invariant behind them.                                    *)

\* A reindexing that runs alone is the only one; while one runs nothing is
\* remembered, and no search is settled that nothing is remembered for.
Alone ==
    /\ last # None => published # 0
    /\ \A t \in Threads :
          /\ thread[t].reindexing => last = None
          /\ ~thread[t].reindexing /\ thread[t].settled => last # None
          /\ thread[t].reindexing /\ thread[t].settled =>
                \A u \in Threads \ {t} : ~thread[u].reindexing

\* The chunks of the published index.
Lexical == index[published].chunks

\* How far a reindexing that runs alone has come, on its own index and in the
\* stores: what it was told to hold is what the files hold.
ReindexingOK(r) ==
    /\ r.at \notin Untaken => r.index = published
    /\ r.at = "append" => Lexical \o r.chunks = LoadChunks
    /\ r.at \notin Untaken \union {"rebuild", "append"} => Lexical = LoadChunks
    /\ r.at \in {"drop", "create", "insert", "head", "delete", "mapping", "bulk"} =>
          r.chunks = LoadChunks
    /\ r.at = "insert" => postgres.table = {}
    /\ r.at = "mapping" => opensearch.docs = None
    /\ r.at = "bulk" => opensearch.docs = {}
    /\ "pgvector" \in r.reached =>
          /\ postgres.table = files
          /\ r.at \in {"opensearch?", "head", "delete", "mapping", "bulk", "answer"}
    /\ "opensearch" \in r.reached => opensearch.docs = files /\ r.at = "answer"

\* The connection of the published index is the one the reindexing left, until
\* Postgres goes down.
StillConnected ==
    last # None /\ "pgvector" \in last.reached /\ ~last.restarted =>
        postgres.up /\ index[published].connection = postgres.starts

\* How far a search has come, and what it has found by then.
SearchOK(t, r) ==
    /\ r.at \notin Untaken => r.index = published
    /\ r.at \notin Untaken \union {"lexical"} => r.found["tfidf"] = last.files
    /\ \A b \in last.reached \ {"tfidf"} : r.found[b] \in {{}, last.files}
    /\ "pgvector" \in last.reached \intersect r.steady /\ ~last.restarted =>
          /\ r.at \in {"rows", "opensearch?", "match", "answer"} =>
                r.found["pgvector"] = last.files
          /\ r.at = "rows" => t \in reading
    /\ "opensearch" \in last.reached \intersect r.steady =>
          (r.at = "answer" => r.found["opensearch"] = last.files)

RetrievalInv ==
    /\ RetrievalTypeOK
    /\ Alone
    /\ ReindexTakesEffect
    /\ StillConnected
    /\ \A t \in Threads : thread[t].settled =>
          IF thread[t].reindexing THEN ReindexingOK(thread[t]) ELSE SearchOK(t, thread[t])
=============================================================================
