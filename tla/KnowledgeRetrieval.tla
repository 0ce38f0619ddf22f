-------------------------- MODULE KnowledgeRetrieval --------------------------
(***************************************************************************)
(* The knowledge retrieval of backend/services/rag.py: the index in memory *)
(* (TF-IDF over the knowledge files), Postgres and OpenSearch beside it,   *)
(* searches that ask all of them, and the reindexing of backend/api/       *)
(* knowledge.py that publishes a new index and then fills it again, and    *)
(* the two stores after it, while searches use them.                       *)
(*                                                                         *)
(* The knowledge is a set of chunks.  A query matches all of them and its  *)
(* limit cuts none off; scores, and which of several backends a chunk is   *)
(* labelled with, are left out.                                            *)
(***************************************************************************)
EXTENDS Integers, Sequences, FiniteSets, SequencesExt

CONSTANTS
    Threads,
    Chunks,         \* the chunks the knowledge files may have
    Mode,           \* rag_store: "auto", "pgvector", "opensearch" or "tfidf"
    Knowledge,      \* what the files may come to hold: sets of chunks
    MaxSearches,    \* bound: searches in one behaviour
    MaxReindexings, \* bound: reindexings in one behaviour
    MaxChanges,     \* bound: changes of the knowledge files and outages of the stores
    None

Backends == {"tfidf", "pgvector", "opensearch"}

\* What `last` remembers of a reindexing.
Reindexings == [files : SUBSET Chunks, reached : SUBSET Backends, restarted : BOOLEAN]

\* None is neither a set of chunks nor a reindexing.
ASSUME RetrievalAssumption ==
    /\ IsFiniteSet(Chunks) /\ Knowledge \subseteq SUBSET Chunks
    /\ Mode \in {"auto", "pgvector", "opensearch", "tfidf"}
    /\ \A known \in (SUBSET Chunks) \union Reindexings : known # None

VARIABLES
    files,          \* the chunks of the knowledge files
    changes,        \* of the files, and outages, so far
    index,          \* the KnowledgeIndex objects made so far: chunks and connection
    published,      \* which of them is _index; 0 for none
    postgres,       \* up, its starts so far, and the chunks of the table, or None
    reading,        \* the threads whose query holds the table's read lock
    opensearch,     \* up, and the chunks of the index, or None
    thread,         \* where each request is, and what it has
    searches,       \* begun so far
    reindexings,    \* begun so far
    last            \* history: the last reindexing, if it was served alone and
                    \* none has begun since

environment == <<files, changes>>
stores == <<postgres, reading, opensearch>>
requests == <<searches, reindexings>>
vars == <<environment, index, published, stores, thread, requests, last>>

Nothing == [b \in Backends |-> {}]

\* `steady` are the stores that have answered since the request began, and
\* `settled` says for a search that a reindexing came before it and none during
\* it, for a reindexing that it is alone and the files stay as they are.
Idle == [at |-> "idle", reindexing |-> FALSE, index |-> 0, chunks |-> << >>,
         found |-> Nothing, reached |-> {}, settled |-> FALSE, steady |-> {}]

Init ==
    /\ files = Chunks
    /\ changes = 0
    /\ index = << >>
    /\ published = 0
    /\ postgres = [up |-> TRUE, starts |-> 1, table |-> None]
    /\ reading = {}
    /\ opensearch = [up |-> TRUE, docs |-> None]
    /\ thread = [t \in Threads |-> Idle]
    /\ searches = 0
    /\ reindexings = 0
    /\ last = None

\* What is asked beside TF-IDF: "tfidf" leaves out neither store.
Stores == (IF Mode = "opensearch" THEN {} ELSE {"pgvector"}) \union
          (IF Mode = "pgvector" THEN {} ELSE {"opensearch"})

Up == {b \in Stores : (b = "pgvector" /\ postgres.up) \/ (b = "opensearch" /\ opensearch.up)}

-----------------------------------------------------------------------------
(* The knowledge files and the stores come, go and change.                 *)

Edit(to) ==
    /\ changes < MaxChanges
    /\ changes' = changes + 1
    /\ files' = to
    /\ thread' = [u \in Threads |->
                    [thread[u] EXCEPT !.settled = @ /\ ~thread[u].reindexing]]
    /\ UNCHANGED <<index, published, stores, requests, last>>

Unsteady(store) ==
    thread' = [u \in Threads |-> [thread[u] EXCEPT !.steady = @ \ {store}]]

\* The server's connections are gone, and their locks with them.
PostgresStops ==
    /\ "pgvector" \in Up
    /\ changes < MaxChanges
    /\ changes' = changes + 1
    /\ postgres' = [postgres EXCEPT !.up = FALSE]
    /\ reading' = {}
    /\ Unsteady("pgvector")
    /\ last' = IF last = None THEN None ELSE [last EXCEPT !.restarted = TRUE]
    /\ UNCHANGED <<files, index, published, opensearch, requests>>

PostgresStarts ==
    /\ ~postgres.up
    /\ postgres' = [postgres EXCEPT !.up = TRUE, !.starts = @ + 1]
    /\ UNCHANGED <<environment, index, published, reading, opensearch, thread, requests, last>>

OpensearchStops ==
    /\ "opensearch" \in Up
    /\ changes < MaxChanges
    /\ changes' = changes + 1
    /\ opensearch' = [opensearch EXCEPT !.up = FALSE]
    /\ Unsteady("opensearch")
    /\ UNCHANGED <<files, index, published, postgres, reading, requests, last>>

OpensearchStarts ==
    /\ ~opensearch.up
    /\ opensearch' = [opensearch EXCEPT !.up = TRUE]
    /\ UNCHANGED <<environment, index, published, postgres, reading, thread, requests, last>>

-----------------------------------------------------------------------------
(* Requests, and the index they use.                                       *)

Goto(t, at) == thread' = [thread EXCEPT ![t].at = at]

\* The request is over: it has been answered, or an exception has ended it.
End(t) == thread' = [thread EXCEPT ![t] = Idle]

Search(t) ==
    /\ thread[t] = Idle
    /\ searches < MaxSearches
    /\ searches' = searches + 1
    /\ thread' = [thread EXCEPT ![t] = [Idle EXCEPT !.at = IF published = 0 THEN "build" ELSE "index",
                                                    !.settled = last # None, !.steady = Up]]
    /\ UNCHANGED <<environment, index, published, stores, reindexings, last>>

\* POST /knowledge/db/reindex.
Reindex(t) ==
    /\ thread[t] = Idle
    /\ reindexings < MaxReindexings
    /\ reindexings' = reindexings + 1
    /\ thread' = [u \in Threads |->
                    IF u = t
                    THEN [Idle EXCEPT !.at = "build", !.reindexing = TRUE,
                                      !.settled = ~\E v \in Threads : thread[v].reindexing]
                    ELSE [thread[u] EXCEPT !.settled = FALSE]]
    /\ last' = None
    /\ UNCHANGED <<environment, index, published, stores, searches>>

\* The chunks of the files, each once, in one order that the files alone decide
\* (the code sorts them by path).
LoadChunks == SetToSeq(files)

\* Faulty variant: what exists already is not replaced.
PublishOnce(t) ==
    /\ thread[t].at = "build"
    /\ index' = Append(index, [chunks |-> LoadChunks, connection |-> 0])
    /\ IF published = 0
       THEN published' = 1 /\ Goto(t, "index")
       ELSE /\ thread' = [thread EXCEPT ![t].at = "rebuild", ![t].index = Len(index')]
            /\ UNCHANGED published
    /\ UNCHANGED <<environment, stores, requests, last>>

\* Under a lock: get_index makes the first index, rebuild_index one more; each
\* is published complete.
Publish(t) ==
    /\ thread[t].at = "build"
    /\ IF published = 0 \/ thread[t].reindexing
       THEN /\ index' = Append(index, [chunks |-> LoadChunks, connection |-> 0])
            /\ published' = Len(index')
       ELSE UNCHANGED <<index, published>>
    /\ Goto(t, "index")
    /\ UNCHANGED <<environment, stores, requests, last>>

\* Both return the published index, which another one may have replaced.
TakeIndex(t) ==
    /\ thread[t].at = "index"
    /\ thread' = [thread EXCEPT ![t].index = published,
                                ![t].at = IF thread[t].reindexing THEN "rebuild" ELSE "lexical"]
    /\ UNCHANGED <<environment, index, published, stores, requests, last>>

Mine(t) == index[thread[t].index]

\* The chunks a reindexing gives to a store: those of the index at the call.
Given(t) == IF thread[t].reindexing THEN Mine(t).chunks ELSE << >>

-----------------------------------------------------------------------------
(* TF-IDF.                                                                 *)

\* _rebuild empties the index, loads the files and enters them one by one.
Rebuild(t) ==
    /\ thread[t].at = "rebuild"
    /\ index' = [index EXCEPT ![thread[t].index].chunks = << >>]
    /\ thread' = [thread EXCEPT ![t].chunks = LoadChunks,
                                ![t].at = IF files = {} THEN "postgres?" ELSE "append"]
    /\ UNCHANGED <<environment, published, stores, requests, last>>

AppendChunk(t) ==
    /\ thread[t].at = "append"
    /\ index' = [index EXCEPT ![thread[t].index].chunks = Append(@, Head(thread[t].chunks))]
    /\ thread' = [thread EXCEPT ![t].chunks = Tail(@),
                                ![t].at = IF Len(thread[t].chunks) = 1 THEN "postgres?" ELSE @]
    /\ UNCHANGED <<environment, published, stores, requests, last>>

Rebuilding(k) ==
    \E u \in Threads : thread[u].reindexing /\ thread[u].index = k /\ thread[u].at = "append"

\* While the index is filled, the frequencies of the terms run ahead of the
\* chunks that were counted and can make a score negative: any part is found.
SearchLexical(t) ==
    /\ thread[t].at = "lexical"
    /\ \E found \in SUBSET ToSet(Mine(t).chunks) :
          /\ Rebuilding(thread[t].index) \/ found = ToSet(Mine(t).chunks)
          /\ thread' = [thread EXCEPT ![t].found["tfidf"] = found, ![t].at = "postgres?"]
    /\ UNCHANGED <<environment, index, published, stores, requests, last>>

-----------------------------------------------------------------------------
(* Postgres.                                                               *)

\* available: with a connection of its own.  An empty list is not indexed.
CheckPostgres(t) ==
    /\ thread[t].at = "postgres?"
    /\ thread' = [thread EXCEPT
                    ![t].chunks = Given(t),
                    ![t].at = IF "pgvector" \notin Up \/ (thread[t].reindexing /\ Given(t) = << >>)
                              THEN "opensearch?"
                              ELSE IF thread[t].reindexing THEN "drop" ELSE "query"]
    /\ UNCHANGED <<environment, index, published, stores, requests, last>>

\* The index keeps its first connection, also when the server has closed it.
Connected(t) == postgres.up /\ Mine(t).connection \in {0, postgres.starts}

Connect(t) == index' = [index EXCEPT ![thread[t].index].connection = postgres.starts]

\* A query sees the table as it is when it starts.
BeginQuery(t) ==
    /\ thread[t].at = "query"
    /\ Connected(t)
    /\ postgres.table # None
    /\ reading' = reading \union {t}
    /\ Connect(t)
    /\ thread' = [thread EXCEPT ![t].at = "rows", ![t].found["pgvector"] = postgres.table]
    /\ UNCHANGED <<environment, published, postgres, opensearch, requests, last>>

\* Faulty variant: without autocommit the read lock is kept.
EndQueryInTransaction(t) ==
    /\ thread[t].at = "rows"
    /\ thread' = [thread EXCEPT ![t].at = "opensearch?",
                                ![t].found["pgvector"] = IF t \in reading THEN @ ELSE {}]
    /\ UNCHANGED <<environment, index, published, stores, requests, last>>

\* The server may have gone since, and the lock with it.
EndQuery(t) ==
    /\ thread[t].at = "rows"
    /\ thread' = [thread EXCEPT ![t].at = "opensearch?",
                                ![t].found["pgvector"] = IF t \in reading THEN @ ELSE {}]
    /\ reading' = reading \ {t}
    /\ UNCHANGED <<environment, index, published, postgres, opensearch, requests, last>>

\* Whatever fails, the store has found nothing; a connection made is kept.
QueryFails(t) ==
    /\ thread[t].at = "query"
    /\ ~Connected(t) \/ postgres.table = None
    /\ IF Connected(t) THEN Connect(t) ELSE UNCHANGED index
    /\ Goto(t, "opensearch?")
    /\ UNCHANGED <<environment, published, stores, requests, last>>

\* The statements of a reindexing commit one by one.
DropTable(t) ==
    /\ thread[t].at = "drop"
    /\ Connected(t)
    /\ reading = {}
    /\ postgres' = [postgres EXCEPT !.table = None]
    /\ Connect(t)
    /\ Goto(t, "create")
    /\ UNCHANGED <<environment, published, reading, opensearch, requests, last>>

CreateTable(t) ==
    /\ thread[t].at = "create"
    /\ Connected(t)
    /\ postgres.table = None
    /\ postgres' = [postgres EXCEPT !.table = {}]
    /\ Goto(t, "insert")
    /\ UNCHANGED <<environment, index, published, reading, opensearch, requests, last>>

\* The id of a chunk is the primary key.
Insertable(t) ==
    /\ postgres.table # None
    /\ IsInjective(thread[t].chunks)
    /\ ToSet(thread[t].chunks) \intersect postgres.table = {}

\* Faulty variant: without autocommit, and nothing committed.
InsertRowsUncommitted(t) ==
    /\ thread[t].at = "insert"
    /\ Connected(t)
    /\ Insertable(t)
    /\ thread' = [thread EXCEPT ![t].at = "opensearch?", ![t].reached = @ \union {"pgvector"}]
    /\ UNCHANGED <<environment, index, published, stores, requests, last>>

InsertRows(t) ==
    /\ thread[t].at = "insert"
    /\ Connected(t)
    /\ Insertable(t)
    /\ postgres' = [postgres EXCEPT !.table = @ \union ToSet(thread[t].chunks)]
    /\ thread' = [thread EXCEPT ![t].at = "opensearch?", ![t].reached = @ \union {"pgvector"}]
    /\ UNCHANGED <<environment, index, published, reading, opensearch, requests, last>>

\* An exception ends the request; OpenSearch is not reindexed.
PostgresFails(t) ==
    /\ \/ thread[t].at \in {"drop", "create", "insert"} /\ ~Connected(t)
       \/ thread[t].at = "create" /\ postgres.table # None
       \/ thread[t].at = "insert" /\ ~Insertable(t)
    /\ End(t)
    /\ UNCHANGED <<environment, index, published, stores, requests, last>>

-----------------------------------------------------------------------------
(* OpenSearch.                                                             *)

CheckOpensearch(t) ==
    /\ thread[t].at = "opensearch?"
    /\ thread' = [thread EXCEPT
                    ![t].chunks = Given(t),
                    ![t].at = IF "opensearch" \notin Up THEN "answer"
                              ELSE IF thread[t].reindexing THEN "head" ELSE "match"]
    /\ UNCHANGED <<environment, index, published, stores, requests, last>>

\* No index and no answer find nothing.
SearchOpensearch(t) ==
    /\ thread[t].at = "match"
    /\ thread' = [thread EXCEPT
                    ![t].at = "answer",
                    ![t].found["opensearch"] =
                        IF opensearch.up /\ opensearch.docs # None THEN opensearch.docs ELSE {}]
    /\ UNCHANGED <<environment, index, published, stores, requests, last>>

\* Faulty variant: an index that exists is kept.
HeadIndexKept(t) ==
    /\ thread[t].at = "head"
    /\ opensearch.up
    /\ Goto(t, "mapping")
    /\ UNCHANGED <<environment, index, published, stores, requests, last>>

HeadIndex(t) ==
    /\ thread[t].at = "head"
    /\ opensearch.up
    /\ Goto(t, IF opensearch.docs = None THEN "mapping" ELSE "delete")
    /\ UNCHANGED <<environment, index, published, stores, requests, last>>

DeleteIndex(t) ==
    /\ thread[t].at = "delete"
    /\ opensearch.up
    /\ opensearch.docs # None
    /\ opensearch' = [opensearch EXCEPT !.docs = None]
    /\ Goto(t, "mapping")
    /\ UNCHANGED <<environment, index, published, postgres, reading, requests, last>>

EnsureIndex(t) ==
    /\ thread[t].at = "mapping"
    /\ opensearch.up
    /\ opensearch' = [opensearch EXCEPT !.docs = IF @ = None THEN {} ELSE @]
    /\ Goto(t, "bulk")
    /\ UNCHANGED <<environment, index, published, postgres, reading, requests, last>>

\* A document with a known id is replaced; a missing index is made.
BulkIndex(t) ==
    /\ thread[t].at = "bulk"
    /\ opensearch.up
    /\ opensearch' = [opensearch EXCEPT
                        !.docs = (IF @ = None THEN {} ELSE @) \union ToSet(thread[t].chunks)]
    /\ thread' = [thread EXCEPT ![t].at = "answer", ![t].reached = @ \union {"opensearch"}]
    /\ UNCHANGED <<environment, index, published, postgres, reading, requests, last>>

OpensearchFails(t) ==
    /\ \/ thread[t].at \in {"head", "delete", "mapping", "bulk"} /\ ~opensearch.up
       \/ thread[t].at = "delete" /\ opensearch.docs = None
    /\ End(t)
    /\ UNCHANGED <<environment, index, published, stores, requests, last>>

-----------------------------------------------------------------------------

AnswerSearch(t) ==
    /\ thread[t].at = "answer"
    /\ ~thread[t].reindexing
    /\ End(t)
    /\ UNCHANGED <<environment, index, published, stores, requests, last>>

\* The answer describes the stores, which makes a connection if there is none.
AnswerReindex(t) ==
    /\ thread[t].at = "answer"
    /\ thread[t].reindexing
    /\ last' = IF thread[t].settled
               THEN [files |-> files, reached |-> thread[t].reached,
                     restarted |-> ~postgres.up \/ Mine(t).connection # postgres.starts]
               ELSE None
    /\ IF "pgvector" \in Up /\ Mine(t).connection = 0 THEN Connect(t) ELSE UNCHANGED index
    /\ End(t)
    /\ UNCHANGED <<environment, published, stores, requests>>

Step(t) ==
    \/ Publish(t) \/ TakeIndex(t)
    \/ Rebuild(t) \/ AppendChunk(t) \/ SearchLexical(t)
    \/ CheckPostgres(t) \/ BeginQuery(t) \/ EndQuery(t) \/ QueryFails(t)
    \/ DropTable(t) \/ CreateTable(t) \/ InsertRows(t) \/ PostgresFails(t)
    \/ CheckOpensearch(t) \/ SearchOpensearch(t)
    \/ HeadIndex(t) \/ DeleteIndex(t) \/ EnsureIndex(t) \/ BulkIndex(t) \/ OpensearchFails(t)
    \/ AnswerSearch(t) \/ AnswerReindex(t)

Next ==
    \/ \E to \in Knowledge \ {files} : Edit(to)
    \/ PostgresStops \/ PostgresStarts \/ OpensearchStops \/ OpensearchStarts
    \/ \E t \in Threads : Search(t) \/ Reindex(t) \/ Step(t)

Spec == Init /\ [][Next]_vars

\* Request threads go on; nobody owes an outage its end.
FairSpec == Spec /\ \A t \in Threads : WF_vars(Step(t))
=============================================================================
