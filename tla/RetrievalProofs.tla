--------------------------- MODULE RetrievalProofs ---------------------------
(***************************************************************************)
(* The properties of RetrievalSafety, for any threads, any finite set of   *)
(* chunks, any edits and any outages.  A step of a search leaves what a    *)
(* reindexing has established alone (SearchMoves); while a reindexing is   *)
(* at work nothing else has to be said (ReindexMoves, ReindexEnds).  Every *)
(* step of a request is one of these.                                      *)
(***************************************************************************)
EXTENDS RetrievalSafety, FiniteSetTheorems, SequenceTheorems, TLAPS

-----------------------------------------------------------------------------
(* Chunks and indexes.                                                     *)

\* What is loaded are the chunks of the files, each once.
LEMMA LoadChunksProperties ==
    ASSUME files \subseteq Chunks
    PROVE  /\ LoadChunks \in Seq(Chunks)
           /\ ToSet(LoadChunks) = files
           /\ IsInjective(LoadChunks)
           /\ LoadChunks = << >> <=> files = {}
<1> DEFINE n == Cardinality(files)
<1>1. IsFiniteSet(files)
  BY FS_Subset, RetrievalAssumption
<1>2. n \in Nat /\ ExistsBijection(1 .. n, files)
  BY <1>1, FS_CardinalityType
<1>3. \E f \in [1 .. n -> files] : IsInjective(f)
  BY <1>2 DEF ExistsBijection, Bijection, Injection
<1>4. LoadChunks \in [1 .. n -> files] /\ IsInjective(LoadChunks)
  BY <1>3 DEF LoadChunks, SetToSeq
<1>5. LoadChunks \in Surjection(1 .. n, files)
  <2>1. LoadChunks \in Injection(1 .. n, files)
    BY <1>4 DEF Injection
  <2>2. Cardinality(1 .. n) = Cardinality(files)
    BY <1>2, FS_Interval
  <2> QED
    BY <1>1, <2>1, <2>2, FS_Injection
<1> HIDE DEF n
<1>6. LoadChunks \in Seq(files) /\ LoadChunks \in Seq(Chunks) /\ Len(LoadChunks) = n
  BY <1>2, <1>4
<1>7. ToSet(LoadChunks) = files
  BY <1>4, <1>5 DEF ToSet, Surjection
<1>8. LoadChunks = << >> <=> files = {}
  <2>1. ASSUME LoadChunks = << >> PROVE files = {}
    BY <1>7, <2>1 DEF ToSet
  <2>2. ASSUME files = {} PROVE LoadChunks = << >>
    BY <1>6, <1>7, <2>2, EmptySeq DEF ToSet
  <2> QED
    BY <2>1, <2>2
<1> QED
  BY <1>4, <1>6, <1>7, <1>8

\* Entering the first of the chunks that are left leaves the sequence that is
\* being built the same.
LEMMA MoveHead ==
    ASSUME NEW S, NEW done \in Seq(S), NEW left \in Seq(S), left # << >>
    PROVE  /\ Append(done, Head(left)) \in Seq(S)
           /\ Tail(left) \in Seq(S)
           /\ Append(done, Head(left)) \o Tail(left) = done \o left
           /\ Len(left) = 1 => Append(done, Head(left)) = done \o left
           /\ Len(left) # 1 => Tail(left) # << >>
<1>1. /\ Head(left) \in S /\ Tail(left) \in Seq(S) /\ Len(Tail(left)) = Len(left) - 1
      /\ Len(left) \in Nat \ {0} /\ Len(done) \in Nat
      /\ \A i \in 1 .. Len(Tail(left)) : Tail(left)[i] = left[i + 1]
      /\ Head(left) = left[1]
  BY HeadTailProperties, EmptySeq, LenProperties
<1> DEFINE more == Append(done, Head(left))
<1>2. /\ more \in Seq(S) /\ Len(more) = Len(done) + 1
      /\ \A i \in 1 .. Len(done) : more[i] = done[i]
      /\ more[Len(done) + 1] = left[1]
  BY <1>1, AppendProperties
<1> HIDE DEF more
<1>3. /\ more \o Tail(left) \in Seq(S) /\ done \o left \in Seq(S)
      /\ Len(more \o Tail(left)) = Len(done) + Len(left)
      /\ Len(done \o left) = Len(done) + Len(left)
  <2> DEFINE rest == Tail(left)
  <2>1. rest \in Seq(S) /\ Len(rest) = Len(left) - 1
    BY <1>1
  <2> HIDE DEF rest
  <2>2. more \o rest \in Seq(S) /\ Len(more \o rest) = Len(more) + Len(rest)
    BY <1>2, <2>1, ConcatProperties
  <2>3. done \o left \in Seq(S) /\ Len(done \o left) = Len(done) + Len(left)
    BY ConcatProperties
  <2>4. Len(more) + Len(rest) = Len(done) + Len(left)
    BY <1>1, <1>2, <2>1
  <2> QED
    BY <2>2, <2>3, <2>4 DEF rest
<1>4. ASSUME NEW i \in 1 .. Len(done) + Len(left)
      PROVE  (more \o Tail(left))[i] = (done \o left)[i]
  <2>1. (done \o left)[i] = IF i <= Len(done) THEN done[i] ELSE left[i - Len(done)]
    BY ConcatProperties
  <2>2. (more \o Tail(left))[i] =
            IF i <= Len(more) THEN more[i] ELSE Tail(left)[i - Len(more)]
    BY <1>1, <1>2, ConcatProperties
  <2>3. CASE i <= Len(done)
    BY <1>1, <1>2, <2>1, <2>2, <2>3
  <2>4. CASE i = Len(done) + 1
    BY <1>1, <1>2, <2>1, <2>2, <2>4
  <2>5. CASE i > Len(done) + 1
    <3>1. i - Len(more) \in 1 .. Len(Tail(left)) /\ (i - Len(more)) + 1 = i - Len(done)
      BY <1>1, <1>2, <2>5
    <3>2. (more \o Tail(left))[i] = Tail(left)[i - Len(more)]
      BY <1>1, <1>2, <2>2, <2>5
    <3>3. Tail(left)[i - Len(more)] = left[(i - Len(more)) + 1]
      BY <1>1, <3>1
    <3>4. (done \o left)[i] = left[i - Len(done)]
      BY <1>1, <2>1, <2>5
    <3> QED
      BY <3>1, <3>2, <3>3, <3>4
  <2>6. i <= Len(done) \/ i = Len(done) + 1 \/ i > Len(done) + 1
    <3>1. i \in Nat /\ Len(done) \in Nat
      BY <1>1
    <3> QED
      BY <3>1
  <2> QED
    BY <2>3, <2>4, <2>5, <2>6
<1>5. more \o Tail(left) = done \o left
  BY <1>3, <1>4, SeqEqual
<1>6. Len(left) = 1 => Tail(left) = << >>
  <2>1. \A seq \in Seq(S) : Len(seq) = 0 => seq = << >>
    BY EmptySeq
  <2>2. Len(left) = 1 => Len(Tail(left)) = 0
    BY <1>1
  <2> QED
    BY <1>1, <2>1, <2>2
<1>7. Tail(left) = << >> => more = done \o left
  BY <1>2, <1>5, ConcatEmptySeq
<1>8. Len(left) # 1 => Tail(left) # << >>
  <2>1. Len(left) # 1 => Len(Tail(left)) # 0
    BY <1>1
  <2>2. Len(<< >>) = 0
    BY EmptySeq
  <2> QED
    BY <2>1, <2>2
<1> QED
  BY <1>1, <1>2, <1>5, <1>6, <1>7, <1>8 DEF more

\* An index that is replaced, or made, is one of the indexes.
LEMMA ReplaceIndex ==
    ASSUME NEW S, NEW seq \in Seq(S), NEW k \in 1 .. Len(seq), NEW e \in S
    PROVE  /\ [seq EXCEPT ![k] = e] \in Seq(S)
           /\ Len([seq EXCEPT ![k] = e]) = Len(seq)
           /\ [seq EXCEPT ![k] = e][k] = e
           /\ \A j \in 1 .. Len(seq) : j # k => [seq EXCEPT ![k] = e][j] = seq[j]
BY ExceptSeq

\* A connection is made for the thread's index, and nothing else.
LEMMA ConnectionMade ==
    ASSUME RetrievalTypeOK, NEW t \in Threads, thread[t].index \in 1 .. published, Connect(t)
    PROVE  /\ index' \in Seq(IndexObjects) /\ Len(index') = published
           /\ \A j \in 1 .. published :
                 /\ index'[j].chunks = index[j].chunks
                 /\ index'[j].connection \in {index[j].connection, postgres.starts}
<1>1. PICK k : k = thread[t].index
  OBVIOUS
<1>2. PICK e : e = [index[k] EXCEPT !.connection = postgres.starts]
  OBVIOUS
<1>3. index \in Seq(IndexObjects) /\ published = Len(index) /\ postgres.starts \in Nat
  BY DEF RetrievalTypeOK
<1>4. \A j \in 1 .. published : index[j] \in IndexObjects
  BY <1>3, ElementOfSeq
<1>5. e \in IndexObjects /\ e.chunks = index[k].chunks /\ e.connection = postgres.starts
  <2>1. PICK o, c : o = index[k] /\ c = postgres.starts
    OBVIOUS
  <2>2. /\ o \in [chunks : Seq(Chunks), connection : 0 .. postgres.starts]
        /\ c \in 0 .. postgres.starts
    BY <1>1, <1>3, <1>4, <2>1 DEF IndexObjects
  <2>3. e = [o EXCEPT !.connection = c]
    BY <1>2, <2>1
  <2> QED
    BY <2>1, <2>2, <2>3 DEF IndexObjects
<1>6. index' = [index EXCEPT ![k] = e]
  BY <1>1, <1>2 DEF Connect
<1>7. /\ index' \in Seq(IndexObjects) /\ Len(index') = Len(index) /\ index'[k] = e
      /\ \A j \in 1 .. Len(index) : j # k => index'[j] = index[j]
  BY <1>1, <1>3, <1>5, <1>6, ReplaceIndex
<1> QED
  BY <1>1, <1>3, <1>5, <1>7

-----------------------------------------------------------------------------
(* The steps of a request.                                                 *)

\* One thread has moved, and the others have not.
LEMMA OneThreadMoves ==
    ASSUME thread \in [Threads -> ThreadStates], NEW t \in Threads, NEW r \in ThreadStates,
           thread' = [thread EXCEPT ![t] = r]
    PROVE  /\ thread' \in [Threads -> ThreadStates]
           /\ thread'[t] = r
           /\ \A u \in Threads \ {t} : thread'[u] = thread[u]
OBVIOUS

\* Beside a reindexing nobody is settled, and nothing is remembered.
LEMMA BesideReindexing ==
    ASSUME RetrievalInv, NEW t \in Threads, thread[t].reindexing
    PROVE  /\ last = None
           /\ \A u \in Threads \ {t} : ~thread[u].settled
BY DEF RetrievalInv, Alone

\* Whoever is placed stays placed while the indexes grow and the lock is not
\* given to him.
LEMMA StaysPlaced ==
    ASSUME NEW u, NEW r, Placed(u, r), published \in Nat, published' \in Nat,
           published' >= published, u \in reading' => u \in reading, r.steady \subseteq Up'
    PROVE  Placed(u, r)'
BY DEF Placed

\* A step of a search: it reads what there is, may make a connection, and may
\* take and leave the lock.  What a reindexing has established stays, and so
\* does the progress of all others.
LEMMA SearchMoves ==
    ASSUME RetrievalInv, NEW t \in Threads, NEW r \in ThreadStates,
           ~thread[t].reindexing, ~r.reindexing,
           thread' = [thread EXCEPT ![t] = r],
           files' = files, postgres' = postgres, opensearch' = opensearch, last' = last,
           index' \in Seq(IndexObjects), published' = Len(index'), published' >= published,
           published # 0 => published' = published,
           \A k \in 1 .. published :
              /\ index'[k].chunks = index[k].chunks
              /\ index'[k].connection \in {index[k].connection, postgres.starts},
           reading' \subseteq reading \union {t}, reading \ {t} \subseteq reading',
           Placed(t, r)', r.settled => last # None /\ SearchOK(t, r)'
    PROVE  RetrievalInv'
<1>0. /\ RetrievalTypeOK /\ Alone /\ ReindexTakesEffect /\ StillConnected
      /\ \A u \in Threads : thread[u].settled =>
            IF thread[u].reindexing THEN ReindexingOK(thread[u]) ELSE SearchOK(u, thread[u])
  BY DEF RetrievalInv
<1>1. published \in Nat /\ published' \in Nat /\ published = Len(index)
  BY <1>0, LenProperties DEF RetrievalTypeOK
<1>2. /\ thread' \in [Threads -> ThreadStates]
      /\ thread'[t] = r
      /\ \A u \in Threads \ {t} : thread'[u] = thread[u]
  BY <1>0, OneThreadMoves DEF RetrievalTypeOK
<1>3. Up' = Up /\ IndexObjects' = IndexObjects
  BY DEF Up, Stores, IndexObjects
<1>4. RetrievalTypeOK'
  <2>1. ASSUME NEW u \in Threads \ {t} PROVE Placed(u, thread[u])'
    <3>1. PICK q : q = thread[u]
      OBVIOUS
    <3>2. Placed(u, q) /\ q.steady \subseteq Up'
      BY <1>0, <1>3, <3>1 DEF RetrievalTypeOK, Placed
    <3>3. Placed(u, q)'
      BY <1>1, <3>2, StaysPlaced
    <3> QED
      BY <1>2, <3>1, <3>3
  <2>2. \A u \in Threads : Placed(u, thread[u])'
    BY <1>2, <2>1
  <2>3. files' \subseteq Chunks /\ reading' \subseteq Threads
    BY <1>0 DEF RetrievalTypeOK
  <2> QED
    BY <1>0, <1>2, <1>3, <2>2, <2>3 DEF RetrievalTypeOK
<1>5. Alone'
  BY <1>0, <1>1, <1>2 DEF Alone
<1>6. last # None => /\ published' = published /\ published \in 1 .. published
                     /\ Lexical' = Lexical
                     /\ index'[published].connection \in
                           {index[published].connection, postgres.starts}
  BY <1>0, <1>1 DEF Alone, Lexical
<1>7. ReindexTakesEffect'
  BY <1>0, <1>6 DEF ReindexTakesEffect, Lexical
<1>8. StillConnected'
  BY <1>0, <1>6 DEF StillConnected
<1>9. ASSUME NEW u \in Threads, thread'[u].settled
      PROVE  IF thread'[u].reindexing THEN ReindexingOK(thread[u])' ELSE SearchOK(u, thread[u])'
  <2>1. CASE u = t
    BY <1>2, <1>9, <2>1
  <2>2. CASE u # t
    <3>1. PICK q : q = thread[u]
      OBVIOUS
    <3>2. thread'[u] = q /\ q.settled
      BY <1>2, <1>9, <2>2, <3>1
    <3>3. CASE q.reindexing
      <4>1. ReindexingOK(q) /\ Placed(u, q)
        BY <1>0, <3>1, <3>2, <3>3 DEF RetrievalTypeOK
      <4>2. q.at \notin Untaken => published # 0
        BY <1>1, <4>1 DEF Placed
      <4>3. q.at \notin Untaken => published' = published /\ Lexical' = Lexical
        BY <1>1, <4>2 DEF Lexical
      <4>4. LoadChunks' = LoadChunks
        BY DEF LoadChunks
      <4>5. ReindexingOK(q)'
        BY <4>1, <4>3, <4>4 DEF ReindexingOK, Untaken
      <4> QED
        BY <3>2, <3>3, <4>5
    <3>4. CASE ~q.reindexing
      <4>1. SearchOK(u, q) /\ last # None
        BY <1>0, <3>1, <3>2, <3>4 DEF Alone
      <4>2. u \in reading => u \in reading'
        BY <2>2
      <4>3. SearchOK(u, q)'
        BY <1>6, <4>1, <4>2 DEF SearchOK
      <4> QED
        BY <3>2, <3>4, <4>3
    <3> QED
      BY <3>3, <3>4
  <2> QED
    BY <2>1, <2>2
<1> QED
  BY <1>4, <1>5, <1>7, <1>8, <1>9 DEF RetrievalInv

\* A step of a reindexing: as nobody else is settled, only its own progress
\* has to be shown.
LEMMA ReindexMoves ==
    ASSUME RetrievalInv, NEW t \in Threads, NEW r \in ThreadStates,
           thread[t].reindexing, r.reindexing, r.settled => thread[t].settled,
           thread' = [thread EXCEPT ![t] = r],
           files' = files, reading' = reading, last' = last,
           postgres'.up = postgres.up, postgres'.starts = postgres.starts,
           postgres' \in [up : BOOLEAN, starts : Nat, table : (SUBSET Chunks) \union {None}],
           opensearch'.up = opensearch.up,
           opensearch' \in [up : BOOLEAN, docs : (SUBSET Chunks) \union {None}],
           index' \in Seq(IndexObjects), published' = Len(index'), published' >= published,
           Placed(t, r)', r.settled => ReindexingOK(r)'
    PROVE  RetrievalInv'
<1>0. /\ RetrievalTypeOK /\ Alone
      /\ \A u \in Threads : thread[u].settled =>
            IF thread[u].reindexing THEN ReindexingOK(thread[u]) ELSE SearchOK(u, thread[u])
  BY DEF RetrievalInv
<1>1. published \in Nat /\ published' \in Nat /\ published = Len(index)
  BY <1>0, LenProperties DEF RetrievalTypeOK
<1>2. /\ thread' \in [Threads -> ThreadStates]
      /\ thread'[t] = r
      /\ \A u \in Threads \ {t} : thread'[u] = thread[u]
  BY <1>0, OneThreadMoves DEF RetrievalTypeOK
<1>3. Up' = Up /\ IndexObjects' = IndexObjects
  BY DEF Up, Stores, IndexObjects
<1>4. last = None /\ last' = None /\ \A u \in Threads \ {t} : ~thread'[u].settled
  BY <1>2, BesideReindexing
<1>5. RetrievalTypeOK'
  <2>1. ASSUME NEW u \in Threads \ {t} PROVE Placed(u, thread[u])'
    <3>1. PICK q : q = thread[u]
      OBVIOUS
    <3>2. Placed(u, q) /\ q.steady \subseteq Up'
      BY <1>0, <1>3, <3>1 DEF RetrievalTypeOK, Placed
    <3>3. Placed(u, q)'
      BY <1>1, <3>2, StaysPlaced
    <3> QED
      BY <1>2, <3>1, <3>3
  <2>2. \A u \in Threads : Placed(u, thread[u])'
    BY <1>2, <2>1
  <2>3. files' \subseteq Chunks /\ reading' \subseteq Threads
    BY <1>0 DEF RetrievalTypeOK
  <2> QED
    BY <1>0, <1>2, <1>3, <2>2, <2>3 DEF RetrievalTypeOK
<1>6. Alone'
  BY <1>0, <1>1, <1>2, <1>4 DEF Alone
<1>7. ReindexTakesEffect' /\ StillConnected'
  BY <1>4 DEF ReindexTakesEffect, StillConnected
<1>8. ASSUME NEW u \in Threads, thread'[u].settled
      PROVE  IF thread'[u].reindexing THEN ReindexingOK(thread[u])' ELSE SearchOK(u, thread[u])'
  BY <1>2, <1>4, <1>8
<1> QED
  BY <1>5, <1>6, <1>7, <1>8 DEF RetrievalInv

\* The end of a reindexing, answered or failed.
LEMMA ReindexEnds ==
    ASSUME RetrievalInv, NEW t \in Threads, thread[t].reindexing,
           thread' = [thread EXCEPT ![t] = Idle],
           files' = files, postgres' = postgres, opensearch' = opensearch, reading' = reading,
           index' \in Seq(IndexObjects), published' = Len(index'), published' = published,
           last' \in Reindexings \union {None},
           last' # None => thread[t].settled /\ published # 0,
           ReindexTakesEffect', StillConnected'
    PROVE  RetrievalInv'
<1>0. RetrievalTypeOK /\ Alone
  BY DEF RetrievalInv
<1>1. published \in Nat /\ thread[t] \in ThreadStates /\ Placed(t, thread[t])
  BY <1>0, LenProperties DEF RetrievalTypeOK
<1>2. Idle \in ThreadStates /\ ~Idle.reindexing /\ ~Idle.settled
  BY EmptySeq DEF Idle, ThreadStates, Nothing
<1>3. /\ thread' \in [Threads -> ThreadStates]
      /\ thread'[t] = Idle
      /\ \A u \in Threads \ {t} : thread'[u] = thread[u]
  BY <1>0, <1>2, OneThreadMoves DEF RetrievalTypeOK
<1>4. Up' = Up /\ IndexObjects' = IndexObjects
  BY DEF Up, Stores, IndexObjects
<1>5. \A u \in Threads : ~thread'[u].settled
  BY <1>2, <1>3, BesideReindexing
<1>6. RetrievalTypeOK'
  <2>1. ASSUME NEW u \in Threads \ {t} PROVE Placed(u, thread[u])'
    <3>1. PICK q : q = thread[u]
      OBVIOUS
    <3>2. Placed(u, q) /\ q.steady \subseteq Up'
      BY <1>0, <1>4, <3>1 DEF RetrievalTypeOK, Placed
    <3>3. Placed(u, q)'
      BY <1>1, <3>2, StaysPlaced
    <3> QED
      BY <1>3, <3>1, <3>3
  <2>2. Placed(t, thread[t])'
    <3>1. t \notin reading
      BY <1>1 DEF Placed, ReindexPlaces
    <3>2. /\ Idle.at = "idle" /\ Idle.index = 0 /\ Idle.steady = {}
      BY DEF Idle
    <3> QED
      BY <1>1, <1>2, <1>3, <3>1, <3>2 DEF Placed, Untaken
  <2>3. \A u \in Threads : Placed(u, thread[u])'
    BY <2>1, <2>2
  <2> QED
    BY <1>0, <1>3, <1>4, <2>3 DEF RetrievalTypeOK
<1>7. Alone'
  BY <1>0, <1>2, <1>3, <1>5 DEF Alone
<1> QED
  BY <1>5, <1>6, <1>7 DEF RetrievalInv

\* What the stores are, whatever a step does to other variables.
LEMMA StoresTyped ==
    ASSUME RetrievalInv
    PROVE  /\ postgres \in [up : BOOLEAN, starts : Nat, table : (SUBSET Chunks) \union {None}]
           /\ opensearch \in [up : BOOLEAN, docs : (SUBSET Chunks) \union {None}]
BY DEF RetrievalInv, RetrievalTypeOK

\* What is known of a request when it takes a step.
LEMMA Serving ==
    ASSUME RetrievalInv, NEW t \in Threads, NEW q, q = thread[t]
    PROVE  /\ q \in ThreadStates /\ Placed(t, q)
           /\ published \in Nat /\ published = Len(index) /\ index \in Seq(IndexObjects)
           /\ q.at \notin Untaken => q.index \in 1 .. published
           /\ ~q.reindexing /\ q.settled => last # None /\ SearchOK(t, q)
           /\ q.reindexing /\ q.settled => ReindexingOK(q)
<1>1. RetrievalTypeOK /\ Alone
  BY DEF RetrievalInv
<1>2. /\ q \in ThreadStates /\ Placed(t, q)
      /\ published \in Nat /\ published = Len(index) /\ index \in Seq(IndexObjects)
  BY <1>1, LenProperties DEF RetrievalTypeOK
<1>3. q.at \notin Untaken => q.index \in 1 .. published
  BY <1>2 DEF Placed
<1> QED
  BY <1>1, <1>2, <1>3 DEF RetrievalInv, Alone

\* The kind of a request shows in where it is.
LEMMA Searching ==
    ASSUME NEW t, NEW q, Placed(t, q), q.at \in {"lexical", "query", "rows", "match"}
    PROVE  ~q.reindexing
BY DEF Placed, ReindexPlaces

LEMMA Reindexing ==
    ASSUME NEW t, NEW q, Placed(t, q), q.reindexing \in BOOLEAN,
           q.at \in {"rebuild", "append", "drop", "create", "insert", "head", "delete",
                     "mapping", "bulk"}
    PROVE  q.reindexing
BY DEF Placed, SearchPlaces

\* A step of a search that changes no index.
LEMMA SearchGoes ==
    ASSUME RetrievalInv, NEW t \in Threads, NEW r \in ThreadStates,
           ~thread[t].reindexing, ~r.reindexing,
           thread' = [thread EXCEPT ![t] = r],
           files' = files, postgres' = postgres, opensearch' = opensearch, last' = last,
           index' = index, published' = published,
           reading' \subseteq reading \union {t}, reading \ {t} \subseteq reading',
           Placed(t, r)', r.settled => last # None /\ SearchOK(t, r)'
    PROVE  RetrievalInv'
<1>1. published \in Nat /\ published = Len(index) /\ index \in Seq(IndexObjects)
  BY Serving
<1>2. index' \in Seq(IndexObjects) /\ published' = Len(index') /\ published' >= published
  BY <1>1
<1>3. \A k \in 1 .. published :
         /\ index'[k].chunks = index[k].chunks
         /\ index'[k].connection \in {index[k].connection, postgres.starts}
  OBVIOUS
<1> QED
  BY <1>2, <1>3, SearchMoves

\* A step of a reindexing that changes no index.
LEMMA ReindexGoes ==
    ASSUME RetrievalInv, NEW t \in Threads, NEW r \in ThreadStates,
           thread[t].reindexing, r.reindexing, r.settled => thread[t].settled,
           thread' = [thread EXCEPT ![t] = r],
           files' = files, reading' = reading, last' = last,
           postgres'.up = postgres.up, postgres'.starts = postgres.starts,
           postgres' \in [up : BOOLEAN, starts : Nat, table : (SUBSET Chunks) \union {None}],
           opensearch'.up = opensearch.up,
           opensearch' \in [up : BOOLEAN, docs : (SUBSET Chunks) \union {None}],
           index' = index, published' = published,
           Placed(t, r)', r.settled => ReindexingOK(r)'
    PROVE  RetrievalInv'
<1>1. published \in Nat /\ published = Len(index) /\ index \in Seq(IndexObjects)
  BY Serving
<1>2. index' \in Seq(IndexObjects) /\ published' = Len(index') /\ published' >= published
  BY <1>1
<1> QED
  BY <1>2, ReindexMoves

-----------------------------------------------------------------------------
(* A search, action by action.                                             *)

LEMMA SearchBegins ==
    ASSUME RetrievalInv, NEW t \in Threads, Search(t)
    PROVE  RetrievalInv'
<1>1. thread[t] = Idle /\ thread[t] \in ThreadStates /\ Placed(t, thread[t])
  BY Serving DEF Search
<1>2. PICK r : r = [Idle EXCEPT !.at = IF published = 0 THEN "build" ELSE "index",
                                !.settled = last # None, !.steady = Up]
  OBVIOUS
<1>3. /\ r \in ThreadStates
      /\ r.at = (IF published = 0 THEN "build" ELSE "index") /\ ~r.reindexing /\ r.index = 0
      /\ r.found = Nothing /\ r.settled = (last # None) /\ r.steady = Up
  BY <1>2, EmptySeq DEF Idle, ThreadStates, Nothing, SearchPlaces, Up, Stores, Backends
<1>4. thread' = [thread EXCEPT ![t] = r]
  BY <1>2 DEF Search
<1>5. ~thread[t].reindexing /\ t \notin reading
  BY <1>1 DEF Idle, Placed
<1>6. published \in Nat
  BY Serving
<1>7. Placed(t, r)'
  BY <1>3, <1>5, <1>6 DEF Placed, Untaken, SearchPlaces, Search, stores, Up, Stores
<1>8. ASSUME r.settled PROVE last # None /\ SearchOK(t, r)'
  <2>1. last' = last /\ last # None
    BY <1>3, <1>8 DEF Search
  <2>2. last.reached \subseteq Backends
    BY <2>1 DEF RetrievalInv, RetrievalTypeOK, Reindexings
  <2>3. \A b \in Backends : r.found[b] = {}
    BY <1>3 DEF Nothing
  <2>4. r.at \in Untaken /\ r.at \in {"build", "index"}
    BY <1>3 DEF Untaken
  <2> QED
    BY <2>1, <2>2, <2>3, <2>4 DEF SearchOK
<1> QED
  BY <1>3, <1>4, <1>5, <1>7, <1>8, SearchGoes DEF Search, stores, environment

LEMMA SearchTakesIndex ==
    ASSUME RetrievalInv, NEW t \in Threads, TakeIndex(t), ~thread[t].reindexing
    PROVE  RetrievalInv'
<1>1. PICK q : q = thread[t]
  OBVIOUS
<1>2. /\ q \in ThreadStates /\ Placed(t, q) /\ ~q.reindexing /\ q.at = "index"
      /\ published \in Nat
      /\ q.settled => last # None /\ SearchOK(t, q)
  BY <1>1, Serving DEF TakeIndex
<1>3. PICK r : r = [q EXCEPT !.index = published, !.at = "lexical"]
  OBVIOUS
<1>4. /\ r \in ThreadStates
      /\ r.at = "lexical" /\ ~r.reindexing /\ r.index = published /\ r.found = q.found
      /\ r.settled = q.settled /\ r.steady = q.steady
  BY <1>2, <1>3 DEF ThreadStates, SearchPlaces
<1>5. thread' = [thread EXCEPT ![t] = r]
  BY <1>1, <1>2, <1>3 DEF TakeIndex
<1>6. Placed(t, r)'
  BY <1>2, <1>4 DEF Placed, Untaken, SearchPlaces, TakeIndex, stores, Up, Stores
<1>7. r.settled => last # None /\ SearchOK(t, r)'
  BY <1>2, <1>4 DEF SearchOK, Untaken, TakeIndex, stores
<1> QED
  BY <1>1, <1>2, <1>4, <1>5, <1>6, <1>7, SearchGoes DEF TakeIndex, stores, environment

LEMMA SearchesLexical ==
    ASSUME RetrievalInv, NEW t \in Threads, SearchLexical(t)
    PROVE  RetrievalInv'
<1>1. PICK q : q = thread[t]
  OBVIOUS
<1>2. /\ q \in ThreadStates /\ Placed(t, q) /\ q.at = "lexical" /\ published \in Nat
      /\ index \in Seq(IndexObjects) /\ published = Len(index)
      /\ q.index \in 1 .. published
  BY <1>1, Serving DEF SearchLexical, Untaken
<1>3. ~q.reindexing /\ (q.settled => last # None /\ SearchOK(t, q))
  BY <1>1, <1>2, Serving, Searching
<1>4. PICK found \in SUBSET ToSet(Mine(t).chunks) :
         /\ Rebuilding(thread[t].index) \/ found = ToSet(Mine(t).chunks)
         /\ thread' = [thread EXCEPT ![t].found["tfidf"] = found, ![t].at = "postgres?"]
  BY DEF SearchLexical
<1>5. found \in SUBSET Chunks
  <2>1. index[q.index] \in IndexObjects
    BY <1>2, ElementOfSeq
  <2>2. Mine(t).chunks \in Seq(Chunks)
    BY <1>1, <2>1 DEF Mine, IndexObjects
  <2>3. ToSet(Mine(t).chunks) \subseteq Chunks
    BY <2>2, LenProperties, ElementOfSeq DEF ToSet
  <2> QED
    BY <2>3
<1>6. PICK r : r = [q EXCEPT !.found["tfidf"] = found, !.at = "postgres?"]
  OBVIOUS
<1>7. /\ r \in ThreadStates
      /\ r.at = "postgres?" /\ ~r.reindexing /\ r.index = q.index
      /\ r.found["tfidf"] = found
      /\ r.found["pgvector"] = q.found["pgvector"]
      /\ r.found["opensearch"] = q.found["opensearch"]
      /\ r.settled = q.settled /\ r.steady = q.steady
  BY <1>2, <1>3, <1>5, <1>6 DEF ThreadStates, SearchPlaces, Backends
<1>8. thread' = [thread EXCEPT ![t] = r]
  BY <1>1, <1>4, <1>6
<1>9. Placed(t, r)'
  BY <1>2, <1>7 DEF Placed, Untaken, SearchPlaces, SearchLexical, stores, Up, Stores
<1>10. ASSUME r.settled PROVE last # None /\ SearchOK(t, r)'
  <2>1. last # None /\ SearchOK(t, q)
    BY <1>3, <1>7, <1>10
  <2>2. ~Rebuilding(thread[t].index)
    <3> SUFFICES ASSUME NEW u \in Threads, thread[u].reindexing PROVE FALSE
      BY DEF Rebuilding
    <3> QED
      BY <2>1 DEF RetrievalInv, Alone
  <2>3. found = ToSet(Lexical)
    BY <1>1, <1>2, <1>4, <2>1, <2>2 DEF Mine, Lexical, SearchOK, Untaken
  <2>4. found = last.files
    BY <2>1, <2>3 DEF RetrievalInv, ReindexTakesEffect, Lexical
  <2>5. last.reached \subseteq Backends
    BY <2>1 DEF RetrievalInv, RetrievalTypeOK, Reindexings
  <2> QED
    BY <1>2, <1>7, <2>1, <2>4, <2>5 DEF SearchOK, Untaken, SearchLexical, stores, Backends
<1> QED
  BY <1>1, <1>3, <1>7, <1>8, <1>9, <1>10, SearchGoes DEF SearchLexical, stores, environment

LEMMA SearchChecksPostgres ==
    ASSUME RetrievalInv, NEW t \in Threads, CheckPostgres(t), ~thread[t].reindexing
    PROVE  RetrievalInv'
<1>1. PICK q : q = thread[t]
  OBVIOUS
<1>2. /\ q \in ThreadStates /\ Placed(t, q) /\ ~q.reindexing /\ q.at = "postgres?"
      /\ published \in Nat
      /\ q.settled => last # None /\ SearchOK(t, q)
  BY <1>1, Serving DEF CheckPostgres
<1>3. PICK r : r = [q EXCEPT !.chunks = << >>,
                             !.at = IF "pgvector" \notin Up THEN "opensearch?" ELSE "query"]
  OBVIOUS
<1>4. /\ r \in ThreadStates
      /\ r.at = (IF "pgvector" \notin Up THEN "opensearch?" ELSE "query")
      /\ ~r.reindexing /\ r.index = q.index /\ r.found = q.found
      /\ r.settled = q.settled /\ r.steady = q.steady
  BY <1>2, <1>3, EmptySeq DEF ThreadStates, SearchPlaces
<1>5. thread' = [thread EXCEPT ![t] = r]
  BY <1>1, <1>2, <1>3 DEF CheckPostgres, Given
<1>6. r.at = "query" \/ "pgvector" \notin r.steady
  BY <1>2, <1>4 DEF Placed
<1>7. r.at \in {"query", "opensearch?"}
  BY <1>4
<1>8. Placed(t, r)'
  BY <1>2, <1>4, <1>7 DEF Placed, Untaken, SearchPlaces, CheckPostgres, stores, Up, Stores
<1>9. r.settled => last # None /\ SearchOK(t, r)'
  BY <1>2, <1>4, <1>6, <1>7 DEF SearchOK, Untaken, CheckPostgres, stores
<1> QED
  BY <1>1, <1>2, <1>4, <1>5, <1>8, <1>9, SearchGoes DEF CheckPostgres, stores, environment

\* A query that connects, and leaves the indexes as they are otherwise.
LEMMA SearchConnects ==
    ASSUME RetrievalInv, NEW t \in Threads, NEW r \in ThreadStates,
           ~thread[t].reindexing, ~r.reindexing, thread[t].index \in 1 .. published,
           thread' = [thread EXCEPT ![t] = r],
           files' = files, postgres' = postgres, opensearch' = opensearch, last' = last,
           Connect(t), published' = published,
           reading' \subseteq reading \union {t}, reading \ {t} \subseteq reading',
           Placed(t, r)', r.settled => last # None /\ SearchOK(t, r)'
    PROVE  RetrievalInv'
<1>1. RetrievalTypeOK
  BY DEF RetrievalInv
<1>2. /\ index' \in Seq(IndexObjects) /\ Len(index') = published
      /\ \A j \in 1 .. published :
            /\ index'[j].chunks = index[j].chunks
            /\ index'[j].connection \in {index[j].connection, postgres.starts}
  BY <1>1, ConnectionMade
<1>3. published \in Nat
  BY Serving
<1>4. published' = Len(index') /\ published' >= published
  BY <1>2, <1>3
<1> QED
  BY <1>2, <1>4, SearchMoves

LEMMA QueryBegins ==
    ASSUME RetrievalInv, NEW t \in Threads, BeginQuery(t)
    PROVE  RetrievalInv'
<1>1. PICK q : q = thread[t]
  OBVIOUS
<1>2. /\ q \in ThreadStates /\ Placed(t, q) /\ q.at = "query" /\ published \in Nat
      /\ q.index \in 1 .. published
  BY <1>1, Serving DEF BeginQuery, Untaken
<1>3. ~q.reindexing /\ (q.settled => last # None /\ SearchOK(t, q))
  BY <1>1, <1>2, Serving, Searching
<1>4. PICK table : table = postgres.table
  OBVIOUS
<1>5. table \in SUBSET Chunks
  BY <1>4 DEF BeginQuery, RetrievalInv, RetrievalTypeOK
<1>6. PICK r : r = [q EXCEPT !.at = "rows", !.found["pgvector"] = table]
  OBVIOUS
<1>7. /\ r \in ThreadStates
      /\ r.at = "rows" /\ ~r.reindexing /\ r.index = q.index
      /\ r.found["tfidf"] = q.found["tfidf"]
      /\ r.found["pgvector"] = table
      /\ r.found["opensearch"] = q.found["opensearch"]
      /\ r.settled = q.settled /\ r.steady = q.steady
  BY <1>2, <1>3, <1>5, <1>6 DEF ThreadStates, SearchPlaces, Backends
<1>8. thread' = [thread EXCEPT ![t] = r]
  BY <1>1, <1>4, <1>6 DEF BeginQuery
<1>9. Placed(t, r)'
  BY <1>2, <1>7 DEF Placed, Untaken, SearchPlaces, BeginQuery, Up, Stores
<1>10. ASSUME r.settled PROVE last # None /\ SearchOK(t, r)'
  <2>1. last # None /\ SearchOK(t, q)
    BY <1>3, <1>7, <1>10
  <2>2. last.reached \subseteq Backends
    BY <2>1 DEF RetrievalInv, RetrievalTypeOK, Reindexings
  <2>3. "pgvector" \in last.reached => table = last.files
    BY <1>4, <2>1 DEF RetrievalInv, ReindexTakesEffect
  <2>4. t \in reading' /\ last' = last /\ published' = published
    BY DEF BeginQuery
  <2> QED
    BY <1>2, <1>7, <2>1, <2>2, <2>3, <2>4 DEF SearchOK, Untaken, Backends
<1>11. /\ files' = files /\ postgres' = postgres /\ opensearch' = opensearch /\ last' = last
       /\ Connect(t) /\ published' = published
       /\ reading' \subseteq reading \union {t} /\ reading \ {t} \subseteq reading'
  BY DEF BeginQuery, environment
<1> QED
  BY <1>1, <1>2, <1>3, <1>7, <1>8, <1>9, <1>10, <1>11, SearchConnects

LEMMA QueryEnds ==
    ASSUME RetrievalInv, NEW t \in Threads, EndQuery(t)
    PROVE  RetrievalInv'
<1>1. PICK q : q = thread[t]
  OBVIOUS
<1>2. /\ q \in ThreadStates /\ Placed(t, q) /\ q.at = "rows" /\ published \in Nat
      /\ q.index \in 1 .. published
  BY <1>1, Serving DEF EndQuery, Untaken
<1>3. ~q.reindexing /\ (q.settled => last # None /\ SearchOK(t, q))
  BY <1>1, <1>2, Serving, Searching
<1>4. PICK rows : rows = IF t \in reading THEN q.found["pgvector"] ELSE {}
  OBVIOUS
<1>5. PICK r : r = [q EXCEPT !.at = "opensearch?", !.found["pgvector"] = rows]
  OBVIOUS
<1>6. /\ r \in ThreadStates
      /\ r.at = "opensearch?" /\ ~r.reindexing /\ r.index = q.index
      /\ r.found["tfidf"] = q.found["tfidf"]
      /\ r.found["pgvector"] = rows
      /\ r.found["opensearch"] = q.found["opensearch"]
      /\ r.settled = q.settled /\ r.steady = q.steady
  BY <1>2, <1>3, <1>4, <1>5 DEF ThreadStates, SearchPlaces, Backends
<1>7. thread' = [thread EXCEPT ![t] = r]
  BY <1>1, <1>4, <1>5 DEF EndQuery
<1>8. Placed(t, r)'
  BY <1>2, <1>6 DEF Placed, Untaken, SearchPlaces, EndQuery, Up, Stores
<1>9. ASSUME r.settled PROVE last # None /\ SearchOK(t, r)'
  <2>1. last # None /\ SearchOK(t, q)
    BY <1>3, <1>6, <1>9
  <2>2. last.reached \subseteq Backends
    BY <2>1 DEF RetrievalInv, RetrievalTypeOK, Reindexings
  <2>3. last' = last /\ published' = published
    BY DEF EndQuery
  <2> QED
    BY <1>2, <1>4, <1>6, <2>1, <2>2, <2>3 DEF SearchOK, Untaken, Backends
<1>10. /\ files' = files /\ postgres' = postgres /\ opensearch' = opensearch /\ last' = last
       /\ index' = index /\ published' = published
       /\ reading' \subseteq reading \union {t} /\ reading \ {t} \subseteq reading'
  BY DEF EndQuery, environment
<1> QED
  BY <1>1, <1>3, <1>6, <1>7, <1>8, <1>9, <1>10, SearchGoes

LEMMA QueryIsRefused ==
    ASSUME RetrievalInv, NEW t \in Threads, QueryFails(t)
    PROVE  RetrievalInv'
<1>1. PICK q : q = thread[t]
  OBVIOUS
<1>2. /\ q \in ThreadStates /\ Placed(t, q) /\ q.at = "query" /\ published \in Nat
      /\ q.index \in 1 .. published
  BY <1>1, Serving DEF QueryFails, Untaken
<1>3. ~q.reindexing /\ (q.settled => last # None /\ SearchOK(t, q))
  BY <1>1, <1>2, Serving, Searching
<1>4. PICK r : r = [q EXCEPT !.at = "opensearch?"]
  OBVIOUS
<1>5. /\ r \in ThreadStates
      /\ r.at = "opensearch?" /\ ~r.reindexing /\ r.index = q.index /\ r.found = q.found
      /\ r.settled = q.settled /\ r.steady = q.steady
  BY <1>2, <1>3, <1>4 DEF ThreadStates, SearchPlaces
<1>6. thread' = [thread EXCEPT ![t] = r]
  BY <1>1, <1>4 DEF QueryFails, Goto
<1>7. Placed(t, r)'
  BY <1>2, <1>5 DEF Placed, Untaken, SearchPlaces, QueryFails, stores, Up, Stores
<1>8. ASSUME r.settled PROVE last # None /\ SearchOK(t, r)'
  <2>1. last # None /\ SearchOK(t, q)
    BY <1>3, <1>5, <1>8
  <2>2. last \in Reindexings
    BY <2>1 DEF RetrievalInv, RetrievalTypeOK
  <2>3. last' = last /\ published' = published
    BY DEF QueryFails
  <2>4. ASSUME "pgvector" \in last.reached, ~last.restarted PROVE FALSE
    <3>1. postgres.up /\ index[published].connection = postgres.starts
      BY <2>1, <2>4 DEF RetrievalInv, StillConnected
    <3>2. Connected(t)
      BY <1>1, <1>2, <2>1, <3>1 DEF Connected, Mine, SearchOK, Untaken
    <3>3. postgres.table = last.files
      BY <2>1, <2>4 DEF RetrievalInv, ReindexTakesEffect
    <3>4. last.files # None
      BY <2>2, RetrievalAssumption DEF Reindexings
    <3> QED
      BY <3>2, <3>3, <3>4 DEF QueryFails
  <2> QED
    BY <1>2, <1>5, <2>1, <2>3, <2>4 DEF SearchOK, Untaken
<1>9. /\ files' = files /\ postgres' = postgres /\ opensearch' = opensearch /\ last' = last
      /\ reading' = reading /\ published' = published
  BY DEF QueryFails, environment, stores
<1>10. CASE Connected(t)
  <2>1. Connect(t)
    BY <1>10 DEF QueryFails
  <2> QED
    BY <1>1, <1>2, <1>3, <1>5, <1>6, <1>7, <1>8, <1>9, <2>1, SearchConnects
<1>11. CASE ~Connected(t)
  <2>1. index' = index
    BY <1>11 DEF QueryFails
  <2> QED
    BY <1>1, <1>3, <1>5, <1>6, <1>7, <1>8, <1>9, <2>1, SearchGoes
<1> QED
  BY <1>10, <1>11

LEMMA SearchChecksOpensearch ==
    ASSUME RetrievalInv, NEW t \in Threads, CheckOpensearch(t), ~thread[t].reindexing
    PROVE  RetrievalInv'
<1>1. PICK q : q = thread[t]
  OBVIOUS
<1>2. /\ q \in ThreadStates /\ Placed(t, q) /\ ~q.reindexing /\ q.at = "opensearch?"
      /\ published \in Nat
      /\ q.settled => last # None /\ SearchOK(t, q)
  BY <1>1, Serving DEF CheckOpensearch
<1>3. PICK r : r = [q EXCEPT !.chunks = << >>,
                             !.at = IF "opensearch" \notin Up THEN "answer" ELSE "match"]
  OBVIOUS
<1>4. /\ r \in ThreadStates
      /\ r.at = (IF "opensearch" \notin Up THEN "answer" ELSE "match")
      /\ ~r.reindexing /\ r.index = q.index /\ r.found = q.found
      /\ r.settled = q.settled /\ r.steady = q.steady
  BY <1>2, <1>3, EmptySeq DEF ThreadStates, SearchPlaces
<1>5. thread' = [thread EXCEPT ![t] = r]
  BY <1>1, <1>2, <1>3 DEF CheckOpensearch, Given
<1>6. r.at = "match" \/ "opensearch" \notin r.steady
  BY <1>2, <1>4 DEF Placed
<1>7. r.at \in {"match", "answer"}
  BY <1>4
<1>8. Placed(t, r)'
  BY <1>2, <1>4, <1>7 DEF Placed, Untaken, SearchPlaces, CheckOpensearch, stores, Up, Stores
<1>9. r.settled => last # None /\ SearchOK(t, r)'
  BY <1>2, <1>4, <1>6, <1>7 DEF SearchOK, Untaken, CheckOpensearch, stores
<1> QED
  BY <1>1, <1>2, <1>4, <1>5, <1>8, <1>9, SearchGoes DEF CheckOpensearch, stores, environment

LEMMA SearchesOpensearch ==
    ASSUME RetrievalInv, NEW t \in Threads, SearchOpensearch(t)
    PROVE  RetrievalInv'
<1>1. PICK q : q = thread[t]
  OBVIOUS
<1>2. /\ q \in ThreadStates /\ Placed(t, q) /\ q.at = "match" /\ published \in Nat
      /\ q.index \in 1 .. published
  BY <1>1, Serving DEF SearchOpensearch, Untaken
<1>3. ~q.reindexing /\ (q.settled => last # None /\ SearchOK(t, q))
  BY <1>1, <1>2, Serving, Searching
<1>4. PICK docs : docs = IF opensearch.up /\ opensearch.docs # None THEN opensearch.docs ELSE {}
  OBVIOUS
<1>5. docs \in SUBSET Chunks
  BY <1>4 DEF RetrievalInv, RetrievalTypeOK
<1>6. PICK r : r = [q EXCEPT !.at = "answer", !.found["opensearch"] = docs]
  OBVIOUS
<1>7. /\ r \in ThreadStates
      /\ r.at = "answer" /\ ~r.reindexing /\ r.index = q.index
      /\ r.found["tfidf"] = q.found["tfidf"]
      /\ r.found["pgvector"] = q.found["pgvector"]
      /\ r.found["opensearch"] = docs
      /\ r.settled = q.settled /\ r.steady = q.steady
  BY <1>2, <1>3, <1>5, <1>6 DEF ThreadStates, SearchPlaces, Backends
<1>8. thread' = [thread EXCEPT ![t] = r]
  BY <1>1, <1>4, <1>6 DEF SearchOpensearch
<1>9. Placed(t, r)'
  BY <1>2, <1>7 DEF Placed, Untaken, SearchPlaces, SearchOpensearch, stores, Up, Stores
<1>10. ASSUME r.settled PROVE last # None /\ SearchOK(t, r)'
  <2>1. last # None /\ SearchOK(t, q)
    BY <1>3, <1>7, <1>10
  <2>2. last \in Reindexings
    BY <2>1 DEF RetrievalInv, RetrievalTypeOK
  <2>3. last' = last /\ published' = published
    BY DEF SearchOpensearch
  <2>4. "opensearch" \in last.reached => opensearch.docs = last.files /\ last.files # None
    BY <2>1, <2>2, RetrievalAssumption DEF RetrievalInv, ReindexTakesEffect, Reindexings
  <2>5. "opensearch" \in q.steady => opensearch.up
    BY <1>2 DEF Placed, Up
  <2>6. last.reached \subseteq Backends
    BY <2>2 DEF Reindexings
  <2> QED
    BY <1>2, <1>4, <1>7, <2>1, <2>3, <2>4, <2>5, <2>6 DEF SearchOK, Untaken, Backends
<1>11. /\ files' = files /\ postgres' = postgres /\ opensearch' = opensearch /\ last' = last
       /\ index' = index /\ published' = published /\ reading' = reading
  BY DEF SearchOpensearch, environment, stores
<1> QED
  BY <1>1, <1>3, <1>7, <1>8, <1>9, <1>10, <1>11, SearchGoes

LEMMA SearchIsAnswered ==
    ASSUME RetrievalInv, NEW t \in Threads, AnswerSearch(t)
    PROVE  RetrievalInv'
<1>1. PICK q : q = thread[t]
  OBVIOUS
<1>2. /\ q \in ThreadStates /\ Placed(t, q) /\ ~q.reindexing /\ q.at = "answer"
      /\ published \in Nat
  BY <1>1, Serving DEF AnswerSearch
<1>3. PICK r : r = Idle
  OBVIOUS
<1>4. /\ r \in ThreadStates
      /\ r.at = "idle" /\ ~r.reindexing /\ r.index = 0 /\ ~r.settled /\ r.steady = {}
  BY <1>3, EmptySeq DEF ThreadStates, Idle, Nothing
<1>5. thread' = [thread EXCEPT ![t] = r]
  BY <1>3 DEF AnswerSearch, End
<1>6. Placed(t, r)'
  BY <1>2, <1>4 DEF Placed, Untaken, AnswerSearch, stores
<1> QED
  BY <1>1, <1>2, <1>4, <1>5, <1>6, SearchGoes DEF AnswerSearch, stores, environment

\* The first index, or one more, is entered at the end.
LEMMA Published ==
    ASSUME RetrievalInv, NEW t \in Threads, Publish(t), published = 0 \/ thread[t].reindexing
    PROVE  /\ index' \in Seq(IndexObjects) /\ published' = Len(index')
           /\ published' = published + 1
           /\ \A k \in 1 .. published : index'[k] = index[k]
<1>1. PICK e : e = [chunks |-> LoadChunks, connection |-> 0]
  OBVIOUS
<1>2. index' = Append(index, e) /\ published' = Len(index')
  BY <1>1 DEF Publish
<1>3. e \in IndexObjects
  <2>1. LoadChunks \in Seq(Chunks)
    BY LoadChunksProperties DEF RetrievalInv, RetrievalTypeOK
  <2>2. 0 \in 0 .. postgres.starts
    BY DEF RetrievalInv, RetrievalTypeOK
  <2> QED
    BY <1>1, <2>1, <2>2 DEF IndexObjects
<1>4. index \in Seq(IndexObjects) /\ published = Len(index)
  BY Serving
<1> QED
  BY <1>2, <1>3, <1>4, AppendProperties

LEMMA SearchPublishes ==
    ASSUME RetrievalInv, NEW t \in Threads, Publish(t), ~thread[t].reindexing
    PROVE  RetrievalInv'
<1>1. PICK q : q = thread[t]
  OBVIOUS
<1>2. /\ q \in ThreadStates /\ Placed(t, q) /\ ~q.reindexing /\ q.at = "build"
      /\ published \in Nat /\ published = Len(index) /\ index \in Seq(IndexObjects)
      /\ q.settled => last # None /\ SearchOK(t, q)
  BY <1>1, Serving DEF Publish
<1>3. PICK r : r = [q EXCEPT !.at = "index"]
  OBVIOUS
<1>4. /\ r \in ThreadStates
      /\ r.at = "index" /\ ~r.reindexing /\ r.index = q.index /\ r.found = q.found
      /\ r.settled = q.settled /\ r.steady = q.steady
  BY <1>2, <1>3 DEF ThreadStates, SearchPlaces
<1>5. thread' = [thread EXCEPT ![t] = r]
  BY <1>1, <1>3 DEF Publish, Goto
<1>6. /\ index' \in Seq(IndexObjects) /\ published' = Len(index') /\ published' >= published
      /\ published' # 0 /\ published' \in Nat
      /\ published # 0 => published' = published
      /\ \A k \in 1 .. published :
            /\ index'[k].chunks = index[k].chunks
            /\ index'[k].connection \in {index[k].connection, postgres.starts}
  <2>1. CASE published = 0
    BY <1>2, <2>1, Published
  <2>2. CASE published # 0
    BY <1>1, <1>2, <2>2 DEF Publish
  <2> QED
    BY <2>1, <2>2
<1>7. Placed(t, r)'
  BY <1>2, <1>4, <1>6 DEF Placed, Untaken, SearchPlaces, Publish, stores, Up, Stores
<1>8. r.settled => last # None /\ SearchOK(t, r)'
  BY <1>2, <1>4 DEF SearchOK, Untaken, Publish, stores
<1>9. /\ files' = files /\ postgres' = postgres /\ opensearch' = opensearch /\ last' = last
      /\ reading' = reading
  BY DEF Publish, environment, stores
<1> QED
  BY <1>1, <1>2, <1>4, <1>5, <1>6, <1>7, <1>8, <1>9, SearchMoves

-----------------------------------------------------------------------------
(* A reindexing, action by action.                                         *)

LEMMA ReindexPublishes ==
    ASSUME RetrievalInv, NEW t \in Threads, Publish(t), thread[t].reindexing
    PROVE  RetrievalInv'
<1>1. PICK q : q = thread[t]
  OBVIOUS
<1>2. /\ q \in ThreadStates /\ Placed(t, q) /\ q.reindexing /\ q.at = "build"
      /\ published \in Nat
      /\ q.settled => ReindexingOK(q)
  BY <1>1, Serving DEF Publish
<1>3. PICK r : r = [q EXCEPT !.at = "index"]
  OBVIOUS
<1>4. /\ r \in ThreadStates
      /\ r.at = "index" /\ r.reindexing /\ r.index = q.index /\ r.reached = q.reached
      /\ r.settled = q.settled /\ r.steady = q.steady
  BY <1>2, <1>3 DEF ThreadStates, SearchPlaces
<1>5. thread' = [thread EXCEPT ![t] = r]
  BY <1>1, <1>3 DEF Publish, Goto
<1>6. /\ index' \in Seq(IndexObjects) /\ published' = Len(index') /\ published' >= published
      /\ published' # 0 /\ published' \in Nat
  BY <1>1, <1>2, Published
<1>7. Placed(t, r)'
  BY <1>2, <1>4, <1>6 DEF Placed, Untaken, ReindexPlaces, Publish, stores, Up, Stores
<1>8. ASSUME r.settled PROVE ReindexingOK(r)'
  <2>1. "pgvector" \notin r.reached /\ "opensearch" \notin r.reached
    BY <1>2, <1>4, <1>8 DEF ReindexingOK
  <2> QED
    BY <1>4, <2>1 DEF ReindexingOK, Untaken
<1>9. /\ files' = files /\ postgres' = postgres /\ opensearch' = opensearch /\ last' = last
      /\ reading' = reading
  BY DEF Publish, environment, stores
<1> QED
  BY <1>1, <1>2, <1>4, <1>5, <1>6, <1>7, <1>8, <1>9, StoresTyped, ReindexMoves

LEMMA ReindexTakesIndex ==
    ASSUME RetrievalInv, NEW t \in Threads, TakeIndex(t), thread[t].reindexing
    PROVE  RetrievalInv'
<1>1. PICK q : q = thread[t]
  OBVIOUS
<1>2. /\ q \in ThreadStates /\ Placed(t, q) /\ q.reindexing /\ q.at = "index"
      /\ published \in Nat
      /\ q.settled => ReindexingOK(q)
  BY <1>1, Serving DEF TakeIndex
<1>3. PICK r : r = [q EXCEPT !.index = published, !.at = "rebuild"]
  OBVIOUS
<1>4. /\ r \in ThreadStates
      /\ r.at = "rebuild" /\ r.reindexing /\ r.index = published /\ r.reached = q.reached
      /\ r.settled = q.settled /\ r.steady = q.steady
  BY <1>2, <1>3 DEF ThreadStates, ReindexPlaces
<1>5. thread' = [thread EXCEPT ![t] = r]
  BY <1>1, <1>2, <1>3 DEF TakeIndex
<1>6. Placed(t, r)'
  BY <1>2, <1>4 DEF Placed, Untaken, ReindexPlaces, TakeIndex, stores, Up, Stores
<1>7. ASSUME r.settled PROVE ReindexingOK(r)'
  <2>1. "pgvector" \notin r.reached /\ "opensearch" \notin r.reached
    BY <1>2, <1>4, <1>7 DEF ReindexingOK
  <2> QED
    BY <1>4, <2>1 DEF ReindexingOK, Untaken, TakeIndex
<1>8. /\ files' = files /\ postgres' = postgres /\ opensearch' = opensearch /\ last' = last
      /\ reading' = reading /\ index' = index /\ published' = published
  BY DEF TakeIndex, environment, stores
<1> QED
  BY <1>1, <1>2, <1>4, <1>5, <1>6, <1>7, <1>8, StoresTyped, ReindexGoes

\* The chunks of an index are replaced, and nothing else.
LEMMA ChunksReplaced ==
    ASSUME RetrievalTypeOK, NEW k \in 1 .. published, NEW c \in Seq(Chunks),
           index' = [index EXCEPT ![k].chunks = c]
    PROVE  index' \in Seq(IndexObjects) /\ Len(index') = published /\ index'[k].chunks = c
<1>1. PICK e : e = [index[k] EXCEPT !.chunks = c]
  OBVIOUS
<1>2. index \in Seq(IndexObjects) /\ published = Len(index)
  BY DEF RetrievalTypeOK
<1>3. e \in IndexObjects /\ e.chunks = c
  <2>1. PICK o : o = index[k]
    OBVIOUS
  <2>2. o \in [chunks : Seq(Chunks), connection : 0 .. postgres.starts]
    BY <1>2, <2>1, ElementOfSeq DEF IndexObjects
  <2>3. e = [o EXCEPT !.chunks = c]
    BY <1>1, <2>1
  <2> QED
    BY <2>2, <2>3 DEF IndexObjects
<1>4. index' = [index EXCEPT ![k] = e]
  BY <1>1
<1> QED
  BY <1>2, <1>3, <1>4, ReplaceIndex

LEMMA ReindexEmpties ==
    ASSUME RetrievalInv, NEW t \in Threads, Rebuild(t)
    PROVE  RetrievalInv'
<1>1. PICK q : q = thread[t]
  OBVIOUS
<1>2. /\ q \in ThreadStates /\ Placed(t, q) /\ q.at = "rebuild" /\ published \in Nat
      /\ q.index \in 1 .. published
  BY <1>1, Serving DEF Rebuild, Untaken
<1>3. q.reindexing /\ (q.settled => ReindexingOK(q))
  BY <1>1, <1>2, Serving, Reindexing DEF ThreadStates
<1>4. PICK loaded : loaded = LoadChunks
  OBVIOUS
<1>5. loaded \in Seq(Chunks) /\ (loaded = << >> <=> files = {})
  BY <1>4, LoadChunksProperties DEF RetrievalInv, RetrievalTypeOK
<1>6. PICK r : r = [q EXCEPT !.chunks = loaded,
                             !.at = IF files = {} THEN "postgres?" ELSE "append"]
  OBVIOUS
<1>7. /\ r \in ThreadStates
      /\ r.at = (IF files = {} THEN "postgres?" ELSE "append")
      /\ r.reindexing /\ r.index = q.index /\ r.chunks = loaded /\ r.reached = q.reached
      /\ r.settled = q.settled /\ r.steady = q.steady
  BY <1>2, <1>3, <1>5, <1>6 DEF ThreadStates, ReindexPlaces
<1>8. thread' = [thread EXCEPT ![t] = r]
  BY <1>1, <1>4, <1>6 DEF Rebuild
<1>9. /\ index' \in Seq(IndexObjects) /\ Len(index') = published
      /\ index'[q.index].chunks = << >>
  <2>1. index' = [index EXCEPT ![q.index].chunks = << >>]
    BY <1>1 DEF Rebuild
  <2>2. << >> \in Seq(Chunks)
    BY EmptySeq
  <2>3. RetrievalTypeOK
    BY DEF RetrievalInv
  <2> QED
    BY <1>2, <2>1, <2>2, <2>3, ChunksReplaced
<1>10. /\ files' = files /\ postgres' = postgres /\ opensearch' = opensearch /\ last' = last
       /\ reading' = reading /\ published' = published
  BY DEF Rebuild, environment, stores
<1>11. r.at \in {"postgres?", "append"}
  BY <1>7
<1>12. Placed(t, r)'
  BY <1>2, <1>5, <1>7, <1>10, <1>11 DEF Placed, Untaken, ReindexPlaces, Up, Stores
<1>13. ASSUME r.settled PROVE ReindexingOK(r)'
  <2>1. /\ "pgvector" \notin r.reached /\ "opensearch" \notin r.reached
        /\ q.index = published
    BY <1>2, <1>3, <1>7, <1>13 DEF ReindexingOK, Untaken
  <2>2. Lexical' = << >>
    BY <1>9, <1>10, <2>1 DEF Lexical
  <2>3. LoadChunks' = loaded
    BY <1>4, <1>10 DEF LoadChunks
  <2>4. << >> \o loaded = loaded
    BY <1>5, ConcatEmptySeq
  <2>5. CASE files = {}
    BY <1>5, <1>7, <1>10, <2>1, <2>2, <2>3, <2>5 DEF ReindexingOK, Untaken
  <2>6. CASE files # {}
    BY <1>7, <1>10, <2>1, <2>2, <2>3, <2>4, <2>6 DEF ReindexingOK, Untaken
  <2> QED
    BY <2>5, <2>6
<1>14. published' = Len(index') /\ published' >= published
  BY <1>2, <1>9, <1>10
<1> QED
  BY <1>1, <1>3, <1>7, <1>8, <1>9, <1>10, <1>12, <1>13, <1>14, StoresTyped, ReindexMoves

LEMMA ReindexAppends ==
    ASSUME RetrievalInv, NEW t \in Threads, AppendChunk(t)
    PROVE  RetrievalInv'
<1>1. PICK q : q = thread[t]
  OBVIOUS
<1>2. /\ q \in ThreadStates /\ Placed(t, q) /\ q.at = "append" /\ published \in Nat
      /\ index \in Seq(IndexObjects) /\ published = Len(index)
      /\ q.index \in 1 .. published
  BY <1>1, Serving DEF AppendChunk, Untaken
<1>3. q.reindexing /\ (q.settled => ReindexingOK(q))
  BY <1>1, <1>2, Serving, Reindexing DEF ThreadStates
<1>4. PICK left, done : left = q.chunks /\ done = index[q.index].chunks
  OBVIOUS
<1>5. left \in Seq(Chunks) /\ left # << >> /\ done \in Seq(Chunks)
  <2>1. index[q.index] \in IndexObjects
    BY <1>2, ElementOfSeq
  <2> QED
    BY <1>2, <1>4, <2>1 DEF Placed, ThreadStates, IndexObjects
<1>6. PICK rest, more : rest = Tail(left) /\ more = Append(done, Head(left))
  OBVIOUS
<1>7. /\ more \in Seq(Chunks) /\ rest \in Seq(Chunks)
      /\ more \o rest = done \o left
      /\ Len(left) = 1 => more = done \o left
      /\ Len(left) # 1 => rest # << >>
  BY SMTT(30), <1>5, <1>6, MoveHead
<1>8. PICK r : r = [q EXCEPT !.chunks = rest,
                             !.at = IF Len(left) = 1 THEN "postgres?" ELSE "append"]
  OBVIOUS
<1>9. /\ r \in ThreadStates
      /\ r.at = (IF Len(left) = 1 THEN "postgres?" ELSE "append")
      /\ r.reindexing /\ r.index = q.index /\ r.chunks = rest /\ r.reached = q.reached
      /\ r.settled = q.settled /\ r.steady = q.steady
  BY <1>2, <1>3, <1>7, <1>8 DEF ThreadStates, ReindexPlaces
<1>10. thread' = [thread EXCEPT ![t] = r]
  BY <1>1, <1>2, <1>4, <1>6, <1>8 DEF AppendChunk
<1>11. /\ index' \in Seq(IndexObjects) /\ Len(index') = published
       /\ index'[q.index].chunks = more
  <2>1. index' = [index EXCEPT ![q.index].chunks = more]
    BY <1>1, <1>4, <1>6 DEF AppendChunk
  <2>2. RetrievalTypeOK
    BY DEF RetrievalInv
  <2> QED
    BY <1>2, <1>7, <2>1, <2>2, ChunksReplaced
<1>12. /\ files' = files /\ postgres' = postgres /\ opensearch' = opensearch /\ last' = last
       /\ reading' = reading /\ published' = published
  BY DEF AppendChunk, environment, stores
<1>13. r.at \in {"postgres?", "append"}
  BY <1>9
<1>14. Placed(t, r)'
  BY <1>2, <1>7, <1>9, <1>12, <1>13 DEF Placed, Untaken, ReindexPlaces, Up, Stores
<1>15. ASSUME r.settled PROVE ReindexingOK(r)'
  <2>1. /\ "pgvector" \notin r.reached /\ "opensearch" \notin r.reached
        /\ q.index = published
        /\ Lexical \o left = LoadChunks
    BY <1>2, <1>3, <1>4, <1>9, <1>15 DEF ReindexingOK, Untaken
  <2>2. Lexical' = more /\ Lexical = done
    BY <1>4, <1>11, <1>12, <2>1 DEF Lexical
  <2>3. LoadChunks' = done \o left
    BY <1>12, <2>1, <2>2 DEF LoadChunks
  <2>4. CASE Len(left) = 1
    BY <1>7, <1>9, <1>12, <2>1, <2>2, <2>3, <2>4 DEF ReindexingOK, Untaken
  <2>5. CASE Len(left) # 1
    BY <1>7, <1>9, <1>12, <2>1, <2>2, <2>3, <2>5 DEF ReindexingOK, Untaken
  <2> QED
    BY <2>4, <2>5
<1>16. published' = Len(index') /\ published' >= published
  BY <1>2, <1>11, <1>12
<1> QED
  BY <1>1, <1>3, <1>9, <1>10, <1>11, <1>12, <1>14, <1>15, <1>16, StoresTyped, ReindexMoves

\* What a store is given.
LEMMA GivenChunks ==
    ASSUME RetrievalInv, NEW t \in Threads, thread[t].reindexing,
           thread[t].index \in 1 .. published
    PROVE  /\ Given(t) \in Seq(Chunks)
           /\ Given(t) = index[thread[t].index].chunks
<1>1. index \in Seq(IndexObjects) /\ published = Len(index)
  BY Serving
<1>2. Mine(t) \in IndexObjects
  BY <1>1, ElementOfSeq DEF Mine
<1> QED
  BY <1>2 DEF Given, Mine, IndexObjects

LEMMA ReindexChecksPostgres ==
    ASSUME RetrievalInv, NEW t \in Threads, CheckPostgres(t), thread[t].reindexing
    PROVE  RetrievalInv'
<1>1. PICK q : q = thread[t]
  OBVIOUS
<1>2. /\ q \in ThreadStates /\ Placed(t, q) /\ q.reindexing /\ q.at = "postgres?"
      /\ published \in Nat /\ q.index \in 1 .. published
      /\ q.settled => ReindexingOK(q)
  BY <1>1, Serving DEF CheckPostgres, Untaken
<1>3. PICK given : given = Given(t)
  OBVIOUS
<1>4. given \in Seq(Chunks) /\ given = index[q.index].chunks
  BY <1>1, <1>2, <1>3, GivenChunks
<1>5. PICK r : r = [q EXCEPT !.chunks = given,
                             !.at = IF "pgvector" \notin Up \/ given = << >>
                                    THEN "opensearch?" ELSE "drop"]
  OBVIOUS
<1>6. /\ r \in ThreadStates
      /\ r.at \in {"opensearch?", "drop"}
      /\ r.reindexing /\ r.index = q.index /\ r.chunks = given /\ r.reached = q.reached
      /\ r.settled = q.settled /\ r.steady = q.steady
  BY <1>2, <1>4, <1>5 DEF ThreadStates, ReindexPlaces
<1>7. thread' = [thread EXCEPT ![t] = r]
  BY <1>1, <1>2, <1>3, <1>5 DEF CheckPostgres
<1>8. Placed(t, r)'
  BY <1>2, <1>6 DEF Placed, Untaken, ReindexPlaces, CheckPostgres, stores, Up, Stores
<1>9. /\ files' = files /\ postgres' = postgres /\ opensearch' = opensearch /\ last' = last
      /\ reading' = reading /\ index' = index /\ published' = published
  BY DEF CheckPostgres, environment, stores
<1>10. ASSUME r.settled PROVE ReindexingOK(r)'
  <2>1. /\ "pgvector" \notin r.reached /\ "opensearch" \notin r.reached
        /\ q.index = published /\ Lexical = LoadChunks
    BY <1>2, <1>6, <1>10 DEF ReindexingOK, Untaken
  <2>2. Lexical' = LoadChunks' /\ given = LoadChunks'
    BY <1>4, <1>9, <2>1 DEF Lexical, LoadChunks
  <2> QED
    BY <1>2, <1>6, <1>9, <2>1, <2>2 DEF ReindexingOK, Untaken
<1> QED
  BY <1>1, <1>2, <1>6, <1>7, <1>8, <1>9, <1>10, StoresTyped, ReindexGoes

LEMMA ReindexDropsTable ==
    ASSUME RetrievalInv, NEW t \in Threads, DropTable(t)
    PROVE  RetrievalInv'
<1>1. PICK q : q = thread[t]
  OBVIOUS
<1>2. /\ q \in ThreadStates /\ Placed(t, q) /\ q.at = "drop" /\ published \in Nat
      /\ q.index \in 1 .. published
  BY <1>1, Serving DEF DropTable, Untaken
<1>3. q.reindexing /\ (q.settled => ReindexingOK(q))
  BY <1>1, <1>2, Serving, Reindexing DEF ThreadStates
<1>4. PICK r : r = [q EXCEPT !.at = "create"]
  OBVIOUS
<1>5. /\ r \in ThreadStates
      /\ r.at = "create" /\ r.reindexing /\ r.index = q.index /\ r.chunks = q.chunks
      /\ r.reached = q.reached /\ r.settled = q.settled /\ r.steady = q.steady
  BY <1>2, <1>3, <1>4 DEF ThreadStates, ReindexPlaces
<1>6. thread' = [thread EXCEPT ![t] = r]
  BY <1>1, <1>4 DEF DropTable, Goto
<1>7. /\ index' \in Seq(IndexObjects) /\ Len(index') = published
      /\ \A j \in 1 .. published : index'[j].chunks = index[j].chunks
  <2>1. Connect(t) /\ RetrievalTypeOK
    BY DEF DropTable, RetrievalInv
  <2> QED
    BY <1>1, <1>2, <2>1, ConnectionMade
<1>8. /\ files' = files /\ opensearch' = opensearch /\ last' = last
      /\ reading' = reading /\ published' = published
  BY DEF DropTable, environment
<1>9. /\ postgres'.up = postgres.up /\ postgres'.starts = postgres.starts
      /\ postgres' \in [up : BOOLEAN, starts : Nat, table : (SUBSET Chunks) \union {None}]
  BY StoresTyped DEF DropTable
<1>10. Placed(t, r)'
  BY <1>2, <1>5, <1>8, <1>9 DEF Placed, Untaken, ReindexPlaces, Up, Stores
<1>11. ASSUME r.settled PROVE ReindexingOK(r)'
  <2>1. /\ "pgvector" \notin r.reached /\ "opensearch" \notin r.reached
        /\ q.index = published /\ Lexical = LoadChunks /\ q.chunks = LoadChunks
    BY <1>2, <1>3, <1>5, <1>11 DEF ReindexingOK, Untaken
  <2>2. Lexical' = LoadChunks' /\ q.chunks = LoadChunks'
    BY <1>2, <1>7, <1>8, <2>1 DEF Lexical, LoadChunks
  <2> QED
    BY <1>2, <1>5, <1>8, <2>1, <2>2 DEF ReindexingOK, Untaken
<1>12. published' = Len(index') /\ published' >= published
  BY <1>2, <1>7, <1>8
<1> QED
  BY <1>1, <1>3, <1>5, <1>6, <1>7, <1>8, <1>9, <1>10, <1>11, <1>12, StoresTyped, ReindexMoves

LEMMA ReindexCreatesTable ==
    ASSUME RetrievalInv, NEW t \in Threads, CreateTable(t)
    PROVE  RetrievalInv'
<1>1. PICK q : q = thread[t]
  OBVIOUS
<1>2. /\ q \in ThreadStates /\ Placed(t, q) /\ q.at = "create" /\ published \in Nat
  BY <1>1, Serving DEF CreateTable
<1>3. q.reindexing /\ (q.settled => ReindexingOK(q))
  BY <1>1, <1>2, Serving, Reindexing DEF ThreadStates
<1>4. PICK r : r = [q EXCEPT !.at = "insert"]
  OBVIOUS
<1>5. /\ r \in ThreadStates
      /\ r.at = "insert" /\ r.reindexing /\ r.index = q.index /\ r.chunks = q.chunks
      /\ r.reached = q.reached /\ r.settled = q.settled /\ r.steady = q.steady
  BY <1>2, <1>3, <1>4 DEF ThreadStates, ReindexPlaces
<1>6. thread' = [thread EXCEPT ![t] = r]
  BY <1>1, <1>4 DEF CreateTable, Goto
<1>7. /\ files' = files /\ opensearch' = opensearch /\ last' = last
      /\ reading' = reading /\ index' = index /\ published' = published
  BY DEF CreateTable, environment
<1>8. /\ postgres'.up = postgres.up /\ postgres'.starts = postgres.starts
      /\ postgres'.table = {}
      /\ postgres' \in [up : BOOLEAN, starts : Nat, table : (SUBSET Chunks) \union {None}]
  BY StoresTyped DEF CreateTable
<1>9. Placed(t, r)'
  BY <1>2, <1>5, <1>7, <1>8 DEF Placed, Untaken, ReindexPlaces, Up, Stores
<1>10. ASSUME r.settled PROVE ReindexingOK(r)'
  <2>1. Lexical' = Lexical /\ LoadChunks' = LoadChunks
    BY <1>7 DEF Lexical, LoadChunks
  <2> QED
    BY <1>2, <1>3, <1>5, <1>7, <1>8, <1>10, <2>1 DEF ReindexingOK, Untaken
<1> QED
  BY <1>1, <1>3, <1>5, <1>6, <1>7, <1>8, <1>9, <1>10, StoresTyped, ReindexGoes

LEMMA ReindexInserts ==
    ASSUME RetrievalInv, NEW t \in Threads, InsertRows(t)
    PROVE  RetrievalInv'
<1>1. PICK q : q = thread[t]
  OBVIOUS
<1>2. /\ q \in ThreadStates /\ Placed(t, q) /\ q.at = "insert" /\ published \in Nat
  BY <1>1, Serving DEF InsertRows
<1>3. q.reindexing /\ (q.settled => ReindexingOK(q))
  BY <1>1, <1>2, Serving, Reindexing DEF ThreadStates
<1>4. PICK r : r = [q EXCEPT !.at = "opensearch?", !.reached = q.reached \union {"pgvector"}]
  OBVIOUS
<1>5. /\ r \in ThreadStates
      /\ r.at = "opensearch?" /\ r.reindexing /\ r.index = q.index /\ r.chunks = q.chunks
      /\ r.reached = q.reached \union {"pgvector"}
      /\ r.settled = q.settled /\ r.steady = q.steady
  BY <1>2, <1>3, <1>4 DEF ThreadStates, ReindexPlaces, Backends
<1>6. thread' = [thread EXCEPT ![t] = r]
  BY <1>1, <1>4 DEF InsertRows
<1>7. /\ files' = files /\ opensearch' = opensearch /\ last' = last
      /\ reading' = reading /\ index' = index /\ published' = published
  BY DEF InsertRows, environment
<1>8. PICK rows : rows = postgres.table \union ToSet(q.chunks)
  OBVIOUS
<1>9. rows \in SUBSET Chunks
  <2>1. postgres.table \in SUBSET Chunks
    BY StoresTyped DEF InsertRows, Insertable
  <2>2. ToSet(q.chunks) \subseteq Chunks
    <3>1. q.chunks \in Seq(Chunks)
      BY <1>2 DEF ThreadStates
    <3> QED
      BY <3>1, LenProperties, ElementOfSeq DEF ToSet
  <2> QED
    BY <1>8, <2>1, <2>2
<1>10. /\ postgres'.up = postgres.up /\ postgres'.starts = postgres.starts
       /\ postgres'.table = rows
       /\ postgres' \in [up : BOOLEAN, starts : Nat, table : (SUBSET Chunks) \union {None}]
  <2>1. postgres' = [postgres EXCEPT !.table = rows]
    BY <1>1, <1>8 DEF InsertRows
  <2> QED
    BY <1>9, <2>1, StoresTyped
<1>11. Placed(t, r)'
  BY <1>2, <1>5, <1>7, <1>10 DEF Placed, Untaken, ReindexPlaces, Up, Stores
<1>12. ASSUME r.settled PROVE ReindexingOK(r)'
  <2>1. Lexical' = Lexical /\ LoadChunks' = LoadChunks
    BY <1>7 DEF Lexical, LoadChunks
  <2>2. rows = files
    <3>1. postgres.table = {} /\ q.chunks = LoadChunks
      BY <1>2, <1>3, <1>5, <1>12 DEF ReindexingOK
    <3> QED
      BY <1>8, <3>1, LoadChunksProperties DEF RetrievalInv, RetrievalTypeOK
  <2> QED
    BY <1>2, <1>3, <1>5, <1>7, <1>10, <1>12, <2>1, <2>2 DEF ReindexingOK, Untaken
<1> QED
  BY <1>1, <1>3, <1>5, <1>6, <1>7, <1>10, <1>11, <1>12, StoresTyped, ReindexGoes

LEMMA ReindexChecksOpensearch ==
    ASSUME RetrievalInv, NEW t \in Threads, CheckOpensearch(t), thread[t].reindexing
    PROVE  RetrievalInv'
<1>1. PICK q : q = thread[t]
  OBVIOUS
<1>2. /\ q \in ThreadStates /\ Placed(t, q) /\ q.reindexing /\ q.at = "opensearch?"
      /\ published \in Nat /\ q.index \in 1 .. published
      /\ q.settled => ReindexingOK(q)
  BY <1>1, Serving DEF CheckOpensearch, Untaken
<1>3. PICK given : given = Given(t)
  OBVIOUS
<1>4. given \in Seq(Chunks) /\ given = index[q.index].chunks
  BY <1>1, <1>2, <1>3, GivenChunks
<1>5. PICK r : r = [q EXCEPT !.chunks = given,
                             !.at = IF "opensearch" \notin Up THEN "answer" ELSE "head"]
  OBVIOUS
<1>6. /\ r \in ThreadStates
      /\ r.at \in {"answer", "head"}
      /\ r.reindexing /\ r.index = q.index /\ r.chunks = given /\ r.reached = q.reached
      /\ r.settled = q.settled /\ r.steady = q.steady
  BY <1>2, <1>4, <1>5 DEF ThreadStates, ReindexPlaces
<1>7. thread' = [thread EXCEPT ![t] = r]
  BY <1>1, <1>2, <1>3, <1>5 DEF CheckOpensearch
<1>8. Placed(t, r)'
  BY <1>2, <1>6 DEF Placed, Untaken, ReindexPlaces, CheckOpensearch, stores, Up, Stores
<1>9. /\ files' = files /\ postgres' = postgres /\ opensearch' = opensearch /\ last' = last
      /\ reading' = reading /\ index' = index /\ published' = published
  BY DEF CheckOpensearch, environment, stores
<1>10. ASSUME r.settled PROVE ReindexingOK(r)'
  <2>1. /\ "opensearch" \notin r.reached
        /\ "pgvector" \in r.reached => postgres.table = files
        /\ q.index = published /\ Lexical = LoadChunks
    BY <1>2, <1>6, <1>10 DEF ReindexingOK, Untaken
  <2>2. Lexical' = LoadChunks' /\ given = LoadChunks'
    BY <1>4, <1>9, <2>1 DEF Lexical, LoadChunks
  <2> QED
    BY <1>2, <1>6, <1>9, <2>1, <2>2 DEF ReindexingOK, Untaken
<1> QED
  BY <1>1, <1>2, <1>6, <1>7, <1>8, <1>9, <1>10, StoresTyped, ReindexGoes

\* A reindexing goes on with OpenSearch: only the documents, its place and
\* what it has reached change.
LEMMA ReindexingDocuments ==
    ASSUME RetrievalInv, NEW t \in Threads, NEW q, NEW at, NEW reached, NEW docs,
           q = thread[t], q.at \in {"head", "delete", "mapping", "bulk"},
           at \in {"delete", "mapping", "bulk", "answer"}, reached \in SUBSET Backends,
           docs \in (SUBSET Chunks) \union {None},
           thread' = [thread EXCEPT ![t] = [q EXCEPT !.at = at, !.reached = reached]],
           opensearch' = [opensearch EXCEPT !.docs = docs],
           files' = files, index' = index, published' = published, postgres' = postgres,
           reading' = reading, last' = last,
           q.settled /\ ReindexingOK(q) =>
              /\ at = "mapping" => docs = None
              /\ at = "bulk" => docs = {}
              /\ "pgvector" \in reached => "pgvector" \in q.reached
              /\ "opensearch" \in reached => at = "answer" /\ docs = files
    PROVE  RetrievalInv'
<1>1. /\ q \in ThreadStates /\ Placed(t, q) /\ published \in Nat
  BY Serving
<1>2. q.reindexing /\ (q.settled => ReindexingOK(q))
  BY <1>1, Serving, Reindexing DEF ThreadStates
<1>3. PICK r : r = [q EXCEPT !.at = at, !.reached = reached]
  OBVIOUS
<1>4. /\ r \in ThreadStates
      /\ r.at = at /\ r.reindexing /\ r.index = q.index /\ r.chunks = q.chunks
      /\ r.reached = reached /\ r.settled = q.settled /\ r.steady = q.steady
  BY <1>1, <1>2, <1>3 DEF ThreadStates, ReindexPlaces
<1>5. /\ opensearch'.up = opensearch.up /\ opensearch'.docs = docs
      /\ opensearch' \in [up : BOOLEAN, docs : (SUBSET Chunks) \union {None}]
  BY StoresTyped
<1>6. Placed(t, r)'
  BY <1>1, <1>4, <1>5 DEF Placed, Untaken, ReindexPlaces, Up, Stores
<1>7. ASSUME r.settled PROVE ReindexingOK(r)'
  <2>1. Lexical' = Lexical /\ LoadChunks' = LoadChunks
    BY DEF Lexical, LoadChunks
  <2>2. /\ ReindexingOK(q)
        /\ at = "mapping" => docs = None
        /\ at = "bulk" => docs = {}
        /\ "pgvector" \in reached => "pgvector" \in q.reached
        /\ "opensearch" \in reached => at = "answer" /\ docs = files
    BY <1>2, <1>4, <1>7
  <2>3. /\ q.index = published /\ Lexical = LoadChunks /\ q.chunks = LoadChunks
        /\ "pgvector" \in reached => postgres.table = files
    BY <2>2 DEF ReindexingOK, Untaken
  <2> QED
    BY <1>4, <1>5, <2>1, <2>2, <2>3 DEF ReindexingOK, Untaken
<1> QED
  BY <1>2, <1>3, <1>4, <1>5, <1>6, <1>7, StoresTyped, ReindexGoes

LEMMA ReindexHeadsIndex ==
    ASSUME RetrievalInv, NEW t \in Threads, HeadIndex(t)
    PROVE  RetrievalInv'
<1>1. PICK q, at, docs : /\ q = thread[t] /\ docs = opensearch.docs
                         /\ at = IF opensearch.docs = None THEN "mapping" ELSE "delete"
  OBVIOUS
<1>2. q \in ThreadStates /\ q.at = "head"
  BY <1>1, Serving DEF HeadIndex
<1>3. PICK reached : reached = q.reached
  OBVIOUS
<1>4. reached \in SUBSET Backends /\ [q EXCEPT !.at = at, !.reached = reached] = [q EXCEPT !.at = at]
  BY <1>2, <1>3 DEF ThreadStates
<1>5. thread' = [thread EXCEPT ![t] = [q EXCEPT !.at = at, !.reached = reached]]
  BY <1>1, <1>4 DEF HeadIndex, Goto
<1>6. /\ docs \in (SUBSET Chunks) \union {None}
      /\ opensearch' = [opensearch EXCEPT !.docs = docs]
  BY <1>1, StoresTyped DEF HeadIndex, stores
<1>7. /\ files' = files /\ postgres' = postgres /\ last' = last
      /\ reading' = reading /\ index' = index /\ published' = published
  BY DEF HeadIndex, environment, stores
<1>8. ReindexingOK(q) => "opensearch" \notin reached
  BY <1>2, <1>3 DEF ReindexingOK
<1>9. /\ q.at \in {"head", "delete", "mapping", "bulk"}
      /\ at \in {"delete", "mapping", "bulk", "answer"}
  BY <1>1, <1>2
<1>10. q.settled /\ ReindexingOK(q) =>
          /\ at = "mapping" => docs = None
          /\ at = "bulk" => docs = {}
          /\ "pgvector" \in reached => "pgvector" \in q.reached
          /\ "opensearch" \in reached => at = "answer" /\ docs = files
  BY <1>1, <1>3, <1>8
<1>11. q = thread[t] /\ reached \in SUBSET Backends
  BY <1>1, <1>4
<1> QED
  BY <1>5, <1>6, <1>7, <1>9, <1>10, <1>11, ReindexingDocuments, ZenonT(60)

LEMMA ReindexDeletesIndex ==
    ASSUME RetrievalInv, NEW t \in Threads, DeleteIndex(t)
    PROVE  RetrievalInv'
<1>1. PICK q, at, docs : q = thread[t] /\ docs = None /\ at = "mapping"
  OBVIOUS
<1>2. q \in ThreadStates /\ q.at = "delete"
  BY <1>1, Serving DEF DeleteIndex
<1>3. PICK reached : reached = q.reached
  OBVIOUS
<1>4. reached \in SUBSET Backends /\ [q EXCEPT !.at = at, !.reached = reached] = [q EXCEPT !.at = at]
  BY <1>2, <1>3 DEF ThreadStates
<1>5. thread' = [thread EXCEPT ![t] = [q EXCEPT !.at = at, !.reached = reached]]
  BY <1>1, <1>4 DEF DeleteIndex, Goto
<1>6. /\ docs \in (SUBSET Chunks) \union {None}
      /\ opensearch' = [opensearch EXCEPT !.docs = docs]
  BY <1>1 DEF DeleteIndex
<1>7. /\ files' = files /\ postgres' = postgres /\ last' = last
      /\ reading' = reading /\ index' = index /\ published' = published
  BY DEF DeleteIndex, environment
<1>8. ReindexingOK(q) => "opensearch" \notin reached
  BY <1>2, <1>3 DEF ReindexingOK
<1>9. /\ q.at \in {"head", "delete", "mapping", "bulk"}
      /\ at \in {"delete", "mapping", "bulk", "answer"}
  BY <1>1, <1>2
<1>10. q.settled /\ ReindexingOK(q) =>
          /\ at = "mapping" => docs = None
          /\ at = "bulk" => docs = {}
          /\ "pgvector" \in reached => "pgvector" \in q.reached
          /\ "opensearch" \in reached => at = "answer" /\ docs = files
  BY <1>1, <1>3, <1>8
<1>11. q = thread[t] /\ reached \in SUBSET Backends
  BY <1>1, <1>4
<1> QED
  BY <1>5, <1>6, <1>7, <1>9, <1>10, <1>11, ReindexingDocuments, ZenonT(60)

LEMMA ReindexEnsuresIndex ==
    ASSUME RetrievalInv, NEW t \in Threads, EnsureIndex(t)
    PROVE  RetrievalInv'
<1>1. PICK q, at, docs : /\ q = thread[t] /\ at = "bulk"
                         /\ docs = IF opensearch.docs = None THEN {} ELSE opensearch.docs
  OBVIOUS
<1>2. q \in ThreadStates /\ q.at = "mapping"
  BY <1>1, Serving DEF EnsureIndex
<1>3. PICK reached : reached = q.reached
  OBVIOUS
<1>4. reached \in SUBSET Backends /\ [q EXCEPT !.at = at, !.reached = reached] = [q EXCEPT !.at = at]
  BY <1>2, <1>3 DEF ThreadStates
<1>5. thread' = [thread EXCEPT ![t] = [q EXCEPT !.at = at, !.reached = reached]]
  BY <1>1, <1>4 DEF EnsureIndex, Goto
<1>6. /\ docs \in (SUBSET Chunks) \union {None}
      /\ opensearch' = [opensearch EXCEPT !.docs = docs]
  BY <1>1, StoresTyped DEF EnsureIndex
<1>7. /\ files' = files /\ postgres' = postgres /\ last' = last
      /\ reading' = reading /\ index' = index /\ published' = published
  BY DEF EnsureIndex, environment
<1>8. ReindexingOK(q) => "opensearch" \notin reached /\ docs = {}
  BY <1>1, <1>2, <1>3 DEF ReindexingOK
<1>9. /\ q.at \in {"head", "delete", "mapping", "bulk"}
      /\ at \in {"delete", "mapping", "bulk", "answer"}
  BY <1>1, <1>2
<1>10. q.settled /\ ReindexingOK(q) =>
          /\ at = "mapping" => docs = None
          /\ at = "bulk" => docs = {}
          /\ "pgvector" \in reached => "pgvector" \in q.reached
          /\ "opensearch" \in reached => at = "answer" /\ docs = files
  BY <1>1, <1>3, <1>8
<1>11. q = thread[t] /\ reached \in SUBSET Backends
  BY <1>1, <1>4
<1> QED
  BY <1>5, <1>6, <1>7, <1>9, <1>10, <1>11, ReindexingDocuments, ZenonT(60)

LEMMA ReindexBulks ==
    ASSUME RetrievalInv, NEW t \in Threads, BulkIndex(t)
    PROVE  RetrievalInv'
<1>1. PICK q, at, reached : q = thread[t] /\ at = "answer" /\ reached = q.reached \union {"opensearch"}
  OBVIOUS
<1>2. q \in ThreadStates /\ q.at = "bulk"
  BY <1>1, Serving DEF BulkIndex
<1>3. PICK docs : docs = (IF opensearch.docs = None THEN {} ELSE opensearch.docs)
                             \union ToSet(q.chunks)
  OBVIOUS
<1>4. reached \in SUBSET Backends
  BY <1>1, <1>2 DEF ThreadStates, Backends
<1>5. thread' = [thread EXCEPT ![t] = [q EXCEPT !.at = at, !.reached = reached]]
  BY <1>1 DEF BulkIndex
<1>6. docs \in (SUBSET Chunks) \union {None}
  <2>1. q.chunks \in Seq(Chunks)
    BY <1>2 DEF ThreadStates
  <2>2. ToSet(q.chunks) \subseteq Chunks
    BY <2>1, LenProperties, ElementOfSeq DEF ToSet
  <2> QED
    BY <1>3, <2>2, StoresTyped
<1>7. opensearch' = [opensearch EXCEPT !.docs = docs]
  BY <1>1, <1>3 DEF BulkIndex
<1>8. /\ files' = files /\ postgres' = postgres /\ last' = last
      /\ reading' = reading /\ index' = index /\ published' = published
  BY DEF BulkIndex, environment
<1>9. ReindexingOK(q) => docs = files
  <2>1. ASSUME ReindexingOK(q) PROVE opensearch.docs = {} /\ q.chunks = LoadChunks
    BY <1>2, <2>1 DEF ReindexingOK
  <2>2. ToSet(LoadChunks) = files
    BY LoadChunksProperties DEF RetrievalInv, RetrievalTypeOK
  <2> QED
    BY <1>3, <2>1, <2>2
<1> QED
  BY <1>1, <1>2, <1>4, <1>5, <1>6, <1>7, <1>8, <1>9, ReindexingDocuments

LEMMA ReindexFails ==
    ASSUME RetrievalInv, NEW t \in Threads, PostgresFails(t) \/ OpensearchFails(t)
    PROVE  RetrievalInv'
<1>1. PICK q : q = thread[t]
  OBVIOUS
<1>2. /\ q \in ThreadStates /\ Placed(t, q) /\ published \in Nat
      /\ published = Len(index) /\ index \in Seq(IndexObjects)
  BY <1>1, Serving
<1>3. q.at \in {"drop", "create", "insert", "head", "delete", "mapping", "bulk"}
  BY <1>1 DEF PostgresFails, OpensearchFails
<1>4. q.reindexing
  BY <1>2, <1>3, Reindexing DEF ThreadStates
<1>5. /\ thread' = [thread EXCEPT ![t] = Idle]
      /\ files' = files /\ postgres' = postgres /\ opensearch' = opensearch
      /\ reading' = reading /\ last' = last /\ index' = index /\ published' = published
  BY DEF PostgresFails, OpensearchFails, End, environment, stores
<1>6. last = None
  BY <1>1, <1>4, BesideReindexing
<1>7. ReindexTakesEffect' /\ StillConnected'
  BY <1>5, <1>6 DEF ReindexTakesEffect, StillConnected
<1> QED
  BY <1>1, <1>2, <1>4, <1>5, <1>6, <1>7, ReindexEnds

LEMMA ReindexIsAnswered ==
    ASSUME RetrievalInv, NEW t \in Threads, AnswerReindex(t)
    PROVE  RetrievalInv'
<1>1. PICK q : q = thread[t]
  OBVIOUS
<1>2. /\ q \in ThreadStates /\ Placed(t, q) /\ q.reindexing /\ q.at = "answer"
      /\ published \in Nat /\ q.index \in 1 .. published
      /\ published = Len(index) /\ index \in Seq(IndexObjects)
      /\ q.settled => ReindexingOK(q)
  BY <1>1, Serving DEF AnswerReindex, Untaken
<1>3. /\ thread' = [thread EXCEPT ![t] = Idle]
      /\ files' = files /\ postgres' = postgres /\ opensearch' = opensearch
      /\ reading' = reading /\ published' = published
      /\ IF "pgvector" \in Up /\ Mine(t).connection = 0 THEN Connect(t) ELSE index' = index
  BY DEF AnswerReindex, End, environment, stores
<1>4. RetrievalTypeOK
  BY DEF RetrievalInv
<1>5. /\ index' \in Seq(IndexObjects) /\ Len(index') = published
      /\ \A j \in 1 .. published :
            /\ index'[j].chunks = index[j].chunks
            /\ index'[j].connection \in {index[j].connection, postgres.starts}
  <2>1. CASE Connect(t)
    BY <1>1, <1>2, <1>4, <2>1, ConnectionMade
  <2>2. CASE index' = index
    BY <1>2, <2>2
  <2> QED
    BY <1>3, <2>1, <2>2
<1>6. CASE ~q.settled
  <2>1. last' = None
    BY <1>1, <1>6 DEF AnswerReindex
  <2>2. ReindexTakesEffect' /\ StillConnected'
    BY <2>1 DEF ReindexTakesEffect, StillConnected
  <2> QED
    BY <1>1, <1>2, <1>3, <1>5, <2>1, <2>2, ReindexEnds
<1>7. CASE q.settled
  <2>1. PICK restarted : restarted = (~postgres.up \/ Mine(t).connection # postgres.starts)
    OBVIOUS
  <2>2. last' = [files |-> files, reached |-> q.reached, restarted |-> restarted]
    BY <1>1, <1>7, <2>1 DEF AnswerReindex
  <2>3. last' \in Reindexings
    BY <1>2, <1>4, <2>1, <2>2 DEF Reindexings, RetrievalTypeOK, ThreadStates
  <2>4. /\ q.index = published /\ Lexical = LoadChunks
        /\ "pgvector" \in q.reached => postgres.table = files
        /\ "opensearch" \in q.reached => opensearch.docs = files
    BY <1>2, <1>7 DEF ReindexingOK, Untaken
  <2>5. index'[published].chunks = LoadChunks
    BY <1>2, <1>5, <2>4 DEF Lexical
  <2>6. ReindexTakesEffect'
    <3>1. ToSet(LoadChunks) = files /\ IsInjective(LoadChunks)
      BY <1>4, LoadChunksProperties DEF RetrievalTypeOK
    <3> QED
      BY <1>3, <2>2, <2>4, <2>5, <3>1 DEF ReindexTakesEffect
  <2>7. StillConnected'
    <3>1. ASSUME ~restarted
          PROVE  postgres.up /\ index'[published].connection = postgres.starts
      BY <1>1, <1>2, <1>5, <2>1, <2>4, <3>1 DEF Mine
    <3> QED
      BY <1>3, <2>2, <3>1 DEF StillConnected
  <2>8. /\ published # 0 /\ thread[t].reindexing /\ thread[t].settled
        /\ index' \in Seq(IndexObjects) /\ published' = Len(index')
    BY <1>1, <1>2, <1>3, <1>5, <1>7
  <2>9. /\ thread' = [thread EXCEPT ![t] = Idle]
        /\ files' = files /\ postgres' = postgres /\ opensearch' = opensearch
        /\ reading' = reading /\ published' = published
    BY <1>3
  <2> QED
    BY <2>3, <2>6, <2>7, <2>8, <2>9, ReindexEnds
<1> QED
  BY <1>6, <1>7

-----------------------------------------------------------------------------
(* What happens to all requests at once.                                   *)

\* The files and the stores come and go: a request keeps its place and what it
\* has, and may lose its claims.
LEMMA EnvironmentMoves ==
    ASSUME RetrievalInv,
           \A u \in Threads :
              /\ thread'[u] \in ThreadStates
              /\ thread'[u].at = thread[u].at /\ thread'[u].reindexing = thread[u].reindexing
              /\ thread'[u].index = thread[u].index /\ thread'[u].chunks = thread[u].chunks
              /\ thread'[u].found = thread[u].found /\ thread'[u].reached = thread[u].reached
              /\ thread'[u].settled =>
                    thread[u].settled /\ (thread[u].reindexing => files' = files)
              /\ thread'[u].steady \subseteq thread[u].steady
              /\ thread'[u].steady \subseteq Up',
           thread' = [u \in Threads |-> thread'[u]],
           files' \subseteq Chunks, index' = index, published' = published,
           postgres'.table = postgres.table, postgres'.starts >= postgres.starts,
           postgres' \in [up : BOOLEAN, starts : Nat, table : (SUBSET Chunks) \union {None}],
           opensearch'.docs = opensearch.docs,
           opensearch' \in [up : BOOLEAN, docs : (SUBSET Chunks) \union {None}],
           reading' \subseteq reading,
           last' \in Reindexings \union {None}, last' = None <=> last = None,
           last # None => last'.files = last.files /\ last'.reached = last.reached,
           last # None /\ "pgvector" \in last.reached /\ ~last'.restarted =>
              ~last.restarted /\ postgres' = postgres /\ reading' = reading
    PROVE  RetrievalInv'
<1>0. /\ RetrievalTypeOK /\ Alone /\ ReindexTakesEffect /\ StillConnected
      /\ \A u \in Threads : thread[u].settled =>
            IF thread[u].reindexing THEN ReindexingOK(thread[u]) ELSE SearchOK(u, thread[u])
  BY DEF RetrievalInv
<1>1. published \in Nat /\ published = Len(index) /\ index \in Seq(IndexObjects)
  BY <1>0, LenProperties DEF RetrievalTypeOK
<1>2. index' \in Seq(IndexObjects)'
  <2>1. postgres.starts \in Nat /\ postgres'.starts \in Nat
    BY <1>0 DEF RetrievalTypeOK
  <2>2. 0 .. postgres.starts \subseteq 0 .. postgres'.starts
    BY <2>1
  <2>3. IndexObjects \subseteq IndexObjects'
    BY <2>2 DEF IndexObjects
  <2> QED
    BY <1>1, <2>3, SeqMonotonic
<1>3. RetrievalTypeOK'
  <2>1. ASSUME NEW u \in Threads PROVE Placed(u, thread[u])'
    <3>1. Placed(u, thread[u])
      BY <1>0 DEF RetrievalTypeOK
    <3> QED
      BY <3>1 DEF Placed
  <2>2. thread' \in [Threads -> ThreadStates]
    OBVIOUS
  <2>3. reading' \subseteq Threads /\ published' = Len(index')
    BY <1>0, <1>1 DEF RetrievalTypeOK
  <2> QED
    BY <1>2, <2>1, <2>2, <2>3 DEF RetrievalTypeOK
<1>4. Alone'
  BY <1>0 DEF Alone
<1>5. ReindexTakesEffect'
  BY <1>0 DEF ReindexTakesEffect
<1>6. StillConnected'
  BY <1>0 DEF StillConnected
<1>7. ASSUME NEW u \in Threads, thread'[u].settled
      PROVE  IF thread'[u].reindexing THEN ReindexingOK(thread[u])' ELSE SearchOK(u, thread[u])'
  <2>1. CASE thread[u].reindexing
    <3>1. ReindexingOK(thread[u]) /\ files' = files
      BY <1>0, <1>7, <2>1
    <3>2. Lexical' = Lexical /\ LoadChunks' = LoadChunks
      BY <3>1 DEF Lexical, LoadChunks
    <3> QED
      BY <2>1, <3>1, <3>2 DEF ReindexingOK
  <2>2. CASE ~thread[u].reindexing
    <3>1. SearchOK(u, thread[u]) /\ last # None
      BY <1>0, <1>7, <2>2 DEF Alone
    <3> QED
      BY <2>2, <3>1 DEF SearchOK
  <2> QED
    BY <2>1, <2>2
<1> QED
  BY <1>3, <1>4, <1>5, <1>6, <1>7 DEF RetrievalInv

\* What is known of the threads and of what is remembered.
LEMMA Remembered ==
    ASSUME RetrievalInv
    PROVE  /\ thread \in [Threads -> ThreadStates]
           /\ \A u \in Threads : thread[u].steady \subseteq Up
           /\ last \in Reindexings \union {None} /\ None \notin Reindexings
           /\ files \subseteq Chunks /\ postgres.starts \in Nat
BY RetrievalAssumption DEF RetrievalInv, RetrievalTypeOK, Placed

LEMMA FilesChange ==
    ASSUME RetrievalInv, NEW to \in Knowledge, Edit(to)
    PROVE  RetrievalInv'
<1>1. \A u \in Threads : thread'[u] = [thread[u] EXCEPT !.settled = @ /\ ~thread[u].reindexing]
  BY DEF Edit
<1>2. /\ postgres' = postgres /\ opensearch' = opensearch /\ reading' = reading /\ last' = last
      /\ index' = index /\ published' = published /\ files' = to
      /\ thread' = [u \in Threads |-> thread'[u]]
  BY DEF Edit, stores
<1>3. to \subseteq Chunks
  BY RetrievalAssumption
<1>4. Up' = Up
  BY <1>2 DEF Up, Stores
<1>5. ASSUME NEW u \in Threads
      PROVE  /\ thread'[u] \in ThreadStates
             /\ thread'[u].at = thread[u].at /\ thread'[u].reindexing = thread[u].reindexing
             /\ thread'[u].index = thread[u].index /\ thread'[u].chunks = thread[u].chunks
             /\ thread'[u].found = thread[u].found /\ thread'[u].reached = thread[u].reached
             /\ thread'[u].settled => thread[u].settled /\ ~thread[u].reindexing
             /\ thread'[u].steady = thread[u].steady
  <2>1. PICK q : q = thread[u]
    OBVIOUS
  <2>2. q \in ThreadStates
    BY <2>1, Remembered
  <2>3. thread'[u] = [q EXCEPT !.settled = q.settled /\ ~q.reindexing]
    BY <1>1, <2>1
  <2> QED
    BY <2>1, <2>2, <2>3 DEF ThreadStates
<1> QED
  BY <1>2, <1>3, <1>4, <1>5, Remembered, StoresTyped, EnvironmentMoves

\* Nobody has found the store steady any more.
LEMMA NobodySteady ==
    ASSUME RetrievalInv, NEW store, Unsteady(store)
    PROVE  /\ thread' = [u \in Threads |-> thread'[u]]
           /\ \A u \in Threads :
                 /\ thread'[u] \in ThreadStates
                 /\ thread'[u].at = thread[u].at /\ thread'[u].reindexing = thread[u].reindexing
                 /\ thread'[u].index = thread[u].index /\ thread'[u].chunks = thread[u].chunks
                 /\ thread'[u].found = thread[u].found /\ thread'[u].reached = thread[u].reached
                 /\ thread'[u].settled = thread[u].settled
                 /\ thread'[u].steady = thread[u].steady \ {store}
<1>1. ASSUME NEW u \in Threads
      PROVE  /\ thread'[u] \in ThreadStates
             /\ thread'[u].at = thread[u].at /\ thread'[u].reindexing = thread[u].reindexing
             /\ thread'[u].index = thread[u].index /\ thread'[u].chunks = thread[u].chunks
             /\ thread'[u].found = thread[u].found /\ thread'[u].reached = thread[u].reached
             /\ thread'[u].settled = thread[u].settled
             /\ thread'[u].steady = thread[u].steady \ {store}
  <2>1. PICK q : q = thread[u]
    OBVIOUS
  <2>2. q \in ThreadStates
    BY <2>1, Remembered
  <2>3. thread'[u] = [q EXCEPT !.steady = q.steady \ {store}]
    BY <2>1 DEF Unsteady
  <2> QED
    BY <2>1, <2>2, <2>3 DEF ThreadStates
<1>2. thread' = [u \in Threads |-> thread'[u]]
  BY DEF Unsteady
<1> QED
  BY <1>1, <1>2

LEMMA PostgresGoes ==
    ASSUME RetrievalInv, PostgresStops
    PROVE  RetrievalInv'
<1>1. Unsteady("pgvector")
  BY DEF PostgresStops
<1>2. /\ opensearch' = opensearch /\ index' = index /\ published' = published /\ files' = files
      /\ reading' = {} /\ postgres' = [postgres EXCEPT !.up = FALSE]
  BY DEF PostgresStops
<1>3. /\ postgres' \in [up : BOOLEAN, starts : Nat, table : (SUBSET Chunks) \union {None}]
      /\ postgres'.table = postgres.table /\ postgres'.starts = postgres.starts
  BY <1>2, StoresTyped
<1>4. Up \ {"pgvector"} \subseteq Up'
  BY <1>2 DEF Up, Stores
<1>5. \A u \in Threads : thread[u].steady \ {"pgvector"} \subseteq Up'
  BY <1>4, Remembered
<1>6. /\ last' \in Reindexings \union {None} /\ (last' = None <=> last = None)
      /\ last # None =>
            last'.files = last.files /\ last'.reached = last.reached /\ last'.restarted
  <2>1. CASE last = None
    BY <2>1 DEF PostgresStops
  <2>2. CASE last # None
    <3>1. PICK p : p = [last EXCEPT !.restarted = TRUE]
      OBVIOUS
    <3>2. last \in Reindexings
      BY <2>2, Remembered
    <3>3. p \in Reindexings /\ p.files = last.files /\ p.reached = last.reached /\ p.restarted
      BY <3>1, <3>2 DEF Reindexings
    <3>4. last' = p
      BY <2>2, <3>1 DEF PostgresStops
    <3> QED
      BY <2>2, <3>3, <3>4, Remembered
  <2> QED
    BY <2>1, <2>2
<1>7. postgres'.starts >= postgres.starts
  BY <1>3, Remembered
<1>8. \A u \in Threads :
         /\ thread'[u] \in ThreadStates
         /\ thread'[u].at = thread[u].at /\ thread'[u].reindexing = thread[u].reindexing
         /\ thread'[u].index = thread[u].index /\ thread'[u].chunks = thread[u].chunks
         /\ thread'[u].found = thread[u].found /\ thread'[u].reached = thread[u].reached
         /\ thread'[u].settled = thread[u].settled
         /\ thread'[u].steady \subseteq thread[u].steady
         /\ thread'[u].steady \subseteq Up'
  BY <1>1, <1>5, NobodySteady
<1>9. thread' = [u \in Threads |-> thread'[u]]
  BY <1>1, NobodySteady
<1> QED
  BY <1>2, <1>3, <1>6, <1>7, <1>8, <1>9, Remembered, StoresTyped, EnvironmentMoves

LEMMA PostgresComesBack ==
    ASSUME RetrievalInv, PostgresStarts
    PROVE  RetrievalInv'
<1>1. /\ opensearch' = opensearch /\ index' = index /\ published' = published /\ files' = files
      /\ reading' = reading /\ last' = last /\ thread' = thread
      /\ postgres' = [postgres EXCEPT !.up = TRUE, !.starts = postgres.starts + 1]
  BY DEF PostgresStarts, environment
<1>2. /\ postgres' \in [up : BOOLEAN, starts : Nat, table : (SUBSET Chunks) \union {None}]
      /\ postgres'.table = postgres.table /\ postgres'.starts >= postgres.starts
  <2>1. postgres.starts \in Nat
    BY StoresTyped
  <2>2. PICK n : n = postgres.starts + 1
    OBVIOUS
  <2>3. n \in Nat /\ n >= postgres.starts
    BY <2>1, <2>2
  <2>4. postgres' = [postgres EXCEPT !.up = TRUE, !.starts = n]
    BY <1>1, <2>2
  <2> QED
    BY <2>3, <2>4, StoresTyped
<1>3. Up \subseteq Up'
  BY <1>1, StoresTyped DEF Up, Stores
<1>4. \A u \in Threads :
         /\ thread[u] \in ThreadStates
         /\ thread'[u] = thread[u]
         /\ thread[u].steady \subseteq Up'
  BY <1>1, <1>3, Remembered
<1>5. thread' = [u \in Threads |-> thread'[u]]
  BY <1>1, Remembered
<1>6. ~(last # None /\ "pgvector" \in last.reached /\ ~last.restarted)
  BY DEF PostgresStarts, RetrievalInv, StillConnected
<1> QED
  BY <1>1, <1>2, <1>4, <1>5, <1>6, Remembered, StoresTyped, EnvironmentMoves

LEMMA OpensearchGoes ==
    ASSUME RetrievalInv, OpensearchStops
    PROVE  RetrievalInv'
<1>1. Unsteady("opensearch")
  BY DEF OpensearchStops
<1>2. /\ postgres' = postgres /\ index' = index /\ published' = published /\ files' = files
      /\ reading' = reading /\ last' = last
      /\ opensearch' = [opensearch EXCEPT !.up = FALSE]
  BY DEF OpensearchStops
<1>3. /\ opensearch' \in [up : BOOLEAN, docs : (SUBSET Chunks) \union {None}]
      /\ opensearch'.docs = opensearch.docs
  BY <1>2, StoresTyped
<1>4. Up \ {"opensearch"} \subseteq Up'
  BY <1>2 DEF Up, Stores
<1>5. \A u \in Threads : thread[u].steady \ {"opensearch"} \subseteq Up'
  BY <1>4, Remembered
<1>6. \A u \in Threads :
         /\ thread'[u] \in ThreadStates
         /\ thread'[u].at = thread[u].at /\ thread'[u].reindexing = thread[u].reindexing
         /\ thread'[u].index = thread[u].index /\ thread'[u].chunks = thread[u].chunks
         /\ thread'[u].found = thread[u].found /\ thread'[u].reached = thread[u].reached
         /\ thread'[u].settled = thread[u].settled
         /\ thread'[u].steady \subseteq thread[u].steady
         /\ thread'[u].steady \subseteq Up'
  BY <1>1, <1>5, NobodySteady
<1>7. thread' = [u \in Threads |-> thread'[u]]
  BY <1>1, NobodySteady
<1>8. postgres'.starts >= postgres.starts
  BY <1>2, Remembered
<1> QED
  BY <1>2, <1>3, <1>6, <1>7, <1>8, Remembered, StoresTyped, EnvironmentMoves

LEMMA OpensearchComesBack ==
    ASSUME RetrievalInv, OpensearchStarts
    PROVE  RetrievalInv'
<1>1. /\ postgres' = postgres /\ index' = index /\ published' = published /\ files' = files
      /\ reading' = reading /\ last' = last /\ thread' = thread
      /\ opensearch' = [opensearch EXCEPT !.up = TRUE]
  BY DEF OpensearchStarts, environment
<1>2. /\ opensearch' \in [up : BOOLEAN, docs : (SUBSET Chunks) \union {None}]
      /\ opensearch'.docs = opensearch.docs
  BY <1>1, StoresTyped
<1>3. Up \subseteq Up'
  BY <1>1, StoresTyped DEF Up, Stores
<1>4. \A u \in Threads :
         /\ thread[u] \in ThreadStates
         /\ thread'[u] = thread[u]
         /\ thread[u].steady \subseteq Up'
  BY <1>1, <1>3, Remembered
<1>5. thread' = [u \in Threads |-> thread'[u]]
  BY <1>1, Remembered
<1>6. postgres'.starts >= postgres.starts
  BY <1>1, Remembered
<1> QED
  BY <1>1, <1>2, <1>4, <1>5, <1>6, Remembered, StoresTyped, EnvironmentMoves

\* When a reindexing begins nothing is remembered any more, and it is settled
\* itself only if there is no other.
LEMMA ReindexBegins ==
    ASSUME RetrievalInv, NEW t \in Threads, Reindex(t)
    PROVE  RetrievalInv'
<1>0. RetrievalTypeOK /\ Alone
  BY DEF RetrievalInv
<1>1. PICK alone : alone = ~\E v \in Threads : thread[v].reindexing
  OBVIOUS
<1>2. PICK r : r = [Idle EXCEPT !.at = "build", !.reindexing = TRUE, !.settled = alone]
  OBVIOUS
<1>3. /\ r \in ThreadStates
      /\ r.at = "build" /\ r.reindexing /\ r.index = 0 /\ r.reached = {}
      /\ r.settled = alone /\ r.steady = {}
  BY <1>1, <1>2, EmptySeq DEF Idle, ThreadStates, Nothing, SearchPlaces
<1>4. /\ thread' = [u \in Threads |->
                       IF u = t THEN r ELSE [thread[u] EXCEPT !.settled = FALSE]]
      /\ last' = None /\ files' = files /\ index' = index /\ published' = published
      /\ postgres' = postgres /\ reading' = reading /\ opensearch' = opensearch
      /\ thread[t] = Idle
  BY <1>1, <1>2 DEF Reindex, environment, stores
<1>5. Up' = Up /\ IndexObjects' = IndexObjects
  BY <1>4 DEF Up, Stores, IndexObjects
<1>6. thread'[t] = r
  BY <1>4
<1>7. ASSUME NEW u \in Threads, u # t
      PROVE  /\ thread'[u] \in ThreadStates /\ Placed(u, thread[u])'
             /\ ~thread'[u].settled /\ thread'[u].reindexing = thread[u].reindexing
  <2>1. PICK q : q = thread[u]
    OBVIOUS
  <2>2. q \in ThreadStates /\ Placed(u, q)
    BY <2>1, Serving
  <2>3. PICK p : p = [q EXCEPT !.settled = FALSE]
    OBVIOUS
  <2>4. /\ p \in ThreadStates /\ ~p.settled /\ p.reindexing = q.reindexing
        /\ p.at = q.at /\ p.index = q.index /\ p.chunks = q.chunks /\ p.steady = q.steady
    BY <2>2, <2>3 DEF ThreadStates
  <2>5. thread'[u] = p
    BY <1>4, <1>7, <2>1, <2>3
  <2>6. Placed(u, p)'
    BY <1>4, <1>5, <2>2, <2>4 DEF Placed
  <2> QED
    BY <2>1, <2>4, <2>5, <2>6
<1>8. Placed(t, r)'
  <2>1. Placed(t, thread[t]) /\ published \in Nat
    BY Serving
  <2>2. t \notin reading
    BY <1>4, <2>1 DEF Placed, Idle
  <2> QED
    BY <1>3, <1>4, <2>1, <2>2 DEF Placed, Untaken, ReindexPlaces
<1>9. RetrievalTypeOK'
  <2>1. \A u \in Threads : thread'[u] \in ThreadStates /\ Placed(u, thread[u])'
    BY <1>3, <1>6, <1>7, <1>8
  <2>2. thread' \in [Threads -> ThreadStates]
    BY <1>4, <2>1
  <2> QED
    BY <1>0, <1>4, <1>5, <2>1, <2>2 DEF RetrievalTypeOK
<1>10. Alone'
  BY <1>1, <1>3, <1>4, <1>6, <1>7 DEF Alone
<1>11. ReindexTakesEffect' /\ StillConnected'
  BY <1>4 DEF ReindexTakesEffect, StillConnected
<1>12. ASSUME NEW u \in Threads, thread'[u].settled
       PROVE  IF thread'[u].reindexing THEN ReindexingOK(thread[u])' ELSE SearchOK(u, thread[u])'
  <2>1. u = t
    BY <1>7, <1>12
  <2>2. ReindexingOK(r)'
    BY <1>3 DEF ReindexingOK, Untaken
  <2> QED
    BY <1>3, <1>6, <2>1, <2>2
<1> QED
  BY <1>9, <1>10, <1>11, <1>12 DEF RetrievalInv

-----------------------------------------------------------------------------
(* The theorems.                                                           *)

LEMMA InitiallyRetrieval == Init => RetrievalInv
<1> SUFFICES ASSUME Init PROVE RetrievalInv
  OBVIOUS
<1>1. /\ Idle \in ThreadStates /\ ~Idle.reindexing /\ ~Idle.settled
      /\ Idle.at = "idle" /\ Idle.index = 0 /\ Idle.steady = {}
  BY EmptySeq DEF Idle, ThreadStates, Nothing
<1>2. /\ files = Chunks /\ index = << >> /\ published = 0 /\ reading = {} /\ last = None
      /\ postgres = [up |-> TRUE, starts |-> 1, table |-> None]
      /\ opensearch = [up |-> TRUE, docs |-> None]
      /\ thread = [t \in Threads |-> Idle]
  BY DEF Init
<1>3. \A t \in Threads : thread[t] = Idle
  BY <1>2
<1>4. RetrievalTypeOK
  <2>1. ASSUME NEW t \in Threads PROVE Placed(t, thread[t])
    BY <1>1, <1>2, <1>3 DEF Placed, Untaken
  <2>2. index \in Seq(IndexObjects) /\ published = Len(index)
    BY <1>2, EmptySeq
  <2>3. thread \in [Threads -> ThreadStates]
    BY <1>1, <1>2
  <2> QED
    BY <1>2, <2>1, <2>2, <2>3 DEF RetrievalTypeOK
<1>5. Alone /\ ReindexTakesEffect /\ StillConnected
  BY <1>1, <1>2, <1>3 DEF Alone, ReindexTakesEffect, StillConnected
<1> QED
  BY <1>1, <1>3, <1>4, <1>5 DEF RetrievalInv

LEMMA StepKeepsRetrieval ==
    ASSUME RetrievalInv, NEW t \in Threads, Step(t)
    PROVE  RetrievalInv'
<1>1. CASE Publish(t)  BY <1>1, SearchPublishes, ReindexPublishes
<1>2. CASE TakeIndex(t)  BY <1>2, SearchTakesIndex, ReindexTakesIndex
<1>3. CASE Rebuild(t)  BY <1>3, ReindexEmpties
<1>4. CASE AppendChunk(t)  BY <1>4, ReindexAppends
<1>5. CASE SearchLexical(t)  BY <1>5, SearchesLexical
<1>6. CASE CheckPostgres(t)  BY <1>6, SearchChecksPostgres, ReindexChecksPostgres
<1>7. CASE BeginQuery(t)  BY <1>7, QueryBegins
<1>8. CASE EndQuery(t)  BY <1>8, QueryEnds
<1>9. CASE QueryFails(t)  BY <1>9, QueryIsRefused
<1>10. CASE DropTable(t)  BY <1>10, ReindexDropsTable
<1>11. CASE CreateTable(t)  BY <1>11, ReindexCreatesTable
<1>12. CASE InsertRows(t)  BY <1>12, ReindexInserts
<1>13. CASE PostgresFails(t)  BY <1>13, ReindexFails
<1>14. CASE CheckOpensearch(t)  BY <1>14, SearchChecksOpensearch, ReindexChecksOpensearch
<1>15. CASE SearchOpensearch(t)  BY <1>15, SearchesOpensearch
<1>16. CASE HeadIndex(t)  BY <1>16, ReindexHeadsIndex
<1>17. CASE DeleteIndex(t)  BY <1>17, ReindexDeletesIndex
<1>18. CASE EnsureIndex(t)  BY <1>18, ReindexEnsuresIndex
<1>19. CASE BulkIndex(t)  BY <1>19, ReindexBulks
<1>20. CASE OpensearchFails(t)  BY <1>20, ReindexFails
<1>21. CASE AnswerSearch(t)  BY <1>21, SearchIsAnswered
<1>22. CASE AnswerReindex(t)  BY <1>22, ReindexIsAnswered
<1> QED
  BY <1>1, <1>2, <1>3, <1>4, <1>5, <1>6, <1>7, <1>8, <1>9, <1>10, <1>11, <1>12, <1>13, <1>14,
     <1>15, <1>16, <1>17, <1>18, <1>19, <1>20, <1>21, <1>22 DEF Step

LEMMA NextKeepsRetrieval == RetrievalInv /\ [Next]_vars => RetrievalInv'
<1> SUFFICES ASSUME RetrievalInv, [Next]_vars PROVE RetrievalInv'
  OBVIOUS
<1>1. CASE \E to \in Knowledge \ {files} : Edit(to)  BY <1>1, FilesChange
<1>2. CASE PostgresStops  BY <1>2, PostgresGoes
<1>3. CASE PostgresStarts  BY <1>3, PostgresComesBack
<1>4. CASE OpensearchStops  BY <1>4, OpensearchGoes
<1>5. CASE OpensearchStarts  BY <1>5, OpensearchComesBack
<1>6. CASE \E t \in Threads : Search(t) \/ Reindex(t) \/ Step(t)
  BY <1>6, SearchBegins, ReindexBegins, StepKeepsRetrieval
<1>7. CASE UNCHANGED vars
  <2>1. Up' = Up /\ IndexObjects' = IndexObjects /\ Lexical' = Lexical /\ LoadChunks' = LoadChunks
    BY <1>7 DEF vars, environment, stores, Up, Stores, IndexObjects, Lexical, LoadChunks
  <2> QED
    BY <1>7, <2>1 DEF vars, environment, stores, RetrievalInv, RetrievalTypeOK, Placed, Alone,
       ReindexTakesEffect, StillConnected, ReindexingOK, SearchOK, Untaken
<1> QED
  BY <1>1, <1>2, <1>3, <1>4, <1>5, <1>6, <1>7 DEF Next

LEMMA AlwaysRetrieval == Spec => []RetrievalInv
<1> QED
  BY InitiallyRetrieval, NextKeepsRetrieval, PTL DEF Spec

\* The index, the stores and the requests are always well formed, and every
\* request is at a place of its kind (rag.py:570, knowledge.py:44).
THEOREM RetrievalTypeCorrect == Spec => []RetrievalTypeOK
<1>1. RetrievalInv => RetrievalTypeOK
  BY DEF RetrievalInv
<1> QED
  BY <1>1, AlwaysRetrieval, PTL

\* However many searches run beside it and whatever the stores did before: a
\* reindexing that was served alone has taken effect in all it has reached,
\* and it stays so until the next one (knowledge.py:44).
THEOREM ReindexAlwaysTakesEffect == Spec => []ReindexTakesEffect
<1>1. RetrievalInv => ReindexTakesEffect
  BY DEF RetrievalInv
<1> QED
  BY <1>1, AlwaysRetrieval, PTL

\* A search between two reindexings finds all of the knowledge, and of every
\* store that was reindexed all or nothing (rag.py:11).
THEOREM SearchIsAlwaysExact == Spec => []SearchIsExact
<1>1. RetrievalInv => SearchIsExact
  <2> SUFFICES ASSUME RetrievalInv, NEW t \in Threads, thread[t].at = "answer",
                      ~thread[t].reindexing, thread[t].settled
               PROVE  /\ thread[t].found["tfidf"] = last.files
                      /\ \A b \in last.reached : thread[t].found[b] \in {{}, last.files}
    BY DEF SearchIsExact
  <2>1. SearchOK(t, thread[t])
    BY DEF RetrievalInv
  <2> QED
    BY <2>1 DEF SearchOK, Untaken
<1> QED
  BY <1>1, AlwaysRetrieval, PTL

\* A reindexed store that answers during all of a search contributes to it,
\* Postgres until its first outage (rag.py:11, rag.py:314).
THEOREM ReachedAlwaysContribute == Spec => []ReachedBackendsContribute
<1>1. RetrievalInv => ReachedBackendsContribute
  <2> SUFFICES ASSUME RetrievalInv, NEW t \in Threads, thread[t].at = "answer",
                      ~thread[t].reindexing, thread[t].settled,
                      NEW b \in last.reached \intersect thread[t].steady,
                      b = "pgvector" => ~last.restarted
               PROVE  thread[t].found[b] = last.files
    BY DEF ReachedBackendsContribute
  <2>1. SearchOK(t, thread[t]) /\ b \in Backends
    <3>1. last # None
      BY DEF RetrievalInv, Alone
    <3> QED
      BY <3>1 DEF RetrievalInv, RetrievalTypeOK, Reindexings
  <2> QED
    BY <2>1 DEF SearchOK, Untaken, Backends
<1> QED
  BY <1>1, AlwaysRetrieval, PTL
=============================================================================
