---------------------------- MODULE ServerProofs ----------------------------
(***************************************************************************)
(* The safety of the server process for every number of threads, requests, *)
(* crashes and refused saves, and every choice of kinds of incidents.      *)
(***************************************************************************)
EXTENDS ServerSafety, FiniteSetTheorems, WellFoundedInduction, TLAPS

-----------------------------------------------------------------------------
(* Facts about the operators.                                              *)

\* Every set of natural numbers has a least element.
LEMMA Least ==
    ASSUME NEW S, S \subseteq Nat, S # {}
    PROVE  \E n \in S : \A m \in S : n <= m
<1>1. PICK n \in S : \A m \in S : ~(<<m, n>> \in OpToRel(<, Nat))
  BY WFMin, NatLessThanWellFounded
<1>2. \A m \in S : ~(m < n)
  BY <1>1 DEF OpToRel
<1> QED
  BY <1>2

\* The highest of some bounded ids is one of them, or 0, and none is above it.
LEMMA HighestIsHighest ==
    ASSUME NEW N \in Nat, NEW ids, ids \subseteq 1 .. N
    PROVE  /\ Highest(ids) \in ids \union {0}
           /\ Highest(ids) \in 0 .. N
           /\ \A m \in ids : m <= Highest(ids)
<1> DEFINE Bounds == {b \in Nat : \A m \in ids : m <= b}
<1>1. N \in Bounds /\ Bounds \subseteq Nat
  OBVIOUS
<1>2. PICK n \in Bounds : \A m \in Bounds : n <= m
  BY <1>1, Least
<1>3. n \in ids \union {0}
  <2> SUFFICES ASSUME n \notin ids, n # 0 PROVE FALSE
    OBVIOUS
  <2>1. n - 1 \in Nat
    OBVIOUS
  <2>2. \A m \in ids : m <= n - 1
    OBVIOUS
  <2>3. n - 1 \in Bounds
    BY <2>1, <2>2
  <2> QED
    BY <1>2, <2>3
<1>4. \E k \in ids \union {0} : \A m \in ids : m <= k
  BY <1>3
<1>5. Highest(ids) \in ids \union {0} /\ \A m \in ids : m <= Highest(ids)
  <2> DEFINE P(k) == \A m \in ids : m <= k
  <2>1. \E k \in ids \union {0} : P(k)
    BY <1>4
  <2> HIDE DEF P
  <2>2. LET k == CHOOSE k \in ids \union {0} : P(k) IN k \in ids \union {0} /\ P(k)
    BY <2>1
  <2> QED
    BY <2>2 DEF P, Highest
<1>6. \A k \in ids \union {0} : k \in 0 .. N
  OBVIOUS
<1> QED
  BY <1>5, <1>6

\* An empty store.
LEMMA EmptyMap == DOMAIN << >> = {} /\ IncidentMap(<< >>)
<1>1. DOMAIN << >> = {} /\ << >> \in [{} -> IncidentRecords]
  OBVIOUS
<1> QED
  BY <1>1 DEF IncidentMap

\* The places the actions send a thread to are places.
LEMMA PlaceLiterals ==
    /\ "idle" \in Places /\ "number" \in Places /\ "insert" \in Places
    /\ "save" \in Places /\ "saving" \in Places /\ "classify" \in Places
    /\ "policy" \in Places /\ "propose" \in Places /\ "dispatch" \in Places
    /\ "decided" \in Places /\ "execute" \in Places /\ "lookup" \in Places
    /\ "register" \in Places /\ "tool" \in Places /\ "audit" \in Places
    /\ "verify" \in Places
BY DEF Places

\* The values the actions write into an incident are of their types.
LEMMA RecordLiterals ==
    /\ "DETECTED" \in Statuses /\ "INVESTIGATING" \in Statuses
    /\ "AWAITING_APPROVAL" \in Statuses /\ "APPROVED" \in Statuses
    /\ "REJECTED" \in Statuses /\ "EXECUTING" \in Statuses
    /\ "REMEDIATED" \in Statuses /\ "VERIFICATION_FAILED" \in Statuses
    /\ "NOT_REQUIRED" \in Approvals /\ "PENDING" \in Approvals
    /\ "APPROVED" \in Approvals /\ "REJECTED" \in Approvals
BY DEF Statuses, Approvals

\* An idle thread is a thread.
LEMMA IdleType == Idle \in ThreadStates
BY PlaceLiterals, ThreadsAssumption DEF Idle, ThreadStates

-----------------------------------------------------------------------------
(* What a step that changes little leaves true.                            *)

\* An incident is not performed twice without a begin that went unrecorded.
Counts(n) ==
    performed[n] \in Nat /\ unrecorded[n] \in Nat /\ performed[n] <= unrecorded[n] + 1

\* The registry and the thread that builds it know each other.
RegistryOK ==
    /\ registrar \in Threads \union {None}
    /\ registry \in {"absent", "created", "reading", "filled"}
    /\ registrar # None <=> registry \in {"created", "reading"}
    /\ \A t \in Threads : thread[t].at = "register" <=> registrar = t

\* A thread that has changed nothing of its own has come as far as before, if
\* its incident, what has been performed for it and the file still say so.
LEMMA ProgressStays ==
    ASSUME NEW t \in Threads, Progress(t), thread'[t] = thread[t], Of(t)' = Of(t),
           Counts(Of(t).number), Counts(Of(t).number)',
           performed'[Of(t).number] = performed[Of(t).number],
           unrecorded[Of(t).number] <= unrecorded'[Of(t).number],
           cold \subseteq cold', registry = "filled" => registry' = "filled",
           thread[t].at \in {"lookup", "register", "tool"} => Marked(Of(t).number)'
    PROVE  Progress(t)'
<1>1. Upcoming(t)' = Upcoming(t)
  BY DEF Upcoming
<1> HIDE DEF Of, Upcoming
<1>2. /\ performed[Of(t).number] <= unrecorded[Of(t).number] =>
            (performed[Of(t).number] <= unrecorded[Of(t).number])'
      /\ performed[Of(t).number] > 0 => (performed[Of(t).number] > 0)'
  BY DEF Counts
<1> QED
  BY <1>1, <1>2 DEF Progress

\* The threads that number and insert incidents are the same ones if one that
\* does neither moves on.
LEMMA CreatorsStay ==
    ASSUME thread \in [Threads -> ThreadStates], NEW t \in Threads, NEW s \in ThreadStates,
           thread' = [thread EXCEPT ![t] = s],
           thread[t].at \notin {"number", "insert"}, s.at \notin {"number", "insert"}
    PROVE  Numbering' = Numbering /\ Inserting' = Inserting
BY DEF Numbering, Inserting

\* The threads that create an incident can be counted.
LEMMA CreatorsFinite ==
    /\ IsFiniteSet(Numbering) /\ Cardinality(Numbering) \in Nat
    /\ IsFiniteSet(Inserting) /\ Cardinality(Inserting) \in Nat
<1>1. Numbering \subseteq Threads /\ Inserting \subseteq Threads
  BY DEF Numbering, Inserting
<1> QED
  BY <1>1, ThreadsAssumption, FS_Subset, FS_CardinalityType

\* The incidents that have been stored can be counted.
LEMMA StoredFinite ==
    ASSUME stored \subseteq 1 .. MaxRequests
    PROVE  IsFiniteSet(stored) /\ Cardinality(stored) \in Nat
<1>1. IsFiniteSet(1 .. MaxRequests)
  BY ThreadsAssumption, FS_Interval
<1>2. IsFiniteSet(stored)
  BY <1>1, FS_Subset
<1> QED
  BY <1>2, FS_CardinalityType

\* What an incident's record says stays right when nothing is performed.
LEMMA RecordStays ==
    ASSUME NEW r, RecordOK(r), Counts(r.number), Counts(r.number)',
           performed' = performed, unrecorded[r.number] <= unrecorded'[r.number],
           stored \subseteq stored', cold \subseteq cold'
    PROVE  RecordOK(r)'
BY DEF RecordOK, Counts

\* The part of the invariant about what the threads share, without the
\* registry.
StoreOK ==
    /\ open \in BOOLEAN /\ seq \in 0 .. MaxRequests /\ requests \in 0 .. MaxRequests
    /\ IncidentMap(memory) /\ \A id \in DOMAIN memory : id <= seq
    /\ file = Torn \/ IncidentMap(file)
    /\ lock \in Threads \union {None}
    /\ lock # None => file = Torn
    /\ performed \in [1 .. MaxRequests -> Nat] /\ crashes \in Nat
    /\ unrecorded \in [1 .. MaxRequests -> Nat] /\ refusals \in Nat
    /\ \A n \in 1 .. MaxRequests :
          /\ performed[n] <= unrecorded[n] + 1
          /\ performed[n] + unrecorded[n] > 0 => n \in stored
    /\ stored \subseteq 1 .. MaxRequests /\ stored = 1 .. Cardinality(stored)
    /\ saved \union cold \subseteq stored /\ lost \subseteq saved
    /\ ContentOK(memory)
    /\ file = Torn \/ ContentOK(file)

\* The part about one thread.
ThreadOK(t) ==
    /\ thread[t].at = "saving" <=> lock = t
    /\ Creating(t)
    /\ Working(t) => thread[t].id \in DOMAIN memory /\ Progress(t)

\* The parts make up the invariant.
LEMMA Parts ==
    ServerInv <=>
        /\ StoreOK /\ RegistryOK
        /\ thread \in [Threads -> ThreadStates] /\ \A t \in Threads : ThreadOK(t)
        /\ Exclusive /\ Counted /\ Survives
<1> HIDE DEF IncidentMap, ContentOK, Creating, Progress, Working
<1>1. ASSUME ServerInv
      PROVE  /\ StoreOK /\ RegistryOK
             /\ thread \in [Threads -> ThreadStates] /\ \A t \in Threads : ThreadOK(t)
             /\ Exclusive /\ Counted /\ Survives
  BY <1>1 DEF ServerInv, ServerTypeOK, StoreOK, RegistryOK, ThreadOK
<1>2. ASSUME StoreOK, RegistryOK, thread \in [Threads -> ThreadStates],
             \A t \in Threads : ThreadOK(t), Exclusive, Counted, Survives
      PROVE  ServerInv
  BY <1>2 DEF ServerInv, ServerTypeOK, StoreOK, RegistryOK, ThreadOK
<1> QED
  BY <1>1, <1>2

\* The same of the state after a step.
LEMMA PartsAfter ==
    ASSUME StoreOK', RegistryOK', (thread \in [Threads -> ThreadStates])',
           \A t \in Threads : ThreadOK(t)', Exclusive', Counted', Survives'
    PROVE  ServerInv'
<1> HIDE DEF IncidentMap, ContentOK, Creating, Progress, Working
<1> QED
  BY DEF ServerInv, ServerTypeOK, StoreOK, RegistryOK, ThreadOK

\* More requests are still enough.
LEMMA CountedStays ==
    ASSUME StoreOK, Counted, Numbering' = Numbering, Inserting' = Inserting,
           UNCHANGED <<file, seq, stored>>,
           requests' \in Nat, requests <= requests'
    PROVE  Counted'
<1>1. /\ Cardinality(Numbering) \in Nat /\ Cardinality(Inserting) \in Nat
      /\ Cardinality(stored) \in Nat /\ seq \in Nat /\ requests \in Nat
  BY CreatorsFinite, StoredFinite, ThreadsAssumption DEF StoreOK
<1>2. \A n \in Nat : n <= requests => n <= requests'
  BY <1>1
<1>3. Cardinality(stored) + Cardinality(Inserting) <= requests'
  BY <1>1, <1>2 DEF Counted
<1>4. seq + Cardinality(Numbering) <= requests'
  BY <1>1, <1>2 DEF Counted
<1>5. file = Torn \/ \A id \in DOMAIN file : id + Cardinality(Numbering) <= requests'
  <2> SUFFICES ASSUME file # Torn, NEW id \in DOMAIN file
               PROVE  id + Cardinality(Numbering) <= requests'
    OBVIOUS
  <2>1. id \in Nat
    BY ThreadsAssumption DEF StoreOK, IncidentMap
  <2> QED
    BY <1>1, <1>2, <2>1 DEF Counted
<1> QED
  BY <1>3, <1>4, <1>5 DEF Counted

-----------------------------------------------------------------------------
(* A thread changes the incident it works on.                              *)

\* One incident of the store is changed, and stays the same incident.
LEMMA ChangedStore ==
    ASSUME StoreOK, NEW id \in DOMAIN memory, NEW r \in IncidentRecords,
           r.number = memory[id].number,
           memory' = [memory EXCEPT ![id] = r],
           UNCHANGED <<file, open, seq, lock, crashes, refusals, performed, unrecorded,
                       stored, saved, lost>>,
           requests' \in 0 .. MaxRequests,
           cold \subseteq cold', cold' \subseteq stored, RecordOK(r)'
    PROVE  /\ StoreOK'
           /\ DOMAIN memory' = DOMAIN memory
           /\ memory'[id] = r
           /\ \A a \in DOMAIN memory : a # id => memory'[a] = memory[a]
           /\ \A a \in DOMAIN memory : memory'[a].number = memory[a].number
<1>1. memory \in [DOMAIN memory -> IncidentRecords] /\ DOMAIN memory \subseteq 1 .. MaxRequests
  BY DEF StoreOK, IncidentMap
<1>2. /\ DOMAIN memory' = DOMAIN memory
      /\ memory' \in [DOMAIN memory -> IncidentRecords]
      /\ memory'[id] = r
      /\ \A a \in DOMAIN memory : a # id => memory'[a] = memory[a]
  BY <1>1
<1>3. \A a \in DOMAIN memory : memory'[a].number = memory[a].number
  BY <1>2
<1>4. IncidentMap(memory)'
  BY <1>1, <1>2 DEF IncidentMap
<1>5. Distinct(memory)'
  BY <1>2, <1>3 DEF StoreOK, ContentOK, Distinct
<1>6. ASSUME NEW a \in DOMAIN memory PROVE RecordOK(memory[a])'
  <2>1. CASE a = id
    BY <1>2, <2>1
  <2>2. CASE a # id
    <3>1. RecordOK(memory[a])
      BY DEF StoreOK, ContentOK
    <3>2. memory'[a] = memory[a]
      BY <1>2, <2>2
    <3> QED
      BY <3>1, <3>2 DEF RecordOK
  <2> QED
    BY <2>1, <2>2
<1>7. ContentOK(memory)'
  BY <1>2, <1>5, <1>6 DEF ContentOK
<1>8. file = Torn \/ ContentOK(file)'
  BY DEF StoreOK, ContentOK, RecordOK, Distinct
<1>9. (file = Torn \/ IncidentMap(file))'
  BY DEF StoreOK, IncidentMap
<1>10. \A a \in DOMAIN memory' : a <= seq'
  BY <1>2 DEF StoreOK
<1> HIDE DEF IncidentMap, ContentOK
<1>11. StoreOK'
  BY <1>4, <1>7, <1>8, <1>9, <1>10 DEF StoreOK
<1> QED
  BY <1>2, <1>3, <1>11

\* Changing an incident forgets none.
LEMMA ChangedSurvives ==
    ASSUME Survives, open, UNCHANGED <<file, open, saved, lost>>,
           DOMAIN memory' = DOMAIN memory,
           \A a \in DOMAIN memory : memory'[a].number = memory[a].number
    PROVE  Survives'
<1>1. Loads(file)' = Loads(file) /\ Keeps(file)' = Keeps(file)
  BY DEF Loads, Keeps, Numbers
<1>2. Keeps(memory)'
  BY DEF Survives, Keeps, Numbers
<1> QED
  BY <1>1, <1>2 DEF Survives

\* What is known of a thread at work, its incident and the other threads.
LEMMA AtWork ==
    ASSUME ServerInv, NEW t \in Threads, Working(t)
    PROVE  /\ open /\ thread[t].id \in DOMAIN memory
           /\ Of(t) \in IncidentRecords /\ RecordOK(Of(t)) /\ Progress(t)
           /\ Counts(Of(t).number) /\ Of(t).number \in stored
           /\ thread[t] \in ThreadStates
           /\ \A u \in Threads :
                 u # t /\ thread[u].at \notin {"idle", "number"} => thread[u].id # thread[t].id
<1>1. /\ StoreOK /\ thread \in [Threads -> ThreadStates] /\ ThreadOK(t) /\ Exclusive
  BY Parts
<1>2. open /\ thread[t].id \in DOMAIN memory /\ Progress(t)
  BY <1>1 DEF ThreadOK, Creating, Working
<1>3. Of(t) \in IncidentRecords /\ RecordOK(Of(t))
  BY <1>1, <1>2 DEF StoreOK, IncidentMap, ContentOK, Of
<1>4. Of(t).number \in stored /\ Counts(Of(t).number)
  BY <1>1, <1>3 DEF StoreOK, RecordOK, Counts
<1>5. \A u \in Threads :
         u # t /\ thread[u].at \notin {"idle", "number"} => thread[u].id # thread[t].id
  BY <1>1 DEF Exclusive, Working
<1> QED
  BY <1>1, <1>2, <1>3, <1>4, <1>5

\* A thread t goes to work, or on with its work, on the incident `id`: it makes
\* the incident r, and its own state s.
LEMMA WorkKeeps ==
    ASSUME ServerInv, NEW t \in Threads, NEW id \in DOMAIN memory,
           NEW r \in IncidentRecords, NEW s \in ThreadStates,
           open, thread[t].at \notin {"number", "insert", "saving"},
           \A u \in Threads : u # t /\ thread[u].at \notin {"idle", "number"} => thread[u].id # id,
           s.id = id, s.at \notin {"idle", "number", "insert", "saving"},
           r.number = memory[id].number,
           memory' = [memory EXCEPT ![id] = r],
           thread' = [thread EXCEPT ![t] = s],
           UNCHANGED <<file, open, seq, lock, crashes, refusals, performed, unrecorded,
                       stored, saved, lost>>,
           requests \in Nat, requests' \in Nat, requests <= requests', requests' <= MaxRequests,
           cold \subseteq cold', cold' \subseteq stored,
           RegistryOK', registry = "filled" => registry' = "filled",
           RecordOK(r)', Progress(t)'
    PROVE  ServerInv'
<1>1. /\ StoreOK /\ thread \in [Threads -> ThreadStates] /\ \A u \in Threads : ThreadOK(u)
      /\ Exclusive /\ Counted /\ Survives
  BY Parts
<1>2. requests' \in 0 .. MaxRequests
  BY ThreadsAssumption
<1>3. /\ StoreOK' /\ DOMAIN memory' = DOMAIN memory /\ memory'[id] = r
      /\ \A a \in DOMAIN memory : a # id => memory'[a] = memory[a]
      /\ \A a \in DOMAIN memory : memory'[a].number = memory[a].number
  BY <1>1, <1>2, ChangedStore
<1>4. Survives'
  BY <1>1, <1>3, ChangedSurvives
<1>5. /\ thread' \in [Threads -> ThreadStates] /\ thread'[t] = s
      /\ \A u \in Threads : u # t => thread'[u] = thread[u]
  BY <1>1
<1>6. ASSUME NEW u \in Threads PROVE ThreadOK(u)'
  <2>1. CASE u = t
    <3>1. thread[t].at # "saving" /\ lock # t
      BY <1>1 DEF ThreadOK
    <3>2. Creating(t)'
      BY <1>5 DEF Creating
    <3> QED
      BY <1>3, <1>5, <2>1, <3>1, <3>2 DEF ThreadOK
  <2>2. CASE u # t
    <3>1. thread'[u] = thread[u] /\ ThreadOK(u)
      BY <1>1, <1>5, <2>2
    <3>2. Creating(u)'
      BY <1>3, <3>1 DEF ThreadOK, Creating
    <3>3. ASSUME Working(u) PROVE thread[u].id \in DOMAIN memory' /\ Progress(u)'
      <4>1. thread[u].id \in DOMAIN memory /\ Progress(u)
        BY <3>1, <3>3 DEF ThreadOK
      <4>2. thread[u].id # id
        BY <2>2, <3>3 DEF Working
      <4>3. Of(u)' = Of(u)
        BY <1>3, <3>1, <4>1, <4>2 DEF Of
      <4>4. thread[u].at \in {"lookup", "register", "tool"} => Marked(Of(u).number)'
        <5>1. Marked(Of(u).number)' <=> Marked(Of(u).number)
          BY <4>3 DEF Marked, BegunOnDisk
        <5> QED
          BY <4>1, <5>1 DEF Progress
      <4>5. Counts(Of(u).number) /\ Counts(Of(u).number)'
        BY <3>3, <4>3, AtWork DEF Counts
      <4> HIDE DEF Of
      <4> QED
        BY <1>3, <3>1, <4>1, <4>3, <4>4, <4>5, ProgressStays DEF Counts
    <3>4. Working(u)' <=> Working(u)
      BY <3>1 DEF Working
    <3> QED
      BY <3>1, <3>2, <3>3, <3>4 DEF ThreadOK
  <2> QED
    BY <2>1, <2>2
<1>7. Exclusive'
  BY <1>1, <1>5 DEF Exclusive
<1>8. Counted'
  <2>1. Numbering' = Numbering /\ Inserting' = Inserting
    BY <1>1, CreatorsStay
  <2> QED
    BY <1>1, <2>1, CountedStays
<1> QED
  BY <1>3, <1>4, <1>5, <1>6, <1>7, <1>8, PartsAfter

\* A step that moves no thread into or out of the building of the registry, and
\* does not touch the registry.
LEMMA RegistryStays ==
    ASSUME RegistryOK, thread \in [Threads -> ThreadStates], NEW t \in Threads,
           NEW s \in ThreadStates, thread' = [thread EXCEPT ![t] = s],
           thread[t].at # "register", s.at # "register", UNCHANGED <<registry, registrar>>
    PROVE  RegistryOK'
<1>1. thread'[t] = s /\ \A u \in Threads : u # t => thread'[u] = thread[u]
  OBVIOUS
<1>2. \A u \in Threads : thread'[u].at = "register" <=> registrar' = u
  BY <1>1 DEF RegistryOK
<1> QED
  BY <1>2 DEF RegistryOK

\* A node that makes the incident r and saves it, if r is right.
LEMMA SavesKeep ==
    ASSUME ServerInv, NEW t \in Threads, NEW at, NEW r \in IncidentRecords, NEW next \in Places,
           at \notin {"idle", "number", "insert", "saving", "register"},
           NodeSaves(t, at, r, next), r.number = Of(t).number,
           UNCHANGED <<performed, unrecorded, stored, saved,
                       lost>>, cold \subseteq cold', cold' \subseteq stored,
           RecordOK(r)',
           Of(t)' = r /\ thread'[t].at = "save" /\ thread'[t].next = next => Progress(t)'
    PROVE  ServerInv'
<1> DEFINE s == [thread[t] EXCEPT !.at = "save", !.next = next]
<1>1. Working(t) /\ thread[t].at = at
  BY DEF NodeSaves, Working
<1>2. /\ StoreOK /\ RegistryOK /\ thread \in [Threads -> ThreadStates]
  BY Parts
<1>3. /\ s \in ThreadStates /\ s.id = thread[t].id /\ s.at = "save" /\ s.next = next
  BY <1>2, PlaceLiterals DEF ThreadStates
<1>4. thread' = [thread EXCEPT ![t] = s] /\ thread'[t] = s
  BY <1>2 DEF NodeSaves
<1> HIDE DEF s
<1>5. /\ memory' = [memory EXCEPT ![thread[t].id] = r]
      /\ UNCHANGED <<file, open, seq, lock, registry, registrar, requests, crashes, refusals>>
  BY DEF NodeSaves
<1>6. thread[t].id \in DOMAIN memory /\ memory \in [DOMAIN memory -> IncidentRecords]
  BY <1>1, <1>2, AtWork DEF StoreOK, IncidentMap
<1>7. Of(t)' = r
  BY <1>3, <1>4, <1>5, <1>6 DEF Of
<1>8. Progress(t)'
  BY <1>3, <1>4, <1>7
<1>9. RegistryOK'
  BY <1>1, <1>2, <1>3, <1>4, <1>5, RegistryStays
<1>10. requests \in Nat /\ requests <= requests /\ requests <= MaxRequests
  BY <1>2, ThreadsAssumption DEF StoreOK
<1>11. r.number = memory[thread[t].id].number
  BY DEF Of
<1> QED
  BY <1>1, <1>3, <1>4, <1>5, <1>6, <1>8, <1>9, <1>10, <1>11, AtWork, WorkKeeps

\* A thread that moves on with its incident, which stays as it is.
LEMMA MovesKeep ==
    ASSUME ServerInv, NEW t \in Threads, NEW to \in Places, Working(t),
           thread[t].at # "saving", to \notin {"idle", "number", "insert", "saving"},
           thread' = [thread EXCEPT ![t].at = to],
           UNCHANGED <<file, open, memory, seq, lock, requests, crashes, refusals, history>>,
           RegistryOK', registry = "filled" => registry' = "filled",
           Of(t)' = Of(t) /\ thread'[t].at = to /\ thread'[t].next = thread[t].next => Progress(t)'
    PROVE  ServerInv'
<1> DEFINE s == [thread[t] EXCEPT !.at = to]
<1>1. /\ StoreOK /\ thread \in [Threads -> ThreadStates]
  BY Parts
<1>2. /\ s \in ThreadStates /\ s.id = thread[t].id /\ s.at = to /\ s.next = thread[t].next
  BY <1>1 DEF ThreadStates
<1>3. thread' = [thread EXCEPT ![t] = s] /\ thread'[t] = s
  BY <1>1
<1> HIDE DEF s
<1>4. /\ thread[t].id \in DOMAIN memory /\ memory \in [DOMAIN memory -> IncidentRecords]
  BY <1>1, AtWork DEF StoreOK, IncidentMap
<1>5. PICK r \in IncidentRecords : r = Of(t)
  BY AtWork
<1>6. memory' = [memory EXCEPT ![thread[t].id] = r] /\ r.number = memory[thread[t].id].number
  BY <1>4, <1>5 DEF Of
<1>7. Of(t)' = Of(t)
  BY <1>2, <1>3 DEF Of
<1>8. Progress(t)'
  BY <1>2, <1>3, <1>7
<1>9. RecordOK(r)'
  <2>1. RecordOK(r)
    BY <1>5, AtWork
  <2> QED
    BY <2>1 DEF RecordOK, history
<1>10. requests \in Nat /\ requests <= requests /\ requests <= MaxRequests /\ cold \subseteq stored
  BY <1>1, ThreadsAssumption DEF StoreOK
<1>11. UNCHANGED <<performed, unrecorded, stored, saved, lost, cold>>
  BY DEF history
<1>12. thread[t].at \notin {"number", "insert", "saving"}
  BY DEF Working
<1>13. /\ open
       /\ \A u \in Threads :
             u # t /\ thread[u].at \notin {"idle", "number"} => thread[u].id # thread[t].id
  BY AtWork
<1>14. /\ UNCHANGED <<file, open, seq, lock, crashes, refusals, performed, unrecorded, stored,
                      saved, lost>>
       /\ requests' = requests /\ cold \subseteq cold' /\ cold' \subseteq stored
  BY <1>10, <1>11
<1>15. requests' \in Nat /\ requests <= requests' /\ requests' <= MaxRequests
  BY <1>10, <1>14
<1> QED
  BY <1>2, <1>3, <1>4, <1>6, <1>8, <1>9, <1>10, <1>12, <1>13, <1>14, <1>15, WorkKeeps

-----------------------------------------------------------------------------
(* The workflow up to its dispatch, and the decision of a human.           *)

\* The nodes up to the plan leave the decision open.
LEMMA ClassifyKeeps ==
    ASSUME ServerInv, NEW t \in Threads, Classify(t)
    PROVE  ServerInv'
<1>1. thread[t].at = "classify" /\ Working(t)
  BY DEF Classify, NodeSaves, Working
<1>2. /\ Of(t) \in IncidentRecords /\ RecordOK(Of(t)) /\ Progress(t) /\ cold \subseteq stored
      /\ Counts(Of(t).number) /\ Of(t).number \in stored
  BY <1>1, AtWork, Parts DEF StoreOK
<1> HIDE DEF Of
<1>3. PICK r \in IncidentRecords :
         r = [Of(t) EXCEPT !.status = "INVESTIGATING"]
  BY <1>2, RecordLiterals DEF IncidentRecords
<1>4. /\ r.number = Of(t).number /\ r.kind = Of(t).kind /\ r.policy = Of(t).policy
      /\ r.approval = Of(t).approval /\ r.execution = Of(t).execution /\ r.output = Of(t).output
      /\ r.status = "INVESTIGATING"
  BY <1>2, <1>3 DEF IncidentRecords
<1>5. NodeSaves(t, "classify", r, "policy") /\ UNCHANGED history
  BY <1>3 DEF Classify
<1>6. UNCHANGED <<file, registry, registrar, performed, unrecorded, stored, saved, lost, cold>>
  BY <1>5 DEF NodeSaves, history
<1>7. RecordOK(r)'
  BY <1>1, <1>2, <1>4, <1>6 DEF RecordOK, Counts, Progress, Upcoming, Begun
<1>8. ASSUME Of(t)' = r, thread'[t].at = "save", thread'[t].next = "policy"
      PROVE  Progress(t)'
  BY <1>1, <1>2, <1>4, <1>6, <1>8 DEF Progress, Upcoming, RecordOK
<1> QED
  BY <1>4, <1>5, <1>6, <1>7, <1>8, <1>2, PlaceLiterals, SavesKeep

\* What a human must approve is pending when the workflow ends.
LEMMA DispatchApprovalKeeps ==
    ASSUME ServerInv, NEW t \in Threads, DispatchApproval(t)
    PROVE  ServerInv'
<1>1. thread[t].at = "dispatch" /\ Working(t)
  BY DEF DispatchApproval, NodeSaves, Working
<1>2. /\ Of(t) \in IncidentRecords /\ RecordOK(Of(t)) /\ Progress(t) /\ cold \subseteq stored
      /\ Counts(Of(t).number) /\ Of(t).number \in stored
  BY <1>1, AtWork, Parts DEF StoreOK
<1> HIDE DEF Of
<1>0. Of(t).policy = "APPROVAL_REQUIRED"
  BY DEF DispatchApproval
<1>3. PICK r \in IncidentRecords :
         r = [Of(t) EXCEPT !.approval = "PENDING", !.status = "AWAITING_APPROVAL"]
  BY <1>2, RecordLiterals DEF IncidentRecords
<1>4. /\ r.number = Of(t).number /\ r.kind = Of(t).kind /\ r.policy = Of(t).policy
      /\ r.execution = Of(t).execution /\ r.output = Of(t).output
      /\ r.approval = "PENDING" /\ r.status = "AWAITING_APPROVAL"
  BY <1>2, <1>3 DEF IncidentRecords
<1>5. NodeSaves(t, "dispatch", r, "idle") /\ UNCHANGED history
  BY <1>0, <1>3 DEF DispatchApproval, Proposed
<1>6. UNCHANGED <<file, registry, registrar, performed, unrecorded, stored, saved, lost, cold>>
  BY <1>5 DEF NodeSaves, history
<1>7. RecordOK(r)'
  BY <1>0, <1>1, <1>2, <1>4, <1>6 DEF RecordOK, Counts, Progress, Upcoming, Begun
<1>8. ASSUME Of(t)' = r, thread'[t].at = "save", thread'[t].next = "idle"
      PROVE  Progress(t)'
  BY <1>1, <1>2, <1>4, <1>6, <1>8 DEF Progress, Upcoming, RecordOK
<1> QED
  BY <1>4, <1>5, <1>6, <1>7, <1>8, <1>2, PlaceLiterals, SavesKeep

\* A tool that fails leaves the incident in execution.
LEMMA ToolFailsKeeps ==
    ASSUME ServerInv, NEW t \in Threads, ToolFails(t)
    PROVE  ServerInv'
<1>0. PICK at \in {"tool", "audit"} :
         NodeSaves(t, at, [Of(t) EXCEPT !.execution = "FAILED"], "idle")
  BY DEF ToolFails
<1>1. thread[t].at = at /\ Working(t)
  BY <1>0 DEF NodeSaves, Working
<1>2. /\ Of(t) \in IncidentRecords /\ RecordOK(Of(t)) /\ Progress(t) /\ cold \subseteq stored
      /\ Counts(Of(t).number) /\ Of(t).number \in stored
  BY <1>1, AtWork, Parts DEF StoreOK
<1> HIDE DEF Of
<1>3. PICK r \in IncidentRecords :
         r = [Of(t) EXCEPT !.execution = "FAILED"]
  BY <1>2, RecordLiterals DEF IncidentRecords
<1>4. /\ r.number = Of(t).number /\ r.kind = Of(t).kind /\ r.status = Of(t).status
      /\ r.policy = Of(t).policy /\ r.approval = Of(t).approval /\ r.output = Of(t).output
      /\ r.execution = "FAILED"
  BY <1>2, <1>3 DEF IncidentRecords
<1>5. NodeSaves(t, at, r, "idle") /\ UNCHANGED history
  BY <1>0, <1>3 DEF ToolFails
<1>6. UNCHANGED <<file, registry, registrar, performed, unrecorded, stored, saved, lost, cold>>
  BY <1>5 DEF NodeSaves, history
<1>7. RecordOK(r)'
  BY <1>1, <1>2, <1>4, <1>6 DEF RecordOK, Counts, Progress, Upcoming, Begun
<1>8. ASSUME Of(t)' = r, thread'[t].at = "save", thread'[t].next = "idle"
      PROVE  Progress(t)'
  BY <1>1, <1>2, <1>4, <1>6, <1>8 DEF Progress, Upcoming, RecordOK
<1> QED
  BY <1>4, <1>5, <1>6, <1>7, <1>8, <1>2, PlaceLiterals, SavesKeep

\* The record of a success comes after the call.
LEMMA AuditKeeps ==
    ASSUME ServerInv, NEW t \in Threads, Audit(t)
    PROVE  ServerInv'
<1>1. thread[t].at = "audit" /\ Working(t)
  BY DEF Audit, NodeSaves, Working
<1>2. /\ Of(t) \in IncidentRecords /\ RecordOK(Of(t)) /\ Progress(t) /\ cold \subseteq stored
      /\ Counts(Of(t).number) /\ Of(t).number \in stored
  BY <1>1, AtWork, Parts DEF StoreOK
<1> HIDE DEF Of
<1>3. PICK r \in IncidentRecords :
         r = [Of(t) EXCEPT !.execution = "SUCCESS",
                            !.output = IF Reads(Of(t).kind) THEN "list" ELSE "dict"]
  BY <1>2, RecordLiterals DEF IncidentRecords
<1>4. /\ r.number = Of(t).number /\ r.kind = Of(t).kind /\ r.status = Of(t).status
      /\ r.policy = Of(t).policy /\ r.approval = Of(t).approval
      /\ r.execution = "SUCCESS" /\ r.output = (IF Reads(Of(t).kind) THEN "list" ELSE "dict")
  BY <1>2, <1>3 DEF IncidentRecords
<1>5. NodeSaves(t, "audit", r, "verify") /\ UNCHANGED history
  BY <1>3 DEF Audit
<1>6. UNCHANGED <<file, registry, registrar, performed, unrecorded, stored, saved, lost, cold>>
  BY <1>5 DEF NodeSaves, history
<1>7. RecordOK(r)'
  BY <1>1, <1>2, <1>4, <1>6 DEF RecordOK, Counts, Progress, Upcoming, Begun
<1>8. ASSUME Of(t)' = r, thread'[t].at = "save", thread'[t].next = "verify"
      PROVE  Progress(t)'
  BY <1>1, <1>2, <1>4, <1>6, <1>8 DEF Progress, Upcoming, RecordOK
<1> QED
  BY <1>4, <1>5, <1>6, <1>7, <1>8, <1>2, PlaceLiterals, SavesKeep

\* A proposal is pending, or the action is automatic and needs none.
LEMMA ProposeKeeps ==
    ASSUME ServerInv, NEW t \in Threads, Propose(t)
    PROVE  ServerInv'
<1>1. thread[t].at = "propose" /\ Working(t)
  BY DEF Propose, NodeSaves, Working
<1>2. /\ Of(t) \in IncidentRecords /\ RecordOK(Of(t)) /\ Progress(t) /\ cold \subseteq stored
      /\ Counts(Of(t).number) /\ Of(t).number \in stored
  BY <1>1, AtWork, Parts DEF StoreOK
<1> HIDE DEF Of
<1>3. CASE Of(t).policy = "AUTO"
  <2>1. PICK r \in IncidentRecords : r = Of(t)
    BY <1>2
  <2>2. NodeSaves(t, "propose", r, "dispatch") /\ UNCHANGED history
    BY <1>3, <2>1 DEF Propose, Proposed
  <2>3. UNCHANGED <<file, registry, registrar, performed, unrecorded, stored, saved, lost,
                    cold>>
    BY <2>2 DEF NodeSaves, history
  <2>4. RecordOK(r)'
    BY <1>2, <2>1, <2>3 DEF RecordOK
  <2>5. ASSUME Of(t)' = r, thread'[t].at = "save", thread'[t].next = "dispatch"
        PROVE  Progress(t)'
    BY <1>1, <1>2, <2>1, <2>3, <2>5 DEF Progress, Upcoming
  <2> QED
    BY <1>2, <2>1, <2>2, <2>3, <2>4, <2>5, PlaceLiterals, SavesKeep
<1>4. CASE Of(t).policy # "AUTO"
  <2>1. PICK r \in IncidentRecords :
           r = [Of(t) EXCEPT !.approval = "PENDING", !.status = "AWAITING_APPROVAL"]
    BY <1>2, RecordLiterals DEF IncidentRecords
  <2>2. /\ r.number = Of(t).number /\ r.policy = Of(t).policy /\ r.output = Of(t).output
        /\ r.approval = "PENDING" /\ r.status = "AWAITING_APPROVAL"
    BY <1>2, <2>1 DEF IncidentRecords
  <2>3. NodeSaves(t, "propose", r, "dispatch") /\ UNCHANGED history
    BY <1>4, <2>1 DEF Propose, Proposed
  <2>4. UNCHANGED <<file, registry, registrar, performed, unrecorded, stored, saved, lost,
                    cold>>
    BY <2>3 DEF NodeSaves, history
  <2>5. Of(t).policy = "APPROVAL_REQUIRED"
    BY <1>1, <1>2, <1>4 DEF Progress, Upcoming
  <2>6. RecordOK(r)'
    BY <1>1, <1>2, <2>2, <2>4, <2>5 DEF RecordOK, Counts, Progress, Upcoming
  <2>7. ASSUME Of(t)' = r, thread'[t].at = "save", thread'[t].next = "dispatch"
        PROVE  Progress(t)'
    BY <1>1, <1>2, <2>2, <2>4, <2>7 DEF Progress, Upcoming
  <2> QED
    BY <1>2, <2>2, <2>3, <2>4, <2>6, <2>7, PlaceLiterals, SavesKeep
<1> QED
  BY <1>3, <1>4

\* The decision of a human becomes the status, and the next step follows it.
LEMMA RecordDecisionKeeps ==
    ASSUME ServerInv, NEW t \in Threads, RecordDecision(t)
    PROVE  ServerInv'
<1> DEFINE next == IF Of(t).approval = "APPROVED" THEN "execute" ELSE "idle"
<1>1. thread[t].at = "decided" /\ Working(t)
  BY DEF RecordDecision, NodeSaves, Working
<1>2. /\ Of(t) \in IncidentRecords /\ RecordOK(Of(t)) /\ Progress(t) /\ cold \subseteq stored
      /\ Counts(Of(t).number) /\ Of(t).number \in stored
  BY <1>1, AtWork, Parts DEF StoreOK
<1>3. Of(t).policy = "APPROVAL_REQUIRED" /\ Of(t).approval \in {"APPROVED", "REJECTED"}
  BY <1>1, <1>2 DEF Progress, Upcoming
<1> HIDE DEF Of
<1>4. PICK r \in IncidentRecords : r = [Of(t) EXCEPT !.status = Of(t).approval]
  BY <1>2, <1>3, RecordLiterals DEF IncidentRecords
<1>5. /\ r.number = Of(t).number /\ r.policy = Of(t).policy /\ r.approval = Of(t).approval
      /\ r.status = Of(t).approval /\ r.output = Of(t).output
  BY <1>2, <1>4 DEF IncidentRecords
<1>6. PICK to \in Places : to = next
  BY PlaceLiterals
<1>7. NodeSaves(t, "decided", r, to) /\ UNCHANGED history
  BY <1>4, <1>6 DEF RecordDecision
<1>8. UNCHANGED <<file, registry, registrar, performed, unrecorded, stored, saved, lost, cold>>
  BY <1>7 DEF NodeSaves, history
<1>9. RecordOK(r)'
  BY <1>1, <1>2, <1>3, <1>5, <1>8 DEF RecordOK, Counts, Progress, Upcoming
<1>10. ASSUME Of(t)' = r, thread'[t].at = "save", thread'[t].next = to
       PROVE  Progress(t)'
  BY <1>1, <1>2, <1>3, <1>5, <1>6, <1>8, <1>10 DEF Progress, Upcoming
<1> QED
  BY <1>2, <1>5, <1>7, <1>8, <1>9, <1>10, SavesKeep

\* The execution is recorded as begun, and as cold if there are no tools yet.
LEMMA BeginExecutionKeeps ==
    ASSUME ServerInv, NEW t \in Threads, BeginExecution(t)
    PROVE  ServerInv'
<1>1. thread[t].at = "execute" /\ Working(t)
  BY DEF BeginExecution, NodeSaves, Working
<1>2. /\ Of(t) \in IncidentRecords /\ RecordOK(Of(t)) /\ Progress(t) /\ cold \subseteq stored
      /\ Counts(Of(t).number) /\ Of(t).number \in stored
  BY <1>1, AtWork, Parts DEF StoreOK
<1> HIDE DEF Of
<1>3. PICK r \in IncidentRecords :
         r = [Of(t) EXCEPT !.status = "EXECUTING", !.execution = "EXECUTING"]
  BY <1>2, RecordLiterals DEF IncidentRecords
<1>4. /\ r.number = Of(t).number /\ r.policy = Of(t).policy /\ r.approval = Of(t).approval
      /\ r.status = "EXECUTING" /\ r.output = Of(t).output
  BY <1>2, <1>3 DEF IncidentRecords
<1>5. /\ NodeSaves(t, "execute", r, "lookup") /\ UNCHANGED <<performed, unrecorded, stored,
                                                             saved, lost>>
      /\ cold' = IF registry = "filled" THEN cold ELSE cold \union {Of(t).number}
  BY <1>3 DEF BeginExecution, Executing, Warmth
<1>6. /\ UNCHANGED <<file, registry, registrar>>
      /\ cold \subseteq cold' /\ cold' \subseteq stored
      /\ registry # "filled" => Of(t).number \in cold'
  BY <1>2, <1>5 DEF NodeSaves
<1>7. RecordOK(r)'
  BY <1>1, <1>2, <1>4, <1>5, <1>6 DEF RecordOK, Counts, Progress, Upcoming, Begun
<1>8. ASSUME Of(t)' = r, thread'[t].at = "save", thread'[t].next = "lookup"
      PROVE  Progress(t)'
  BY <1>1, <1>2, <1>4, <1>5, <1>6, <1>8 DEF Progress, Upcoming
<1> QED
  BY <1>4, <1>5, <1>6, <1>7, <1>8, PlaceLiterals, SavesKeep

\* Only an execution that began without tools records a success for nothing.
LEMMA RecordNoopKeeps ==
    ASSUME ServerInv, NEW t \in Threads, RecordNoop(t)
    PROVE  ServerInv'
<1>1. thread[t].at = "lookup" /\ Working(t) /\ registry # "filled"
  BY DEF RecordNoop, NodeSaves, Working, Knows
<1>2. /\ Of(t) \in IncidentRecords /\ RecordOK(Of(t)) /\ Progress(t) /\ cold \subseteq stored
      /\ Counts(Of(t).number) /\ Of(t).number \in stored
  BY <1>1, AtWork, Parts DEF StoreOK
<1> HIDE DEF Of
<1>3. PICK r \in IncidentRecords :
         r = [Of(t) EXCEPT !.execution = "SUCCESS", !.output = "no_operation",
                           !.status = "REMEDIATED"]
  BY <1>2, RecordLiterals DEF IncidentRecords
<1>4. /\ r.number = Of(t).number /\ r.policy = Of(t).policy /\ r.approval = Of(t).approval
      /\ r.status = "REMEDIATED" /\ r.output = "no_operation"
  BY <1>2, <1>3 DEF IncidentRecords
<1>5. NodeSaves(t, "lookup", r, "idle") /\ UNCHANGED history
  BY <1>3 DEF RecordNoop
<1>6. UNCHANGED <<file, registry, registrar, performed, unrecorded, stored, saved, lost, cold>>
  BY <1>5 DEF NodeSaves, history
<1>7. RecordOK(r)'
  BY <1>1, <1>2, <1>4, <1>6 DEF RecordOK, Counts, Progress, Upcoming, Begun
<1>8. ASSUME Of(t)' = r, thread'[t].at = "save", thread'[t].next = "idle"
      PROVE  Progress(t)'
  BY <1>8 DEF Progress, Upcoming
<1> QED
  BY <1>2, <1>4, <1>5, <1>6, <1>7, <1>8, PlaceLiterals, SavesKeep

\* A verification that passes follows an action that was performed.
LEMMA VerifyKeeps ==
    ASSUME ServerInv, NEW t \in Threads, Verify(t)
    PROVE  ServerInv'
<1>1. PICK status \in {"REMEDIATED", "VERIFICATION_FAILED"} :
         /\ Reads(Of(t).kind) => status = "VERIFICATION_FAILED"
         /\ NodeSaves(t, "verify", [Of(t) EXCEPT !.status = status], "idle")
  BY DEF Verify
<1>2. thread[t].at = "verify" /\ Working(t)
  BY DEF Verify, Working
<1>3. /\ Of(t) \in IncidentRecords /\ RecordOK(Of(t)) /\ Progress(t) /\ cold \subseteq stored
      /\ Counts(Of(t).number) /\ Of(t).number \in stored
  BY <1>2, AtWork, Parts DEF StoreOK
<1> HIDE DEF Of
<1>4. PICK r \in IncidentRecords : r = [Of(t) EXCEPT !.status = status]
  BY <1>3, RecordLiterals DEF IncidentRecords
<1>5. /\ r.number = Of(t).number /\ r.policy = Of(t).policy /\ r.approval = Of(t).approval
      /\ r.status = status /\ r.output = Of(t).output
  BY <1>3, <1>4 DEF IncidentRecords
<1>6. NodeSaves(t, "verify", r, "idle") /\ UNCHANGED history
  BY <1>1, <1>4 DEF Verify
<1>7. UNCHANGED <<file, registry, registrar, performed, unrecorded, stored, saved, lost, cold>>
  BY <1>6 DEF NodeSaves, history
<1>8. /\ Of(t).approval # "PENDING"
      /\ Reads(Of(t).kind) \/ performed[Of(t).number] > 0
  BY <1>2, <1>3 DEF Progress, Upcoming
<1>9. RecordOK(r)'
  BY <1>1, <1>2, <1>3, <1>5, <1>7, <1>8 DEF RecordOK, Counts, Progress, Upcoming, Begun
<1>10. ASSUME Of(t)' = r, thread'[t].at = "save", thread'[t].next = "idle"
       PROVE  Progress(t)'
  BY <1>10 DEF Progress, Upcoming
<1> QED
  BY <1>3, <1>5, <1>6, <1>7, <1>9, <1>10, PlaceLiterals, SavesKeep

\* The policy check decides, one way or the other.
LEMMA PolicyCheckKeeps ==
    ASSUME ServerInv, NEW t \in Threads, PolicyCheck(t)
    PROVE  ServerInv'
<1>1. thread[t].at = "policy" /\ Working(t)
  BY DEF PolicyCheck, NodeWrites, Working
<1>2. /\ Of(t) \in IncidentRecords /\ RecordOK(Of(t)) /\ Progress(t)
      /\ thread[t].id \in DOMAIN memory /\ open
      /\ \A u \in Threads :
            u # t /\ thread[u].at \notin {"idle", "number"} => thread[u].id # thread[t].id
      /\ Counts(Of(t).number) /\ Of(t).number \in stored
  BY <1>1, AtWork
<1>3. /\ StoreOK /\ RegistryOK /\ thread \in [Threads -> ThreadStates]
  BY Parts
<1>4. PICK r \in IncidentRecords : r = [Of(t) EXCEPT !.policy = Decision(Of(t).kind)]
  <2>1. Decision(Of(t).kind) \in {"AUTO", "APPROVAL_REQUIRED"}
    BY DEF Decision
  <2> HIDE DEF Of
  <2> QED
    BY <1>2, <2>1 DEF IncidentRecords
<1>5. /\ r.number = Of(t).number /\ r.status = Of(t).status /\ r.approval = Of(t).approval
      /\ r.policy \in {"AUTO", "APPROVAL_REQUIRED"} /\ r.output = Of(t).output
  <2> HIDE DEF Of
  <2> QED
    BY <1>2, <1>4 DEF IncidentRecords, Decision
<1> DEFINE s == [thread[t] EXCEPT !.at = "propose"]
<1>6. /\ s \in ThreadStates /\ s.id = thread[t].id /\ s.at = "propose"
  BY <1>3, PlaceLiterals DEF ThreadStates
<1>7. /\ thread' = [thread EXCEPT ![t] = s] /\ thread'[t] = s
      /\ memory' = [memory EXCEPT ![thread[t].id] = r]
      /\ UNCHANGED <<file, open, seq, lock, registry, registrar, requests, crashes, refusals,
                     performed, unrecorded, stored, saved, lost, cold>>
  BY <1>3, <1>4 DEF PolicyCheck, NodeWrites, history
<1> HIDE DEF s
<1>8. memory \in [DOMAIN memory -> IncidentRecords]
  BY <1>3 DEF StoreOK, IncidentMap
<1>9. Of(t)' = r
  BY <1>2, <1>6, <1>7, <1>8 DEF Of
<1>10. RecordOK(r)'
  <2> HIDE DEF Of
  <2> QED
    BY <1>1, <1>2, <1>5, <1>7 DEF RecordOK, Progress, Upcoming
<1>11. Progress(t)'
  <2> HIDE DEF Of
  <2> QED
    BY <1>1, <1>2, <1>5, <1>6, <1>7, <1>9 DEF Progress, Upcoming
<1>12. RegistryOK'
  BY <1>1, <1>3, <1>6, <1>7, RegistryStays
<1>13. /\ r.number = memory[thread[t].id].number
       /\ requests' \in Nat /\ requests \in Nat /\ requests <= requests'
       /\ requests' <= MaxRequests /\ cold' \subseteq stored /\ cold \subseteq cold'
  BY <1>3, <1>5, <1>7, ThreadsAssumption DEF StoreOK, Of
<1> QED
  BY <1>1, <1>2, <1>6, <1>7, <1>10, <1>11, <1>12, <1>13, WorkKeeps

\* An automatic action goes on without a save.
LEMMA DispatchAutoKeeps ==
    ASSUME ServerInv, NEW t \in Threads, DispatchAuto(t)
    PROVE  ServerInv'
<1>1. thread[t].at = "dispatch" /\ Working(t) /\ Of(t).policy = "AUTO"
  BY DEF DispatchAuto, Working
<1>2. /\ RecordOK(Of(t)) /\ Progress(t) /\ RegistryOK /\ thread \in [Threads -> ThreadStates]
      /\ thread[t] \in ThreadStates
  BY <1>1, AtWork, Parts
<1>3. /\ thread' = [thread EXCEPT ![t].at = "execute"]
      /\ UNCHANGED <<file, open, memory, seq, lock, registry, registrar, requests, crashes,
                     refusals, history>>
  BY DEF DispatchAuto
<1>4. RegistryOK'
  <2> DEFINE s == [thread[t] EXCEPT !.at = "execute"]
  <2>1. s \in ThreadStates /\ s.at = "execute"
    BY <1>2, PlaceLiterals DEF ThreadStates
  <2>2. thread' = [thread EXCEPT ![t] = s]
    BY <1>3
  <2> HIDE DEF s
  <2> QED
    BY <1>1, <1>2, <1>3, <2>1, <2>2, RegistryStays
<1> HIDE DEF Of
<1>5. ASSUME Of(t)' = Of(t), thread'[t].at = "execute", thread'[t].next = thread[t].next
      PROVE  Progress(t)'
  BY <1>1, <1>2, <1>3, <1>5 DEF Progress, Upcoming, RecordOK, history
<1> QED
  BY <1>1, <1>3, <1>4, <1>5, PlaceLiterals, MovesKeep

\* A thread that has found its tool calls it.
LEMMA UseToolKeeps ==
    ASSUME ServerInv, NEW t \in Threads, UseTool(t)
    PROVE  ServerInv'
<1>1. thread[t].at = "lookup" /\ Working(t)
  BY DEF UseTool, Working
<1>2. /\ RecordOK(Of(t)) /\ Progress(t) /\ RegistryOK /\ thread \in [Threads -> ThreadStates]
      /\ thread[t] \in ThreadStates
  BY <1>1, AtWork, Parts
<1>3. /\ thread' = [thread EXCEPT ![t].at = "tool"]
      /\ UNCHANGED <<file, open, memory, seq, lock, registry, registrar, requests, crashes,
                     refusals, history>>
  BY DEF UseTool
<1>4. RegistryOK'
  <2> DEFINE s == [thread[t] EXCEPT !.at = "tool"]
  <2>1. s \in ThreadStates /\ s.at = "tool"
    BY <1>2, PlaceLiterals DEF ThreadStates
  <2>2. thread' = [thread EXCEPT ![t] = s]
    BY <1>3
  <2> HIDE DEF s
  <2> QED
    BY <1>1, <1>2, <1>3, <2>1, <2>2, RegistryStays
<1> HIDE DEF Of
<1>5. ASSUME Of(t)' = Of(t), thread'[t].at = "tool", thread'[t].next = thread[t].next
      PROVE  Progress(t)'
  BY <1>1, <1>2, <1>3, <1>5 DEF Progress, Upcoming, Marked, BegunOnDisk, history
<1> QED
  BY <1>1, <1>3, <1>4, <1>5, PlaceLiterals, MovesKeep

-----------------------------------------------------------------------------
(* The registry.                                                           *)

\* The first thread that needs a tool goes to build the registry.
LEMMA CreateRegistryKeeps ==
    ASSUME ServerInv, NEW t \in Threads, CreateRegistry(t)
    PROVE  ServerInv'
<1>1. thread[t].at = "lookup" /\ Working(t) /\ registry = "absent"
  BY DEF CreateRegistry, Working
<1>2. /\ RecordOK(Of(t)) /\ Progress(t) /\ RegistryOK /\ thread \in [Threads -> ThreadStates]
      /\ thread[t] \in ThreadStates
  BY <1>1, AtWork, Parts
<1>3. /\ thread' = [thread EXCEPT ![t].at = "register"]
      /\ registry' = "created" /\ registrar' = t
      /\ UNCHANGED <<file, open, memory, seq, lock, requests, crashes, refusals, history>>
  BY DEF CreateRegistry
<1>4. RegistryOK'
  <2>1. thread'[t].at = "register" /\ \A u \in Threads : u # t => thread'[u] = thread[u]
    BY <1>2, <1>3 DEF ThreadStates
  <2>2. registrar = None /\ None \notin Threads
    BY <1>1, <1>2, ThreadsAssumption DEF RegistryOK
  <2>3. \A u \in Threads : thread'[u].at = "register" <=> registrar' = u
    BY <1>2, <1>3, <2>1, <2>2 DEF RegistryOK
  <2> QED
    BY <1>3, <2>2, <2>3 DEF RegistryOK
<1> HIDE DEF Of
<1>5. ASSUME Of(t)' = Of(t), thread'[t].at = "register", thread'[t].next = thread[t].next
      PROVE  Progress(t)'
  BY <1>1, <1>2, <1>3, <1>5 DEF Progress, Upcoming, Marked, BegunOnDisk, history
<1> QED
  BY <1>1, <1>3, <1>4, <1>5, PlaceLiterals, MovesKeep

\* The thread that has built the registry looks its tool up.
LEMMA RegisterActionToolsKeeps ==
    ASSUME ServerInv, NEW t \in Threads, RegisterActionTools(t)
    PROVE  ServerInv'
<1>1. registrar = t /\ registry = "reading" /\ RegistryOK /\ thread \in [Threads -> ThreadStates]
  BY Parts DEF RegisterActionTools
<1>2. thread[t].at = "register" /\ Working(t)
  BY <1>1 DEF RegistryOK, Working
<1>3. Progress(t) /\ thread[t] \in ThreadStates
  BY <1>2, AtWork
<1>4. /\ thread' = [thread EXCEPT ![t].at = "lookup"]
      /\ registry' = "filled" /\ registrar' = None
      /\ UNCHANGED <<file, open, memory, seq, lock, requests, crashes, refusals, history>>
  BY DEF RegisterActionTools
<1>5. RegistryOK'
  <2>1. thread'[t].at = "lookup" /\ \A u \in Threads : u # t => thread'[u] = thread[u]
    BY <1>1, <1>3, <1>4 DEF ThreadStates
  <2>2. \A u \in Threads : thread'[u].at = "register" <=> registrar' = u
    BY <1>1, <1>4, <2>1, ThreadsAssumption DEF RegistryOK
  <2> QED
    BY <1>4, <2>2 DEF RegistryOK
<1> HIDE DEF Of
<1>6. ASSUME Of(t)' = Of(t), thread'[t].at = "lookup", thread'[t].next = thread[t].next
      PROVE  Progress(t)'
  BY <1>2, <1>3, <1>4, <1>6 DEF Progress, Upcoming, Marked, BegunOnDisk, history
<1> QED
  BY <1>2, <1>4, <1>5, <1>6, PlaceLiterals, MovesKeep

\* The registry gets its read tools first.
LEMMA RegisterReadToolsKeeps ==
    ASSUME ServerInv, NEW t \in Threads, RegisterReadTools(t)
    PROVE  ServerInv'
<1>1. /\ StoreOK /\ RegistryOK /\ thread \in [Threads -> ThreadStates]
      /\ \A u \in Threads : ThreadOK(u)
      /\ Exclusive /\ Counted /\ Survives
  BY Parts
<1>2. /\ registry = "created" /\ registry' = "reading"
      /\ UNCHANGED <<file, open, memory, seq, lock, registrar, thread, requests, crashes,
                     refusals, performed, unrecorded, stored, saved, lost, cold>>
  BY DEF RegisterReadTools, history
<1>3. RegistryOK'
  BY <1>1, <1>2 DEF RegistryOK
<1>4. StoreOK'
  BY <1>1, <1>2 DEF StoreOK, ContentOK, RecordOK, Distinct, IncidentMap
<1>7. (thread \in [Threads -> ThreadStates])' /\ Exclusive' /\ Survives'
  BY <1>1, <1>2 DEF Exclusive, Survives, Keeps, Loads, Numbers
<1>5. Counted'
  BY <1>1, <1>2 DEF Counted, Numbering, Inserting
<1>6. ASSUME NEW u \in Threads PROVE ThreadOK(u)'
  BY <1>1, <1>2 DEF ThreadOK, Creating, Working, Progress, Upcoming, Of, Marked, BegunOnDisk
<1> QED
  BY <1>3, <1>4, <1>5, <1>6, <1>7, PartsAfter

-----------------------------------------------------------------------------
(* The saves.                                                              *)

\* While a save is under way the file tells nothing.
LEMMA BeginSaveKeeps ==
    ASSUME ServerInv, NEW t \in Threads, BeginSave(t)
    PROVE  ServerInv'
<1>1. /\ StoreOK /\ RegistryOK /\ thread \in [Threads -> ThreadStates]
      /\ \A u \in Threads : ThreadOK(u)
      /\ Exclusive /\ Counted /\ Survives
  BY Parts
<1>2. thread[t].at = "save" /\ Working(t) /\ lock = None
  BY DEF BeginSave, Working
<1>3. Progress(t) /\ open /\ thread[t].id \in DOMAIN memory
  BY <1>2, AtWork
<1> DEFINE s == [thread[t] EXCEPT !.at = "saving"]
<1>4. /\ s \in ThreadStates /\ s.at = "saving" /\ s.id = thread[t].id /\ s.next = thread[t].next
      /\ s.kind = thread[t].kind
  BY <1>1, PlaceLiterals DEF ThreadStates
<1>5. /\ thread' = [thread EXCEPT ![t] = s] /\ lock' = t /\ file' = Torn
      /\ UNCHANGED <<open, memory, seq, registry, registrar, requests, crashes, refusals,
                     performed, unrecorded, stored, saved, lost, cold>>
  BY DEF BeginSave, history
<1> HIDE DEF s
<1>6. thread'[t] = s /\ \A u \in Threads : u # t => thread'[u] = thread[u]
  BY <1>1, <1>5
<1>7. thread' \in [Threads -> ThreadStates]
  BY <1>1, <1>4, <1>5
<1>8. RegistryOK'
  BY <1>1, <1>2, <1>4, <1>5, RegistryStays
<1>9. Exclusive'
  BY <1>1, <1>2, <1>4, <1>6 DEF Exclusive
<1>10. Counted'
  <2>1. Numbering' = Numbering /\ Inserting' = Inserting
    BY <1>1, <1>2, <1>4, <1>5, CreatorsStay
  <2> QED
    BY <1>1, <1>5, <2>1 DEF Counted
<1>11. Survives'
  BY <1>1, <1>3, <1>5 DEF Survives, Loads, Keeps, Numbers
<1>12. StoreOK'
  <2>1. ContentOK(memory)'
    BY <1>1, <1>5 DEF StoreOK, ContentOK, RecordOK, Distinct
  <2> QED
    BY <1>1, <1>5, <2>1 DEF StoreOK, IncidentMap
<1>13. ASSUME NEW u \in Threads PROVE ThreadOK(u)'
  <2>1. CASE u = t
    <3>1. Of(t)' = Of(t) /\ Upcoming(t)' = Upcoming(t)
      BY <1>2, <1>4, <1>5, <1>6 DEF Of, Upcoming
    <3>2. Progress(t)'
      <4> HIDE DEF Of, Upcoming
      <4> QED
        BY <1>2, <1>3, <1>4, <1>5, <1>6, <3>1 DEF Progress
    <3> QED
      BY <1>3, <1>4, <1>5, <1>6, <2>1, <3>2 DEF ThreadOK, Creating
  <2>2. CASE u # t
    <3>1. thread'[u] = thread[u] /\ ThreadOK(u) /\ Of(u)' = Of(u)
      BY <1>1, <1>5, <1>6, <2>2 DEF Of
    <3>2. Working(u) => Progress(u)'
      <4> HIDE DEF Of
      <4> QED
        BY <1>5, <3>1, AtWork, ProgressStays DEF ThreadOK, Marked, BegunOnDisk, Counts
    <3>3. thread[u].at # "saving"
      BY <1>2, <3>1, ThreadsAssumption DEF ThreadOK
    <3> QED
      BY <1>5, <2>2, <3>1, <3>2, <3>3 DEF ThreadOK, Creating, Working
  <2> QED
    BY <2>1, <2>2
<1> QED
  BY <1>7, <1>8, <1>9, <1>10, <1>11, <1>12, <1>13, PartsAfter

\* A thread goes on when its save is over: the file may have changed, and more
\* begins may have gone unrecorded.
LEMMA SaveIsOver ==
    ASSUME ServerInv, NEW t \in Threads, thread[t].at \in {"save", "saving"},
           lock \in {None, t}, lock' = None, Resumed(t),
           UNCHANGED <<open, memory, seq, registry, registrar, requests, crashes,
                       performed, stored, lost, cold>>,
           file' \in {memory, file}, refusals' \in Nat,
           unrecorded' \in [1 .. MaxRequests -> Nat],
           \A n \in 1 .. MaxRequests :
               /\ unrecorded[n] <= unrecorded'[n]
               /\ unrecorded'[n] > unrecorded[n] => n \in stored,
           saved \subseteq saved', saved' \subseteq stored, Survives',
           \A u \in Threads :
               thread'[u].at \in {"lookup", "register", "tool"} => Marked(Of(u).number)'
    PROVE  ServerInv'
<1>1. /\ StoreOK /\ RegistryOK /\ thread \in [Threads -> ThreadStates]
      /\ \A u \in Threads : ThreadOK(u)
      /\ Exclusive /\ Counted
  BY Parts
<1>2. Working(t) /\ \A u \in Threads : u # t => thread[u].at # "saving"
  BY <1>1, ThreadsAssumption DEF Working, ThreadOK
<1>3. Progress(t) /\ open /\ thread[t].id \in DOMAIN memory
  BY <1>2, AtWork
<1>4. thread[t].next \in {"idle", "classify", "policy", "dispatch", "execute", "lookup", "verify"}
  BY <1>3 DEF Progress
<1> DEFINE s == IF thread[t].next = "idle" THEN Idle ELSE [thread[t] EXCEPT !.at = thread[t].next]
<1>5. /\ s \in ThreadStates /\ s.at = thread[t].next
      /\ s.at # "idle" => s.id = thread[t].id
  <2>1. CASE thread[t].next = "idle"
    BY <2>1, IdleType DEF Idle
  <2>2. CASE thread[t].next # "idle"
    BY <1>1, <2>2 DEF ThreadStates
  <2> QED
    BY <2>1, <2>2
<1>6. thread' = [thread EXCEPT ![t] = s]
  BY DEF Resumed
<1> HIDE DEF s
<1>7. thread'[t] = s /\ \A u \in Threads : u # t => thread'[u] = thread[u]
  BY <1>1, <1>6
<1>8. thread' \in [Threads -> ThreadStates]
  BY <1>1, <1>5, <1>6
<1>9. RegistryOK'
  BY <1>1, <1>4, <1>5, <1>6, RegistryStays
<1>10. Exclusive'
  BY <1>1, <1>2, <1>5, <1>7 DEF Exclusive, Working
<1>11. Counted'
  <2>1. Numbering' = Numbering /\ Inserting' = Inserting
    BY <1>1, <1>4, <1>5, <1>6, CreatorsStay
  <2>2. ASSUME NEW id \in DOMAIN memory PROVE id + Cardinality(Numbering) <= requests
    <3>1. /\ id \in Nat /\ seq \in Nat /\ requests \in Nat /\ id <= seq
          /\ Cardinality(Numbering) \in Nat
      BY <1>1, CreatorsFinite, ThreadsAssumption DEF StoreOK, IncidentMap
    <3>2. seq + Cardinality(Numbering) <= requests
      BY <1>1 DEF Counted
    <3> QED
      BY <3>1, <3>2
  <2> QED
    BY <1>1, <2>1, <2>2 DEF Counted
<1>12. ASSUME NEW n \in 1 .. MaxRequests PROVE Counts(n) /\ Counts(n)'
  BY <1>1 DEF StoreOK, Counts
<1>13. ASSUME NEW content, content = memory \/ (content = file /\ file # Torn)
       PROVE  ContentOK(content)' /\ IncidentMap(content)
  <2>1. ContentOK(content) /\ IncidentMap(content)
    BY <1>1, <1>13 DEF StoreOK
  <2>2. ASSUME NEW id \in DOMAIN content PROVE RecordOK(content[id])'
    <3>1. RecordOK(content[id]) /\ content[id].number \in 1 .. MaxRequests
      BY <1>1, <2>1 DEF StoreOK, ContentOK, RecordOK
    <3>2. PICK r : r = content[id]
      OBVIOUS
    <3>3. RecordOK(r) /\ Counts(r.number) /\ Counts(r.number)'
      BY <1>12, <3>1, <3>2
    <3> QED
      BY <3>1, <3>2, <3>3, RecordStays
  <2> QED
    BY <2>1, <2>2 DEF ContentOK, Distinct
<1>14. StoreOK'
  <2>1. ContentOK(memory)' /\ IncidentMap(memory)'
    <3>1. PICK content : content = memory
      OBVIOUS
    <3>2. ContentOK(content)' /\ IncidentMap(content)
      BY <1>13, <3>1
    <3> QED
      BY <3>1, <3>2 DEF ContentOK, IncidentMap, Distinct
  <2>3. file' # Torn => (ContentOK(file) /\ IncidentMap(file))'
    <3>1. PICK content : content = file'
      OBVIOUS
    <3>2. file' # Torn => ContentOK(content)' /\ IncidentMap(content)
      BY <1>13, <3>1
    <3> QED
      BY <3>1, <3>2 DEF ContentOK, IncidentMap, Distinct
  <2>4. \A n \in 1 .. MaxRequests :
           /\ performed[n] <= unrecorded'[n] + 1
           /\ performed[n] + unrecorded'[n] > 0 => n \in stored
    BY <1>1, <1>12 DEF StoreOK, Counts
  <2> HIDE DEF IncidentMap, ContentOK
  <2> QED
    BY <1>1, <2>1, <2>3, <2>4 DEF StoreOK
<1>15. ASSUME NEW u \in Threads PROVE ThreadOK(u)'
  <2>1. CASE u = t
    <3>1. Creating(t)'
      BY <1>3, <1>4, <1>5, <1>7 DEF Creating
    <3>2. CASE thread[t].next = "idle"
      BY <1>5, <1>7, <2>1, <3>1, <3>2, ThreadsAssumption DEF ThreadOK, Working
    <3>3. CASE thread[t].next # "idle"
      <4>1. Of(t)' = Of(t) /\ Upcoming(t)' = Upcoming(t) /\ Upcoming(t) = thread[t].next
        BY <1>4, <1>5, <1>7, <3>3 DEF Of, Upcoming
      <4>2. thread'[t].at \in {"lookup", "register", "tool"} => Marked(Of(t).number)'
        OBVIOUS
      <4>3. /\ Of(t).number \in 1 .. MaxRequests
            /\ Counts(Of(t).number) /\ Counts(Of(t).number)'
        <5>1. Of(t).number \in 1 .. MaxRequests
          BY <1>1, <1>2, AtWork DEF StoreOK
        <5> QED
          BY <1>12, <4>1, <5>1 DEF Counts
      <4>4. Progress(t)'
        <5> HIDE DEF Of, Upcoming
        <5> QED
          BY <1>3, <1>4, <1>5, <1>7, <4>1, <4>2, <4>3 DEF Progress, Counts
      <4> QED
        BY <1>3, <1>4, <1>5, <1>7, <2>1, <3>1, <3>3, <4>4, ThreadsAssumption DEF ThreadOK
    <3> QED
      BY <3>2, <3>3
  <2>2. CASE u # t
    <3>1. thread'[u] = thread[u] /\ ThreadOK(u) /\ Of(u)' = Of(u)
      BY <1>1, <1>7, <2>2 DEF Of
    <3>2. ASSUME Working(u) PROVE Progress(u)'
      <4>1. Of(u).number \in 1 .. MaxRequests
        BY <1>1, <3>2, AtWork DEF StoreOK
      <4>2. Counts(Of(u).number) /\ Counts(Of(u).number)'
        BY <1>12, <3>1, <4>1 DEF Counts
      <4>3. thread[u].at \in {"lookup", "register", "tool"} => Marked(Of(u).number)'
        BY <3>1
      <4>4. Progress(u)
        BY <3>1, <3>2 DEF ThreadOK
      <4> HIDE DEF Of
      <4> QED
        BY <3>1, <4>1, <4>2, <4>3, <4>4, ProgressStays
    <3>3. thread[u].at # "saving"
      BY <1>2, <2>2
    <3> QED
      BY <2>2, <3>1, <3>2, <3>3, ThreadsAssumption DEF ThreadOK, Creating, Working
  <2> QED
    BY <2>1, <2>2
<1> QED
  BY <1>8, <1>9, <1>10, <1>11, <1>14, <1>15, PartsAfter

\* A file that holds what the store holds tells of every execution that it has
\* begun, and a torn one tells of none that it has not.
LEMMA MarkedBySave ==
    ASSUME ServerInv, NEW u \in Threads, Working(u),
           Upcoming(u) \in {"lookup", "register", "tool"}
    PROVE  \A id \in DOMAIN memory :
              memory[id].number = Of(u).number =>
                memory[id].status \in Begun /\ memory[id].approval # "PENDING"
<1>1. Progress(u) /\ thread[u].id \in DOMAIN memory /\ StoreOK
  BY AtWork, Parts
<1>2. Of(u).status = "EXECUTING" /\ Of(u).approval # "PENDING"
  BY <1>1 DEF Progress
<1>3. \A id \in DOMAIN memory : memory[id].number = Of(u).number => memory[id] = Of(u)
  BY <1>1 DEF StoreOK, ContentOK, Distinct, Of
<1> QED
  BY <1>2, <1>3 DEF Begun

\* A save that began ends, and the file is complete or stays torn.
LEMMA SaveEnds ==
    ASSUME ServerInv, NEW t \in Threads, EndSave(t) \/ FailSave(t)
    PROVE  ServerInv'
<1>1. /\ StoreOK /\ thread \in [Threads -> ThreadStates] /\ Survives
      /\ \A u \in Threads : ThreadOK(u)
  BY Parts
<1>2. /\ thread[t].at = "saving" /\ Resumed(t) /\ lock' = None
      /\ UNCHANGED <<open, memory, seq, registry, registrar, requests, crashes,
                     performed, unrecorded, stored, lost, cold>>
      /\ \/ file' = memory /\ saved' = saved \union Numbers(memory) /\ refusals' = refusals
         \/ file' = file /\ saved' = saved /\ refusals' = refusals + 1
  BY DEF EndSave, FailSave, Refused, history
<1>3. lock = t /\ file = Torn /\ Working(t)
  BY <1>1, <1>2, ThreadsAssumption DEF ThreadOK, StoreOK, Working
<1>4. Progress(t) /\ open
  BY <1>3, AtWork
<1>5. refusals' \in Nat /\ unrecorded' \in [1 .. MaxRequests -> Nat]
  BY <1>1, <1>2 DEF StoreOK
<1>6. \A n \in 1 .. MaxRequests :
         /\ unrecorded[n] <= unrecorded'[n]
         /\ unrecorded'[n] > unrecorded[n] => n \in stored
  BY <1>1, <1>2 DEF StoreOK
<1>7. Numbers(memory) \subseteq stored /\ saved \subseteq stored
  BY <1>1 DEF StoreOK, ContentOK, RecordOK, Numbers
<1>8. saved \subseteq saved' /\ saved' \subseteq stored
  BY <1>2, <1>7
<1>9. Survives'
  <2>1. saved \ lost \subseteq Numbers(memory)
    BY <1>1, <1>4 DEF Survives, Keeps
  <2>2. Numbers(memory)' = Numbers(memory)
    BY <1>2 DEF Numbers
  <2>3. Keeps(memory)'
    BY <1>2, <2>1, <2>2 DEF Keeps
  <2>4. CASE file' = memory
    <3>1. Keeps(file)'
      BY <1>2, <2>3, <2>4 DEF Keeps, Numbers
    <3> QED
      BY <1>2, <1>4, <2>3, <3>1 DEF Survives
  <2>5. CASE file' = file
    <3>1. ~Loads(file)'
      BY <1>3, <2>5 DEF Loads
    <3> QED
      BY <1>2, <1>4, <2>3, <3>1 DEF Survives
  <2> QED
    BY <1>2, <2>4, <2>5
<1>10. ASSUME NEW u \in Threads, thread'[u].at \in {"lookup", "register", "tool"}
       PROVE  Marked(Of(u).number)'
  <2>1. Working(u) /\ Upcoming(u) \in {"lookup", "register", "tool"} /\ Of(u)' = Of(u)
    <3>1. CASE u # t
      <4>1. thread'[u] = thread[u]
        BY <1>1, <1>2, <3>1 DEF Resumed
      <4> QED
        BY <1>2, <1>10, <4>1 DEF Working, Upcoming, Of
    <3>2. CASE u = t
      <4>1. thread[t].next = thread'[t].at /\ thread'[t].id = thread[t].id
        BY <1>1, <1>2, <1>10, <3>2 DEF Resumed, Idle, ThreadStates
      <4> QED
        BY <1>2, <1>3, <1>10, <3>2, <4>1 DEF Upcoming, Of
    <3> QED
      BY <3>1, <3>2
  <2>2. BegunOnDisk(Of(u).number)'
    <3>1. \A id \in DOMAIN memory :
             memory[id].number = Of(u).number =>
               memory[id].status \in Begun /\ memory[id].approval # "PENDING"
      BY <2>1, MarkedBySave
    <3> HIDE DEF Of
    <3> QED
      BY <1>2, <1>3, <2>1, <3>1 DEF BegunOnDisk
  <2> QED
    BY <2>2 DEF Marked
<1> QED
  BY <1>2, <1>3, <1>5, <1>6, <1>8, <1>9, <1>10, SaveIsOver

\* A save whose file cannot be opened leaves the file, and what begins then is
\* known to be unrecorded.
LEMMA RefuseSaveKeeps ==
    ASSUME ServerInv, NEW t \in Threads, RefuseSave(t)
    PROVE  ServerInv'
<1>1. /\ StoreOK /\ thread \in [Threads -> ThreadStates] /\ Survives
      /\ \A u \in Threads : ThreadOK(u)
  BY Parts
<1>2. /\ thread[t].at = "save" /\ Resumed(t) /\ lock = None /\ refusals' = refusals + 1
      /\ UNCHANGED <<file, open, memory, seq, lock, registry, registrar, requests, crashes,
                     performed, stored, saved, lost, cold>>
  BY DEF RefuseSave, Refused
<1>3. PICK n : n = Of(t).number
  OBVIOUS
<1>4. Working(t)
  BY <1>2 DEF Working
<1>5. n \in stored /\ n \in 1 .. MaxRequests /\ Counts(n) /\ Progress(t) /\ open
  BY <1>1, <1>3, <1>4, AtWork DEF StoreOK
<1>6. unrecorded' = IF thread[t].next = "lookup" THEN [unrecorded EXCEPT ![n] = @ + 1]
                    ELSE unrecorded
  BY <1>3 DEF RefuseSave, BeginsExecution, Of
<1>7. /\ unrecorded' \in [1 .. MaxRequests -> Nat]
      /\ \A m \in 1 .. MaxRequests : m # n => unrecorded'[m] = unrecorded[m]
      /\ unrecorded'[n] = IF thread[t].next = "lookup" THEN unrecorded[n] + 1 ELSE unrecorded[n]
  <2>1. unrecorded \in [1 .. MaxRequests -> Nat] /\ unrecorded[n] + 1 \in Nat
    BY <1>1, <1>5 DEF StoreOK
  <2> QED
    BY <1>5, <1>6, <2>1
<1>8. \A m \in 1 .. MaxRequests :
         /\ unrecorded[m] <= unrecorded'[m]
         /\ unrecorded'[m] > unrecorded[m] => m \in stored
  BY <1>1, <1>5, <1>7 DEF StoreOK
<1>9. refusals' \in Nat /\ saved \subseteq saved' /\ saved' \subseteq stored
  BY <1>1, <1>2 DEF StoreOK
<1>10. Survives'
  BY <1>1, <1>2 DEF Survives, Loads, Keeps, Numbers
<1>11. ASSUME NEW u \in Threads, thread'[u].at \in {"lookup", "register", "tool"}
       PROVE  Marked(Of(u).number)'
  <2>1. CASE u # t
    <3>1. thread'[u] = thread[u] /\ Of(u)' = Of(u)
      BY <1>1, <1>2, <2>1 DEF Resumed, Of
    <3>2. Working(u)
      BY <1>11, <3>1 DEF Working
    <3>3. Marked(Of(u).number) /\ Counts(Of(u).number) /\ Of(u).number \in 1 .. MaxRequests
      BY <1>1, <1>11, <3>1, <3>2, AtWork DEF Progress, StoreOK
    <3> HIDE DEF Of
    <3>4. unrecorded[Of(u).number] <= unrecorded'[Of(u).number] /\ unrecorded'[Of(u).number] \in Nat
      BY <1>7, <1>8, <3>3
    <3> QED
      BY <1>2, <3>1, <3>3, <3>4 DEF Marked, BegunOnDisk, Counts
  <2>2. CASE u = t
    <3>1. thread[t].next = thread'[t].at /\ thread'[t].id = thread[t].id
      BY <1>1, <1>2, <1>11, <2>2 DEF Resumed, Idle, ThreadStates
    <3>2. Of(t)' = Of(t)
      BY <1>2, <3>1 DEF Of
    <3>3. thread[t].next = "lookup"
      BY <1>2, <1>5, <1>11, <2>2, <3>1 DEF Progress
    <3>4. performed[n] <= unrecorded[n]
      BY <1>2, <1>3, <1>5, <3>3 DEF Progress, Upcoming
    <3>5. performed[n] < unrecorded'[n]
      BY <1>5, <1>7, <3>3, <3>4 DEF Counts
    <3> HIDE DEF Of
    <3> QED
      BY <1>2, <1>3, <2>2, <3>2, <3>5 DEF Marked
  <2> QED
    BY <2>1, <2>2
<1> QED
  BY <1>2, <1>7, <1>8, <1>9, <1>10, <1>11, SaveIsOver

-----------------------------------------------------------------------------
(* The call of the tool.                                                   *)

\* An action is performed when every record of it, in memory or on disk, tells
\* that it may have been, or when a begin of it that went unrecorded allows it.
LEMMA PerformKeeps ==
    ASSUME ServerInv, NEW t \in Threads, Perform(t)
    PROVE  ServerInv'
<1>1. /\ StoreOK /\ RegistryOK /\ thread \in [Threads -> ThreadStates]
      /\ \A u \in Threads : ThreadOK(u)
      /\ Exclusive /\ Counted /\ Survives
  BY Parts
<1>2. thread[t].at = "tool" /\ Working(t)
  BY DEF Perform, Working
<1>3. /\ Progress(t) /\ open /\ thread[t].id \in DOMAIN memory
      /\ Of(t) \in IncidentRecords /\ Of(t).number \in stored
  BY <1>2, AtWork
<1>4. PICK n : n = Of(t).number
  OBVIOUS
<1>5. n \in 1 .. MaxRequests /\ n \in stored /\ performed[n] <= unrecorded[n] /\ Counts(n)
  <2> HIDE DEF Of
  <2> QED
    BY <1>1, <1>2, <1>3, <1>4 DEF Progress, Upcoming, StoreOK, Counts
<1>6. /\ Of(t).status = "EXECUTING" /\ Of(t).approval # "PENDING" /\ Marked(n)
  <2> HIDE DEF Of
  <2> QED
    BY <1>2, <1>3, <1>4 DEF Progress, Upcoming
<1> DEFINE s == [thread[t] EXCEPT !.at = "audit"]
<1>7. s \in ThreadStates /\ s.at = "audit" /\ s.id = thread[t].id
  BY <1>1, PlaceLiterals DEF ThreadStates
<1>8. /\ thread' = [thread EXCEPT ![t] = s]
      /\ performed' = [performed EXCEPT ![n] = @ + (IF Reads(Of(t).kind) THEN 0 ELSE 1)]
      /\ UNCHANGED <<file, open, memory, seq, lock, registry, registrar, requests, crashes,
                     refusals, unrecorded, stored, saved, lost, cold>>
  BY <1>4 DEF Perform
<1> HIDE DEF s
<1>9. /\ performed' \in [1 .. MaxRequests -> Nat]
      /\ performed'[n] \in {performed[n], performed[n] + 1}
      /\ ~Reads(Of(t).kind) => performed'[n] = performed[n] + 1
      /\ \A m \in 1 .. MaxRequests : m # n => performed'[m] = performed[m]
  <2>1. performed \in [1 .. MaxRequests -> Nat]
    BY <1>1 DEF StoreOK
  <2>2. PICK k \in {0, 1} : k = IF Reads(Of(t).kind) THEN 0 ELSE 1
    OBVIOUS
  <2>3. performed' = [performed EXCEPT ![n] = performed[n] + k]
    BY <1>5, <1>8, <2>1, <2>2
  <2>4. performed[n] + k \in Nat
    BY <1>5, <2>1, <2>2
  <2> QED
    BY <1>5, <2>1, <2>2, <2>3, <2>4
<1>10. thread'[t] = s /\ \A u \in Threads : u # t => thread'[u] = thread[u]
  BY <1>1, <1>8
<1>11. thread' \in [Threads -> ThreadStates]
  BY <1>1, <1>7, <1>8
<1>12. RegistryOK'
  BY <1>1, <1>2, <1>7, <1>8, RegistryStays
<1>13. Exclusive'
  BY <1>1, <1>2, <1>7, <1>10 DEF Exclusive
<1>14. Counted'
  <2>1. Numbering' = Numbering /\ Inserting' = Inserting
    BY <1>1, <1>2, <1>7, <1>8, CreatorsStay
  <2> QED
    BY <1>1, <1>8, <2>1 DEF Counted
<1>15. Survives'
  BY <1>1, <1>8 DEF Survives, Loads, Keeps, Numbers
<1>16. ASSUME NEW r \in IncidentRecords, RecordOK(r),
              r.number = n /\ performed[n] = unrecorded[n] =>
                r.status \in Begun /\ r.approval # "PENDING"
       PROVE  RecordOK(r)'
  <2>1. CASE r.number = n
    BY <1>5, <1>8, <1>9, <1>16, <2>1 DEF RecordOK, Counts
  <2>2. CASE r.number # n
    <3>1. r.number \in 1 .. MaxRequests
      BY DEF IncidentRecords
    <3>2. performed'[r.number] = performed[r.number]
      BY <1>9, <2>2, <3>1
    <3> QED
      BY <1>8, <1>16, <3>2 DEF RecordOK
  <2> QED
    BY <2>1, <2>2
<1>17. ContentOK(memory)'
  <2>1. ASSUME NEW id \in DOMAIN memory PROVE RecordOK(memory[id])'
    <3>1. memory[id].number = n => memory[id] = Of(t)
      BY <1>1, <1>3, <1>4 DEF StoreOK, ContentOK, Distinct, Of
    <3>2. PICK r \in IncidentRecords : r = memory[id]
      BY <1>1 DEF StoreOK, IncidentMap
    <3>3. RecordOK(r)
      BY <1>1, <3>2 DEF StoreOK, ContentOK
    <3>4. RecordOK(r)'
      BY <1>6, <1>16, <3>1, <3>2, <3>3 DEF Begun
    <3> QED
      BY <1>8, <3>2, <3>4
  <2>2. Distinct(memory)'
    BY <1>1, <1>8 DEF StoreOK, ContentOK, Distinct
  <2> QED
    BY <1>8, <2>1, <2>2 DEF ContentOK
<1>18. file = Torn \/ ContentOK(file)'
  <2> SUFFICES ASSUME file # Torn PROVE ContentOK(file)'
    OBVIOUS
  <2>1. ASSUME NEW id \in DOMAIN file PROVE RecordOK(file[id])'
    <3>1. PICK r \in IncidentRecords : r = file[id]
      BY <1>1 DEF StoreOK, IncidentMap
    <3>2. RecordOK(r)
      BY <1>1, <3>1 DEF StoreOK, ContentOK
    <3>3. r.number = n /\ performed[n] = unrecorded[n] =>
             r.status \in Begun /\ r.approval # "PENDING"
      BY <1>5, <1>6, <3>1 DEF Marked, BegunOnDisk, Counts
    <3>4. RecordOK(r)'
      BY <1>16, <3>2, <3>3
    <3> QED
      BY <1>8, <3>1, <3>4
  <2>2. Distinct(file)'
    BY <1>1, <1>8 DEF StoreOK, ContentOK, Distinct
  <2> QED
    BY <1>8, <2>1, <2>2 DEF ContentOK
<1>19. StoreOK'
  <2>1. \A m \in 1 .. MaxRequests :
           /\ performed'[m] <= unrecorded[m] + 1
           /\ performed'[m] + unrecorded[m] > 0 => m \in stored
    BY <1>1, <1>5, <1>9 DEF StoreOK, Counts
  <2> HIDE DEF ContentOK, IncidentMap
  <2>2. IncidentMap(memory)' /\ (file = Torn \/ IncidentMap(file))'
    BY <1>1, <1>8 DEF StoreOK, IncidentMap
  <2> QED
    BY <1>1, <1>8, <1>9, <1>17, <1>18, <2>1, <2>2 DEF StoreOK
<1>20. ASSUME NEW u \in Threads PROVE ThreadOK(u)'
  <2>1. CASE u = t
    <3>1. Of(t)' = Of(t)
      BY <1>7, <1>8, <1>10 DEF Of
    <3>2. Progress(t)'
      <4> HIDE DEF Of
      <4> QED
        BY <1>4, <1>5, <1>6, <1>7, <1>9, <1>10, <3>1 DEF Progress, Upcoming, Counts
    <3>3. lock # t
      BY <1>1, <1>2 DEF ThreadOK
    <3> QED
      BY <1>3, <1>7, <1>8, <1>10, <2>1, <3>2, <3>3 DEF ThreadOK, Creating
  <2>2. CASE u # t
    <3>1. thread'[u] = thread[u] /\ ThreadOK(u) /\ Of(u)' = Of(u)
      BY <1>1, <1>8, <1>10, <2>2 DEF Of
    <3>2. ASSUME Working(u) PROVE Progress(u)'
      <4>1. /\ thread[u].id \in DOMAIN memory /\ Progress(u)
            /\ Of(u).number \in stored /\ thread[u].id # thread[t].id
        BY <1>2, <2>2, <3>2, AtWork DEF Working
      <4>2. Of(u).number # n
        BY <1>1, <1>3, <1>4, <4>1 DEF StoreOK, ContentOK, Distinct, Of
      <4>3. performed'[Of(u).number] = performed[Of(u).number]
        BY <1>1, <1>9, <4>1, <4>2 DEF StoreOK
      <4>4. thread[u].at \in {"lookup", "register", "tool"} => Marked(Of(u).number)'
        <5>1. Marked(Of(u).number)' <=> Marked(Of(u).number)
          BY <1>8, <3>1, <4>3 DEF Marked, BegunOnDisk
        <5> HIDE DEF Of
        <5> QED
          BY <4>1, <5>1 DEF Progress
      <4>5. Counts(Of(u).number) /\ Counts(Of(u).number)'
        BY <1>8, <3>1, <3>2, <4>3, AtWork DEF Counts
      <4> HIDE DEF Of
      <4> QED
        BY <1>8, <3>1, <4>1, <4>3, <4>4, <4>5, ProgressStays DEF Counts
    <3> QED
      BY <1>8, <2>2, <3>1, <3>2 DEF ThreadOK, Creating, Working
  <2> QED
    BY <2>1, <2>2
<1> QED
  BY <1>11, <1>12, <1>13, <1>14, <1>15, <1>19, <1>20, PartsAfter

-----------------------------------------------------------------------------
(* Requests, and new incidents.                                            *)

\* A decision is taken on what is pending, by a thread that has it for itself.
LEMMA ResumeKeeps ==
    ASSUME ServerInv, NEW t \in Threads, NEW id \in DOMAIN memory,
           NEW approval \in {"APPROVED", "REJECTED"}, Resume(t, id, approval)
    PROVE  ServerInv'
<1>1. /\ StoreOK /\ RegistryOK /\ thread \in [Threads -> ThreadStates]
  BY Parts
<1>2. /\ thread[t] = Idle /\ open /\ memory[id].approval = "PENDING" /\ requests < MaxRequests
      /\ \A u \in Threads : thread[u].at # "idle" => thread[u].id # id
  BY DEF Resume, Busy
<1>3. /\ memory[id] \in IncidentRecords /\ RecordOK(memory[id])
      /\ memory \in [DOMAIN memory -> IncidentRecords] /\ id \in 1 .. MaxRequests
  BY <1>1 DEF StoreOK, IncidentMap, ContentOK
<1>4. PICK r \in IncidentRecords : r = [memory[id] EXCEPT !.approval = approval]
  BY <1>3, RecordLiterals DEF IncidentRecords
<1>5. /\ r.number = memory[id].number /\ r.policy = memory[id].policy /\ r.approval = approval
      /\ r.status = memory[id].status /\ r.output = memory[id].output
  BY <1>3, <1>4 DEF IncidentRecords
<1> DEFINE s == [Idle EXCEPT !.at = "decided", !.id = id]
<1>6. s \in ThreadStates /\ s.at = "decided" /\ s.id = id
  <2>1. id \in 0 .. MaxRequests
    BY <1>3, ThreadsAssumption
  <2> QED
    BY <2>1, IdleType, PlaceLiterals DEF ThreadStates, Idle
<1>7. /\ thread' = [thread EXCEPT ![t] = s] /\ memory' = [memory EXCEPT ![id] = r]
      /\ requests' = requests + 1
      /\ UNCHANGED <<file, open, seq, lock, registry, registrar, crashes, refusals, performed,
                     unrecorded, stored, saved, lost, cold>>
  BY <1>3, <1>4 DEF Resume, history
<1> HIDE DEF s
<1>8. thread'[t] = s /\ memory'[id] = r
  BY <1>1, <1>3, <1>7
<1>9. /\ memory[id].policy = "APPROVAL_REQUIRED" /\ memory[id].number \in stored
      /\ Counts(memory[id].number)
      /\ performed[memory[id].number] <= unrecorded[memory[id].number]
  <2>1. memory[id].number \in stored /\ memory[id].number \in 1 .. MaxRequests
    BY <1>1, <1>3 DEF RecordOK, StoreOK
  <2>2. Counts(memory[id].number)
    BY <1>1, <2>1 DEF StoreOK, Counts
  <2> QED
    BY <1>2, <1>3, <2>1, <2>2 DEF RecordOK, Counts
<1>10. RecordOK(r)'
  BY <1>3, <1>5, <1>7, <1>9 DEF RecordOK
<1>11. Of(t)' = r
  BY <1>6, <1>8 DEF Of
<1>12. Progress(t)'
  <2> HIDE DEF Of
  <2> QED
    BY <1>5, <1>6, <1>7, <1>8, <1>9, <1>11 DEF Progress, Upcoming
<1>13. thread[t].at = "idle"
  BY <1>2 DEF Idle
<1>14. RegistryOK'
  BY <1>1, <1>6, <1>7, <1>13, RegistryStays
<1>15. /\ requests \in Nat /\ requests' \in Nat /\ requests <= requests' /\ requests' <= MaxRequests
       /\ cold \subseteq cold' /\ cold' \subseteq stored
  BY <1>1, <1>2, <1>7, ThreadsAssumption DEF StoreOK
<1> QED
  BY <1>2, <1>5, <1>6, <1>7, <1>10, <1>12, <1>13, <1>14, <1>15, WorkKeeps

\* A thread that no incident and no lock knows moves, and the store stays.
LEMMA OutsiderMoves ==
    ASSUME ServerInv, NEW t \in Threads, NEW s \in ThreadStates,
           thread[t].at \in {"idle", "number"}, s.at \in {"number", "insert"},
           thread' = [thread EXCEPT ![t] = s],
           UNCHANGED <<file, open, memory, lock, registry, registrar, crashes, refusals,
                       history>>,
           requests' \in 0 .. MaxRequests, seq' \in 0 .. MaxRequests, seq <= seq',
           s.kind \in Kinds,
           s.at = "insert" => open /\ s.id \in (1 .. seq') \ DOMAIN memory /\ s.id > seq,
           Counted'
    PROVE  ServerInv'
<1>1. /\ StoreOK /\ RegistryOK /\ thread \in [Threads -> ThreadStates]
      /\ \A u \in Threads : ThreadOK(u)
      /\ Exclusive /\ Survives
  BY Parts
<1>2. UNCHANGED <<performed, unrecorded, stored, saved, lost, cold>>
  BY DEF history
<1>3. thread'[t] = s /\ \A u \in Threads : u # t => thread'[u] = thread[u]
  BY <1>1
<1>4. RegistryOK'
  BY <1>1, RegistryStays
<1>5. \A k \in Int : k <= seq => k <= seq'
  BY <1>1, ThreadsAssumption DEF StoreOK
<1>6. StoreOK'
  <2>1. \A id \in DOMAIN memory : id <= seq'
    BY <1>1, <1>5, ThreadsAssumption DEF StoreOK, IncidentMap
  <2>2. ContentOK(memory)' /\ (file = Torn \/ ContentOK(file)')
    BY <1>1, <1>2 DEF StoreOK, ContentOK, RecordOK, Distinct
  <2>3. IncidentMap(memory)' /\ (file = Torn \/ IncidentMap(file)')
    BY <1>1 DEF StoreOK, IncidentMap
  <2> HIDE DEF IncidentMap, ContentOK
  <2> QED
    BY <1>1, <1>2, <2>1, <2>2, <2>3 DEF StoreOK
<1>7. Survives'
  BY <1>1, <1>2 DEF Survives, Loads, Keeps, Numbers
<1>8. ASSUME NEW u \in Threads PROVE ThreadOK(u)'
  <2>1. CASE u = t
    <3>1. lock # t
      BY <1>1 DEF ThreadOK
    <3> QED
      BY <1>3, <2>1, <3>1 DEF ThreadOK, Creating, Working
  <2>2. CASE u # t
    <3>1. thread'[u] = thread[u] /\ ThreadOK(u) /\ Of(u)' = Of(u)
      BY <1>1, <1>3, <2>2 DEF Of
    <3>2. Working(u) => Progress(u)'
      <4>1. Marked(Of(u).number)' <=> Marked(Of(u).number)
        BY <1>2, <3>1 DEF Marked, BegunOnDisk
      <4> HIDE DEF Of
      <4>2. Working(u) => (thread[u].at \in {"lookup", "register", "tool"}
                            => Marked(Of(u).number)')
        BY <3>1, <4>1 DEF ThreadOK, Progress
      <4> QED
        BY <1>2, <3>1, <4>2, AtWork, ProgressStays DEF ThreadOK, Counts
    <3>3. Creating(u)'
      <4>1. thread[u].at = "insert" => thread[u].id \in 1 .. seq'
        BY <1>1, <1>5, <3>1, ThreadsAssumption DEF ThreadOK, Creating, StoreOK
      <4> QED
        BY <3>1, <4>1 DEF ThreadOK, Creating
    <3> QED
      BY <3>1, <3>2, <3>3 DEF ThreadOK, Working
  <2> QED
    BY <2>1, <2>2
<1>9. Exclusive'
  <2>1. ASSUME NEW u \in Threads, u # t, thread[u].at \notin {"idle", "number"}, s.at = "insert"
        PROVE  thread[u].id # s.id
    <3>1. thread[u].id \in Nat /\ thread[u].id <= seq
      <4>1. ThreadOK(u)
        BY <1>1
      <4>2. CASE thread[u].at = "insert"
        BY <1>1, <4>1, <4>2, ThreadsAssumption DEF ThreadOK, Creating, StoreOK
      <4>3. CASE thread[u].at # "insert"
        <5>1. thread[u].id \in DOMAIN memory
          BY <2>1, <4>1, <4>3 DEF ThreadOK, Working
        <5> QED
          BY <1>1, <5>1, ThreadsAssumption DEF StoreOK, IncidentMap
      <4> QED
        BY <4>2, <4>3
    <3> QED
      BY <1>1, <2>1, <3>1, ThreadsAssumption DEF StoreOK
  <2> QED
    BY <1>1, <1>3, <2>1 DEF Exclusive
<1>10. (thread \in [Threads -> ThreadStates])'
  BY <1>1
<1> QED
  BY <1>4, <1>6, <1>7, <1>8, <1>9, <1>10, PartsAfter

\* A request for a new incident is accepted.
LEMMA CreateKeeps ==
    ASSUME ServerInv, NEW t \in Threads, NEW kind \in Kinds, CreateIncident(t, kind)
    PROVE  ServerInv'
<1>1. /\ StoreOK /\ Counted /\ thread \in [Threads -> ThreadStates]
  BY Parts
<1>2. /\ thread[t] = Idle /\ requests < MaxRequests /\ requests' = requests + 1
      /\ UNCHANGED <<file, open, memory, seq, lock, registry, registrar, crashes, refusals,
                     history>>
  BY DEF CreateIncident
<1> DEFINE s == [Idle EXCEPT !.at = "number", !.kind = kind]
<1>3. s \in ThreadStates /\ s.at = "number" /\ s.kind = kind
  BY IdleType, PlaceLiterals DEF ThreadStates, Idle
<1>4. thread' = [thread EXCEPT ![t] = s] /\ thread[t].at = "idle"
  <2>1. thread' = [thread EXCEPT ![t] = [thread[t] EXCEPT !.at = "number", !.kind = kind]]
    BY <1>1 DEF CreateIncident
  <2> QED
    BY <1>2, <2>1 DEF Idle
<1> HIDE DEF s
<1>5. /\ requests \in Nat /\ requests' \in 0 .. MaxRequests /\ seq \in Nat /\ seq' \in 0 .. MaxRequests
      /\ seq <= seq'
  BY <1>1, <1>2, ThreadsAssumption DEF StoreOK
<1>6. Numbering' = Numbering \union {t} /\ Inserting' = Inserting \union {t}
      /\ t \notin Numbering /\ t \notin Inserting
  BY <1>1, <1>3, <1>4 DEF Numbering, Inserting
<1>7. /\ Cardinality(Numbering') = Cardinality(Numbering) + 1
      /\ Cardinality(Inserting') = Cardinality(Inserting) + 1
  BY <1>6, CreatorsFinite, FS_AddElement
<1>8. Counted'
  <2>1. /\ Cardinality(Numbering) \in Nat /\ Cardinality(Inserting) \in Nat
        /\ Cardinality(stored) \in Nat
    BY <1>1, CreatorsFinite, StoredFinite DEF StoreOK
  <2>2. stored' = stored /\ seq' = seq /\ file' = file
    BY <1>2 DEF history
  <2>3. Cardinality(stored) + Cardinality(Inserting') <= requests'
    BY <1>1, <1>2, <1>5, <1>7, <2>1 DEF Counted
  <2>4. seq + Cardinality(Numbering') <= requests'
    BY <1>1, <1>2, <1>5, <1>7, <2>1 DEF Counted
  <2>5. ASSUME file # Torn, NEW id \in DOMAIN file
        PROVE  id + Cardinality(Numbering') <= requests'
    <3>1. id \in Nat
      BY <1>1, <2>5, ThreadsAssumption DEF StoreOK, IncidentMap
    <3> QED
      BY <1>1, <1>2, <1>5, <1>7, <2>1, <2>5, <3>1 DEF Counted
  <2> QED
    BY <2>2, <2>3, <2>4, <2>5 DEF Counted
<1> QED
  BY <1>2, <1>3, <1>4, <1>5, <1>8, OutsiderMoves

\* A new incident gets an id that no other has, in this process.
LEMMA NextIncidentIdKeeps ==
    ASSUME ServerInv, NEW t \in Threads, NextIncidentId(t)
    PROVE  ServerInv'
<1>1. /\ StoreOK /\ Counted /\ thread \in [Threads -> ThreadStates] /\ ThreadOK(t)
  BY Parts
<1>2. /\ thread[t].at = "number" /\ open /\ seq' = seq + 1
      /\ UNCHANGED <<file, open, memory, lock, registry, registrar, requests, crashes,
                     refusals, history>>
  BY DEF NextIncidentId
<1>3. /\ requests \in 0 .. MaxRequests /\ seq \in Nat
      /\ Cardinality(Numbering) \in Nat /\ Cardinality(Inserting) \in Nat
      /\ Cardinality(stored) \in Nat
  BY <1>1, CreatorsFinite, StoredFinite, ThreadsAssumption DEF StoreOK
<1>4. t \in Numbering /\ t \in Inserting /\ Cardinality(Numbering) # 0
  BY <1>2, CreatorsFinite, FS_EmptySet DEF Numbering, Inserting
<1>5. seq + 1 \in 1 .. MaxRequests
  BY <1>1, <1>3, <1>4, ThreadsAssumption DEF Counted
<1> DEFINE s == [thread[t] EXCEPT !.at = "insert", !.id = seq + 1]
<1>6. s \in ThreadStates /\ s.at = "insert" /\ s.id = seq + 1 /\ s.kind = thread[t].kind
  <2>1. seq + 1 \in 0 .. MaxRequests
    BY <1>5, ThreadsAssumption
  <2> QED
    BY <1>1, <2>1, PlaceLiterals DEF ThreadStates
<1>7. thread' = [thread EXCEPT ![t] = s]
  BY <1>1, <1>2 DEF NextIncidentId
<1> HIDE DEF s
<1>8. s.kind \in Kinds
  BY <1>1, <1>2, <1>6 DEF ThreadOK, Creating
<1>9. s.id \in (1 .. seq') \ DOMAIN memory /\ s.id > seq /\ seq <= seq' /\ seq' \in 0 .. MaxRequests
  BY <1>1, <1>2, <1>3, <1>5, <1>6 DEF StoreOK, IncidentMap
<1>10. Numbering' = Numbering \ {t} /\ Inserting' = Inserting
  BY <1>1, <1>2, <1>6, <1>7 DEF Numbering, Inserting
<1>11. Cardinality(Numbering') = Cardinality(Numbering) - 1
  BY <1>4, <1>10, CreatorsFinite, FS_RemoveElement
<1>12. Counted'
  <2>1. stored' = stored /\ file' = file /\ requests' = requests
    BY <1>2 DEF history
  <2>2. seq' + Cardinality(Numbering') <= requests
    BY <1>1, <1>2, <1>3, <1>11 DEF Counted
  <2>3. ASSUME file # Torn, NEW id \in DOMAIN file
        PROVE  id + Cardinality(Numbering') <= requests
    <3>1. id \in Nat
      BY <1>1, <2>3, ThreadsAssumption DEF StoreOK, IncidentMap
    <3> QED
      BY <1>1, <1>3, <1>11, <2>3, <3>1 DEF Counted
  <2> QED
    BY <1>1, <1>10, <2>1, <2>2, <2>3 DEF Counted
<1> QED
  BY <1>2, <1>3, <1>6, <1>7, <1>8, <1>9, <1>12, OutsiderMoves

\* A new incident is listed beside all the others: its id and its number are
\* its own.
LEMMA InsertKeeps ==
    ASSUME ServerInv, NEW t \in Threads, Insert(t)
    PROVE  ServerInv'
<1>1. /\ StoreOK /\ RegistryOK /\ thread \in [Threads -> ThreadStates]
      /\ \A u \in Threads : ThreadOK(u)
      /\ Exclusive /\ Counted /\ Survives
  BY Parts
<1>2. thread[t].at = "insert" /\ lock = None
  BY DEF Insert
<1>3. PICK id : id = thread[t].id
  OBVIOUS
<1>4. id \in (1 .. seq) \ DOMAIN memory /\ thread[t].kind \in Kinds /\ open
  BY <1>1, <1>2, <1>3 DEF ThreadOK, Creating
<1>5. PICK n : n = Number
  OBVIOUS
<1>6. /\ Cardinality(stored) \in Nat /\ n = Cardinality(stored) + 1
      /\ Cardinality(Inserting) \in Nat /\ Cardinality(Inserting) # 0
      /\ requests \in 0 .. MaxRequests
  <2>1. t \in Inserting
    BY <1>2 DEF Inserting
  <2>2. Cardinality(Inserting) # 0
    BY <2>1, CreatorsFinite, FS_EmptySet
  <2> QED
    BY <1>1, <1>5, <2>2, CreatorsFinite, StoredFinite DEF StoreOK, Number
<1>7. n \in 1 .. MaxRequests /\ n \notin stored
  <2>1. n <= requests
    BY <1>1, <1>6 DEF Counted
  <2>2. \A m \in stored : m \in 1 .. Cardinality(stored)
    BY <1>1 DEF StoreOK
  <2> QED
    BY <1>6, <2>1, <2>2, ThreadsAssumption
<1>8. PICK r \in IncidentRecords : r = Incident(n, thread[t].kind)
  BY <1>4, <1>7, RecordLiterals DEF Incident, IncidentRecords
<1>9. r.number = n /\ r.status = "DETECTED" /\ r.approval = "NOT_REQUIRED"
  BY <1>8 DEF Incident
<1>10. PICK s \in ThreadStates :
          /\ thread' = [thread EXCEPT ![t] = s] /\ s.id = id
          /\ \/ /\ s.at = "saving" /\ s.next = "classify"
                /\ lock' = t /\ file' = Torn /\ refusals' = refusals
             \/ /\ s.at = "classify"
                /\ lock' = lock /\ file' = file /\ refusals' = refusals + 1
  <2>1. CASE Refused /\ thread' = [thread EXCEPT ![t].at = "classify"] /\ UNCHANGED <<file,
                                                                                      lock>>
    <3> DEFINE s == [thread[t] EXCEPT !.at = "classify"]
    <3>1. s \in ThreadStates /\ s.at = "classify" /\ s.id = id
      BY <1>1, <1>3, PlaceLiterals DEF ThreadStates
    <3> QED
      BY <2>1, <3>1 DEF Refused
  <2>2. CASE /\ lock' = t /\ file' = Torn /\ refusals' = refusals
             /\ thread' = [thread EXCEPT ![t].at = "saving", ![t].next = "classify"]
    <3> DEFINE s == [thread[t] EXCEPT !.at = "saving", !.next = "classify"]
    <3>1. s \in ThreadStates /\ s.at = "saving" /\ s.next = "classify" /\ s.id = id
      BY <1>1, <1>3, PlaceLiterals DEF ThreadStates
    <3>2. thread' = [thread EXCEPT ![t] = s]
      BY <1>1, <2>2
    <3> QED
      BY <2>2, <3>1, <3>2
  <2> QED
    BY <2>1, <2>2 DEF Insert
<1>11. /\ stored' = stored \union {n} /\ memory' = Listed(id, r)
       /\ UNCHANGED <<open, seq, registry, registrar, requests, crashes, performed, unrecorded,
                      saved, lost, cold>>
  BY <1>1, <1>3, <1>5, <1>8 DEF Insert
<1>12. thread'[t] = s /\ \A u \in Threads : u # t => thread'[u] = thread[u]
  BY <1>1, <1>10
<1>13. thread' \in [Threads -> ThreadStates]
  BY <1>1, <1>10
<1>14. RegistryOK'
  BY <1>1, <1>2, <1>10, <1>11, RegistryStays
<1>15. Exclusive'
  BY <1>1, <1>2, <1>3, <1>10, <1>12 DEF Exclusive
<1>16. /\ DOMAIN memory' = DOMAIN memory \union {id} /\ memory'[id] = r
       /\ \A a \in DOMAIN memory : memory'[a] = memory[a] /\ a # id
  BY <1>4, <1>11 DEF Listed
<1>17. stored' = 1 .. n /\ stored' \subseteq 1 .. MaxRequests /\ Cardinality(stored') = n
  <2>1. stored = 1 .. Cardinality(stored)
    BY <1>1 DEF StoreOK
  <2>2. stored' = 1 .. n
    BY <1>6, <1>11, <2>1
  <2>3. Cardinality(1 .. n) = n
    BY <1>6, FS_Interval
  <2> QED
    BY <1>7, <2>2, <2>3, ThreadsAssumption
<1>18. Counted'
  <2>1. Numbering' = Numbering /\ Inserting' = Inserting \ {t} /\ t \in Inserting
    BY <1>1, <1>2, <1>10, <1>12 DEF Numbering, Inserting
  <2>2. Cardinality(Inserting') = Cardinality(Inserting) - 1
    BY <2>1, CreatorsFinite, FS_RemoveElement
  <2>3. Cardinality(stored') + Cardinality(Inserting') <= requests
    BY <1>1, <1>6, <1>17, <2>2 DEF Counted
  <2> QED
    BY <1>1, <1>10, <1>11, <2>1, <2>3 DEF Counted
<1>19. Survives'
  <2>1. ASSUME NEW m \in saved \ lost
        PROVE  \E a \in DOMAIN memory' : memory'[a].number = m
    <3>1. PICK a \in DOMAIN memory : memory[a].number = m
      BY <1>1, <1>4, <2>1 DEF Survives, Keeps, Numbers
    <3> QED
      BY <1>16, <3>1
  <2>2. Keeps(memory)'
    BY <1>11, <2>1 DEF Keeps, Numbers
  <2>3. Loads(file)' => Keeps(file)'
    BY <1>1, <1>10, <1>11 DEF Survives, Loads, Keeps, Numbers
  <2> QED
    BY <1>4, <1>11, <2>2, <2>3 DEF Survives
<1>20. performed[n] = 0 /\ unrecorded[n] = 0
  BY <1>1, <1>7 DEF StoreOK
<1>21. ContentOK(memory)'
  <2>1. ASSUME NEW a \in DOMAIN memory' PROVE RecordOK(memory[a])'
    <3>1. CASE a = id
      <4>1. RecordOK(r)'
        BY <1>8, <1>9, <1>11, <1>20 DEF RecordOK, Incident
      <4> QED
        BY <1>16, <3>1, <4>1
    <3>2. CASE a # id
      <4>1. a \in DOMAIN memory /\ memory'[a] = memory[a]
        BY <1>16, <3>2
      <4>2. RecordOK(memory[a])
        BY <1>1, <4>1 DEF StoreOK, ContentOK
      <4> QED
        BY <1>11, <4>1, <4>2 DEF RecordOK
    <3> QED
      BY <3>1, <3>2
  <2>2. \A a \in DOMAIN memory : memory[a].number \in stored
    BY <1>1 DEF StoreOK, ContentOK, RecordOK
  <2>3. Distinct(memory)'
    <3> SUFFICES ASSUME NEW a \in DOMAIN memory', NEW b \in DOMAIN memory',
                        memory'[a].number = memory'[b].number
                 PROVE  a = b
      BY DEF Distinct
    <3>1. CASE a \in DOMAIN memory /\ b \in DOMAIN memory
      BY <1>1, <1>16, <3>1 DEF StoreOK, ContentOK, Distinct
    <3>2. CASE a = id \/ b = id
      BY <1>7, <1>9, <1>16, <2>2, <3>2
    <3> QED
      BY <1>16, <3>1, <3>2
  <2> QED
    BY <2>1, <2>3 DEF ContentOK
<1>22. IncidentMap(memory)'
  <2>1. id \in 1 .. MaxRequests
    BY <1>1, <1>4, ThreadsAssumption DEF StoreOK
  <2>2. \A a \in DOMAIN memory' : memory'[a] \in IncidentRecords /\ a \in 1 .. MaxRequests
    BY <1>1, <1>16, <2>1 DEF StoreOK, IncidentMap
  <2>3. memory' \in [DOMAIN memory' -> IncidentRecords]
    BY <1>11, <1>16, <2>2 DEF Listed
  <2> QED
    BY <2>2, <2>3 DEF IncidentMap
<1>23. StoreOK'
  <2>1. \A a \in DOMAIN memory' : a <= seq'
    BY <1>1, <1>4, <1>11, <1>16, ThreadsAssumption DEF StoreOK
  <2>2. ASSUME file' # Torn PROVE (ContentOK(file) /\ IncidentMap(file))'
    <3>1. file' = file /\ ContentOK(file) /\ IncidentMap(file)
      BY <1>1, <1>10, <2>2 DEF StoreOK
    <3>2. stored \subseteq stored' /\ UNCHANGED <<performed, unrecorded, cold>>
      BY <1>11
    <3> QED
      BY <3>1, <3>2 DEF ContentOK, RecordOK, Distinct, IncidentMap
  <2>3. file' # Torn => (ContentOK(file) /\ IncidentMap(file))'
    BY <2>2
  <2>4. lock' \in Threads \union {None} /\ (lock' # None => file' = Torn) /\ refusals' \in Nat
    BY <1>1, <1>2, <1>10 DEF StoreOK
  <2>5. \A m \in 1 .. MaxRequests :
           /\ performed[m] <= unrecorded[m] + 1
           /\ performed[m] + unrecorded[m] > 0 => m \in stored'
    BY <1>1, <1>11 DEF StoreOK
  <2> HIDE DEF ContentOK, IncidentMap
  <2> QED
    BY <1>1, <1>11, <1>17, <1>21, <1>22, <2>1, <2>3, <2>4, <2>5 DEF StoreOK
<1>24. ASSUME NEW u \in Threads PROVE ThreadOK(u)'
  <2>1. CASE u = t
    <3>1. Of(t)' = r /\ thread[t].id \in DOMAIN memory'
      BY <1>3, <1>10, <1>12, <1>16 DEF Of
    <3>2. Progress(t)'
      <4> HIDE DEF Of
      <4> QED
        BY <1>9, <1>10, <1>11, <1>12, <1>20, <3>1 DEF Progress, Upcoming
    <3>3. thread'[t].at = "saving" <=> lock' = t
      BY <1>2, <1>10, <1>12, ThreadsAssumption
    <3> QED
      BY <1>3, <1>4, <1>10, <1>11, <1>12, <2>1, <3>1, <3>2, <3>3 DEF ThreadOK, Creating
  <2>2. CASE u # t
    <3>1. thread'[u] = thread[u] /\ ThreadOK(u)
      BY <1>1, <1>12, <2>2
    <3>2. ASSUME Working(u) PROVE thread[u].id \in DOMAIN memory' /\ Progress(u)'
      <4>1. thread[u].id \in DOMAIN memory /\ Progress(u)
        BY <3>1, <3>2 DEF ThreadOK
      <4>2. Of(u)' = Of(u)
        BY <1>16, <3>1, <4>1 DEF Of
      <4>3. thread[u].at \in {"lookup", "register", "tool"} => Marked(Of(u).number)'
        <5> HIDE DEF Of
        <5> QED
          BY <1>10, <1>11, <4>1, <4>2 DEF Progress, Marked, BegunOnDisk
      <4>4. Counts(Of(u).number) /\ Counts(Of(u).number)' /\ unrecorded[Of(u).number] \in Nat
        BY <1>11, <3>2, <4>2, AtWork DEF Counts
      <4> HIDE DEF Of
      <4> QED
        BY <1>10, <1>11, <1>16, <3>1, <3>2, <4>1, <4>2, <4>3, <4>4, ProgressStays
    <3>3. thread[u].at # "saving"
      BY <1>2, <3>1, ThreadsAssumption DEF ThreadOK
    <3>4. Creating(u)'
      <4>1. thread[u].at = "insert" => thread[u].id # id
        BY <1>1, <1>2, <1>3, <2>2 DEF Exclusive
      <4> QED
        BY <1>11, <1>16, <3>1, <4>1 DEF ThreadOK, Creating
    <3> QED
      BY <1>2, <1>10, <2>2, <3>1, <3>2, <3>3, <3>4, ThreadsAssumption DEF ThreadOK, Working
  <2> QED
    BY <2>1, <2>2
<1> QED
  BY <1>13, <1>14, <1>15, <1>18, <1>19, <1>23, <1>24, PartsAfter

-----------------------------------------------------------------------------
(* The process starts and dies.                                            *)

\* The process that starts has all that the file has, and goes on after the
\* highest id; what the file does not have is known to be lost.
LEMMA OpenStoreKeeps == ServerInv /\ OpenStore => ServerInv'
<1> SUFFICES ASSUME ServerInv, OpenStore PROVE ServerInv'
  OBVIOUS
<1>1. /\ StoreOK /\ RegistryOK /\ thread \in [Threads -> ThreadStates]
      /\ \A u \in Threads : ThreadOK(u)
      /\ Exclusive /\ Counted /\ Survives
  BY Parts
<1>2. /\ ~open /\ open' = TRUE
      /\ memory' = IF Loads(file) THEN file ELSE << >>
      /\ seq' = Highest(DOMAIN memory')
      /\ UNCHANGED <<file, lock, registry, registrar, thread, requests, crashes, refusals,
                     performed, unrecorded, stored, saved, lost, cold>>
  BY DEF OpenStore, history
<1>3. IncidentMap(memory') /\ ContentOK(memory') /\ (Loads(file) \/ DOMAIN memory' = {})
  <2>1. CASE Loads(file)
    BY <1>1, <1>2, <2>1 DEF Loads, StoreOK
  <2>2. CASE ~Loads(file)
    <3>1. memory' = << >> /\ DOMAIN memory' = {} /\ IncidentMap(memory')
      BY <1>2, <2>2, EmptyMap
    <3> QED
      BY <3>1 DEF ContentOK, Distinct
  <2> QED
    BY <2>1, <2>2
<1>4. /\ seq' \in DOMAIN memory' \union {0} /\ seq' \in 0 .. MaxRequests
      /\ \A id \in DOMAIN memory' : id <= seq'
  BY <1>2, <1>3, HighestIsHighest, ThreadsAssumption DEF IncidentMap
<1>5. StoreOK'
  <2>1. IncidentMap(memory)' /\ (file = Torn \/ IncidentMap(file))'
    BY <1>1, <1>2, <1>3 DEF IncidentMap, StoreOK
  <2>2. ContentOK(memory)' /\ (file = Torn \/ ContentOK(file))'
    BY <1>1, <1>2, <1>3 DEF StoreOK, ContentOK, Distinct, RecordOK
  <2> HIDE DEF IncidentMap, ContentOK
  <2> QED
    BY <1>1, <1>2, <1>4, <2>1, <2>2 DEF StoreOK
<1>6. RegistryOK' /\ (thread \in [Threads -> ThreadStates])' /\ Exclusive'
  BY <1>1, <1>2 DEF RegistryOK, Exclusive
<1>7. \A u \in Threads : ThreadOK(u)'
  <2> TAKE u \in Threads
  <2>1. thread[u].at \in {"idle", "number"} /\ ThreadOK(u)
    BY <1>1, <1>2 DEF ThreadOK, Creating
  <2> QED
    BY <1>2, <2>1 DEF ThreadOK, Creating, Working
<1>8. Counted'
  <2>1. Numbering' = Numbering /\ Inserting' = Inserting
    BY <1>2 DEF Numbering, Inserting
  <2>2. Cardinality(Numbering) \in Nat /\ requests \in Nat /\ seq \in Nat
    BY <1>1, CreatorsFinite, ThreadsAssumption DEF StoreOK
  <2>3. 0 + Cardinality(Numbering) <= requests
    BY <1>1, <2>2 DEF Counted
  <2>4. seq' + Cardinality(Numbering) <= requests
    <3>1. CASE seq' = 0
      BY <2>3, <3>1
    <3>2. CASE seq' # 0
      <4>1. Loads(file) /\ seq' \in DOMAIN file
        BY <1>2, <1>3, <1>4, <3>2
      <4> QED
        BY <1>1, <4>1 DEF Counted, Loads
    <3> QED
      BY <3>1, <3>2
  <2> QED
    BY <1>1, <1>2, <2>1, <2>4 DEF Counted
<1>9. Survives'
  <2>1. Keeps(memory)'
    <3>1. CASE Loads(file)
      BY <1>1, <1>2, <3>1 DEF Survives, Keeps, Numbers
    <3>2. CASE ~Loads(file)
      BY <1>1, <1>2, <3>2 DEF Survives, Keeps, Numbers
    <3> QED
      BY <3>1, <3>2
  <2> QED
    BY <1>1, <1>2, <2>1 DEF Survives, Keeps, Loads, Numbers
<1> QED
  BY <1>5, <1>6, <1>7, <1>8, <1>9, PartsAfter

\* A crash leaves the file and the world, and no thread.
LEMMA CrashKeeps == ServerInv /\ Crash => ServerInv'
<1> SUFFICES ASSUME ServerInv, Crash PROVE ServerInv'
  OBVIOUS
<1>1. StoreOK /\ Counted /\ Survives
  BY Parts
<1>2. /\ open' = FALSE /\ memory' = << >> /\ seq' = 0 /\ lock' = None /\ crashes' = crashes + 1
      /\ registry' = "absent" /\ registrar' = None /\ thread' = [t \in Threads |-> Idle]
      /\ lost' = IF Loads(file) THEN lost ELSE saved
      /\ UNCHANGED <<file, requests, refusals, performed, unrecorded, stored, saved, cold>>
  BY DEF Crash
<1>3. /\ thread' \in [Threads -> ThreadStates] /\ \A u \in Threads : thread'[u] = Idle
  BY <1>2, IdleType
<1>4. DOMAIN memory' = {} /\ IncidentMap(memory)' /\ ContentOK(memory)'
  BY <1>2, EmptyMap DEF ContentOK, Distinct, IncidentMap
<1>5. StoreOK'
  <2>1. (file = Torn \/ IncidentMap(file))' /\ (file = Torn \/ ContentOK(file))'
    BY <1>1, <1>2 DEF StoreOK, ContentOK, Distinct, RecordOK, IncidentMap
  <2> HIDE DEF IncidentMap, ContentOK
  <2>2. /\ saved \union cold \subseteq stored /\ lost' \subseteq saved
        /\ crashes' \in Nat /\ 0 \in 0 .. MaxRequests
    BY <1>1, <1>2, ThreadsAssumption DEF StoreOK
  <2> QED
    BY <1>1, <1>2, <1>4, <2>1, <2>2 DEF StoreOK
<1>6. RegistryOK'
  BY <1>2, <1>3, ThreadsAssumption DEF RegistryOK, Idle
<1>7. \A u \in Threads : ThreadOK(u)'
  BY <1>2, <1>3, ThreadsAssumption DEF ThreadOK, Creating, Working, Idle
<1>8. Exclusive'
  BY <1>3 DEF Exclusive, Idle
<1>9. Counted'
  <2>1. Numbering' = {} /\ Inserting' = {} /\ Cardinality({}) = 0
    BY <1>3, FS_EmptySet DEF Numbering, Inserting, Idle
  <2>2. /\ Cardinality(Numbering) \in Nat /\ Cardinality(Inserting) \in Nat
        /\ Cardinality(stored) \in Nat /\ requests \in Nat
    BY <1>1, CreatorsFinite, StoredFinite, ThreadsAssumption DEF StoreOK
  <2>3. Cardinality(stored) + 0 <= requests /\ 0 + 0 <= requests
    BY <1>1, <2>2 DEF Counted
  <2>4. ASSUME file # Torn, NEW id \in DOMAIN file PROVE id + 0 <= requests
    <3>1. id \in Nat
      BY <1>1, <2>4, ThreadsAssumption DEF StoreOK, IncidentMap
    <3> QED
      BY <1>1, <2>2, <2>4, <3>1 DEF Counted
  <2> QED
    BY <1>2, <2>1, <2>3, <2>4 DEF Counted
<1>10. Survives'
  BY <1>1, <1>2 DEF Survives, Keeps, Loads, Numbers
<1> QED
  BY <1>3, <1>5, <1>6, <1>7, <1>8, <1>9, <1>10, PartsAfter

-----------------------------------------------------------------------------
(* Every step.                                                             *)

\* The invariant holds initially.
LEMMA InitInv == Init => ServerInv
<1> SUFFICES ASSUME Init PROVE ServerInv
  OBVIOUS
<1>1. DOMAIN << >> = {} /\ IncidentMap(<< >>) /\ ContentOK(<< >>)
  BY EmptyMap DEF ContentOK, Distinct
<1>2. 1 .. 0 = {} /\ Cardinality({}) = 0
  BY FS_EmptySet
<1>3. thread \in [Threads -> ThreadStates] /\ \A t \in Threads : thread[t] = Idle
  BY IdleType DEF Init
<1>4. StoreOK
  <2> HIDE DEF IncidentMap, ContentOK
  <2>1. /\ IncidentMap(memory) /\ ContentOK(memory) /\ DOMAIN memory = {}
        /\ IncidentMap(file) /\ ContentOK(file)
    BY <1>1 DEF Init
  <2>2. stored \subseteq 1 .. MaxRequests /\ stored = 1 .. Cardinality(stored)
    BY <1>2 DEF Init
  <2>3. /\ performed \in [1 .. MaxRequests -> Nat] /\ unrecorded \in [1 .. MaxRequests -> Nat]
        /\ \A n \in 1 .. MaxRequests : performed[n] = 0 /\ unrecorded[n] = 0
    BY DEF Init
  <2>4. /\ open \in BOOLEAN /\ seq \in 0 .. MaxRequests /\ requests \in 0 .. MaxRequests
        /\ crashes \in Nat /\ refusals \in Nat /\ lock = None
        /\ saved \union cold \subseteq stored /\ lost \subseteq saved
    <3>1. 0 \in 0 .. MaxRequests /\ 0 \in Nat /\ {} \union {} = {}
      BY ThreadsAssumption
    <3> QED
      BY <3>1 DEF Init
  <2>5. \A n \in 1 .. MaxRequests :
           /\ performed[n] <= unrecorded[n] + 1
           /\ performed[n] + unrecorded[n] > 0 => n \in stored
    BY <2>3
  <2> QED
    BY <2>1, <2>2, <2>3, <2>4, <2>5 DEF StoreOK
<1>5. RegistryOK
  BY <1>3, ThreadsAssumption DEF Init, RegistryOK, Idle
<1>6. \A t \in Threads : ThreadOK(t)
  BY <1>3, ThreadsAssumption DEF Init, ThreadOK, Creating, Working, Idle
<1>7. Exclusive
  BY <1>3 DEF Exclusive, Idle
<1>8. Counted
  <2>1. Numbering = {} /\ Inserting = {}
    BY <1>3 DEF Numbering, Inserting, Idle
  <2> QED
    BY <1>1, <1>2, <2>1 DEF Init, Counted
<1>9. Survives
  BY DEF Init, Survives, Keeps, Numbers
<1> QED
  BY <1>3, <1>4, <1>5, <1>6, <1>7, <1>8, <1>9, Parts

\* A step of a thread keeps the invariant.
LEMMA StepKeeps ==
    ASSUME ServerInv, NEW t \in Threads, Step(t)
    PROVE  ServerInv'
<1>1. CASE BeginSave(t) \/ EndSave(t) \/ FailSave(t) \/ RefuseSave(t)
  BY <1>1, BeginSaveKeeps, SaveEnds, RefuseSaveKeeps
<1>2. CASE NextIncidentId(t) \/ Insert(t)
  BY <1>2, NextIncidentIdKeeps, InsertKeeps
<1>3. CASE Classify(t) \/ PolicyCheck(t) \/ Propose(t) \/ DispatchAuto(t) \/ DispatchApproval(t)
  BY <1>3, ClassifyKeeps, PolicyCheckKeeps, ProposeKeeps, DispatchAutoKeeps,
     DispatchApprovalKeeps
<1>4. CASE RecordDecision(t) \/ BeginExecution(t)
  BY <1>4, RecordDecisionKeeps, BeginExecutionKeeps
<1>5. CASE CreateRegistry(t) \/ RegisterReadTools(t) \/ RegisterActionTools(t)
  BY <1>5, CreateRegistryKeeps, RegisterReadToolsKeeps, RegisterActionToolsKeeps
<1>6. CASE RecordNoop(t) \/ UseTool(t) \/ Perform(t) \/ ToolFails(t) \/ Audit(t) \/ Verify(t)
  BY <1>6, RecordNoopKeeps, UseToolKeeps, PerformKeeps, ToolFailsKeeps, AuditKeeps, VerifyKeeps
<1> QED
  BY <1>1, <1>2, <1>3, <1>4, <1>5, <1>6 DEF Step

\* A step that changes nothing keeps the invariant.
LEMMA StutterKeeps == ServerInv /\ UNCHANGED vars => ServerInv'
<1> SUFFICES ASSUME ServerInv, UNCHANGED vars PROVE ServerInv'
  OBVIOUS
<1>1. /\ StoreOK /\ RegistryOK /\ thread \in [Threads -> ThreadStates]
      /\ \A u \in Threads : ThreadOK(u)
      /\ Exclusive /\ Counted /\ Survives
  BY Parts
<1>2. UNCHANGED <<file, open, memory, seq, lock, registry, registrar, thread, requests,
                  crashes, refusals, performed, unrecorded, stored, saved, lost, cold>>
  BY DEF vars, volatile, history
<1>3. StoreOK' /\ RegistryOK'
  BY <1>1, <1>2 DEF StoreOK, ContentOK, RecordOK, Distinct, IncidentMap, RegistryOK
<1>4. ASSUME NEW u \in Threads PROVE ThreadOK(u)'
  BY <1>1, <1>2 DEF ThreadOK, Creating, Working, Progress, Upcoming, Of, Marked, BegunOnDisk
<1>5. Exclusive' /\ Survives' /\ (thread \in [Threads -> ThreadStates])'
  BY <1>1, <1>2 DEF Exclusive, Survives, Keeps, Loads, Numbers
<1>6. Counted'
  BY <1>1, <1>2 DEF Counted, Numbering, Inserting
<1> QED
  BY <1>3, <1>4, <1>5, <1>6, PartsAfter

\* The invariant is inductive.
LEMMA NextInv == ServerInv /\ [Next]_vars => ServerInv'
<1> SUFFICES ASSUME ServerInv, [Next]_vars PROVE ServerInv'
  OBVIOUS
<1>1. CASE OpenStore
  BY <1>1, OpenStoreKeeps
<1>2. CASE \E t \in Threads, kind \in Kinds : CreateIncident(t, kind)
  BY <1>2, CreateKeeps
<1>3. CASE \E t \in Threads, id \in DOMAIN memory, approval \in {"APPROVED", "REJECTED"} :
             Resume(t, id, approval)
  BY <1>3, ResumeKeeps
<1>4. CASE \E t \in Threads : Step(t)
  BY <1>4, StepKeeps
<1>5. CASE Crash
  BY <1>5, CrashKeeps
<1>6. CASE UNCHANGED vars
  BY <1>6, StutterKeeps
<1> QED
  BY <1>1, <1>2, <1>3, <1>4, <1>5, <1>6 DEF Next

\* The invariant holds in every state that can be reached.
LEMMA AlwaysInv == Spec => []ServerInv
BY InitInv, NextInv, PTL DEF Spec

-----------------------------------------------------------------------------
(* The theorems.                                                           *)

\* What the process knows of an incident, and what its file says.
LEMMA RecordsOK ==
    ASSUME ServerInv, NEW r \in Records
    PROVE  RecordOK(r) /\ r.number \in 1 .. MaxRequests
<1>1. StoreOK
  BY Parts
<1>2. CASE \E id \in DOMAIN memory : r = memory[id]
  BY <1>1, <1>2 DEF StoreOK, ContentOK, RecordOK
<1>3. CASE file # Torn /\ \E id \in DOMAIN file : r = file[id]
  BY <1>1, <1>3 DEF StoreOK, ContentOK, RecordOK
<1> QED
  BY <1>2, <1>3 DEF Records

\* The server's state is of its types through saves, failed saves and crashes:
\* the lock, the registry and the store know the threads that use them, and ids
\* and numbers never outgrow the requests.
THEOREM ServerTypeCorrect == Spec => []ServerTypeOK
<1>1. ServerInv => ServerTypeOK
  BY DEF ServerInv
<1> QED
  BY <1>1, AlwaysInv, PTL

\* Once a completed save has written it, an incident is known to every process
\* under an id of its own, unless a crash has found the file torn or unreadable.
THEOREM NeverForgotten == Spec => []NothingForgotten
<1>1. ServerInv => NothingForgotten
  BY Parts DEF NothingForgotten, Survives, Keeps
<1> QED
  BY <1>1, AlwaysInv, PTL

\* However often the process dies, no action is performed once more without a
\* begin of it that the disk refused to record.
THEOREM RepeatsNeedRefusals == Spec => []RepeatsAreUnrecorded
<1>1. ServerInv => RepeatsAreUnrecorded
  BY DEF ServerInv, RepeatsAreUnrecorded
<1> QED
  BY <1>1, AlwaysInv, PTL

\* Whatever says that an incident is remediated is right, or says itself that it
\* did nothing.
THEOREM RemediatedTellsTruth == Spec => []RemediatedIsTrue
<1>1. ServerInv => RemediatedIsTrue
  BY RecordsOK DEF RemediatedIsTrue, RecordOK
<1> QED
  BY <1>1, AlwaysInv, PTL

\* A success that did nothing belongs to an execution that began before the
\* tools were registered.
THEOREM NoopNeedsColdStart == Spec => []NoopOnlyWhenCold
<1>1. ServerInv => NoopOnlyWhenCold
  BY RecordsOK DEF NoopOnlyWhenCold, RecordOK
<1> QED
  BY <1>1, AlwaysInv, PTL

\* No record of an incident whose action has been performed more often than its
\* begin went unrecorded looks, in memory or on disk, as if it had not begun.
THEOREM InterruptedAlwaysVisible == Spec => []InterruptedIsVisible
<1>1. ServerInv => InterruptedIsVisible
  BY RecordsOK DEF InterruptedIsVisible, RecordOK, Begun
<1> QED
  BY <1>1, AlwaysInv, PTL
=============================================================================
