----------------------------- MODULE ServerSafety -----------------------------
(* What survives a crash, and what a record says about the cluster. *)
EXTENDS ServerProcess

Statuses ==
    {"DETECTED", "INVESTIGATING", "AWAITING_APPROVAL", "APPROVED", "REJECTED", "EXECUTING",
     "REMEDIATED", "VERIFICATION_FAILED"}

Approvals == {"NOT_REQUIRED", "PENDING", "APPROVED", "REJECTED"}

IncidentRecords ==
    [number : 1 .. MaxRequests, kind : Kinds, status : Statuses,
     policy : {"AUTO", "APPROVAL_REQUIRED", None}, approval : Approvals,
     execution : {"PENDING", "EXECUTING", "SUCCESS", "FAILED"},
     output : {"none", "no_operation", "dict", "list"}]

Places ==
    {"idle", "number", "insert", "save", "saving", "classify", "policy", "propose", "dispatch",
     "decided", "execute", "lookup", "register", "tool", "audit", "verify"}

ThreadStates ==
    [at : Places, id : 0 .. MaxRequests, kind : Kinds \union {None}, next : Places]

\* The incidents of a store, or of a file, by their ids.
IncidentMap(content) ==
    /\ DOMAIN content \subseteq 1 .. MaxRequests
    /\ content \in [DOMAIN content -> IncidentRecords]

\* The incidents this process knows and those the next one would load.
Records ==
    {memory[id] : id \in DOMAIN memory}
      \union (IF file = Torn THEN {} ELSE {file[id] : id \in DOMAIN file})

\* A thread that is at work on a listed incident.
Working(t) == thread[t].at \notin {"idle", "number", "insert"}

\* The types of the server's state, and that the lock, the registry and the
\* store know the threads that use them.
ServerTypeOK ==
    /\ open \in BOOLEAN /\ seq \in 0 .. MaxRequests /\ requests \in 0 .. MaxRequests
    /\ IncidentMap(memory) /\ \A id \in DOMAIN memory : id <= seq
    /\ file = Torn \/ IncidentMap(file)
    /\ lock \in Threads \union {None} /\ registrar \in Threads \union {None}
    /\ registry \in {"absent", "created", "reading", "filled"}
    /\ registrar # None <=> registry \in {"created", "reading"}
    /\ thread \in [Threads -> ThreadStates]
    /\ \A t \in Threads :
          /\ thread[t].at = "saving" <=> lock = t
          /\ thread[t].at = "register" <=> registrar = t
          /\ Working(t) => thread[t].id \in DOMAIN memory
    /\ performed \in [1 .. MaxRequests -> Nat] /\ crashes \in Nat
    /\ unrecorded \in [1 .. MaxRequests -> Nat] /\ refusals \in Nat
    /\ stored \subseteq 1 .. MaxRequests /\ stored = 1 .. Cardinality(stored)
    /\ saved \union cold \subseteq stored /\ lost \subseteq saved

\* No incident is forgotten and none takes another's id: once a save that came
\* to its end has written it, every process knows it, however many saves are
\* refused from then on, unless a crash finds the file torn or unreadable
\* (store.py:3, "Records are persisted ... so the Web UI / evaluation can
\* inspect them after restarts").
NothingForgotten ==
    \A n \in saved \ lost : n \in Numbers(IF open THEN memory ELSE file)

\* A crash makes an action happen once more only if the file could not be opened
\* to record that its execution begins: each repetition has such a refusal of
\* its own (store.py:54, nodes.py:121-124, graph.py:157-162).
RepeatsAreUnrecorded == \A n \in 1 .. MaxRequests : performed[n] <= unrecorded[n] + 1

\* What is recorded as remediated, in memory or on disk, has been performed, or
\* the record itself says that its success did nothing (nodes.py:147-157).
RemediatedIsTrue ==
    \A r \in Records :
        r.status = "REMEDIATED" => performed[r.number] > 0 \/ r.output = "no_operation"

\* A success that did nothing is recorded by those executions only that began
\* before the process had filled its registry (registry.py:258).
NoopOnlyWhenCold ==
    \A r \in Records : r.output = "no_operation" => r.number \in cold

\* An interrupted execution can be recognised: when the action of an incident
\* has been performed more often than its begin went unrecorded, every record
\* of it, in memory or on disk, says at least EXECUTING (nodes.py:122).
InterruptedIsVisible ==
    \A r \in Records :
        performed[r.number] > unrecorded[r.number] =>
            r.status \in {"EXECUTING", "REMEDIATED", "VERIFICATION_FAILED"}

-----------------------------------------------------------------------------
(* The inductive invariant behind them.                                    *)

Begun == {"EXECUTING", "REMEDIATED", "VERIFICATION_FAILED"}

\* A record, in memory or on disk, says what has become of its incident.
RecordOK(r) ==
    /\ r.number \in stored
    /\ performed[r.number] > unrecorded[r.number] => r.status \in Begun /\ r.approval # "PENDING"
    /\ r.status = "REMEDIATED" => performed[r.number] > 0 \/ r.output = "no_operation"
    /\ r.output = "no_operation" => r.number \in cold
    /\ r.policy # "APPROVAL_REQUIRED" => r.approval = "NOT_REQUIRED"

\* No two of the incidents are the same one.
Distinct(content) ==
    \A a, b \in DOMAIN content : content[a].number = content[b].number => a = b

\* What is saved and not lost is there.
Keeps(content) == saved \ lost \subseteq Numbers(content)

ContentOK(content) ==
    Distinct(content) /\ \A id \in DOMAIN content : RecordOK(content[id])

\* The file never tells that the execution of an incident has not begun.
BegunOnDisk(number) ==
    file = Torn \/ \A id \in DOMAIN file :
        file[id].number = number => file[id].status \in Begun /\ file[id].approval # "PENDING"

\* The file tells that the execution has begun, or one of its begins went
\* unrecorded and the action has not been performed for it.
Marked(number) == BegunOnDisk(number) \/ performed[number] < unrecorded[number]

\* What a thread does next with its incident, once a save it waits for ends.
Upcoming(t) == IF thread[t].at \in {"save", "saving"} THEN thread[t].next ELSE thread[t].at

\* How far the thread has come with its incident.
Progress(t) ==
    /\ thread[t].at \in {"save", "saving"} =>
          thread[t].next \in {"idle", "classify", "policy", "dispatch", "execute", "lookup",
                              "verify"}
    /\ Upcoming(t) \in {"classify", "policy", "propose", "dispatch", "decided", "execute",
                         "lookup", "register", "tool"} =>
          performed[Of(t).number] <= unrecorded[Of(t).number]
    /\ Upcoming(t) \in {"classify", "policy"} => Of(t).approval = "NOT_REQUIRED"
    /\ Upcoming(t) = "propose" => Of(t).policy \in {"AUTO", "APPROVAL_REQUIRED"}
    /\ Upcoming(t) = "decided" =>
          Of(t).policy = "APPROVAL_REQUIRED" /\ Of(t).approval \in {"APPROVED", "REJECTED"}
    /\ Upcoming(t) \in {"execute", "lookup", "register", "tool"} => Of(t).approval # "PENDING"
    /\ Upcoming(t) \in {"lookup", "register", "tool", "audit", "verify"} =>
          Of(t).status = "EXECUTING"
    /\ Upcoming(t) \in {"lookup", "register"} /\ registry # "filled" => Of(t).number \in cold
    /\ Upcoming(t) \in {"audit", "verify"} =>
          Of(t).approval # "PENDING" /\ (Reads(Of(t).kind) \/ performed[Of(t).number] > 0)
    /\ thread[t].at \in {"lookup", "register", "tool"} => Marked(Of(t).number)

\* A new incident has its kind and, when it is inserted, an id of its own.
Creating(t) ==
    /\ thread[t].at \in {"number", "insert"} => thread[t].kind \in Kinds
    /\ thread[t].at \notin {"idle", "number"} => open
    /\ thread[t].at = "insert" => thread[t].id \in (1 .. seq) \ DOMAIN memory

\* Every thread works on an incident of its own.
Exclusive ==
    \A t, u \in Threads :
        t # u /\ thread[t].at \notin {"idle", "number"} /\ thread[u].at \notin {"idle", "number"}
          => thread[t].id # thread[u].id

\* The threads that create an incident and have no id yet, or one.
Numbering == {t \in Threads : thread[t].at = "number"}
Inserting == {t \in Threads : thread[t].at \in {"number", "insert"}}

\* The requests accepted are enough for every id and every number.
Counted ==
    /\ Cardinality(stored) + Cardinality(Inserting) <= requests
    /\ seq + Cardinality(Numbering) <= requests
    /\ file = Torn \/ \A id \in DOMAIN file : id + Cardinality(Numbering) <= requests

\* What is in the file survives; what is not, is known to be lost.
Survives ==
    /\ Loads(file) => Keeps(file)
    /\ open => Keeps(memory)
    /\ ~open => memory = << >> /\ (Loads(file) \/ lost = saved)

ServerInv ==
    /\ ServerTypeOK
    /\ lock # None => file = Torn
    /\ \A n \in 1 .. MaxRequests :
          /\ performed[n] <= unrecorded[n] + 1
          /\ performed[n] + unrecorded[n] > 0 => n \in stored
    /\ ContentOK(memory)
    /\ file = Torn \/ ContentOK(file)
    /\ \A t \in Threads : Creating(t) /\ (Working(t) => Progress(t))
    /\ Exclusive
    /\ Counted
    /\ Survives
=============================================================================
