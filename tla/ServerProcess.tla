---------------------------- MODULE ServerProcess ----------------------------
(***************************************************************************)
(* The server as a process that may die: backend/services/store.py with    *)
(* its file, the tool registry of backend/mcp/registry.py that is built on *)
(* first use, and the workflow as far as the two can tell, which is what   *)
(* each node writes into the incident before it saves it.                  *)
(*                                                                         *)
(* A save locks the store, truncates the file, dumps ALL incidents and     *)
(* closes the file; other threads go on changing the fields of theirs.     *)
(* The dump is taken when the save ends: nothing tells a dump taken        *)
(* earlier from changes that come later.  The disk may refuse a save: a    *)
(* file that cannot be opened stays what it was, one that cannot be        *)
(* completed is torn.                                                      *)
(*                                                                         *)
(* Requests about one incident come one at a time here (IncidentWorkflow   *)
(* has the others); requests about different incidents run concurrently.   *)
(***************************************************************************)
EXTENDS Integers, FiniteSets

CONSTANTS
    Threads,
    Offered,        \* the kinds of incident a request may create, by its place among them
    MaxRequests,    \* bound: requests served in a behaviour, crashes or not
    MaxCrashes,     \* bound: crashes in a behaviour
    MaxRefusals,    \* bound: saves the disk refuses in a behaviour
    None,
    Torn            \* the content of a file that was truncated and not completed

\* Executed at once, after an approval, or after an approval and by a read tool.
Kinds == {"auto", "human", "listing"}

ASSUME OfferedAssumption == Offered \in [1 .. MaxRequests -> SUBSET Kinds]

\* The server's threads come from a pool; none of them is None.
ASSUME ThreadsAssumption ==
    IsFiniteSet(Threads) /\ None \notin Threads /\ MaxRequests \in Nat

VARIABLES
    file,           \* data/incidents.json: the incidents by id, or Torn
    open,           \* get_store() has made the store of this process
    memory,         \* IncidentStore._incidents
    seq,            \* IncidentStore._seq
    lock,           \* the thread that saves, or None
    registry,       \* the published registry: absent, created, reading, filled
    registrar,      \* the thread that builds it, or None
    thread,         \* what each request thread does next, and for which incident
    requests,       \* requests accepted so far
    crashes,        \* crashes so far
    refusals,       \* saves refused so far
    performed,      \* history: how often the action of an incident has been performed
    unrecorded,     \* history: how often its execution began and the file kept the old record
    stored,         \* history: the incidents created, by number
    saved,          \* history: those of them a completed save has written
    lost,           \* history: those of them a crash left no readable file of
    cold            \* history: the incidents executed before the registry was filled

volatile == <<open, memory, seq, lock, registry, registrar, thread>>
history == <<performed, unrecorded, stored, saved, lost, cold>>
vars == <<file, volatile, requests, crashes, refusals, history>>

\* An incident is known to the world by its id, and told apart by its number.
Incident(number, kind) ==
    [number |-> number, kind |-> kind, status |-> "DETECTED", policy |-> None,
     approval |-> "NOT_REQUIRED", execution |-> "PENDING", output |-> "none"]

Decision(kind) == IF kind = "auto" THEN "AUTO" ELSE "APPROVAL_REQUIRED"

\* The model recommended a read tool, which answers a list.
Reads(kind) == kind = "listing"

Idle == [at |-> "idle", id |-> 0, kind |-> None, next |-> "idle"]

Busy(id) == \E t \in Threads : thread[t].at # "idle" /\ thread[t].id = id

Init ==
    /\ file = << >>
    /\ open = FALSE
    /\ memory = << >>
    /\ seq = 0
    /\ lock = None
    /\ registry = "absent"
    /\ registrar = None
    /\ thread = [t \in Threads |-> Idle]
    /\ requests = 0
    /\ crashes = 0
    /\ refusals = 0
    /\ performed = [n \in 1 .. MaxRequests |-> 0]
    /\ unrecorded = [n \in 1 .. MaxRequests |-> 0]
    /\ stored = {}
    /\ saved = {}
    /\ lost = {}
    /\ cold = {}

-----------------------------------------------------------------------------
(* The store.                                                              *)

\* ExecutionResult.output is a dict; a list is dumped, and refused on loading.
Loads(content) == content # Torn /\ \A id \in DOMAIN content : content[id].output # "list"

Highest(ids) == CHOOSE n \in ids \union {0} : \A m \in ids : m <= n

\* Faulty variant: the ids go on after the number of incidents.
OpenStoreCounting ==
    /\ ~open
    /\ open' = TRUE
    /\ memory' = IF Loads(file) THEN file ELSE << >>
    /\ seq' = Cardinality(DOMAIN memory')
    /\ UNCHANGED <<file, lock, registry, registrar, thread, requests, crashes, refusals, history>>

\* Faulty variant: what was interrupted is offered for approval again.
OpenStoreReopening ==
    /\ ~open
    /\ open' = TRUE
    /\ memory' = IF ~Loads(file) THEN << >>
                 ELSE [id \in DOMAIN file |->
                         IF file[id].status = "EXECUTING" /\ file[id].policy = "APPROVAL_REQUIRED"
                         THEN [file[id] EXCEPT !.status = "AWAITING_APPROVAL", !.approval = "PENDING"]
                         ELSE file[id]]
    /\ seq' = Highest(DOMAIN memory')
    /\ UNCHANGED <<file, lock, registry, registrar, thread, requests, crashes, refusals, history>>

\* get_store, for the first request of any kind; the store is published when
\* it is complete.  A file that cannot be read counts as none.
OpenStore ==
    /\ ~open
    /\ open' = TRUE
    /\ memory' = IF Loads(file) THEN file ELSE << >>
    /\ seq' = Highest(DOMAIN memory')
    /\ UNCHANGED <<file, lock, registry, registrar, thread, requests, crashes, refusals, history>>

\* update and create: the lock is held from here to the end of the save.
BeginSave(t) ==
    /\ thread[t].at = "save"
    /\ lock = None
    /\ lock' = t
    /\ file' = Torn
    /\ thread' = [thread EXCEPT ![t].at = "saving"]
    /\ UNCHANGED <<open, memory, seq, registry, registrar, requests, crashes, refusals, history>>

\* The next step of a thread whose save has ended.
Resumed(t) ==
    thread' = [thread EXCEPT ![t] =
                 IF @.next = "idle" THEN Idle ELSE [@ EXCEPT !.at = thread[t].next]]

\* The incidents of a store, or of a file, by number.
Numbers(content) == {content[id].number : id \in DOMAIN content}

EndSave(t) ==
    /\ thread[t].at = "saving"
    /\ file' = memory
    /\ saved' = saved \union Numbers(memory)
    /\ lock' = None
    /\ Resumed(t)
    /\ UNCHANGED <<open, memory, seq, registry, registrar, requests, crashes, refusals,
                   performed, unrecorded, stored, lost, cold>>

\* One more save that the disk refuses.
Refused == refusals < MaxRefusals /\ refusals' = refusals + 1

\* Faulty variant: the refused save does not give the lock back.
FailSaveKeepsLock(t) ==
    /\ thread[t].at = "saving"
    /\ Refused
    /\ Resumed(t)
    /\ UNCHANGED <<file, open, memory, seq, lock, registry, registrar, requests, crashes, history>>

\* The disk refuses what is written: the error is swallowed, the file is torn.
FailSave(t) ==
    /\ thread[t].at = "saving"
    /\ Refused
    /\ lock' = None
    /\ Resumed(t)
    /\ UNCHANGED <<file, open, memory, seq, registry, registrar, requests, crashes, history>>

\* Only BeginExecution saves before it looks its tool up.
BeginsExecution(t) == thread[t].next = "lookup"

\* The disk refuses to open the file: the error is swallowed as well, and the
\* file stays what it was.
RefuseSave(t) ==
    /\ thread[t].at = "save"
    /\ lock = None
    /\ Refused
    /\ Resumed(t)
    /\ unrecorded' = IF BeginsExecution(t)
                     THEN [unrecorded EXCEPT ![memory[thread[t].id].number] = @ + 1]
                     ELSE unrecorded
    /\ UNCHANGED <<file, open, memory, seq, lock, registry, registrar, requests, crashes,
                   performed, stored, saved, lost, cold>>

-----------------------------------------------------------------------------
(* A new incident.                                                         *)

CreateIncident(t, kind) ==
    /\ thread[t] = Idle
    /\ requests < MaxRequests
    /\ kind \in Offered[requests + 1]
    /\ requests' = requests + 1
    /\ thread' = [thread EXCEPT ![t].at = "number", ![t].kind = kind]
    /\ UNCHANGED <<file, open, memory, seq, lock, registry, registrar, crashes,
                   refusals, history>>

NextIncidentId(t) ==
    /\ thread[t].at = "number"
    /\ open
    /\ lock = None
    /\ seq' = seq + 1
    /\ thread' = [thread EXCEPT ![t].at = "insert", ![t].id = seq + 1]
    /\ UNCHANGED <<file, open, memory, lock, registry, registrar, requests, crashes,
                   refusals, history>>

\* The number of an incident is the next one no incident has had.
Number == Cardinality(stored) + 1

\* The incidents with one more.
Listed(id, r) == [i \in DOMAIN memory \union {id} |-> IF i = id THEN r ELSE memory[i]]

\* create: the incident is listed and saved under one lock, if the file opens.
Insert(t) ==
    /\ thread[t].at = "insert"
    /\ lock = None
    /\ memory' = Listed(thread[t].id, Incident(Number, thread[t].kind))
    /\ stored' = stored \union {Number}
    /\ \/ /\ lock' = t
          /\ file' = Torn
          /\ thread' = [thread EXCEPT ![t].at = "saving", ![t].next = "classify"]
          /\ UNCHANGED refusals
       \/ /\ Refused
          /\ thread' = [thread EXCEPT ![t].at = "classify"]
          /\ UNCHANGED <<file, lock>>
    /\ UNCHANGED <<open, seq, registry, registrar, requests, crashes, performed, unrecorded,
                   saved, lost, cold>>

-----------------------------------------------------------------------------
(* The workflow.  A node changes the fields of the shared incident, and    *)
(* then saves.                                                             *)

Of(t) == memory[thread[t].id]

\* The node at step `at` makes the incident r and saves it; `next` follows.
NodeSaves(t, at, r, next) ==
    /\ thread[t].at = at
    /\ memory' = [memory EXCEPT ![thread[t].id] = r]
    /\ thread' = [thread EXCEPT ![t].at = "save", ![t].next = next]
    /\ UNCHANGED <<file, open, seq, lock, registry, registrar, requests, crashes, refusals>>

\* The node at step `at` has made the incident r and not saved it yet.
NodeWrites(t, at, r, next) ==
    /\ thread[t].at = at
    /\ memory' = [memory EXCEPT ![thread[t].id] = r]
    /\ thread' = [thread EXCEPT ![t].at = next]
    /\ UNCHANGED <<file, open, seq, lock, registry, registrar, requests, crashes, refusals>>

\* classify and the nodes up to the plan, of which nothing is kept here.
Classify(t) ==
    /\ NodeSaves(t, "classify", [Of(t) EXCEPT !.status = "INVESTIGATING"], "policy")
    /\ UNCHANGED history

\* policy_check: first the decision, then what follows from it.
PolicyCheck(t) ==
    /\ NodeWrites(t, "policy", [Of(t) EXCEPT !.policy = Decision(Of(t).kind)], "propose")
    /\ UNCHANGED history

Proposed(r) ==
    IF r.policy = "AUTO" THEN r
    ELSE [r EXCEPT !.approval = "PENDING", !.status = "AWAITING_APPROVAL"]

Propose(t) ==
    /\ NodeSaves(t, "propose", Proposed(Of(t)), "dispatch")
    /\ UNCHANGED history

\* The end of run_workflow.
DispatchAuto(t) ==
    /\ thread[t].at = "dispatch"
    /\ Of(t).policy = "AUTO"
    /\ thread' = [thread EXCEPT ![t].at = "execute"]
    /\ UNCHANGED <<file, open, memory, seq, lock, registry, registrar, requests, crashes,
                   refusals, history>>

DispatchApproval(t) ==
    /\ thread[t].at = "dispatch"
    /\ Of(t).policy = "APPROVAL_REQUIRED"
    /\ NodeSaves(t, "dispatch", Proposed(Of(t)), "idle")
    /\ UNCHANGED history

\* resume_workflow: the approval status, then the status, then the save.
Resume(t, id, approval) ==
    /\ thread[t] = Idle
    /\ requests < MaxRequests
    /\ open
    /\ id \in DOMAIN memory
    /\ ~Busy(id)
    /\ memory[id].approval = "PENDING"
    /\ requests' = requests + 1
    /\ memory' = [memory EXCEPT ![id].approval = approval]
    /\ thread' = [thread EXCEPT ![t] = [Idle EXCEPT !.at = "decided", !.id = id]]
    /\ UNCHANGED <<file, open, seq, lock, registry, registrar, crashes, refusals, history>>

RecordDecision(t) ==
    /\ NodeSaves(t, "decided", [Of(t) EXCEPT !.status = Of(t).approval],
                 IF Of(t).approval = "APPROVED" THEN "execute" ELSE "idle")
    /\ UNCHANGED history

Executing(r) == [r EXCEPT !.status = "EXECUTING", !.execution = "EXECUTING"]

Warmth(t) == cold' = IF registry = "filled" THEN cold ELSE cold \union {Of(t).number}

\* Faulty variant: the incident is saved only when there is a result.
BeginExecutionUnsaved(t) ==
    /\ NodeWrites(t, "execute", Executing(Of(t)), "lookup")
    /\ Warmth(t)
    /\ UNCHANGED <<performed, unrecorded, stored, saved, lost>>

BeginExecution(t) ==
    /\ NodeSaves(t, "execute", Executing(Of(t)), "lookup")
    /\ Warmth(t)
    /\ UNCHANGED <<performed, unrecorded, stored, saved, lost>>

-----------------------------------------------------------------------------
(* The registry.                                                           *)

\* get_registry on first use: published first, filled under the lock, the
\* read tools before the action tools.  Who finds it published uses it.
CreateRegistry(t) ==
    /\ thread[t].at = "lookup"
    /\ registry = "absent"
    /\ registry' = "created"
    /\ registrar' = t
    /\ thread' = [thread EXCEPT ![t].at = "register"]
    /\ UNCHANGED <<file, open, memory, seq, lock, requests, crashes, refusals, history>>

RegisterReadTools(t) ==
    /\ registrar = t
    /\ registry = "created"
    /\ registry' = "reading"
    /\ UNCHANGED <<file, open, memory, seq, lock, registrar, thread, requests, crashes,
                   refusals, history>>

RegisterActionTools(t) ==
    /\ registrar = t
    /\ registry = "reading"
    /\ registry' = "filled"
    /\ registrar' = None
    /\ thread' = [thread EXCEPT ![t].at = "lookup"]
    /\ UNCHANGED <<file, open, memory, seq, lock, requests, crashes, refusals, history>>

\* Faulty variant: the executor looks its tool up among the action tools only.
KnowsActionsOnly(kind) == registry = "filled" /\ ~Reads(kind)

Knows(kind) == registry = "filled" \/ (registry = "reading" /\ Reads(kind))

\* ToolNotFound: a success that did nothing.
RecordNoop(t) ==
    /\ thread[t].at = "lookup"
    /\ registry # "absent"
    /\ ~Knows(Of(t).kind)
    /\ NodeSaves(t, "lookup", [Of(t) EXCEPT !.execution = "SUCCESS", !.output = "no_operation",
                                            !.status = "REMEDIATED"], "idle")
    /\ UNCHANGED history

\* Faulty variant: the result is written before the call.
UseToolOptimistically(t) ==
    /\ thread[t].at = "lookup"
    /\ Knows(Of(t).kind)
    /\ NodeSaves(t, "lookup", [Of(t) EXCEPT !.status = "REMEDIATED"], "tool")
    /\ UNCHANGED history

UseTool(t) ==
    /\ thread[t].at = "lookup"
    /\ Knows(Of(t).kind)
    /\ thread' = [thread EXCEPT ![t].at = "tool"]
    /\ UNCHANGED <<file, open, memory, seq, lock, registry, registrar, requests, crashes,
                   refusals, history>>

\* The call has taken effect.
Perform(t) ==
    /\ thread[t].at = "tool"
    /\ performed' = [performed EXCEPT ![Of(t).number] = @ + (IF Reads(Of(t).kind) THEN 0 ELSE 1)]
    /\ thread' = [thread EXCEPT ![t].at = "audit"]
    /\ UNCHANGED <<file, open, memory, seq, lock, registry, registrar, requests, crashes,
                   refusals, unrecorded, stored, saved, lost, cold>>

\* The call fails, or its answer comes too late or not at all; the incident
\* stays EXECUTING.
ToolFails(t) ==
    /\ \E at \in {"tool", "audit"} :
          NodeSaves(t, at, [Of(t) EXCEPT !.execution = "FAILED"], "idle")
    /\ UNCHANGED history

Audit(t) ==
    /\ NodeSaves(t, "audit",
                 [Of(t) EXCEPT !.execution = "SUCCESS",
                               !.output = IF Reads(Of(t).kind) THEN "list" ELSE "dict"], "verify")
    /\ UNCHANGED history

\* A read tool has no verification, which counts as a failed one.
Verify(t) ==
    /\ thread[t].at = "verify"
    /\ \E status \in {"REMEDIATED", "VERIFICATION_FAILED"} :
          /\ Reads(Of(t).kind) => status = "VERIFICATION_FAILED"
          /\ NodeSaves(t, "verify", [Of(t) EXCEPT !.status = status], "idle")
    /\ UNCHANGED history

-----------------------------------------------------------------------------
(* The process.                                                            *)

\* Everything but the file is gone, and the next process starts.
Crash ==
    /\ crashes < MaxCrashes
    /\ crashes' = crashes + 1
    /\ open' = FALSE
    /\ memory' = << >>
    /\ seq' = 0
    /\ lock' = None
    /\ registry' = "absent"
    /\ registrar' = None
    /\ thread' = [t \in Threads |-> Idle]
    /\ lost' = IF Loads(file) THEN lost ELSE saved
    /\ UNCHANGED <<file, requests, refusals, performed, unrecorded, stored, saved, cold>>

Step(t) ==
    \/ BeginSave(t) \/ EndSave(t) \/ FailSave(t) \/ RefuseSave(t)
    \/ NextIncidentId(t) \/ Insert(t)
    \/ Classify(t) \/ PolicyCheck(t) \/ Propose(t) \/ DispatchAuto(t) \/ DispatchApproval(t)
    \/ RecordDecision(t) \/ BeginExecution(t)
    \/ CreateRegistry(t) \/ RegisterReadTools(t) \/ RegisterActionTools(t)
    \/ RecordNoop(t) \/ UseTool(t) \/ Perform(t) \/ ToolFails(t) \/ Audit(t) \/ Verify(t)

Next ==
    \/ OpenStore
    \/ \E t \in Threads, kind \in Kinds : CreateIncident(t, kind)
    \/ \E t \in Threads, id \in DOMAIN memory, approval \in {"APPROVED", "REJECTED"} :
          Resume(t, id, approval)
    \/ \E t \in Threads : Step(t)
    \/ Crash

Spec == Init /\ [][Next]_vars
=============================================================================
