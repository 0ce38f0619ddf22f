# A verification of the LLM-assisted observability platform

This directory specifies the platform in TLA+: which remediation the policy
engine allows, how a request thread takes an incident from its detection to a
verified remediation, how security findings are scanned, approved and
remediated; what a crash leaves of the incidents, what an outage does to the
Kubernetes adapter and to the retrieval of knowledge, and whether the simulated
cluster, the detector, the catalogue of findings and the replay agree with each
other. TLC checks the specifications on small
instances; TLAPS proves the most important guarantees for all values of the
constants. Paths below are relative to the repository; `security.py:528` is
short for `backend/services/security.py:528`, and so on.

To repeat a check: `tlc -config Workflow_serial.cfg MCIncidentWorkflow`. To
repeat a proof: `tlapm WorkflowProofs.tla`, and so on for each module whose
name ends with `Proofs`.

## The system

A FastAPI application. Its handlers are plain functions, so each request runs
on a thread of a pool, and several run at once. They share, inside one process,
the incident store, the tool registry, the findings, the graphs and the
simulated cluster; each is a module-level object that is created on first use.

| part | state it keeps | operations | how it can go wrong |
| --- | --- | --- | --- |
| policy engine, `policy/engine.py` | none; two tables of rules, limits from the settings | `evaluate`, `evaluate_finding` | a limit that is off by one, a wildcard rule that covers too much, an exception that leaves a permission |
| tool executor, `mcp/registry.py`, and action tools, `mcp/tools_actions.py` | the registered tools | `execute`: validate, authorise, run with a timeout, audit, verify | a call that takes effect after its timeout, a guard that disagrees with the engine, a registry that is published before it is filled |
| incident workflow, `workflows/`, with `api/incidents.py` and `api/approvals.py` | the fields of each `Incident`, shared by reference | create, detect, re-run, approve, reject; thirteen nodes in two graphs | two requests on one incident: checked and used approvals, plans replaced between check and use, results of another run; nodes that raise half-way |
| planner, `agents/remediation.py`, and language model, `services/llm.py` | none | action and parameters of a plan | a plan that is stale when approved; any text as the model's recommended action |
| security findings, `services/security.py` and `api/security.py` | the findings, the id counter, whether the scan was run, a lock | scan, create, list, decide, reset | decisions take no lock; ids taken before the lock; ids given out again after a reset; cluster calls under the lock |
| simulated cluster, `services/simulation.py`, and adapter, `services/kube.py` | replica counts, pods, bindings, certificate, configurations; clients and a cached probe | four actions and a configuration change, and reads of all of them | calls to a live cluster fail, before or after they take effect; the mode may change between two calls |
| incident store, `services/store.py` | the incidents, a sequence number, a JSON file | create, get, update, clear, load | a torn file after a crash, an old file after a refused save, dumping objects that others change |
| detector, `services/detector.py` | none | thresholds over metrics | an open incident is not recognised and reported again |
| evidence and correlation, `agents/` | none | add evidence and a timeline to the incident | one malformed timestamp raises out of the investigation |
| retrieval, `services/rag.py` | the published index, its chunks and its connection; a table in Postgres and an index in OpenSearch, if they are reachable | search, reindex | a search during a rebuild, statements that commit one by one, locks on the table, a connection that outlives its server |
| replay, metrics, logs, notifications, tracing, evaluation, front end | caches | display and output | a display that is out of date |

A request for an incident goes through the parts in this order. The handler
creates or looks up the incident and runs the investigation graph on its
thread: classify, collect evidence, correlate, retrieve, diagnose (the model),
assess the risk, plan (the planner reads the cluster), check the policy. The
handler's thread then reads the decision back from the shared incident:
`AUTO` runs the execution graph, `APPROVAL_REQUIRED` opens an approval,
anything else ends the request. An approval, on another thread, runs the
execution graph with the flag `approved`. The execution graph hands the plan and
the decision the incident holds *by then* to the tool executor, which calls the
adapter; a successful call is verified, a failed one goes straight to
`finalize`. Findings bypass the executor: `security.py` asks the policy engine
and then calls the adapter itself.

What makes the parts correct, in one line each:

- engine: an action without a human is a bounded scale for high CPU, or a
  recovery of an application workload; an evaluation that fails allows nothing;
- executor: nothing changes the cluster that was not allowed, nor without the
  human the decision asks for, nor beyond the configured limits;
- workflow: the same whatever the threads do, one effect per decision, exactly
  what was evaluated, a record that tells the truth, and that is closed in the
  end unless a human is waited for or an execution has failed;
- findings: the same for their layers, a scan that is seen as a whole, and a lock
  that is always given back;
- store: an incident that has been saved survives a crash unless the file is torn,
  ids are unique, a crash repeats no action whose begin was saved;
- adapter: a request acts on one world, and a cluster that comes back is found;
- demonstration: what is called remediated is cured, every proposal can be
  carried out and verified, hints, logs and replays tell the truth;
- retrieval: a reindexing takes effect where it reaches, a search finds all.

## The modules

| module | models | role |
| --- | --- | --- |
| `PolicyEngine` | `policy/engine.py` | both rule tables and guardrails, as operators |
| `ActionTools` | `mcp/registry.py` (`_authorize`), `mcp/tools_actions.py`, `mcp/validator.py` | extends `PolicyEngine` with the gate in front of every tool |
| `PolicyRequests` | one request to both | a small machine: asked, decided, performed or refused |
| `IncidentWorkflow` | `workflows/`, `api/incidents.py`, `api/approvals.py`, the planner, the executor's steps, the cluster | the core: request threads on shared incidents |
| `PolicyGate` | nothing in particular | the abstract promise: act only if allowed, and once per consent |
| `WorkflowSafety` | | properties of the workflow, its inductive invariant, the refinement mapping |
| `SecurityFindings` | `services/security.py`, `api/security.py` | findings, their store and its lock |
| `FindingsSafety` | | properties of the findings |
| `DemoCluster` | `services/simulation.py`, `services/detector.py`, the verification functions | the simulated cluster as a value: its state, what actions do to it, what is read off it |
| `FindingsCatalogue` | the tables of `services/security.py` | the findings of the scan and the lab's scenarios with their hints |
| `DemoLoop` | both pipelines on the simulated cluster | extends the two above: detect, decide, act, detect again, one request at a time |
| `WorkflowReplay` | `api/workflow.py` | the steps of an incident's replay, as operators |
| `DemoSafety` | | properties of the demonstration |
| `ServerProcess` | `services/store.py`, `get_registry` | the process with its file and its registry, which may die at any moment |
| `ServerSafety` | | properties of the records |
| `ClusterAdapter` | `services/kube.py` | probe, cached answer and clients, used by threads without a lock |
| `AdapterSafety` | | properties of the adapter |
| `KnowledgeRetrieval` | `services/rag.py`, `api/knowledge.py` | index, stores, searches and reindexings |
| `RetrievalSafety` | | properties of the retrieval |
| `MC...` | | instances for TLC |
| `PolicyEngineProofs` | | lemmas about the operators of the two gates, which the other proofs use |
| `PolicyRequestsProofs`, `WorkflowProofs` | | theorems of the gates and of the workflow |
| `FindingsProofs`, `DemoProofs`, `ServerProofs`, `AdapterProofs`, `RetrievalProofs` | | theorems of these components |

Properties are kept apart from the actions, and the definitions called
*faulty variant* are mutations of the operator that follows them: each turns
one property of one run false, which shows that the property depends on it.

### Plans and decisions

A plan is the action and the four parameters any guard looks at. A name missing
from the dict is `Absent`; a missing number is 0, which is what the engine's
`int(... or 0)` makes of it. `Evaluate` is `_evaluate` followed by
`_apply_guardrails`; `FailClosed` is what both `except` branches return.
`ArgumentsValid` is the executor's validation for the plans the planner can
build: of the registered tools only `apply_security_config` has required
parameters for which `_build_params` supplies nothing.

### The incident workflow

`incident[i]` holds the fields of the shared object that control anything: the
status, the approval status, the model's recommendation (`advice`), the planned
action (`recommended`), the decision (`policy`), the execution status, the
verdict inside the execution result (`NONE` when it has no verification) and the
verification status. `ABSENT` stands for an id nobody has created yet.

`thread[t]` is a request thread: the step it takes next, the request it serves,
and what it has captured. The captured plan and decision are the arguments of
`ToolRegistry.execute`: from there on the thread no longer looks at the shared
incident for them.

One action is one node, except that a node is split where the thread is known to
block between two accesses to shared state: `execute` writes `EXECUTING`,
flushes the store, reads plan and decision, calls the tool, audits, verifies,
writes the result. The check and the assignments of `resume_workflow` are two
steps, since nothing makes them one. The handler's own PENDING check, the store
lookup and the 409 are the guard of `RequestDecision`. Evidence, correlation and
retrieval are one step, since what they write is read by the model only;
diagnosis and risk are another.

| code | actions |
| --- | --- |
| `create_incident`, `run_detector` / `run_incident_workflow` / `approve_or_reject` | `CreateIncident` / `RerunIncident` / `RequestDecision` |
| investigation graph | `Classify`, `Investigate`, `InvestigationRaises`, `Diagnose`, `PlanRemediation`, `PolicyCheck` |
| end of `run_workflow` | `Dispatch` |
| `resume_workflow` | `CheckPending`, `Approve`, `Reject` |
| node `execute` | `BeginExecution`, `RefuseMismatch`, `RecordNoop` |
| `ToolRegistry.execute` | `RefuseTool`, `AuthorizeTool`, `ToolSucceeds`, `ToolFails`, `ToolFailsLate`, `Audit`, `CheckPostCondition` |
| node `verify` | `Verify` |

The cluster is the replica count of each deployment and the set of
post-conditions that other actions have established. `LiveCluster` says whether
calls can fail. A call that is slower than its timeout is `ToolFailsLate`: the
`with` block of `_run_with_timeout` waits for it, so that it has taken effect
when the executor reports the timeout. A restart never verifies on a live
cluster: `_pod_dict` (`kube.py:337`) names every pod's deployment "unknown".

Four history variables record what the properties talk about: the decisions that
allowed something (`granted`, `grants`) and the effects on the cluster with what
authorised them (`performed`, `effects`). No guard reads them.

### The abstract gate

`PolicyGate` knows three things: what the policy allowed for a subject, which
requester holds a consent, and what has been done for each subject. Acting needs
an `AUTO` permission, or a permission with approval *and* a consent, which the
act uses up. In the refinement a consent is held by the thread of an approval
from `Approve` to the tool, and lapses when the execution is refused.
`ImplementsGate` is checked by TLC and proved.

The gate does not say that a permission is used once: that is `EffectPerGrant`,
which the workflow keeps only while requests come one at a time.

### The security findings

A finding object is a position in the sequence `finding`, and the store lists
some of the objects. The two are kept apart because a reset drops the objects
from the store and starts the ids again while a thread may still be at work on
one of them. The lock is reentrant and held from `EnterSeed` to the last
`Insert` of a scan, and from `EnterPipeline` to `Insert` for a new finding.
`CreateFinding` takes the id (under the lock) in a step of its own, as
`_hydrate` does. `LookUp` reads the store and the finding's status without the
lock, and `Approve` and `Reject` act on the object it found.

The action of a finding is carried out by the adapter, or by the simulation even
on a live cluster for configurations; `CanFail` tells them apart. Two oddities
of the code are kept: a scale that names no count goes to 2 and is verified
against 0 (the model writes 0 for such a count, so that it has no scale to 0 by
name; after a scale to a negative count nothing is served), and the simulated
restart revives `crash-demo` whichever deployment it is called for.

### The demonstration

`DemoCluster` is `simulation.py` as a value: `InitialCluster` is
`_ensure_state`, and `Scaled`, `Restarted`, `RolledBack`, `Renewed` and
`Configured` are the `simulate_*` functions. Of a pod only what somebody compares
is kept. The generated series are constants in the code (they do not react to an
action), so that `HighCpuPoints` is the number of points over the threshold.
`Detected` is `detect`, `VerifiedByTool` and `VerifiedByFinding` are the two
sets of post-conditions, `LoggedErrors` what `app_logs` shows.

`DemoLoop` composes it with the real `PolicyEngine`, `ActionTools`, the
catalogue and the planner. A request is one action, since the questions here are
whether tables in four files agree with each other; the threads are in
`IncidentWorkflow` and `SecurityFindings`. The model's answer is the mock
provider's.

`WorkflowReplay` translates `_steps`: grouping the timeline by stations,
deriving the entries that have none, and stitching the times so that they grow.

### The server process

`file` is what the next process would load: the incidents by id, or `Torn`
between the truncation and the end of the dump. `memory`, `seq`, the lock and the
registry are gone after `Crash`. The workflow is here what its nodes write before
each save: `EXECUTING` is saved before the tool is called, so that after a
crash the record says at least that. A save dumps all incidents as they are by
then, with what other threads have changed.

The disk may refuse a save in two ways, and `_flush` swallows both: the file cannot
be opened and stays what it was, readable and old (`RefuseSave`, and the second
disjunct of `Insert`), or it has been truncated and cannot be completed
(`FailSave`). A refusal of the first kind at the save that begins an execution
leaves a file that says less than `EXECUTING` of an action that is then performed;
`unrecorded` counts those.

What the model asks of an incident is one of three kinds: executed at once, after an
approval, or after an approval and by a read tool, whose list no later process can
load. `Offered` says which of them a request may ask for, by its place.

The registry passes through `created` (published and empty), `reading` (the
read tools are there) to `filled`. A request that meets it earlier finds no tool
and records a success that did nothing; `cold` remembers which.

History: `number` tells incidents apart whatever their ids, `stored` and `lost`
say which were created and which of the saved ones a crash left no readable file
of, `saved` which a completed save has written, `performed` counts what happened in
the cluster, which no crash takes back.

### The adapter

A cluster that is made anew has a new endpoint; the configuration and each of the
three clients are the endpoint they were built with. The steps of `mode`, of
`_probe`, of `_ensure_clients` and of dropping the clients are single assignments,
because no lock protects them. `steady` is a history variable: the cached answer
of the probe has been neither replaced nor outdated since the request began.

### The retrieval

An index is its chunks, in the order they were entered, and its connection;
`rebuild_index` publishes a complete one, and `reindex` then empties and fills
it again before it turns to the stores. A query holds the table's read lock from
`BeginQuery` to `EndQuery`; the statements of a reindexing commit one by one.
`last` and `settled` are history: a reindexing that was served alone while the
files did not change, and a search that began after it and met no other.

What the model abstracts: all chunks match a query and the limit cuts none off;
scores, filters and labels are left out; the chunks are read in one order that
depends on the files only, where the code sorts paths; the vector query is not told apart from
the keyword query (a process that has not reindexed never makes it, as `_dim` is
0); the rows go in at once (the driver sends them as a batch); the list of
chunks a store is given is taken at the call, though it is shared with a rebuild of
the same index; `_refresh` belongs to the bulk request. Two ways in which a store
is reached and not reindexed are left out, as no property tells them from an outage: an
embedder that answers nothing (`rag.py:354`) and a bulk request with errors
(`rag.py:536`). With both added TLC found no violation (2,080,168 states, too many for
a run that is repeated).

## What TLC checks

| run | instance | states | shows |
| --- | --- | --- | --- |
| `policy_requests` | all 8 types and 4 layers, every plan over one listed and one unlisted name of each kind, steps -2..2 with limit 1, counts 0..3 with limit 2 | 55,980 | the gates themselves |
| `concurrent` | 2 threads, 2 incidents about one deployment, live cluster, free advice, 3 requests | 201,577 | what holds whatever the threads do |
| `serial` | 1 thread, 3 incidents, live cluster, free advice, 5 requests | 332,834 | what holds in addition while requests come one at a time |
| `fair` | 2 fair threads, 2 incidents, live cluster, 3 requests | 47,999 | every incident is closed in the end, or left open in one of three known ways |
| `findings_concurrent` | 2 fair threads, a scan of 2 findings, 2 kinds of injected findings, live cluster, 3 requests, 1 reset | 23,922 | all properties of the findings |
| `demo_loop` | the shipped cluster, catalogue, allow-lists and step, a ceiling of 3, odd reports from clients, 4 requests, 2 runs of the detector | 87,073 | that detector, planner, gates, simulation, verification, logs, hints and replay agree |
| `server_crashes` | 2 threads, 3 kinds of incident, 3 requests, 1 crash, 2 refused saves | 1,339,933 | what a crash leaves true |
| `adapter_outages` | 2 fair threads, restarts without end, 2 outages, the cluster made anew once | 220,346 | one world per request, and recovery |
| `knowledge_retrieval` | 2 fair threads, 2 chunks of which an edit leaves one, both stores, 2 reindexings, 1 search, 1 edit or outage | 493,011 | what a reindexing establishes, what searches find, that requests end |

Properties that hold for concurrent requests: `TypeOK`, `HumanInTheLoop`,
`ReplicasBounded`, `NoOrphanRecord`, `ImplementsGate`, `RequestsSettle`, and for
findings `FindingsTypeOK`, `AllowedAtLayer`, `EffectPerConsent`, `SeesWholeScan`,
`NoFindingStranded`, `RequestsAnswered`. For serial requests only:
`EffectPerGrant`, `ExecutedAsEvaluated`, `RemediatedHolds`, `DecisionIsFinal`.

What the properties of the other modules excuse is what the code does not keep:

- `RemediatedIsCured` is about crash loops, certificates and bindings. A scale for
  high CPU, high memory or an OOM kill is verified by its replicas, and the
  condition it was meant for remains.
- `EveryRemediationVerifies` excepts a `crash-demo` that was scaled out: its restart
  revives one replica.
- `NoOrphanRecord` and `RequestsSettle` let an incident stay open in three ways: it
  waits for a human; its execution failed, which leaves the status `EXECUTING` until
  somebody runs it again (`nodes.py:226` leads to `finalize`, which writes none), and
  the store counts it as open; or correlation raised in a re-run, which leaves it
  `INVESTIGATING`. They show that these are the only ones, that `EXECUTING` at rest
  always comes with a result of `FAILED`, and that no result stays `EXECUTING`.
- `NothingForgotten` speaks of incidents that a completed save has written, and excuses
  those a torn file has lost, and a file with an incident whose tool answered with a
  list (a read tool recommended by the model), which is saved and cannot be loaded: in
  both cases the next process starts empty, and from the first id. An incident the
  server has answered for is lost as well when every save since was refused.
- `RepeatsAreUnrecorded` allows one more performance for each execution whose begin the
  disk refused to record: the file still says that the approval is pending, and after a
  crash it is asked for, given and carried out again. In `server_crashes` that happens.
  `InterruptedIsVisible` excuses the same performances.
- `RemediatedIsTrue` lets a success say that it did nothing (`no_operation`);
  `NoopOnlyWhenCold` bounds these to executions that began before the registry was filled.
- `OneWorld` holds while the cached answer of the probe lasts; a request that
  takes longer may plan on the cluster and act on the simulation.
- `Recovers` holds if no failed probe overlaps another thread's use of the clients.
- The properties of the retrieval speak of a reindexing that was served alone and
  of searches outside any. Two reindexings may share one index
  (`rebuild_index` returns the published one outside its lock): its chunks are
  then doubled, the table refuses the second of them, and OpenSearch is not
  reindexed. A store that was down during a reindexing answers with its old chunks
  afterwards. An index without chunks leaves the table as it was.
- `ReachedBackendsContribute` holds for Postgres until its first outage: the index
  keeps the dead connection (`rag.py:314`), `available` opens one of its own and
  says yes, and the query fails quietly until the next reindexing.

### Bounds and why they are enough

- *Threads: 2.* Each hazard is between a check and a use, and one thread in
  between suffices to separate them.
- *Incidents: 2 or 3 about one deployment.* One the policy handles alone, one
  that needs a human, so that an automatic scale meets a pending one; the third is
  a security incident, which falls under the wildcard rule and may raise.
- *Requests (`MaxRequests`): 3 to 5.* Three are what it takes for two approvals of
  one incident, or a re-run and an approval, to be under way at once after its
  creation, and for two incidents and a decision on one; so the runs with two
  threads and with fairness have three. Four are enough for the
  counterexamples below. One thread has five: create, re-run, and three decisions or
  a second incident between them.
- *Replicas:* start at 2 or 3 with a limit of 4, so that a plan may reach the
  limit, and the next one is refused by the engine.
- *Advice:* the answers of the mock provider, and for the security incident and
  one other also a registered read tool, an action of another type, and one whose
  arguments are missing: the cases the gates tell apart.
- *Findings:* one the policy lets run alone, one that needs a human, and injected
  ones that need a human and that are not allowed at their layer. `MaxResets` 1
  gives two generations of ids.
- *Crashes: 1*, before, between or after any two writes of the three requests. The
  process that follows loads what is left and serves what is left of the requests.
- *Refused saves (`MaxRefusals`): 2*, of either kind: one that leaves an incident
  unrecorded or the begin of its execution, and one more in the process that follows.
- *Kinds (`FirstAwaited`):* the first incident needs a human, by a read tool or not, the
  second needs one or not, the third does: so the file may hold an open proposal, two
  executions may run at once, and a list may be saved beside the others.
- *Outages and clusters:* a second outage meets the clients of the first recovery;
  a second endpoint is what makes old clients wrong. The violation needs one outage.
  The adapter's runs have only the restart: it goes through two of the clients (`_apps`
  and `_api`), and a scale through one of them.
- *Chunks: 2*, so that a rebuild has a half-way state, and an edit that takes one
  away, so that what is old can be told from what is new.
- *Retrieval (`MaxReindexings` 2, `MaxSearches` 1, `MaxChanges` 1):* a reindexing, a
  change, another reindexing, and a search between, beside or after them. A change is
  an edit of the files or an outage of a store: a run has one or the other.
- *Demonstration:* four requests reach scan, decision, detection and the
  repair of what was detected. With a ceiling of 3 a second scale of one deployment
  is refused within them, also when it is the second run of an incident.
- *Symmetry:* the threads of `server_crashes` are interchangeable (`Interchangeable`):
  the module and its properties name no thread, and no temporal formula is checked
  there. Elsewhere none is used: incidents and findings differ, and symmetry
  is not sound for liveness.

The bounds keep each run within a minute or so. Larger ones were tried once, without a
violation: four requests in `concurrent` (2,049,040 states) and in
`findings_concurrent` (309,532), all kinds at every place in `server_crashes`, with two
refused saves (9,542,050) and with any number (20,724,267), scales beside restarts in `adapter_outages` (1,568,661). For everything
in the table of theorems no bound matters.

Deadlock is not checked: when the requests are used up the server is idle. That
no thread waits for ever is what the liveness properties say.

### Fairness

`FairSpec` asks of each thread that it does not stop for ever while it can take
a step: a request that the server has accepted is not abandoned, and a call
to the cluster returns or fails. Nobody has to send a request. Under the real
timeouts this excludes only a tool that never returns (`registry.py:223` would
then wait for ever), which is listed as a hazard. For findings weak fairness is
enough although a lock is involved, because requests are bounded: the lock is
free for good in the end. Python's lock gives no turn to who waits longest, so
under an endless stream of requests there is no such guarantee.

The adapter's `FairSpec` also asks that requests keep coming (the console polls)
and that the cached answer runs out, which time sees to; without either, nobody
would ever probe again. The retrieval's asks only that threads go on. An outage
owes nobody its end; a stopped store makes its callers fail, and `RequestsEnd`
holds all the same.

### Where the code and its documents disagree

Three runs check a statement of the repository and find it violated.

- `double_execution` violates `EffectPerGrant`: two approvals that arrive together
  both execute (`graph.py:154`). The tests try the second one after the first.
- `unevaluated_plan` violates `ExecutedAsEvaluated`: a re-run plans again while an
  approval is on its way, and the new parameters run under the old decision
  (`nodes.py:128` compares names only). The tools' own guards are what keeps
  `ReplicasBounded` true.
- `adapter_dead_clients` violates `RecoversAlways`: a failed probe drops the
  clients one after the other (`kube.py:67`) while another thread builds them.
  `_api` may be set and `_apps` not; `_ensure_clients` then returns early for
  ever, the probe says the cluster is there, and every call that needs `_apps`
  fails. The comment above the line says the drop is there so that clients do
  not stay dead.

Read, and not checked by a run:

- The repository's `README.md` (lines 178 and 180) says that every action other
  than the scale for high CPU needs an approval, and that only the executor runs
  actions; rule F-01 and `_remediate_body` do otherwise (`AutoIsRecovery` states
  what the engine does).
- "Increase deployment replicas by 1" is carried out as the absolute count of the
  time it was planned: a late approval may take replicas away.
- A failed execution stays `EXECUTING`, though `workflow.py:82` has every replay
  end resolved (`ReplayInOrder` is silent on these; `NoOrphanRecord` names them).
- A file that cannot be opened for writing is left as it was and nobody is told
  (`store.py:52`), though `store.py:3` says that records are persisted: an action may
  be approved and performed a second time after a crash.
- `max_autoscale_replicas` (`config.py:98`) does not limit the scale of a finding
  (`security.py:346`).
- `fail_closed` (`nodes.py:208`) is in no graph.
- An approval and a rejection of one finding at the same time both succeed, and the
  finding ends as whoever writes last leaves it.
- `registry.py:135` replaces the executor's identity in the metadata of a result,
  though the `README.md` counts it as audited.
- `rag_store = "tfidf"` is one of the modes `rag.py:9` lists, and still asks both
  stores (`Stores` in `KnowledgeRetrieval`): only the other store's name leaves one out.
- After a second run of an incident its replay shows the first run's execution
  behind the approval that is waiting now.
- A second run that the engine refuses ends as `NO_ACTION` and leaves the approval
  of the first one `PENDING`: the replay still shows it (`ReplayInOrder` speaks of
  the status, therefore).
- An automatic restart of `demo-app` revives `crash-demo` and `memory-demo`.

## What is proved

For all threads, incidents, findings, limits, allow-lists and advice, and for
any number of requests, crashes, refused saves, outages and resets:

| theorem | of | says |
| --- | --- | --- |
| `TypeCorrect` | `IncidentWorkflow` | `TypeOK` |
| `HumanAlwaysInTheLoop` | `IncidentWorkflow` | `HumanInTheLoop` |
| `ReplicasAlwaysBounded` | `IncidentWorkflow` | `ReplicasBounded` |
| `WorkflowImplementsGate` | `IncidentWorkflow` | `ImplementsGate`, the refinement of `PolicyGate` |
| `NoRecordAbandoned` | `IncidentWorkflow` | `NoOrphanRecord` |
| `OneEffectPerGrant` | `IncidentWorkflow`, if no two requests work on one incident | `EffectPerGrant` |
| `ExecutedIsEvaluated` | the same | `ExecutedAsEvaluated` |
| `DecidedStaysDecided` | the same | `DecisionIsFinal`, an action property |
| `RemediatedMeansHolds` | `IncidentWorkflow`, if requests come one at a time | `RemediatedHolds`, an action property |
| `AutoOnlyForRecovery` | `PolicyRequests` | `AutoIsRecovery` |
| `PerformedOnlyIfAllowed` | `PolicyRequests` | `PerformedIsAllowed` |
| `GatesNeverDisagree` | `PolicyRequests` | `GatesAgree` |
| `FindingsTypeCorrect` | `SecurityFindings` | `FindingsTypeOK` |
| `NeverBeyondLayer` | `SecurityFindings` | `AllowedAtLayer` |
| `NoEffectWithoutConsent` | `SecurityFindings` | `EffectPerConsent` |
| `ScanIsSeenWhole` | `SecurityFindings` | `SeesWholeScan` |
| `RemediationIsAlwaysInHand` | `SecurityFindings` | `NoFindingStranded` |
| `DemoTypes` | `DemoLoop` | `DemoTypeOK` |
| `CureIsLasting` | `DemoLoop` | `RemediatedIsCured` |
| `CatalogueVerifies` | `DemoLoop` | `EveryRemediationVerifies` |
| `OneStory` | `DemoLoop` | `LogsMirrorCluster` |
| `ReplayRunsForward` | `DemoLoop`, with `WorkflowReplay` | `ReplayInOrder` |
| `AnnouncedDecision` | `DemoLoop`, with the shipped allow-lists | `HintIsDecision` |
| `ConsentForPrivilege` | `DemoLoop` | `PrivilegeNeedsConsent`, an action property |
| `ServerTypeCorrect` | `ServerProcess` | `ServerTypeOK` |
| `NeverForgotten` | `ServerProcess` | `NothingForgotten` |
| `RepeatsNeedRefusals` | `ServerProcess` | `RepeatsAreUnrecorded` |
| `RemediatedTellsTruth` | `ServerProcess` | `RemediatedIsTrue` |
| `NoopNeedsColdStart` | `ServerProcess` | `NoopOnlyWhenCold` |
| `InterruptedAlwaysVisible` | `ServerProcess` | `InterruptedIsVisible` |
| `AdapterTypeCorrect` | `ClusterAdapter` | `AdapterTypeOK` |
| `OneWorldAlways` | `ClusterAdapter` | `OneWorld` |
| `RetrievalTypeCorrect` | `KnowledgeRetrieval` | `RetrievalTypeOK` |
| `ReindexAlwaysTakesEffect` | `KnowledgeRetrieval` | `ReindexTakesEffect` |
| `SearchIsAlwaysExact` | `KnowledgeRetrieval` | `SearchIsExact` |
| `ReachedAlwaysContribute` | `KnowledgeRetrieval` | `ReachedBackendsContribute` |

Every inductive invariant below is defined beside the properties, and TLC found
no violation of it on the instance of the run before it was proved.

### The assumptions

Assumed are only the named assumptions of the modules. In the workflow: the
limits are natural numbers, a missing name is not a listed one, read tools are not
action tools, the incidents' types are known, replica counts start within the
limit. Nothing is assumed of the advice: the model may recommend any action. Of
the findings: their layers are known ones and their counts integers, whatever
a client injects; the simulated cluster has the deployment its restart revives.
Of the server and the findings: threads are finitely many, as they come from a
pool, and `None` is not one of them. Of the adapter: `None` is neither an endpoint
nor an answer of the probe. Of the retrieval: the chunks are finitely many, and
`None` is neither a set of chunks nor what is remembered of a reindexing. Of the
demonstration: what a client reports has a type the API knows (the request's
model refuses another). `AnnouncedDecision` has a hypothesis, `ShippedAllowLists`:
the namespace and the three deployments the catalogue names are on the lists,
as in `config.py`; a shorter list makes the engine refuse what the page
announces.

Four theorems of the workflow have a hypothesis besides: `OneRequestPerIncident`
(no two threads work on one incident) or `OneRequest` (only one thread works).
Nothing in the code keeps requests apart, and without the hypothesis the runs
`double_execution` and `unevaluated_plan` find violations: the hypothesis is
what a deployment would have to see to. It says nothing about the number of threads or
incidents: under `OneRequestPerIncident` any number of requests run at once,
about one deployment too. The run `serial` checks the same properties with one
thread.

### The arguments

*The workflow's gate, `WorkflowInv`.*
`HumanInTheLoop` is not inductive: when a tool runs, it has to be known that the
plan and the decision the thread captured some steps ago authorised each other
(`ToolIsAuthorized`); that the decision was one the engine took for this very
incident (`PolicyIsGranted`, as the incident may hold another one by now, the
history of decisions is what is compared with); and that a decision of the engine
is what the rules say (`GrantsAreEvaluated`), from which `PolicyEngineProofs`
derives that `AUTO` means a scale for high CPU. `ProposalIsGranted` (who
approves has something the engine proposed) is what the refinement needs: a consent is
given only where something was allowed with approval. `ReplicasBounded` rests on
the tool's own ceiling, not on the engine's: the engine may have looked at another
plan.

*The workflow's records, `RecordInv`.* `NoOrphanRecord` speaks of incidents
nobody works on. `CarriedOn` says of each state an incident does not rest in which
nodes a thread must be at. The status alone does not tell: `EXECUTING` is at rest once
the result is `FAILED`, and `AWAITING_APPROVAL` only as long as the approval is
pending (a re-run whose plan needs none takes it away from a proposal that is still
shown). Several threads may have written the record, and it suffices that one
of them is still there. `BegunBeforeEffect` is what rules out an incident with
an effect whose execution is pending.

*Requests that do not meet, `SerialInv` and `VerifiedHolds`.* Effects are counted against
decisions: `EffectsCovered` keeps one decision in reserve for a proposal that is
open and for a thread between the decision and the tool, so that the
effect it may have is covered already. `ProposalUsedUp` says that these two are never
there for one and the same decision, and `PlanIsEvaluated` that plan and decision belong
together but between planning and the check. `VerifiedHolds` is about the cluster,
which all incidents share: that is why it needs `OneRequest`.

*The policy requests, `GateInv`.* The decision is the one the
engine gives on this request, and an outcome was reached through both gates.

*The findings, `FindingsInv`.* `EffectPerConsent` is not inductive, since two threads
may be about to act on one finding: `ConsentInHand` counts the threads at the
remediation together with the effects, and compares their sum with the consents given: two
approvals of one proposal, which the code lets through, are two consents.
`AwaitingIsUntouched` says that nothing has been done for a finding that waits. `FreshIsPrivate` keeps everybody else away from an object before the policy has
seen it, `LetThrough` remembers the policy's verdict until the action, and
`ScanInOrder` describes a scan half-way: the first findings are listed, ids have
not been given out twice, which is so only until a reset.

*The demonstration, `DemoInv`.* The tables are the shipped ones; what the
theorems generalise over is the sequence of requests, of any length, what clients
report, the ceiling and the allow-lists. A reachable cluster is described by what
the actions can make of it (`ClusterOK`): pods are as deployed or all restarted, and
only `crash-demo` may lack replicas, from which `LogsMirrorCluster` follows. An incident's
cure (`Cured`) has to survive whatever is done for the others: no action takes
replicas from a deployment but a scale, and `Planned` says that a planned scale of
`crash-demo` asks for more than one replica (the planner steps up from what there is) and that a
binding is removed for the resource the incident is about, the one the detector would name
again. `FindingOK` ties a failed verification to a `crash-demo` that was
scaled out, and `Unattended` counts the findings of the scan the engine handles
alone: it is one entry of the catalogue, and a scan runs once. A detector run and
a scan are a fold over their lists; the invariant holds after each step of the fold
(a smallest step after which it did not would have one before it).

*The replay.* Its recursive functions are unrolled the same way (`Inductive`,
`Iterated`): a group has the entries of its station in the order of the timeline
(`GroupOK`), stitching keeps the stations and makes the times grow (`Stitched`), and
after n stations exactly those that are shown have been passed, in order
(`ReplayOK`). So the last station is the furthest one that is shown. That this is the
approval for an incident that waits needs two facts of `DemoInv`: no timeline has
an entry for an approval or an end (`Noted`), and who is waited for can
still answer (`Awaited`). Without a fixed ceiling the proof first failed: a refused second run leaves
the approval `PENDING`, and the property had to speak of the status instead.

*The server, `ServerInv`.* For each place a thread can be at, `Progress` says how far its
incident has come, in memory and in the cluster. What a restart may repeat is decided by
the file: when a thread is about to act, either the file is torn or says that the
execution has begun (`BegunOnDisk`), or the begin has just gone unrecorded and is
counted, and the count is ahead of the performances (`Marked`). So a performance
adds one to a count that is behind, or happens when no later process can find the
proposal pending; a record that does not say `EXECUTING` (`RecordOK`) therefore has all
its performances covered by refusals. A later save, of any incident, writes the true
status, which only strengthens this; a crash leaves file and counts alone. `Exclusive`
says that a thread has its incident to itself within one process, which
`ServerProcess` takes for granted (`Busy`): what two requests do to one incident is the
question of `IncidentWorkflow`. `Survives` and `Counted` are what `NothingForgotten`
needs: what a completed save has written is in memory as long as the process lives, and
in every file that loads, refused saves or not; and an id that is given out is above
all ids in memory and file.

*The adapter, `AdapterInv`.* `ReliesOnAnswer` ties a thread that has begun to act to the answer
that is cached, until the answer changes or runs out and the thread is no longer
`steady`; `Probing` says who may change it.

*The retrieval, `RetrievalInv`.* What a finished reindexing has established
(`ReindexTakesEffect`) is built up by some fifteen steps, so the invariant says of each
place of a lone reindexing what its index and the stores hold by then
(`ReindexingOK`): that the chunks appended and those still to be appended are
together the chunks of the files, that a table is empty when its rows go in, and
that what has been reached stays as it is while the other store has its turn. `Alone` is
what makes this hold against the other threads: a reindexing that runs alone is
the only one, and while any runs nothing is remembered and no search counts. For
searches, `SearchOK` says what has been found by each place, and `StillConnected` that
the published index keeps a working connection until Postgres goes
down. A search publishes an index only where there is none, and after a
reindexing there is one: so no search replaces what is searched. The chunks appended one by
one make up the files because two facts of sequences hold for every set of chunks: `SetToSeq`
lists each element once, and moving the head of one list to the end of the
other leaves their concatenation alone.

### Only model-checked

The liveness properties (`RequestsSettle`, `RequestsAnswered`, `Recovers`,
`RequestsEnd`), as liveness is beyond the proof system.

## Not modelled, and why

- Evidence, prompts and risk: they change no decision; the model's answer is any
  member of `Advice`. What the retrieval finds goes into the prompt only, so
  that it is modelled on its own.
- The detector on a live cluster: its thresholds over real metrics are an input of
  `CreateIncident`; the demonstration has the detector on the simulated one.
- The dump of a list that another thread appends to at that moment: the
  interpreter decides what is written, and nothing here can tell.
- The unlocked first filling of the simulated cluster (`simulation.py:115`).
- Scores, embeddings and filters of the retrieval.
- Metrics with their cache (`metrics.py:71`), logs of a live cluster, status, notifications, tracing, evaluation,
  front end: output, or questions to other systems.
- Manifests, images, alert rules, scripts: no behaviour of this program.

## Plan

1. *Core* (done): the policy engine, the gates, the incident workflow, the
   abstract gate; the findings.
2. *Store and restarts* (done): `ServerProcess`. An incident is recognised by a
   history number, which takes the place of an abstract durable map.
3. *Registry and adapter* (done): the registry as part of `ServerProcess`, the
   adapter as `ClusterAdapter`. An action in progress is there as the sequence of
   its calls.
4. *Detector and demo loop* (done): `DemoLoop` and the modules it composes.
5. *Retrieval* (done): `KnowledgeRetrieval`.
6. *Proofs* (done): every invariant and action property that a run checks is the
   subject of a theorem, and so is the refinement; liveness stays with TLC.
