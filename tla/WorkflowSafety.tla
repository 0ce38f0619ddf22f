---------------------------- MODULE WorkflowSafety ----------------------------
(***************************************************************************)
(* What the incident workflow guarantees, and the abstract gate it         *)
(* implements.                                                             *)
(***************************************************************************)
EXTENDS IncidentWorkflow

ActionNames ==
    ActionToolNames \union ReadTools
        \union {"request_memory_review", "isolate_pod", "none", Absent}
        \union UNION {Advice[type] : type \in IncidentTypes}

Names ==
    {Absent} \union {Subject[i].resource : i \in Incidents}
             \union {Subject[i].namespace : i \in Incidents}

Plans == [action : ActionNames, deployment : Names, namespace : Names,
          delta : {0, 1}, desired : Nat]

Policies == [decision : Decisions, plan : Plans]

IncidentStatuses ==
    {"ABSENT", "DETECTED", "INVESTIGATING", "AWAITING_APPROVAL", "APPROVED", "REJECTED",
     "EXECUTING", "REMEDIATED", "VERIFICATION_FAILED", "FAILED", "NO_ACTION"}

ApprovalStatuses == {"NOT_REQUIRED", "PENDING", "APPROVED", "REJECTED"}

ExecutionStatuses == {"PENDING", "EXECUTING", "SUCCESS", "FAILED"}

\* NONE: an execution result without a verification.
Verdict == {"NONE", "PASSED", "FAILED"}

VerificationStatuses == {"PENDING", "PASSED", "FAILED"}

IncidentRecords ==
    [status : IncidentStatuses, approval : ApprovalStatuses,
     advice : ActionNames \union {NoAdvice}, recommended : Plans, policy : Policies,
     execution : ExecutionStatuses, verdict : Verdict, verification : VerificationStatuses]

ProgramCounters ==
    {"idle", "classify", "investigate", "diagnose", "plan", "policy", "dispatch", "pending",
     "decide", "execute", "select", "tool", "audit", "check", "verify"}

RequestKinds == {"none", "create", "rerun", "approve", "reject"}

ThreadRecords ==
    [pc : ProgramCounters, kind : RequestKinds, incident : Incidents \union {None},
     plan : Plans, policy : Policies, outcome : ExecutionStatuses]

Grants == [incident : Incidents, policy : Policies]

Effects == [incident : Incidents, plan : Plans, policy : Policies, approved : BOOLEAN]

\* Threads and the incidents they are busy with; a thread without one is idle.
ThreadsOK ==
    /\ thread \in [Threads -> ThreadRecords]
    /\ \A t \in Threads : thread[t].incident = None <=> At(t, "idle")

\* Type correctness of the workflow's state (models/incident.py).
TypeOK ==
    /\ incident \in [Incidents -> IncidentRecords]
    /\ ThreadsOK
    /\ replicas \in [Deployments -> Nat]
    /\ requests \in Nat
    /\ granted \subseteq Grants
    /\ grants \in [Incidents -> Nat]
    /\ performed \subseteq Effects
    /\ effects \in [Incidents -> Seq(ActionToolNames)]

-----------------------------------------------------------------------------
\* Every change of the cluster other than the scaling of a deployment for a
\* high-CPU incident was made by a request in which a human approved
\* (README.md, security model, point 3).
HumanInTheLoop ==
    \A e \in performed :
        \/ e.approved
        \/ Subject[e.incident].type = "high_cpu" /\ e.plan.action = "scale_deployment"

\* No deployment ever has more replicas than the configured maximum, even
\* when a plan changes between its policy check and its execution.
ReplicasBounded == \A d \in Deployments : replicas[d] <= MaxAutoscaleReplicas

Working(i) == \E t \in Threads : thread[t].incident = i

\* The statuses the store counts as open (InMemoryStore.list_open).
OpenStatuses == {"DETECTED", "INVESTIGATING", "AWAITING_APPROVAL", "APPROVED", "EXECUTING"}

CorrelationRaises(i) == Subject[i].type \in {"falco_security", "suspicious_rbac"}

\* The open records that nobody is working on: a proposal waits for a human,
\* a failed execution leaves its incident EXECUTING, and a re-run whose
\* correlation raised leaves it INVESTIGATING.
LeftOpen(i) ==
    \/ incident[i].status = "AWAITING_APPROVAL" /\ incident[i].approval = "PENDING"
    \/ incident[i].status = "EXECUTING" /\ incident[i].execution = "FAILED"
    \/ incident[i].status = "INVESTIGATING" /\ CorrelationRaises(i)

\* A record nobody is working on says so: no execution is under way in it, an
\* effect has an outcome, and the incident is closed or open in one of the
\* three ways above.  A failed execution is one of them: it stays EXECUTING
\* until somebody runs the incident again (nodes.py, finalize).
NoOrphanRecord ==
    \A i \in Incidents : ~Working(i) =>
        /\ incident[i].execution # "EXECUTING"
        /\ effects[i] # <<>> => incident[i].execution \in {"SUCCESS", "FAILED"}
        /\ incident[i].status \in OpenStatuses => LeftOpen(i)

\* The cluster is changed at most once for each decision of the policy
\* engine that allows it: one approval, one execution (tests/test_workflow.py,
\* test_approval_twice_is_rejected).
EffectPerGrant == \A i \in Incidents : Len(effects[i]) <= grants[i]

\* What is executed is what the policy engine evaluated, parameters included
\* (policy/engine.py: the guardrails apply before ANY action).
ExecutedAsEvaluated == \A e \in performed : e.plan = e.policy.plan

\* An incident becomes REMEDIATED by a tool only while the post-condition of
\* its recommended action holds in the cluster.
RemediatedHolds ==
    [][\A i \in Incidents :
          /\ incident[i].status # "REMEDIATED"
          /\ incident'[i].status = "REMEDIATED"
          /\ incident'[i].recommended.action \in ActionToolNames
          => Holds(incident[i].recommended, i)']_vars

\* An approved or rejected proposal is decided: it is pending again only
\* when the policy engine has made a new decision.
DecisionIsFinal ==
    [][\A i \in Incidents :
          incident[i].approval \in {"APPROVED", "REJECTED"} /\ incident'[i].approval = "PENDING"
          => grants'[i] > grants[i]]_vars

\* Whatever a thread starts on an incident comes to an end: no execution is
\* under way in it, and it is closed or left open in one of the three ways.
\* It need not be closed: a failed execution stays EXECUTING.
Resting(i) ==
    /\ incident[i].execution # "EXECUTING"
    /\ \/ incident[i].status \notin OpenStatuses
       \/ LeftOpen(i) /\ (incident[i].status = "INVESTIGATING" => ~Working(i))

RequestsSettle == \A i \in Incidents : ~Resting(i) ~> Resting(i)

-----------------------------------------------------------------------------
(* What the guarantees rest on: which decisions stand behind the state.    *)

\* A recorded decision is what the engine answers about the recorded plan,
\* and it allows that plan.
GrantsAreEvaluated ==
    \A g \in granted :
        /\ g.policy = Evaluate(Subject[g.incident].type, g.policy.plan)
        /\ g.policy.decision # "NO_ACTION"

\* A decision an incident holds was taken by the engine for that incident.
PolicyIsGranted ==
    \A i \in Incidents : incident[i].policy.decision # "NO_ACTION" =>
        [incident |-> i, policy |-> incident[i].policy] \in granted

Proposed(i) ==
    \E g \in granted : g.incident = i /\ g.policy.decision = "APPROVAL_REQUIRED"

\* Only what the engine has put before a human waits for one, and only that
\* is decided on.
ProposalIsGranted ==
    /\ \A i \in Incidents : incident[i].approval = "PENDING" => Proposed(i)
    /\ \A t \in Threads : thread[t].kind \in {"approve", "reject"} => Proposed(thread[t].incident)

\* The plan in a tool's hands was authorised by the decision captured with
\* it, whatever has happened to the incident since.
ToolIsAuthorized ==
    \A t \in Threads : At(t, "tool") =>
        /\ thread[t].plan.action \in RegisteredTools
        /\ Authorized(thread[t].plan, thread[t].policy, Approved(t))
        /\ thread[t].policy.decision # "NO_ACTION" =>
              [incident |-> thread[t].incident, policy |-> thread[t].policy] \in granted

\* The inductive invariant.
WorkflowInv ==
    /\ TypeOK
    /\ GrantsAreEvaluated
    /\ PolicyIsGranted
    /\ ProposalIsGranted
    /\ ToolIsAuthorized
    /\ HumanInTheLoop
    /\ ReplicasBounded

-----------------------------------------------------------------------------
(* Why no record is left in the middle: whoever brought it there is still  *)
(* at work on it.                                                          *)

AtWork(i, pcs) == \E t \in Threads : thread[t].incident = i /\ thread[t].pc \in pcs

\* An incident that is not at rest has a thread that will take it there.
CarriedOn ==
    \A i \in Incidents :
        /\ incident[i].execution = "EXECUTING" => AtWork(i, {"select", "tool", "audit"})
        /\ incident[i].status = "DETECTED" => AtWork(i, {"classify"})
        /\ incident[i].status = "APPROVED" => AtWork(i, {"execute"})
        /\ incident[i].status = "INVESTIGATING" /\ ~CorrelationRaises(i) =>
              AtWork(i, {"investigate", "diagnose", "plan", "policy", "dispatch", "execute"})
        /\ incident[i].status = "AWAITING_APPROVAL" /\ incident[i].approval # "PENDING" =>
              AtWork(i, {"dispatch", "execute"})
        /\ incident[i].status = "EXECUTING" /\ incident[i].execution # "FAILED" =>
              AtWork(i, {"select", "tool", "audit", "check", "verify"})

\* Nothing is done before the incident says that its execution has begun, and
\* who comes back from the tool knows how it ended.
BegunBeforeEffect ==
    /\ \A i \in Incidents : effects[i] # <<>> => incident[i].execution # "PENDING"
    /\ \A t \in Threads :
          thread[t].pc \in {"select", "tool", "audit", "check", "verify"} =>
              incident[thread[t].incident].execution # "PENDING"
    /\ \A t \in Threads : At(t, "audit") => thread[t].outcome \in {"SUCCESS", "FAILED"}

\* The inductive invariant behind NoOrphanRecord.
RecordInv == TypeOK /\ CarriedOn /\ BegunBeforeEffect

-----------------------------------------------------------------------------
(* Requests that do not meet.  Nothing in the code keeps them apart: these *)
(* are the conditions under which the guarantees of a single request hold. *)

\* No two threads work on one incident.
OneRequestPerIncident ==
    \A s, t \in Threads :
        thread[s].incident = thread[t].incident /\ thread[s].incident # None => s = t

\* Only one thread works at all.
OneRequest ==
    \A s, t \in Threads : thread[s].incident # None /\ thread[t].incident # None => s = t

\* A decision that has not been acted on yet: a proposal that is open, or a
\* thread on its way from the decision to the tool.
Reserved(i) ==
    \/ incident[i].approval = "PENDING"
    \/ AtWork(i, {"decide", "execute", "select", "tool"})
    \/ AtWork(i, {"dispatch"}) /\ incident[i].policy.decision # "NO_ACTION"

\* Every effect has used up a decision, and one that is still to come has one.
EffectsCovered ==
    \A i \in Incidents :
        /\ Len(effects[i]) <= grants[i]
        /\ Reserved(i) => Len(effects[i]) < grants[i]

\* A proposal is open exactly until somebody acts on it.
ProposalUsedUp ==
    \A t \in Threads : LET i == thread[t].incident IN
        /\ thread[t].pc \in {"execute", "select", "tool"} => incident[i].approval # "PENDING"
        /\ At(t, "dispatch") /\ incident[i].policy.decision = "AUTO" =>
              incident[i].approval # "PENDING"
        /\ At(t, "dispatch") /\ incident[i].policy.decision = "APPROVAL_REQUIRED" =>
              incident[i].approval = "PENDING"

\* The decision is about the plan, except between a new plan and its check;
\* a thread that has captured a plan has captured the incident's.
PlanIsEvaluated ==
    /\ \A i \in Incidents :
          incident[i].policy.plan = incident[i].recommended \/ AtWork(i, {"policy"})
    /\ \A t \in Threads :
          /\ At(t, "tool") => thread[t].plan = thread[t].policy.plan
          /\ thread[t].pc \in {"tool", "audit", "check"} =>
                thread[t].plan = incident[thread[t].incident].recommended

\* The inductive invariant of requests that keep off each other's incident.
SerialInv ==
    /\ TypeOK
    /\ EffectsCovered
    /\ ProposalUsedUp
    /\ PlanIsEvaluated
    /\ ExecutedAsEvaluated

\* What a lone request has found to hold still holds when it is believed.
VerifiedHolds ==
    \A t \in Threads : LET i == thread[t].incident IN
        /\ At(t, "verify")
        /\ incident[i].verdict = "PASSED"
        /\ incident[i].recommended.action \in ActionToolNames
        => Holds(incident[i].recommended, i)

-----------------------------------------------------------------------------
\* The workflow implements the gate: a consent is held by the request that
\* carries a human approval, from the approval to the tool.
Allowed == {<<g.incident, g.policy.plan.action, g.policy.decision>> : g \in granted}

Consenting(t) == Approved(t) /\ thread[t].pc \in {"execute", "select", "tool"}

HeldConsent == [t \in Threads |-> IF Consenting(t) THEN thread[t].incident ELSE None]

Gate == INSTANCE PolicyGate WITH
    Requesters <- Threads,
    Subjects <- Incidents,
    Actions <- ActionNames,
    Nobody <- None,
    allowed <- Allowed,
    consent <- HeldConsent,
    acts <- effects

\* Every behaviour of the workflow is a behaviour of PolicyGate.
ImplementsGate == Gate!GateSpec
=============================================================================
