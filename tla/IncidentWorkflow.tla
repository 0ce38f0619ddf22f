-------------------------- MODULE IncidentWorkflow --------------------------
(***************************************************************************)
(* The incident workflow of backend/workflows, run by the request threads  *)
(* of the FastAPI application on Incident objects they share through the   *)
(* in-memory store.  Nothing locks an incident: a thread looks it up,      *)
(* gets a reference, and every attribute it writes is at once visible to   *)
(* every other thread.                                                     *)
(*                                                                         *)
(* One action is one workflow node, split where the node blocks between    *)
(* two accesses to shared state (a store flush, a cluster call, the tool   *)
(* itself), which is where another request runs in between.  The gap       *)
(* between the PENDING check of resume_workflow and its assignments is a   *)
(* step of its own too: no lock covers it.                                 *)
(***************************************************************************)
EXTENDS ActionTools, FiniteSets

CONSTANTS
    Threads,            \* request threads of the server
    Incidents,          \* incident ids
    Subject,            \* Subject[i]: type, resource and namespace of incident i
    Deployments,        \* deployments that exist in the cluster
    InitialReplicas,    \* their replica counts at the start
    Advice,             \* Advice[type]: recommended actions the LLM may return
    LiveCluster,        \* TRUE: a real cluster, whose calls can fail
    MaxRequests,        \* bound: requests accepted in one behaviour
    None                \* no incident

ASSUME WorkflowAssumption ==
    /\ \A i \in Incidents : Subject[i].type \in IncidentTypes
    /\ InitialReplicas \in [Deployments -> 0 .. MaxAutoscaleReplicas]
    /\ LiveCluster \in BOOLEAN
    /\ MaxRequests \in Nat
    /\ None \notin Incidents

VARIABLES
    incident,   \* the shared Incident objects
    thread,     \* what each request thread is doing, and its local variables
    replicas,   \* replica count of each deployment
    repaired,   \* <<tool, resource>> pairs whose post-condition now holds
    requests,   \* requests accepted so far
    granted,    \* history: decisions of the policy engine that allow an action
    grants,     \* history: how many such decisions each incident had
    performed,  \* history: effects on the cluster and what authorised them
    effects     \* history: the actions performed for each incident, in order

history == <<granted, grants, performed, effects>>
vars == <<incident, thread, replicas, repaired, requests, history>>

NoPolicy == [decision |-> "NO_ACTION", plan |-> NoPlan]

\* Nobody has recommended an action (yet).
NoAdvice == "no_advice"

NotCreated ==
    [status |-> "ABSENT", approval |-> "NOT_REQUIRED", advice |-> NoAdvice,
     recommended |-> NoPlan, policy |-> NoPolicy, execution |-> "PENDING",
     verdict |-> "NONE", verification |-> "PENDING"]

Idle ==
    [pc |-> "idle", kind |-> "none", incident |-> None, plan |-> NoPlan,
     policy |-> NoPolicy, outcome |-> "PENDING"]

Init ==
    /\ incident = [i \in Incidents |-> NotCreated]
    /\ thread = [t \in Threads |-> Idle]
    /\ replicas = InitialReplicas
    /\ repaired = {}
    /\ requests = 0
    /\ granted = {}
    /\ grants = [i \in Incidents |-> 0]
    /\ performed = {}
    /\ effects = [i \in Incidents |-> <<>>]

At(t, pc) == thread[t].pc = pc
Goto(t, pc) == thread' = [thread EXCEPT ![t].pc = pc]

\* Faulty variant: the thread keeps the incident of the request it has answered.
ReturnUncleared(t) == Goto(t, "idle")

Return(t) == thread' = [thread EXCEPT ![t] = Idle]

-----------------------------------------------------------------------------
(* Requests.                                                               *)

Accept(t, kind, i, pc) ==
    /\ At(t, "idle")
    /\ requests < MaxRequests
    /\ requests' = requests + 1
    /\ thread' = [thread EXCEPT ![t] = [Idle EXCEPT !.pc = pc, !.kind = kind, !.incident = i]]
    /\ UNCHANGED <<replicas, repaired, history>>

\* POST /incidents, and each shell the detector returns to POST /incidents/detect.
CreateIncident(t, i) ==
    /\ incident[i].status = "ABSENT"
    /\ incident' = [incident EXCEPT ![i].status = "DETECTED"]
    /\ Accept(t, "create", i, "classify")

\* POST /incidents/{id}/run, in whatever state the incident is.
RerunIncident(t, i) ==
    /\ incident[i].status # "ABSENT"
    /\ UNCHANGED incident
    /\ Accept(t, "rerun", i, "classify")

\* POST /incidents/{id}/approval; anything but PENDING is answered with 409.
RequestDecision(t, i, kind) ==
    /\ incident[i].status # "ABSENT"
    /\ incident[i].approval = "PENDING"
    /\ UNCHANGED incident
    /\ Accept(t, kind, i, "pending")

-----------------------------------------------------------------------------
(* The investigation graph.                                                *)

Classify(t) ==
    LET i == thread[t].incident IN
    /\ At(t, "classify")
    /\ incident' = [incident EXCEPT ![i].status = "INVESTIGATING"]
    /\ Goto(t, "investigate")
    /\ UNCHANGED <<replicas, repaired, requests, history>>

\* Evidence, correlation and retrieval: what they add to the incident is
\* read by the LLM only.
Investigate(t) ==
    /\ At(t, "investigate")
    /\ Goto(t, "diagnose")
    /\ UNCHANGED <<incident, replicas, repaired, requests, history>>

\* Correlation raises on a malformed timestamp of a security event.  The
\* create handler marks the incident FAILED, the re-run handler answers 500.
InvestigationRaises(t) ==
    LET i == thread[t].incident IN
    /\ At(t, "investigate")
    /\ Subject[i].type \in {"falco_security", "suspicious_rbac"}
    /\ incident' = IF thread[t].kind = "create"
                   THEN [incident EXCEPT ![i].status = "FAILED"]
                   ELSE incident
    /\ Return(t)
    /\ UNCHANGED <<replicas, repaired, requests, history>>

Diagnose(t) ==
    LET i == thread[t].incident IN
    /\ At(t, "diagnose")
    /\ \E advice \in Advice[Subject[i].type] :
          incident' = [incident EXCEPT ![i].advice = advice]
    /\ Goto(t, "plan")
    /\ UNCHANGED <<replicas, repaired, requests, history>>

DefaultAction(type) ==
    CASE type \in {"high_cpu", "oom_killed"} -> "scale_deployment"
      [] type = "high_memory"                -> "request_memory_review"
      [] type = "crashloop_backoff"          -> "restart_deployment"
      [] type = "certificate_expiry"         -> "renew_certificate"
      [] type = "falco_security"             -> "isolate_pod"
      [] type = "suspicious_rbac"            -> "rollback_rbac"
      [] OTHER                               -> "none"

\* The replica counts the planner may read: the current one, and the
\* fall-back of 2 when a live cluster does not answer.
CurrentReplicas(i) ==
    LET resource == Subject[i].resource IN
    (IF resource \in Deployments THEN {replicas[resource]}
     ELSE IF LiveCluster THEN {} ELSE {0})
    \union (IF LiveCluster THEN {2} ELSE {})

BuildPlan(i, action, current) ==
    LET scales == action = "scale_deployment"
    IN  [action |-> action,
         deployment |-> IF scales \/ action = "restart_deployment"
                        THEN Subject[i].resource ELSE Absent,
         namespace |-> IF scales \/ action \in {"restart_deployment", "renew_certificate"}
                       THEN Subject[i].namespace ELSE Absent,
         delta |-> IF scales THEN 1 ELSE 0,
         desired |-> IF scales THEN current + 1 ELSE 0]

PlanRemediation(t) ==
    LET i == thread[t].incident
        action == IF incident[i].advice = NoAdvice THEN DefaultAction(Subject[i].type)
                  ELSE incident[i].advice
    IN
    /\ At(t, "plan")
    /\ \E current \in CurrentReplicas(i) :
          incident' = [incident EXCEPT ![i].recommended = BuildPlan(i, action, current)]
    /\ Goto(t, "policy")
    /\ UNCHANGED <<replicas, repaired, requests, history>>

\* Faulty variant: NO_ACTION leaves an earlier proposal open for approval.
PolicyCheckReopens(t) ==
    LET i == thread[t].incident
        policy == Evaluate(Subject[i].type, incident[i].recommended)
        d == policy.decision
    IN
    /\ At(t, "policy")
    /\ incident' = [incident EXCEPT
          ![i].policy = policy,
          ![i].approval = IF d = "AUTO" THEN "NOT_REQUIRED" ELSE "PENDING",
          ![i].status = IF d = "NO_ACTION" THEN "NO_ACTION" ELSE "AWAITING_APPROVAL"]
    /\ IF d = "NO_ACTION"
       THEN UNCHANGED <<granted, grants>>
       ELSE /\ granted' = granted \union {[incident |-> i, policy |-> policy]}
            /\ grants' = [grants EXCEPT ![i] = @ + 1]
    /\ Goto(t, "dispatch")
    /\ UNCHANGED <<replicas, repaired, requests, performed, effects>>

\* NO_ACTION leaves an earlier approval status as it is.
PolicyCheck(t) ==
    LET i == thread[t].incident
        policy == Evaluate(Subject[i].type, incident[i].recommended)
        d == policy.decision
    IN
    /\ At(t, "policy")
    /\ incident' = [incident EXCEPT
          ![i].policy = policy,
          ![i].approval = CASE d = "AUTO" -> "NOT_REQUIRED"
                            [] d = "APPROVAL_REQUIRED" -> "PENDING"
                            [] OTHER -> @,
          ![i].status = CASE d = "APPROVAL_REQUIRED" -> "AWAITING_APPROVAL"
                          [] d = "NO_ACTION" -> "NO_ACTION"
                          [] OTHER -> @]
    /\ IF d = "NO_ACTION"
       THEN UNCHANGED <<granted, grants>>
       ELSE /\ granted' = granted \union {[incident |-> i, policy |-> policy]}
            /\ grants' = [grants EXCEPT ![i] = @ + 1]
    /\ Goto(t, "dispatch")
    /\ UNCHANGED <<replicas, repaired, requests, performed, effects>>

\* run_workflow reads the decision back from the shared incident and, when
\* an approval is needed, opens the approval (once more).
Dispatch(t) ==
    LET i == thread[t].incident
        d == incident[i].policy.decision
    IN
    /\ At(t, "dispatch")
    /\ CASE d = "AUTO" ->
              Goto(t, "execute") /\ UNCHANGED incident
         [] d = "APPROVAL_REQUIRED" ->
              /\ incident' = [incident EXCEPT ![i].approval = "PENDING",
                                              ![i].status = "AWAITING_APPROVAL"]
              /\ Return(t)
         [] OTHER ->
              /\ incident' = [incident EXCEPT ![i].status = "NO_ACTION"]
              /\ Return(t)
    /\ UNCHANGED <<replicas, repaired, requests, history>>

-----------------------------------------------------------------------------
(* The human decision.                                                     *)

\* resume_workflow raises ValueError when the approval is no longer PENDING.
CheckPending(t) ==
    LET i == thread[t].incident IN
    /\ At(t, "pending")
    /\ IF incident[i].approval = "PENDING" THEN Goto(t, "decide") ELSE Return(t)
    /\ UNCHANGED <<incident, replicas, repaired, requests, history>>

\* Faulty variant: the approval is not used up.
ApproveAndKeepPending(t) ==
    LET i == thread[t].incident IN
    /\ At(t, "decide")
    /\ thread[t].kind = "approve"
    /\ incident' = [incident EXCEPT ![i].status = "APPROVED"]
    /\ Goto(t, "execute")
    /\ UNCHANGED <<replicas, repaired, requests, history>>

Approve(t) ==
    LET i == thread[t].incident IN
    /\ At(t, "decide")
    /\ thread[t].kind = "approve"
    /\ incident' = [incident EXCEPT ![i].approval = "APPROVED", ![i].status = "APPROVED"]
    /\ Goto(t, "execute")
    /\ UNCHANGED <<replicas, repaired, requests, history>>

Reject(t) ==
    LET i == thread[t].incident IN
    /\ At(t, "decide")
    /\ thread[t].kind = "reject"
    /\ incident' = [incident EXCEPT ![i].approval = "REJECTED", ![i].status = "REJECTED"]
    /\ Return(t)
    /\ UNCHANGED <<replicas, repaired, requests, history>>

-----------------------------------------------------------------------------
(* The execution graph.  A failed execution goes straight to finalize,     *)
(* which leaves the status as it is.                                       *)

BeginExecution(t) ==
    LET i == thread[t].incident IN
    /\ At(t, "execute")
    /\ incident' = [incident EXCEPT ![i].status = "EXECUTING", ![i].execution = "EXECUTING"]
    /\ Goto(t, "select")
    /\ UNCHANGED <<replicas, repaired, requests, history>>

Mismatch(i) ==
    \/ incident[i].recommended = NoPlan
    \/ incident[i].policy = NoPolicy
    \/ incident[i].policy.plan.action # incident[i].recommended.action

Approved(t) == thread[t].kind = "approve"

RefuseMismatch(t) ==
    LET i == thread[t].incident IN
    /\ At(t, "select")
    /\ Mismatch(i)
    /\ incident' = [incident EXCEPT ![i].execution = "FAILED"]
    /\ Return(t)
    /\ UNCHANGED <<replicas, repaired, requests, history>>

\* No action, or one that no tool is registered for: recorded as a success.
RecordNoop(t) ==
    LET i == thread[t].incident IN
    /\ At(t, "select")
    /\ ~Mismatch(i)
    /\ incident[i].recommended.action \notin RegisteredTools
    /\ incident' = [incident EXCEPT ![i].execution = "SUCCESS", ![i].verdict = "PASSED",
                                    ![i].verification = "PASSED", ![i].status = "REMEDIATED"]
    /\ Goto(t, "verify")
    /\ UNCHANGED <<replicas, repaired, requests, history>>

\* Validation or authorisation fails: the audit records FAILED.
RefuseTool(t) ==
    LET i == thread[t].incident
        plan == incident[i].recommended
    IN
    /\ At(t, "select")
    /\ ~Mismatch(i)
    /\ plan.action \in RegisteredTools
    /\ ~(ArgumentsValid(plan) /\ Authorized(plan, incident[i].policy, Approved(t)))
    /\ incident' = [incident EXCEPT ![i].execution = "FAILED", ![i].verdict = "NONE"]
    /\ Return(t)
    /\ UNCHANGED <<replicas, repaired, requests, history>>

\* Faulty variant: the scale is worked out again from the current replicas,
\* after the policy engine has seen another one.
AuthorizeFreshPlan(t) ==
    LET i == thread[t].incident
        action == incident[i].recommended.action
    IN
    /\ At(t, "select")
    /\ ~Mismatch(i)
    /\ action \in RegisteredTools
    /\ \E current \in CurrentReplicas(i) :
          LET plan == BuildPlan(i, action, current) IN
          /\ ArgumentsValid(plan) /\ Authorized(plan, incident[i].policy, Approved(t))
          /\ thread' = [thread EXCEPT ![t].pc = "tool", ![t].plan = plan,
                                      ![t].policy = incident[i].policy]
    /\ UNCHANGED <<incident, replicas, repaired, requests, history>>

\* From here on the thread works with the plan and the decision it captured.
AuthorizeTool(t) ==
    LET i == thread[t].incident
        plan == incident[i].recommended
    IN
    /\ At(t, "select")
    /\ ~Mismatch(i)
    /\ plan.action \in RegisteredTools
    /\ ArgumentsValid(plan) /\ Authorized(plan, incident[i].policy, Approved(t))
    /\ thread' = [thread EXCEPT ![t].pc = "tool", ![t].plan = plan,
                                ![t].policy = incident[i].policy]
    /\ UNCHANGED <<incident, replicas, repaired, requests, history>>

-----------------------------------------------------------------------------
(* The tool, the audit entry and the verification.                         *)

\* The post-conditions a tool's call establishes.  The simulated restart
\* heals the pods of every demo deployment, whichever it was called for; the
\* pods of a live cluster carry no deployment name, so that the check of a
\* restart never finds them.
Repairs(plan, i) ==
    CASE plan.action \in ReadTools \union {"scale_deployment"} -> {}
      [] plan.action = "restart_deployment" ->
            IF LiveCluster THEN {} ELSE {plan.action} \X Deployments
      [] OTHER -> {<<plan.action, Subject[i].resource>>}

Apply(plan, i) ==
    /\ replicas' = IF plan.action = "scale_deployment" /\ plan.deployment \in Deployments
                   THEN [replicas EXCEPT ![plan.deployment] = plan.desired]
                   ELSE replicas
    /\ repaired' = repaired \union Repairs(plan, i)

Effect(t) == [incident |-> thread[t].incident, plan |-> thread[t].plan,
              policy |-> thread[t].policy, approved |-> Approved(t)]

Perform(t) ==
    LET i == thread[t].incident
        plan == thread[t].plan
    IN  /\ Apply(plan, i)
        /\ IF plan.action \in ReadTools
           THEN UNCHANGED <<performed, effects>>
           ELSE /\ performed' = performed \union {Effect(t)}
                /\ effects' = [effects EXCEPT ![i] = Append(@, plan.action)]

ToolReturns(t, outcome) ==
    thread' = [thread EXCEPT ![t].pc = "audit", ![t].outcome = outcome]

ToolSucceeds(t) ==
    /\ At(t, "tool")
    /\ ~ToolRefuses(thread[t].plan)
    /\ Perform(t)
    /\ ToolReturns(t, "SUCCESS")
    /\ UNCHANGED <<incident, requests, granted, grants>>

\* The tool refuses, or a live cluster answers with an error.
ToolFails(t) ==
    /\ At(t, "tool")
    /\ LiveCluster \/ ToolRefuses(thread[t].plan)
    /\ ToolReturns(t, "FAILED")
    /\ UNCHANGED <<incident, replicas, repaired, requests, history>>

\* The call to a live cluster takes effect and its answer is lost, or comes
\* after the timeout: the executor waits for the call and reports FAILED.
ToolFailsLate(t) ==
    /\ At(t, "tool")
    /\ LiveCluster
    /\ ~ToolRefuses(thread[t].plan)
    /\ Perform(t)
    /\ ToolReturns(t, "FAILED")
    /\ UNCHANGED <<incident, requests, granted, grants>>

\* Faulty variant: a failed call is verified too, against the result of an
\* earlier one.
AuditThenVerify(t) ==
    LET i == thread[t].incident
        outcome == thread[t].outcome
    IN
    /\ At(t, "audit")
    /\ incident' = [incident EXCEPT ![i].execution = outcome]
    /\ Goto(t, IF outcome = "SUCCESS" THEN "check" ELSE "verify")
    /\ UNCHANGED <<replicas, repaired, requests, history>>

\* Faulty variant: an exception escapes, and nothing is written for it.
AuditSuccessOnly(t) ==
    LET i == thread[t].incident IN
    /\ At(t, "audit")
    /\ incident' = IF thread[t].outcome = "SUCCESS"
                   THEN [incident EXCEPT ![i].execution = "SUCCESS", ![i].verdict = "NONE"]
                   ELSE incident
    /\ IF thread[t].outcome = "SUCCESS" THEN Goto(t, "check") ELSE Return(t)
    /\ UNCHANGED <<replicas, repaired, requests, history>>

\* The audit entry replaces the incident's execution result, whoever wrote
\* the previous one.  A failed call ends here, in finalize.
Audit(t) ==
    LET i == thread[t].incident
        outcome == thread[t].outcome
    IN
    /\ At(t, "audit")
    /\ incident' = [incident EXCEPT ![i].execution = outcome, ![i].verdict = "NONE"]
    /\ IF outcome = "SUCCESS" THEN Goto(t, "check") ELSE Return(t)
    /\ UNCHANGED <<replicas, repaired, requests, history>>

\* The tool's own post-condition, read from the cluster; reading a live
\* cluster may fail, which counts as a failed verification.
Holds(plan, i) ==
    IF plan.action = "scale_deployment"
    THEN plan.deployment \in Deployments /\ replicas[plan.deployment] = plan.desired
    ELSE <<plan.action, Subject[i].resource>> \in repaired

Verdicts(plan, i) ==
    IF plan.action \in ReadTools THEN {"NONE"}
    ELSE (IF Holds(plan, i) THEN {"PASSED"} ELSE {"FAILED"})
         \union (IF LiveCluster THEN {"FAILED"} ELSE {})

CheckPostCondition(t) ==
    LET i == thread[t].incident IN
    /\ At(t, "check")
    /\ \E verdict \in Verdicts(thread[t].plan, i) :
          incident' = [incident EXCEPT ![i].execution = "SUCCESS", ![i].verdict = verdict]
    /\ Goto(t, "verify")
    /\ UNCHANGED <<replicas, repaired, requests, history>>

\* Faulty variant: only a verification that passed is written to the status.
VerifyPassedOnly(t) ==
    LET i == thread[t].incident
        passed == incident[i].verdict = "PASSED"
    IN
    /\ At(t, "verify")
    /\ incident' = [incident EXCEPT
          ![i].verification = IF passed THEN "PASSED" ELSE "FAILED",
          ![i].status = IF passed THEN "REMEDIATED" ELSE @]
    /\ Return(t)
    /\ UNCHANGED <<replicas, repaired, requests, history>>

\* The verify node believes the result the incident holds by now.
Verify(t) ==
    LET i == thread[t].incident
        passed == incident[i].verdict = "PASSED"
    IN
    /\ At(t, "verify")
    /\ incident' = [incident EXCEPT
          ![i].verification = IF passed THEN "PASSED" ELSE "FAILED",
          ![i].status = IF passed THEN "REMEDIATED" ELSE "VERIFICATION_FAILED"]
    /\ Return(t)
    /\ UNCHANGED <<replicas, repaired, requests, history>>

-----------------------------------------------------------------------------
Request(t) ==
    \E i \in Incidents :
        \/ CreateIncident(t, i)
        \/ RerunIncident(t, i)
        \/ \E kind \in {"approve", "reject"} : RequestDecision(t, i, kind)

\* What a thread does once it has accepted a request.
Step(t) ==
    \/ Classify(t) \/ Investigate(t) \/ InvestigationRaises(t) \/ Diagnose(t)
    \/ PlanRemediation(t) \/ PolicyCheck(t) \/ Dispatch(t)
    \/ CheckPending(t) \/ Approve(t) \/ Reject(t)
    \/ BeginExecution(t) \/ RefuseMismatch(t) \/ RecordNoop(t) \/ RefuseTool(t)
    \/ AuthorizeTool(t)
    \/ ToolSucceeds(t) \/ ToolFails(t) \/ ToolFailsLate(t)
    \/ Audit(t) \/ CheckPostCondition(t) \/ Verify(t)

Next == \E t \in Threads : Request(t) \/ Step(t)

Spec == Init /\ [][Next]_vars

\* A request in progress is never abandoned by the server; nobody has to
\* send one.
FairSpec == Spec /\ \A t \in Threads : WF_vars(Step(t))
=============================================================================
