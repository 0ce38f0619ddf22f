------------------------------- MODULE DemoLoop -------------------------------
(***************************************************************************)
(* The closed loop of the demonstration: the detector and the findings     *)
(* catalogue look at the simulated cluster, the gates decide, the actions  *)
(* change the cluster, and the detector looks again.  Requests come one at *)
(* a time (IncidentWorkflow and SecurityFindings have the threads), so a   *)
(* request is one action, and the model's answer is the mock provider's.   *)
(***************************************************************************)
EXTENDS FindingsCatalogue

CONSTANTS
    Reports,        \* shells that clients report to POST /incidents
    MaxRequests,    \* bound: requests in one behaviour
    MaxDetections   \* bound: runs of the detector in one behaviour

\* A client's report names a type the API knows.
ASSUME ReportsAssumption == \A shell \in Reports : shell.type \in IncidentTypes

VARIABLES
    cluster,        \* the simulated cluster
    incidents,      \* the incidents, in the order of their ids
    findings,       \* the findings, in the order of their ids
    seeded,         \* the scan has been run
    requests,       \* requests served so far
    detections      \* runs of the detector so far

vars == <<cluster, incidents, findings, seeded, requests, detections>>

Init ==
    /\ cluster = InitialCluster
    /\ incidents = << >>
    /\ findings = << >>
    /\ seeded = FALSE
    /\ requests = 0
    /\ detections = 0

Serve == requests < MaxRequests /\ requests' = requests + 1

-----------------------------------------------------------------------------
(* Incidents.                                                              *)

NewIncident(shell) ==
    [type |-> shell.type, resource |-> shell.resource, status |-> "DETECTED",
     approval |-> "NOT_REQUIRED", plan |-> NoPlan, policy |-> FailClosed, timeline |-> << >>]

\* The mock provider always has an answer.
MockAdvice(type) ==
    CASE type \in {"high_cpu", "high_memory", "oom_killed"} -> "scale_deployment"
      [] type = "crashloop_backoff"  -> "restart_deployment"
      [] type = "certificate_expiry" -> "renew_certificate"
      [] type = "suspicious_rbac"    -> "rollback_rbac"
      [] OTHER                       -> "none"

\* Faulty variant: the binding is looked for under the name of the namespace.
PlanForNamespace(c, inc) ==
    CASE MockAdvice(inc.type) = "scale_deployment" ->
            [Scale(inc.resource, DeploymentState(c, inc.resource).replicas + 1) EXCEPT !.delta = 1]
      [] MockAdvice(inc.type) = "restart_deployment" -> Restart(inc.resource)
      [] MockAdvice(inc.type) = "rollback_rbac" -> Rollback(Namespace)
      [] MockAdvice(inc.type) = "renew_certificate" ->
            Proposal("renew_certificate", Absent, Namespace, 0, Absent, Absent)
      [] OTHER -> Proposal("none", Absent, Absent, 0, Absent, Absent)

PlanFor(c, inc) ==
    CASE MockAdvice(inc.type) = "scale_deployment" ->
            [Scale(inc.resource, DeploymentState(c, inc.resource).replicas + 1) EXCEPT !.delta = 1]
      [] MockAdvice(inc.type) = "restart_deployment" -> Restart(inc.resource)
      [] MockAdvice(inc.type) = "rollback_rbac" -> Rollback(inc.resource)
      [] MockAdvice(inc.type) = "renew_certificate" ->
            Proposal("renew_certificate", Absent, Namespace, 0, Absent, Absent)
      [] OTHER -> Proposal("none", Absent, Absent, 0, Absent, Absent)

\* The stations an investigation leaves in the timeline; correlation enters
\* its start and its end.
Investigation ==
    << "classify", "collect_evidence", "correlate", "correlate", "rag_retrieve",
       "diagnose", "assess_risk", "plan_remediation", "policy_check" >>

Investigated(c, inc) ==
    LET plan == PlanFor(c, inc)
    IN  [inc EXCEPT !.plan = plan, !.policy = Evaluate(inc.type, plan),
                    !.timeline = @ \o Investigation]

Outcome(c, inc) == [cluster |-> c, incident |-> inc]

\* The execution graph: without a tool a success, refused EXECUTING for good.
Execute(c, inc, approved) ==
    LET plan == inc.plan
        after == Performed(c, plan)
    IN  CASE plan.action \notin RegisteredTools ->
                Outcome(c, [inc EXCEPT !.status = "REMEDIATED", !.timeline = Append(@, "verify")])
          [] /\ plan.action \in RegisteredTools
             /\ ToolRefuses(plan) \/ ~Authorized(plan, inc.policy, approved) ->
                Outcome(c, [inc EXCEPT !.status = "EXECUTING", !.timeline = Append(@, "execute")])
          [] OTHER ->
                Outcome(after,
                        [inc EXCEPT !.timeline = @ \o <<"execute", "verify">>,
                                    !.status = IF VerifiedByTool(after, plan)
                                               THEN "REMEDIATED" ELSE "VERIFICATION_FAILED"])

\* run_workflow: investigate, then execute, open an approval, or leave it.
RunWorkflow(c, inc) ==
    LET i == Investigated(c, inc)
    IN  CASE i.policy.decision = "AUTO" ->
                Execute(c, [i EXCEPT !.approval = "NOT_REQUIRED"], FALSE)
          [] i.policy.decision = "APPROVAL_REQUIRED" ->
                Outcome(c, [i EXCEPT !.approval = "PENDING", !.status = "AWAITING_APPROVAL"])
          [] OTHER -> Outcome(c, [i EXCEPT !.status = "NO_ACTION"])

\* One workflow, and the incident it leaves behind the others.
Handle(acc, shell) ==
    LET o == RunWorkflow(acc.cluster, NewIncident(shell))
    IN  [cluster |-> o.cluster, incidents |-> Append(acc.incidents, o.incident)]

HandleAll(start, shells) ==
    LET after[n \in 0 .. Len(shells)] ==
            IF n = 0 THEN start ELSE Handle(after[n - 1], shells[n])
    IN  after[Len(shells)]

\* POST /incidents/detect: all shells first, then one workflow after another.
Detect ==
    LET end == HandleAll([cluster |-> cluster, incidents |-> incidents], Detected(cluster)) IN
    /\ Serve
    /\ detections < MaxDetections
    /\ detections' = detections + 1
    /\ cluster' = end.cluster
    /\ incidents' = end.incidents
    /\ UNCHANGED <<findings, seeded>>

\* POST /incidents.
Report(shell) ==
    LET o == RunWorkflow(cluster, NewIncident(shell)) IN
    /\ Serve
    /\ cluster' = o.cluster
    /\ incidents' = Append(incidents, o.incident)
    /\ UNCHANGED <<findings, seeded, detections>>

Update(k, o) ==
    /\ cluster' = o.cluster
    /\ incidents' = [incidents EXCEPT ![k] = o.incident]
    /\ UNCHANGED <<findings, seeded, detections>>

\* POST /incidents/{id}/run.
Rerun(k) == Serve /\ Update(k, RunWorkflow(cluster, incidents[k]))

Approve(k) ==
    /\ Serve
    /\ incidents[k].approval = "PENDING"
    /\ Update(k, Execute(cluster, [incidents[k] EXCEPT !.approval = "APPROVED"], TRUE))

\* Faulty variant: the rejection closes the incident and leaves it open for approval.
RejectAndClose(k) ==
    /\ Serve
    /\ incidents[k].approval = "PENDING"
    /\ Update(k, Outcome(cluster, [incidents[k] EXCEPT !.status = "CLOSED"]))

Reject(k) ==
    /\ Serve
    /\ incidents[k].approval = "PENDING"
    /\ Update(k, Outcome(cluster, [incidents[k] EXCEPT !.approval = "REJECTED",
                                                       !.status = "REJECTED"]))

-----------------------------------------------------------------------------
(* Findings.                                                               *)

\* _finish_remediation.
Remediate(c, f) ==
    LET after == Performed(c, f.spec.plan)
    IN  [cluster |-> after,
         finding |-> [f EXCEPT !.status = IF VerifiedByFinding(after, f.spec.plan)
                                          THEN "REMEDIATED" ELSE "VERIFICATION_FAILED"]]

\* _run_pipeline_body on a new finding.
RunPipeline(c, source, spec) ==
    LET decision == EvaluateFinding(spec.layer, spec.plan).decision
        f == [source |-> source, spec |-> spec, decision |-> decision, status |-> "OPEN"]
    IN  CASE decision = "AUTO" -> Remediate(c, f)
          [] decision = "APPROVAL_REQUIRED" ->
                [cluster |-> c, finding |-> [f EXCEPT !.status = "AWAITING_APPROVAL"]]
          [] OTHER -> [cluster |-> c, finding |-> f]

\* One result of the scan.
Scan(acc, spec) ==
    LET r == RunPipeline(acc.cluster, "scan", spec)
    IN  [cluster |-> r.cluster, findings |-> Append(acc.findings, r.finding)]

ScanAll(start) ==
    LET after[n \in 0 .. Len(SeedSpecs)] ==
            IF n = 0 THEN start ELSE Scan(after[n - 1], SeedSpecs[n])
    IN  after[Len(SeedSpecs)]

\* _seed: what every reader of the findings finds after the scan.
Seeded ==
    LET before == [cluster |-> cluster, findings |-> findings]
    IN  IF seeded THEN before ELSE ScanAll(before)

\* GET /security/findings, for the first time.
ListFindings ==
    /\ Serve
    /\ ~seeded
    /\ cluster' = Seeded.cluster
    /\ findings' = Seeded.findings
    /\ seeded' = TRUE
    /\ UNCHANGED <<incidents, detections>>

\* POST /security/lab/run/{key}: does not look at the scan.
RunLab(key) ==
    LET r == RunPipeline(cluster, key, LabScenarios[key]) IN
    /\ Serve
    /\ cluster' = r.cluster
    /\ findings' = Append(findings, r.finding)
    /\ UNCHANGED <<incidents, seeded, detections>>

\* POST /security/findings/{id}/decision: the lookup runs the scan first.
DecideFinding(k, approve) ==
    LET f == Seeded.findings[k]
        r == IF approve THEN Remediate(Seeded.cluster, f)
             ELSE [cluster |-> Seeded.cluster, finding |-> [f EXCEPT !.status = "OPEN"]]
    IN
    /\ Serve
    /\ f.status = "AWAITING_APPROVAL"
    /\ cluster' = r.cluster
    /\ findings' = [Seeded.findings EXCEPT ![k] = r.finding]
    /\ seeded' = TRUE
    /\ UNCHANGED <<incidents, detections>>

\* POST /security/reset.
ResetFindings ==
    /\ Serve
    /\ findings # << >>
    /\ findings' = << >>
    /\ seeded' = FALSE
    /\ UNCHANGED <<cluster, incidents, detections>>

Next ==
    \/ Detect
    \/ \E shell \in Reports : Report(shell)
    \/ \E k \in DOMAIN incidents : Rerun(k) \/ Approve(k) \/ Reject(k)
    \/ ListFindings
    \/ \E key \in DOMAIN LabScenarios : RunLab(key)
    \/ \E k \in DOMAIN findings, approve \in BOOLEAN : DecideFinding(k, approve)
    \/ ResetFindings

Spec == Init /\ [][Next]_vars
=============================================================================
