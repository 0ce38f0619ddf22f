------------------------------ MODULE DemoSafety ------------------------------
(* What the closed loop of the demonstration promises. *)
EXTENDS DemoLoop, WorkflowReplay

Statuses ==
    {"DETECTED", "NO_ACTION", "AWAITING_APPROVAL", "EXECUTING", "REMEDIATED",
     "VERIFICATION_FAILED", "REJECTED"}

\* The types of the loop's state: incidents and findings are as their handlers
\* leave them, and the cluster keeps its pods whatever is done to it.
DemoTypeOK ==
    /\ DOMAIN InitialCluster.deployment \subseteq DOMAIN cluster.deployment
    /\ \A d \in DOMAIN cluster.deployment :
          cluster.deployment[d].available \in 0 .. cluster.deployment[d].replicas
    /\ [k \in DOMAIN cluster.pods |-> cluster.pods[k].name]
         = [k \in DOMAIN InitialCluster.pods |-> InitialCluster.pods[k].name]
    /\ cluster.bindings \subseteq InitialCluster.bindings
    /\ \A k \in DOMAIN incidents :
          /\ incidents[k].type \in IncidentTypes
          /\ incidents[k].status \in Statuses \ {"DETECTED"}
          /\ incidents[k].approval \in {"NOT_REQUIRED", "PENDING", "APPROVED", "REJECTED"}
          /\ incidents[k].policy.decision \in Decisions
          /\ ToSet(incidents[k].timeline) \subseteq ToSet(Pipeline)
    /\ \A k \in DOMAIN findings :
          /\ findings[k].source \in {"scan"} \union DOMAIN LabScenarios
          /\ findings[k].status \in
                {"OPEN", "AWAITING_APPROVAL", "REMEDIATED", "VERIFICATION_FAILED"}

\* The types whose repair removes what the detector looks for.  (A scale adds
\* replicas, and the simulated series do not change: simulation.py:150.)
Curable == {"crashloop_backoff", "certificate_expiry", "suspicious_rbac"}

\* An incident of a curable type that the verification of its tool has called
\* REMEDIATED is gone: the detector does not report it again, now or later
\* (tools_actions.py verifies; detector.py detects; the two must agree).
RemediatedIsCured ==
    \A k \in DOMAIN incidents :
        incidents[k].type \in Curable /\ incidents[k].status = "REMEDIATED" =>
            Shell(incidents[k].type, incidents[k].resource) \notin ToSet(Detected(cluster))

\* Everything the catalogue of findings proposes is something the cluster can
\* do and the verification recognises, in whatever order it is done
\* (security.py _verify_body against simulation.py); the exception is a
\* crash-demo that has been scaled out, of which a restart revives one replica.
EveryRemediationVerifies ==
    DeploymentState(cluster, "crash-demo").replicas = 1 =>
        \A k \in DOMAIN findings : findings[k].status # "VERIFICATION_FAILED"

\* A person approved something in this step.
Approved ==
    \/ \E k \in DOMAIN incidents :
          incidents[k].approval = "PENDING" /\ incidents'[k].approval = "APPROVED"
    \/ \E k \in DOMAIN findings :
          /\ findings[k].status = "AWAITING_APPROVAL"
          /\ findings'[k].status \in {"REMEDIATED", "VERIFICATION_FAILED"}

\* Bindings, certificate and security configurations change only in a step in
\* which a person approves, whichever of the two policy tables decides.
PrivilegeNeedsConsent ==
    [][<<cluster.bindings, cluster.certDays, cluster.configs>>'
         # <<cluster.bindings, cluster.certDays, cluster.configs>> => Approved]_vars

\* The logs tell the same story as the detector: a workload shows errors
\* exactly while the incident about it would be detected
\* (simulation.py app_logs: logs reflect the actual simulated pod state).
LogsMirrorCluster ==
    LET reported == ToSet(Detected(cluster))
    IN  LoggedErrors(cluster) =
            {d \in {"crash-demo"} : Shell("crashloop_backoff", d) \in reported}
              \union {d \in {"memory-demo"} : Shell("oom_killed", d) \in reported}

\* The decision the lab announces before a scenario is the one the engine takes,
\* and of a scan the engine handles exactly one result alone (security.py:656).
HintIsDecision ==
    /\ \A k \in DOMAIN findings :
          findings[k].source # "scan" => findings[k].decision = DecisionHint(findings[k].source)
    /\ seeded => Cardinality({k \in DOMAIN findings :
                    findings[k].source = "scan" /\ findings[k].decision = "AUTO"}) = 1

Timed(timeline) == [k \in DOMAIN timeline |-> Entry(timeline[k], k)]

Position(station) == CHOOSE k \in DOMAIN Pipeline : Pipeline[k] = station

\* The steps run forward in time and through the pipeline, pass every station
\* of the timeline, and end where the incident is.
InOrder(inc, steps) ==
    /\ \A j \in 2 .. Len(steps) :
          /\ steps[j - 1].time < steps[j].time
          /\ Position(steps[j - 1].station) <= Position(steps[j].station)
    /\ ToSet(inc.timeline) \subseteq Stations(steps)
    /\ inc.status \in Resolved => Last(steps).station = "finalize"
    /\ inc.status = "AWAITING_APPROVAL" /\ {"execute", "verify"} \intersect ToSet(inc.timeline) = {}
          => Last(steps).station = "approval"
    /\ inc.approval = "NOT_REQUIRED" => "approval" \notin Stations(steps)

\* A replay of any incident runs forward in time and through the pipeline, and
\* its last station is the state the incident is in: the end when it is
\* settled, the approval when it waits for one and nothing has been executed
\* (api/workflow.py _steps, test_api.py:158).
ReplayInOrder ==
    \A k \in DOMAIN incidents :
        InOrder(incidents[k], Replay([incidents[k] EXCEPT !.timeline = Timed(@)]))

-----------------------------------------------------------------------------
(* What the properties rest on.                                            *)

\* The configuration as it ships (config.py): the namespace of the demonstration
\* and the deployments the catalogue names are on the allow-lists.
ShippedAllowLists ==
    /\ Namespace \in AllowedNamespaces
    /\ {"demo-app", "cpu-demo", "crash-demo"} \subseteq AllowedDeployments

\* The pods are either as they were deployed or have all been restarted; only
\* crash-demo lacks replicas.
ClusterOK(c) ==
    /\ c \in [deployment : {c.deployment}, pods : {InitialCluster.pods, Restarted(InitialCluster).pods},
              bindings : SUBSET InitialCluster.bindings, certDays : {4, 365}, configs : {c.configs}]
    /\ c.deployment \in [DOMAIN c.deployment -> [replicas : Nat \ {0}, ready : Nat, available : Nat]]
    /\ DOMAIN InitialCluster.deployment \subseteq DOMAIN c.deployment
    /\ \A d \in DOMAIN c.deployment :
          LET s == c.deployment[d]
          IN  s.available <= s.replicas /\ (d # "crash-demo" => s.available = s.replicas)

\* The stations that an incident's timeline may have: nothing enters an approval
\* or an end.
Noted == ToSet(Pipeline) \ {"approval", "finalize"}

\* An incident's record.
Recorded(inc) ==
    inc \in [type : IncidentTypes, resource : {inc.resource}, status : Statuses,
             approval : {"NOT_REQUIRED", "PENDING", "APPROVED", "REJECTED"},
             plan : {inc.plan}, policy : {inc.policy}, timeline : Seq(Noted)]

\* It has the plan its type calls for and the decision about it.  A scale of
\* crash-demo never goes back to one replica.
Planned(inc) ==
    /\ inc.policy = Evaluate(inc.type, inc.plan)
    /\ inc.plan.action = MockAdvice(inc.type)
    /\ inc.plan.action = "rollback_rbac" => inc.plan.target = inc.resource
    /\ inc.plan.action = "scale_deployment" =>
          inc.plan.desired \in Nat \ {0} /\ (inc.plan.deployment = "crash-demo" => inc.plan.desired > 1)

Cured(inc, c) ==
    inc.type \in Curable /\ inc.status = "REMEDIATED" =>
        Shell(inc.type, inc.resource) \notin ToSet(Detected(c))

\* Who is waited for can still answer.
Awaited(inc) == inc.status = "AWAITING_APPROVAL" => inc.approval = "PENDING"

IncidentOK(inc, c) ==
    Recorded(inc) /\ Planned(inc) /\ Awaited(inc) /\ inc.status # "DETECTED" /\ Cured(inc, c)

\* A finding is an entry of the catalogue with the decision about it; what was
\* not verified was the restart of a crash-demo that has more than one replica.
FindingOK(f, c) ==
    /\ f \in [source : {"scan"} \union DOMAIN LabScenarios, spec : {f.spec},
              decision : {EvaluateFinding(f.spec.layer, f.spec.plan).decision},
              status : {"OPEN", "AWAITING_APPROVAL", "REMEDIATED", "VERIFICATION_FAILED"}]
    /\ f.spec \in IF f.source = "scan" THEN ToSet(SeedSpecs) ELSE {LabScenarios[f.source]}
    /\ f.status = "VERIFICATION_FAILED" => CrashReplicas(c) > 1

\* The findings of the scan that concern an application: the first entry.
Unattended(fs) == {k \in DOMAIN fs : fs[k].source = "scan" /\ fs[k].spec = SeedSpecs[1]}

DemoInv ==
    /\ ClusterOK(cluster)
    /\ incidents \in Seq(ToSet(incidents)) /\ findings \in Seq(ToSet(findings))
    /\ \A k \in DOMAIN incidents : IncidentOK(incidents[k], cluster)
    /\ \A k \in DOMAIN findings : FindingOK(findings[k], cluster)
    /\ IF seeded THEN \E k \in DOMAIN findings : Unattended(findings) = {k}
       ELSE \A k \in DOMAIN findings : findings[k].source # "scan"
=============================================================================
