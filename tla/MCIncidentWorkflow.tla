------------------------- MODULE MCIncidentWorkflow -------------------------
(* Instances of the incident workflow for TLC. *)
EXTENDS WorkflowSafety, TLC

CONSTANTS i1, i2, i3, t1, t2

Demo == "demo"          \* the allow-listed namespace
Cpu == "cpu-demo"       \* the deployment the incidents are about

About(type, resource) == [type |-> type, resource |-> resource, namespace |-> Demo]

\* Two incidents about one deployment, one the policy handles alone and one
\* that needs a human.
SharedDeployment == i1 :> About("high_cpu", Cpu) @@ i2 :> About("oom_killed", Cpu)

\* The same, and a security incident, which falls under the wildcard rule.
MixedSubjects == SharedDeployment @@ i3 :> About("falco_security", "test-pod")

\* A security incident beside one the policy handles alone.
FairSubjects == i1 :> About("high_cpu", Cpu) @@ i2 :> About("suspicious_rbac", "ci-bot")

\* A single incident that needs a human.
OneApproval == i2 :> About("oom_killed", Cpu)

TwoReplicas == Cpu :> 2
ThreeReplicas == Cpu :> 3

\* The answers of the mock provider.
MockAdvice ==
    [type \in IncidentTypes |->
        CASE type \in {"high_cpu", "high_memory", "oom_killed"} -> {"scale_deployment"}
          [] type = "crashloop_backoff" -> {"restart_deployment"}
          [] type = "certificate_expiry" -> {"renew_certificate"}
          [] type = "suspicious_rbac" -> {"rollback_rbac"}
          [] OTHER -> {"none"}]

\* A real model may answer with any string.
FreeAdvice ==
    [type \in IncidentTypes |->
        CASE type = "falco_security" -> {"none", "get_pods", "rollback_rbac", "apply_security_config"}
          [] type = "oom_killed" -> {"scale_deployment", "restart_deployment"}
          [] OTHER -> MockAdvice[type]]
=============================================================================
