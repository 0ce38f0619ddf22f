-------------------------- MODULE MCSecurityFindings --------------------------
(* Instances of the security findings for TLC. *)
EXTENDS FindingsSafety, TLC

CONSTANTS t1, t2

Demo == "demo"          \* the allow-listed namespace
Cpu == "cpu-demo"
Crash == "crash-demo"

On(layer, resource, action, deployment, desired) ==
    [layer |-> layer, resource |-> resource,
     plan |-> [action |-> action, deployment |-> deployment, namespace |-> Demo,
               delta |-> 0, desired |-> desired]]

\* One finding the policy lets run alone, one that needs a human.
TwoFindings ==
    << On("application", Cpu, "restart_deployment", Cpu, 0),
       On("kubernetes_cluster", "ci-bot", "rollback_rbac", Absent, 0) >>

\* A configuration that needs a human, and a rollback at a layer whose rule
\* does not name it.
Mixed ==
    { On("container", "test-pod", "apply_security_config", Absent, 0),
      On("application", "ci-bot", "rollback_rbac", Absent, 0) }

Replicas == Cpu :> 2 @@ Crash :> 1
=============================================================================
