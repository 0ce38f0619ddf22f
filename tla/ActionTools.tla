----------------------------- MODULE ActionTools -----------------------------
(***************************************************************************)
(* The gate in front of every action tool (backend/mcp): the authorisation *)
(* of ToolRegistry._authorize and the checks each tool repeats on its own  *)
(* arguments before it touches the cluster.                                *)
(***************************************************************************)
EXTENDS PolicyEngine

CONSTANT ReadTools      \* registered read tools that need no argument

ActionToolNames ==
    {"scale_deployment", "restart_deployment", "renew_certificate",
     "rollback_rbac", "apply_security_config"}

ASSUME ReadToolsAssumption == ReadTools \cap ActionToolNames = {}

\* The names get_registry() knows.
RegisteredTools == ActionToolNames \union ReadTools

\* Input validation: the planner supplies no argument for
\* apply_security_config, whose arguments are all required.
ArgumentsValid(plan) == plan.action # "apply_security_config"

\* Faulty variant: a decision that allows nothing is not told apart.
AuthorizedDespiteNoAction(plan, policy, approved) ==
    \/ plan.action \in ReadTools
    \/ /\ policy.plan.action = plan.action
       /\ policy.decision = "APPROVAL_REQUIRED" => approved

\* Faulty variant: nobody has to approve.
AuthorizedUnasked(plan, policy, approved) ==
    \/ plan.action \in ReadTools
    \/ policy.decision # "NO_ACTION" /\ policy.plan.action = plan.action

\* ToolRegistry._authorize.  A read tool needs no policy.
Authorized(plan, policy, approved) ==
    \/ plan.action \in ReadTools
    \/ /\ policy.decision # "NO_ACTION"
       /\ policy.plan.action = plan.action
       /\ policy.decision = "APPROVAL_REQUIRED" => approved

Magnitude(n) == IF n < 0 THEN -n ELSE n

\* Faulty variant: the tool relies on the policy engine alone.
UnguardedTool(plan) == FALSE

\* The tool raises PolicyRefused on its own account.
ToolRefuses(plan) ==
    \/ /\ plan.action = "scale_deployment"
       /\ \/ plan.desired <= 0
          \/ plan.deployment \notin AllowedDeployments
          \/ plan.namespace \notin AllowedNamespaces
          \/ Magnitude(plan.delta) > MaxAutoscaleDelta
          \/ plan.desired > MaxAutoscaleReplicas
    \/ /\ plan.action = "restart_deployment"
       /\ \/ plan.deployment \notin AllowedDeployments
          \/ plan.namespace \notin AllowedNamespaces
    \/ /\ plan.action = "renew_certificate"
       /\ plan.namespace \notin AllowedNamespaces
=============================================================================
