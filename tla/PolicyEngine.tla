---------------------------- MODULE PolicyEngine ----------------------------
(***************************************************************************)
(* The authoritative policy of backend/policy/engine.py: an ordered table  *)
(* of rules for incidents, a second one for security findings, and the     *)
(* guardrails both apply before a decision leaves the engine.              *)
(*                                                                         *)
(* A plan is an action together with its parameters.  The code keeps the   *)
(* parameters in a dict; here they are the four the guardrails look at.    *)
(* A name that is not in the dict is Absent, a number that is not in it is *)
(* 0, which is what int(params.get(...) or 0) makes of it.                 *)
(***************************************************************************)
EXTENDS Integers, Sequences

CONSTANTS
    AllowedNamespaces,      \* settings.allowed_namespace_list()
    AllowedDeployments,     \* settings.allowed_deployment_list()
    MaxAutoscaleDelta,      \* settings.max_autoscale_delta
    MaxAutoscaleReplicas,   \* settings.max_autoscale_replicas
    Absent                  \* a parameter the plan does not have

ASSUME LimitsAssumption ==
    /\ MaxAutoscaleDelta \in Nat
    /\ MaxAutoscaleReplicas \in Nat

ASSUME AbsentAssumption == Absent \notin AllowedNamespaces \union AllowedDeployments

IncidentTypes ==
    {"high_cpu", "high_memory", "oom_killed", "crashloop_backoff",
     "certificate_expiry", "falco_security", "suspicious_rbac", "unknown"}

Layers == {"application", "container", "node_cloud", "kubernetes_cluster"}

Decisions == {"AUTO", "APPROVAL_REQUIRED", "NO_ACTION"}

\* No action at all: incident.recommended_action or policy.action is None.
NoPlan == [action |-> Absent, deployment |-> Absent, namespace |-> Absent,
           delta |-> 0, desired |-> 0]

\* A PolicyDecision: the decision with the action and parameters it is about.
Decision(d, plan) == [decision |-> d, plan |-> plan]

(***************************************************************************)
(* The incident table.  The first rule for the incident's type that names  *)
(* the action, or names "none", decides.                                   *)
(***************************************************************************)
Rule(type, action, decision) == [type |-> type, action |-> action, decision |-> decision]

Rules ==
    << Rule("high_cpu",           "scale_deployment",      "AUTO"),
       Rule("high_memory",        "request_memory_review", "APPROVAL_REQUIRED"),
       Rule("high_memory",        "scale_deployment",      "APPROVAL_REQUIRED"),
       Rule("oom_killed",         "scale_deployment",      "APPROVAL_REQUIRED"),
       Rule("crashloop_backoff",  "restart_deployment",    "APPROVAL_REQUIRED"),
       Rule("certificate_expiry", "renew_certificate",     "APPROVAL_REQUIRED"),
       Rule("falco_security",     "none",                  "APPROVAL_REQUIRED"),
       Rule("suspicious_rbac",    "rollback_rbac",         "APPROVAL_REQUIRED"),
       Rule("unknown",            "none",                  "NO_ACTION") >>

\* Faulty variant: the rule's incident type is not compared.
AppliesToAnyType(rule, type, action) == rule.action \in {action, "none"}

Applies(rule, type, action) == rule.type = type /\ rule.action \in {action, "none"}

Applicable(type, action) == {k \in DOMAIN Rules : Applies(Rules[k], type, action)}

FirstRule(type, action) ==
    Rules[CHOOSE k \in Applicable(type, action) :
            \A j \in Applicable(type, action) : k <= j]

\* Faulty variant: only the namespace is looked up.
NamespaceRefused(plan) == plan.namespace # Absent /\ plan.namespace \notin AllowedNamespaces

TargetRefused(plan) ==
    \/ plan.namespace # Absent /\ plan.namespace \notin AllowedNamespaces
    \/ plan.deployment # Absent /\ plan.deployment \notin AllowedDeployments

\* Faulty variant: one replica more than the maximum passes.
ScaleRefusedTooLate(rule, plan) ==
    /\ plan.action = "scale_deployment"
    /\ \/ rule.decision = "AUTO" /\ plan.delta > MaxAutoscaleDelta
       \/ plan.desired > MaxAutoscaleReplicas + 1

\* The ceiling on desired replicas holds for every scale, the one on the
\* step only for an automatic one.
ScaleRefused(rule, plan) ==
    /\ plan.action = "scale_deployment"
    /\ \/ rule.decision = "AUTO" /\ plan.delta > MaxAutoscaleDelta
       \/ plan.desired > MaxAutoscaleReplicas

ApplyGuardrails(rule, plan) ==
    IF ScaleRefused(rule, plan) \/ TargetRefused(plan) THEN "NO_ACTION" ELSE rule.decision

Evaluate(type, plan) ==
    IF Applicable(type, plan.action) = {}
    THEN Decision("NO_ACTION", plan)
    ELSE Decision(ApplyGuardrails(FirstRule(type, plan.action), plan), plan)

\* What evaluate() and evaluate_finding() return when the evaluation raises.
FailClosed == Decision("NO_ACTION", NoPlan)

\* Faulty variant: the cluster layer is handled like an application.
FindingRulesUnattended ==
    [application        |-> [allowed |-> {"restart_deployment", "scale_deployment"},
                             decision |-> "AUTO"],
     container          |-> [allowed |-> {"apply_security_config", "restart_deployment"},
                             decision |-> "APPROVAL_REQUIRED"],
     node_cloud         |-> [allowed |-> {"apply_security_config"},
                             decision |-> "APPROVAL_REQUIRED"],
     kubernetes_cluster |-> [allowed |-> {"rollback_rbac", "apply_security_config"},
                             decision |-> "AUTO"]]

(***************************************************************************)
(* The finding table, keyed on the control layer.  Every layer has exactly *)
(* one rule; "none" is accepted at every layer.                            *)
(***************************************************************************)
FindingRules ==
    [application        |-> [allowed |-> {"restart_deployment", "scale_deployment"},
                             decision |-> "AUTO"],
     container          |-> [allowed |-> {"apply_security_config", "restart_deployment"},
                             decision |-> "APPROVAL_REQUIRED"],
     node_cloud         |-> [allowed |-> {"apply_security_config"},
                             decision |-> "APPROVAL_REQUIRED"],
     kubernetes_cluster |-> [allowed |-> {"rollback_rbac", "apply_security_config"},
                             decision |-> "APPROVAL_REQUIRED"]]

EvaluateFinding(layer, plan) ==
    LET rule == FindingRules[layer]
    IN  IF plan.action \notin rule.allowed \union {"none"} \/ TargetRefused(plan)
        THEN Decision("NO_ACTION", plan)
        ELSE Decision(rule.decision, plan)
=============================================================================
