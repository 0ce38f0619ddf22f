--------------------------- MODULE PolicyRequests ---------------------------
(***************************************************************************)
(* One request put to the policy engine and, for an incident, the same     *)
(* plan handed to the tool executor afterwards.  The workflow only asks    *)
(* for plans the planner has built; here the plan is any the two           *)
(* interfaces accept, as in tests/test_policy_engine.py and                *)
(* tests/test_mcp_validation.py, and as in the body of POST                *)
(* /security/findings.                                                     *)
(***************************************************************************)
EXTENDS ActionTools

CONSTANTS
    Namespaces,     \* namespaces a plan may name
    Deployments,    \* deployments a plan may name
    Deltas,         \* bound: scale steps a plan may ask for
    Counts          \* bound: replica counts a plan may ask for

ASSUME InputsAssumption == Deltas \subseteq Int /\ Counts \subseteq Nat

VARIABLES
    subject,    \* incident type or control layer the request is about
    plan,       \* the plan it proposes
    policy,     \* the decision, once taken
    phase       \* how far the request has come

vars == <<subject, plan, policy, phase>>

Actions == ActionToolNames \union ReadTools \union {"request_memory_review", "isolate_pod", "none"}

Plans == [action : Actions,
          deployment : Deployments \union {Absent},
          namespace : Namespaces \union {Absent},
          delta : Deltas, desired : Counts]

Init ==
    /\ subject \in IncidentTypes \union Layers
    /\ plan \in Plans
    /\ policy = FailClosed
    /\ phase = "asked"

EvaluateIncident ==
    /\ phase = "asked"
    /\ subject \in IncidentTypes
    /\ policy' = Evaluate(subject, plan)
    /\ phase' = "decided"
    /\ UNCHANGED <<subject, plan>>

EvaluateSecurityFinding ==
    /\ phase = "asked"
    /\ subject \in Layers
    /\ policy' = EvaluateFinding(subject, plan)
    /\ phase' = "decided"
    /\ UNCHANGED <<subject, plan>>

\* A scale parameter that is no number: int() raises inside the engine.
EvaluationRaises ==
    /\ phase = "asked"
    /\ subject \in IncidentTypes
    /\ plan.action = "scale_deployment"
    /\ Applicable(subject, plan.action) # {}
    /\ policy' = FailClosed
    /\ phase' = "decided"
    /\ UNCHANGED <<subject, plan>>

\* The workflow hands the incident's plan to the executor, with or without
\* a human approval.  The executor's outcome.
Executed(approved) ==
    IF Authorized(plan, policy, approved) /\ ~ToolRefuses(plan)
    THEN IF approved THEN "performed with approval" ELSE "performed"
    ELSE IF approved THEN "refused with approval" ELSE "refused"

Execute ==
    /\ phase = "decided"
    /\ subject \in IncidentTypes
    /\ plan.action \in RegisteredTools
    /\ ArgumentsValid(plan)
    /\ \E approved \in BOOLEAN : phase' = Executed(approved)
    /\ UNCHANGED <<subject, plan, policy>>

Next ==
    \/ EvaluateIncident
    \/ EvaluateSecurityFinding
    \/ EvaluationRaises
    \/ Execute

Spec == Init /\ [][Next]_vars

-----------------------------------------------------------------------------
TargetListed ==
    /\ plan.namespace \in AllowedNamespaces \union {Absent}
    /\ plan.deployment \in AllowedDeployments \union {Absent}

\* An incident's plan runs without a human only if it scales for high CPU,
\* by no more than the configured step, to no more than the configured
\* maximum (README.md, security model, point 3); a finding's only if it
\* recovers an application workload (policy/engine.py, rule F-01).  Both
\* only on targets of the allow-lists.
AutoIsRecovery ==
    policy.decision = "AUTO" =>
        /\ TargetListed
        /\ \/ /\ subject = "high_cpu"
              /\ plan.action = "scale_deployment"
              /\ plan.delta <= MaxAutoscaleDelta
              /\ plan.desired <= MaxAutoscaleReplicas
           \/ /\ subject = "application"
              /\ plan.action \in {"restart_deployment", "scale_deployment", "none"}

\* An action tool changes the cluster only for an action the policy engine
\* allowed, on listed targets, within the configured maximum, and without a
\* human only to scale for high CPU.
PerformedIsAllowed ==
    phase \in {"performed", "performed with approval"} /\ plan.action \in ActionToolNames =>
        /\ TargetListed
        /\ plan.action = "scale_deployment" => plan.desired \in 1 .. MaxAutoscaleReplicas
        /\ \/ phase = "performed with approval" /\ policy.decision # "NO_ACTION"
           \/ subject = "high_cpu" /\ plan.action = "scale_deployment"

\* The planner adds one replica and names the target of what needs one.
Planned ==
    /\ plan.action = "scale_deployment" => plan.delta = 1 /\ plan.desired > 0
    /\ plan.action \in {"scale_deployment", "restart_deployment"} =>
          plan.deployment # Absent /\ plan.namespace # Absent
    /\ plan.action = "renew_certificate" => plan.namespace # Absent

\* The engine and the tools keep separate guards.  They agree: once the
\* engine has allowed a plan the planner built, approving it is never in
\* vain, the tool does not refuse it (where a step of one may be taken).
GatesAgree ==
    MaxAutoscaleDelta > 0 /\ Planned /\ policy.decision # "NO_ACTION"
        => phase # "refused with approval"

\* What the three properties rest on: a decision stands for the request it
\* was asked about, and an outcome for the gates that led to it.
GateInv ==
    /\ subject \in IncidentTypes \union Layers
    /\ plan \in Plans
    /\ phase \in {"asked", "decided", "performed", "performed with approval",
                  "refused", "refused with approval"}
    /\ \/ policy = FailClosed
       \/ subject \in IncidentTypes /\ policy = Evaluate(subject, plan)
       \/ subject \in Layers /\ policy = EvaluateFinding(subject, plan)
    /\ phase \notin {"asked", "decided"} =>
          subject \in IncidentTypes /\ plan.action \in RegisteredTools
    /\ phase = "performed" => Authorized(plan, policy, FALSE)
    /\ phase = "performed with approval" => Authorized(plan, policy, TRUE)
    /\ phase \in {"performed", "performed with approval"} => ~ToolRefuses(plan)
    /\ phase = "refused with approval" => ~Authorized(plan, policy, TRUE) \/ ToolRefuses(plan)
=============================================================================
