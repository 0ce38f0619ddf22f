------------------------ MODULE PolicyRequestsProofs ------------------------
(***************************************************************************)
(* The guarantees of the policy engine and the tool guards, for every set  *)
(* of names, every allow-list and every limit.                             *)
(***************************************************************************)
EXTENDS PolicyRequests, PolicyEngineProofs

\* Incident types and control layers do not overlap.
LEMMA SubjectsDisjoint == IncidentTypes \cap Layers = {}
BY DEF IncidentTypes, Layers

\* An evaluation that raised allows nothing.
LEMMA FailClosedAllowsNothing == FailClosed.decision = "NO_ACTION"
BY DEF FailClosed, Decision

\* A count no limit refuses is within the limits.
LEMMA CountWithinLimit ==
    \A n \in Nat :
        /\ ~(n > MaxAutoscaleReplicas) <=> n <= MaxAutoscaleReplicas
        /\ ~(n <= 0) <=> n > 0
        /\ n > 0 /\ n <= MaxAutoscaleReplicas => n \in 1 .. MaxAutoscaleReplicas
BY LimitsAssumption

\* A step of one passes the tool's limit wherever any step does.
LEMMA UnitStep == MaxAutoscaleDelta > 0 => ~(Magnitude(1) > MaxAutoscaleDelta)
BY LimitsAssumption DEF Magnitude

\* A decision about a finding that lets it run without a human concerns a
\* recovery action at the application layer.
LEMMA EvaluateFindingAuto ==
    ASSUME NEW layer \in Layers, NEW p,
           EvaluateFinding(layer, p).decision = "AUTO"
    PROVE  /\ layer = "application"
           /\ p.action \in {"restart_deployment", "scale_deployment", "none"}
           /\ ~TargetRefused(p)
<1>1. /\ p.action \in FindingRules[layer].allowed \union {"none"}
      /\ ~TargetRefused(p)
      /\ FindingRules[layer].decision = "AUTO"
  BY DEF EvaluateFinding, Decision
<1>2. layer = "application"
  BY <1>1 DEF FindingRules, Layers
<1>3. FindingRules["application"].allowed = {"restart_deployment", "scale_deployment"}
  BY DEF FindingRules
<1> QED
  BY <1>1, <1>2, <1>3

\* The inductive invariant holds initially.
LEMMA InitGateInv == Init => GateInv
BY DEF Init, GateInv

\* Every step preserves the inductive invariant.
LEMMA NextGateInv == GateInv /\ [Next]_vars => GateInv'
<1> SUFFICES ASSUME GateInv, [Next]_vars PROVE GateInv'
  OBVIOUS
<1>1. CASE EvaluateIncident
  BY <1>1 DEF EvaluateIncident, GateInv
<1>2. CASE EvaluateSecurityFinding
  BY <1>2 DEF EvaluateSecurityFinding, GateInv
<1>3. CASE EvaluationRaises
  BY <1>3 DEF EvaluationRaises, GateInv
<1>4. CASE Execute
  <2>1. PICK approved \in BOOLEAN : phase' = Executed(approved)
    BY <1>4 DEF Execute
  <2>2. /\ subject' = subject /\ plan' = plan /\ policy' = policy
        /\ subject \in IncidentTypes /\ plan.action \in RegisteredTools
    BY <1>4 DEF Execute
  <2>3. CASE approved = TRUE
    BY <2>1, <2>2, <2>3 DEF Executed, GateInv
  <2>4. CASE approved = FALSE
    BY <2>1, <2>2, <2>4 DEF Executed, GateInv
  <2> QED
    BY <2>3, <2>4
<1>5. CASE UNCHANGED vars
  BY <1>5 DEF vars, GateInv
<1> QED
  BY <1>1, <1>2, <1>3, <1>4, <1>5 DEF Next

\* The inductive invariant holds throughout.
LEMMA AlwaysGateInv == Spec => []GateInv
BY InitGateInv, NextGateInv, PTL DEF Spec

-----------------------------------------------------------------------------
\* Nothing runs without a human but a scale for high CPU within the limits
\* and the recovery of an application workload, on listed targets
\* (policy/engine.py, _evaluate and _evaluate_finding).
THEOREM AutoOnlyForRecovery == Spec => []AutoIsRecovery
<1>1. GateInv => AutoIsRecovery
  <2> SUFFICES ASSUME GateInv, policy.decision = "AUTO" PROVE AutoIsRecovery
    BY DEF AutoIsRecovery
  <2>1. policy # FailClosed
    BY DEF FailClosed, Decision
  <2>2. plan.delta \in Int /\ plan.desired \in Nat
    BY InputsAssumption DEF GateInv, Plans
  <2>3. CASE subject \in IncidentTypes /\ policy = Evaluate(subject, plan)
    <3>1. /\ subject = "high_cpu" /\ plan.action = "scale_deployment"
          /\ ~TargetRefused(plan)
          /\ ~(plan.delta > MaxAutoscaleDelta) /\ ~(plan.desired > MaxAutoscaleReplicas)
      BY <2>3, EvaluateAuto
    <3> QED
      BY <2>2, <3>1, LimitsAssumption DEF AutoIsRecovery, TargetListed, TargetRefused
  <2>4. CASE subject \in Layers /\ policy = EvaluateFinding(subject, plan)
    BY <2>4, EvaluateFindingAuto DEF AutoIsRecovery, TargetListed, TargetRefused
  <2> QED
    BY <2>1, <2>3, <2>4 DEF GateInv
<1> QED
  BY <1>1, AlwaysGateInv, PTL

\* Whatever reaches the cluster for an incident has passed both gates, and
\* a human where one is asked for.
THEOREM PerformedOnlyIfAllowed == Spec => []PerformedIsAllowed
<1>1. GateInv => PerformedIsAllowed
  <2> SUFFICES ASSUME GateInv,
                      phase \in {"performed", "performed with approval"},
                      plan.action \in ActionToolNames
               PROVE  PerformedIsAllowed
    BY DEF PerformedIsAllowed
  <2>1. plan.action \notin ReadTools
    BY ReadToolsAssumption
  <2>2. policy.decision # "NO_ACTION"
    BY <2>1 DEF GateInv, Authorized
  <2>3. subject \in IncidentTypes /\ policy = Evaluate(subject, plan)
    <3>1. policy # FailClosed
      BY <2>2, FailClosedAllowsNothing, Zenon
    <3>2. subject \in IncidentTypes
      BY DEF GateInv
    <3> QED
      BY <3>1, <3>2, SubjectsDisjoint DEF GateInv
  <2>4. TargetListed
    BY <2>2, <2>3, EvaluateAllows DEF TargetRefused, TargetListed
  <2>5. ASSUME plan.action = "scale_deployment"
        PROVE  plan.desired \in 1 .. MaxAutoscaleReplicas
    <3>1. plan.desired \in Nat
      BY InputsAssumption DEF GateInv, Plans
    <3>2. ~(plan.desired <= 0) /\ ~(plan.desired > MaxAutoscaleReplicas)
      BY <2>5 DEF GateInv, ToolRefuses
    <3> QED
      BY <3>1, <3>2, CountWithinLimit, Zenon
  <2>6. CASE phase = "performed with approval"
    BY <2>2, <2>4, <2>5, <2>6 DEF PerformedIsAllowed
  <2>7. CASE phase = "performed"
    <3>1. policy.decision # "APPROVAL_REQUIRED"
      BY <2>1, <2>7 DEF GateInv, Authorized
    <3>2. policy.decision = "AUTO"
      BY <2>2, <2>3, <3>1, EvaluateKeepsPlan DEF Decisions
    <3> QED
      BY <2>3, <2>4, <2>5, <3>2, EvaluateAuto DEF PerformedIsAllowed
  <2> QED
    BY <2>6, <2>7
<1> QED
  BY <1>1, AlwaysGateInv, PTL

\* The tools never refuse what the engine has allowed the planner.
THEOREM GatesNeverDisagree == Spec => []GatesAgree
<1>1. GateInv => GatesAgree
  <2> SUFFICES ASSUME GateInv, MaxAutoscaleDelta > 0, Planned,
                      policy.decision # "NO_ACTION", phase = "refused with approval"
               PROVE  FALSE
    BY DEF GatesAgree
  <2>1. plan.desired \in Nat
    BY InputsAssumption DEF GateInv, Plans
  <2>2. subject \in IncidentTypes /\ policy = Evaluate(subject, plan)
    <3>1. policy # FailClosed
      BY FailClosedAllowsNothing, Zenon
    <3>2. subject \in IncidentTypes
      BY DEF GateInv
    <3> QED
      BY <3>1, <3>2, SubjectsDisjoint DEF GateInv
  <2>3. Authorized(plan, policy, TRUE)
    <3>1. policy.plan = plan
      BY <2>2, EvaluateKeepsPlan
    <3> QED
      BY <3>1 DEF Authorized
  <2>4. plan.namespace \in AllowedNamespaces \union {Absent}
        /\ plan.deployment \in AllowedDeployments \union {Absent}
    BY <2>2, EvaluateAllows DEF TargetRefused
  <2>5. CASE plan.action = "scale_deployment"
    <3>1. plan.delta = 1 /\ plan.desired > 0 /\ plan.deployment # Absent /\ plan.namespace # Absent
      BY <2>5 DEF Planned
    <3>2. ~(plan.desired > MaxAutoscaleReplicas)
      BY <2>2, <2>5, EvaluateAllows DEF ScaleRefused
    <3>3. ~(plan.desired <= 0)
      BY <2>1, <3>1, CountWithinLimit, Zenon
    <3>4. ~(Magnitude(plan.delta) > MaxAutoscaleDelta)
      BY <3>1, UnitStep
    <3>5. ~ToolRefuses(plan)
      BY <2>4, <2>5, <3>1, <3>2, <3>3, <3>4, Zenon DEF ToolRefuses
    <3> QED
      BY <2>3, <3>5 DEF GateInv
  <2>6. CASE plan.action # "scale_deployment"
    <3>1. ~ToolRefuses(plan)
      BY <2>4, <2>6 DEF ToolRefuses, Planned
    <3> QED
      BY <2>3, <3>1 DEF GateInv
  <2> QED
    BY <2>5, <2>6
<1> QED
  BY <1>1, AlwaysGateInv, PTL
=============================================================================
