------------------------- MODULE PolicyEngineProofs -------------------------
(***************************************************************************)
(* Facts about the decision operators of PolicyEngine that the theorems    *)
(* about its callers rest on.                                              *)
(***************************************************************************)
EXTENDS PolicyEngine, TLAPS

\* Among finitely many table rows, one is the first.
LEMMA FirstRowExists ==
    ASSUME NEW S \in SUBSET (1 .. 9), S # {}
    PROVE  \E k \in S : \A j \in S : k <= j
<1>1. \A n \in S : n \in {1, 2, 3, 4, 5, 6, 7, 8, 9}
  OBVIOUS
<1>2. CASE S \cap {1, 2, 3} # {}
  <2>1. CASE 1 \in S  BY <1>1, <2>1
  <2>2. CASE 1 \notin S /\ 2 \in S  BY <1>1, <2>2
  <2>3. CASE 1 \notin S /\ 2 \notin S /\ 3 \in S  BY <1>1, <2>3
  <2> QED  BY <1>2, <2>1, <2>2, <2>3
<1>3. CASE S \cap {1, 2, 3} = {} /\ S \cap {4, 5, 6} # {}
  <2>0. S \cap {1, 2, 3} = {}  BY <1>3
  <2>1. CASE 4 \in S  BY <1>1, <2>0, <2>1
  <2>2. CASE 4 \notin S /\ 5 \in S  BY <1>1, <2>0, <2>2
  <2>3. CASE 4 \notin S /\ 5 \notin S /\ 6 \in S  BY <1>1, <2>0, <2>3
  <2> QED  BY <1>3, <2>1, <2>2, <2>3
<1>4. CASE S \cap {1, 2, 3} = {} /\ S \cap {4, 5, 6} = {}
  <2>0. \A n \in S : n \in {7, 8, 9}  BY <1>1, <1>4
  <2>1. CASE 7 \in S  BY <2>0, <2>1
  <2>2. CASE 7 \notin S /\ 8 \in S  BY <2>0, <2>2
  <2>3. CASE 7 \notin S /\ 8 \notin S
    <3>1. S = {9}  BY <2>0, <2>3
    <3> QED  BY <3>1
  <2> QED  BY <2>1, <2>2, <2>3
<1> QED
  BY <1>2, <1>3, <1>4

\* The rule that decides is a row of the table, and it applies.
LEMMA FirstRuleApplies ==
    ASSUME NEW type, NEW action, Applicable(type, action) # {}
    PROVE  \E k \in 1 .. 9 : /\ FirstRule(type, action) = Rules[k]
                             /\ Applies(Rules[k], type, action)
<1> DEFINE S == Applicable(type, action)
<1>1. S \in SUBSET (1 .. 9)
  BY DEF Applicable, Rules
<1>2. \E k \in S : \A j \in S : k <= j
  BY <1>1, FirstRowExists
<1>3. PICK k \in S : FirstRule(type, action) = Rules[k]
  BY <1>2 DEF FirstRule
<1> QED
  BY <1>1, <1>3 DEF Applicable

\* Every row decides something, and only the high-CPU row decides AUTO.
LEMMA RuleDecisions ==
    \A k \in 1 .. 9 :
        /\ Rules[k].decision \in Decisions
        /\ Rules[k].decision = "AUTO" =>
              Rules[k].type = "high_cpu" /\ Rules[k].action = "scale_deployment"
BY DEF Rules, Rule, Decisions

\* What Evaluate returns is about the plan it was asked about.
LEMMA EvaluateKeepsPlan ==
    ASSUME NEW type, NEW plan
    PROVE  /\ Evaluate(type, plan).plan = plan
           /\ Evaluate(type, plan) = Decision(Evaluate(type, plan).decision, plan)
           /\ Evaluate(type, plan).decision \in Decisions
<1>1. CASE Applicable(type, plan.action) = {}
  BY <1>1 DEF Evaluate, Decision, Decisions
<1>2. CASE Applicable(type, plan.action) # {}
  <2>1. FirstRule(type, plan.action).decision \in Decisions
    BY <1>2, FirstRuleApplies, RuleDecisions
  <2>2. ApplyGuardrails(FirstRule(type, plan.action), plan) \in Decisions
    BY <2>1 DEF ApplyGuardrails, Decisions
  <2> QED
    BY <1>2, <2>2 DEF Evaluate, Decision
<1> QED
  BY <1>1, <1>2

\* A decision that allows an action comes from an applicable rule that no
\* guardrail has overruled.
LEMMA EvaluateAllows ==
    ASSUME NEW type, NEW plan, Evaluate(type, plan).decision # "NO_ACTION"
    PROVE  /\ ~TargetRefused(plan)
           /\ \E k \in 1 .. 9 : /\ Applies(Rules[k], type, plan.action)
                                /\ Evaluate(type, plan).decision = Rules[k].decision
                                /\ ~ScaleRefused(Rules[k], plan)
<1>1. Applicable(type, plan.action) # {}
  BY DEF Evaluate, Decision
<1>2. PICK k \in 1 .. 9 : /\ FirstRule(type, plan.action) = Rules[k]
                          /\ Applies(Rules[k], type, plan.action)
  BY <1>1, FirstRuleApplies
<1>3. Evaluate(type, plan).decision = ApplyGuardrails(Rules[k], plan)
  BY <1>1, <1>2 DEF Evaluate, Decision
<1> QED
  BY <1>2, <1>3 DEF ApplyGuardrails

\* The only plans an incident's decision lets run without a human.
LEMMA EvaluateAuto ==
    ASSUME NEW type, NEW plan, Evaluate(type, plan).decision = "AUTO"
    PROVE  /\ type = "high_cpu"
           /\ plan.action = "scale_deployment"
           /\ ~TargetRefused(plan)
           /\ ~(plan.delta > MaxAutoscaleDelta)
           /\ ~(plan.desired > MaxAutoscaleReplicas)
<1>1. PICK k \in 1 .. 9 : /\ Applies(Rules[k], type, plan.action)
                          /\ Evaluate(type, plan).decision = Rules[k].decision
                          /\ ~ScaleRefused(Rules[k], plan)
  BY EvaluateAllows
<1>2. Rules[k].type = "high_cpu" /\ Rules[k].action = "scale_deployment"
  BY <1>1, RuleDecisions
<1>3. type = "high_cpu" /\ plan.action = "scale_deployment"
  BY <1>1, <1>2 DEF Applies
<1> QED
  BY <1>1, <1>3, EvaluateAllows DEF ScaleRefused
=============================================================================
