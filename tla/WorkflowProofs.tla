--------------------------- MODULE WorkflowProofs ---------------------------
(***************************************************************************)
(* The safety of the incident workflow for every number of threads,        *)
(* incidents, deployments and requests, every allow-list and limit, and    *)
(* whatever the model advises; and what it leaves in an incident's record: *)
(* nobody abandons a record, and requests that keep off each other's       *)
(* incident keep the guarantees of a single one.                           *)
(***************************************************************************)
EXTENDS WorkflowSafety, PolicyEngineProofs

-----------------------------------------------------------------------------
(* Types of the values the actions compute.                                *)

\* The empty plan and the empty decision are of their types.
LEMMA EmptyTypes == NoPlan \in Plans /\ NoPolicy \in Policies
BY DEF NoPlan, NoPolicy, Plans, Policies, Decisions, ActionNames, Names

\* The decision on a plan is a decision about a plan.
LEMMA EvaluateType ==
    ASSUME NEW type, NEW plan \in Plans
    PROVE  Evaluate(type, plan) \in Policies
<1>1. /\ Evaluate(type, plan) = Decision(Evaluate(type, plan).decision, plan)
      /\ Evaluate(type, plan).decision \in Decisions
  BY EvaluateKeepsPlan
<1> QED
  BY <1>1 DEF Decision, Policies

\* The planner's default is one of the known actions.
LEMMA DefaultActionType ==
    ASSUME NEW type \in IncidentTypes
    PROVE  DefaultAction(type) \in ActionNames
BY DEF DefaultAction, IncidentTypes, ActionNames, ActionToolNames

\* A planned action is a plan.
LEMMA BuildPlanType ==
    ASSUME NEW i \in Incidents, NEW action \in ActionNames, NEW current \in Nat
    PROVE  BuildPlan(i, action, current) \in Plans
<1>1. Subject[i].resource \in Names /\ Subject[i].namespace \in Names /\ Absent \in Names
  BY DEF Names
<1> QED
  BY <1>1 DEF BuildPlan, Plans

\* The planner reads a replica count, whatever answers it.
LEMMA CurrentReplicasType ==
    ASSUME replicas \in [Deployments -> Nat], NEW i \in Incidents
    PROVE  CurrentReplicas(i) \subseteq Nat
BY DEF CurrentReplicas

-----------------------------------------------------------------------------
(* Type correctness.                                                       *)

\* The values the actions write are of the types they are written to.
LEMMA StatusLiterals ==
    /\ "ABSENT" \in IncidentStatuses /\ "DETECTED" \in IncidentStatuses
    /\ "INVESTIGATING" \in IncidentStatuses /\ "AWAITING_APPROVAL" \in IncidentStatuses
    /\ "APPROVED" \in IncidentStatuses /\ "REJECTED" \in IncidentStatuses
    /\ "EXECUTING" \in IncidentStatuses /\ "REMEDIATED" \in IncidentStatuses
    /\ "VERIFICATION_FAILED" \in IncidentStatuses /\ "FAILED" \in IncidentStatuses
    /\ "NO_ACTION" \in IncidentStatuses
BY DEF IncidentStatuses

\* The outcomes, decisions and verdicts the actions write are of their types.
LEMMA OutcomeLiterals ==
    /\ "NOT_REQUIRED" \in ApprovalStatuses /\ "PENDING" \in ApprovalStatuses
    /\ "APPROVED" \in ApprovalStatuses /\ "REJECTED" \in ApprovalStatuses
    /\ "PENDING" \in ExecutionStatuses /\ "EXECUTING" \in ExecutionStatuses
    /\ "SUCCESS" \in ExecutionStatuses /\ "FAILED" \in ExecutionStatuses
    /\ "NONE" \in Verdict /\ "PASSED" \in Verdict /\ "FAILED" \in Verdict
    /\ "PENDING" \in VerificationStatuses /\ "PASSED" \in VerificationStatuses
    /\ "FAILED" \in VerificationStatuses
BY DEF ApprovalStatuses, ExecutionStatuses, Verdict, VerificationStatuses

\* Where a busy thread may be.
Busy == ProgramCounters \ {"idle"}

\* The program counters of a busy thread.
LEMMA CounterLiterals ==
    /\ "classify" \in Busy /\ "investigate" \in Busy /\ "diagnose" \in Busy
    /\ "plan" \in Busy /\ "policy" \in Busy /\ "dispatch" \in Busy
    /\ "pending" \in Busy /\ "decide" \in Busy /\ "execute" \in Busy
    /\ "select" \in Busy /\ "tool" \in Busy /\ "audit" \in Busy
    /\ "check" \in Busy /\ "verify" \in Busy
BY DEF Busy, ProgramCounters

\* The kinds of request the actions accept are of their type.
LEMMA KindLiterals ==
    /\ "none" \in RequestKinds /\ "create" \in RequestKinds /\ "rerun" \in RequestKinds
    /\ "approve" \in RequestKinds /\ "reject" \in RequestKinds
BY DEF RequestKinds

-----------------------------------------------------------------------------
(* Type correctness.                                                       *)

\* The initial records are of their types.
LEMMA InitialRecordTypes == NotCreated \in IncidentRecords /\ Idle \in ThreadRecords
<1>1. "idle" \in ProgramCounters
  BY DEF ProgramCounters
<1>2. NotCreated \in IncidentRecords
  BY EmptyTypes, StatusLiterals, OutcomeLiterals DEF NotCreated, IncidentRecords
<1>3. Idle \in ThreadRecords
  BY <1>1, EmptyTypes, KindLiterals, OutcomeLiterals DEF Idle, ThreadRecords
<1> QED
  BY <1>2, <1>3

\* The initial state is type correct.
LEMMA InitType == Init => TypeOK
<1> SUFFICES ASSUME Init PROVE TypeOK
  OBVIOUS
<1>1. incident \in [Incidents -> IncidentRecords]
  BY InitialRecordTypes DEF Init
<1>2. ThreadsOK
  BY InitialRecordTypes DEF Init, Idle, ThreadsOK, At
<1>3. replicas \in [Deployments -> Nat]
  BY WorkflowAssumption DEF Init
<1>4. /\ requests \in Nat /\ granted \subseteq Grants /\ grants \in [Incidents -> Nat]
      /\ performed \subseteq Effects /\ effects \in [Incidents -> Seq(ActionToolNames)]
  BY DEF Init
<1> QED
  BY <1>1, <1>2, <1>3, <1>4 DEF TypeOK

\* A busy thread works on an incident.
LEMMA BusyThread ==
    ASSUME ThreadsOK, NEW t \in Threads, NEW pc \in Busy, At(t, pc)
    PROVE  thread[t] \in ThreadRecords /\ thread[t].incident \in Incidents
BY DEF ThreadsOK, ThreadRecords, At, Busy

\* Moving a busy thread on, and returning it, keep the threads well typed.
LEMMA GotoType ==
    ASSUME ThreadsOK, NEW t \in Threads, NEW from \in Busy, At(t, from),
           NEW to \in Busy, Goto(t, to)
    PROVE  ThreadsOK'
<1>1. thread' \in [Threads -> ThreadRecords]
  BY DEF ThreadsOK, ThreadRecords, Goto, Busy
<1>2. \A u \in Threads : (thread[u].incident = None)' <=> At(u, "idle")'
  BY DEF ThreadsOK, ThreadRecords, Goto, Busy, At
<1> QED
  BY <1>1, <1>2 DEF ThreadsOK

\* A thread that has answered its request is idle and well typed.
LEMMA ReturnType ==
    ASSUME ThreadsOK, NEW t \in Threads, Return(t)
    PROVE  ThreadsOK'
BY InitialRecordTypes DEF ThreadsOK, Return, Idle, At

\* A thread that has accepted a request is busy and well typed.
LEMMA AcceptType ==
    ASSUME ThreadsOK, NEW t \in Threads, NEW kind \in RequestKinds, NEW i \in Incidents,
           NEW pc \in Busy, Accept(t, kind, i, pc)
    PROVE  ThreadsOK'
<1> DEFINE r == [Idle EXCEPT !.pc = pc, !.kind = kind, !.incident = i]
<1>1. r \in ThreadRecords
  BY InitialRecordTypes DEF ThreadRecords, Busy
<1>2. r.incident # None /\ r.pc # "idle"
  BY WorkflowAssumption DEF Idle, Busy
<1>3. thread' = [thread EXCEPT ![t] = r]
  BY DEF Accept
<1> HIDE DEF r
<1> QED
  BY <1>1, <1>2, <1>3 DEF ThreadsOK, At

\* An incident record that is replaced by another one.
LEMMA ReplacedType ==
    ASSUME TypeOK, NEW i \in Incidents, NEW r \in IncidentRecords,
           incident' = [incident EXCEPT ![i] = r]
    PROVE  incident' \in [Incidents -> IncidentRecords]
BY DEF TypeOK

\* What a step that writes an incident record and its thread leaves typed.
LEMMA RecordStepType ==
    ASSUME TypeOK, incident' \in [Incidents -> IncidentRecords], ThreadsOK',
           UNCHANGED <<replicas, requests, history>>
    PROVE  TypeOK'
BY DEF TypeOK, history

\* Accepting a request keeps the state type correct.
LEMMA RequestType ==
    ASSUME TypeOK, NEW t \in Threads, Request(t)
    PROVE  TypeOK'
<1>1. PICK i \in Incidents : \/ CreateIncident(t, i) \/ RerunIncident(t, i)
                             \/ \E kind \in {"approve", "reject"} : RequestDecision(t, i, kind)
  BY DEF Request
<1>2. /\ incident' \in [Incidents -> IncidentRecords]
      /\ \E kind \in RequestKinds, pc \in Busy : Accept(t, kind, i, pc)
  <2>1. CASE CreateIncident(t, i)
    BY <2>1, StatusLiterals, KindLiterals, CounterLiterals, ZenonT(60)
       DEF CreateIncident, TypeOK, IncidentRecords
  <2>2. CASE RerunIncident(t, i)
    BY <2>2, KindLiterals, CounterLiterals DEF RerunIncident, TypeOK
  <2>3. ASSUME NEW kind \in {"approve", "reject"}, RequestDecision(t, i, kind)
        PROVE  /\ incident' \in [Incidents -> IncidentRecords]
               /\ kind \in RequestKinds /\ Accept(t, kind, i, "pending")
    BY <2>3, KindLiterals DEF RequestDecision, TypeOK
  <2> QED
    BY <1>1, <2>1, <2>2, <2>3, CounterLiterals
<1>3. PICK kind \in RequestKinds, pc \in Busy : Accept(t, kind, i, pc)
  BY <1>2
<1>4. ThreadsOK'
  BY <1>3, AcceptType DEF TypeOK
<1>5. requests' \in Nat /\ UNCHANGED <<replicas, history>>
  BY <1>3 DEF Accept, TypeOK
<1> QED
  BY <1>2, <1>4, <1>5 DEF TypeOK, history
\* Classification.
LEMMA ClassifyType ==
    ASSUME TypeOK, NEW t \in Threads, Classify(t)
    PROVE  TypeOK'
<1>1. thread[t] \in ThreadRecords /\ thread[t].incident \in Incidents
  BY BusyThread, CounterLiterals DEF Classify, TypeOK
<1>2. incident' \in [Incidents -> IncidentRecords]
  <2>1. PICK r : r = [incident[thread[t].incident] EXCEPT !.status = "INVESTIGATING"]
    OBVIOUS
  <2>2. incident[thread[t].incident] \in IncidentRecords
    BY <1>1 DEF TypeOK
  <2>3. r \in IncidentRecords
    BY <2>1, <2>2, StatusLiterals DEF IncidentRecords
  <2>4. incident' = [incident EXCEPT ![thread[t].incident] = r]
    BY <1>1, <2>1 DEF Classify, TypeOK
  <2> QED
    BY <1>1, <2>3, <2>4, ReplacedType
<1>3. ThreadsOK'
  BY GotoType, CounterLiterals DEF Classify, TypeOK
<1> QED
  BY <1>2, <1>3, RecordStepType DEF Classify

\* The investigation.
LEMMA InvestigateType ==
    ASSUME TypeOK, NEW t \in Threads, Investigate(t)
    PROVE  TypeOK'
<1>1. thread[t] \in ThreadRecords /\ thread[t].incident \in Incidents
  BY BusyThread, CounterLiterals DEF Investigate, TypeOK
<1>2. incident' \in [Incidents -> IncidentRecords]
  BY DEF Investigate, TypeOK
<1>3. ThreadsOK'
  BY GotoType, CounterLiterals DEF Investigate, TypeOK
<1> QED
  BY <1>2, <1>3, RecordStepType DEF Investigate

\* An investigation that raises.
LEMMA InvestigationRaisesType ==
    ASSUME TypeOK, NEW t \in Threads, InvestigationRaises(t)
    PROVE  TypeOK'
<1>1. thread[t] \in ThreadRecords /\ thread[t].incident \in Incidents
  BY BusyThread, CounterLiterals DEF InvestigationRaises, TypeOK
<1>2. incident' \in [Incidents -> IncidentRecords]
  <2>1. CASE UNCHANGED incident
    BY <2>1 DEF TypeOK
  <2>2. CASE incident' = [incident EXCEPT ![thread[t].incident].status = "FAILED"]
    <3>1. PICK r : r = [incident[thread[t].incident] EXCEPT !.status = "FAILED"]
      OBVIOUS
    <3>2. incident[thread[t].incident] \in IncidentRecords
      BY <1>1 DEF TypeOK
    <3>3. r \in IncidentRecords
      BY <3>1, <3>2, StatusLiterals DEF IncidentRecords
    <3>4. incident' = [incident EXCEPT ![thread[t].incident] = r]
      BY <1>1, <3>1, <2>2 DEF TypeOK
    <3> QED
      BY <1>1, <3>3, <3>4, ReplacedType
  <2> QED
    BY <2>1, <2>2 DEF InvestigationRaises
<1>3. ThreadsOK'
  BY ReturnType DEF InvestigationRaises, TypeOK
<1> QED
  BY <1>2, <1>3, RecordStepType DEF InvestigationRaises

\* Whatever the model advises is an action name.
LEMMA DiagnoseType ==
    ASSUME TypeOK, NEW t \in Threads, Diagnose(t)
    PROVE  TypeOK'
<1>1. thread[t] \in ThreadRecords /\ thread[t].incident \in Incidents
  BY BusyThread, CounterLiterals DEF Diagnose, TypeOK
<1>2. incident' \in [Incidents -> IncidentRecords]
  <2>1. PICK advice \in Advice[Subject[thread[t].incident].type] :
            incident' = [incident EXCEPT ![thread[t].incident].advice = advice]
    BY DEF Diagnose
  <2>2. advice \in ActionNames
    BY <1>1, <2>1, WorkflowAssumption DEF ActionNames
  <2>3. PICK r : r = [incident[thread[t].incident] EXCEPT !.advice = advice]
    OBVIOUS
  <2>4. incident[thread[t].incident] \in IncidentRecords
    BY <1>1 DEF TypeOK
  <2>5. r \in IncidentRecords
    BY <2>3, <2>4, <2>2 DEF IncidentRecords
  <2>6. incident' = [incident EXCEPT ![thread[t].incident] = r]
    BY <1>1, <2>3, <2>1 DEF TypeOK
  <2> QED
    BY <1>1, <2>5, <2>6, ReplacedType
<1>3. ThreadsOK'
  BY GotoType, CounterLiterals DEF Diagnose, TypeOK
<1> QED
  BY <1>2, <1>3, RecordStepType DEF Diagnose

\* The planner builds a plan.
LEMMA PlanRemediationType ==
    ASSUME TypeOK, NEW t \in Threads, PlanRemediation(t)
    PROVE  TypeOK'
<1>1. thread[t] \in ThreadRecords /\ thread[t].incident \in Incidents
  BY BusyThread, CounterLiterals DEF PlanRemediation, TypeOK
<1>2. incident' \in [Incidents -> IncidentRecords]
  <2> DEFINE i == thread[t].incident
             action == IF incident[i].advice = NoAdvice THEN DefaultAction(Subject[i].type)
                       ELSE incident[i].advice
  <2>1. PICK current \in CurrentReplicas(i) :
            incident' = [incident EXCEPT ![i].recommended = BuildPlan(i, action, current)]
    BY DEF PlanRemediation
  <2>2. action \in ActionNames
    <3>1. incident[i].advice \in ActionNames \union {NoAdvice}
      BY <1>1 DEF TypeOK, IncidentRecords
    <3>2. DefaultAction(Subject[i].type) \in ActionNames
      BY <1>1, WorkflowAssumption, DefaultActionType
    <3> QED
      BY <3>1, <3>2
  <2>3. BuildPlan(i, action, current) \in Plans
    <3>1. current \in Nat
      BY <1>1, <2>1, CurrentReplicasType DEF TypeOK
    <3> HIDE DEF action
    <3> QED
      BY <1>1, <2>2, <3>1, BuildPlanType
  <2> HIDE DEF action
  <2>4. PICK r : r = [incident[i] EXCEPT !.recommended = BuildPlan(i, action, current)]
    OBVIOUS
  <2>5. incident[i] \in IncidentRecords
    BY <1>1 DEF TypeOK
  <2>6. r \in IncidentRecords
    BY <2>3, <2>4, <2>5 DEF IncidentRecords
  <2>7. incident' = [incident EXCEPT ![i] = r]
    BY <1>1, <2>1, <2>4 DEF TypeOK
  <2> QED
    BY <1>1, <2>6, <2>7, ReplacedType
<1>3. ThreadsOK'
  BY GotoType, CounterLiterals DEF PlanRemediation, TypeOK
<1> QED
  BY <1>2, <1>3, RecordStepType DEF PlanRemediation

\* The policy check of thread t records this decision on incident i.
RecordsDecision(t, i, policy) ==
    /\ At(t, "policy") /\ Goto(t, "dispatch")
    /\ UNCHANGED <<replicas, requests, performed, effects>>
    /\ IF policy.decision = "NO_ACTION" THEN UNCHANGED <<granted, grants>>
       ELSE /\ granted' = granted \union {[incident |-> i, policy |-> policy]}
            /\ grants' = [grants EXCEPT ![i] = @ + 1]
    /\ \E a \in {"NOT_REQUIRED", "PENDING", incident[i].approval},
          s \in {"AWAITING_APPROVAL", "NO_ACTION", incident[i].status} :
          /\ incident' = [incident EXCEPT
                ![i].policy = policy, ![i].approval = a, ![i].status = s]
          /\ policy.decision = "AUTO" => a = "NOT_REQUIRED"
          /\ policy.decision = "APPROVAL_REQUIRED" => a = "PENDING"
          /\ policy.decision = "NO_ACTION" => a = incident[i].approval

\* What the policy check writes: the engine's decision on the plan.
LEMMA PolicyCheckWrites ==
    ASSUME NEW t \in Threads, PolicyCheck(t), NEW i, i = thread[t].incident,
           NEW policy, policy = Evaluate(Subject[i].type, incident[i].recommended)
    PROVE  RecordsDecision(t, i, policy)
<1> DEFINE d == policy.decision
           a == CASE d = "AUTO" -> "NOT_REQUIRED"
                  [] d = "APPROVAL_REQUIRED" -> "PENDING"
                  [] OTHER -> incident[i].approval
           s == CASE d = "APPROVAL_REQUIRED" -> "AWAITING_APPROVAL"
                  [] d = "NO_ACTION" -> "NO_ACTION"
                  [] OTHER -> incident[i].status
<1>1. /\ At(t, "policy") /\ Goto(t, "dispatch")
      /\ UNCHANGED <<replicas, requests, performed, effects>>
      /\ IF d = "NO_ACTION" THEN UNCHANGED <<granted, grants>>
         ELSE /\ granted' = granted \union {[incident |-> i, policy |-> policy]}
              /\ grants' = [grants EXCEPT ![i] = @ + 1]
  BY SMTT(60) DEF PolicyCheck
<1>2. incident' = [incident EXCEPT ![i].policy = policy, ![i].approval = a, ![i].status = s]
  BY SMTT(60) DEF PolicyCheck
<1>3. /\ a \in {"NOT_REQUIRED", "PENDING", incident[i].approval}
      /\ s \in {"AWAITING_APPROVAL", "NO_ACTION", incident[i].status}
      /\ d = "AUTO" => a = "NOT_REQUIRED"
      /\ d = "APPROVAL_REQUIRED" => a = "PENDING"
      /\ d = "NO_ACTION" => a = incident[i].approval
  BY SMTT(60)
<1> HIDE DEF a, s, d
<1>4. \E approval \in {"NOT_REQUIRED", "PENDING", incident[i].approval},
         status \in {"AWAITING_APPROVAL", "NO_ACTION", incident[i].status} :
         /\ incident' = [incident EXCEPT
               ![i].policy = policy, ![i].approval = approval, ![i].status = status]
         /\ d = "AUTO" => approval = "NOT_REQUIRED"
         /\ d = "APPROVAL_REQUIRED" => approval = "PENDING"
         /\ d = "NO_ACTION" => approval = incident[i].approval
  <2> USE <1>3
  <2> WITNESS a \in {"NOT_REQUIRED", "PENDING", incident[i].approval},
              s \in {"AWAITING_APPROVAL", "NO_ACTION", incident[i].status}
  <2> QED
    BY <1>2, <1>3, SMTT(60)
<1> QED
  BY <1>1, <1>4, ZenonT(30) DEF RecordsDecision, d

\* The policy check records a decision about the recommended plan.
LEMMA PolicyCheckType ==
    ASSUME TypeOK, NEW t \in Threads, PolicyCheck(t)
    PROVE  TypeOK'
<1>1. PICK i : i = thread[t].incident
  OBVIOUS
<1>2. PICK policy : policy = Evaluate(Subject[i].type, incident[i].recommended)
  OBVIOUS
<1>0. RecordsDecision(t, i, policy)
  BY <1>1, <1>2, PolicyCheckWrites
<1>3. /\ At(t, "policy") /\ Goto(t, "dispatch")
      /\ UNCHANGED <<replicas, requests, performed, effects>>
      /\ \/ UNCHANGED <<granted, grants>>
         \/ /\ granted' = granted \union {[incident |-> i, policy |-> policy]}
            /\ grants' = [grants EXCEPT ![i] = @ + 1]
  BY <1>0 DEF RecordsDecision
<1>4. PICK a \in {"NOT_REQUIRED", "PENDING", incident[i].approval},
           s \in {"AWAITING_APPROVAL", "NO_ACTION", incident[i].status} :
          incident' = [incident EXCEPT ![i].policy = policy, ![i].approval = a, ![i].status = s]
  BY <1>0 DEF RecordsDecision
<1>5. thread[t] \in ThreadRecords /\ i \in Incidents
  BY <1>1, <1>3, BusyThread, CounterLiterals DEF TypeOK
<1>6. incident[i] \in IncidentRecords /\ policy \in Policies
  <2>1. incident[i] \in IncidentRecords
    BY <1>5 DEF TypeOK
  <2>2. incident[i].recommended \in Plans
    BY <2>1 DEF IncidentRecords
  <2> QED
    BY <1>2, <2>1, <2>2, EvaluateType
<1>7. incident' \in [Incidents -> IncidentRecords]
  <2>1. PICK r : r = [incident[i] EXCEPT !.policy = policy, !.approval = a, !.status = s]
    OBVIOUS
  <2>2. a \in ApprovalStatuses /\ s \in IncidentStatuses
    BY <1>6, StatusLiterals, OutcomeLiterals DEF IncidentRecords
  <2>3. r \in IncidentRecords
    BY <1>6, <2>1, <2>2 DEF IncidentRecords
  <2>4. incident' = [incident EXCEPT ![i] = r]
    BY <1>4, <1>5, <2>1 DEF TypeOK
  <2> QED
    BY <1>5, <2>3, <2>4, ReplacedType
<1>8. ThreadsOK'
  BY <1>3, GotoType, CounterLiterals DEF TypeOK
<1>9. granted' \subseteq Grants /\ grants' \in [Incidents -> Nat]
  <2>1. [incident |-> i, policy |-> policy] \in Grants
    BY <1>5, <1>6 DEF Grants
  <2>2. granted' \subseteq Grants
    BY <1>3, <2>1, Zenon DEF TypeOK
  <2>3. grants' \in [Incidents -> Nat]
    <3>1. PICK n : n = grants[i] + 1
      OBVIOUS
    <3>2. n \in Nat
      BY <1>5, <3>1 DEF TypeOK
    <3>3. grants' = grants \/ grants' = [grants EXCEPT ![i] = n]
      BY <1>3, <3>1
    <3> QED
      BY <3>2, <3>3 DEF TypeOK
  <2> QED
    BY <2>2, <2>3
<1> QED
  BY <1>3, <1>7, <1>8, <1>9 DEF TypeOK

\* run_workflow after the investigation.
LEMMA DispatchType ==
    ASSUME TypeOK, NEW t \in Threads, Dispatch(t)
    PROVE  TypeOK'
<1>1. thread[t] \in ThreadRecords /\ thread[t].incident \in Incidents
  BY BusyThread, CounterLiterals DEF Dispatch, TypeOK
<1>2. incident' \in [Incidents -> IncidentRecords]
  <2>1. CASE UNCHANGED incident
    BY <2>1 DEF TypeOK
  <2>2. CASE \E s \in IncidentStatuses :
               incident' = [incident EXCEPT ![thread[t].incident].approval = "PENDING",
                                            ![thread[t].incident].status = s]
    <3>1. PICK s \in IncidentStatuses, a \in ApprovalStatuses :
              incident' = [incident EXCEPT ![thread[t].incident].approval = a,
                                           ![thread[t].incident].status = s]
      BY <2>2, OutcomeLiterals
    <3>2. PICK r : r = [incident[thread[t].incident] EXCEPT !.approval = a, !.status = s]
      OBVIOUS
    <3>3. incident[thread[t].incident] \in IncidentRecords
      BY <1>1 DEF TypeOK
    <3>4. r \in IncidentRecords
      BY <3>2, <3>3 DEF IncidentRecords
    <3>5. incident' = [incident EXCEPT ![thread[t].incident] = r]
      BY <1>1, <3>2, <3>1 DEF TypeOK
    <3> QED
      BY <1>1, <3>4, <3>5, ReplacedType
  <2>3. CASE \E s \in IncidentStatuses :
               incident' = [incident EXCEPT ![thread[t].incident].status = s]
    <3>1. PICK s \in IncidentStatuses : incident' = [incident EXCEPT ![thread[t].incident].status = s]
      BY <2>3
    <3>2. PICK r : r = [incident[thread[t].incident] EXCEPT !.status = s]
      OBVIOUS
    <3>3. incident[thread[t].incident] \in IncidentRecords
      BY <1>1 DEF TypeOK
    <3>4. r \in IncidentRecords
      BY <3>2, <3>3 DEF IncidentRecords
    <3>5. incident' = [incident EXCEPT ![thread[t].incident] = r]
      BY <1>1, <3>2, <3>1 DEF TypeOK
    <3> QED
      BY <1>1, <3>4, <3>5, ReplacedType
  <2> QED
    <3> DEFINE d == incident[thread[t].incident].policy.decision
    <3>1. CASE d = "AUTO"
      BY <2>1, <3>1 DEF Dispatch
    <3>2. CASE d = "APPROVAL_REQUIRED"
      BY <2>2, <3>2, StatusLiterals DEF Dispatch
    <3>3. CASE d # "AUTO" /\ d # "APPROVAL_REQUIRED"
      BY <2>3, <3>3, StatusLiterals DEF Dispatch
    <3> QED
      BY <3>1, <3>2, <3>3
<1>3. ThreadsOK'
  BY GotoType, ReturnType, CounterLiterals DEF Dispatch, TypeOK
<1> QED
  BY <1>2, <1>3, RecordStepType DEF Dispatch

\* The check of the approval status.
LEMMA CheckPendingType ==
    ASSUME TypeOK, NEW t \in Threads, CheckPending(t)
    PROVE  TypeOK'
<1>1. thread[t] \in ThreadRecords /\ thread[t].incident \in Incidents
  BY BusyThread, CounterLiterals DEF CheckPending, TypeOK
<1>2. incident' \in [Incidents -> IncidentRecords]
  BY DEF CheckPending, TypeOK
<1>3. ThreadsOK'
  BY GotoType, ReturnType, CounterLiterals DEF CheckPending, TypeOK
<1> QED
  BY <1>2, <1>3, RecordStepType DEF CheckPending

\* An approval.
LEMMA ApproveType ==
    ASSUME TypeOK, NEW t \in Threads, Approve(t)
    PROVE  TypeOK'
<1>1. thread[t] \in ThreadRecords /\ thread[t].incident \in Incidents
  BY BusyThread, CounterLiterals DEF Approve, TypeOK
<1>2. incident' \in [Incidents -> IncidentRecords]
  <2>1. PICK r : r = [incident[thread[t].incident] EXCEPT !.approval = "APPROVED", !.status = "APPROVED"]
    OBVIOUS
  <2>2. incident[thread[t].incident] \in IncidentRecords
    BY <1>1 DEF TypeOK
  <2>3. r \in IncidentRecords
    BY <2>1, <2>2, StatusLiterals, OutcomeLiterals DEF IncidentRecords
  <2>4. incident' = [incident EXCEPT ![thread[t].incident] = r]
    BY <1>1, <2>1 DEF Approve, TypeOK
  <2> QED
    BY <1>1, <2>3, <2>4, ReplacedType
<1>3. ThreadsOK'
  BY GotoType, CounterLiterals DEF Approve, TypeOK
<1> QED
  BY <1>2, <1>3, RecordStepType DEF Approve

\* A rejection.
LEMMA RejectType ==
    ASSUME TypeOK, NEW t \in Threads, Reject(t)
    PROVE  TypeOK'
<1>1. thread[t] \in ThreadRecords /\ thread[t].incident \in Incidents
  BY BusyThread, CounterLiterals DEF Reject, TypeOK
<1>2. incident' \in [Incidents -> IncidentRecords]
  <2>1. PICK r : r = [incident[thread[t].incident] EXCEPT !.approval = "REJECTED", !.status = "REJECTED"]
    OBVIOUS
  <2>2. incident[thread[t].incident] \in IncidentRecords
    BY <1>1 DEF TypeOK
  <2>3. r \in IncidentRecords
    BY <2>1, <2>2, StatusLiterals, OutcomeLiterals DEF IncidentRecords
  <2>4. incident' = [incident EXCEPT ![thread[t].incident] = r]
    BY <1>1, <2>1 DEF Reject, TypeOK
  <2> QED
    BY <1>1, <2>3, <2>4, ReplacedType
<1>3. ThreadsOK'
  BY ReturnType DEF Reject, TypeOK
<1> QED
  BY <1>2, <1>3, RecordStepType DEF Reject

\* The start of the execution.
LEMMA BeginExecutionType ==
    ASSUME TypeOK, NEW t \in Threads, BeginExecution(t)
    PROVE  TypeOK'
<1>1. thread[t] \in ThreadRecords /\ thread[t].incident \in Incidents
  BY BusyThread, CounterLiterals DEF BeginExecution, TypeOK
<1>2. incident' \in [Incidents -> IncidentRecords]
  <2>1. PICK r : r = [incident[thread[t].incident] EXCEPT !.status = "EXECUTING", !.execution = "EXECUTING"]
    OBVIOUS
  <2>2. incident[thread[t].incident] \in IncidentRecords
    BY <1>1 DEF TypeOK
  <2>3. r \in IncidentRecords
    BY <2>1, <2>2, StatusLiterals, OutcomeLiterals DEF IncidentRecords
  <2>4. incident' = [incident EXCEPT ![thread[t].incident] = r]
    BY <1>1, <2>1 DEF BeginExecution, TypeOK
  <2> QED
    BY <1>1, <2>3, <2>4, ReplacedType
<1>3. ThreadsOK'
  BY GotoType, CounterLiterals DEF BeginExecution, TypeOK
<1> QED
  BY <1>2, <1>3, RecordStepType DEF BeginExecution

\* A plan and a decision that differ.
LEMMA RefuseMismatchType ==
    ASSUME TypeOK, NEW t \in Threads, RefuseMismatch(t)
    PROVE  TypeOK'
<1>1. thread[t] \in ThreadRecords /\ thread[t].incident \in Incidents
  BY BusyThread, CounterLiterals DEF RefuseMismatch, TypeOK
<1>2. incident' \in [Incidents -> IncidentRecords]
  <2>1. PICK r : r = [incident[thread[t].incident] EXCEPT !.execution = "FAILED"]
    OBVIOUS
  <2>2. incident[thread[t].incident] \in IncidentRecords
    BY <1>1 DEF TypeOK
  <2>3. r \in IncidentRecords
    BY <2>1, <2>2, OutcomeLiterals DEF IncidentRecords
  <2>4. incident' = [incident EXCEPT ![thread[t].incident] = r]
    BY <1>1, <2>1 DEF RefuseMismatch, TypeOK
  <2> QED
    BY <1>1, <2>3, <2>4, ReplacedType
<1>3. ThreadsOK'
  BY ReturnType DEF RefuseMismatch, TypeOK
<1> QED
  BY <1>2, <1>3, RecordStepType DEF RefuseMismatch

\* No tool for the action.
LEMMA RecordNoopType ==
    ASSUME TypeOK, NEW t \in Threads, RecordNoop(t)
    PROVE  TypeOK'
<1>1. thread[t] \in ThreadRecords /\ thread[t].incident \in Incidents
  BY BusyThread, CounterLiterals DEF RecordNoop, TypeOK
<1>2. incident' \in [Incidents -> IncidentRecords]
  <2> DEFINE r == incident[thread[t].incident]
             new == [r EXCEPT !.execution = "SUCCESS", !.verdict = "PASSED",
                              !.verification = "PASSED", !.status = "REMEDIATED"]
  <2>1. r \in IncidentRecords
    BY <1>1 DEF TypeOK
  <2>2. new \in IncidentRecords
    <3> HIDE DEF r
    <3> QED
      BY <2>1, StatusLiterals, OutcomeLiterals DEF IncidentRecords
  <2>3. incident' = [incident EXCEPT ![thread[t].incident] = new]
    BY <1>1 DEF RecordNoop, TypeOK
  <2> HIDE DEF new
  <2> QED
    BY <2>2, <2>3 DEF TypeOK
<1>3. ThreadsOK'
  BY GotoType, CounterLiterals DEF RecordNoop, TypeOK
<1> QED
  BY <1>2, <1>3, RecordStepType DEF RecordNoop

\* A refused tool call.
LEMMA RefuseToolType ==
    ASSUME TypeOK, NEW t \in Threads, RefuseTool(t)
    PROVE  TypeOK'
<1>1. thread[t] \in ThreadRecords /\ thread[t].incident \in Incidents
  BY BusyThread, CounterLiterals DEF RefuseTool, TypeOK
<1>2. incident' \in [Incidents -> IncidentRecords]
  <2>1. PICK r : r = [incident[thread[t].incident] EXCEPT !.execution = "FAILED", !.verdict = "NONE"]
    OBVIOUS
  <2>2. incident[thread[t].incident] \in IncidentRecords
    BY <1>1 DEF TypeOK
  <2>3. r \in IncidentRecords
    BY <2>1, <2>2, OutcomeLiterals DEF IncidentRecords
  <2>4. incident' = [incident EXCEPT ![thread[t].incident] = r]
    BY <1>1, <2>1 DEF RefuseTool, TypeOK
  <2> QED
    BY <1>1, <2>3, <2>4, ReplacedType
<1>3. ThreadsOK'
  BY ReturnType DEF RefuseTool, TypeOK
<1> QED
  BY <1>2, <1>3, RecordStepType DEF RefuseTool

\* The audit entry.
LEMMA AuditType ==
    ASSUME TypeOK, NEW t \in Threads, Audit(t)
    PROVE  TypeOK'
<1>1. thread[t] \in ThreadRecords /\ thread[t].incident \in Incidents
  BY BusyThread, CounterLiterals DEF Audit, TypeOK
<1>2. incident' \in [Incidents -> IncidentRecords]
  <2>1. thread[t].outcome \in ExecutionStatuses
    BY <1>1 DEF ThreadRecords
  <2>2. PICK r : r = [incident[thread[t].incident] EXCEPT !.execution = thread[t].outcome, !.verdict = "NONE"]
    OBVIOUS
  <2>3. incident[thread[t].incident] \in IncidentRecords
    BY <1>1 DEF TypeOK
  <2>4. r \in IncidentRecords
    BY <2>2, <2>3, <2>1, OutcomeLiterals DEF IncidentRecords
  <2>5. incident' = [incident EXCEPT ![thread[t].incident] = r]
    BY <1>1, <2>2 DEF Audit, TypeOK
  <2> QED
    BY <1>1, <2>4, <2>5, ReplacedType
<1>3. ThreadsOK'
  BY GotoType, ReturnType, CounterLiterals DEF Audit, TypeOK
<1> QED
  BY <1>2, <1>3, RecordStepType DEF Audit

\* The post-condition.
LEMMA CheckPostConditionType ==
    ASSUME TypeOK, NEW t \in Threads, CheckPostCondition(t)
    PROVE  TypeOK'
<1>1. thread[t] \in ThreadRecords /\ thread[t].incident \in Incidents
  BY BusyThread, CounterLiterals DEF CheckPostCondition, TypeOK
<1>2. incident' \in [Incidents -> IncidentRecords]
  <2>1. PICK v \in Verdicts(thread[t].plan, thread[t].incident) :
            incident' = [incident EXCEPT ![thread[t].incident].execution = "SUCCESS",
                                         ![thread[t].incident].verdict = v]
    BY DEF CheckPostCondition
  <2>2. v \in Verdict
    BY <2>1, OutcomeLiterals DEF Verdicts
  <2>3. PICK r : r = [incident[thread[t].incident] EXCEPT !.execution = "SUCCESS", !.verdict = v]
    OBVIOUS
  <2>4. incident[thread[t].incident] \in IncidentRecords
    BY <1>1 DEF TypeOK
  <2>5. r \in IncidentRecords
    BY <2>3, <2>4, <2>2, OutcomeLiterals DEF IncidentRecords
  <2>6. incident' = [incident EXCEPT ![thread[t].incident] = r]
    BY <1>1, <2>3, <2>1 DEF TypeOK
  <2> QED
    BY <1>1, <2>5, <2>6, ReplacedType
<1>3. ThreadsOK'
  BY GotoType, CounterLiterals DEF CheckPostCondition, TypeOK
<1> QED
  BY <1>2, <1>3, RecordStepType DEF CheckPostCondition

\* The verification.
LEMMA VerifyType ==
    ASSUME TypeOK, NEW t \in Threads, Verify(t)
    PROVE  TypeOK'
<1>1. thread[t] \in ThreadRecords /\ thread[t].incident \in Incidents
  BY BusyThread, CounterLiterals DEF Verify, TypeOK
<1>2. incident' \in [Incidents -> IncidentRecords]
  <2>1. PICK v \in VerificationStatuses, s \in IncidentStatuses :
            incident' = [incident EXCEPT ![thread[t].incident].verification = v,
                                         ![thread[t].incident].status = s]
    <3>1. CASE incident[thread[t].incident].verdict = "PASSED"
      BY <3>1, StatusLiterals, OutcomeLiterals DEF Verify
    <3>2. CASE incident[thread[t].incident].verdict # "PASSED"
      BY <3>2, StatusLiterals, OutcomeLiterals DEF Verify
    <3> QED
      BY <3>1, <3>2
  <2>2. PICK r : r = [incident[thread[t].incident] EXCEPT !.verification = v, !.status = s]
    OBVIOUS
  <2>3. incident[thread[t].incident] \in IncidentRecords
    BY <1>1 DEF TypeOK
  <2>4. r \in IncidentRecords
    BY <2>2, <2>3 DEF IncidentRecords
  <2>5. incident' = [incident EXCEPT ![thread[t].incident] = r]
    BY <1>1, <2>2, <2>1 DEF TypeOK
  <2> QED
    BY <1>1, <2>4, <2>5, ReplacedType
<1>3. ThreadsOK'
  BY ReturnType DEF Verify, TypeOK
<1> QED
  BY <1>2, <1>3, RecordStepType DEF Verify

\* The thread captures the plan and the decision of its incident.
LEMMA AuthorizeToolType ==
    ASSUME TypeOK, NEW t \in Threads, AuthorizeTool(t)
    PROVE  TypeOK'
<1> DEFINE i == thread[t].incident
           plan == incident[i].recommended
           policy == incident[i].policy
<1>1. thread[t] \in ThreadRecords /\ i \in Incidents
  BY BusyThread, CounterLiterals DEF AuthorizeTool, TypeOK
<1>2. plan \in Plans /\ policy \in Policies
  BY <1>1 DEF TypeOK, IncidentRecords
<1>3. thread' = [thread EXCEPT ![t].pc = "tool", ![t].plan = plan, ![t].policy = policy]
  BY DEF AuthorizeTool
<1> HIDE DEF plan, policy
<1>4. thread' \in [Threads -> ThreadRecords]
  <2>1. PICK r : r = [thread[t] EXCEPT !.pc = "tool", !.plan = plan, !.policy = policy]
    OBVIOUS
  <2>2. r \in ThreadRecords
    BY <1>1, <1>2, <2>1, CounterLiterals DEF ThreadRecords, Busy
  <2>3. thread' = [thread EXCEPT ![t] = r]
    BY <1>3, <2>1 DEF TypeOK, ThreadsOK
  <2> QED
    BY <2>2, <2>3 DEF TypeOK, ThreadsOK
<1>5. \A u \in Threads : (thread[u].incident = None)' <=> At(u, "idle")'
  BY <1>1, <1>3, WorkflowAssumption DEF TypeOK, ThreadsOK, ThreadRecords, At
<1>6. ThreadsOK'
  BY <1>4, <1>5 DEF ThreadsOK
<1> QED
  BY <1>6, RecordStepType DEF AuthorizeTool, TypeOK

\* A thread coming back from the tool has an outcome.
LEMMA ToolReturnsType ==
    ASSUME ThreadsOK, NEW t \in Threads, At(t, "tool"),
           NEW outcome \in ExecutionStatuses, ToolReturns(t, outcome)
    PROVE  ThreadsOK'
<1>1. thread' = [thread EXCEPT ![t].pc = "audit", ![t].outcome = outcome]
  BY DEF ToolReturns
<1>2. PICK r : r = [thread[t] EXCEPT !.pc = "audit", !.outcome = outcome]
  OBVIOUS
<1>3. r \in ThreadRecords
  BY <1>2, CounterLiterals DEF ThreadsOK, ThreadRecords, Busy
<1>4. thread' = [thread EXCEPT ![t] = r]
  BY <1>1, <1>2 DEF ThreadsOK
<1>5. thread' \in [Threads -> ThreadRecords]
  BY <1>3, <1>4 DEF ThreadsOK
<1>6. \A u \in Threads : (thread[u].incident = None)' <=> At(u, "idle")'
  BY <1>2, <1>4 DEF ThreadsOK, ThreadRecords, At
<1> QED
  BY <1>5, <1>6 DEF ThreadsOK

\* What a tool does to the cluster, and how it is recorded.  An action that
\* reaches a tool is a registered one.
LEMMA PerformType ==
    ASSUME TypeOK, NEW t \in Threads, At(t, "tool"),
           thread[t].plan.action \in RegisteredTools, Perform(t)
    PROVE  /\ replicas' \in [Deployments -> Nat]
           /\ performed' \subseteq Effects
           /\ effects' \in [Incidents -> Seq(ActionToolNames)]
<1> DEFINE i == thread[t].incident
           plan == thread[t].plan
<1>1. thread[t] \in ThreadRecords /\ i \in Incidents
  BY BusyThread, CounterLiterals DEF TypeOK
<1>2. plan \in Plans /\ thread[t].policy \in Policies
  BY <1>1 DEF ThreadRecords
<1>3. replicas' \in [Deployments -> Nat]
  <2>1. plan.desired \in Nat
    BY <1>2 DEF Plans
  <2>2. \/ replicas' = replicas
        \/ replicas' = [replicas EXCEPT ![plan.deployment] = plan.desired]
    BY DEF Perform, Apply
  <2> HIDE DEF plan
  <2> QED
    BY <2>1, <2>2 DEF TypeOK
<1>4. CASE plan.action \in ReadTools
  BY <1>3, <1>4 DEF Perform, TypeOK
<1>5. CASE plan.action \notin ReadTools
  <2>1. /\ performed' = performed \union {Effect(t)}
        /\ effects' = [effects EXCEPT ![i] = Append(@, plan.action)]
    BY <1>5 DEF Perform
  <2>2. Effect(t) \in Effects
    BY <1>1, <1>2 DEF Effect, Effects, Approved
  <2>3. plan.action \in ActionToolNames
    BY <1>5 DEF RegisteredTools
  <2>4. Append(effects[i], plan.action) \in Seq(ActionToolNames)
    BY <1>1, <2>3 DEF TypeOK
  <2> QED
    BY <1>1, <1>3, <2>1, <2>2, <2>4 DEF TypeOK
<1> QED
  BY <1>4, <1>5

\* The three ways a tool call can end.
LEMMA ToolType ==
    ASSUME TypeOK, ToolIsAuthorized, NEW t \in Threads,
           ToolSucceeds(t) \/ ToolFails(t) \/ ToolFailsLate(t)
    PROVE  TypeOK'
<1>1. At(t, "tool") /\ thread[t].plan.action \in RegisteredTools
  BY DEF ToolSucceeds, ToolFails, ToolFailsLate, ToolIsAuthorized
<1>2. PICK outcome \in ExecutionStatuses : ToolReturns(t, outcome)
  BY OutcomeLiterals DEF ToolSucceeds, ToolFails, ToolFailsLate
<1>3. ThreadsOK'
  BY <1>1, <1>2, ToolReturnsType DEF TypeOK
<1>4. /\ replicas' \in [Deployments -> Nat]
      /\ performed' \subseteq Effects
      /\ effects' \in [Incidents -> Seq(ActionToolNames)]
  <2>1. CASE Perform(t)
    BY <1>1, <2>1, PerformType
  <2>2. CASE UNCHANGED <<replicas, performed, effects>>
    BY <2>2 DEF TypeOK
  <2> QED
    BY <2>1, <2>2 DEF ToolSucceeds, ToolFails, ToolFailsLate, history
<1>5. UNCHANGED <<incident, requests, granted, grants>>
  BY DEF ToolSucceeds, ToolFails, ToolFailsLate, history
<1> QED
  BY <1>3, <1>4, <1>5 DEF TypeOK

\* Every step keeps the state type correct.
LEMMA NextType == TypeOK /\ ToolIsAuthorized /\ [Next]_vars => TypeOK'
<1> SUFFICES ASSUME TypeOK, ToolIsAuthorized, [Next]_vars PROVE TypeOK'
  OBVIOUS
<1>1. CASE UNCHANGED vars
  BY <1>1 DEF vars, history, TypeOK, ThreadsOK, At
<1>2. ASSUME NEW t \in Threads, Request(t) PROVE TypeOK'
  BY <1>2, RequestType
<1>3. ASSUME NEW t \in Threads, Step(t) PROVE TypeOK'
  BY <1>3, ClassifyType, InvestigateType, InvestigationRaisesType, DiagnoseType,
     PlanRemediationType, PolicyCheckType, DispatchType, CheckPendingType, ApproveType,
     RejectType, BeginExecutionType, RefuseMismatchType, RecordNoopType, RefuseToolType,
     AuthorizeToolType, ToolType, AuditType, CheckPostConditionType, VerifyType
     DEF Step
<1> QED
  BY <1>1, <1>2, <1>3 DEF Next

-----------------------------------------------------------------------------
(* What the steps leave alone.                                             *)

\* Only the policy check takes a decision, and a proposal is opened only by
\* the policy check and by run_workflow on the decision that asks for it.
RecordFrame ==
    /\ UNCHANGED <<granted, grants>>
    /\ \A i \in Incidents :
          /\ incident'[i].policy = incident[i].policy
          /\ incident'[i].approval = "PENDING" =>
                \/ incident[i].approval = "PENDING"
                \/ incident[i].policy.decision = "APPROVAL_REQUIRED"

\* Accepting a request takes no decision and opens no approval.
LEMMA RequestFrame ==
    ASSUME TypeOK, NEW t \in Threads, Request(t)
    PROVE  RecordFrame
<1>1. PICK i \in Incidents :
          \/ CreateIncident(t, i)
          \/ UNCHANGED incident /\ \E kind, pc : Accept(t, kind, i, pc)
  BY DEF Request, RerunIncident, RequestDecision
<1>2. CASE CreateIncident(t, i)
  BY <1>2 DEF CreateIncident, Accept, history, RecordFrame, TypeOK, IncidentRecords
<1>3. CASE UNCHANGED incident /\ \E kind, pc : Accept(t, kind, i, pc)
  BY <1>3 DEF Accept, history, RecordFrame
<1> QED
  BY <1>1, <1>2, <1>3

\* Nor does any step but the policy check, except to open what it decided.
LEMMA StepFrame ==
    ASSUME TypeOK, NEW t \in Threads, Step(t), ~PolicyCheck(t)
    PROVE  RecordFrame
<1>1. CASE Classify(t)
  BY <1>1 DEF Classify, history, RecordFrame, TypeOK, IncidentRecords
<1>2. CASE Investigate(t)
  BY <1>2 DEF Investigate, history, RecordFrame, TypeOK, IncidentRecords
<1>3. CASE InvestigationRaises(t)
  BY <1>3 DEF InvestigationRaises, history, RecordFrame, TypeOK, IncidentRecords
<1>4. CASE Diagnose(t)
  <2>1. PICK advice :
            incident' = [incident EXCEPT ![thread[t].incident].advice = advice]
    BY <1>4 DEF Diagnose
  <2>2. UNCHANGED <<granted, grants>>
    BY <1>4 DEF Diagnose, history
  <2> QED
    BY <2>1, <2>2 DEF RecordFrame, TypeOK, IncidentRecords
<1>5. CASE PlanRemediation(t)
  <2>1. PICK plan :
            incident' = [incident EXCEPT ![thread[t].incident].recommended = plan]
    BY <1>5 DEF PlanRemediation
  <2>2. UNCHANGED <<granted, grants>>
    BY <1>5 DEF PlanRemediation, history
  <2> QED
    BY <2>1, <2>2 DEF RecordFrame, TypeOK, IncidentRecords
<1>6. CASE Dispatch(t)
  <2> DEFINE d == incident[thread[t].incident].policy.decision
  <2>1. UNCHANGED <<granted, grants>>
    BY <1>6 DEF Dispatch, history
  <2>2. CASE d = "AUTO"
    BY <1>6, <2>1, <2>2 DEF Dispatch, RecordFrame
  <2>3. CASE d = "APPROVAL_REQUIRED"
    <3>1. incident' = [incident EXCEPT ![thread[t].incident].approval = "PENDING",
                                       ![thread[t].incident].status = "AWAITING_APPROVAL"]
      BY <1>6, <2>3 DEF Dispatch
    <3> QED
      BY <2>1, <2>3, <3>1 DEF RecordFrame, TypeOK, IncidentRecords
  <2>4. CASE d # "AUTO" /\ d # "APPROVAL_REQUIRED"
    <3>1. incident' = [incident EXCEPT ![thread[t].incident].status = "NO_ACTION"]
      BY <1>6, <2>4 DEF Dispatch
    <3> QED
      BY <2>1, <3>1 DEF RecordFrame, TypeOK, IncidentRecords
  <2> QED
    BY <2>2, <2>3, <2>4
<1>7. CASE CheckPending(t)
  BY <1>7 DEF CheckPending, history, RecordFrame, TypeOK, IncidentRecords
<1>8. CASE Approve(t)
  BY <1>8 DEF Approve, history, RecordFrame, TypeOK, IncidentRecords
<1>9. CASE Reject(t)
  BY <1>9 DEF Reject, history, RecordFrame, TypeOK, IncidentRecords
<1>10. CASE BeginExecution(t)
  BY <1>10 DEF BeginExecution, history, RecordFrame, TypeOK, IncidentRecords
<1>11. CASE RefuseMismatch(t)
  BY <1>11, SMTT(60) DEF RefuseMismatch, history, RecordFrame, TypeOK, IncidentRecords
<1>12. CASE RecordNoop(t)
  BY <1>12 DEF RecordNoop, history, RecordFrame, TypeOK, IncidentRecords
<1>13. CASE RefuseTool(t)
  BY <1>13 DEF RefuseTool, history, RecordFrame, TypeOK, IncidentRecords
<1>14. CASE AuthorizeTool(t)
  BY <1>14 DEF AuthorizeTool, history, RecordFrame, TypeOK, IncidentRecords
<1>15. CASE ToolSucceeds(t)
  BY <1>15 DEF ToolSucceeds, history, RecordFrame, TypeOK, IncidentRecords
<1>16. CASE ToolFails(t)
  BY <1>16 DEF ToolFails, history, RecordFrame, TypeOK, IncidentRecords
<1>17. CASE ToolFailsLate(t)
  BY <1>17 DEF ToolFailsLate, history, RecordFrame, TypeOK, IncidentRecords
<1>18. CASE Audit(t)
  BY <1>18 DEF Audit, history, RecordFrame, TypeOK, IncidentRecords
<1>19. CASE CheckPostCondition(t)
  <2>1. PICK v :
            incident' = [incident EXCEPT ![thread[t].incident].execution = "SUCCESS",
                                         ![thread[t].incident].verdict = v]
    BY <1>19 DEF CheckPostCondition
  <2>2. UNCHANGED <<granted, grants>>
    BY <1>19 DEF CheckPostCondition, history
  <2> QED
    BY <2>1, <2>2 DEF RecordFrame, TypeOK, IncidentRecords
<1>20. CASE Verify(t)
  BY <1>20 DEF Verify, history, RecordFrame, TypeOK, IncidentRecords
<1> QED
  BY <1>1, <1>2, <1>3, <1>4, <1>5, <1>6, <1>7, <1>8, <1>9, <1>10, <1>11, <1>12, <1>13, <1>14, <1>15, <1>16, <1>17, <1>18, <1>19, <1>20 DEF Step

\* A step is a step of one thread, and only the authorisation brings it to
\* the tool.
ThreadFrame(t) ==
    /\ \A u \in Threads \ {t} : thread'[u] = thread[u]
    /\ thread'[t].kind # "none" =>
          thread'[t].kind = thread[t].kind /\ thread'[t].incident = thread[t].incident
    /\ thread'[t].pc = "tool" => AuthorizeTool(t)

\* How a thread moves: what it keeps, and where it captures a plan.
LEMMA StepThread ==
    ASSUME TypeOK, NEW t \in Threads, Step(t)
    PROVE  ThreadFrame(t)
<1>1. CASE Classify(t)
  BY <1>1 DEF Classify, Goto, Return, ToolReturns, Idle, ThreadFrame, TypeOK, ThreadsOK, ThreadRecords
<1>2. CASE Investigate(t)
  BY <1>2 DEF Investigate, Goto, Return, ToolReturns, Idle, ThreadFrame, TypeOK, ThreadsOK, ThreadRecords
<1>3. CASE InvestigationRaises(t)
  BY <1>3 DEF InvestigationRaises, Goto, Return, ToolReturns, Idle, ThreadFrame, TypeOK, ThreadsOK, ThreadRecords
<1>4. CASE Diagnose(t)
  BY <1>4 DEF Diagnose, Goto, Return, ToolReturns, Idle, ThreadFrame, TypeOK, ThreadsOK, ThreadRecords
<1>5. CASE PlanRemediation(t)
  BY <1>5, SMTT(60) DEF PlanRemediation, Goto, Return, ToolReturns, Idle, ThreadFrame, TypeOK, ThreadsOK, ThreadRecords
<1>6. CASE PolicyCheck(t)
  BY <1>6 DEF PolicyCheck, Goto, Return, ToolReturns, Idle, ThreadFrame, TypeOK, ThreadsOK, ThreadRecords
<1>7. CASE Dispatch(t)
  BY <1>7 DEF Dispatch, Goto, Return, ToolReturns, Idle, ThreadFrame, TypeOK, ThreadsOK, ThreadRecords
<1>8. CASE CheckPending(t)
  BY <1>8 DEF CheckPending, Goto, Return, ToolReturns, Idle, ThreadFrame, TypeOK, ThreadsOK, ThreadRecords
<1>9. CASE Approve(t)
  BY <1>9 DEF Approve, Goto, Return, ToolReturns, Idle, ThreadFrame, TypeOK, ThreadsOK, ThreadRecords
<1>10. CASE Reject(t)
  BY <1>10 DEF Reject, Goto, Return, ToolReturns, Idle, ThreadFrame, TypeOK, ThreadsOK, ThreadRecords
<1>11. CASE BeginExecution(t)
  BY <1>11 DEF BeginExecution, Goto, Return, ToolReturns, Idle, ThreadFrame, TypeOK, ThreadsOK, ThreadRecords
<1>12. CASE RefuseMismatch(t)
  BY <1>12 DEF RefuseMismatch, Goto, Return, ToolReturns, Idle, ThreadFrame, TypeOK, ThreadsOK, ThreadRecords
<1>13. CASE RecordNoop(t)
  BY <1>13 DEF RecordNoop, Goto, Return, ToolReturns, Idle, ThreadFrame, TypeOK, ThreadsOK, ThreadRecords
<1>14. CASE RefuseTool(t)
  BY <1>14 DEF RefuseTool, Goto, Return, ToolReturns, Idle, ThreadFrame, TypeOK, ThreadsOK, ThreadRecords
<1>15. CASE AuthorizeTool(t)
  BY <1>15 DEF AuthorizeTool, Goto, Return, ToolReturns, Idle, ThreadFrame, TypeOK, ThreadsOK, ThreadRecords
<1>16. CASE ToolSucceeds(t)
  BY <1>16 DEF ToolSucceeds, Goto, Return, ToolReturns, Idle, ThreadFrame, TypeOK, ThreadsOK, ThreadRecords
<1>17. CASE ToolFails(t)
  BY <1>17 DEF ToolFails, Goto, Return, ToolReturns, Idle, ThreadFrame, TypeOK, ThreadsOK, ThreadRecords
<1>18. CASE ToolFailsLate(t)
  BY <1>18 DEF ToolFailsLate, Goto, Return, ToolReturns, Idle, ThreadFrame, TypeOK, ThreadsOK, ThreadRecords
<1>19. CASE Audit(t)
  BY <1>19 DEF Audit, Goto, Return, ToolReturns, Idle, ThreadFrame, TypeOK, ThreadsOK, ThreadRecords
<1>20. CASE CheckPostCondition(t)
  BY <1>20 DEF CheckPostCondition, Goto, Return, ToolReturns, Idle, ThreadFrame, TypeOK, ThreadsOK, ThreadRecords
<1>21. CASE Verify(t)
  BY <1>21, SMTT(60) DEF Verify, Goto, Return, ToolReturns, Idle, ThreadFrame, TypeOK, ThreadsOK, ThreadRecords
<1> QED
  BY <1>1, <1>2, <1>3, <1>4, <1>5, <1>6, <1>7, <1>8, <1>9, <1>10, <1>11, <1>12, <1>13, <1>14, <1>15, <1>16, <1>17, <1>18, <1>19, <1>20, <1>21 DEF Step

\* What the policy check changes.
LEMMA PolicyCheckFrame ==
    ASSUME TypeOK, NEW t \in Threads, PolicyCheck(t)
    PROVE  LET i == thread[t].incident
               policy == Evaluate(Subject[i].type, incident[i].recommended)
           IN  /\ i \in Incidents
               /\ incident'[i].policy = policy
               /\ \A j \in Incidents \ {i} : incident'[j] = incident[j]
               /\ incident'[i].approval = "PENDING" =>
                     incident[i].approval = "PENDING" \/ policy.decision = "APPROVAL_REQUIRED"
               /\ IF policy.decision = "NO_ACTION" THEN UNCHANGED granted
                  ELSE granted' = granted \union {[incident |-> i, policy |-> policy]}
<1>1. PICK i : i = thread[t].incident
  OBVIOUS
<1>2. PICK policy : policy = Evaluate(Subject[i].type, incident[i].recommended)
  OBVIOUS
<1>0. RecordsDecision(t, i, policy)
  BY <1>1, <1>2, PolicyCheckWrites
<1>3. /\ At(t, "policy")
      /\ IF policy.decision = "NO_ACTION" THEN UNCHANGED granted
         ELSE granted' = granted \union {[incident |-> i, policy |-> policy]}
  BY <1>0 DEF RecordsDecision
<1>4. PICK a, s :
          /\ incident' = [incident EXCEPT ![i].policy = policy, ![i].approval = a, ![i].status = s]
          /\ policy.decision = "AUTO" => a = "NOT_REQUIRED"
          /\ policy.decision = "NO_ACTION" => a = incident[i].approval
  BY <1>0 DEF RecordsDecision
<1>5. policy.decision \in {"NO_ACTION", "AUTO", "APPROVAL_REQUIRED"}
  BY <1>2, EvaluateKeepsPlan DEF Decisions
<1>6. i \in Incidents
  BY <1>1, <1>3, BusyThread, CounterLiterals DEF TypeOK
<1>7. /\ incident'[i].policy = policy
      /\ incident'[i].approval = a
      /\ \A j \in Incidents \ {i} : incident'[j] = incident[j]
  BY <1>4, <1>6 DEF TypeOK, IncidentRecords
<1> QED
  BY <1>1, <1>2, <1>3, <1>4, <1>5, <1>6, <1>7, Zenon

-----------------------------------------------------------------------------
(* The inductive invariant.                                                *)

\* No decision is recorded at first, and nothing has been done.
LEMMA InitInv == Init => WorkflowInv
<1> SUFFICES ASSUME Init PROVE WorkflowInv
  OBVIOUS
<1>1. TypeOK
  BY InitType
<1>2. GrantsAreEvaluated /\ HumanInTheLoop
  BY DEF Init, GrantsAreEvaluated, HumanInTheLoop
<1>3. PolicyIsGranted /\ ProposalIsGranted /\ ToolIsAuthorized
  BY DEF Init, NotCreated, NoPolicy, Idle, PolicyIsGranted, ProposalIsGranted,
         ToolIsAuthorized, At
<1>4. ReplicasBounded
  BY WorkflowAssumption, LimitsAssumption DEF Init, ReplicasBounded
<1> QED
  BY <1>1, <1>2, <1>3, <1>4 DEF WorkflowInv

\* Every decision added to the record is the engine's, and allows the plan.
LEMMA NextGrantsAreEvaluated ==
    ASSUME WorkflowInv, [Next]_vars
    PROVE  GrantsAreEvaluated' /\ granted \subseteq granted'
<1>1. ASSUME NEW t \in Threads, PolicyCheck(t)
      PROVE  GrantsAreEvaluated' /\ granted \subseteq granted'
  <2> DEFINE i == thread[t].incident
             policy == Evaluate(Subject[i].type, incident[i].recommended)
  <2>1. IF policy.decision = "NO_ACTION" THEN UNCHANGED granted
        ELSE granted' = granted \union {[incident |-> i, policy |-> policy]}
    BY <1>1, PolicyCheckFrame DEF WorkflowInv
  <2>2. policy = Evaluate(Subject[i].type, policy.plan)
    BY EvaluateKeepsPlan
  <2> HIDE DEF policy
  <2> QED
    BY <2>1, <2>2 DEF GrantsAreEvaluated, WorkflowInv
<1>2. CASE UNCHANGED granted
  BY <1>2 DEF GrantsAreEvaluated, WorkflowInv
<1> QED
  BY <1>1, <1>2, RequestFrame, StepFrame DEF Next, vars, history, RecordFrame, WorkflowInv

\* The decision an incident holds has been recorded for it.
LEMMA NextPolicyIsGranted ==
    ASSUME WorkflowInv, [Next]_vars
    PROVE  PolicyIsGranted'
<1>1. ASSUME NEW t \in Threads, PolicyCheck(t) PROVE PolicyIsGranted'
  BY <1>1, PolicyCheckFrame DEF WorkflowInv, PolicyIsGranted
<1>2. CASE RecordFrame
  BY <1>2 DEF RecordFrame, PolicyIsGranted, WorkflowInv
<1>3. CASE UNCHANGED vars
  BY <1>3 DEF vars, history, PolicyIsGranted, WorkflowInv
<1> QED
  BY <1>1, <1>2, <1>3, RequestFrame, StepFrame DEF Next, WorkflowInv

\* A proposal stays a proposal: decisions are never struck from the record.
LEMMA ProposedStays ==
    ASSUME NEW i, granted \subseteq granted', Proposed(i)
    PROVE  Proposed(i)'
BY DEF Proposed

\* Only what the engine has put before a human becomes PENDING.
LEMMA NextPendingIsProposed ==
    ASSUME WorkflowInv, [Next]_vars, NEW j \in Incidents, (incident[j].approval = "PENDING")'
    PROVE  Proposed(j)'
<1>1. granted \subseteq granted'
  BY NextGrantsAreEvaluated
<1>2. CASE incident[j].approval = "PENDING"
  BY <1>1, <1>2, ProposedStays DEF WorkflowInv, ProposalIsGranted
<1>3. CASE incident[j].approval # "PENDING" /\ RecordFrame
  <2>1. incident[j].policy.decision = "APPROVAL_REQUIRED"
    BY <1>3 DEF RecordFrame
  <2>2. [incident |-> j, policy |-> incident[j].policy] \in granted
    BY <2>1 DEF WorkflowInv, PolicyIsGranted
  <2>3. Proposed(j)
    BY <2>1, <2>2 DEF Proposed
  <2> QED
    BY <1>1, <2>3, ProposedStays
<1>4. ASSUME NEW t \in Threads, PolicyCheck(t), incident[j].approval # "PENDING"
      PROVE  Proposed(j)'
  <2> DEFINE i == thread[t].incident
             policy == Evaluate(Subject[i].type, incident[i].recommended)
  <2>1. j = i /\ policy.decision = "APPROVAL_REQUIRED"
    BY <1>4, PolicyCheckFrame DEF WorkflowInv
  <2>2. [incident |-> j, policy |-> policy] \in granted'
    BY <1>4, <2>1, PolicyCheckFrame DEF WorkflowInv
  <2> HIDE DEF policy
  <2> QED
    BY <2>1, <2>2 DEF Proposed
<1>5. CASE UNCHANGED vars
  BY <1>2, <1>5 DEF vars
<1> QED
  BY <1>2, <1>3, <1>4, <1>5, RequestFrame, StepFrame DEF Next, WorkflowInv

\* Only a proposal is decided on.
LEMMA NextDecidedIsProposed ==
    ASSUME WorkflowInv, [Next]_vars, NEW u \in Threads,
           (thread[u].kind \in {"approve", "reject"})'
    PROVE  Proposed(thread[u].incident)'
<1>1. granted \subseteq granted'
  BY NextGrantsAreEvaluated
<1>2. CASE thread'[u] = thread[u]
  <2>1. Proposed(thread[u].incident)
    BY <1>2 DEF WorkflowInv, ProposalIsGranted
  <2> QED
    BY <1>1, <1>2, <2>1 DEF Proposed
<1>3. ASSUME NEW t \in Threads, Step(t) PROVE Proposed(thread[u].incident)'
  <2>1. ThreadFrame(t)
    BY <1>3, StepThread DEF WorkflowInv
  <2>2. CASE u # t
    BY <1>2, <2>1, <2>2 DEF ThreadFrame
  <2>3. CASE u = t
    <3>1. thread'[u].kind = thread[u].kind /\ thread'[u].incident = thread[u].incident
      BY <2>1, <2>3 DEF ThreadFrame
    <3>2. Proposed(thread[u].incident)
      BY <3>1 DEF WorkflowInv, ProposalIsGranted
    <3> QED
      BY <1>1, <3>1, <3>2 DEF Proposed
  <2> QED
    BY <2>2, <2>3
<1>4. ASSUME NEW t \in Threads, Request(t) PROVE Proposed(thread[u].incident)'
  <2>1. PICK i \in Incidents, kind \in RequestKinds, pc \in Busy :
            /\ Accept(t, kind, i, pc)
            /\ kind \in {"approve", "reject"} => incident[i].approval = "PENDING"
    BY <1>4, KindLiterals, CounterLiterals
       DEF Request, CreateIncident, RerunIncident, RequestDecision
  <2>2. thread' = [thread EXCEPT ![t] = [Idle EXCEPT !.pc = pc, !.kind = kind, !.incident = i]]
    BY <2>1 DEF Accept
  <2>3. CASE u # t
    BY <1>2, <2>2, <2>3 DEF WorkflowInv, TypeOK, ThreadsOK
  <2>4. CASE u = t
    <3>1. thread'[u].kind = kind /\ thread'[u].incident = i
      BY <2>2, <2>4 DEF WorkflowInv, TypeOK, ThreadsOK, Idle
    <3>2. Proposed(i)
      BY <2>1, <3>1 DEF WorkflowInv, ProposalIsGranted
    <3> QED
      BY <1>1, <3>1, <3>2 DEF Proposed
  <2> QED
    BY <2>3, <2>4
<1>5. CASE UNCHANGED vars
  BY <1>2, <1>5 DEF vars
<1> QED
  BY <1>3, <1>4, <1>5 DEF Next

\* A plan reaches the tool with the decision that authorised it.
LEMMA NextToolIsAuthorized ==
    ASSUME WorkflowInv, [Next]_vars
    PROVE  ToolIsAuthorized'
<1> SUFFICES ASSUME NEW u \in Threads, At(u, "tool")'
             PROVE  /\ (thread[u].plan.action \in RegisteredTools)'
                    /\ Authorized(thread[u].plan, thread[u].policy, Approved(u))'
                    /\ (thread[u].policy.decision # "NO_ACTION")' =>
                          ([incident |-> thread[u].incident, policy |-> thread[u].policy] \in granted)'
  BY DEF ToolIsAuthorized
<1>1. granted \subseteq granted'
  BY NextGrantsAreEvaluated
<1>2. CASE thread'[u] = thread[u]
  <2>1. At(u, "tool")
    BY <1>2 DEF At
  <2>2. /\ thread[u].plan.action \in RegisteredTools
        /\ Authorized(thread[u].plan, thread[u].policy, Approved(u))
        /\ thread[u].policy.decision # "NO_ACTION" =>
              [incident |-> thread[u].incident, policy |-> thread[u].policy] \in granted
    BY <2>1 DEF WorkflowInv, ToolIsAuthorized
  <2> QED
    BY <1>1, <1>2, <2>2 DEF Authorized, Approved
<1>3. CASE AuthorizeTool(u)
  <2> DEFINE i == thread[u].incident
             plan == incident[i].recommended
             policy == incident[i].policy
  <2>1. i \in Incidents
    BY <1>3, BusyThread, CounterLiterals DEF AuthorizeTool, WorkflowInv, TypeOK
  <2>2. /\ plan.action \in RegisteredTools
        /\ Authorized(plan, policy, Approved(u))
        /\ granted' = granted
    BY <1>3 DEF AuthorizeTool, history
  <2>3. policy.decision # "NO_ACTION" => [incident |-> i, policy |-> policy] \in granted
    BY <2>1 DEF WorkflowInv, PolicyIsGranted
  <2>4. /\ thread'[u].plan = plan /\ thread'[u].policy = policy
        /\ thread'[u].incident = i /\ thread'[u].kind = thread[u].kind
    BY <1>3 DEF AuthorizeTool, WorkflowInv, TypeOK, ThreadsOK, ThreadRecords
  <2> HIDE DEF plan, policy, i
  <2> QED
    BY <2>2, <2>3, <2>4 DEF Authorized, Approved
<1>4. ASSUME NEW t \in Threads, Step(t)
      PROVE  thread'[u] = thread[u] \/ AuthorizeTool(u)
  BY <1>4, StepThread DEF ThreadFrame, At, WorkflowInv
<1>5. ASSUME NEW t \in Threads, Request(t)
      PROVE  thread'[u] = thread[u]
  <2>1. PICK i \in Incidents, kind \in RequestKinds, pc \in {"classify", "pending"} :
            Accept(t, kind, i, pc)
    BY <1>5, KindLiterals DEF Request, CreateIncident, RerunIncident, RequestDecision
  <2>2. thread' = [thread EXCEPT ![t] = [Idle EXCEPT !.pc = pc, !.kind = kind, !.incident = i]]
    BY <2>1 DEF Accept
  <2>3. u # t
    BY <2>2 DEF Idle, At, WorkflowInv, TypeOK, ThreadsOK
  <2> QED
    BY <2>2, <2>3 DEF WorkflowInv, TypeOK, ThreadsOK
<1>6. CASE UNCHANGED vars
  BY <1>2, <1>6 DEF vars
<1> QED
  BY <1>2, <1>3, <1>4, <1>5, <1>6 DEF Next

\* A step that changes the cluster is a tool doing what its plan says.
LEMMA OnlyToolsPerform ==
    ASSUME NEW t \in Threads, Step(t)
    PROVE  \/ UNCHANGED <<replicas, performed, effects>>
           \/ /\ At(t, "tool") /\ ~ToolRefuses(thread[t].plan) /\ Perform(t)
              /\ UNCHANGED <<granted, grants>>
              /\ \E outcome : ToolReturns(t, outcome)
<1>1. CASE ToolSucceeds(t)
  BY <1>1 DEF ToolSucceeds
<1>2. CASE ToolFailsLate(t)
  BY <1>2 DEF ToolFailsLate
<1>3. CASE \/ Classify(t) \/ Investigate(t) \/ InvestigationRaises(t) \/ Diagnose(t)
           \/ PlanRemediation(t) \/ PolicyCheck(t) \/ Dispatch(t)
  BY <1>3, Zenon DEF Classify, Investigate, InvestigationRaises, Diagnose, PlanRemediation,
     PolicyCheck, Dispatch, history
<1>4. CASE CheckPending(t) \/ Approve(t) \/ Reject(t)
  BY <1>4, Zenon DEF CheckPending, Approve, Reject, history
<1>5. CASE \/ BeginExecution(t) \/ RefuseMismatch(t) \/ RecordNoop(t) \/ RefuseTool(t)
           \/ AuthorizeTool(t) \/ ToolFails(t) \/ Audit(t) \/ CheckPostCondition(t)
           \/ Verify(t)
  BY <1>5, Zenon DEF BeginExecution, RefuseMismatch, RecordNoop, RefuseTool, AuthorizeTool,
     ToolFails, Audit, CheckPostCondition, Verify, history
<1> QED
  BY <1>1, <1>2, <1>3, <1>4, <1>5, Zenon DEF Step

\* Accepting a request does nothing to the cluster.
LEMMA RequestsDoNothing ==
    ASSUME NEW t \in Threads, Request(t)
    PROVE  UNCHANGED <<replicas, performed, effects>>
BY DEF Request, CreateIncident, RerunIncident, RequestDecision, Accept, history

\* What stands behind an effect: the plan is no read, and the engine has
\* allowed its action for this incident, for a human's decision or for none.
LEMMA EffectIsGranted ==
    ASSUME WorkflowInv, NEW t \in Threads, At(t, "tool"), thread[t].plan.action \notin ReadTools
    PROVE  LET i == thread[t].incident
               policy == thread[t].policy
           IN  /\ i \in Incidents
               /\ thread[t].plan.action \in ActionToolNames
               /\ policy.plan.action = thread[t].plan.action
               /\ [incident |-> i, policy |-> policy] \in granted
               /\ policy = Evaluate(Subject[i].type, policy.plan)
               /\ \/ policy.decision = "AUTO"
                  \/ policy.decision = "APPROVAL_REQUIRED" /\ Approved(t)
<1> DEFINE i == thread[t].incident
           policy == thread[t].policy
<1>1. thread[t] \in ThreadRecords /\ i \in Incidents
  BY BusyThread, CounterLiterals DEF WorkflowInv, TypeOK
<1>2. /\ thread[t].plan.action \in RegisteredTools
      /\ Authorized(thread[t].plan, policy, Approved(t))
      /\ policy.decision # "NO_ACTION" => [incident |-> i, policy |-> policy] \in granted
  BY DEF WorkflowInv, ToolIsAuthorized
<1>3. /\ policy.decision # "NO_ACTION" /\ policy.plan.action = thread[t].plan.action
      /\ policy.decision = "APPROVAL_REQUIRED" => Approved(t)
  BY <1>2 DEF Authorized
<1>4. policy.decision \in Decisions
  BY <1>1 DEF ThreadRecords, Policies
<1>5. policy = Evaluate(Subject[i].type, policy.plan)
  <2> DEFINE g == [incident |-> i, policy |-> policy]
  <2>1. g \in granted
    BY <1>2, <1>3
  <2>2. g.policy = Evaluate(Subject[g.incident].type, g.policy.plan)
    BY <2>1 DEF WorkflowInv, GrantsAreEvaluated
  <2> QED
    BY <2>2
<1> QED
  BY <1>1, <1>2, <1>3, <1>4, <1>5 DEF Decisions, RegisteredTools

\* An effect nobody approved is the scale of a high-CPU incident.
LEMMA NextHumanInTheLoop ==
    ASSUME WorkflowInv, [Next]_vars
    PROVE  HumanInTheLoop'
<1>1. CASE UNCHANGED performed
  BY <1>1 DEF WorkflowInv, HumanInTheLoop
<1>2. ASSUME NEW t \in Threads, At(t, "tool"), Perform(t), ~(UNCHANGED performed)
      PROVE  HumanInTheLoop'
  <2> DEFINE e == Effect(t)
             policy == thread[t].policy
             type == Subject[thread[t].incident].type
  <2>1. thread[t].plan.action \notin ReadTools /\ performed' = performed \union {e}
    BY <1>2 DEF Perform
  <2>2. /\ policy.plan.action = thread[t].plan.action
        /\ policy = Evaluate(type, policy.plan)
        /\ policy.decision = "AUTO" \/ Approved(t)
    BY <1>2, <2>1, EffectIsGranted
  <2>3. e.approved = Approved(t) /\ e.incident = thread[t].incident /\ e.plan = thread[t].plan
    BY DEF Effect
  <2>4. \/ e.approved
        \/ Subject[e.incident].type = "high_cpu" /\ e.plan.action = "scale_deployment"
    <3>1. CASE Approved(t)
      BY <2>3, <3>1
    <3>2. CASE policy.decision = "AUTO"
      <4>1. Evaluate(type, policy.plan).decision = "AUTO"
        BY <2>2, <3>2
      <4>2. type = "high_cpu" /\ policy.plan.action = "scale_deployment"
        BY <4>1, EvaluateAuto
      <4> QED
        BY <2>2, <2>3, <4>2
    <3> QED
      BY <2>2, <3>1, <3>2
  <2> HIDE DEF e
  <2> QED
    BY <2>1, <2>4 DEF WorkflowInv, HumanInTheLoop
<1> QED
  BY <1>1, <1>2, OnlyToolsPerform, RequestsDoNothing DEF Next, vars, history

\* A tool scales to no more than the maximum, whatever was evaluated.
LEMMA NextReplicasBounded ==
    ASSUME WorkflowInv, [Next]_vars
    PROVE  ReplicasBounded'
<1>1. CASE UNCHANGED replicas
  BY <1>1 DEF WorkflowInv, ReplicasBounded
<1>2. ASSUME NEW t \in Threads, At(t, "tool"), ~ToolRefuses(thread[t].plan), Perform(t)
      PROVE  ReplicasBounded'
  <2> DEFINE plan == thread[t].plan
  <2>1. plan.desired \in Nat
    <3>1. thread[t] \in ThreadRecords
      BY <1>2, BusyThread, CounterLiterals DEF WorkflowInv, TypeOK
    <3> QED
      BY <3>1 DEF ThreadRecords, Plans
  <2>2. CASE plan.action = "scale_deployment" /\ plan.deployment \in Deployments
    <3>1. replicas' = [replicas EXCEPT ![plan.deployment] = plan.desired]
      BY <1>2, <2>2 DEF Perform, Apply
    <3>2. ~(plan.desired > MaxAutoscaleReplicas)
      BY <1>2, <2>2 DEF ToolRefuses
    <3>3. \A n \in Nat : ~(n > MaxAutoscaleReplicas) => n <= MaxAutoscaleReplicas
      BY LimitsAssumption
    <3>4. plan.desired <= MaxAutoscaleReplicas
      BY <2>1, <3>2, <3>3, Zenon
    <3> HIDE DEF plan
    <3> QED
      BY <3>1, <3>4 DEF WorkflowInv, TypeOK, ReplicasBounded
  <2>3. CASE ~(plan.action = "scale_deployment" /\ plan.deployment \in Deployments)
    BY <1>1, <1>2, <2>3 DEF Perform, Apply
  <2> QED
    BY <2>2, <2>3
<1> QED
  BY <1>1, <1>2, OnlyToolsPerform, RequestsDoNothing DEF Next, vars, history

\* Every step preserves the inductive invariant.
LEMMA NextInv == WorkflowInv /\ [Next]_vars => WorkflowInv'
<1> SUFFICES ASSUME WorkflowInv, [Next]_vars PROVE WorkflowInv'
  OBVIOUS
<1>1. TypeOK'
  BY NextType DEF WorkflowInv
<1>2. ProposalIsGranted'
  BY NextPendingIsProposed, NextDecidedIsProposed DEF ProposalIsGranted
<1> QED
  BY <1>1, <1>2, NextGrantsAreEvaluated, NextPolicyIsGranted, NextToolIsAuthorized,
     NextHumanInTheLoop, NextReplicasBounded DEF WorkflowInv

\* The inductive invariant holds throughout.
LEMMA AlwaysInv == Spec => []WorkflowInv
BY InitInv, NextInv, PTL DEF Spec

-----------------------------------------------------------------------------
(* The guarantees.                                                         *)

\* The workflow's state is type correct (models/incident.py).
THEOREM TypeCorrect == Spec => []TypeOK
<1>1. WorkflowInv => TypeOK
  BY DEF WorkflowInv
<1> QED
  BY <1>1, AlwaysInv, PTL

\* Nothing but the scaling for high CPU happens without a human, however
\* many requests are at work on an incident (README.md, security model,
\* point 3; workflows/nodes.py, execute; mcp/registry.py, _authorize).
THEOREM HumanAlwaysInTheLoop == Spec => []HumanInTheLoop
<1>1. WorkflowInv => HumanInTheLoop
  BY DEF WorkflowInv
<1> QED
  BY <1>1, AlwaysInv, PTL

\* No scaling exceeds the maximum, although the plan that is executed need
\* not be the one that was evaluated (mcp/tools_actions.py, _scale_guard).
THEOREM ReplicasAlwaysBounded == Spec => []ReplicasBounded
<1>1. WorkflowInv => ReplicasBounded
  BY DEF WorkflowInv
<1> QED
  BY <1>1, AlwaysInv, PTL

-----------------------------------------------------------------------------
(* The workflow implements the gate.                                       *)

\* Nothing is allowed, and nobody holds a consent, at first.
LEMMA InitGate == Init => Gate!GateInit
BY DEF Init, Gate!GateInit, Allowed, HeldConsent, Consenting, Approved, Idle

\* How a step of a thread changes the consents: that thread may obtain one,
\* if it carries an approval, or lose the one it had.
LEMMA ConsentStep ==
    ASSUME WorkflowInv, NEW t \in Threads, Step(t)
    PROVE  \/ HeldConsent' = HeldConsent
           \/ HeldConsent' = [HeldConsent EXCEPT ![t] = None] /\ ~Consenting(t)'
           \/ /\ HeldConsent[t] = None
              /\ Approved(t)
              /\ HeldConsent' = [HeldConsent EXCEPT ![t] = thread[t].incident]
<1>1. ThreadFrame(t)
  BY StepThread DEF WorkflowInv
<1>2. \A u \in Threads \ {t} : HeldConsent'[u] = HeldConsent[u]
  BY <1>1 DEF ThreadFrame, HeldConsent, Consenting, Approved
<1>3. CASE ~Consenting(t)'
  <2>1. HeldConsent'[t] = None
    BY <1>3 DEF HeldConsent
  <2> QED
    BY <1>2, <1>3, <2>1 DEF HeldConsent
<1>4. CASE Consenting(t)'
  <2>1. Approved(t) /\ HeldConsent'[t] = thread[t].incident
    BY <1>1, <1>4 DEF ThreadFrame, HeldConsent, Consenting, Approved
  <2>2. HeldConsent[t] \in {None, thread[t].incident}
    BY DEF HeldConsent
  <2>3. CASE HeldConsent[t] = None
    BY <1>2, <2>1, <2>3 DEF HeldConsent
  <2>4. CASE HeldConsent[t] = thread[t].incident
    BY <1>2, <2>1, <2>4 DEF HeldConsent
  <2> QED
    BY <2>2, <2>3, <2>4
<1> QED
  BY <1>3, <1>4

\* A decision that allows an action is an Allow of the gate.
LEMMA PolicyCheckIsAllow ==
    ASSUME WorkflowInv, NEW t \in Threads, PolicyCheck(t)
    PROVE  [Gate!GateNext]_(Gate!gateVars)
<1> DEFINE i == thread[t].incident
           policy == Evaluate(Subject[i].type, incident[i].recommended)
<1>0. At(t, "policy") /\ Goto(t, "dispatch") /\ effects' = effects
  <2>1. PICK j : j = thread[t].incident
    OBVIOUS
  <2>2. PICK p : p = Evaluate(Subject[j].type, incident[j].recommended)
    OBVIOUS
  <2>3. RecordsDecision(t, j, p)
    BY <2>1, <2>2, PolicyCheckWrites
  <2> QED
    BY <2>3 DEF RecordsDecision
<1>1. HeldConsent' = HeldConsent
  <2>1. thread' = [thread EXCEPT ![t].pc = "dispatch"] /\ thread[t].pc = "policy"
    BY <1>0 DEF Goto, At
  <2> QED
    BY <2>1 DEF HeldConsent, Consenting, Approved, WorkflowInv, TypeOK, ThreadsOK, ThreadRecords
<1>2. effects' = effects
  BY <1>0
<1>3. /\ i \in Incidents
      /\ IF policy.decision = "NO_ACTION" THEN UNCHANGED granted
         ELSE granted' = granted \union {[incident |-> i, policy |-> policy]}
  BY PolicyCheckFrame DEF WorkflowInv
<1>4. policy \in Policies
  <2>1. incident[i].recommended \in Plans
    BY <1>3 DEF WorkflowInv, TypeOK, IncidentRecords
  <2> QED
    BY <2>1, EvaluateType
<1> HIDE DEF policy
<1>5. CASE policy.decision = "NO_ACTION"
  BY <1>1, <1>2, <1>3, <1>5 DEF Gate!gateVars, Allowed
<1>6. CASE policy.decision # "NO_ACTION"
  <2>1. policy.plan.action \in ActionNames /\ policy.decision \in {"AUTO", "APPROVAL_REQUIRED"}
    BY <1>4, <1>6 DEF Policies, Plans, Decisions
  <2>2. Allowed' = Allowed \union {<<i, policy.plan.action, policy.decision>>}
    <3> DEFINE new == [incident |-> i, policy |-> policy]
    <3>1. granted' = granted \union {new}
      BY <1>3, <1>6
    <3>2. new.incident = i /\ new.policy = policy
      OBVIOUS
    <3> HIDE DEF new
    <3>3. Allowed' = {<<g.incident, g.policy.plan.action, g.policy.decision>> :
                       g \in granted \union {new}}
      BY <3>1 DEF Allowed
    <3>4. \A x : x \in Allowed' <=> x \in Allowed \/ x = <<i, policy.plan.action, policy.decision>>
      BY <3>2, <3>3 DEF Allowed
    <3> QED
      BY <3>4, Zenon
  <2>3. Gate!Allow(i, policy.plan.action, policy.decision)
    BY <1>1, <1>2, <2>1, <2>2 DEF Gate!Allow
  <2> QED
    BY <1>3, <2>1, <2>3 DEF Gate!GateNext
<1> QED
  BY <1>5, <1>6

\* A tool's effect is an Act of the gate.
LEMMA PerformIsAct ==
    ASSUME WorkflowInv, NEW t \in Threads, At(t, "tool"), Perform(t),
           thread[t].plan.action \notin ReadTools,
           UNCHANGED granted, HeldConsent' = [HeldConsent EXCEPT ![t] = None]
    PROVE  Gate!GateNext
<1> DEFINE i == thread[t].incident
           a == thread[t].plan.action
           policy == thread[t].policy
<1>1. /\ i \in Incidents /\ a \in ActionToolNames /\ policy.plan.action = a
      /\ [incident |-> i, policy |-> policy] \in granted
      /\ \/ policy.decision = "AUTO"
         \/ policy.decision = "APPROVAL_REQUIRED" /\ Approved(t)
  BY EffectIsGranted
<1>2. <<i, a, policy.decision>> \in Allowed
  BY <1>1 DEF Allowed
<1>3. Approved(t) => HeldConsent[t] = i
  BY DEF HeldConsent, Consenting, At
<1>4. effects' = [effects EXCEPT ![i] = Append(@, a)] /\ Allowed' = Allowed
  BY DEF Perform, Allowed
<1> HIDE DEF a
<1>5. Gate!Act(t, i, a)
  BY <1>1, <1>2, <1>3, <1>4 DEF Gate!Act
<1> QED
  BY <1>1, <1>5 DEF Gate!GateNext, ActionNames

\* Obtaining a consent is a Consent of the gate, losing it a Lapse.
LEMMA ConsentIsConsent ==
    ASSUME WorkflowInv, NEW t \in Threads, Step(t), UNCHANGED <<granted, effects>>
    PROVE  [Gate!GateNext]_(Gate!gateVars)
<1>1. Allowed' = Allowed /\ effects' = effects
  BY DEF Allowed
<1>2. CASE HeldConsent' = HeldConsent
  BY <1>1, <1>2 DEF Gate!gateVars
<1>3. CASE HeldConsent' = [HeldConsent EXCEPT ![t] = None]
  <2>1. Gate!Lapse(t)
    BY <1>1, <1>3 DEF Gate!Lapse
  <2> QED
    BY <2>1 DEF Gate!GateNext
<1>4. CASE /\ HeldConsent[t] = None /\ Approved(t)
           /\ HeldConsent' = [HeldConsent EXCEPT ![t] = thread[t].incident]
  <2> DEFINE i == thread[t].incident
  <2>1. PICK g \in granted : g.incident = i /\ g.policy.decision = "APPROVAL_REQUIRED"
    BY <1>4 DEF WorkflowInv, ProposalIsGranted, Proposed, Approved
  <2>2. g.incident \in Incidents /\ g.policy.plan.action \in ActionNames
    BY <2>1 DEF WorkflowInv, TypeOK, Grants, Policies, Plans
  <2>3. <<i, g.policy.plan.action, "APPROVAL_REQUIRED">> \in Allowed
    BY <2>1 DEF Allowed
  <2>4. Gate!Consent(t, i)
    BY <1>1, <1>4, <2>2, <2>3 DEF Gate!Consent
  <2> QED
    BY <2>1, <2>2, <2>4 DEF Gate!GateNext
<1> QED
  BY <1>2, <1>3, <1>4, ConsentStep

\* Every step of the workflow is a step of the gate, or changes nothing in it.
LEMMA NextGate == WorkflowInv /\ [Next]_vars => [Gate!GateNext]_(Gate!gateVars)
<1> SUFFICES ASSUME WorkflowInv, [Next]_vars PROVE [Gate!GateNext]_(Gate!gateVars)
  OBVIOUS
<1>1. CASE UNCHANGED vars
  BY <1>1 DEF vars, history, Gate!gateVars, Allowed, HeldConsent, Consenting, Approved
<1>2. ASSUME NEW t \in Threads, Request(t) PROVE UNCHANGED (Gate!gateVars)
  <2>1. UNCHANGED granted /\ UNCHANGED effects
    BY <1>2, RequestFrame, RequestsDoNothing DEF WorkflowInv, RecordFrame
  <2>2. PICK i \in Incidents, kind \in RequestKinds, pc \in {"classify", "pending"} :
            Accept(t, kind, i, pc)
    BY <1>2, KindLiterals DEF Request, CreateIncident, RerunIncident, RequestDecision
  <2>3. /\ thread' = [thread EXCEPT ![t] = [Idle EXCEPT !.pc = pc, !.kind = kind, !.incident = i]]
        /\ thread[t].pc = "idle"
    BY <2>2 DEF Accept, At
  <2>4. HeldConsent' = HeldConsent
    BY <2>3 DEF HeldConsent, Consenting, Approved, Idle, WorkflowInv, TypeOK, ThreadsOK
  <2> QED
    BY <2>1, <2>4 DEF Gate!gateVars, Allowed
<1>3. ASSUME NEW t \in Threads, Step(t) PROVE [Gate!GateNext]_(Gate!gateVars)
  <2>1. CASE PolicyCheck(t)
    BY <2>1, PolicyCheckIsAllow
  <2>2. CASE ~PolicyCheck(t) /\ UNCHANGED effects
    BY <1>3, <2>2, StepFrame, ConsentIsConsent DEF RecordFrame, WorkflowInv
  <2>3. CASE ~(UNCHANGED effects)
    <3>1. /\ At(t, "tool") /\ Perform(t) /\ UNCHANGED granted
          /\ \E outcome : ToolReturns(t, outcome)
      BY <1>3, <2>3, OnlyToolsPerform
    <3>2. thread[t].plan.action \notin ReadTools
      BY <2>3, <3>1 DEF Perform
    <3>3. thread'[t].pc = "audit"
      BY <3>1 DEF ToolReturns, WorkflowInv, TypeOK, ThreadsOK, ThreadRecords
    <3>4. HeldConsent' = [HeldConsent EXCEPT ![t] = None]
      <4>1. ~Consenting(t)'
        BY <3>3 DEF Consenting
      <4>2. \A u \in Threads \ {t} : HeldConsent'[u] = HeldConsent[u]
        BY <1>3, StepThread DEF WorkflowInv, ThreadFrame, HeldConsent, Consenting, Approved
      <4> QED
        BY <4>1, <4>2 DEF HeldConsent
    <3> QED
      BY <3>1, <3>2, <3>4, PerformIsAct
  <2> QED
    BY <2>1, <2>2, <2>3
<1> QED
  BY <1>1, <1>2, <1>3 DEF Next

\* The workflow, with any number of requests at work on an incident,
\* implements the gate: only allowed actions, and no more of them than there
\* were human consents where the policy asks for one.
THEOREM WorkflowImplementsGate == Spec => ImplementsGate
BY InitGate, NextGate, AlwaysInv, PTL DEF Spec, ImplementsGate, Gate!GateSpec

-----------------------------------------------------------------------------
(* A step is a step of one thread on one incident.                         *)

\* A step of thread t touches no other thread and no incident but its own.
Footprint(t) ==
    LET i == thread[t].incident IN
    /\ i \in Incidents
    /\ \A j \in Incidents \ {i} :
          incident'[j] = incident[j] /\ effects'[j] = effects[j] /\ grants'[j] = grants[j]
    /\ \A u \in Threads \ {t} : thread'[u] = thread[u]
    /\ thread'[t].incident \in {i, None}

\* Every step of a thread leaves the footprint.
LEMMA StepFootprint ==
    ASSUME TypeOK, NEW t \in Threads, Step(t)
    PROVE  Footprint(t)
<1> DEFINE i == thread[t].incident
           Others == \A j \in Incidents \ {i} :
              incident'[j] = incident[j] /\ effects'[j] = effects[j] /\ grants'[j] = grants[j]
           Mine == i \in Incidents /\ thread'[t].incident \in {i, None}
<1>0. \A u \in Threads \ {t} : thread'[u] = thread[u]
  BY StepThread DEF ThreadFrame
<1>1. ASSUME Classify(t) PROVE Others /\ Mine
  <2>1. Mine
    BY <1>1, BusyThread, CounterLiterals
       DEF Classify, Goto, Return, ToolReturns, Idle, TypeOK, ThreadsOK, ThreadRecords
  <2>2. Others
    BY <1>1, <2>1 DEF Classify, Perform, history, TypeOK
  <2> QED
    BY <2>1, <2>2
<1>2. ASSUME Investigate(t) PROVE Others /\ Mine
  <2>1. Mine
    BY <1>2, BusyThread, CounterLiterals
       DEF Investigate, Goto, Return, ToolReturns, Idle, TypeOK, ThreadsOK, ThreadRecords
  <2>2. Others
    BY <1>2, <2>1 DEF Investigate, Perform, history, TypeOK
  <2> QED
    BY <2>1, <2>2
<1>3. ASSUME InvestigationRaises(t) PROVE Others /\ Mine
  <2>1. Mine
    BY <1>3, BusyThread, CounterLiterals
       DEF InvestigationRaises, Goto, Return, ToolReturns, Idle, TypeOK, ThreadsOK, ThreadRecords
  <2>2. Others
    BY <1>3, <2>1 DEF InvestigationRaises, Perform, history, TypeOK
  <2> QED
    BY <2>1, <2>2
<1>4. ASSUME Diagnose(t) PROVE Others /\ Mine
  <2>1. Mine
    BY <1>4, BusyThread, CounterLiterals
       DEF Diagnose, Goto, Return, ToolReturns, Idle, TypeOK, ThreadsOK, ThreadRecords
  <2>2. Others
    BY <1>4, <2>1 DEF Diagnose, Perform, history, TypeOK
  <2> QED
    BY <2>1, <2>2
<1>5. ASSUME PlanRemediation(t) PROVE Others /\ Mine
  <2>1. Mine
    BY <1>5, BusyThread, CounterLiterals
       DEF PlanRemediation, Goto, Return, ToolReturns, Idle, TypeOK, ThreadsOK, ThreadRecords
  <2>2. Others
    BY <1>5, <2>1 DEF PlanRemediation, Perform, history, TypeOK
  <2> QED
    BY <2>1, <2>2
<1>6. ASSUME PolicyCheck(t) PROVE Others /\ Mine
  <2>1. PICK k : k = i
    OBVIOUS
  <2>2. PICK policy : policy = Evaluate(Subject[k].type, incident[k].recommended)
    OBVIOUS
  <2>0. RecordsDecision(t, k, policy)
    BY <1>6, <2>1, <2>2, PolicyCheckWrites
  <2>3. /\ At(t, "policy") /\ Goto(t, "dispatch") /\ effects' = effects
        /\ \/ grants' = grants
           \/ grants' = [grants EXCEPT ![k] = @ + 1]
    BY <2>0 DEF RecordsDecision
  <2>4. PICK a, s :
            incident' = [incident EXCEPT ![k].policy = policy, ![k].approval = a, ![k].status = s]
    BY <2>0 DEF RecordsDecision
  <2>5. Mine
    BY <2>3, BusyThread, CounterLiterals DEF Goto, TypeOK, ThreadsOK, ThreadRecords
  <2>6. \A j \in Incidents \ {k} :
           incident'[j] = incident[j] /\ effects'[j] = effects[j] /\ grants'[j] = grants[j]
    BY <2>3, <2>4 DEF TypeOK
  <2> QED
    BY <2>1, <2>5, <2>6
<1>7. ASSUME Dispatch(t) PROVE Others /\ Mine
  <2>1. Mine
    BY <1>7, BusyThread, CounterLiterals
       DEF Dispatch, Goto, Return, ToolReturns, Idle, TypeOK, ThreadsOK, ThreadRecords
  <2>2. Others
    BY <1>7, <2>1 DEF Dispatch, Perform, history, TypeOK
  <2> QED
    BY <2>1, <2>2
<1>8. ASSUME CheckPending(t) PROVE Others /\ Mine
  <2>1. Mine
    BY <1>8, BusyThread, CounterLiterals
       DEF CheckPending, Goto, Return, ToolReturns, Idle, TypeOK, ThreadsOK, ThreadRecords
  <2>2. Others
    BY <1>8, <2>1 DEF CheckPending, Perform, history, TypeOK
  <2> QED
    BY <2>1, <2>2
<1>9. ASSUME Approve(t) PROVE Others /\ Mine
  <2>1. Mine
    BY <1>9, BusyThread, CounterLiterals
       DEF Approve, Goto, Return, ToolReturns, Idle, TypeOK, ThreadsOK, ThreadRecords
  <2>2. Others
    BY <1>9, <2>1 DEF Approve, Perform, history, TypeOK
  <2> QED
    BY <2>1, <2>2
<1>10. ASSUME Reject(t) PROVE Others /\ Mine
  <2>1. Mine
    BY <1>10, BusyThread, CounterLiterals
       DEF Reject, Goto, Return, ToolReturns, Idle, TypeOK, ThreadsOK, ThreadRecords
  <2>2. Others
    BY <1>10, <2>1 DEF Reject, Perform, history, TypeOK
  <2> QED
    BY <2>1, <2>2
<1>11. ASSUME BeginExecution(t) PROVE Others /\ Mine
  <2>1. Mine
    BY <1>11, BusyThread, CounterLiterals
       DEF BeginExecution, Goto, Return, ToolReturns, Idle, TypeOK, ThreadsOK, ThreadRecords
  <2>2. Others
    BY <1>11, <2>1 DEF BeginExecution, Perform, history, TypeOK
  <2> QED
    BY <2>1, <2>2
<1>12. ASSUME RefuseMismatch(t) PROVE Others /\ Mine
  <2>1. Mine
    BY <1>12, BusyThread, CounterLiterals
       DEF RefuseMismatch, Goto, Return, ToolReturns, Idle, TypeOK, ThreadsOK, ThreadRecords
  <2>2. Others
    BY <1>12, <2>1 DEF RefuseMismatch, Perform, history, TypeOK
  <2> QED
    BY <2>1, <2>2
<1>13. ASSUME RecordNoop(t) PROVE Others /\ Mine
  <2>1. Mine
    BY <1>13, BusyThread, CounterLiterals, SMTT(60)
       DEF RecordNoop, Goto, Return, ToolReturns, Idle, TypeOK, ThreadsOK, ThreadRecords
  <2>2. Others
    BY <1>13, <2>1 DEF RecordNoop, Perform, history, TypeOK
  <2> QED
    BY <2>1, <2>2
<1>14. ASSUME RefuseTool(t) PROVE Others /\ Mine
  <2>1. Mine
    BY <1>14, BusyThread, CounterLiterals
       DEF RefuseTool, Goto, Return, ToolReturns, Idle, TypeOK, ThreadsOK, ThreadRecords
  <2>2. Others
    BY <1>14, <2>1 DEF RefuseTool, Perform, history, TypeOK
  <2> QED
    BY <2>1, <2>2
<1>15. ASSUME AuthorizeTool(t) PROVE Others /\ Mine
  <2>1. Mine
    BY <1>15, BusyThread, CounterLiterals
       DEF AuthorizeTool, Goto, Return, ToolReturns, Idle, TypeOK, ThreadsOK, ThreadRecords
  <2>2. Others
    BY <1>15, <2>1 DEF AuthorizeTool, Perform, history, TypeOK
  <2> QED
    BY <2>1, <2>2
<1>16. ASSUME ToolSucceeds(t) PROVE Others /\ Mine
  <2>1. Mine
    BY <1>16, BusyThread, CounterLiterals
       DEF ToolSucceeds, Goto, Return, ToolReturns, Idle, TypeOK, ThreadsOK, ThreadRecords
  <2>2. Others
    BY <1>16, <2>1 DEF ToolSucceeds, Perform, history, TypeOK
  <2> QED
    BY <2>1, <2>2
<1>17. ASSUME ToolFails(t) PROVE Others /\ Mine
  <2>1. Mine
    BY <1>17, BusyThread, CounterLiterals
       DEF ToolFails, Goto, Return, ToolReturns, Idle, TypeOK, ThreadsOK, ThreadRecords
  <2>2. Others
    BY <1>17, <2>1 DEF ToolFails, Perform, history, TypeOK
  <2> QED
    BY <2>1, <2>2
<1>18. ASSUME ToolFailsLate(t) PROVE Others /\ Mine
  <2>1. Mine
    BY <1>18, BusyThread, CounterLiterals
       DEF ToolFailsLate, Goto, Return, ToolReturns, Idle, TypeOK, ThreadsOK, ThreadRecords
  <2>2. Others
    BY <1>18, <2>1 DEF ToolFailsLate, Perform, history, TypeOK
  <2> QED
    BY <2>1, <2>2
<1>19. ASSUME Audit(t) PROVE Others /\ Mine
  <2>1. Mine
    BY <1>19, BusyThread, CounterLiterals
       DEF Audit, Goto, Return, ToolReturns, Idle, TypeOK, ThreadsOK, ThreadRecords
  <2>2. Others
    BY <1>19, <2>1 DEF Audit, Perform, history, TypeOK
  <2> QED
    BY <2>1, <2>2
<1>20. ASSUME CheckPostCondition(t) PROVE Others /\ Mine
  <2>1. Mine
    BY <1>20, BusyThread, CounterLiterals
       DEF CheckPostCondition, Goto, Return, ToolReturns, Idle, TypeOK, ThreadsOK, ThreadRecords
  <2>2. Others
    BY <1>20, <2>1 DEF CheckPostCondition, Perform, history, TypeOK
  <2> QED
    BY <2>1, <2>2
<1>21. ASSUME Verify(t) PROVE Others /\ Mine
  <2>1. Mine
    BY <1>21, BusyThread, CounterLiterals
       DEF Verify, Goto, Return, ToolReturns, Idle, TypeOK, ThreadsOK, ThreadRecords
  <2>2. Others
    BY <1>21, <2>1 DEF Verify, Perform, history, TypeOK
  <2> QED
    BY <2>1, <2>2
<1> QED
  BY <1>0, <1>1, <1>2, <1>3, <1>4, <1>5, <1>6, <1>7, <1>8, <1>9, <1>10, <1>11, <1>12, <1>13, <1>14, <1>15, <1>16, <1>17, <1>18, <1>19, <1>20, <1>21 DEF Step, Footprint

-----------------------------------------------------------------------------
(* Nobody abandons a record.                                               *)

Executing == {"select", "tool", "audit"}
Investigating == {"investigate", "diagnose", "plan", "policy", "dispatch", "execute"}
Begun == {"select", "tool", "audit", "check", "verify"}
Deciding == {"dispatch", "execute"}

\* A proposal that has been decided on or replaced, and an execution that has
\* not failed (yet): how the status alone does not say where a record stands.
Overtaken(record) == record.status = "AWAITING_APPROVAL" /\ record.approval # "PENDING"
Unfinished(record) == record.status = "EXECUTING" /\ record.execution # "FAILED"

\* Who takes an incident away from rest stays with it, and takes it back to
\* rest before leaving it.
RecordMoves(t) ==
    LET i == thread[t].incident
        old == incident[i]
        new == incident'[i]
        from == thread[t].pc
        to == thread'[t].pc
    IN
    /\ new.execution = "EXECUTING" =>
          to \in Executing \/ (old.execution = "EXECUTING" /\ from \notin Executing)
    /\ new.status = "DETECTED" => old.status = "DETECTED" /\ from # "classify"
    /\ new.status = "APPROVED" =>
          to = "execute" \/ (old.status = "APPROVED" /\ from # "execute")
    /\ new.status = "INVESTIGATING" /\ ~CorrelationRaises(i) =>
          to \in Investigating \/ (old.status = "INVESTIGATING" /\ from \notin Investigating)
    /\ Overtaken(new) => to \in Deciding \/ (Overtaken(old) /\ from \notin Deciding)
    /\ Unfinished(new) => to \in Begun \/ (Unfinished(old) /\ from \notin Begun)
    /\ new.status = "REMEDIATED" =>
          old.status = "REMEDIATED" \/ from = "verify" \/ (from = "select" /\ to = "verify")
    /\ new.execution = "PENDING" => old.execution = "PENDING"
    /\ effects'[i] = effects[i] \/ from = "tool"
    /\ to \in Begun => new.execution # "PENDING" \/ from \in Begun
    /\ to = "audit" => thread'[t].outcome \in {"SUCCESS", "FAILED"}

\* So does every step of a thread.
LEMMA StepMoves ==
    ASSUME TypeOK, BegunBeforeEffect, NEW t \in Threads, Step(t)
    PROVE  RecordMoves(t)
<1> DEFINE i == thread[t].incident
           old == incident[i]
           new == incident'[i]
           to == thread'[t].pc
<1>0. i \in Incidents
  BY StepFootprint DEF Footprint
<1>1. CASE Classify(t)
  <2>1. /\ thread[t].pc = "classify"
        /\ effects' = effects
        /\ new.execution = old.execution
        /\ new.status = "INVESTIGATING"
        /\ to = "investigate"
    BY <1>0, <1>1 DEF Classify, history, At, Goto, Return, ToolReturns, Idle, TypeOK, IncidentRecords,
           ThreadsOK, ThreadRecords
  <2> QED
    BY <2>1 DEF RecordMoves, Overtaken, Unfinished, Executing, Investigating, Begun, Deciding
<1>2. CASE Investigate(t)
  <2>1. /\ thread[t].pc = "investigate"
        /\ effects' = effects
        /\ new = old
        /\ to = "diagnose"
    BY <1>0, <1>2 DEF Investigate, history, At, Goto, Return, ToolReturns, Idle, TypeOK, IncidentRecords,
           ThreadsOK, ThreadRecords
  <2> QED
    BY <2>1 DEF RecordMoves, Overtaken, Unfinished, Executing, Investigating, Begun, Deciding
<1>3. CASE InvestigationRaises(t)
  <2>1. /\ thread[t].pc = "investigate"
        /\ effects' = effects
        /\ new.execution = old.execution
        /\ new.approval = old.approval
        /\ new.status = "FAILED" \/ new.status = old.status
        /\ CorrelationRaises(i)
        /\ to = "idle"
    BY <1>0, <1>3 DEF InvestigationRaises, CorrelationRaises, history, At, Goto, Return, ToolReturns, Idle, TypeOK, IncidentRecords,
           ThreadsOK, ThreadRecords
  <2> QED
    BY <2>1 DEF RecordMoves, Overtaken, Unfinished, Executing, Investigating, Begun, Deciding
<1>4. CASE Diagnose(t)
  <2>1. /\ thread[t].pc = "diagnose"
        /\ effects' = effects
        /\ new.execution = old.execution
        /\ new.approval = old.approval
        /\ new.status = old.status
        /\ to = "plan"
    <3>1. PICK a : incident' = [incident EXCEPT ![i].advice = a]
      BY <1>4 DEF Diagnose
    <3>2. thread'[t].pc = "plan" /\ thread[t].pc = "diagnose" /\ effects' = effects
      BY <1>4 DEF Diagnose, history, At, Goto, Return, ToolReturns, Idle, TypeOK, ThreadsOK, ThreadRecords
    <3> QED
      BY <1>0, <3>1, <3>2 DEF TypeOK, IncidentRecords
  <2> QED
    BY <2>1 DEF RecordMoves, Overtaken, Unfinished, Executing, Investigating, Begun, Deciding
<1>5. CASE PlanRemediation(t)
  <2>1. /\ thread[t].pc = "plan"
        /\ effects' = effects
        /\ new.execution = old.execution
        /\ new.approval = old.approval
        /\ new.status = old.status
        /\ to = "policy"
    <3>1. PICK p : incident' = [incident EXCEPT ![i].recommended = p]
      BY <1>5 DEF PlanRemediation
    <3>2. thread'[t].pc = "policy" /\ thread[t].pc = "plan" /\ effects' = effects
      BY <1>5 DEF PlanRemediation, history, At, Goto, Return, ToolReturns, Idle, TypeOK, ThreadsOK, ThreadRecords
    <3> QED
      BY <1>0, <3>1, <3>2 DEF TypeOK, IncidentRecords
  <2> QED
    BY <2>1 DEF RecordMoves, Overtaken, Unfinished, Executing, Investigating, Begun, Deciding
<1>6. CASE PolicyCheck(t)
  <2>1. /\ thread[t].pc = "policy"
        /\ effects' = effects
        /\ new.execution = old.execution
        /\ new.status \in {"AWAITING_APPROVAL", "NO_ACTION", old.status}
        /\ to = "dispatch"
    <3>1. PICK k : k = i
      OBVIOUS
    <3>2. PICK p : p = Evaluate(Subject[k].type, incident[k].recommended)
      OBVIOUS
    <3>0. RecordsDecision(t, k, p)
      BY <1>6, <3>1, <3>2, PolicyCheckWrites
    <3>3. At(t, "policy") /\ Goto(t, "dispatch") /\ effects' = effects
      BY <3>0 DEF RecordsDecision
    <3>4. PICK a \in {"NOT_REQUIRED", "PENDING", incident[k].approval},
               s \in {"AWAITING_APPROVAL", "NO_ACTION", incident[k].status} :
              incident' = [incident EXCEPT ![k].policy = p, ![k].approval = a, ![k].status = s]
      BY <3>0 DEF RecordsDecision
    <3>5. incident'[k].execution = incident[k].execution /\ incident'[k].status = s
      BY <1>0, <3>1, <3>4 DEF TypeOK, IncidentRecords
    <3>6. thread'[t].pc = "dispatch" /\ thread[t].pc = "policy"
      BY <3>3 DEF At, Goto, TypeOK, ThreadsOK, ThreadRecords
    <3> QED
      BY <3>1, <3>3, <3>4, <3>5, <3>6
  <2> QED
    BY <2>1 DEF RecordMoves, Overtaken, Unfinished, Executing, Investigating, Begun, Deciding
<1>7. CASE Dispatch(t)
  <2>1. /\ thread[t].pc = "dispatch"
        /\ effects' = effects
        /\ new.execution = old.execution
        /\ \/ to = "execute" /\ new.status = old.status
           \/ to = "idle" /\ new.status = "AWAITING_APPROVAL" /\ new.approval = "PENDING"
           \/ to = "idle" /\ new.status = "NO_ACTION"
    <3> DEFINE d == old.policy.decision
    <3>1. thread[t].pc = "dispatch" /\ effects' = effects
      BY <1>7 DEF Dispatch, history, At
    <3>2. CASE d = "AUTO"
      BY <1>0, <1>7, <3>1, <3>2 DEF Dispatch, Goto, Return, ToolReturns, Idle, TypeOK, ThreadsOK, ThreadRecords
    <3>3. CASE d = "APPROVAL_REQUIRED"
      <4>1. /\ incident' = [incident EXCEPT ![i].approval = "PENDING",
                                            ![i].status = "AWAITING_APPROVAL"]
            /\ Return(t)
        BY <1>7, <3>3 DEF Dispatch
      <4> QED
        BY <1>0, <3>1, <4>1 DEF Return, Idle, TypeOK, ThreadsOK, IncidentRecords
    <3>4. CASE d # "AUTO" /\ d # "APPROVAL_REQUIRED"
      <4>1. incident' = [incident EXCEPT ![i].status = "NO_ACTION"] /\ Return(t)
        BY <1>7, <3>4 DEF Dispatch
      <4> QED
        BY <1>0, <3>1, <4>1 DEF Return, Idle, TypeOK, ThreadsOK, IncidentRecords
    <3> QED
      BY <3>2, <3>3, <3>4
  <2> QED
    BY <2>1 DEF RecordMoves, Overtaken, Unfinished, Executing, Investigating, Begun, Deciding
<1>8. CASE CheckPending(t)
  <2>1. /\ thread[t].pc = "pending"
        /\ effects' = effects
        /\ new = old
        /\ to \in {"decide", "idle"}
    <3>1. /\ thread[t].pc = "pending" /\ UNCHANGED <<incident, effects>>
          /\ Goto(t, "decide") \/ Return(t)
      BY <1>8 DEF CheckPending, history, At
    <3> QED
      BY <3>1 DEF Goto, Return, ToolReturns, Idle, TypeOK, ThreadsOK, ThreadRecords
  <2> QED
    BY <2>1 DEF RecordMoves, Overtaken, Unfinished, Executing, Investigating, Begun, Deciding
<1>9. CASE Approve(t)
  <2>1. /\ thread[t].pc = "decide"
        /\ effects' = effects
        /\ new.execution = old.execution
        /\ new.status = "APPROVED"
        /\ to = "execute"
    BY <1>0, <1>9 DEF Approve, history, At, Goto, Return, ToolReturns, Idle, TypeOK, IncidentRecords,
           ThreadsOK, ThreadRecords
  <2> QED
    BY <2>1 DEF RecordMoves, Overtaken, Unfinished, Executing, Investigating, Begun, Deciding
<1>10. CASE Reject(t)
  <2>1. /\ thread[t].pc = "decide"
        /\ effects' = effects
        /\ new.execution = old.execution
        /\ new.status = "REJECTED"
        /\ to = "idle"
    BY <1>0, <1>10 DEF Reject, history, At, Goto, Return, ToolReturns, Idle, TypeOK, IncidentRecords,
           ThreadsOK, ThreadRecords
  <2> QED
    BY <2>1 DEF RecordMoves, Overtaken, Unfinished, Executing, Investigating, Begun, Deciding
<1>11. CASE BeginExecution(t)
  <2>1. /\ thread[t].pc = "execute"
        /\ effects' = effects
        /\ new.execution = "EXECUTING"
        /\ new.status = "EXECUTING"
        /\ to = "select"
    BY <1>0, <1>11 DEF BeginExecution, history, At, Goto, Return, ToolReturns, Idle, TypeOK, IncidentRecords,
           ThreadsOK, ThreadRecords
  <2> QED
    BY <2>1 DEF RecordMoves, Overtaken, Unfinished, Executing, Investigating, Begun, Deciding
<1>12. CASE RefuseMismatch(t)
  <2>1. /\ thread[t].pc = "select"
        /\ effects' = effects
        /\ new.execution = "FAILED"
        /\ new.approval = old.approval
        /\ new.status = old.status
        /\ to = "idle"
    BY <1>0, <1>12 DEF RefuseMismatch, history, At, Goto, Return, ToolReturns, Idle, TypeOK, IncidentRecords,
           ThreadsOK, ThreadRecords
  <2> QED
    BY <2>1 DEF RecordMoves, Overtaken, Unfinished, Executing, Investigating, Begun, Deciding
<1>13. CASE RecordNoop(t)
  <2>1. /\ thread[t].pc = "select"
        /\ effects' = effects
        /\ new.execution = "SUCCESS"
        /\ new.status = "REMEDIATED"
        /\ to = "verify"
    BY <1>0, <1>13 DEF RecordNoop, history, At, Goto, Return, ToolReturns, Idle, TypeOK, IncidentRecords,
           ThreadsOK, ThreadRecords
  <2> QED
    BY <2>1 DEF RecordMoves, Overtaken, Unfinished, Executing, Investigating, Begun, Deciding
<1>14. CASE RefuseTool(t)
  <2>1. /\ thread[t].pc = "select"
        /\ effects' = effects
        /\ new.execution = "FAILED"
        /\ new.approval = old.approval
        /\ new.status = old.status
        /\ to = "idle"
    BY <1>0, <1>14 DEF RefuseTool, history, At, Goto, Return, ToolReturns, Idle, TypeOK, IncidentRecords,
           ThreadsOK, ThreadRecords
  <2> QED
    BY <2>1 DEF RecordMoves, Overtaken, Unfinished, Executing, Investigating, Begun, Deciding
<1>15. CASE AuthorizeTool(t)
  <2>1. /\ thread[t].pc = "select"
        /\ effects' = effects
        /\ new = old
        /\ to = "tool"
    BY <1>0, <1>15 DEF AuthorizeTool, history, At, Goto, Return, ToolReturns, Idle, TypeOK, IncidentRecords,
           ThreadsOK, ThreadRecords
  <2> QED
    BY <2>1 DEF RecordMoves, Overtaken, Unfinished, Executing, Investigating, Begun, Deciding
<1>16. CASE ToolSucceeds(t)
  <2>1. /\ thread[t].pc = "tool"
        /\ new = old
        /\ to = "audit"
        /\ thread'[t].outcome = "SUCCESS"
    BY <1>0, <1>16 DEF ToolSucceeds, history, At, Goto, Return, ToolReturns, Idle, TypeOK, IncidentRecords,
           ThreadsOK, ThreadRecords
  <2> QED
    BY <2>1 DEF RecordMoves, Overtaken, Unfinished, Executing, Investigating, Begun, Deciding
<1>17. CASE ToolFails(t)
  <2>1. /\ thread[t].pc = "tool"
        /\ new = old
        /\ to = "audit"
        /\ thread'[t].outcome = "FAILED"
    BY <1>0, <1>17 DEF ToolFails, history, At, Goto, Return, ToolReturns, Idle, TypeOK, IncidentRecords,
           ThreadsOK, ThreadRecords
  <2> QED
    BY <2>1 DEF RecordMoves, Overtaken, Unfinished, Executing, Investigating, Begun, Deciding
<1>18. CASE ToolFailsLate(t)
  <2>1. /\ thread[t].pc = "tool"
        /\ new = old
        /\ to = "audit"
        /\ thread'[t].outcome = "FAILED"
    BY <1>0, <1>18 DEF ToolFailsLate, history, At, Goto, Return, ToolReturns, Idle, TypeOK, IncidentRecords,
           ThreadsOK, ThreadRecords
  <2> QED
    BY <2>1 DEF RecordMoves, Overtaken, Unfinished, Executing, Investigating, Begun, Deciding
<1>19. CASE Audit(t)
  <2>1. /\ thread[t].pc = "audit"
        /\ effects' = effects
        /\ new.execution = thread[t].outcome
        /\ new.approval = old.approval
        /\ new.status = old.status
        /\ to = "check" \/ (to = "idle" /\ thread[t].outcome = "FAILED")
        /\ thread[t].outcome \in {"SUCCESS", "FAILED"}
    <3>1. PICK o \in {"SUCCESS", "FAILED"} : thread[t].outcome = o
      BY <1>19 DEF Audit, BegunBeforeEffect
    <3>2. /\ thread[t].pc = "audit" /\ effects' = effects
          /\ incident' = [incident EXCEPT ![i].execution = o, ![i].verdict = "NONE"]
          /\ Goto(t, "check") \/ (Return(t) /\ o = "FAILED")
      BY <1>19, <3>1 DEF Audit, history, At
    <3>3. thread'[t].pc = "check" \/ (thread'[t].pc = "idle" /\ o = "FAILED")
      BY <3>2 DEF Goto, Return, ToolReturns, Idle, TypeOK, ThreadsOK, ThreadRecords
    <3> QED
      BY <1>0, <3>1, <3>2, <3>3 DEF TypeOK, IncidentRecords
  <2> QED
    BY <2>1 DEF RecordMoves, Overtaken, Unfinished, Executing, Investigating, Begun, Deciding
<1>20. CASE CheckPostCondition(t)
  <2>1. /\ thread[t].pc = "check"
        /\ effects' = effects
        /\ new.execution = "SUCCESS"
        /\ new.approval = old.approval
        /\ new.status = old.status
        /\ to = "verify"
    <3>1. PICK v : incident' = [incident EXCEPT ![i].execution = "SUCCESS", ![i].verdict = v]
      BY <1>20 DEF CheckPostCondition
    <3>2. thread'[t].pc = "verify" /\ thread[t].pc = "check" /\ effects' = effects
      BY <1>20 DEF CheckPostCondition, history, At, Goto, Return, ToolReturns, Idle, TypeOK, ThreadsOK, ThreadRecords
    <3> QED
      BY <1>0, <3>1, <3>2 DEF TypeOK, IncidentRecords
  <2> QED
    BY <2>1 DEF RecordMoves, Overtaken, Unfinished, Executing, Investigating, Begun, Deciding
<1>21. CASE Verify(t)
  <2>1. /\ thread[t].pc = "verify"
        /\ effects' = effects
        /\ new.execution = old.execution
        /\ new.status \in {"REMEDIATED", "VERIFICATION_FAILED"}
        /\ to = "idle"
    BY <1>0, <1>21 DEF Verify, history, At, Goto, Return, ToolReturns, Idle, TypeOK, IncidentRecords,
           ThreadsOK, ThreadRecords
  <2> QED
    BY <2>1 DEF RecordMoves, Overtaken, Unfinished, Executing, Investigating, Begun, Deciding
<1> QED
  BY <1>1, <1>2, <1>3, <1>4, <1>5, <1>6, <1>7, <1>8, <1>9, <1>10, <1>11, <1>12, <1>13, <1>14, <1>15, <1>16, <1>17, <1>18, <1>19, <1>20, <1>21 DEF Step

\* A thread that is not concerned by a step stays at work where it is.
LEMMA OthersAtWork ==
    ASSUME NEW t \in Threads, \A u \in Threads \ {t} : thread'[u] = thread[u],
           NEW j, NEW pcs, AtWork(j, pcs),
           thread[t].incident # j \/ thread[t].pc \notin pcs
    PROVE  AtWork(j, pcs)'
<1>1. PICK u \in Threads : thread[u].incident = j /\ thread[u].pc \in pcs
  BY DEF AtWork
<1>2. u # t
  BY <1>1
<1> QED
  BY <1>1, <1>2 DEF AtWork

\* A step of a thread leaves its record to somebody.
LEMMA StepKeepsCarriedOn ==
    ASSUME TypeOK, TypeOK', CarriedOn, BegunBeforeEffect, NEW t \in Threads, Step(t)
    PROVE  CarriedOn'
<1> DEFINE i == thread[t].incident
           to == thread'[t].pc
<1>1. Footprint(t) /\ RecordMoves(t)
  BY StepFootprint, StepMoves
<1>2. /\ i \in Incidents /\ \A u \in Threads \ {t} : thread'[u] = thread[u]
      /\ \A j \in Incidents \ {i} : incident'[j] = incident[j]
  BY <1>1 DEF Footprint
<1>3. ASSUME NEW k \in Incidents, k = i, NEW pcs, to \in pcs, "idle" \notin pcs
      PROVE  AtWork(k, pcs)'
  <2>1. thread'[t].incident = k
    BY <1>1, <1>3 DEF Footprint, TypeOK, ThreadsOK, At
  <2> QED
    BY <1>3, <2>1 DEF AtWork
<1>4. ASSUME NEW j \in Incidents
      PROVE  /\ (incident[j].execution = "EXECUTING" => AtWork(j, Executing))'
             /\ (incident[j].status = "DETECTED" => AtWork(j, {"classify"}))'
             /\ (incident[j].status = "APPROVED" => AtWork(j, {"execute"}))'
             /\ (incident[j].status = "INVESTIGATING" /\ ~CorrelationRaises(j) =>
                   AtWork(j, Investigating))'
             /\ (Overtaken(incident[j]) => AtWork(j, Deciding))'
             /\ (Unfinished(incident[j]) => AtWork(j, Begun))'
  <2>0. /\ incident[j].execution = "EXECUTING" => AtWork(j, Executing)
        /\ incident[j].status = "DETECTED" => AtWork(j, {"classify"})
        /\ incident[j].status = "APPROVED" => AtWork(j, {"execute"})
        /\ incident[j].status = "INVESTIGATING" /\ ~CorrelationRaises(j) =>
              AtWork(j, Investigating)
        /\ Overtaken(incident[j]) => AtWork(j, Deciding)
        /\ Unfinished(incident[j]) => AtWork(j, Begun)
    BY DEF CarriedOn, Overtaken, Unfinished, Executing, Investigating, Begun, Deciding
  <2>1. CASE j # i
    BY <1>2, <2>0, <2>1, OthersAtWork
  <2>2. CASE j = i
    <3>1. /\ "idle" \notin Executing /\ "idle" \notin {"classify"} /\ "idle" \notin {"execute"}
          /\ "idle" \notin Investigating /\ "idle" \notin Begun /\ "idle" \notin Deciding
      BY DEF Executing, Investigating, Begun, Deciding
    <3>2. ASSUME incident'[j].execution = "EXECUTING"
          PROVE  AtWork(j, Executing)'
      <4>1. CASE to \in Executing
        BY <1>3, <2>2, <3>1, <4>1
      <4>2. CASE incident[i].execution = "EXECUTING" /\ thread[t].pc \notin Executing
        BY <1>2, <2>0, <2>2, <3>2, <4>2, OthersAtWork
      <4> QED
        BY <1>1, <2>2, <3>2, <4>1, <4>2 DEF RecordMoves
    <3>3. (incident[j].status = "DETECTED")' => AtWork(j, {"classify"})'
      BY <1>1, <1>2, <2>0, <2>2, OthersAtWork DEF RecordMoves
    <3>4. ASSUME incident'[j].status = "APPROVED"
          PROVE  AtWork(j, {"execute"})'
      <4>1. CASE to \in {"execute"}
        BY <1>3, <2>2, <3>1, <4>1
      <4>2. CASE incident[i].status = "APPROVED" /\ thread[t].pc \notin {"execute"}
        BY <1>2, <2>0, <2>2, <3>4, <4>2, OthersAtWork
      <4> QED
        BY <1>1, <2>2, <3>4, <4>1, <4>2 DEF RecordMoves
    <3>5. ASSUME incident'[j].status = "INVESTIGATING",
                 ~CorrelationRaises(j)
          PROVE  AtWork(j, Investigating)'
      <4>1. CASE to \in Investigating
        BY <1>3, <2>2, <3>1, <4>1
      <4>2. CASE incident[i].status = "INVESTIGATING" /\ thread[t].pc \notin Investigating
        BY <1>2, <2>0, <2>2, <3>5, <4>2, OthersAtWork
      <4> QED
        BY <1>1, <2>2, <3>5, <4>1, <4>2 DEF RecordMoves
    <3>6. ASSUME Overtaken(incident'[j])
          PROVE  AtWork(j, Deciding)'
      <4>1. CASE to \in Deciding
        BY <1>3, <2>2, <3>1, <4>1
      <4>2. CASE Overtaken(incident[i]) /\ thread[t].pc \notin Deciding
        BY <1>2, <2>0, <2>2, <3>6, <4>2, OthersAtWork
      <4> QED
        BY <1>1, <2>2, <3>6, <4>1, <4>2 DEF RecordMoves
    <3>7. ASSUME Unfinished(incident'[j])
          PROVE  AtWork(j, Begun)'
      <4>1. CASE to \in Begun
        BY <1>3, <2>2, <3>1, <4>1
      <4>2. CASE Unfinished(incident[i]) /\ thread[t].pc \notin Begun
        BY <1>2, <2>0, <2>2, <3>7, <4>2, OthersAtWork
      <4> QED
        BY <1>1, <2>2, <3>7, <4>1, <4>2 DEF RecordMoves
    <3> QED
      BY <3>2, <3>3, <3>4, <3>5, <3>6, <3>7
  <2> QED
    BY <2>1, <2>2
<1> QED
  BY <1>4 DEF CarriedOn, Overtaken, Unfinished, Executing, Investigating, Begun, Deciding

\* No step has an effect before the record says that the execution has begun.
LEMMA StepKeepsBegun ==
    ASSUME TypeOK, TypeOK', BegunBeforeEffect, NEW t \in Threads, Step(t)
    PROVE  BegunBeforeEffect'
<1> DEFINE i == thread[t].incident
<1>1. Footprint(t) /\ RecordMoves(t)
  BY StepFootprint, StepMoves
<1>2. incident'[i].execution = "PENDING" => incident[i].execution = "PENDING"
  BY <1>1 DEF RecordMoves
<1>3. ASSUME NEW j \in Incidents, effects'[j] # <<>> PROVE incident'[j].execution # "PENDING"
  <2>1. CASE j # i
    BY <1>1, <1>3, <2>1 DEF Footprint, BegunBeforeEffect
  <2>2. CASE j = i
    <3>1. effects[i] # <<>> \/ thread[t].pc = "tool"
      BY <1>1, <1>3, <2>2 DEF RecordMoves
    <3> QED
      BY <1>2, <2>2, <3>1 DEF BegunBeforeEffect
  <2> QED
    BY <2>1, <2>2
<1>4. ASSUME NEW u \in Threads, thread'[u].pc \in Begun
      PROVE  incident'[thread'[u].incident].execution # "PENDING"
  <2>1. CASE u = t
    <3>1. thread'[t].incident = i
      BY <1>1, <1>4, <2>1 DEF Footprint, TypeOK, ThreadsOK, At, Begun
    <3>2. incident'[i].execution # "PENDING" \/ thread[t].pc \in Begun
      BY <1>1, <1>4, <2>1 DEF RecordMoves
    <3> QED
      BY <1>2, <2>1, <3>1, <3>2 DEF BegunBeforeEffect, Begun
  <2>2. CASE u # t
    <3>1. thread'[u] = thread[u] /\ thread[u].incident \in Incidents
      BY <1>1, <1>4, <2>2 DEF Footprint, TypeOK, ThreadsOK, ThreadRecords, At, Begun
    <3>2. incident[thread[u].incident].execution # "PENDING"
      BY <1>4, <3>1 DEF BegunBeforeEffect, Begun
    <3> QED
      BY <1>1, <1>2, <3>1, <3>2 DEF Footprint
  <2> QED
    BY <2>1, <2>2
<1>5. ASSUME NEW u \in Threads, At(u, "audit")' PROVE thread'[u].outcome \in {"SUCCESS", "FAILED"}
  BY <1>1, <1>5 DEF Footprint, RecordMoves, At, BegunBeforeEffect
<1> QED
  BY <1>3, <1>4, <1>5 DEF BegunBeforeEffect, Begun

\* A request that is accepted finds nobody at work on a new record, and
\* changes no other.
LEMMA RequestFootprint ==
    ASSUME TypeOK, NEW t \in Threads, Request(t)
    PROVE  /\ thread[t].pc = "idle"
           /\ \A u \in Threads \ {t} : thread'[u] = thread[u]
           /\ thread'[t].pc \in {"classify", "pending"}
           /\ UNCHANGED <<effects, grants, performed>>
           /\ \/ UNCHANGED incident
              \/ /\ thread'[t].pc = "classify" /\ thread'[t].incident \in Incidents
                 /\ incident' = [incident EXCEPT ![thread'[t].incident].status = "DETECTED"]
<1>1. PICK i \in Incidents : \/ CreateIncident(t, i) \/ RerunIncident(t, i)
                             \/ \E kind \in {"approve", "reject"} : RequestDecision(t, i, kind)
  BY DEF Request
<1>2. CASE CreateIncident(t, i)
  BY <1>2 DEF CreateIncident, Accept, At, history, Idle, TypeOK, ThreadsOK
<1>3. CASE RerunIncident(t, i)
  BY <1>3 DEF RerunIncident, Accept, At, history, Idle, TypeOK, ThreadsOK
<1>4. ASSUME NEW kind, RequestDecision(t, i, kind)
      PROVE  /\ thread[t].pc = "idle"
             /\ \A u \in Threads \ {t} : thread'[u] = thread[u]
             /\ thread'[t].pc = "pending"
             /\ UNCHANGED <<effects, grants, performed, incident>>
  BY <1>4 DEF RequestDecision, Accept, At, history, Idle, TypeOK, ThreadsOK
<1> QED
  BY <1>1, <1>2, <1>3, <1>4

\* Nor does it abandon one.
LEMMA RequestKeepsRecords ==
    ASSUME TypeOK, CarriedOn, BegunBeforeEffect, NEW t \in Threads, Request(t)
    PROVE  CarriedOn' /\ BegunBeforeEffect'
<1>1. /\ thread[t].pc = "idle"
      /\ \A u \in Threads \ {t} : thread'[u] = thread[u]
      /\ thread'[t].pc \in {"classify", "pending"}
      /\ effects' = effects
  BY RequestFootprint
<1>2. \A j \in Incidents : /\ incident'[j].execution = incident[j].execution
                            /\ incident'[j].approval = incident[j].approval
  <2>1. CASE UNCHANGED incident
    BY <2>1
  <2>2. ASSUME NEW i \in Incidents, incident' = [incident EXCEPT ![i].status = "DETECTED"]
        PROVE  \A j \in Incidents : /\ incident'[j].execution = incident[j].execution
                                    /\ incident'[j].approval = incident[j].approval
    BY <2>2 DEF TypeOK, IncidentRecords
  <2>3. PICK i : \/ UNCHANGED incident
                 \/ i \in Incidents /\ incident' = [incident EXCEPT ![i].status = "DETECTED"]
    BY RequestFootprint
  <2> QED
    BY <2>1, <2>2, <2>3
<1>3. ASSUME NEW j \in Incidents
      PROVE  \/ incident'[j].status = incident[j].status
             \/ incident'[j].status = "DETECTED" /\ AtWork(j, {"classify"})'
  <2>1. CASE UNCHANGED incident
    BY <2>1
  <2>2. CASE ~ UNCHANGED incident
    <3>1. /\ thread'[t].pc = "classify" /\ thread'[t].incident \in Incidents
          /\ incident' = [incident EXCEPT ![thread'[t].incident].status = "DETECTED"]
      BY <2>2, RequestFootprint, Zenon
    <3> DEFINE i == thread'[t].incident
    <3>2. CASE j = i
      BY <3>1, <3>2 DEF TypeOK, IncidentRecords, AtWork
    <3>3. CASE j # i
      BY <3>1, <3>3 DEF TypeOK
    <3> QED
      BY <3>2, <3>3
  <2> QED
    BY <2>1, <2>2
<1>4. ASSUME NEW j \in Incidents, NEW pcs, "idle" \notin pcs, AtWork(j, pcs) PROVE AtWork(j, pcs)'
  BY <1>1, <1>4, OthersAtWork
<1>5. CarriedOn'
  BY <1>2, <1>3, <1>4 DEF CarriedOn
<1>6. BegunBeforeEffect'
  <2>1. \A u \in Threads : thread'[u].pc \in Begun => u # t /\ thread'[u] = thread[u]
    BY <1>1 DEF Begun
  <2>2. \A u \in Threads : thread[u].pc \in Begun => thread[u].incident \in Incidents
    BY DEF TypeOK, ThreadsOK, ThreadRecords, At, Begun
  <2>3. \A u \in Threads : thread'[u].pc \in Begun =>
            incident'[thread'[u].incident].execution # "PENDING"
    BY <1>2, <2>1, <2>2 DEF BegunBeforeEffect, Begun
  <2>4. \A u \in Threads : thread'[u].pc = "audit" => thread'[u].outcome \in {"SUCCESS", "FAILED"}
    BY <2>1 DEF BegunBeforeEffect, Begun, At
  <2> QED
    BY <1>1, <1>2, <2>3, <2>4 DEF BegunBeforeEffect, Begun, At
<1> QED
  BY <1>5, <1>6

\* The invariant of the records holds at first and through every step.
LEMMA InitRecords == Init => RecordInv
<1> SUFFICES ASSUME Init PROVE RecordInv
  OBVIOUS
<1>1. CarriedOn /\ BegunBeforeEffect
  BY DEF Init, NotCreated, Idle, At, CarriedOn, BegunBeforeEffect
<1> QED
  BY <1>1, InitType DEF RecordInv

\* Every step of the server keeps every record in somebody's hands.
LEMMA NextRecords == RecordInv /\ TypeOK' /\ [Next]_vars => RecordInv'
<1> SUFFICES ASSUME RecordInv, TypeOK', [Next]_vars PROVE CarriedOn' /\ BegunBeforeEffect'
  BY DEF RecordInv
<1>1. CASE UNCHANGED vars
  BY <1>1 DEF vars, history, RecordInv, CarriedOn, BegunBeforeEffect, AtWork, At
<1>2. ASSUME NEW t \in Threads, Request(t) PROVE CarriedOn' /\ BegunBeforeEffect'
  BY <1>2, RequestKeepsRecords DEF RecordInv
<1>3. ASSUME NEW t \in Threads, Step(t) PROVE CarriedOn' /\ BegunBeforeEffect'
  BY <1>3, StepKeepsCarriedOn, StepKeepsBegun DEF RecordInv
<1> QED
  BY <1>1, <1>2, <1>3 DEF Next

\* In every state a record in the middle is in somebody's hands.
LEMMA AlwaysRecords == Spec => []RecordInv
<1>1. WorkflowInv /\ WorkflowInv' /\ RecordInv /\ [Next]_vars => RecordInv'
  BY NextRecords DEF WorkflowInv
<1> QED
  BY <1>1, InitRecords, AlwaysInv, PTL DEF Spec

\* However requests interleave on shared incidents, a record nobody works on
\* is not left in the middle (api/incidents.py, workflows/nodes.py: there is no
\* sweeper that would repair one).
THEOREM NoRecordAbandoned == Spec => []NoOrphanRecord
<1>1. RecordInv => NoOrphanRecord
  <2> SUFFICES ASSUME RecordInv, NEW i \in Incidents, ~Working(i)
               PROVE  /\ incident[i].execution # "EXECUTING"
                      /\ effects[i] # <<>> => incident[i].execution \in {"SUCCESS", "FAILED"}
                      /\ incident[i].status \in OpenStatuses => LeftOpen(i)
    BY DEF NoOrphanRecord
  <2>1. ASSUME NEW pcs PROVE ~AtWork(i, pcs)
    BY DEF AtWork, Working
  <2>2. /\ incident[i].execution # "EXECUTING"
        /\ incident[i].status \in OpenStatuses => LeftOpen(i)
    BY <2>1 DEF RecordInv, CarriedOn, OpenStatuses, LeftOpen
  <2>3. incident[i].execution \in ExecutionStatuses
    BY DEF RecordInv, TypeOK, IncidentRecords
  <2>4. effects[i] # <<>> => incident[i].execution # "PENDING"
    BY DEF RecordInv, BegunBeforeEffect
  <2> QED
    BY <2>2, <2>3, <2>4 DEF ExecutionStatuses
<1> QED
  BY <1>1, AlwaysRecords, PTL

-----------------------------------------------------------------------------
(* Requests that do not meet.                                              *)

\* How a step other than the policy check changes what a decision is about:
\* it opens no proposal but the one decided on, it comes closer to the tool
\* only from a decision, and it captures the plan and the decision it finds.
DecisionMoves(t) ==
    LET i == thread[t].incident
        old == incident[i]
        new == incident'[i]
        from == thread[t].pc
        to == thread'[t].pc
        d == incident[i].policy.decision
    IN
    /\ to # "dispatch" /\ from # "policy"
    /\ new.approval = "PENDING" =>
          old.approval = "PENDING" \/ (from = "dispatch" /\ d = "APPROVAL_REQUIRED")
    /\ to = "decide" => from = "pending" /\ old.approval = "PENDING"
    /\ to \in {"execute", "select", "tool"} =>
          \/ from = "decide" /\ new.approval = "APPROVED"
          \/ from \in {"execute", "select"} /\ new.approval = old.approval
          \/ from = "dispatch" /\ d = "AUTO" /\ new.approval = old.approval
    /\ new.recommended = old.recommended \/ (from = "plan" /\ to = "policy")
    /\ to = "tool" => thread'[t].plan = old.recommended /\ thread'[t].policy = old.policy
    /\ to \in {"audit", "check"} => from \in {"tool", "audit"} /\ thread'[t].plan = thread[t].plan
    /\ \/ UNCHANGED <<effects, performed>>
       \/ from = "tool" /\ to = "audit" /\ Perform(t)

\* So does every such step of a thread.
LEMMA StepDecisionMoves ==
    ASSUME TypeOK, NEW t \in Threads, Step(t), ~PolicyCheck(t)
    PROVE  DecisionMoves(t)
<1> DEFINE i == thread[t].incident
           old == incident[i]
           new == incident'[i]
           to == thread'[t].pc
<1>0. i \in Incidents
  BY StepFootprint DEF Footprint
<1>1. CASE Classify(t)
  <2>1. /\ thread[t].pc = "classify"
        /\ effects' = effects /\ performed' = performed
        /\ new.approval = old.approval
        /\ new.recommended = old.recommended
        /\ to = "investigate"
    BY <1>0, <1>1 DEF Classify, history, At, Goto, Return, ToolReturns, Idle, TypeOK,
           ThreadsOK, ThreadRecords, IncidentRecords
  <2> QED
    BY <2>1 DEF DecisionMoves
<1>2. CASE Investigate(t)
  <2>1. /\ thread[t].pc = "investigate"
        /\ effects' = effects /\ performed' = performed
        /\ new.approval = old.approval
        /\ new.recommended = old.recommended
        /\ to = "diagnose"
    BY <1>0, <1>2 DEF Investigate, history, At, Goto, Return, ToolReturns, Idle, TypeOK,
           ThreadsOK, ThreadRecords, IncidentRecords
  <2> QED
    BY <2>1 DEF DecisionMoves
<1>3. CASE InvestigationRaises(t)
  <2>1. /\ thread[t].pc = "investigate"
        /\ effects' = effects /\ performed' = performed
        /\ new.approval = old.approval
        /\ new.recommended = old.recommended
        /\ to = "idle"
    BY <1>0, <1>3 DEF InvestigationRaises, history, At, Goto, Return, ToolReturns, Idle, TypeOK,
           ThreadsOK, ThreadRecords, IncidentRecords
  <2> QED
    BY <2>1 DEF DecisionMoves
<1>4. CASE Diagnose(t)
  <2>1. /\ thread[t].pc = "diagnose"
        /\ effects' = effects /\ performed' = performed
        /\ new.approval = old.approval
        /\ new.recommended = old.recommended
        /\ to = "plan"
    <3>1. PICK a : incident' = [incident EXCEPT ![i].advice = a]
      BY <1>4 DEF Diagnose
    <3>2. thread[t].pc = "diagnose" /\ effects' = effects /\ performed' = performed /\ to = "plan"
      BY <1>4 DEF Diagnose, history, At, Goto, Return, ToolReturns, Idle, TypeOK,
           ThreadsOK, ThreadRecords
    <3> QED
      BY <1>0, <3>1, <3>2 DEF TypeOK, IncidentRecords
  <2> QED
    BY <2>1 DEF DecisionMoves
<1>5. CASE PlanRemediation(t)
  <2>1. /\ thread[t].pc = "plan"
        /\ effects' = effects /\ performed' = performed
        /\ new.approval = old.approval
        /\ to = "policy"
    <3>1. PICK p : incident' = [incident EXCEPT ![i].recommended = p]
      BY <1>5 DEF PlanRemediation
    <3>2. thread[t].pc = "plan" /\ effects' = effects /\ performed' = performed /\ to = "policy"
      BY <1>5 DEF PlanRemediation, history, At, Goto, Return, ToolReturns, Idle, TypeOK,
           ThreadsOK, ThreadRecords
    <3> QED
      BY <1>0, <3>1, <3>2 DEF TypeOK, IncidentRecords
  <2> QED
    BY <2>1 DEF DecisionMoves
<1>6. CASE Dispatch(t)
  <2> DEFINE d == old.policy.decision
  <2>1. thread[t].pc = "dispatch" /\ effects' = effects /\ performed' = performed
    BY <1>6 DEF Dispatch, history, At
  <2>2. CASE d = "AUTO"
    <3>1. to = "execute" /\ new = old
      BY <1>6, <2>2 DEF Dispatch, Goto, Return, ToolReturns, Idle, TypeOK,
           ThreadsOK, ThreadRecords
    <3> QED
      BY <2>1, <2>2, <3>1 DEF DecisionMoves
  <2>3. CASE d = "APPROVAL_REQUIRED"
    <3>1. /\ incident' = [incident EXCEPT ![i].approval = "PENDING",
                                          ![i].status = "AWAITING_APPROVAL"]
          /\ Return(t)
      BY <1>6, <2>3 DEF Dispatch
    <3>2. to = "idle" /\ new.recommended = old.recommended
      BY <1>0, <3>1 DEF Return, Idle, TypeOK, ThreadsOK, IncidentRecords
    <3> QED
      BY <2>1, <2>3, <3>2 DEF DecisionMoves
  <2>4. CASE d # "AUTO" /\ d # "APPROVAL_REQUIRED"
    <3>1. incident' = [incident EXCEPT ![i].status = "NO_ACTION"] /\ Return(t)
      BY <1>6, <2>4 DEF Dispatch
    <3>2. /\ to = "idle" /\ new.recommended = old.recommended
          /\ new.approval = old.approval
      BY <1>0, <3>1 DEF Return, Idle, TypeOK, ThreadsOK, IncidentRecords
    <3> QED
      BY <2>1, <3>2 DEF DecisionMoves
  <2> QED
    BY <2>2, <2>3, <2>4
<1>7. CASE CheckPending(t)
  <2>1. /\ thread[t].pc = "pending"
        /\ effects' = effects /\ performed' = performed
        /\ new.approval = old.approval
        /\ new.recommended = old.recommended
        /\ to = "idle" \/ (to = "decide" /\ old.approval = "PENDING")
    <3>1. /\ thread[t].pc = "pending" /\ UNCHANGED <<incident, effects, performed>>
          /\ Return(t) \/ (Goto(t, "decide") /\ old.approval = "PENDING")
      BY <1>7 DEF CheckPending, history, At
    <3> QED
      BY <3>1 DEF Goto, Return, ToolReturns, Idle, TypeOK,
           ThreadsOK, ThreadRecords
  <2> QED
    BY <2>1 DEF DecisionMoves
<1>8. CASE Approve(t)
  <2>1. /\ thread[t].pc = "decide"
        /\ effects' = effects /\ performed' = performed
        /\ new.recommended = old.recommended
        /\ new.approval = "APPROVED"
        /\ to = "execute"
    BY <1>0, <1>8 DEF Approve, history, At, Goto, Return, ToolReturns, Idle, TypeOK,
           ThreadsOK, ThreadRecords, IncidentRecords
  <2> QED
    BY <2>1 DEF DecisionMoves
<1>9. CASE Reject(t)
  <2>1. /\ thread[t].pc = "decide"
        /\ effects' = effects /\ performed' = performed
        /\ new.recommended = old.recommended
        /\ new.approval = "REJECTED"
        /\ to = "idle"
    BY <1>0, <1>9 DEF Reject, history, At, Goto, Return, ToolReturns, Idle, TypeOK,
           ThreadsOK, ThreadRecords, IncidentRecords
  <2> QED
    BY <2>1 DEF DecisionMoves
<1>10. CASE BeginExecution(t)
  <2>1. /\ thread[t].pc = "execute"
        /\ effects' = effects /\ performed' = performed
        /\ new.approval = old.approval
        /\ new.recommended = old.recommended
        /\ to = "select"
    BY <1>0, <1>10 DEF BeginExecution, history, At, Goto, Return, ToolReturns, Idle, TypeOK,
           ThreadsOK, ThreadRecords, IncidentRecords
  <2> QED
    BY <2>1 DEF DecisionMoves
<1>11. CASE RefuseMismatch(t)
  <2>1. /\ thread[t].pc = "select"
        /\ effects' = effects /\ performed' = performed
        /\ new.approval = old.approval
        /\ new.recommended = old.recommended
        /\ to = "idle"
    BY <1>0, <1>11 DEF RefuseMismatch, history, At, Goto, Return, ToolReturns, Idle, TypeOK,
           ThreadsOK, ThreadRecords, IncidentRecords
  <2> QED
    BY <2>1 DEF DecisionMoves
<1>12. CASE RecordNoop(t)
  <2>1. /\ thread[t].pc = "select"
        /\ effects' = effects /\ performed' = performed
        /\ new.approval = old.approval
        /\ new.recommended = old.recommended
        /\ to = "verify"
    <3>1. PICK e, v, w, s : incident' = [incident EXCEPT ![i].execution = e, ![i].verdict = v,
                                                      ![i].verification = w, ![i].status = s]
      BY <1>12 DEF RecordNoop
    <3>2. thread[t].pc = "select" /\ effects' = effects /\ performed' = performed /\ to = "verify"
      BY <1>12 DEF RecordNoop, history, At, Goto, Return, ToolReturns, Idle, TypeOK,
           ThreadsOK, ThreadRecords
    <3> QED
      BY <1>0, <3>1, <3>2, SMTT(60) DEF TypeOK, IncidentRecords
  <2> QED
    BY <2>1 DEF DecisionMoves
<1>13. CASE RefuseTool(t)
  <2>1. /\ thread[t].pc = "select"
        /\ effects' = effects /\ performed' = performed
        /\ new.approval = old.approval
        /\ new.recommended = old.recommended
        /\ to = "idle"
    BY <1>0, <1>13 DEF RefuseTool, history, At, Goto, Return, ToolReturns, Idle, TypeOK,
           ThreadsOK, ThreadRecords, IncidentRecords
  <2> QED
    BY <2>1 DEF DecisionMoves
<1>14. CASE AuthorizeTool(t)
  <2>1. /\ thread[t].pc = "select"
        /\ effects' = effects /\ performed' = performed
        /\ new.approval = old.approval
        /\ new.recommended = old.recommended
        /\ to = "tool"
        /\ thread'[t].plan = old.recommended
        /\ thread'[t].policy = old.policy
    BY <1>0, <1>14 DEF AuthorizeTool, history, At, Goto, Return, ToolReturns, Idle, TypeOK,
           ThreadsOK, ThreadRecords, IncidentRecords
  <2> QED
    BY <2>1 DEF DecisionMoves
<1>15. CASE ToolSucceeds(t)
  <2>1. /\ thread[t].pc = "tool"
        /\ Perform(t)
        /\ new.approval = old.approval
        /\ new.recommended = old.recommended
        /\ to = "audit"
        /\ thread'[t].plan = thread[t].plan
    BY <1>0, <1>15 DEF ToolSucceeds, history, At, Goto, Return, ToolReturns, Idle, TypeOK,
           ThreadsOK, ThreadRecords, IncidentRecords
  <2> QED
    BY <2>1 DEF DecisionMoves
<1>16. CASE ToolFails(t)
  <2>1. /\ thread[t].pc = "tool"
        /\ effects' = effects /\ performed' = performed
        /\ new.approval = old.approval
        /\ new.recommended = old.recommended
        /\ to = "audit"
        /\ thread'[t].plan = thread[t].plan
    BY <1>0, <1>16 DEF ToolFails, history, At, Goto, Return, ToolReturns, Idle, TypeOK,
           ThreadsOK, ThreadRecords, IncidentRecords
  <2> QED
    BY <2>1 DEF DecisionMoves
<1>17. CASE ToolFailsLate(t)
  <2>1. /\ thread[t].pc = "tool"
        /\ Perform(t)
        /\ new.approval = old.approval
        /\ new.recommended = old.recommended
        /\ to = "audit"
        /\ thread'[t].plan = thread[t].plan
    BY <1>0, <1>17 DEF ToolFailsLate, history, At, Goto, Return, ToolReturns, Idle, TypeOK,
           ThreadsOK, ThreadRecords, IncidentRecords
  <2> QED
    BY <2>1 DEF DecisionMoves
<1>18. CASE Audit(t)
  <2>1. /\ thread[t].pc = "audit"
        /\ effects' = effects /\ performed' = performed
        /\ new.approval = old.approval
        /\ new.recommended = old.recommended
        /\ to = "idle" \/ (to = "check" /\ thread'[t].plan = thread[t].plan)
    <3>1. PICK o : incident' = [incident EXCEPT ![i].execution = o, ![i].verdict = "NONE"]
      BY <1>18 DEF Audit
    <3>2. /\ thread[t].pc = "audit" /\ UNCHANGED <<effects, performed>>
          /\ Goto(t, "check") \/ Return(t)
      BY <1>18 DEF Audit, history, At
    <3>3. to = "idle" \/ (to = "check" /\ thread'[t].plan = thread[t].plan)
      BY <3>2 DEF Goto, Return, ToolReturns, Idle, TypeOK,
           ThreadsOK, ThreadRecords
    <3> QED
      BY <1>0, <3>1, <3>2, <3>3 DEF TypeOK, IncidentRecords
  <2> QED
    BY <2>1 DEF DecisionMoves
<1>19. CASE CheckPostCondition(t)
  <2>1. /\ thread[t].pc = "check"
        /\ effects' = effects /\ performed' = performed
        /\ new.approval = old.approval
        /\ new.recommended = old.recommended
        /\ to = "verify"
    <3>1. PICK v : incident' = [incident EXCEPT ![i].execution = "SUCCESS", ![i].verdict = v]
      BY <1>19 DEF CheckPostCondition
    <3>2. thread[t].pc = "check" /\ effects' = effects /\ performed' = performed /\ to = "verify"
      BY <1>19 DEF CheckPostCondition, history, At, Goto, Return, ToolReturns, Idle, TypeOK,
           ThreadsOK, ThreadRecords
    <3> QED
      BY <1>0, <3>1, <3>2 DEF TypeOK, IncidentRecords
  <2> QED
    BY <2>1 DEF DecisionMoves
<1>20. CASE Verify(t)
  <2>1. /\ thread[t].pc = "verify"
        /\ effects' = effects /\ performed' = performed
        /\ new.approval = old.approval
        /\ new.recommended = old.recommended
        /\ to = "idle"
    <3>1. PICK v, s : incident' = [incident EXCEPT ![i].verification = v, ![i].status = s]
      BY <1>20 DEF Verify
    <3>2. thread[t].pc = "verify" /\ effects' = effects /\ performed' = performed /\ to = "idle"
      BY <1>20 DEF Verify, history, At, Goto, Return, ToolReturns, Idle, TypeOK,
           ThreadsOK, ThreadRecords
    <3> QED
      BY <1>0, <3>1, <3>2 DEF TypeOK, IncidentRecords
  <2> QED
    BY <2>1 DEF DecisionMoves
<1> QED
  BY <1>1, <1>2, <1>3, <1>4, <1>5, <1>6, <1>7, <1>8, <1>9, <1>10, <1>11, <1>12, <1>13, <1>14, <1>15, <1>16, <1>17, <1>18, <1>19, <1>20 DEF Step

\* What the policy check changes: the decision is about the plan, it is
\* counted if it allows something, and it settles what there is to approve.
LEMMA PolicyCheckMoves ==
    ASSUME TypeOK, NEW t \in Threads, PolicyCheck(t), NEW i \in Incidents, i = thread[t].incident
    PROVE  /\ thread[t].pc = "policy" /\ thread'[t].pc = "dispatch"
           /\ UNCHANGED <<effects, performed>>
           /\ incident'[i].recommended = incident[i].recommended
           /\ incident'[i].policy.plan = incident[i].recommended
           /\ \/ /\ incident'[i].policy.decision = "NO_ACTION"
                 /\ incident'[i].approval = incident[i].approval /\ grants' = grants
              \/ /\ incident'[i].policy.decision = "AUTO"
                 /\ incident'[i].approval = "NOT_REQUIRED" /\ grants'[i] = grants[i] + 1
              \/ /\ incident'[i].policy.decision = "APPROVAL_REQUIRED"
                 /\ incident'[i].approval = "PENDING" /\ grants'[i] = grants[i] + 1
<1>1. PICK policy : policy = Evaluate(Subject[i].type, incident[i].recommended)
  OBVIOUS
<1>2. policy.decision \in Decisions /\ policy.plan = incident[i].recommended
  BY <1>1, EvaluateKeepsPlan DEF Decision
<1>0. RecordsDecision(t, i, policy)
  BY <1>1, PolicyCheckWrites
<1>3. /\ At(t, "policy") /\ Goto(t, "dispatch") /\ UNCHANGED <<effects, performed>>
      /\ IF policy.decision = "NO_ACTION" THEN grants' = grants
         ELSE grants' = [grants EXCEPT ![i] = @ + 1]
  BY <1>0, SMTT(60) DEF RecordsDecision
<1>4. PICK a, s :
          /\ incident' = [incident EXCEPT ![i].policy = policy, ![i].approval = a, ![i].status = s]
          /\ policy.decision = "NO_ACTION" => a = incident[i].approval
          /\ policy.decision = "AUTO" => a = "NOT_REQUIRED"
          /\ policy.decision = "APPROVAL_REQUIRED" => a = "PENDING"
  BY <1>0 DEF RecordsDecision
<1>5. thread[t].pc = "policy" /\ thread'[t].pc = "dispatch"
  BY <1>3 DEF At, Goto, TypeOK, ThreadsOK, ThreadRecords
<1>6. IF policy.decision = "NO_ACTION" THEN grants' = grants ELSE grants'[i] = grants[i] + 1
  BY <1>3 DEF TypeOK
<1>7. /\ incident'[i].policy = policy /\ incident'[i].approval = a
      /\ incident'[i].recommended = incident[i].recommended
  BY <1>4 DEF TypeOK, IncidentRecords
<1> QED
  BY <1>2, <1>3, <1>4, <1>5, <1>6, <1>7 DEF Decisions

\* Nobody else is at work on the incident of a thread.
Alone(t, i) ==
    /\ i = thread[t].incident
    /\ \A u \in Threads \ {t} : thread[u].incident # i

\* A thread at work is alone when no two requests meet.
LEMMA WorkerIsAlone ==
    ASSUME TypeOK, OneRequestPerIncident, NEW t \in Threads, Step(t)
    PROVE  \E i \in Incidents : Alone(t, i)
<1>1. thread[t].incident \in Incidents
  BY StepFootprint DEF Footprint
<1>2. \A u \in Threads \ {t} : thread[u].incident # thread[t].incident
  BY <1>1, WorkflowAssumption DEF OneRequestPerIncident
<1> QED
  BY <1>1, <1>2 DEF Alone

\* Who is at work on another incident after a step was so before it; who is
\* at work on the thread's own incident is the thread.
LEMMA AtWorkBefore ==
    ASSUME NEW t \in Threads, Footprint(t), NEW i \in Incidents, Alone(t, i),
           NEW j \in Incidents, NEW pcs, AtWork(j, pcs)'
    PROVE  IF j = i THEN thread'[t].pc \in pcs ELSE AtWork(j, pcs)
<1>1. PICK u \in Threads : thread'[u].incident = j /\ thread'[u].pc \in pcs
  BY DEF AtWork
<1>2. CASE u = t
  BY <1>1, <1>2, WorkflowAssumption DEF Footprint, Alone
<1>3. CASE u # t
  <2>1. thread[u].incident = j /\ thread[u].pc \in pcs
    BY <1>1, <1>3 DEF Footprint
  <2>2. j # i
    BY <1>3, <2>1 DEF Alone
  <2> QED
    BY <2>1, <2>2 DEF AtWork
<1> QED
  BY <1>2, <1>3

\* A thread at one of the places is at work there.
LEMMA AtWorkHere ==
    ASSUME NEW t \in Threads, NEW i, thread[t].incident = i, NEW pcs, thread[t].pc \in pcs
    PROVE  AtWork(i, pcs)
BY DEF AtWork

\* A decision that will still be acted on after a step could be acted on
\* before it, unless the step is the policy check.
LEMMA ReservedBefore ==
    ASSUME TypeOK, NEW t \in Threads, Step(t), ~PolicyCheck(t),
           NEW i \in Incidents, Alone(t, i), NEW j \in Incidents, Reserved(j)'
    PROVE  Reserved(j)
<1>1. Footprint(t) /\ DecisionMoves(t)
  BY StepFootprint, StepDecisionMoves
<1>2. incident'[j].policy = incident[j].policy
  BY StepFrame DEF RecordFrame
<1>3. CASE j # i
  <2>1. incident'[j] = incident[j]
    BY <1>1, <1>3 DEF Footprint, Alone
  <2>2. ASSUME NEW pcs, AtWork(j, pcs)' PROVE AtWork(j, pcs)
    BY <1>1, <1>3, <2>2, AtWorkBefore
  <2> QED
    BY <2>1, <2>2 DEF Reserved
<1>4. CASE j = i
  <2>1. CASE thread'[t].pc = "decide" \/ incident[i].approval = "PENDING"
    BY <1>1, <1>4, <2>1 DEF DecisionMoves, Reserved, Alone
  <2>2. CASE thread[t].pc \in {"decide", "execute", "select", "tool"}
    BY <1>4, <2>2, AtWorkHere DEF Reserved, Alone
  <2>3. CASE thread[t].pc = "dispatch" /\ incident[i].policy.decision \in {"AUTO", "APPROVAL_REQUIRED"}
    BY <1>4, <2>3, AtWorkHere DEF Reserved, Alone
  <2>4. CASE thread'[t].pc \in {"execute", "select", "tool"}
    BY <1>1, <2>2, <2>3, <2>4 DEF DecisionMoves, Alone
  <2>5. CASE incident'[i].approval = "PENDING"
    BY <1>1, <2>1, <2>3, <2>5 DEF DecisionMoves, Alone
  <2>6. CASE AtWork(i, {"decide", "execute", "select", "tool"})'
    <3>1. thread'[t].pc \in {"decide", "execute", "select", "tool"}
      BY <1>1, <2>6, AtWorkBefore
    <3> QED
      BY <2>1, <2>4, <3>1
  <2>7. CASE AtWork(i, {"dispatch"})'
    <3>1. thread'[t].pc \in {"dispatch"}
      BY <1>1, <2>7, AtWorkBefore
    <3> QED
      BY <1>1, <3>1 DEF DecisionMoves
  <2> QED
    BY <1>4, <2>5, <2>6, <2>7 DEF Reserved
<1> QED
  BY <1>3, <1>4

\* Each effect uses up the decision that was reserved for it.
LEMMA StepKeepsCovered ==
    ASSUME SerialInv, OneRequestPerIncident, NEW t \in Threads, Step(t)
    PROVE  EffectsCovered'
<1>1. PICK i \in Incidents : Alone(t, i)
  BY WorkerIsAlone DEF SerialInv
<1>2. Footprint(t) /\ i = thread[t].incident
  BY <1>1, StepFootprint DEF SerialInv, Alone
<1>3. \A j \in Incidents : /\ Len(effects[j]) \in Nat /\ grants[j] \in Nat
                           /\ Len(effects[j]) <= grants[j]
                           /\ Reserved(j) => Len(effects[j]) < grants[j]
  BY DEF SerialInv, TypeOK, EffectsCovered
<1>4. CASE PolicyCheck(t)
  <2>1. ASSUME NEW j \in Incidents, j # i PROVE Reserved(j)' => Reserved(j)
    <3>1. incident'[j] = incident[j]
      BY <1>2, <2>1 DEF Footprint
    <3>2. ASSUME NEW pcs, AtWork(j, pcs)' PROVE AtWork(j, pcs)
      BY <1>1, <1>2, <2>1, <3>2, AtWorkBefore
    <3> QED
      BY <3>1, <3>2 DEF Reserved
  <2>2. /\ effects' = effects /\ thread'[t].pc = "dispatch"
        /\ \/ /\ incident'[i].policy.decision = "NO_ACTION"
              /\ incident'[i].approval = incident[i].approval /\ grants' = grants
           \/ grants'[i] = grants[i] + 1
    BY <1>2, <1>4, PolicyCheckMoves DEF SerialInv
  <2>3. CASE grants' = grants /\ ~(grants'[i] = grants[i] + 1)
    <3>1. ASSUME Reserved(i)' PROVE Reserved(i)
      <4>1. incident'[i].policy.decision = "NO_ACTION" /\ incident'[i].approval = incident[i].approval
        BY <2>2, <2>3
      <4>2. ~AtWork(i, {"decide", "execute", "select", "tool"})'
        <5>1. thread'[t].pc \notin {"decide", "execute", "select", "tool"}
          BY <2>2
        <5> QED
          BY <1>1, <1>2, <5>1, AtWorkBefore
      <4> QED
        BY <3>1, <4>1, <4>2 DEF Reserved
    <3> QED
      BY <1>3, <2>1, <2>2, <2>3, <3>1 DEF EffectsCovered
  <2>4. CASE grants'[i] = grants[i] + 1
    <3>1. \A j \in Incidents \ {i} : grants'[j] = grants[j]
      BY <1>2 DEF Footprint
    <3>2. Len(effects[i]) < grants'[i]
      BY <1>3, <2>4
    <3> QED
      BY <1>3, <2>1, <2>2, <3>1, <3>2 DEF EffectsCovered
  <2> QED
    BY <2>2, <2>3, <2>4
<1>5. CASE ~PolicyCheck(t)
  <2>1. DecisionMoves(t) /\ grants' = grants
    BY <1>5, StepDecisionMoves, StepFrame DEF SerialInv, RecordFrame
  <2>2. \A j \in Incidents : Reserved(j)' => Reserved(j)
    BY <1>1, <1>5, ReservedBefore DEF SerialInv
  <2>3. CASE effects' = effects
    BY <1>3, <2>1, <2>2, <2>3 DEF EffectsCovered
  <2>4. CASE thread[t].pc = "tool" /\ thread'[t].pc = "audit" /\ Perform(t)
    <3>1. Len(effects[i]) < grants[i]
      <4>1. thread[t].pc \in {"decide", "execute", "select", "tool"}
        BY <2>4
      <4>2. AtWork(i, {"decide", "execute", "select", "tool"})
        BY <1>2, <4>1, AtWorkHere
      <4> QED
        BY <1>3, <4>2 DEF Reserved
    <3>2. effects'[i] = effects[i] \/ effects'[i] = Append(effects[i], thread[t].plan.action)
      BY <1>2, <2>4 DEF Perform, SerialInv, TypeOK
    <3>3. Len(effects'[i]) <= grants'[i]
      <4>1. effects[i] \in Seq(ActionToolNames)
        BY DEF SerialInv, TypeOK
      <4>2. Len(effects'[i]) <= Len(effects[i]) + 1
        BY <3>2, <4>1
      <4>3. Len(effects'[i]) \in Nat
        BY <3>2, <4>1
      <4> QED
        BY <1>3, <2>1, <3>1, <4>2, <4>3
    <3>4. ~Reserved(i)'
      <4>1. /\ thread'[t].pc \notin {"decide", "execute", "select", "tool"}
            /\ thread'[t].pc \notin {"dispatch"}
        BY <2>4
      <4>2. ~AtWork(i, {"decide", "execute", "select", "tool"})' /\ ~AtWork(i, {"dispatch"})'
        BY <1>1, <1>2, <4>1, AtWorkBefore
      <4>3. incident[i].approval # "PENDING"
        BY <1>2, <2>4 DEF SerialInv, ProposalUsedUp
      <4>4. incident'[i].approval # "PENDING"
        BY <1>2, <2>1, <2>4, <4>3 DEF DecisionMoves
      <4> QED
        BY <4>2, <4>4 DEF Reserved
    <3>5. \A j \in Incidents \ {i} : effects'[j] = effects[j]
      BY <1>2 DEF Footprint
    <3>6. ASSUME NEW j \in Incidents
          PROVE  /\ Len(effects'[j]) <= grants'[j]
                 /\ Reserved(j)' => Len(effects'[j]) < grants'[j]
      BY <1>3, <2>1, <2>2, <3>3, <3>4, <3>5
    <3> QED
      BY <3>6 DEF EffectsCovered
  <2> QED
    BY <2>1, <2>3, <2>4 DEF DecisionMoves
<1> QED
  BY <1>4, <1>5

\* A proposal that is acted on is closed, and one that is taken to the human
\* is open.
LEMMA StepKeepsUsedUp ==
    ASSUME SerialInv, TypeOK', OneRequestPerIncident, NEW t \in Threads, Step(t)
    PROVE  ProposalUsedUp'
<1> DEFINE Places == {"execute", "select", "tool", "dispatch"}
           Ok(u) == LET k == thread[u].incident IN
              /\ thread[u].pc \in {"execute", "select", "tool"} => incident[k].approval # "PENDING"
              /\ thread[u].pc = "dispatch" /\ incident[k].policy.decision = "AUTO" =>
                    incident[k].approval # "PENDING"
              /\ thread[u].pc = "dispatch" /\ incident[k].policy.decision = "APPROVAL_REQUIRED" =>
                    incident[k].approval = "PENDING"
<1>1. PICK i \in Incidents : Alone(t, i)
  BY WorkerIsAlone DEF SerialInv
<1>2. Footprint(t) /\ i = thread[t].incident
  BY <1>1, StepFootprint DEF SerialInv, Alone
<1>3. \A u \in Threads : Ok(u)
  BY DEF SerialInv, ProposalUsedUp, At
<1>4. ASSUME NEW u \in Threads, u # t PROVE Ok(u)'
  <2>1. thread'[u] = thread[u] /\ thread[u].incident # i
    BY <1>1, <1>2, <1>4 DEF Footprint, Alone
  <2>2. CASE thread[u].pc \in Places
    <3>1. thread[u].incident \in Incidents
      BY <2>2 DEF SerialInv, TypeOK, ThreadsOK, ThreadRecords, At
    <3>2. incident'[thread[u].incident] = incident[thread[u].incident]
      BY <1>2, <2>1, <3>1 DEF Footprint
    <3> QED
      BY <1>3, <2>1, <3>2
  <2>3. CASE thread[u].pc \notin Places
    BY <2>1, <2>3
  <2> QED
    BY <2>2, <2>3
<1>5. thread'[t].pc \in Places => thread'[t].incident = i
  BY <1>2 DEF Footprint, TypeOK, ThreadsOK, At
<1>6. Ok(t)'
  <2>1. CASE PolicyCheck(t)
    BY <1>2, <1>5, <2>1, PolicyCheckMoves DEF SerialInv
  <2>2. CASE ~PolicyCheck(t)
    <3>1. DecisionMoves(t)
      BY <2>2, StepDecisionMoves DEF SerialInv
    <3>2. thread'[t].pc \in {"execute", "select", "tool"} => incident'[i].approval # "PENDING"
      <4>1. /\ thread[t].pc \in {"execute", "select"} => incident[i].approval # "PENDING"
            /\ thread[t].pc = "dispatch" /\ incident[i].policy.decision = "AUTO" =>
                  incident[i].approval # "PENDING"
        BY <1>2, <1>3
      <4> QED
        BY <1>2, <3>1, <4>1 DEF DecisionMoves
    <3>3. thread'[t].pc # "dispatch"
      BY <3>1 DEF DecisionMoves
    <3> QED
      BY <1>5, <3>2, <3>3
  <2> QED
    BY <2>1, <2>2
<1>7. \A u \in Threads : Ok(u)'
  BY <1>4, <1>6
<1> QED
  BY <1>7 DEF ProposalUsedUp, At

\* The decision and what threads have captured stay about the incident's plan.
LEMMA StepKeepsEvaluated ==
    ASSUME SerialInv, TypeOK', OneRequestPerIncident, NEW t \in Threads, Step(t)
    PROVE  PlanIsEvaluated'
<1>1. PICK i \in Incidents : Alone(t, i)
  BY WorkerIsAlone DEF SerialInv
<1>2. Footprint(t) /\ i = thread[t].incident
  BY <1>1, StepFootprint DEF SerialInv, Alone
<1>3. PolicyCheck(t) \/ (DecisionMoves(t) /\ incident'[i].policy = incident[i].policy)
  BY StepDecisionMoves, StepFrame DEF SerialInv, RecordFrame
<1>4. ASSUME NEW j \in Incidents
      PROVE  incident'[j].policy.plan = incident'[j].recommended \/ AtWork(j, {"policy"})'
  <2>0. incident[j].policy.plan = incident[j].recommended \/ AtWork(j, {"policy"})
    BY DEF SerialInv, PlanIsEvaluated
  <2>1. CASE j # i
    BY <1>2, <2>0, <2>1, OthersAtWork DEF Footprint
  <2>2. CASE j = i /\ PolicyCheck(t)
    BY <1>2, <2>2, PolicyCheckMoves DEF SerialInv
  <2>3. CASE j = i /\ DecisionMoves(t) /\ incident'[i].policy = incident[i].policy
    <3>1. CASE incident'[i].recommended = incident[i].recommended
      <4>1. thread[t].pc \notin {"policy"}
        BY <2>3 DEF DecisionMoves
      <4> QED
        BY <1>2, <2>0, <2>3, <3>1, <4>1, OthersAtWork DEF Footprint
    <3>2. CASE thread'[t].pc = "policy"
      <4>1. thread'[t].incident = i
        BY <1>2, <3>2 DEF Footprint, TypeOK, ThreadsOK, At
      <4> QED
        BY <2>3, <3>2, <4>1 DEF AtWork
    <3> QED
      BY <1>2, <2>3, <3>1, <3>2 DEF DecisionMoves
  <2> QED
    BY <1>3, <2>1, <2>2, <2>3
<1>5. ASSUME NEW u \in Threads, u # t
      PROVE  /\ thread'[u].pc = "tool" => thread'[u].plan = thread'[u].policy.plan
             /\ thread'[u].pc \in {"tool", "audit", "check"} =>
                   thread'[u].plan = incident'[thread'[u].incident].recommended
  <2>1. thread'[u] = thread[u] /\ thread[u].incident # i
    BY <1>1, <1>2, <1>5 DEF Footprint, Alone
  <2>2. thread[u].pc \in {"tool", "audit", "check"} =>
            incident'[thread[u].incident] = incident[thread[u].incident]
    BY <1>2, <2>1 DEF Footprint, SerialInv, TypeOK, ThreadsOK, ThreadRecords, At
  <2> QED
    BY <2>1, <2>2 DEF SerialInv, PlanIsEvaluated, At
<1>6. /\ thread'[t].pc = "tool" => thread'[t].plan = thread'[t].policy.plan
      /\ thread'[t].pc \in {"tool", "audit", "check"} =>
            thread'[t].plan = incident'[thread'[t].incident].recommended
  <2>1. CASE PolicyCheck(t)
    BY <1>2, <2>1, PolicyCheckMoves DEF SerialInv
  <2>2. CASE DecisionMoves(t) /\ thread'[t].pc \in {"tool", "audit", "check"}
    <3>1. /\ thread'[t].incident = i
          /\ incident'[i].recommended = incident[i].recommended
      BY <1>2, <2>2 DEF Footprint, DecisionMoves, TypeOK, ThreadsOK, At
    <3>2. CASE thread'[t].pc = "tool"
      <4>1. thread[t].pc \notin {"policy"}
        BY <2>2 DEF DecisionMoves
      <4>2. ~AtWork(i, {"policy"})
        BY <1>1, <4>1 DEF AtWork, Alone
      <4>3. incident[i].policy.plan = incident[i].recommended
        BY <4>2 DEF SerialInv, PlanIsEvaluated
      <4> QED
        BY <1>2, <2>2, <3>1, <3>2, <4>3 DEF DecisionMoves
    <3>3. CASE thread'[t].pc \in {"audit", "check"}
      <4>1. thread[t].pc \in {"tool", "audit"} /\ thread'[t].plan = thread[t].plan
        BY <2>2, <3>3 DEF DecisionMoves
      <4>2. thread[t].plan = incident[i].recommended
        BY <1>2, <4>1 DEF SerialInv, PlanIsEvaluated
      <4> QED
        BY <3>1, <3>3, <4>1, <4>2
    <3> QED
      BY <2>2, <3>2, <3>3
  <2> QED
    BY <1>3, <2>1, <2>2
<1>7. \A u \in Threads :
          /\ thread'[u].pc = "tool" => thread'[u].plan = thread'[u].policy.plan
          /\ thread'[u].pc \in {"tool", "audit", "check"} =>
                thread'[u].plan = incident'[thread'[u].incident].recommended
  BY <1>5, <1>6
<1> QED
  BY <1>4, <1>7 DEF PlanIsEvaluated, At

\* What is executed now is what was evaluated.
LEMMA StepExecutesEvaluated ==
    ASSUME SerialInv, NEW t \in Threads, Step(t)
    PROVE  ExecutedAsEvaluated'
<1>1. CASE performed' = performed
  BY <1>1 DEF SerialInv, ExecutedAsEvaluated
<1>2. CASE thread[t].pc = "tool" /\ Perform(t)
  <2>1. performed' = performed \/ performed' = performed \union {Effect(t)}
    BY <1>2 DEF Perform
  <2>2. Effect(t).plan = Effect(t).policy.plan
    BY <1>2, SMTT(60) DEF Effect, SerialInv, PlanIsEvaluated, At
  <2> QED
    BY <2>1, <2>2 DEF SerialInv, ExecutedAsEvaluated
<1>3. CASE PolicyCheck(t)
  BY <1>1, <1>3 DEF PolicyCheck
<1>4. CASE ~PolicyCheck(t)
  BY <1>1, <1>2, <1>4, StepDecisionMoves DEF SerialInv, DecisionMoves
<1> QED
  BY <1>3, <1>4

\* A request that is accepted decides nothing.
LEMMA RequestRecords ==
    ASSUME TypeOK, NEW t \in Threads, Request(t), NEW j \in Incidents
    PROVE  /\ incident'[j].approval = incident[j].approval
           /\ incident'[j].policy = incident[j].policy
           /\ incident'[j].recommended = incident[j].recommended
           /\ incident'[j].verdict = incident[j].verdict
           /\ incident'[j].status \in {incident[j].status, "DETECTED"}
<1>1. CASE UNCHANGED incident
  BY <1>1
<1>2. ASSUME NEW i \in Incidents, incident' = [incident EXCEPT ![i].status = "DETECTED"]
      PROVE  /\ incident'[j].approval = incident[j].approval
             /\ incident'[j].policy = incident[j].policy
             /\ incident'[j].recommended = incident[j].recommended
             /\ incident'[j].verdict = incident[j].verdict
             /\ incident'[j].status \in {incident[j].status, "DETECTED"}
  BY <1>2 DEF TypeOK, IncidentRecords
<1>3. PICK i : \/ UNCHANGED incident
               \/ i \in Incidents /\ incident' = [incident EXCEPT ![i].status = "DETECTED"]
  BY RequestFootprint
<1> QED
  BY <1>1, <1>2, <1>3

\* The places where a request that was just accepted is not.
Later == ProgramCounters \ {"idle", "classify", "pending"}

\* A request that is accepted is on no decision's way to the tool.
LEMMA RequestKeepsSerial ==
    ASSUME SerialInv, NEW t \in Threads, Request(t)
    PROVE  EffectsCovered' /\ ProposalUsedUp' /\ PlanIsEvaluated' /\ ExecutedAsEvaluated'
<1>1. /\ thread[t].pc = "idle" /\ thread'[t].pc \in {"classify", "pending"}
      /\ \A u \in Threads \ {t} : thread'[u] = thread[u]
      /\ UNCHANGED <<effects, grants, performed>>
  BY RequestFootprint DEF SerialInv
<1>2. \A j \in Incidents : /\ incident'[j].approval = incident[j].approval
                           /\ incident'[j].policy = incident[j].policy
                           /\ incident'[j].recommended = incident[j].recommended
  BY RequestRecords DEF SerialInv
<1>3. \A u \in Threads : thread'[u].pc \in Later => u # t
  BY <1>1 DEF Later
<1>4. ASSUME NEW u \in Threads, u # t, thread[u].pc \in Later
      PROVE  thread'[u] = thread[u] /\ thread[u].incident \in Incidents
  BY <1>1, <1>4 DEF Later, SerialInv, TypeOK, ThreadsOK, ThreadRecords, At
<1>5. ASSUME NEW j \in Incidents, NEW pcs, "classify" \notin pcs, "pending" \notin pcs,
             AtWork(j, pcs)'
      PROVE  AtWork(j, pcs)
  BY <1>1, <1>5 DEF AtWork
<1>6. EffectsCovered'
  <2>1. \A j \in Incidents : Reserved(j)' => Reserved(j)
    BY <1>2, <1>5 DEF Reserved
  <2> QED
    BY <1>1, <2>1 DEF SerialInv, EffectsCovered
<1>7. ProposalUsedUp'
  <2>1. ASSUME NEW u \in Threads, thread'[u].pc \in {"execute", "select", "tool", "dispatch"}
        PROVE  LET i == thread'[u].incident IN
               /\ thread[u].pc = thread'[u].pc /\ i = thread[u].incident
               /\ incident'[i].approval = incident[i].approval
               /\ incident'[i].policy = incident[i].policy
    <3>1. thread'[u].pc \in Later
      BY <2>1 DEF Later, ProgramCounters
    <3>2. u # t /\ thread'[u] = thread[u]
      BY <1>1, <1>3, <3>1
    <3> QED
      BY <1>2, <1>4, <3>1, <3>2
  <2>2. \A u \in Threads : LET i == thread[u].incident IN
            /\ thread[u].pc \in {"execute", "select", "tool"} => incident[i].approval # "PENDING"
            /\ thread[u].pc = "dispatch" /\ incident[i].policy.decision = "AUTO" =>
                  incident[i].approval # "PENDING"
            /\ thread[u].pc = "dispatch" /\ incident[i].policy.decision = "APPROVAL_REQUIRED" =>
                  incident[i].approval = "PENDING"
    BY DEF SerialInv, ProposalUsedUp, At
  <2> QED
    BY <2>1, <2>2 DEF ProposalUsedUp, At
<1>8. PlanIsEvaluated'
  <2>1. ASSUME NEW j \in Incidents, AtWork(j, {"policy"}) PROVE AtWork(j, {"policy"})'
    BY <1>1, <2>1, OthersAtWork
  <2>2. \A j \in Incidents :
            incident'[j].policy.plan = incident'[j].recommended \/ AtWork(j, {"policy"})'
    BY <1>2, <2>1 DEF SerialInv, PlanIsEvaluated
  <2>3. ASSUME NEW u \in Threads, thread'[u].pc \in {"tool", "audit", "check"}
        PROVE  /\ thread'[u].pc = "tool" => thread'[u].plan = thread'[u].policy.plan
               /\ thread'[u].plan = incident'[thread'[u].incident].recommended
    <3>1. thread'[u].pc \in Later
      BY <2>3 DEF Later, ProgramCounters
    <3>2. u # t /\ thread'[u] = thread[u]
      BY <1>1, <1>3, <3>1
    <3>3. thread[u].incident \in Incidents
      BY <1>4, <3>1, <3>2
    <3> QED
      BY <1>2, <2>3, <3>2, <3>3 DEF SerialInv, PlanIsEvaluated, At
  <2> QED
    BY <2>2, <2>3 DEF PlanIsEvaluated, At
<1>9. ExecutedAsEvaluated'
  BY <1>1 DEF SerialInv, ExecutedAsEvaluated
<1> QED
  BY <1>6, <1>7, <1>8, <1>9

\* Nothing has been decided or done at first.
LEMMA InitSerial == Init => SerialInv
<1> SUFFICES ASSUME Init PROVE SerialInv
  OBVIOUS
<1>1. EffectsCovered
  <2>1. ASSUME NEW i \in Incidents PROVE ~Reserved(i) /\ Len(effects[i]) <= grants[i]
    <3>1. ~Reserved(i)
      BY DEF Init, NotCreated, Idle, Reserved, AtWork
    <3>2. effects[i] = << >> /\ grants[i] = 0
      BY DEF Init
    <3> QED
      BY <3>1, <3>2
  <2> QED
    BY <2>1 DEF EffectsCovered
<1>2. ProposalUsedUp /\ PlanIsEvaluated /\ ExecutedAsEvaluated
  BY DEF Init, NotCreated, NoPolicy, Idle, At, ProposalUsedUp, PlanIsEvaluated, ExecutedAsEvaluated
<1> QED
  BY <1>1, <1>2, InitType DEF SerialInv

\* Requests that do not meet keep the invariant.
LEMMA NextSerial == SerialInv /\ TypeOK' /\ OneRequestPerIncident /\ [Next]_vars => SerialInv'
<1> SUFFICES ASSUME SerialInv, TypeOK', OneRequestPerIncident, [Next]_vars PROVE SerialInv'
  OBVIOUS
<1>1. CASE UNCHANGED vars
  BY <1>1 DEF vars, history, SerialInv, EffectsCovered, Reserved, AtWork, ProposalUsedUp,
     PlanIsEvaluated, ExecutedAsEvaluated, At
<1>2. ASSUME NEW t \in Threads, Request(t) PROVE SerialInv'
  BY <1>2, RequestKeepsSerial DEF SerialInv
<1>3. ASSUME NEW t \in Threads, Step(t) PROVE SerialInv'
  BY <1>3, StepKeepsCovered, StepKeepsUsedUp, StepKeepsEvaluated, StepExecutesEvaluated
     DEF SerialInv
<1> QED
  BY <1>1, <1>2, <1>3 DEF Next

\* The invariant holds as long as no two requests meet on an incident.
LEMMA AlwaysSerial == Spec /\ []OneRequestPerIncident => []SerialInv
<1>1. WorkflowInv' => TypeOK'
  BY DEF WorkflowInv
<1>2. WorkflowInv /\ WorkflowInv' /\ OneRequestPerIncident /\ SerialInv /\ [Next]_vars => SerialInv'
  BY <1>1, NextSerial
<1> QED
  BY <1>2, InitSerial, AlwaysInv, PTL DEF Spec

\* As long as no two requests work on one incident at a time, each decision
\* of the policy engine changes the cluster at most once, however many
\* incidents are in progress (workflows/graph.py, resume_workflow).
THEOREM OneEffectPerGrant == Spec /\ []OneRequestPerIncident => []EffectPerGrant
<1>1. SerialInv => EffectPerGrant
  BY DEF SerialInv, EffectsCovered, EffectPerGrant
<1> QED
  BY <1>1, AlwaysSerial, PTL

\* Under the same condition what is executed is what the engine evaluated,
\* parameters included (workflows/nodes.py, execute).
THEOREM ExecutedIsEvaluated == Spec /\ []OneRequestPerIncident => []ExecutedAsEvaluated
<1>1. SerialInv => ExecutedAsEvaluated
  BY DEF SerialInv
<1> QED
  BY <1>1, AlwaysSerial, PTL

\* No step reopens a proposal that was decided without a new decision of
\* the engine.
LEMMA NextDecisionFinal ==
    ASSUME SerialInv, OneRequestPerIncident, [Next]_vars, NEW i \in Incidents,
           incident[i].approval \in {"APPROVED", "REJECTED"}, incident'[i].approval = "PENDING"
    PROVE  grants'[i] > grants[i]
<1>1. CASE UNCHANGED vars
  BY <1>1 DEF vars
<1>2. ASSUME NEW t \in Threads, Request(t) PROVE grants'[i] > grants[i]
  BY <1>2, RequestRecords DEF SerialInv
<1>3. ASSUME NEW t \in Threads, Step(t) PROVE grants'[i] > grants[i]
  <2>1. Footprint(t)
    BY <1>3, StepFootprint DEF SerialInv
  <2>2. i = thread[t].incident
    BY <2>1 DEF Footprint
  <2>3. CASE PolicyCheck(t)
    <3>1. grants'[i] = grants[i] + 1
      BY <2>2, <2>3, PolicyCheckMoves DEF SerialInv
    <3>2. grants[i] \in Nat
      BY DEF SerialInv, TypeOK
    <3> QED
      BY <3>1, <3>2
  <2>4. CASE ~PolicyCheck(t)
    <3>1. thread[t].pc = "dispatch" /\ incident[i].policy.decision = "APPROVAL_REQUIRED"
      BY <1>3, <2>2, <2>4, StepDecisionMoves DEF SerialInv, DecisionMoves
    <3> QED
      BY <2>2, <3>1 DEF SerialInv, ProposalUsedUp, At
  <2> QED
    BY <2>3, <2>4
<1> QED
  BY <1>1, <1>2, <1>3 DEF Next

\* Under the same condition an approved or rejected proposal stays decided
\* until the engine takes a new decision (workflows/graph.py, _dispatch after
\* the policy check).
THEOREM DecidedStaysDecided == Spec /\ []OneRequestPerIncident => DecisionIsFinal
<1> DEFINE Final ==
      \A i \in Incidents :
          incident[i].approval \in {"APPROVED", "REJECTED"} /\ incident'[i].approval = "PENDING"
          => grants'[i] > grants[i]
<1>1. SerialInv /\ OneRequestPerIncident /\ [Next]_vars => [Final]_vars
  BY NextDecisionFinal
<1> HIDE DEF Final
<1>2. Spec /\ []OneRequestPerIncident => [][Final]_vars
  BY <1>1, AlwaysSerial, PTL DEF Spec
<1> QED
  BY <1>2 DEF Final, DecisionIsFinal

-----------------------------------------------------------------------------
(* A lone request.                                                         *)

\* Only the verification and the recording of an unregistered action call an
\* incident remediated.
LEMMA WhoRemediates ==
    ASSUME TypeOK, BegunBeforeEffect, NEW t \in Threads, Step(t), NEW i \in Incidents,
           incident[i].status # "REMEDIATED", incident'[i].status = "REMEDIATED"
    PROVE  i = thread[t].incident /\ (Verify(t) \/ RecordNoop(t))
<1>1. Footprint(t) /\ RecordMoves(t)
  BY StepFootprint, StepMoves
<1>2. i = thread[t].incident
  BY <1>1 DEF Footprint
<1>3. thread[t].pc = "verify" \/ (thread[t].pc = "select" /\ thread'[t].pc = "verify")
  BY <1>1, <1>2 DEF RecordMoves
<1>4. CASE thread[t].pc = "verify"
  BY <1>2, <1>4 DEF Step, Classify, Investigate, InvestigationRaises, Diagnose,
     PlanRemediation, PolicyCheck, Dispatch, CheckPending, Approve, Reject, BeginExecution,
     RefuseMismatch, RecordNoop, RefuseTool, AuthorizeTool, ToolSucceeds, ToolFails,
     ToolFailsLate, Audit, CheckPostCondition, At
<1>5. CASE thread[t].pc = "select" /\ thread'[t].pc = "verify"
  <2>1. RefuseMismatch(t) \/ RecordNoop(t) \/ RefuseTool(t) \/ AuthorizeTool(t)
    BY <1>5 DEF Step, Classify, Investigate, InvestigationRaises, Diagnose,
       PlanRemediation, PolicyCheck, Dispatch, CheckPending, Approve, Reject, BeginExecution,
       ToolSucceeds, ToolFails, ToolFailsLate, Audit, CheckPostCondition, Verify, At
  <2>2. ~RefuseMismatch(t) /\ ~RefuseTool(t) /\ ~AuthorizeTool(t)
    BY <1>5 DEF RefuseMismatch, RefuseTool, AuthorizeTool, Return, Idle, TypeOK, ThreadsOK,
       ThreadRecords
  <2> QED
    BY <1>2, <2>1, <2>2
<1> QED
  BY <1>3, <1>4, <1>5

\* A thread comes to its verification from the check of the post-condition,
\* or without a tool.
LEMMA WhoVerifies ==
    ASSUME TypeOK, NEW t \in Threads, Step(t), thread'[t].pc = "verify"
    PROVE  CheckPostCondition(t) \/ RecordNoop(t)
<1>1. ~Return(t)
  BY DEF Return, Idle, TypeOK, ThreadsOK
<1>2. ASSUME NEW to, to # "verify" PROVE ~Goto(t, to)
  BY <1>2 DEF Goto, TypeOK, ThreadsOK, ThreadRecords
<1>3. ASSUME NEW outcome PROVE ~ToolReturns(t, outcome)
  BY DEF ToolReturns, TypeOK, ThreadsOK, ThreadRecords
<1>4. ~AuthorizeTool(t)
  BY DEF AuthorizeTool, TypeOK, ThreadsOK, ThreadRecords
<1>5. /\ ~Classify(t) /\ ~Investigate(t) /\ ~InvestigationRaises(t) /\ ~Diagnose(t)
      /\ ~PlanRemediation(t) /\ ~PolicyCheck(t) /\ ~CheckPending(t) /\ ~Approve(t)
      /\ ~Reject(t) /\ ~BeginExecution(t) /\ ~RefuseMismatch(t) /\ ~RefuseTool(t)
  BY <1>1, <1>2, Zenon DEF Classify, Investigate, InvestigationRaises, Diagnose, PlanRemediation,
     PolicyCheck, CheckPending, Approve, Reject, BeginExecution, RefuseMismatch, RefuseTool
<1>6. /\ ~Dispatch(t) /\ ~Audit(t) /\ ~Verify(t)
      /\ ~ToolSucceeds(t) /\ ~ToolFails(t) /\ ~ToolFailsLate(t)
  BY <1>1, <1>2, <1>3 DEF Dispatch, Audit, Verify, ToolSucceeds, ToolFails, ToolFailsLate
<1> QED
  BY <1>4, <1>5, <1>6 DEF Step

\* What the check of the post-condition has found holds while nobody else is
\* at work.
LEMMA StepKeepsVerified ==
    ASSUME SerialInv, TypeOK', OneRequest, VerifiedHolds, NEW t \in Threads, Step(t)
    PROVE  VerifiedHolds'
<1>1. PICK i \in Incidents : i = thread[t].incident
  BY StepFootprint DEF SerialInv, Footprint
<1>2. Footprint(t)
  BY StepFootprint DEF SerialInv
<1>3. ASSUME NEW u \in Threads, thread'[u].pc = "verify" PROVE u = t
  <2>1. CASE u # t
    <3>1. thread[u].incident = None
      BY <1>1, <2>1, WorkflowAssumption DEF OneRequest
    <3>2. thread[u].pc = "idle" /\ thread'[u] = thread[u]
      BY <1>2, <2>1, <3>1 DEF Footprint, SerialInv, TypeOK, ThreadsOK, At
    <3> QED
      BY <1>3, <3>2
  <2> QED
    BY <2>1
<1>4. ASSUME thread'[t].pc = "verify", incident'[i].verdict = "PASSED",
             incident'[i].recommended.action \in ActionToolNames
      PROVE  Holds(incident[i].recommended, i) /\ UNCHANGED <<replicas, repaired>>
             /\ incident'[i].recommended = incident[i].recommended
  <2>1. CASE CheckPostCondition(t)
    <3>1. PICK v \in Verdicts(thread[t].plan, i) :
              incident' = [incident EXCEPT ![i].execution = "SUCCESS", ![i].verdict = v]
      BY <1>1, <2>1 DEF CheckPostCondition
    <3>2. incident'[i].verdict = v /\ incident'[i].recommended = incident[i].recommended
      BY <3>1 DEF SerialInv, TypeOK, IncidentRecords
    <3>3. thread[t].plan = incident[i].recommended
      BY <1>1, <2>1 DEF CheckPostCondition, At, SerialInv, PlanIsEvaluated
    <3>4. v = "PASSED"
      BY <1>4, <3>2
    <3>5. Holds(thread[t].plan, i)
      BY <3>1, <3>4 DEF Verdicts
    <3> QED
      BY <2>1, <3>2, <3>3, <3>5 DEF CheckPostCondition
  <2>2. CASE RecordNoop(t)
    <3>1. incident[i].recommended.action \notin RegisteredTools
      BY <1>1, <2>2 DEF RecordNoop
    <3>2. PICK e, v, w, s :
              incident' = [incident EXCEPT ![i].execution = e, ![i].verdict = v,
                                           ![i].verification = w, ![i].status = s]
      BY <1>1, <2>2 DEF RecordNoop
    <3>3. incident'[i].recommended = incident[i].recommended
      BY <3>2 DEF SerialInv, TypeOK, IncidentRecords
    <3> QED
      BY <1>4, <3>1, <3>3 DEF RegisteredTools
  <2> QED
    BY <1>4, <2>1, <2>2, WhoVerifies DEF SerialInv
<1>5. thread'[t].pc = "verify" => thread'[t].incident = i
  BY <1>1, <1>2 DEF Footprint, TypeOK, ThreadsOK, At
<1>6. ASSUME NEW u \in Threads, thread'[u].pc = "verify",
             incident'[thread'[u].incident].verdict = "PASSED",
             incident'[thread'[u].incident].recommended.action \in ActionToolNames
      PROVE  Holds(incident[thread[u].incident].recommended, thread[u].incident)'
  <2>1. u = t /\ thread'[u].incident = i
    BY <1>3, <1>5, <1>6
  <2>2. /\ Holds(incident[i].recommended, i) /\ UNCHANGED <<replicas, repaired>>
        /\ incident'[i].recommended = incident[i].recommended
    BY <1>4, <1>6, <2>1
  <2>3. Holds(incident[i].recommended, i)'
    BY <2>2 DEF Holds
  <2> QED
    BY <2>1, <2>3
<1> QED
  BY <1>6 DEF VerifiedHolds, At

\* A request that is accepted verifies nothing and changes nothing.
LEMMA RequestKeepsVerified ==
    ASSUME SerialInv, VerifiedHolds, NEW t \in Threads, Request(t)
    PROVE  VerifiedHolds'
<1>1. UNCHANGED <<replicas, repaired>>
  BY DEF Request, CreateIncident, RerunIncident, RequestDecision, Accept
<1>2. ASSUME NEW u \in Threads, thread'[u].pc = "verify"
      PROVE  thread'[u] = thread[u] /\ thread[u].incident \in Incidents
  BY <1>2, RequestFootprint DEF SerialInv, TypeOK, ThreadsOK, ThreadRecords, At
<1>3. \A j \in Incidents : /\ incident'[j].recommended = incident[j].recommended
                           /\ incident'[j].verdict = incident[j].verdict
  BY RequestRecords DEF SerialInv
<1> QED
  BY <1>1, <1>2, <1>3 DEF VerifiedHolds, Holds, At

\* Lone requests keep what they have verified.
LEMMA NextVerified ==
    SerialInv /\ TypeOK' /\ OneRequest /\ VerifiedHolds /\ [Next]_vars => VerifiedHolds'
<1> SUFFICES ASSUME SerialInv, TypeOK', OneRequest, VerifiedHolds, [Next]_vars PROVE VerifiedHolds'
  OBVIOUS
<1>1. CASE UNCHANGED vars
  BY <1>1 DEF vars, VerifiedHolds, Holds, At
<1>2. ASSUME NEW t \in Threads, Request(t) PROVE VerifiedHolds'
  BY <1>2, RequestKeepsVerified
<1>3. ASSUME NEW t \in Threads, Step(t) PROVE VerifiedHolds'
  BY <1>3, StepKeepsVerified
<1> QED
  BY <1>1, <1>2, <1>3 DEF Next

\* A lone request calls an incident remediated only while the post-condition
\* holds.
LEMMA NextRemediated ==
    ASSUME RecordInv, VerifiedHolds, [Next]_vars, NEW i \in Incidents,
           incident[i].status # "REMEDIATED", incident'[i].status = "REMEDIATED",
           incident'[i].recommended.action \in ActionToolNames
    PROVE  Holds(incident[i].recommended, i)'
<1>1. CASE UNCHANGED vars
  BY <1>1 DEF vars
<1>2. ASSUME NEW t \in Threads, Request(t) PROVE FALSE
  BY <1>2, RequestRecords DEF RecordInv
<1>3. ASSUME NEW t \in Threads, Step(t) PROVE Holds(incident[i].recommended, i)'
  <2>1. i = thread[t].incident /\ (Verify(t) \/ RecordNoop(t))
    BY <1>3, WhoRemediates DEF RecordInv
  <2>2. CASE Verify(t)
    <3>1. PICK v, s : incident' = [incident EXCEPT ![i].verification = v, ![i].status = s]
      BY <2>1, <2>2 DEF Verify
    <3>2. incident'[i].recommended = incident[i].recommended
      BY <3>1 DEF RecordInv, TypeOK, IncidentRecords
    <3>3. incident[i].verdict = "PASSED"
      <4>1. CASE incident[i].verdict # "PASSED"
        <5>1. incident' = [incident EXCEPT ![i].verification = "FAILED",
                                           ![i].status = "VERIFICATION_FAILED"]
          BY <2>1, <2>2, <4>1 DEF Verify
        <5>2. incident'[i].status = "VERIFICATION_FAILED"
          BY <5>1 DEF RecordInv, TypeOK, IncidentRecords
        <5> QED
          BY <5>2
      <4> QED
        BY <4>1
    <3>4. Holds(incident[i].recommended, i)
      BY <2>1, <2>2, <3>2, <3>3 DEF VerifiedHolds, Verify
    <3>5. UNCHANGED <<replicas, repaired>>
      BY <2>2 DEF Verify
    <3> QED
      BY <3>2, <3>4, <3>5 DEF Holds
  <2>3. CASE RecordNoop(t)
    <3>1. incident[i].recommended.action \notin RegisteredTools
      BY <2>1, <2>3, SMTT(60) DEF RecordNoop
    <3>2. PICK e, v, w, s :
              incident' = [incident EXCEPT ![i].execution = e, ![i].verdict = v,
                                           ![i].verification = w, ![i].status = s]
      BY <2>1, <2>3 DEF RecordNoop
    <3>3. incident'[i].recommended = incident[i].recommended
      BY <3>2 DEF RecordInv, TypeOK, IncidentRecords
    <3> QED
      BY <3>1, <3>3, SMTT(60) DEF RegisteredTools
  <2> QED
    BY <2>1, <2>2, <2>3
<1> QED
  BY <1>1, <1>2, <1>3 DEF Next

\* As long as there is one request at a time, an incident is called
\* remediated by a tool only while the post-condition of its action holds
\* (workflows/nodes.py, verify; mcp/tools_actions.py).
THEOREM RemediatedMeansHolds == Spec /\ []OneRequest => RemediatedHolds
<1> DEFINE Means ==
      \A i \in Incidents :
          /\ incident[i].status # "REMEDIATED"
          /\ incident'[i].status = "REMEDIATED"
          /\ incident'[i].recommended.action \in ActionToolNames
          => Holds(incident[i].recommended, i)'
<1>1. OneRequest => OneRequestPerIncident
  BY DEF OneRequest, OneRequestPerIncident
<1>2. Init => VerifiedHolds
  BY DEF Init, Idle, VerifiedHolds, At
<1>3. RecordInv /\ VerifiedHolds /\ [Next]_vars => [Means]_vars
  BY NextRemediated
<1>4. SerialInv' => TypeOK'
  BY DEF SerialInv
<1>5. SerialInv /\ SerialInv' /\ OneRequest /\ VerifiedHolds /\ [Next]_vars => VerifiedHolds'
  BY <1>4, NextVerified
<1> HIDE DEF Means
<1>6. Spec /\ []OneRequest => [][Means]_vars
  BY <1>1, <1>2, <1>3, <1>5, AlwaysSerial, AlwaysRecords, PTL DEF Spec
<1> QED
  BY <1>6 DEF Means, RemediatedHolds
=============================================================================
