--------------------------- MODULE SecurityFindings ---------------------------
(***************************************************************************)
(* The security findings of backend/services/security.py, as the request   *)
(* threads of the application use them.  A lock covers the scan that seeds *)
(* the findings, the pipeline of a new finding and the reset; a decision   *)
(* on a finding takes no lock, nor does the look at what the store holds.  *)
(*                                                                         *)
(* A finding object is a position in the sequence finding; the store is    *)
(* the set of the objects it lists.  The two are kept apart because a      *)
(* reset drops the objects from the store and starts the ids again, while  *)
(* a thread may still be at work on one.                                   *)
(***************************************************************************)
EXTENDS PolicyEngine, FiniteSets

CONSTANTS
    Threads,            \* request threads of the server
    Scan,               \* the findings of the static scan, in order
    Injected,           \* findings the test lab or POST /findings may create
    Deployments,        \* deployments that exist in the cluster
    CrashDemo,          \* the one whose replicas the simulated restart revives
    InitialReplicas,    \* replica counts at the start
    InitiallyServing,   \* deployments with all their replicas available
    Supported,          \* resources the simulation's configurations apply to
    LiveCluster,        \* TRUE: a real cluster, whose calls can fail
    MaxRequests,        \* bound: requests accepted in one behaviour
    MaxResets,          \* bound: resets in one behaviour
    None                \* no thread

\* What a finding is about.
Specs == {Scan[k] : k \in DOMAIN Scan} \union Injected

ASSUME FindingsAssumption ==
    /\ Scan \in Seq(Specs) /\ Scan # <<>>
    /\ \A s \in Specs : s.layer \in Layers /\ s.plan.desired \in Int
    /\ InitialReplicas \in [Deployments -> Nat]
    /\ InitiallyServing \subseteq Deployments
    /\ LiveCluster \in BOOLEAN
    /\ MaxRequests \in Nat /\ MaxResets \in Nat
    /\ ~LiveCluster => CrashDemo \in Deployments
    /\ IsFiniteSet(Threads) /\ None \notin Threads

VARIABLES
    finding,    \* the finding objects, in the order they were created
    listed,     \* the objects the store holds
    counter,    \* the number of the last finding id
    seeded,     \* whether the scan has been run
    lock,       \* the thread that holds the lock, or None
    thread,     \* what each request thread is doing, and its local variables
    replicas,   \* replica count of each deployment
    serving,    \* deployments with all their replicas available
    applied,    \* <<action, resource>> pairs whose effect is in place
    requests,   \* requests accepted so far
    resets      \* resets so far

store == <<listed, counter, seeded>>
cluster == <<replicas, serving, applied>>
vars == <<finding, store, lock, thread, cluster, requests, resets>>

\* No object.
Nothing == 0

Idle == [pc |-> "idle", kind |-> "none", object |-> Nothing, next |-> 0, wanted |-> 0]

Init ==
    /\ finding = <<>>
    /\ listed = {}
    /\ counter = 0
    /\ seeded = FALSE
    /\ lock = None
    /\ thread = [t \in Threads |-> Idle]
    /\ replicas = InitialReplicas
    /\ serving = InitiallyServing
    /\ applied = {}
    /\ requests = 0
    /\ resets = 0

At(t, pc) == thread[t].pc = pc
Goto(t, pc) == thread' = [thread EXCEPT ![t].pc = pc]
Return(t) == thread' = [thread EXCEPT ![t] = Idle]

\* What the finding the thread is at work on proposes.
SpecOf(t) == finding[thread[t].object].spec

-----------------------------------------------------------------------------
(* Requests.                                                               *)

Hydrated(spec) ==
    [spec |-> spec, id |-> counter + 1, status |-> "OPEN", decision |-> "NO_ACTION",
     remediation |-> "not_started", verification |-> "PENDING",
     consents |-> 0,    \* history: approvals that were accepted
     effects |-> 0]     \* history: remediations that took effect

Accept ==
    /\ requests < MaxRequests
    /\ requests' = requests + 1

\* POST /findings and /lab/run: the finding gets its id under the lock, which
\* is released before the pipeline takes it again.
CreateFinding(t, spec) ==
    /\ At(t, "idle")
    /\ Accept
    /\ lock = None
    /\ finding' = Append(finding, Hydrated(spec))
    /\ counter' = counter + 1
    /\ thread' = [thread EXCEPT ![t] = [Idle EXCEPT !.pc = "enter", !.kind = "create",
                                                    !.object = Len(finding) + 1]]
    /\ UNCHANGED <<listed, seeded, lock, cluster, resets>>

\* GET /findings and what is built on it, and the two decisions, on an id
\* the server has given out.
ReadOrDecide(t, kind, id) ==
    /\ At(t, "idle")
    /\ Accept
    /\ thread' = [thread EXCEPT ![t] = [Idle EXCEPT !.pc = "seed", !.kind = kind, !.wanted = id]]
    /\ UNCHANGED <<finding, store, lock, cluster, resets>>

ResetFindings(t) ==
    /\ At(t, "idle")
    /\ Accept
    /\ lock = None
    /\ resets < MaxResets
    /\ resets' = resets + 1
    /\ listed' = {}
    /\ counter' = 0
    /\ seeded' = FALSE
    /\ UNCHANGED <<finding, lock, thread, cluster>>

Request(t) ==
    \/ \E spec \in Injected : CreateFinding(t, spec)
    \/ ReadOrDecide(t, "read", 0)
    \/ \E f \in DOMAIN finding, kind \in {"approve", "reject"} :
          ReadOrDecide(t, kind, finding[f].id)
    \/ ResetFindings(t)

-----------------------------------------------------------------------------
(* The scan.                                                               *)

\* Faulty variant: a scan under way is not waited for.
EnterSeedIfFree(t) ==
    /\ At(t, "seed")
    /\ IF seeded \/ lock # None
       THEN Goto(t, "lookup") /\ UNCHANGED lock
       ELSE /\ lock' = t
            /\ thread' = [thread EXCEPT ![t].pc = "hydrate", ![t].next = 1]
    /\ UNCHANGED <<finding, store, cluster, requests, resets>>

\* get_store: the first request runs the scan, those that come meanwhile wait.
EnterSeed(t) ==
    /\ At(t, "seed")
    /\ lock = None
    /\ IF seeded
       THEN Goto(t, "lookup") /\ UNCHANGED lock
       ELSE /\ lock' = t
            /\ thread' = [thread EXCEPT ![t].pc = "hydrate", ![t].next = 1]
    /\ UNCHANGED <<finding, store, cluster, requests, resets>>

HydrateScan(t) ==
    /\ At(t, "hydrate")
    /\ finding' = Append(finding, Hydrated(Scan[thread[t].next]))
    /\ counter' = counter + 1
    /\ thread' = [thread EXCEPT ![t].pc = "evaluate", ![t].object = Len(finding) + 1]
    /\ UNCHANGED <<listed, seeded, lock, cluster, requests, resets>>

-----------------------------------------------------------------------------
(* The pipeline.                                                           *)

\* Faulty variant: the pipeline of a new finding takes no lock.
EnterUnlocked(t) ==
    /\ At(t, "enter")
    /\ Goto(t, "evaluate")
    /\ UNCHANGED <<finding, store, lock, cluster, requests, resets>>

EnterPipeline(t) ==
    /\ At(t, "enter")
    /\ lock = None
    /\ lock' = t
    /\ Goto(t, "evaluate")
    /\ UNCHANGED <<finding, store, cluster, requests, resets>>

\* The diagnosis before it is prose, and never blocks a finding.
EvaluatePolicy(t) ==
    LET f == thread[t].object
        d == EvaluateFinding(SpecOf(t).layer, SpecOf(t).plan).decision
    IN
    /\ At(t, "evaluate")
    /\ finding' = [finding EXCEPT
          ![f].decision = d,
          ![f].status = CASE d = "AUTO" -> "REMEDIATING"
                          [] d = "APPROVAL_REQUIRED" -> "AWAITING_APPROVAL"
                          [] OTHER -> "OPEN",
          ![f].remediation = IF d = "AUTO" THEN "in_progress" ELSE @]
    /\ Goto(t, IF d = "AUTO" THEN "remediate" ELSE "insert")
    /\ UNCHANGED <<store, lock, cluster, requests, resets>>

\* A scale that names no count goes to 2, and is verified against 0.
Desired(plan) == IF plan.desired = 0 THEN 2 ELSE plan.desired

Scale(plan) ==
    /\ replicas' = IF plan.deployment \in Deployments
                   THEN [replicas EXCEPT ![plan.deployment] = Desired(plan)]
                   ELSE replicas
    /\ serving' = IF Desired(plan) > 0
                  THEN serving \union ({plan.deployment} \cap Deployments)
                  ELSE serving \ {plan.deployment}
    /\ UNCHANGED applied

\* The simulated restart revives one replica of one deployment, whichever it
\* was called for.
Restart ==
    /\ serving' = IF LiveCluster THEN serving
                  ELSE IF replicas[CrashDemo] = 1 THEN serving \union {CrashDemo}
                  ELSE serving \ {CrashDemo}
    /\ UNCHANGED <<replicas, applied>>

\* Configurations are applied to the simulation, even on a live cluster.
Harden(action, resource) ==
    /\ applied' = IF action = "apply_security_config" /\ resource \notin Supported
                  THEN applied ELSE applied \union {<<action, resource>>}
    /\ UNCHANGED <<replicas, serving>>

Remediate(spec) ==
    CASE spec.plan.action = "scale_deployment" -> Scale(spec.plan)
      [] spec.plan.action = "restart_deployment" -> Restart
      [] spec.plan.action \in {"rollback_rbac", "apply_security_config"} ->
            Harden(spec.plan.action, spec.resource)
      [] OTHER -> UNCHANGED cluster

\* A finding of a pipeline is still to be stored, a decision is answered.
Finish(t) == IF lock = t THEN Goto(t, "insert") ELSE Return(t)

RemediationSucceeds(t) ==
    LET f == thread[t].object IN
    /\ At(t, "remediate")
    /\ Remediate(SpecOf(t))
    /\ finding' = [finding EXCEPT ![f].remediation = "complete", ![f].effects = @ + 1]
    /\ Goto(t, "verify")
    /\ UNCHANGED <<store, lock, requests, resets>>

\* Only what goes to a live cluster can fail.
CanFail(spec) == LiveCluster /\ spec.plan.action \notin {"apply_security_config", "none"}

\* Faulty variant: the finding stays REMEDIATING.
RemediationFailsSilently(t) ==
    LET f == thread[t].object IN
    /\ At(t, "remediate")
    /\ CanFail(SpecOf(t))
    /\ finding' = [finding EXCEPT ![f].remediation = "failed"]
    /\ Finish(t)
    /\ UNCHANGED <<store, lock, cluster, requests, resets>>

RemediationFails(t) ==
    LET f == thread[t].object IN
    /\ At(t, "remediate")
    /\ CanFail(SpecOf(t))
    /\ finding' = [finding EXCEPT ![f].status = "OPEN", ![f].remediation = "failed"]
    /\ Finish(t)
    /\ UNCHANGED <<store, lock, cluster, requests, resets>>

\* The cluster did it, and the answer is lost.
RemediationFailsLate(t) ==
    LET f == thread[t].object IN
    /\ At(t, "remediate")
    /\ CanFail(SpecOf(t))
    /\ Remediate(SpecOf(t))
    /\ finding' = [finding EXCEPT ![f].status = "OPEN", ![f].remediation = "failed",
                                  ![f].effects = @ + 1]
    /\ Finish(t)
    /\ UNCHANGED <<store, lock, requests, resets>>

Holds(spec) ==
    CASE spec.plan.action = "scale_deployment" ->
            spec.plan.deployment \in Deployments
               /\ replicas[spec.plan.deployment] = spec.plan.desired
      [] spec.plan.action = "restart_deployment" -> spec.plan.deployment \in serving
      [] spec.plan.action \in {"rollback_rbac", "apply_security_config"} ->
            <<spec.plan.action, spec.resource>> \in applied
      [] OTHER -> TRUE

\* What the checks may find.  A live read may fail, and how many replicas a
\* live cluster has available is its own affair.
Checks(spec) ==
    {Holds(spec)}
        \union (IF CanFail(spec) THEN {FALSE} ELSE {})
        \union (IF LiveCluster /\ spec.plan.action = "restart_deployment" THEN {TRUE} ELSE {})

VerifyRemediation(t) ==
    LET f == thread[t].object IN
    /\ At(t, "verify")
    /\ \E passed \in Checks(SpecOf(t)) :
          finding' = [finding EXCEPT
             ![f].verification = IF passed THEN "PASSED" ELSE "FAILED",
             ![f].status = IF passed THEN "REMEDIATED" ELSE "VERIFICATION_FAILED"]
    /\ Finish(t)
    /\ UNCHANGED <<store, lock, cluster, requests, resets>>

\* An object replaces the one the store lists under its id.
List(f) == {g \in listed : finding[g].id # finding[f].id} \union {f}

\* Faulty variant: the lock is not given back after the last finding.
InsertKeepsLock(t) ==
    /\ At(t, "insert")
    /\ listed' = List(thread[t].object)
    /\ IF thread[t].kind = "create"
       THEN Return(t) /\ lock' = None /\ UNCHANGED seeded
       ELSE IF thread[t].next < Len(Scan)
       THEN /\ thread' = [thread EXCEPT ![t].pc = "hydrate", ![t].next = @ + 1]
            /\ UNCHANGED <<lock, seeded>>
       ELSE /\ thread' = [thread EXCEPT ![t].pc = "lookup", ![t].next = 0]
            /\ seeded' = TRUE
            /\ UNCHANGED lock
    /\ UNCHANGED <<finding, counter, cluster, requests, resets>>

Insert(t) ==
    /\ At(t, "insert")
    /\ listed' = List(thread[t].object)
    /\ IF thread[t].kind = "create"
       THEN Return(t) /\ lock' = None /\ UNCHANGED seeded
       ELSE IF thread[t].next < Len(Scan)
       THEN /\ thread' = [thread EXCEPT ![t].pc = "hydrate", ![t].next = @ + 1]
            /\ UNCHANGED <<lock, seeded>>
       ELSE /\ thread' = [thread EXCEPT ![t].pc = "lookup", ![t].next = 0]
            /\ seeded' = TRUE
            /\ lock' = None
    /\ UNCHANGED <<finding, counter, cluster, requests, resets>>

-----------------------------------------------------------------------------
(* The human decision.                                                     *)

Wanted(t) == {f \in listed : finding[f].id = thread[t].wanted}

\* Faulty variant: the finding's status is not looked at.
LookUpAny(t) ==
    /\ At(t, "lookup")
    /\ IF thread[t].kind = "read" \/ Wanted(t) = {}
       THEN Return(t)
       ELSE \E f \in Wanted(t) :
               thread' = [thread EXCEPT ![t].pc = "decide", ![t].object = f]
    /\ UNCHANGED <<finding, store, lock, cluster, requests, resets>>

\* The store is read without the lock.  A decision on an unknown finding is
\* answered with 404, one on a finding that waits for none with 409.
LookUp(t) ==
    LET waiting == {f \in Wanted(t) : finding[f].status = "AWAITING_APPROVAL"} IN
    /\ At(t, "lookup")
    /\ IF thread[t].kind = "read" \/ waiting = {}
       THEN Return(t)
       ELSE \E f \in waiting :
               thread' = [thread EXCEPT ![t].pc = "decide", ![t].object = f]
    /\ UNCHANGED <<finding, store, lock, cluster, requests, resets>>

Approve(t) ==
    LET f == thread[t].object IN
    /\ At(t, "decide")
    /\ thread[t].kind = "approve"
    /\ finding' = [finding EXCEPT ![f].status = "REMEDIATING", ![f].remediation = "in_progress",
                                  ![f].consents = @ + 1]
    /\ Goto(t, "remediate")
    /\ UNCHANGED <<store, lock, cluster, requests, resets>>

\* Faulty variant: a rejection goes on to the remediation.
RejectAndProceed(t) ==
    LET f == thread[t].object IN
    /\ At(t, "decide")
    /\ thread[t].kind = "reject"
    /\ finding' = [finding EXCEPT ![f].status = "OPEN", ![f].remediation = "not_started"]
    /\ Goto(t, "remediate")
    /\ UNCHANGED <<store, lock, cluster, requests, resets>>

Reject(t) ==
    LET f == thread[t].object IN
    /\ At(t, "decide")
    /\ thread[t].kind = "reject"
    /\ finding' = [finding EXCEPT ![f].status = "OPEN", ![f].remediation = "not_started"]
    /\ Return(t)
    /\ UNCHANGED <<store, lock, cluster, requests, resets>>

Step(t) ==
    \/ EnterSeed(t) \/ HydrateScan(t) \/ EnterPipeline(t) \/ EvaluatePolicy(t)
    \/ RemediationSucceeds(t) \/ RemediationFails(t) \/ RemediationFailsLate(t)
    \/ VerifyRemediation(t) \/ Insert(t)
    \/ LookUp(t) \/ Approve(t) \/ Reject(t)

Next == \E t \in Threads : Request(t) \/ Step(t)

Spec == Init /\ [][Next]_vars

\* A request in progress is never abandoned; nobody has to send one.
FairSpec == Spec /\ \A t \in Threads : WF_vars(Step(t))
=============================================================================
