---------------------------- MODULE FindingsSafety ----------------------------
(* What the security findings guarantee. *)
EXTENDS SecurityFindings

FindingStatuses ==
    {"OPEN", "AWAITING_APPROVAL", "REMEDIATING", "REMEDIATED", "VERIFICATION_FAILED"}

RemediationStatuses == {"not_started", "in_progress", "complete", "failed"}

VerificationStatuses == {"PENDING", "PASSED", "FAILED"}

FindingObjects ==
    [spec : Specs, id : Nat, status : FindingStatuses, decision : Decisions,
     remediation : RemediationStatuses, verification : VerificationStatuses,
     consents : Nat, effects : Nat]

ProgramCounters ==
    {"idle", "seed", "hydrate", "enter", "evaluate", "remediate", "verify", "insert",
     "lookup", "decide"}

ThreadStates ==
    [pc : ProgramCounters, kind : {"none", "create", "read", "approve", "reject"},
     object : Nat, next : Nat, wanted : Nat]

\* A pipeline runs under the lock, in the scan or for a new finding; a
\* decision does not.
HoldsLock(r) ==
    \/ r.pc \in {"hydrate", "evaluate", "insert"}
    \/ /\ r.pc \in {"remediate", "verify"}
       /\ r.kind = "create" \/ r.next > 0

WorksOn(t, f) ==
    /\ thread[t].object = f
    /\ thread[t].pc \in {"enter", "evaluate", "remediate", "verify", "insert", "decide"}

\* Type correctness of the findings service, with the lock in the hands of
\* the one thread that runs a pipeline.
FindingsTypeOK ==
    /\ finding \in Seq(FindingObjects)
    /\ listed \subseteq DOMAIN finding
    /\ counter \in Nat
    /\ seeded \in BOOLEAN
    /\ lock \in Threads \union {None}
    /\ thread \in [Threads -> ThreadStates]
    /\ \A t \in Threads : /\ lock = t <=> HoldsLock(thread[t])
                          /\ thread[t].object \in 0 .. Len(finding)
    /\ replicas \in [Deployments -> Int]
    /\ serving \subseteq Deployments
    /\ resets \in Nat

\* Nothing is remediated that the policy engine does not allow at the
\* finding's layer, whoever approves it (README.md, security model, point 2).
AllowedAtLayer ==
    \A f \in DOMAIN finding : finding[f].effects > 0 =>
        EvaluateFinding(finding[f].spec.layer, finding[f].spec.plan).decision # "NO_ACTION"

\* A finding is remediated no more often than it was approved, and once
\* without approval where the policy lets it run alone
\* (services/security.py, _run_pipeline_body and decide_finding).
EffectPerConsent ==
    \A f \in DOMAIN finding :
        finding[f].effects <= finding[f].consents + (IF finding[f].decision = "AUTO" THEN 1 ELSE 0)

\* Whoever looks at the findings sees the whole scan, never a part of it, as
\* long as nobody resets them (tests/test_security.py,
\* test_seed_covers_all_four_layers).
SeesWholeScan ==
    \A t \in Threads : At(t, "lookup") /\ resets = 0 =>
        \A k \in DOMAIN Scan : \E f \in listed : finding[f].spec = Scan[k]

\* A finding nobody is working on is not left in the middle of a remediation,
\* and one that waits for a decision has not been remediated already.
NoFindingStranded ==
    \A f \in listed : (\A t \in Threads : ~WorksOn(t, f)) =>
        /\ finding[f].status # "REMEDIATING"
        /\ finding[f].remediation # "in_progress"
        /\ finding[f].status = "AWAITING_APPROVAL" =>
              finding[f].decision = "APPROVAL_REQUIRED" /\ finding[f].effects = 0

\* Every request is answered: no thread waits for the lock for ever.
RequestsAnswered == \A t \in Threads : ~At(t, "idle") ~> At(t, "idle")

-----------------------------------------------------------------------------
(***************************************************************************)
(* The inductive invariant behind the properties above: what each thread   *)
(* may rely on at the line it has reached, and what a finding shows of the *)
(* threads that are at work on it.                                         *)
(***************************************************************************)

\* What the policy engine says of a finding.
Verdict(f) == EvaluateFinding(finding[f].spec.layer, finding[f].spec.plan).decision

\* A thread runs the pipeline of a new finding, or of a finding of the scan,
\* or the remediation a human approved.
CreatesIt(r) == r.kind = "create" /\ r.next = 0
Scans(r) == r.kind \in {"read", "approve", "reject"} /\ r.next \in DOMAIN Scan
Decides(r) == r.kind = "approve" /\ r.next = 0

\* The request a thread serves fits the line it has reached.
StageOK(r) ==
    /\ r.pc = "idle" => r.kind = "none"
    /\ r.pc \in {"seed", "lookup"} => r.kind \in {"read", "approve", "reject"} /\ r.next = 0
    /\ r.pc = "hydrate" => Scans(r)
    /\ r.pc = "enter" => CreatesIt(r)
    /\ r.pc \in {"evaluate", "insert"} => CreatesIt(r) \/ Scans(r)
    /\ r.pc \in {"remediate", "verify"} => CreatesIt(r) \/ Scans(r) \/ Decides(r)
    /\ r.pc = "decide" => r.kind \in {"approve", "reject"} /\ r.next = 0
    /\ r.pc \in {"enter", "evaluate", "remediate", "verify", "insert", "decide"} =>
          r.object # Nothing

Stages == \A t \in Threads : StageOK(thread[t])

\* A finding the policy has not seen belongs to one thread, and nothing has
\* happened to it.
FreshIsPrivate ==
    \A t \in Threads : thread[t].pc \in {"enter", "evaluate"} =>
        LET f == thread[t].object IN
        /\ f \notin listed
        /\ finding[f].decision = "NO_ACTION" /\ finding[f].status = "OPEN"
        /\ finding[f].remediation = "not_started"
        /\ finding[f].consents = 0 /\ finding[f].effects = 0
        /\ \A u \in Threads \ {t} : thread[u].object # f

\* Who waits for a human, or has been remediated, was let through by the
\* policy at its layer.
AwaitingIsUntouched ==
    \A f \in DOMAIN finding : finding[f].status = "AWAITING_APPROVAL" =>
        /\ Verdict(f) = "APPROVAL_REQUIRED"
        /\ finding[f].decision = "APPROVAL_REQUIRED"
        /\ finding[f].effects = 0

LetThrough ==
    \A t \in Threads :
        /\ thread[t].pc \in {"decide", "remediate", "verify"} =>
              Verdict(thread[t].object) # "NO_ACTION"
        /\ thread[t].pc \in {"remediate", "verify"} =>
              finding[thread[t].object].status # "AWAITING_APPROVAL"

\* A remediation under way has its approval still to use.
Remediators(f) == {t \in Threads : thread[t].pc = "remediate" /\ thread[t].object = f}

Permitted(f) ==
    finding[f].consents + (IF finding[f].decision = "AUTO" THEN 1 ELSE 0)

ConsentInHand ==
    \A f \in DOMAIN finding : finding[f].effects + Cardinality(Remediators(f)) <= Permitted(f)

\* A remediation that shows as begun is somebody's.
InHand ==
    \A f \in DOMAIN finding :
        /\ finding[f].status = "REMEDIATING" =>
              \E t \in Threads : /\ thread[t].pc \in {"remediate", "verify"}
                                 /\ thread[t].object = f
        /\ finding[f].remediation = "in_progress" =>
              \E t \in Threads : thread[t].pc = "remediate" /\ thread[t].object = f

\* Until a reset every id is given out once, and the scan lists its findings
\* in order.
Scanned(k) == \E f \in listed : finding[f].spec = Scan[k]

ScanInOrder ==
    resets = 0 =>
        /\ counter = Len(finding)
        /\ \A f \in DOMAIN finding : finding[f].id = f
        /\ seeded => \A k \in DOMAIN Scan : Scanned(k)
        /\ \A t \in Threads :
              /\ thread[t].pc = "lookup" => seeded
              /\ Scans(thread[t]) => \A k \in 1 .. thread[t].next - 1 : Scanned(k)
              /\ Scans(thread[t]) /\ thread[t].pc # "hydrate" =>
                    finding[thread[t].object].spec = Scan[thread[t].next]

FindingsInv ==
    /\ FindingsTypeOK
    /\ Stages
    /\ FreshIsPrivate
    /\ AwaitingIsUntouched
    /\ LetThrough
    /\ AllowedAtLayer
    /\ ConsentInHand
    /\ InHand
    /\ ScanInOrder
=============================================================================
