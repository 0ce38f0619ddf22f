---------------------------- MODULE FindingsProofs ----------------------------
(***************************************************************************)
(* The properties of FindingsSafety, for any threads, scan, findings and   *)
(* deployments.  Two lemmas carry the induction: Quiet steps add findings  *)
(* and leave those there are alone, Updates change the one finding the     *)
(* thread is at work on.  Every action of the model is one or the other.   *)
(***************************************************************************)
EXTENDS FindingsSafety, PolicyEngineProofs, FiniteSetTheorems, TLAPS

-----------------------------------------------------------------------------
(* The sets of the type invariant.                                         *)

\* The statuses the code writes.
LEMMA StatusLiterals ==
    /\ {"OPEN", "AWAITING_APPROVAL", "REMEDIATING", "REMEDIATED",
        "VERIFICATION_FAILED"} \subseteq FindingStatuses
    /\ {"not_started", "in_progress", "complete", "failed"} \subseteq RemediationStatuses
    /\ {"PENDING", "PASSED", "FAILED"} \subseteq VerificationStatuses
    /\ {"AUTO", "APPROVAL_REQUIRED", "NO_ACTION"} \subseteq Decisions
BY DEF FindingStatuses, RemediationStatuses, VerificationStatuses, Decisions

\* The lines a thread may be at.
LEMMA PcLiterals ==
    {"idle", "seed", "hydrate", "enter", "evaluate", "remediate", "verify", "insert",
     "lookup", "decide"} \subseteq ProgramCounters
BY DEF ProgramCounters

\* The policy decides every finding of a known layer.
LEMMA FindingDecided ==
    ASSUME NEW layer \in Layers, NEW plan
    PROVE  EvaluateFinding(layer, plan).decision \in Decisions
<1>1. \A l \in Layers : FindingRules[l].decision \in Decisions
  BY DEF Layers, FindingRules, Decisions
<1> QED
  BY <1>1, StatusLiterals DEF EvaluateFinding, Decision

\* The verdict on a finding is one of the three.
LEMMA VerdictDecides ==
    ASSUME FindingsTypeOK, NEW f \in DOMAIN finding
    PROVE  /\ Verdict(f) \in Decisions
           /\ Verdict(f) \in {"AUTO", "APPROVAL_REQUIRED", "NO_ACTION"}
<1>1. finding[f] \in FindingObjects
  BY DEF FindingsTypeOK
<1>2. finding[f].spec \in Specs
  BY <1>1 DEF FindingObjects
<1>3. Verdict(f) \in Decisions
  BY <1>2, FindingsAssumption, FindingDecided DEF Verdict
<1> QED
  BY <1>3 DEF Decisions

\* A thread at work has a finding.
LEMMA AtWork ==
    ASSUME FindingsTypeOK, Stages, NEW t \in Threads,
           thread[t].pc \in {"enter", "evaluate", "remediate", "verify", "insert", "decide"}
    PROVE  thread[t].object \in DOMAIN finding
BY DEF FindingsTypeOK, Stages, StageOK, Nothing

\* A finding of the scan at a position of the scan.
LEMMA ScanSpec ==
    ASSUME NEW k \in DOMAIN Scan
    PROVE  Scan[k] \in Specs
BY DEF Specs

-----------------------------------------------------------------------------
(* One thread moves.                                                       *)

\* The others stay where they are.
LEMMA OneThreadMoves ==
    ASSUME FindingsTypeOK, NEW t \in Threads, NEW s \in ThreadStates,
           thread' = [thread EXCEPT ![t] = s]
    PROVE  /\ thread' \in [Threads -> ThreadStates]
           /\ thread[t]' = s
           /\ \A u \in Threads : u # t => thread[u]' = thread[u]
BY DEF FindingsTypeOK

\* Going to another line changes nothing else.
LEMMA GoesTo ==
    ASSUME FindingsTypeOK, NEW t \in Threads, NEW p \in ProgramCounters, Goto(t, p)
    PROVE  \E s \in ThreadStates :
              /\ thread' = [thread EXCEPT ![t] = s]
              /\ s.pc = p /\ s.kind = thread[t].kind /\ s.object = thread[t].object
              /\ s.next = thread[t].next /\ s.wanted = thread[t].wanted
<1> DEFINE s == [thread[t] EXCEPT !.pc = p]
<1>1. thread[t] \in ThreadStates
  BY DEF FindingsTypeOK
<1>2. s \in ThreadStates
  BY <1>1 DEF ThreadStates
<1>3. /\ s.pc = p /\ s.kind = thread[t].kind /\ s.object = thread[t].object
      /\ s.next = thread[t].next /\ s.wanted = thread[t].wanted
  BY <1>1 DEF ThreadStates
<1>4. thread' = [thread EXCEPT ![t] = s]
  BY DEF Goto
<1> QED
  BY <1>2, <1>3, <1>4

\* A thread that has answered is idle.
LEMMA IdleState ==
    /\ Idle \in ThreadStates /\ Idle.pc = "idle" /\ Idle.kind = "none"
    /\ Idle.object = 0 /\ Idle.next = 0 /\ Idle.wanted = 0
    /\ StageOK(Idle) /\ ~HoldsLock(Idle) /\ ~Scans(Idle)
BY PcLiterals DEF Idle, ThreadStates, Nothing, StageOK, HoldsLock, Scans

\* Positions of the scan count from one.
LEMMA ScanPositions == \A k \in DOMAIN Scan : k \in Nat /\ k > 0
BY FindingsAssumption

\* A thread that scans and is past the creation of its finding has one.
LEMMA ScansAtWork ==
    ASSUME FindingsTypeOK, Stages, NEW t \in Threads,
           Scans(thread[t]), thread[t].pc # "hydrate"
    PROVE  thread[t].object \in DOMAIN finding
<1>1. thread[t].pc \in ProgramCounters /\ StageOK(thread[t])
  BY DEF FindingsTypeOK, Stages, ThreadStates
<1>2. thread[t].next # 0
  BY ScanPositions DEF Scans
<1>3. thread[t].pc \in {"evaluate", "remediate", "verify", "insert"}
  BY <1>1, <1>2 DEF ProgramCounters, StageOK, Scans, CreatesIt
<1> QED
  BY <1>3, AtWork

\* What the pipeline or a decision does when the remediation is over.
LEMMA Finishes ==
    ASSUME FindingsInv, NEW t \in Threads, Finish(t),
           thread[t].pc \in {"remediate", "verify"}
    PROVE  \E s \in ThreadStates :
              /\ thread' = [thread EXCEPT ![t] = s]
              /\ s.pc \in {"idle", "insert"}
              /\ s.pc = "insert" => s.object = thread[t].object
              /\ s.object \in {thread[t].object, 0}
              /\ StageOK(s) /\ (HoldsLock(s) <=> HoldsLock(thread[t]))
              /\ Scans(s) => /\ Scans(thread[t]) /\ s.next = thread[t].next
                             /\ s.object = thread[t].object
<1>0. FindingsTypeOK /\ thread[t] \in ThreadStates /\ StageOK(thread[t])
  BY DEF FindingsInv, FindingsTypeOK, Stages
<1>1. CASE lock = t
  <2>1. PICK s \in ThreadStates :
              /\ thread' = [thread EXCEPT ![t] = s]
              /\ s.pc = "insert" /\ s.kind = thread[t].kind /\ s.object = thread[t].object
              /\ s.next = thread[t].next /\ s.wanted = thread[t].wanted
    BY <1>0, <1>1, GoesTo, PcLiterals DEF Finish
  <2>2. HoldsLock(thread[t])
    BY <1>0, <1>1 DEF FindingsTypeOK
  <2>3. CreatesIt(thread[t]) \/ Scans(thread[t])
    BY <1>0, <2>2 DEF StageOK, HoldsLock, Decides, Scans, CreatesIt
  <2> QED
    BY <1>0, <2>1, <2>2, <2>3 DEF StageOK, HoldsLock, Scans, CreatesIt
<1>2. CASE lock # t
  <2>1. thread' = [thread EXCEPT ![t] = Idle]
    BY <1>2 DEF Finish, Return
  <2>2. ~HoldsLock(thread[t])
    BY <1>0, <1>2 DEF FindingsTypeOK
  <2> QED
    BY <2>1, <2>2, IdleState
<1> QED
  BY <1>1, <1>2

-----------------------------------------------------------------------------
(* Counting who is remediating.                                            *)

\* There are finitely many.
LEMMA RemediatorsFinite ==
    ASSUME NEW g
    PROVE  IsFiniteSet(Remediators(g)) /\ Cardinality(Remediators(g)) \in Nat
<1>1. Remediators(g) \subseteq Threads
  BY DEF Remediators
<1> QED
  BY <1>1, FindingsAssumption, FS_Subset, FS_CardinalityType

\* One thread more or less counts one more or less.
LEMMA RemediatorsCount ==
    ASSUME FindingsTypeOK, NEW t \in Threads, NEW s \in ThreadStates, NEW g,
           thread' = [thread EXCEPT ![t] = s]
    PROVE  LET before == thread[t].pc = "remediate" /\ thread[t].object = g
               after == s.pc = "remediate" /\ s.object = g
               R == Cardinality(Remediators(g))
           IN  /\ R \in Nat /\ Cardinality(Remediators(g)') \in Nat
               /\ (before <=> after) => Cardinality(Remediators(g)') = R
               /\ (after /\ ~before) => Cardinality(Remediators(g)') = R + 1
               /\ (before /\ ~after) => Cardinality(Remediators(g)') = R - 1
<1> DEFINE before == thread[t].pc = "remediate" /\ thread[t].object = g
<1> DEFINE after == s.pc = "remediate" /\ s.object = g
<1>1. /\ thread[t]' = s
      /\ \A u \in Threads : u # t => thread[u]' = thread[u]
  BY OneThreadMoves
<1>2. IsFiniteSet(Remediators(g)) /\ Cardinality(Remediators(g)) \in Nat
  BY RemediatorsFinite
<1>3. t \in Remediators(g) <=> before
  BY DEF Remediators
<1>4. t \in Remediators(g)' <=> after
  BY <1>1 DEF Remediators
<1>5. \A u \in Threads : u # t => (u \in Remediators(g)' <=> u \in Remediators(g))
  BY <1>1 DEF Remediators
<1>6. Remediators(g) \subseteq Threads /\ Remediators(g)' \subseteq Threads
  BY DEF Remediators
<1>7. ASSUME before <=> after PROVE Remediators(g)' = Remediators(g)
  BY <1>3, <1>4, <1>5, <1>6, <1>7
<1>8. ASSUME after, ~before PROVE Remediators(g)' = Remediators(g) \union {t}
  BY <1>3, <1>4, <1>5, <1>6, <1>8
<1>9. ASSUME before, ~after PROVE Remediators(g)' = Remediators(g) \ {t}
  BY <1>3, <1>4, <1>5, <1>6, <1>9
<1>10. ASSUME after, ~before PROVE Cardinality(Remediators(g)') = Cardinality(Remediators(g)) + 1
  BY <1>2, <1>3, <1>8, <1>10, FS_AddElement
<1>11. ASSUME before, ~after PROVE Cardinality(Remediators(g)') = Cardinality(Remediators(g)) - 1
  BY <1>2, <1>3, <1>9, <1>11, FS_RemoveElement
<1>12. Cardinality(Remediators(g)') \in Nat
  <2>1. IsFiniteSet(Remediators(g)')
    BY <1>6, FindingsAssumption, FS_Subset
  <2> QED
    BY <2>1, FS_CardinalityType
<1> QED
  BY <1>2, <1>7, <1>10, <1>11, <1>12

-----------------------------------------------------------------------------
(* An update: one thread changes the finding it is at work on.             *)

\* The finding the update leaves behind.
LEMMA Updated ==
    ASSUME FindingsTypeOK, NEW f \in DOMAIN finding, NEW r \in FindingObjects,
           finding' = [finding EXCEPT ![f] = r]
    PROVE  /\ finding' \in Seq(FindingObjects)
           /\ Len(finding') = Len(finding)
           /\ DOMAIN finding' = DOMAIN finding
           /\ finding[f]' = r
           /\ \A g \in DOMAIN finding : g # f => finding[g]' = finding[g]
BY DEF FindingsTypeOK

\* Every update keeps the inductive invariant: it keeps what the finding is
\* about, shows a remediation only while the thread is at it, and pays for an
\* effect with an approval.
LEMMA UpdateKeeps ==
    ASSUME FindingsInv, NEW t \in Threads, NEW f, thread[t].object = f,
           thread[t].pc \in {"evaluate", "remediate", "verify", "decide"},
           NEW r \in FindingObjects, finding' = [finding EXCEPT ![f] = r],
           NEW s \in ThreadStates, thread' = [thread EXCEPT ![t] = s],
           UNCHANGED <<store, lock, resets>>,
           replicas' \in [Deployments -> Int], serving' \subseteq Deployments,
           r.spec = finding[f].spec, r.id = finding[f].id,
           StageOK(s), HoldsLock(s) <=> HoldsLock(thread[t]), s.object \in {f, 0},
           s.pc \in {"idle", "insert", "remediate", "verify"},
           s.pc \in {"remediate", "verify"} =>
              s.object = f /\ Verdict(f) # "NO_ACTION" /\ r.status # "AWAITING_APPROVAL",
           Scans(s) => /\ Scans(thread[t]) /\ s.next = thread[t].next /\ s.object = f,
           r.status = "AWAITING_APPROVAL" =>
              /\ thread[t].pc = "evaluate" /\ Verdict(f) = "APPROVAL_REQUIRED"
              /\ r.decision = "APPROVAL_REQUIRED" /\ r.effects = 0,
           r.status = "REMEDIATING" => s.pc \in {"remediate", "verify"},
           r.remediation = "in_progress" =>
              \/ s.pc = "remediate"
              \/ finding[f].remediation = "in_progress" /\ thread[t].pc # "remediate",
           r.effects > 0 => Verdict(f) # "NO_ACTION",
           r.effects + (IF s.pc = "remediate" THEN 1 ELSE 0) + Permitted(f)
              <= r.consents + (IF r.decision = "AUTO" THEN 1 ELSE 0) + finding[f].effects
                    + (IF thread[t].pc = "remediate" THEN 1 ELSE 0)
    PROVE  FindingsInv'
<1> USE DEF store
<1>0. /\ FindingsTypeOK /\ Stages /\ FreshIsPrivate /\ AwaitingIsUntouched /\ LetThrough
      /\ AllowedAtLayer /\ ConsentInHand /\ InHand /\ ScanInOrder
  BY DEF FindingsInv
<1>1. f \in DOMAIN finding /\ f # 0 /\ f \in Nat
  BY <1>0, AtWork DEF FindingsTypeOK
<1>2. /\ thread' \in [Threads -> ThreadStates]
      /\ thread[t]' = s
      /\ \A u \in Threads : u # t => thread[u]' = thread[u]
  BY <1>0, OneThreadMoves
<1>3. /\ finding' \in Seq(FindingObjects)
      /\ Len(finding') = Len(finding)
      /\ DOMAIN finding' = DOMAIN finding
      /\ finding[f]' = r
      /\ \A g \in DOMAIN finding : g # f => finding[g]' = finding[g]
  BY <1>0, <1>1, Updated
<1>4. \A g \in DOMAIN finding : /\ finding[g]'.spec = finding[g].spec
                                /\ finding[g]'.id = finding[g].id
                                /\ Verdict(g)' = Verdict(g)
  BY <1>1, <1>3 DEF Verdict
<1>5. thread[t] \in ThreadStates /\ finding[f] \in FindingObjects
  BY <1>0, <1>1 DEF FindingsTypeOK
<1>6. FindingsTypeOK'
  <2>1. \A u \in Threads : lock' = u <=> HoldsLock(thread[u]')
    BY <1>0, <1>2 DEF FindingsTypeOK
  <2>2. \A u \in Threads : thread[u]'.object \in 0 .. Len(finding')
    BY <1>0, <1>1, <1>2, <1>3 DEF FindingsTypeOK
  <2> QED
    BY <1>0, <1>2, <1>3, <2>1, <2>2 DEF FindingsTypeOK
<1>7. Stages'
  BY <1>0, <1>2 DEF Stages
<1>8. FreshIsPrivate'
  <2> SUFFICES ASSUME NEW u \in Threads, thread[u]'.pc \in {"enter", "evaluate"}
               PROVE  LET g == thread[u]'.object IN
                      /\ g \notin listed'
                      /\ finding'[g].decision = "NO_ACTION" /\ finding'[g].status = "OPEN"
                      /\ finding'[g].remediation = "not_started"
                      /\ finding'[g].consents = 0 /\ finding'[g].effects = 0
                      /\ \A v \in Threads \ {u} : thread[v]'.object # g
    BY DEF FreshIsPrivate
  <2>1. u # t /\ thread[u]' = thread[u]
    BY <1>2
  <2>2. PICK g : g = thread[u].object
    OBVIOUS
  <2>3. g \in DOMAIN finding /\ g # 0
    BY <1>0, <2>1, <2>2, AtWork DEF FindingsTypeOK
  <2>4. /\ g \notin listed
        /\ finding[g].decision = "NO_ACTION" /\ finding[g].status = "OPEN"
        /\ finding[g].remediation = "not_started"
        /\ finding[g].consents = 0 /\ finding[g].effects = 0
        /\ \A v \in Threads \ {u} : thread[v].object # g
    BY <1>0, <2>1, <2>2 DEF FreshIsPrivate
  <2>5. g # f
    BY <2>1, <2>4
  <2>6. \A v \in Threads \ {u} : thread[v]'.object # g
    BY <1>2, <2>3, <2>4, <2>5
  <2> QED
    BY <1>3, <2>1, <2>2, <2>3, <2>4, <2>5, <2>6
<1>9. AwaitingIsUntouched'
  <2> SUFFICES ASSUME NEW g \in DOMAIN finding, finding'[g].status = "AWAITING_APPROVAL"
               PROVE  /\ Verdict(g)' = "APPROVAL_REQUIRED"
                      /\ finding'[g].decision = "APPROVAL_REQUIRED"
                      /\ finding'[g].effects = 0
    BY <1>3 DEF AwaitingIsUntouched
  <2>1. CASE g = f  BY <1>3, <1>4, <2>1
  <2>2. CASE g # f  BY <1>0, <1>3, <1>4, <2>2 DEF AwaitingIsUntouched
  <2> QED  BY <2>1, <2>2
<1>10. LetThrough'
  <2> SUFFICES ASSUME NEW u \in Threads
               PROVE  /\ thread[u]'.pc \in {"decide", "remediate", "verify"} =>
                            Verdict(thread[u].object)' # "NO_ACTION"
                      /\ thread[u]'.pc \in {"remediate", "verify"} =>
                            finding'[thread[u]'.object].status # "AWAITING_APPROVAL"
    BY DEF LetThrough
  <2>1. CASE u = t
    <3>1. thread[u]' = s
      BY <1>2, <2>1
    <3>2. s.pc \in {"decide", "remediate", "verify"} => s.object = f
      OBVIOUS
    <3>3. s.object = f => Verdict(thread[u].object)' = Verdict(f)
      BY <1>1, <1>3, <3>1 DEF Verdict
    <3> QED
      BY <1>3, <3>1, <3>2, <3>3
  <2>2. CASE u # t
    <3>1. PICK g : g = thread[u].object
      OBVIOUS
    <3>2. thread[u]' = thread[u]
      BY <1>2, <2>2
    <3> SUFFICES ASSUME thread[u].pc \in {"decide", "remediate", "verify"}
                 PROVE  /\ Verdict(thread[u].object)' # "NO_ACTION"
                        /\ thread[u].pc \in {"remediate", "verify"} =>
                              finding'[g].status # "AWAITING_APPROVAL"
      BY <3>1, <3>2
    <3>3. g \in DOMAIN finding
      BY <1>0, <3>1, AtWork
    <3>4. Verdict(thread[u].object)' = Verdict(g)
      BY <1>4, <3>1, <3>2, <3>3 DEF Verdict
    <3>5. Verdict(g) # "NO_ACTION"
      BY <1>0, <3>1 DEF LetThrough
    <3>6. g = f => r.status # "AWAITING_APPROVAL"
      BY <1>0, <2>2, <3>1 DEF FreshIsPrivate
    <3>7. thread[u].pc \in {"remediate", "verify"} => finding[g].status # "AWAITING_APPROVAL"
      BY <1>0, <3>1 DEF LetThrough
    <3> QED
      BY <1>3, <3>3, <3>4, <3>5, <3>6, <3>7
  <2> QED  BY <2>1, <2>2
<1>11. AllowedAtLayer'
  BY <1>0, <1>3, <1>4 DEF AllowedAtLayer, Verdict
<1>12. ConsentInHand'
  <2> SUFFICES ASSUME NEW g \in DOMAIN finding
               PROVE  finding'[g].effects + Cardinality(Remediators(g)') <= Permitted(g)'
    BY <1>3 DEF ConsentInHand
  <2>1. finding[g].effects + Cardinality(Remediators(g)) <= Permitted(g)
    BY <1>0 DEF ConsentInHand
  <2>2. s.pc = "remediate" => s.object = f
    OBVIOUS
  <2>3. CASE g # f
    <3>1. Cardinality(Remediators(g)') = Cardinality(Remediators(g))
      BY <1>0, <2>2, <2>3, RemediatorsCount
    <3>2. Permitted(g)' = Permitted(g) /\ finding'[g].effects = finding[g].effects
      BY <1>3, <2>3 DEF Permitted
    <3> QED  BY <2>1, <3>1, <3>2
  <2>4. CASE g = f
    <3>1. /\ r.effects \in Nat /\ r.consents \in Nat
          /\ finding[f].effects \in Nat /\ finding[f].consents \in Nat
      BY <1>5 DEF FindingObjects
    <3>0. LET before == thread[t].pc = "remediate" /\ thread[t].object = f
              after == s.pc = "remediate" /\ s.object = f
              R == Cardinality(Remediators(f))
          IN  /\ R \in Nat /\ Cardinality(Remediators(f)') \in Nat
              /\ (before <=> after) => Cardinality(Remediators(f)') = R
              /\ (after /\ ~before) => Cardinality(Remediators(f)') = R + 1
              /\ (before /\ ~after) => Cardinality(Remediators(f)') = R - 1
      BY <1>0, RemediatorsCount
    <3>2. /\ Cardinality(Remediators(f)) \in Nat /\ Cardinality(Remediators(f)') \in Nat
          /\ Cardinality(Remediators(f)') = Cardinality(Remediators(f))
                + (IF s.pc = "remediate" THEN 1 ELSE 0)
                - (IF thread[t].pc = "remediate" THEN 1 ELSE 0)
      <4>1. CASE s.pc = "remediate" /\ thread[t].pc = "remediate"
        BY <2>2, <3>0, <4>1
      <4>2. CASE s.pc = "remediate" /\ thread[t].pc # "remediate"
        BY <2>2, <3>0, <4>2
      <4>3. CASE s.pc # "remediate" /\ thread[t].pc = "remediate"
        BY <2>2, <3>0, <4>3
      <4>4. CASE s.pc # "remediate" /\ thread[t].pc # "remediate"
        BY <2>2, <3>0, <4>4
      <4> QED  BY <4>1, <4>2, <4>3, <4>4
    <3>3. Permitted(f)' = r.consents + (IF r.decision = "AUTO" THEN 1 ELSE 0)
      BY <1>3 DEF Permitted
    <3>4. Permitted(f) \in Nat
      BY <3>1 DEF Permitted
    <3>5. finding[f].effects + Cardinality(Remediators(f)) <= Permitted(f)
      BY <2>1, <2>4
    <3>6. r.effects + Cardinality(Remediators(f)')
             <= r.consents + (IF r.decision = "AUTO" THEN 1 ELSE 0)
      BY <3>1, <3>2, <3>4, <3>5
    <3> QED  BY <1>3, <2>4, <3>3, <3>6
  <2> QED  BY <2>3, <2>4
<1>13. InHand'
  <2> SUFFICES ASSUME NEW g \in DOMAIN finding
               PROVE  /\ finding'[g].status = "REMEDIATING" =>
                            \E u \in Threads : /\ thread[u]'.pc \in {"remediate", "verify"}
                                               /\ thread[u]'.object = g
                      /\ finding'[g].remediation = "in_progress" =>
                            \E u \in Threads : /\ thread[u]'.pc = "remediate"
                                               /\ thread[u]'.object = g
    BY <1>3 DEF InHand
  <2>1. CASE g = f
    <3>1. r.status = "REMEDIATING" => s.pc \in {"remediate", "verify"} /\ s.object = f
      OBVIOUS
    <3>2. r.remediation = "in_progress" =>
             \E u \in Threads : thread[u]'.pc = "remediate" /\ thread[u]'.object = f
      <4>1. CASE s.pc = "remediate"  BY <1>2, <4>1
      <4>2. CASE finding[f].remediation = "in_progress" /\ thread[t].pc # "remediate"
        <5>1. PICK u \in Threads : thread[u].pc = "remediate" /\ thread[u].object = f
          BY <1>0, <1>1, <4>2 DEF InHand
        <5> QED  BY <1>2, <4>2, <5>1
      <4> QED  BY <4>1, <4>2
    <3> QED  BY <1>2, <1>3, <2>1, <3>1, <3>2
  <2>2. CASE g # f
    BY <1>0, <1>2, <1>3, <2>2 DEF InHand
  <2> QED  BY <2>1, <2>2
<1>14. ScanInOrder'
  <2> SUFFICES ASSUME resets = 0
               PROVE  /\ counter' = Len(finding')
                      /\ \A g \in DOMAIN finding' : finding'[g].id = g
                      /\ seeded' => \A k \in DOMAIN Scan : Scanned(k)'
                      /\ \A u \in Threads :
                            /\ thread'[u].pc = "lookup" => seeded'
                            /\ Scans(thread[u])' =>
                                  \A k \in 1 .. thread'[u].next - 1 : Scanned(k)'
                            /\ Scans(thread[u])' /\ thread'[u].pc # "hydrate" =>
                                  finding'[thread'[u].object].spec = Scan[thread'[u].next]
    BY DEF ScanInOrder
  <2>1. \A k : Scanned(k)' <=> Scanned(k)
    BY <1>0, <1>4 DEF Scanned, FindingsTypeOK
  <2>2. /\ counter = Len(finding)
        /\ \A g \in DOMAIN finding : finding[g].id = g
        /\ seeded => \A k \in DOMAIN Scan : Scanned(k)
    BY <1>0 DEF ScanInOrder
  <2>3. \A u \in Threads :
            /\ thread[u].pc = "lookup" => seeded
            /\ Scans(thread[u]) => \A k \in 1 .. thread[u].next - 1 : Scanned(k)
            /\ Scans(thread[u]) /\ thread[u].pc # "hydrate" =>
                  finding[thread[u].object].spec = Scan[thread[u].next]
    BY <1>0 DEF ScanInOrder
  <2>4. ASSUME NEW u \in Threads
        PROVE  /\ thread'[u].pc = "lookup" => seeded'
               /\ Scans(thread[u])' =>
                     \A k \in 1 .. thread'[u].next - 1 : Scanned(k)'
               /\ Scans(thread[u])' /\ thread'[u].pc # "hydrate" =>
                     finding'[thread'[u].object].spec = Scan[thread'[u].next]
    <3>1. CASE u = t
      <4>1. thread'[u] = s /\ (Scans(thread[u])' <=> Scans(s))
        BY <1>2, <3>1 DEF Scans
      <4>2. finding'[f].spec = finding[f].spec
        BY <1>1, <1>4
      <4> QED  BY <2>1, <2>3, <3>1, <4>1, <4>2
    <3>2. CASE u # t
      <4>1. thread'[u] = thread[u] /\ (Scans(thread[u])' <=> Scans(thread[u]))
        BY <1>2, <3>2 DEF Scans
      <4>2. Scans(thread[u]) /\ thread[u].pc # "hydrate" =>
               finding'[thread[u].object].spec = finding[thread[u].object].spec
        BY <1>0, <1>4, ScansAtWork
      <4> QED  BY <2>1, <2>3, <4>1, <4>2
    <3> QED  BY <3>1, <3>2
  <2> QED
    BY <1>3, <1>4, <2>1, <2>2, <2>4
<1> QED
  BY <1>6, <1>7, <1>8, <1>9, <1>10, <1>11, <1>12, <1>13, <1>14 DEF FindingsInv

-----------------------------------------------------------------------------
(* A quiet step: findings may be added, and those there are stay as they   *)
(* are.                                                                    *)

\* The lock is left alone, taken when it is free, or given back.
LockMoves(t, s) ==
    \/ lock' = lock /\ (HoldsLock(s) <=> HoldsLock(thread[t]))
    \/ lock = None /\ lock' = t /\ HoldsLock(s)
    \/ lock = t /\ lock' = None /\ ~HoldsLock(s)

\* The lock remains with the one thread that runs a pipeline.
LEMMA LockKept ==
    ASSUME FindingsTypeOK, NEW t \in Threads, NEW s \in ThreadStates,
           thread' = [thread EXCEPT ![t] = s], LockMoves(t, s)
    PROVE  /\ lock' \in Threads \union {None}
           /\ \A u \in Threads : lock' = u <=> HoldsLock(thread[u]')
<1>1. /\ thread[t]' = s
      /\ \A u \in Threads : u # t => thread[u]' = thread[u]
  BY OneThreadMoves
<1>2. /\ lock \in Threads \union {None}
      /\ \A u \in Threads : lock = u <=> HoldsLock(thread[u])
  BY DEF FindingsTypeOK
<1> QED
  BY <1>1, <1>2, FindingsAssumption DEF LockMoves

\* A finding nothing has happened to.
Untouched(r) ==
    /\ r.decision = "NO_ACTION" /\ r.status = "OPEN" /\ r.remediation = "not_started"
    /\ r.consents = 0 /\ r.effects = 0

\* A quiet step keeps the inductive invariant, when it keeps the order of
\* the scan.
LEMMA QuietKeeps ==
    ASSUME FindingsInv, NEW t \in Threads,
           NEW s \in ThreadStates, thread' = [thread EXCEPT ![t] = s],
           finding' \in Seq(FindingObjects), Len(finding) <= Len(finding'),
           \A g \in DOMAIN finding : finding'[g] = finding[g],
           \A g \in DOMAIN finding' \ DOMAIN finding : Untouched(finding'[g]),
           LockMoves(t, s), UNCHANGED cluster,
           counter' \in Nat, seeded' \in BOOLEAN, resets' \in Nat,
           \/ listed' \subseteq listed
           \/ thread[t].pc = "insert" /\ listed' \subseteq listed \union {thread[t].object},
           StageOK(s), thread[t].pc \notin {"remediate", "verify"},
           s.pc \notin {"remediate", "verify"},
           s.object \in {thread[t].object, 0} \union listed
                           \union (DOMAIN finding' \ DOMAIN finding),
           s.pc \in {"enter", "evaluate"} =>
              \/ s.object \in DOMAIN finding' \ DOMAIN finding
              \/ s.object = thread[t].object /\ thread[t].pc \in {"enter", "evaluate"},
           s.pc = "decide" =>
              \/ s.object \in listed /\ finding[s.object].status = "AWAITING_APPROVAL"
              \/ s.object = thread[t].object /\ thread[t].pc = "decide",
           ScanInOrder'
    PROVE  FindingsInv'
<1> USE DEF cluster
<1>0. /\ FindingsTypeOK /\ Stages /\ FreshIsPrivate /\ AwaitingIsUntouched /\ LetThrough
      /\ AllowedAtLayer /\ ConsentInHand /\ InHand /\ ScanInOrder
  BY DEF FindingsInv
<1>1. /\ finding \in Seq(FindingObjects) /\ listed \subseteq DOMAIN finding
      /\ DOMAIN finding = 1 .. Len(finding) /\ DOMAIN finding' = 1 .. Len(finding')
      /\ Len(finding) \in Nat /\ Len(finding') \in Nat
      /\ \A u \in Threads : thread[u].object \in 0 .. Len(finding)
  BY <1>0 DEF FindingsTypeOK
<1>2. DOMAIN finding \subseteq DOMAIN finding'
  BY <1>1
<1>3. /\ thread' \in [Threads -> ThreadStates]
      /\ thread[t]' = s
      /\ \A u \in Threads : u # t => thread[u]' = thread[u]
  BY <1>0, OneThreadMoves
<1>4. \A g \in DOMAIN finding : Verdict(g)' = Verdict(g)
  BY <1>2 DEF Verdict
<1>5. FindingsTypeOK'
  <2>1. /\ lock' \in Threads \union {None}
        /\ \A u \in Threads : lock' = u <=> HoldsLock(thread[u]')
    BY <1>0, LockKept
  <2>2. listed' \subseteq DOMAIN finding'
    <3>1. thread[t].pc = "insert" => thread[t].object \in DOMAIN finding
      BY <1>0, AtWork
    <3> QED
      BY <1>1, <1>2, <3>1
  <2>3. s.object \in 0 .. Len(finding')
    BY <1>1, <1>2
  <2>4. \A u \in Threads : thread[u]'.object \in 0 .. Len(finding')
    BY <1>1, <1>3, <2>3
  <2>5. replicas' \in [Deployments -> Int] /\ serving' \subseteq Deployments
    BY <1>0 DEF FindingsTypeOK
  <2> QED
    BY <1>3, <2>1, <2>2, <2>4, <2>5 DEF FindingsTypeOK
<1>6. Stages'
  BY <1>0, <1>3 DEF Stages
<1>7. FreshIsPrivate'
  <2> SUFFICES ASSUME NEW u \in Threads, thread[u]'.pc \in {"enter", "evaluate"}
               PROVE  /\ thread[u]'.object \notin listed'
                      /\ Untouched(finding'[thread[u]'.object])
                      /\ \A v \in Threads \ {u} : thread[v]'.object # thread[u]'.object
    BY DEF FreshIsPrivate, Untouched
  <2>1. ASSUME NEW v \in Threads, thread[v].pc \in {"enter", "evaluate"}
        PROVE  /\ thread[v].object \in DOMAIN finding
               /\ thread[v].object \notin listed
               /\ Untouched(finding[thread[v].object])
               /\ \A w \in Threads \ {v} : thread[w].object # thread[v].object
    BY <1>0, <2>1, AtWork DEF FreshIsPrivate, Untouched
  <2>2. CASE u # t
    <3>1. thread[u]' = thread[u]
      BY <1>3, <2>2
    <3>2. PICK g \in DOMAIN finding : g = thread[u].object
      BY <2>1, <3>1
    <3>3. /\ g \notin listed /\ Untouched(finding[g])
          /\ \A w \in Threads \ {u} : thread[w].object # g
      BY <2>1, <3>1, <3>2
    <3>4. g # s.object
      BY <1>1, <2>2, <3>2, <3>3
    <3>5. g \notin listed'
      BY <2>2, <3>3
    <3> QED
      BY <1>3, <3>1, <3>2, <3>3, <3>4, <3>5
  <2>3. CASE u = t /\ s.object \in DOMAIN finding' \ DOMAIN finding
    <3>1. s.object \notin listed'
      <4>1. thread[t].pc = "insert" => thread[t].object \in DOMAIN finding
        BY <1>0, AtWork
      <4> QED  BY <1>1, <2>3, <4>1
    <3>2. \A v \in Threads \ {u} : thread[v]'.object # s.object
      BY <1>1, <1>3, <2>3
    <3> QED
      BY <1>3, <2>3, <3>1, <3>2
  <2>4. CASE u = t /\ s.object = thread[t].object /\ thread[t].pc \in {"enter", "evaluate"}
    <3>1. PICK g \in DOMAIN finding : g = thread[t].object
      BY <2>1, <2>4
    <3>2. /\ g \notin listed /\ Untouched(finding[g])
          /\ \A w \in Threads \ {t} : thread[w].object # g
      BY <2>1, <2>4, <3>1
    <3>3. g \notin listed'
      BY <2>4, <3>2
    <3>4. thread[t]'.object = g /\ \A v \in Threads \ {t} : thread[v]'.object # g
      BY <1>3, <2>4, <3>1, <3>2
    <3> QED
      BY <2>4, <3>1, <3>2, <3>3, <3>4
  <2> QED
    BY <1>3, <2>2, <2>3, <2>4
<1>8. AwaitingIsUntouched'
  BY <1>0, <1>4 DEF AwaitingIsUntouched, Untouched
<1>9. LetThrough'
  <2> SUFFICES ASSUME NEW u \in Threads,
                      thread[u]'.pc \in {"decide", "remediate", "verify"}
               PROVE  /\ Verdict(thread[u].object)' # "NO_ACTION"
                      /\ thread[u]'.pc \in {"remediate", "verify"} =>
                            finding'[thread[u]'.object].status # "AWAITING_APPROVAL"
    BY DEF LetThrough
  <2>1. CASE u # t \/ (s.pc = "decide" /\ s.object = thread[t].object /\ thread[t].pc = "decide")
    <3>1. /\ thread[u]'.object = thread[u].object
          /\ thread[u].pc \in {"decide", "remediate", "verify"}
          /\ thread[u]'.pc \in {"remediate", "verify"} =>
                thread[u].pc \in {"remediate", "verify"}
      BY <1>3, <2>1
    <3>2. PICK g \in DOMAIN finding : g = thread[u].object
      BY <1>0, <3>1, AtWork
    <3>3. /\ Verdict(g) # "NO_ACTION"
          /\ thread[u].pc \in {"remediate", "verify"} =>
                finding[g].status # "AWAITING_APPROVAL"
      BY <1>0, <3>1, <3>2 DEF LetThrough
    <3>4. Verdict(thread[u].object)' = Verdict(g)
      BY <1>4, <3>1, <3>2 DEF Verdict
    <3> QED
      BY <3>1, <3>2, <3>3, <3>4
  <2>2. CASE u = t /\ s.object \in listed /\ finding[s.object].status = "AWAITING_APPROVAL"
    <3>1. PICK g \in DOMAIN finding : g = s.object
      BY <1>1, <2>2
    <3>2. Verdict(g) # "NO_ACTION"
      BY <1>0, <2>2, <3>1 DEF AwaitingIsUntouched
    <3>3. Verdict(thread[u].object)' = Verdict(g)
      BY <1>3, <1>4, <2>2, <3>1 DEF Verdict
    <3> QED
      BY <1>3, <2>2, <3>2, <3>3
  <2> QED
    BY <1>3, <2>1, <2>2
<1>10. AllowedAtLayer'
  BY <1>0, <1>4 DEF AllowedAtLayer, Verdict, Untouched
<1>11. ConsentInHand'
  <2> SUFFICES ASSUME NEW g \in DOMAIN finding'
               PROVE  finding'[g].effects + Cardinality(Remediators(g)') <= Permitted(g)'
    BY DEF ConsentInHand
  <2>1. Remediators(g)' = Remediators(g)
    BY <1>3 DEF Remediators
  <2>2. CASE g \in DOMAIN finding
    <3>1. finding[g].effects + Cardinality(Remediators(g)) <= Permitted(g)
      BY <1>0, <2>2 DEF ConsentInHand
    <3>2. Permitted(g)' = Permitted(g)
      BY <2>2 DEF Permitted
    <3> QED  BY <2>1, <2>2, <3>1, <3>2
  <2>3. CASE g \notin DOMAIN finding
    <3>1. Remediators(g)' = {}
      BY <1>0, <2>1, <2>3, AtWork DEF Remediators
    <3>2. Untouched(finding'[g])
      BY <2>3
    <3> QED  BY <3>1, <3>2, FS_EmptySet DEF Permitted, Untouched
  <2> QED  BY <2>2, <2>3
<1>12. InHand'
  <2>1. \A g, u : u \in Threads /\ thread[u].pc \in {"remediate", "verify"} /\ thread[u].object = g
                  => thread[u]' = thread[u]
    BY <1>3
  <2> QED
    BY <1>0, <2>1 DEF InHand, Untouched
<1> QED
  BY <1>5, <1>6, <1>7, <1>8, <1>9, <1>10, <1>11, <1>12 DEF FindingsInv

-----------------------------------------------------------------------------
(* The updates, one lemma for each action.                                 *)

\* A remediation keeps the cluster well formed.
LEMMA RemediateTyped ==
    ASSUME FindingsTypeOK, NEW spec \in Specs, Remediate(spec)
    PROVE  replicas' \in [Deployments -> Int] /\ serving' \subseteq Deployments
<1>1. spec.plan.desired \in Int /\ Desired(spec.plan) \in Int
  BY FindingsAssumption DEF Desired
<1>2. replicas \in [Deployments -> Int] /\ serving \subseteq Deployments
  BY DEF FindingsTypeOK
<1>3. CASE Scale(spec.plan)
  BY <1>1, <1>2, <1>3 DEF Scale
<1>4. CASE Restart
  BY <1>2, <1>4, FindingsAssumption DEF Restart
<1>5. CASE Harden(spec.plan.action, spec.resource)
  BY <1>2, <1>5 DEF Harden
<1>6. CASE UNCHANGED cluster
  BY <1>2, <1>6 DEF cluster
<1> QED
  BY <1>3, <1>4, <1>5, <1>6 DEF Remediate

\* What a thread at work on a finding may rely on.
LEMMA Working ==
    ASSUME FindingsInv, NEW t \in Threads,
           thread[t].pc \in {"evaluate", "remediate", "verify", "decide"}
    PROVE  /\ FindingsTypeOK /\ thread[t] \in ThreadStates /\ StageOK(thread[t])
           /\ thread[t].object \in DOMAIN finding
           /\ finding[thread[t].object] \in FindingObjects
           /\ SpecOf(t) \in Specs
           /\ finding[thread[t].object].effects \in Nat
           /\ finding[thread[t].object].consents \in Nat
           /\ Permitted(thread[t].object) \in Nat
<1>1. /\ FindingsTypeOK /\ thread[t] \in ThreadStates /\ StageOK(thread[t])
      /\ thread[t].object \in DOMAIN finding
  BY AtWork DEF FindingsInv, FindingsTypeOK, Stages
<1>2. finding[thread[t].object] \in FindingObjects
  BY <1>1 DEF FindingsTypeOK
<1>3. /\ finding[thread[t].object].effects \in Nat
      /\ finding[thread[t].object].consents \in Nat
      /\ SpecOf(t) \in Specs
  BY <1>2 DEF FindingObjects, SpecOf
<1> QED
  BY <1>1, <1>2, <1>3 DEF Permitted

\* The cluster keeps its form when nothing happens to it.
LEMMA ClusterTyped ==
    ASSUME FindingsTypeOK, UNCHANGED cluster
    PROVE  replicas' \in [Deployments -> Int] /\ serving' \subseteq Deployments
BY DEF FindingsTypeOK, cluster

\* The policy's decision is recorded on a finding it has not seen.
LEMMA EvaluateKeeps ==
    ASSUME FindingsInv, NEW t \in Threads, EvaluatePolicy(t)
    PROVE  FindingsInv'
<1>1. thread[t].pc = "evaluate" /\ UNCHANGED <<store, lock, cluster, requests, resets>>
  BY DEF EvaluatePolicy, At
<1>2. PICK f : f = thread[t].object
  OBVIOUS
<1>3. /\ FindingsTypeOK /\ thread[t] \in ThreadStates /\ StageOK(thread[t])
      /\ f \in DOMAIN finding /\ finding[f] \in FindingObjects
  BY <1>1, <1>2, Working
<1>4. PICK d : d = Verdict(f)
  OBVIOUS
<1>5. d \in Decisions /\ d \in {"AUTO", "APPROVAL_REQUIRED", "NO_ACTION"}
  BY <1>3, <1>4, VerdictDecides
<1>6. PICK st \in FindingStatuses :
         /\ st = CASE d = "AUTO" -> "REMEDIATING"
                   [] d = "APPROVAL_REQUIRED" -> "AWAITING_APPROVAL"
                   [] OTHER -> "OPEN"
         /\ d = "AUTO" => st = "REMEDIATING"
         /\ d = "APPROVAL_REQUIRED" => st = "AWAITING_APPROVAL"
         /\ d = "NO_ACTION" => st = "OPEN"
  BY <1>5, StatusLiterals
<1>7. PICK rem \in RemediationStatuses :
         rem = IF d = "AUTO" THEN "in_progress" ELSE finding[f].remediation
  BY <1>3, StatusLiterals DEF FindingObjects
<1> DEFINE r == [finding[f] EXCEPT !.decision = d, !.status = st, !.remediation = rem]
<1>8. /\ r \in FindingObjects
      /\ r.spec = finding[f].spec /\ r.id = finding[f].id
      /\ r.decision = d /\ r.status = st /\ r.remediation = rem
      /\ r.effects = finding[f].effects /\ r.consents = finding[f].consents
  BY <1>3, <1>5 DEF FindingObjects
<1>9. finding' = [finding EXCEPT ![f] = r]
  <2>1. finding' = [finding EXCEPT
          ![f].decision = d,
          ![f].status = CASE d = "AUTO" -> "REMEDIATING"
                          [] d = "APPROVAL_REQUIRED" -> "AWAITING_APPROVAL"
                          [] OTHER -> "OPEN",
          ![f].remediation = IF d = "AUTO" THEN "in_progress" ELSE @]
    BY <1>2, <1>4, Zenon DEF EvaluatePolicy, Verdict, SpecOf
  <2> QED
    BY <1>3, <1>6, <1>7, <2>1 DEF FindingObjects
<1>10. PICK s \in ThreadStates :
              /\ thread' = [thread EXCEPT ![t] = s]
              /\ s.pc = IF d = "AUTO" THEN "remediate" ELSE "insert"
              /\ s.kind = thread[t].kind /\ s.object = thread[t].object
              /\ s.next = thread[t].next /\ s.wanted = thread[t].wanted
  <2>1. PICK p : p = IF d = "AUTO" THEN "remediate" ELSE "insert"
    OBVIOUS
  <2>2. p \in ProgramCounters
    BY <2>1, PcLiterals
  <2>3. Goto(t, p)
    BY <1>2, <1>4, <2>1, Zenon DEF EvaluatePolicy, Verdict, SpecOf
  <2>4. \E s \in ThreadStates :
           /\ thread' = [thread EXCEPT ![t] = s]
           /\ s.pc = p /\ s.kind = thread[t].kind /\ s.object = thread[t].object
           /\ s.next = thread[t].next /\ s.wanted = thread[t].wanted
    BY <1>3, <2>2, <2>3, GoesTo
  <2> QED
    BY <2>1, <2>4
<1>11. StageOK(s) /\ (HoldsLock(s) <=> HoldsLock(thread[t]))
  <2>1. CreatesIt(thread[t]) \/ Scans(thread[t])
    BY <1>1, <1>3 DEF StageOK
  <2>2. CreatesIt(s) \/ Scans(s)
    BY <1>10, <2>1 DEF CreatesIt, Scans
  <2>3. s.object # Nothing /\ s.pc \in {"remediate", "insert"}
    BY <1>1, <1>3, <1>10 DEF StageOK
  <2>4. HoldsLock(s)
    BY <2>2, <2>3, ScanPositions DEF HoldsLock, CreatesIt, Scans
  <2> QED
    BY <1>1, <2>2, <2>3, <2>4 DEF StageOK, HoldsLock
<1>12. Scans(s) => Scans(thread[t])
  BY <1>10 DEF Scans
<1>13. Untouched(finding[f])
  BY <1>1, <1>2 DEF FindingsInv, FreshIsPrivate, Untouched
<1>14. Permitted(f) = 0
  BY <1>13 DEF Permitted, Untouched
<1>15. UNCHANGED <<store, lock, resets>> /\ UNCHANGED cluster
  BY <1>1
<1>16. r.effects + (IF s.pc = "remediate" THEN 1 ELSE 0) + Permitted(f)
              <= r.consents + (IF r.decision = "AUTO" THEN 1 ELSE 0) + finding[f].effects
                    + (IF thread[t].pc = "remediate" THEN 1 ELSE 0)
  BY <1>1, <1>5, <1>8, <1>10, <1>13, <1>14 DEF Untouched
<1>17. replicas' \in [Deployments -> Int] /\ serving' \subseteq Deployments
  BY <1>3, <1>15, ClusterTyped
<1>18. s.object = f /\ s.pc \in {"remediate", "insert"}
  BY <1>2, <1>10
<1>19. s.pc = "remediate" <=> d = "AUTO"
  BY <1>10
<1>20. /\ r.status = "AWAITING_APPROVAL" => d = "APPROVAL_REQUIRED"
       /\ r.status = "REMEDIATING" => d = "AUTO"
       /\ r.remediation = "in_progress" => d = "AUTO"
       /\ r.effects = 0
  BY <1>5, <1>6, <1>7, <1>8, <1>13 DEF Untouched
<1> HIDE DEF r
<1>21. /\ s.object \in {f, 0}
       /\ s.pc \in {"idle", "insert", "remediate", "verify"}
       /\ s.pc \in {"remediate", "verify"} =>
             s.object = f /\ Verdict(f) # "NO_ACTION" /\ r.status # "AWAITING_APPROVAL"
       /\ Scans(s) => Scans(thread[t]) /\ s.next = thread[t].next /\ s.object = f
       /\ r.status = "REMEDIATING" => s.pc \in {"remediate", "verify"}
       /\ r.remediation = "in_progress" => s.pc = "remediate"
       /\ r.effects > 0 => Verdict(f) # "NO_ACTION"
  BY <1>4, <1>10, <1>12, <1>18, <1>19, <1>20
<1>22. r.status = "AWAITING_APPROVAL" =>
          /\ thread[t].pc = "evaluate" /\ Verdict(f) = "APPROVAL_REQUIRED"
          /\ r.decision = "APPROVAL_REQUIRED" /\ r.effects = 0
  BY <1>1, <1>4, <1>8, <1>20
<1> QED
  BY <1>1, <1>2, <1>8, <1>9, <1>10, <1>11, <1>15, <1>16, <1>17, <1>21, <1>22, UpdateKeeps

\* What a thread in the middle of a remediation knows of its finding.
LEMMA Remediating ==
    ASSUME FindingsInv, NEW t \in Threads, NEW f, f = thread[t].object,
           thread[t].pc \in {"remediate", "verify"}
    PROVE  Verdict(f) # "NO_ACTION" /\ finding[f].status # "AWAITING_APPROVAL"
BY DEF FindingsInv, LetThrough

\* The remediation took effect: the approval is used.
LEMMA RemediationSucceedsKeeps ==
    ASSUME FindingsInv, NEW t \in Threads, RemediationSucceeds(t)
    PROVE  FindingsInv'
<1>1. thread[t].pc = "remediate" /\ UNCHANGED <<store, lock, resets>>
  BY DEF RemediationSucceeds, At
<1>2. PICK f : f = thread[t].object
  OBVIOUS
<1>3. /\ FindingsTypeOK /\ thread[t] \in ThreadStates /\ StageOK(thread[t])
      /\ f \in DOMAIN finding /\ finding[f] \in FindingObjects /\ SpecOf(t) \in Specs
      /\ finding[f].effects \in Nat /\ finding[f].consents \in Nat
      /\ Permitted(f) \in Nat
  BY <1>1, <1>2, Working
<1>4. Verdict(f) # "NO_ACTION" /\ finding[f].status # "AWAITING_APPROVAL"
  BY <1>1, <1>2, Remediating
<1>0. PICK n \in Nat : n = finding[f].effects + 1
  BY <1>3
<1> DEFINE r == [finding[f] EXCEPT !.remediation = "complete",
                                   !.effects = n]
<1>5. /\ r \in FindingObjects
      /\ r.spec = finding[f].spec /\ r.id = finding[f].id
      /\ r.decision = finding[f].decision /\ r.status = finding[f].status
      /\ r.remediation = "complete"
      /\ r.effects = n /\ r.consents = finding[f].consents
  BY <1>3, StatusLiterals DEF FindingObjects
<1>6. finding' = [finding EXCEPT ![f] = r]
  BY <1>2, <1>3, <1>0 DEF RemediationSucceeds, FindingObjects
<1>7. PICK s \in ThreadStates :
              /\ thread' = [thread EXCEPT ![t] = s]
              /\ s.pc = "verify" /\ s.kind = thread[t].kind /\ s.object = thread[t].object
              /\ s.next = thread[t].next /\ s.wanted = thread[t].wanted
  BY <1>3, GoesTo, PcLiterals DEF RemediationSucceeds
<1>8. StageOK(s) /\ (HoldsLock(s) <=> HoldsLock(thread[t]))
  BY <1>1, <1>3, <1>7 DEF StageOK, HoldsLock, CreatesIt, Scans, Decides
<1>9. replicas' \in [Deployments -> Int] /\ serving' \subseteq Deployments
  BY <1>3, RemediateTyped DEF RemediationSucceeds
<1>10. Scans(s) => Scans(thread[t]) /\ s.next = thread[t].next /\ s.object = f
  BY <1>2, <1>7 DEF Scans
<1>11. r.effects + (IF s.pc = "remediate" THEN 1 ELSE 0) + Permitted(f)
              <= r.consents + (IF r.decision = "AUTO" THEN 1 ELSE 0) + finding[f].effects
                    + (IF thread[t].pc = "remediate" THEN 1 ELSE 0)
  BY <1>1, <1>3, <1>5, <1>7, <1>0 DEF Permitted
<1> HIDE DEF r
<1> QED
  BY <1>1, <1>2, <1>3, <1>4, <1>5, <1>6, <1>7, <1>8, <1>9, <1>10, <1>11, UpdateKeeps

\* The remediation failed before it did anything.
LEMMA RemediationFailsKeeps ==
    ASSUME FindingsInv, NEW t \in Threads, RemediationFails(t)
    PROVE  FindingsInv'
<1>1. thread[t].pc = "remediate" /\ UNCHANGED <<store, lock, resets>> /\ UNCHANGED cluster
  BY DEF RemediationFails, At
<1>2. PICK f : f = thread[t].object
  OBVIOUS
<1>3. /\ FindingsTypeOK /\ f \in DOMAIN finding /\ finding[f] \in FindingObjects
      /\ finding[f].effects \in Nat /\ finding[f].consents \in Nat
      /\ Permitted(f) \in Nat
  BY <1>1, <1>2, Working
<1>4. Verdict(f) # "NO_ACTION"
  BY <1>1, <1>2, Remediating
<1> DEFINE r == [finding[f] EXCEPT !.status = "OPEN", !.remediation = "failed"]
<1>5. /\ r \in FindingObjects
      /\ r.spec = finding[f].spec /\ r.id = finding[f].id
      /\ r.decision = finding[f].decision /\ r.status = "OPEN"
      /\ r.remediation = "failed"
      /\ r.effects = finding[f].effects /\ r.consents = finding[f].consents
  BY <1>3, StatusLiterals DEF FindingObjects
<1>6. finding' = [finding EXCEPT ![f] = r]
  BY <1>2, <1>3 DEF RemediationFails, FindingObjects
<1>7. PICK s \in ThreadStates :
              /\ thread' = [thread EXCEPT ![t] = s]
              /\ s.pc \in {"idle", "insert"}
              /\ s.pc = "insert" => s.object = thread[t].object
              /\ s.object \in {thread[t].object, 0}
              /\ StageOK(s) /\ (HoldsLock(s) <=> HoldsLock(thread[t]))
              /\ Scans(s) => /\ Scans(thread[t]) /\ s.next = thread[t].next
                             /\ s.object = thread[t].object
  BY <1>1, Finishes DEF RemediationFails
<1>8. replicas' \in [Deployments -> Int] /\ serving' \subseteq Deployments
  BY <1>1, <1>3, ClusterTyped
<1>9. r.effects + (IF s.pc = "remediate" THEN 1 ELSE 0) + Permitted(f)
              <= r.consents + (IF r.decision = "AUTO" THEN 1 ELSE 0) + finding[f].effects
                    + (IF thread[t].pc = "remediate" THEN 1 ELSE 0)
  BY <1>1, <1>3, <1>5, <1>7 DEF Permitted
<1> HIDE DEF r
<1> QED
  BY <1>1, <1>2, <1>3, <1>4, <1>5, <1>6, <1>7, <1>8, <1>9, UpdateKeeps

\* The remediation took effect and the answer was lost.
LEMMA RemediationFailsLateKeeps ==
    ASSUME FindingsInv, NEW t \in Threads, RemediationFailsLate(t)
    PROVE  FindingsInv'
<1>1. thread[t].pc = "remediate" /\ UNCHANGED <<store, lock, resets>>
  BY DEF RemediationFailsLate, At
<1>2. PICK f : f = thread[t].object
  OBVIOUS
<1>3. /\ FindingsTypeOK /\ f \in DOMAIN finding /\ finding[f] \in FindingObjects
      /\ SpecOf(t) \in Specs
      /\ finding[f].effects \in Nat /\ finding[f].consents \in Nat
      /\ Permitted(f) \in Nat
  BY <1>1, <1>2, Working
<1>4. Verdict(f) # "NO_ACTION"
  BY <1>1, <1>2, Remediating
<1>0. PICK n \in Nat : n = finding[f].effects + 1
  BY <1>3
<1> DEFINE r == [finding[f] EXCEPT !.status = "OPEN", !.remediation = "failed",
                                   !.effects = n]
<1>5. /\ r \in FindingObjects
      /\ r.spec = finding[f].spec /\ r.id = finding[f].id
      /\ r.decision = finding[f].decision /\ r.status = "OPEN"
      /\ r.remediation = "failed"
      /\ r.effects = n /\ r.consents = finding[f].consents
  BY <1>3, StatusLiterals DEF FindingObjects
<1>6. finding' = [finding EXCEPT ![f] = r]
  BY <1>2, <1>3, <1>0 DEF RemediationFailsLate, FindingObjects
<1>7. PICK s \in ThreadStates :
              /\ thread' = [thread EXCEPT ![t] = s]
              /\ s.pc \in {"idle", "insert"}
              /\ s.pc = "insert" => s.object = thread[t].object
              /\ s.object \in {thread[t].object, 0}
              /\ StageOK(s) /\ (HoldsLock(s) <=> HoldsLock(thread[t]))
              /\ Scans(s) => /\ Scans(thread[t]) /\ s.next = thread[t].next
                             /\ s.object = thread[t].object
  BY <1>1, Finishes DEF RemediationFailsLate
<1>8. replicas' \in [Deployments -> Int] /\ serving' \subseteq Deployments
  BY <1>3, RemediateTyped DEF RemediationFailsLate
<1>9. r.effects + (IF s.pc = "remediate" THEN 1 ELSE 0) + Permitted(f)
              <= r.consents + (IF r.decision = "AUTO" THEN 1 ELSE 0) + finding[f].effects
                    + (IF thread[t].pc = "remediate" THEN 1 ELSE 0)
  BY <1>1, <1>3, <1>5, <1>7, <1>0 DEF Permitted
<1> HIDE DEF r
<1> QED
  BY <1>1, <1>2, <1>3, <1>4, <1>5, <1>6, <1>7, <1>8, <1>9, UpdateKeeps

\* The checks after a remediation end it.
LEMMA VerifyRemediationKeeps ==
    ASSUME FindingsInv, NEW t \in Threads, VerifyRemediation(t)
    PROVE  FindingsInv'
<1>1. thread[t].pc = "verify" /\ UNCHANGED <<store, lock, resets>> /\ UNCHANGED cluster
  BY DEF VerifyRemediation, At
<1>2. PICK f : f = thread[t].object
  OBVIOUS
<1>3. /\ FindingsTypeOK /\ f \in DOMAIN finding /\ finding[f] \in FindingObjects
      /\ finding[f].effects \in Nat /\ finding[f].consents \in Nat
      /\ Permitted(f) \in Nat
  BY <1>1, <1>2, Working
<1>4. Verdict(f) # "NO_ACTION"
  BY <1>1, <1>2, Remediating
<1>0. PICK st \in FindingStatuses, v \in VerificationStatuses :
         /\ st \in {"REMEDIATED", "VERIFICATION_FAILED"}
         /\ finding' = [finding EXCEPT ![f].verification = v, ![f].status = st]
  BY <1>2, StatusLiterals DEF VerifyRemediation
<1> DEFINE r == [finding[f] EXCEPT !.verification = v, !.status = st]
<1>5. /\ r \in FindingObjects
      /\ r.spec = finding[f].spec /\ r.id = finding[f].id
      /\ r.decision = finding[f].decision /\ r.status = st
      /\ r.remediation = finding[f].remediation
      /\ r.effects = finding[f].effects /\ r.consents = finding[f].consents
  BY <1>3 DEF FindingObjects
<1>6. finding' = [finding EXCEPT ![f] = r]
  BY <1>0, <1>3 DEF FindingObjects
<1>7. PICK s \in ThreadStates :
              /\ thread' = [thread EXCEPT ![t] = s]
              /\ s.pc \in {"idle", "insert"}
              /\ s.pc = "insert" => s.object = thread[t].object
              /\ s.object \in {thread[t].object, 0}
              /\ StageOK(s) /\ (HoldsLock(s) <=> HoldsLock(thread[t]))
              /\ Scans(s) => /\ Scans(thread[t]) /\ s.next = thread[t].next
                             /\ s.object = thread[t].object
  BY <1>1, Finishes DEF VerifyRemediation
<1>8. replicas' \in [Deployments -> Int] /\ serving' \subseteq Deployments
  BY <1>1, <1>3, ClusterTyped
<1>9. r.effects + (IF s.pc = "remediate" THEN 1 ELSE 0) + Permitted(f)
              <= r.consents + (IF r.decision = "AUTO" THEN 1 ELSE 0) + finding[f].effects
                    + (IF thread[t].pc = "remediate" THEN 1 ELSE 0)
  BY <1>1, <1>3, <1>5, <1>7 DEF Permitted
<1>10. r.effects > 0 => Verdict(f) # "NO_ACTION"
  BY <1>4
<1>11. r.status \notin {"AWAITING_APPROVAL", "REMEDIATING"}
  BY <1>0, <1>5
<1>12. r.remediation = "in_progress" =>
          finding[f].remediation = "in_progress" /\ thread[t].pc # "remediate"
  BY <1>1, <1>5
<1> HIDE DEF r
<1> QED
  BY <1>1, <1>2, <1>4, <1>5, <1>6, <1>7, <1>8, <1>9, <1>10, <1>11, <1>12, UpdateKeeps

\* An approval pays for the remediation it starts.
LEMMA ApproveKeeps ==
    ASSUME FindingsInv, NEW t \in Threads, Approve(t)
    PROVE  FindingsInv'
<1>1. /\ thread[t].pc = "decide" /\ thread[t].kind = "approve"
      /\ UNCHANGED <<store, lock, resets>> /\ UNCHANGED cluster
  BY DEF Approve, At
<1>2. PICK f : f = thread[t].object
  OBVIOUS
<1>3. /\ FindingsTypeOK /\ thread[t] \in ThreadStates /\ StageOK(thread[t])
      /\ f \in DOMAIN finding /\ finding[f] \in FindingObjects
      /\ finding[f].effects \in Nat /\ finding[f].consents \in Nat
      /\ Permitted(f) \in Nat
  BY <1>1, <1>2, Working
<1>4. Verdict(f) # "NO_ACTION"
  BY <1>1, <1>2 DEF FindingsInv, LetThrough
<1>0. PICK n \in Nat : n = finding[f].consents + 1
  BY <1>3
<1> DEFINE r == [finding[f] EXCEPT !.status = "REMEDIATING", !.remediation = "in_progress",
                                   !.consents = n]
<1>5. /\ r \in FindingObjects
      /\ r.spec = finding[f].spec /\ r.id = finding[f].id
      /\ r.decision = finding[f].decision /\ r.status = "REMEDIATING"
      /\ r.remediation = "in_progress"
      /\ r.effects = finding[f].effects /\ r.consents = n
  BY <1>3, StatusLiterals DEF FindingObjects
<1>6. finding' = [finding EXCEPT ![f] = r]
  BY <1>0, <1>2, <1>3 DEF Approve, FindingObjects
<1>7. PICK s \in ThreadStates :
              /\ thread' = [thread EXCEPT ![t] = s]
              /\ s.pc = "remediate" /\ s.kind = thread[t].kind
              /\ s.object = thread[t].object
              /\ s.next = thread[t].next /\ s.wanted = thread[t].wanted
  BY <1>3, GoesTo, PcLiterals DEF Approve
<1>8. StageOK(s) /\ ~HoldsLock(s) /\ ~HoldsLock(thread[t]) /\ ~Scans(s)
  <2>1. s.next = 0 /\ s.object # Nothing
    BY <1>1, <1>3, <1>7 DEF StageOK
  <2> QED
    BY <1>1, <1>7, <2>1, ScanPositions DEF StageOK, HoldsLock, Decides, Scans
<1>9. replicas' \in [Deployments -> Int] /\ serving' \subseteq Deployments
  BY <1>1, <1>3, ClusterTyped
<1>10. r.effects + (IF s.pc = "remediate" THEN 1 ELSE 0) + Permitted(f)
              <= r.consents + (IF r.decision = "AUTO" THEN 1 ELSE 0) + finding[f].effects
                    + (IF thread[t].pc = "remediate" THEN 1 ELSE 0)
  BY <1>0, <1>1, <1>3, <1>5, <1>7 DEF Permitted
<1> HIDE DEF r
<1> QED
  BY ZenonT(60), <1>1, <1>2, <1>4, <1>5, <1>6, <1>7, <1>8, <1>9, <1>10, UpdateKeeps

\* A rejection changes no more than what the finding shows.
LEMMA RejectKeeps ==
    ASSUME FindingsInv, NEW t \in Threads, Reject(t)
    PROVE  FindingsInv'
<1>1. /\ thread[t].pc = "decide" /\ thread' = [thread EXCEPT ![t] = Idle]
      /\ UNCHANGED <<store, lock, resets>> /\ UNCHANGED cluster
  BY DEF Reject, At, Return
<1>2. PICK f : f = thread[t].object
  OBVIOUS
<1>3. /\ FindingsTypeOK /\ f \in DOMAIN finding /\ finding[f] \in FindingObjects
      /\ finding[f].effects \in Nat /\ finding[f].consents \in Nat
      /\ Permitted(f) \in Nat
  BY <1>1, <1>2, Working
<1>4. Verdict(f) # "NO_ACTION"
  BY <1>1, <1>2 DEF FindingsInv, LetThrough
<1> DEFINE r == [finding[f] EXCEPT !.status = "OPEN", !.remediation = "not_started"]
<1>5. /\ r \in FindingObjects
      /\ r.spec = finding[f].spec /\ r.id = finding[f].id
      /\ r.decision = finding[f].decision /\ r.status = "OPEN"
      /\ r.remediation = "not_started"
      /\ r.effects = finding[f].effects /\ r.consents = finding[f].consents
  BY <1>3, StatusLiterals DEF FindingObjects
<1>6. finding' = [finding EXCEPT ![f] = r]
  BY <1>2, <1>3 DEF Reject, FindingObjects
<1>7. replicas' \in [Deployments -> Int] /\ serving' \subseteq Deployments
  BY <1>1, <1>3, ClusterTyped
<1>8. PICK s \in ThreadStates :
         /\ s = Idle /\ s.pc = "idle" /\ s.object = 0
         /\ StageOK(s) /\ ~HoldsLock(s) /\ ~Scans(s)
  BY IdleState
<1>9. ~HoldsLock(thread[t])
  BY <1>1 DEF HoldsLock
<1>10. r.effects + (IF s.pc = "remediate" THEN 1 ELSE 0) + Permitted(f)
              <= r.consents + (IF r.decision = "AUTO" THEN 1 ELSE 0) + finding[f].effects
                    + (IF thread[t].pc = "remediate" THEN 1 ELSE 0)
  BY <1>1, <1>3, <1>5, <1>8 DEF Permitted
<1> HIDE DEF r
<1>11. thread' = [thread EXCEPT ![t] = s] /\ thread[t].object = f
       /\ (HoldsLock(s) <=> HoldsLock(thread[t])) /\ s.object \in {f, 0}
       /\ s.pc \in {"idle", "insert", "remediate", "verify"}
       /\ s.pc \notin {"remediate", "verify"}
  BY <1>1, <1>2, <1>8, <1>9
<1>12. r.status # "AWAITING_APPROVAL" /\ r.status # "REMEDIATING"
       /\ r.remediation # "in_progress" /\ (r.effects > 0 => Verdict(f) # "NO_ACTION")
  BY <1>4, <1>5
<1>13. UNCHANGED <<store, lock, resets>>
       /\ thread[t].pc \in {"evaluate", "remediate", "verify", "decide"}
  BY <1>1
<1>14. StageOK(s) /\ ~Scans(s)
  BY <1>8
<1> QED
  BY <1>5, <1>6, <1>7, <1>14, <1>10, <1>11, <1>12, <1>13, UpdateKeeps

-----------------------------------------------------------------------------
(* The quiet steps, one lemma for each action.                             *)

\* The scan stays in order when only one thread moves.
LEMMA ScanKept ==
    ASSUME FindingsInv, NEW t \in Threads,
           NEW s \in ThreadStates, thread' = [thread EXCEPT ![t] = s],
           UNCHANGED <<finding, store, resets>>,
           s.pc = "lookup" => seeded,
           Scans(s) => s.next = 1 /\ s.pc = "hydrate"
    PROVE  ScanInOrder'
<1>1. FindingsTypeOK /\ ScanInOrder
  BY DEF FindingsInv
<1>2. /\ thread[t]' = s
      /\ \A u \in Threads : u # t => thread[u]' = thread[u]
  BY <1>1, OneThreadMoves
<1>3. \A k : Scanned(k)' <=> Scanned(k)
  BY DEF Scanned, store
<1>4. /\ finding' = finding /\ counter' = counter /\ seeded' = seeded /\ resets' = resets
  BY DEF store
<1> SUFFICES ASSUME resets = 0
             PROVE  /\ counter = Len(finding)
                    /\ \A g \in DOMAIN finding : finding[g].id = g
                    /\ seeded => \A k \in DOMAIN Scan : Scanned(k)
                    /\ \A u \in Threads :
                          /\ thread'[u].pc = "lookup" => seeded
                          /\ Scans(thread[u])' =>
                                \A k \in 1 .. thread'[u].next - 1 : Scanned(k)
                          /\ Scans(thread[u])' /\ thread'[u].pc # "hydrate" =>
                                finding[thread'[u].object].spec = Scan[thread'[u].next]
  BY <1>3, <1>4 DEF ScanInOrder
<1>5. ASSUME NEW u \in Threads
      PROVE  /\ thread'[u].pc = "lookup" => seeded
             /\ Scans(thread[u])' =>
                   \A k \in 1 .. thread'[u].next - 1 : Scanned(k)
             /\ Scans(thread[u])' /\ thread'[u].pc # "hydrate" =>
                   finding[thread'[u].object].spec = Scan[thread'[u].next]
  <2>1. CASE u = t
    <3>1. thread'[u] = s /\ (Scans(thread[u])' <=> Scans(s))
      BY <1>2, <2>1 DEF Scans
    <3>2. Scans(s) => 1 .. s.next - 1 = {}
      OBVIOUS
    <3> QED  BY <3>1, <3>2
  <2>2. CASE u # t
    <3>1. thread'[u] = thread[u] /\ (Scans(thread[u])' <=> Scans(thread[u]))
      BY <1>2, <2>2 DEF Scans
    <3> QED  BY <1>1, <3>1 DEF ScanInOrder
  <2> QED  BY <2>1, <2>2
<1> QED
  BY <1>1, <1>5 DEF ScanInOrder

\* A step that adds no finding and lists none is quiet.
LEMMA OnlyMovesKeeps ==
    ASSUME FindingsInv, NEW t \in Threads,
           NEW s \in ThreadStates, thread' = [thread EXCEPT ![t] = s],
           UNCHANGED <<finding, store, cluster, resets>>, LockMoves(t, s), StageOK(s),
           thread[t].pc \in {"idle", "seed", "enter", "lookup"},
           s.pc \in {"seed", "hydrate", "lookup", "evaluate", "decide", "idle"},
           s.pc = "lookup" => seeded,
           Scans(s) => s.next = 1 /\ s.pc = "hydrate",
           s.object \in {thread[t].object, 0} \union listed,
           s.pc = "evaluate" => s.object = thread[t].object /\ thread[t].pc = "enter",
           s.pc = "decide" =>
              s.object \in listed /\ finding[s.object].status = "AWAITING_APPROVAL"
    PROVE  FindingsInv'
<1>1. ScanInOrder'
  BY ScanKept
<1>2. FindingsTypeOK
  BY DEF FindingsInv
<1>3. /\ finding' = finding /\ listed' = listed /\ counter' = counter /\ seeded' = seeded
      /\ UNCHANGED cluster
  BY DEF store
<1>4. /\ finding' \in Seq(FindingObjects) /\ Len(finding) <= Len(finding')
      /\ \A g \in DOMAIN finding : finding'[g] = finding[g]
      /\ \A g \in DOMAIN finding' \ DOMAIN finding : Untouched(finding'[g])
      /\ counter' \in Nat /\ seeded' \in BOOLEAN /\ listed' \subseteq listed
      /\ resets' \in Nat
  BY <1>2, <1>3 DEF FindingsTypeOK
<1>5. /\ thread[t].pc \notin {"remediate", "verify"} /\ s.pc \notin {"remediate", "verify"}
      /\ s.object \in {thread[t].object, 0} \union listed
                           \union (DOMAIN finding' \ DOMAIN finding)
      /\ s.pc \in {"enter", "evaluate"} =>
            s.object = thread[t].object /\ thread[t].pc \in {"enter", "evaluate"}
  OBVIOUS
<1> QED
  BY <1>1, <1>3, <1>4, <1>5, QuietKeeps

\* A thread that answers, from a line where it holds no lock.
LEMMA ReturnKeeps ==
    ASSUME FindingsInv, NEW t \in Threads, Return(t),
           UNCHANGED <<finding, store, lock, cluster, resets>>,
           thread[t].pc \in {"idle", "seed", "enter", "lookup"}
    PROVE  FindingsInv'
<1>1. PICK s \in ThreadStates : s = Idle
  BY IdleState
<1>2. /\ s.pc = "idle" /\ s.object = 0 /\ StageOK(s) /\ ~HoldsLock(s) /\ ~Scans(s)
  BY <1>1, IdleState
<1>3. thread' = [thread EXCEPT ![t] = s]
  BY <1>1 DEF Return
<1>4. LockMoves(t, s)
  BY <1>2 DEF LockMoves, HoldsLock
<1> QED
  BY <1>2, <1>3, <1>4, OnlyMovesKeeps

\* A request is taken up.
LEMMA ReadOrDecideKeeps ==
    ASSUME FindingsInv, NEW t \in Threads, NEW kind \in {"read", "approve", "reject"},
           NEW id \in Nat, ReadOrDecide(t, kind, id)
    PROVE  FindingsInv'
<1> DEFINE r == [Idle EXCEPT !.pc = "seed", !.kind = kind, !.wanted = id]
<1>1. PICK s \in ThreadStates : s = r
  BY PcLiterals DEF Idle, ThreadStates, Nothing
<1>2. s.pc = "seed" /\ s.kind = kind /\ s.object = 0 /\ s.next = 0
  BY <1>1 DEF Idle, Nothing
<1>3. thread' = [thread EXCEPT ![t] = s] /\ thread[t].pc = "idle"
  BY <1>1 DEF ReadOrDecide, At
<1>4. StageOK(s) /\ ~HoldsLock(s) /\ ~HoldsLock(thread[t]) /\ ~Scans(s)
  BY <1>2, <1>3, ScanPositions DEF StageOK, HoldsLock, Scans
<1>5. UNCHANGED <<finding, store, lock, cluster, resets>>
  BY DEF ReadOrDecide
<1>6. LockMoves(t, s)
  BY <1>4, <1>5 DEF LockMoves
<1> QED
  BY <1>2, <1>3, <1>4, <1>5, <1>6, OnlyMovesKeeps

\* The scan begins under the lock, or has been run.
LEMMA EnterSeedKeeps ==
    ASSUME FindingsInv, NEW t \in Threads, EnterSeed(t)
    PROVE  FindingsInv'
<1>1. /\ thread[t].pc = "seed" /\ lock = None
      /\ UNCHANGED <<finding, store, cluster, resets>>
  BY DEF EnterSeed, At
<1>2. /\ FindingsTypeOK /\ thread[t] \in ThreadStates /\ StageOK(thread[t])
      /\ ~HoldsLock(thread[t])
  BY <1>1 DEF FindingsInv, FindingsTypeOK, Stages, HoldsLock
<1>3. thread[t].kind \in {"read", "approve", "reject"} /\ thread[t].next = 0
  BY <1>1, <1>2 DEF StageOK
<1>4. CASE seeded
  <2>1. lock' = lock /\ Goto(t, "lookup")
    BY <1>4 DEF EnterSeed
  <2>2. PICK s \in ThreadStates :
              /\ thread' = [thread EXCEPT ![t] = s]
              /\ s.pc = "lookup" /\ s.kind = thread[t].kind
              /\ s.object = thread[t].object
              /\ s.next = thread[t].next /\ s.wanted = thread[t].wanted
    BY <1>2, <2>1, GoesTo, PcLiterals
  <2>3. StageOK(s) /\ ~HoldsLock(s) /\ ~Scans(s)
    BY <1>3, <2>2, ScanPositions DEF StageOK, HoldsLock, Scans
  <2>4. LockMoves(t, s)
    BY <1>2, <2>1, <2>3 DEF LockMoves
  <2> QED
    BY <1>1, <1>4, <2>2, <2>3, <2>4, OnlyMovesKeeps
<1>5. CASE ~seeded
  <2> DEFINE r == [thread[t] EXCEPT !.pc = "hydrate", !.next = 1]
  <2>1. /\ r \in ThreadStates /\ r.pc = "hydrate" /\ r.next = 1
        /\ r.kind = thread[t].kind /\ r.object = thread[t].object
    BY <1>2, PcLiterals DEF ThreadStates
  <2>2. PICK s \in ThreadStates : s = r
    BY <2>1
  <2>3. lock' = t /\ thread' = [thread EXCEPT ![t] = s]
    BY <1>2, <1>5, <2>2 DEF EnterSeed, FindingsTypeOK, ThreadStates
  <2>4. /\ s.pc = "hydrate" /\ s.next = 1
        /\ s.kind = thread[t].kind /\ s.object = thread[t].object
    BY <2>1, <2>2
  <2> HIDE DEF r
  <2>5. 1 \in DOMAIN Scan
    BY FindingsAssumption
  <2>6. StageOK(s) /\ HoldsLock(s)
    BY <1>3, <2>4, <2>5 DEF StageOK, HoldsLock, Scans
  <2>7. LockMoves(t, s)
    BY <1>1, <2>3, <2>6 DEF LockMoves
  <2> QED
    BY <1>1, <2>3, <2>4, <2>6, <2>7, OnlyMovesKeeps
<1> QED
  BY <1>4, <1>5

\* The pipeline of a new finding takes the lock.
LEMMA EnterPipelineKeeps ==
    ASSUME FindingsInv, NEW t \in Threads, EnterPipeline(t)
    PROVE  FindingsInv'
<1>1. /\ thread[t].pc = "enter" /\ lock = None /\ lock' = t
      /\ UNCHANGED <<finding, store, cluster, resets>>
  BY DEF EnterPipeline, At
<1>2. /\ FindingsTypeOK /\ StageOK(thread[t])
  BY DEF FindingsInv, Stages
<1>3. PICK s \in ThreadStates :
              /\ thread' = [thread EXCEPT ![t] = s]
              /\ s.pc = "evaluate" /\ s.kind = thread[t].kind
              /\ s.object = thread[t].object
              /\ s.next = thread[t].next /\ s.wanted = thread[t].wanted
  BY <1>2, GoesTo, PcLiterals DEF EnterPipeline
<1>4. CreatesIt(thread[t]) /\ thread[t].object # Nothing
  BY <1>1, <1>2 DEF StageOK
<1>5. StageOK(s) /\ HoldsLock(s) /\ ~Scans(s)
  BY <1>3, <1>4, ScanPositions DEF StageOK, HoldsLock, Scans, CreatesIt
<1>6. LockMoves(t, s)
  BY <1>1, <1>5 DEF LockMoves
<1> QED
  BY <1>1, <1>3, <1>5, <1>6, OnlyMovesKeeps

\* A decision goes on only with a finding that waits for it.
LEMMA LookUpKeeps ==
    ASSUME FindingsInv, NEW t \in Threads, LookUp(t)
    PROVE  FindingsInv'
<1>1. thread[t].pc = "lookup" /\ UNCHANGED <<finding, store, lock, cluster, resets>>
  BY DEF LookUp, At
<1>2. /\ FindingsTypeOK /\ thread[t] \in ThreadStates /\ StageOK(thread[t])
      /\ ~HoldsLock(thread[t])
  BY <1>1 DEF FindingsInv, FindingsTypeOK, Stages, HoldsLock
<1>3. CASE Return(t)
  BY <1>1, <1>3, ReturnKeeps
<1>4. CASE ~Return(t)
  <2>1. thread[t].kind # "read"
    BY <1>4 DEF LookUp
  <2>2. PICK f \in Wanted(t) :
           /\ finding[f].status = "AWAITING_APPROVAL"
           /\ thread' = [thread EXCEPT ![t].pc = "decide", ![t].object = f]
    BY <1>4 DEF LookUp
  <2>3. f \in listed /\ f \in Nat /\ f # 0
    BY <1>2, <2>2 DEF Wanted, FindingsTypeOK
  <2> DEFINE r == [thread[t] EXCEPT !.pc = "decide", !.object = f]
  <2>4. /\ r \in ThreadStates /\ r.pc = "decide" /\ r.object = f
        /\ r.kind = thread[t].kind /\ r.next = thread[t].next
    BY <1>2, <2>3, PcLiterals DEF ThreadStates
  <2>5. PICK s \in ThreadStates : s = r
    BY <2>4
  <2>6. thread' = [thread EXCEPT ![t] = s]
    BY <1>2, <2>2, <2>5 DEF FindingsTypeOK, ThreadStates
  <2>7. /\ s.pc = "decide" /\ s.object = f
        /\ s.kind = thread[t].kind /\ s.next = thread[t].next
    BY <2>4, <2>5
  <2> HIDE DEF r
  <2>8. StageOK(s) /\ ~HoldsLock(s) /\ ~Scans(s)
    BY <1>1, <1>2, <2>1, <2>3, <2>7, ScanPositions DEF StageOK, HoldsLock, Scans, Nothing
  <2>9. LockMoves(t, s)
    BY <1>1, <1>2, <2>8 DEF LockMoves
  <2> QED
    BY <1>1, <2>2, <2>3, <2>6, <2>7, <2>8, <2>9, OnlyMovesKeeps
<1> QED
  BY <1>3, <1>4

\* A finding nobody has looked at.
LEMMA HydratedObject ==
    ASSUME NEW spec \in Specs, counter \in Nat
    PROVE  /\ Hydrated(spec) \in FindingObjects /\ Untouched(Hydrated(spec))
           /\ Hydrated(spec).spec = spec /\ Hydrated(spec).id = counter + 1
BY StatusLiterals DEF Hydrated, FindingObjects, Untouched

\* A finding is added at the end, and the others stay.
LEMMA Added ==
    ASSUME FindingsTypeOK, NEW h \in FindingObjects, finding' = Append(finding, h)
    PROVE  /\ finding' \in Seq(FindingObjects)
           /\ Len(finding') = Len(finding) + 1
           /\ DOMAIN finding = 1 .. Len(finding) /\ DOMAIN finding' = 1 .. Len(finding')
           /\ DOMAIN finding' \ DOMAIN finding = {Len(finding) + 1}
           /\ finding'[Len(finding) + 1] = h
           /\ \A g \in DOMAIN finding : finding'[g] = finding[g]
BY DEF FindingsTypeOK

\* Adding a finding with the next id is quiet, whoever adds it.
LEMMA AddKeeps ==
    ASSUME FindingsInv, NEW t \in Threads, NEW spec \in Specs,
           NEW s \in ThreadStates, thread' = [thread EXCEPT ![t] = s],
           finding' = Append(finding, Hydrated(spec)), counter' = counter + 1,
           UNCHANGED <<listed, seeded, lock, cluster, resets>>,
           thread[t].pc \in {"idle", "hydrate"}, s.pc \in {"enter", "evaluate"},
           s.object = Len(finding) + 1, StageOK(s),
           HoldsLock(s) <=> HoldsLock(thread[t]),
           Scans(s) => /\ Scans(thread[t]) /\ s.next = thread[t].next
                       /\ spec = Scan[thread[t].next]
    PROVE  FindingsInv'
<1>0. FindingsTypeOK /\ Stages /\ ScanInOrder
  BY DEF FindingsInv
<1>1. counter \in Nat
  BY <1>0 DEF FindingsTypeOK
<1>2. PICK h \in FindingObjects :
         /\ h = Hydrated(spec) /\ Untouched(h) /\ h.spec = spec /\ h.id = counter + 1
  BY <1>1, HydratedObject
<1>3. /\ finding' \in Seq(FindingObjects)
      /\ Len(finding') = Len(finding) + 1
      /\ DOMAIN finding = 1 .. Len(finding) /\ DOMAIN finding' = 1 .. Len(finding')
      /\ DOMAIN finding' \ DOMAIN finding = {Len(finding) + 1}
      /\ finding'[Len(finding) + 1] = h
      /\ \A g \in DOMAIN finding : finding'[g] = finding[g]
  BY <1>0, <1>2, Added
<1>4. Len(finding) \in Nat
  BY <1>0 DEF FindingsTypeOK
<1>5. /\ thread[t]' = s
      /\ \A u \in Threads : u # t => thread[u]' = thread[u]
  BY <1>0, OneThreadMoves
<1>6. ScanInOrder'
  <2>1. \A k : Scanned(k)' <=> Scanned(k)
    BY <1>0, <1>3 DEF Scanned, FindingsTypeOK
  <2> SUFFICES ASSUME resets = 0
               PROVE  /\ counter' = Len(finding')
                      /\ \A g \in DOMAIN finding' : finding'[g].id = g
                      /\ seeded => \A k \in DOMAIN Scan : Scanned(k)
                      /\ \A u \in Threads :
                            /\ thread'[u].pc = "lookup" => seeded
                            /\ Scans(thread[u])' =>
                                  \A k \in 1 .. thread'[u].next - 1 : Scanned(k)
                            /\ Scans(thread[u])' /\ thread'[u].pc # "hydrate" =>
                                  finding'[thread'[u].object].spec = Scan[thread'[u].next]
    BY <2>1 DEF ScanInOrder
  <2>2. /\ counter = Len(finding)
        /\ \A g \in DOMAIN finding : finding[g].id = g
        /\ seeded => \A k \in DOMAIN Scan : Scanned(k)
    BY <1>0 DEF ScanInOrder
  <2>3. counter' = Len(finding')
    BY <1>3, <2>2
  <2>4. \A g \in DOMAIN finding' : finding'[g].id = g
    BY <1>2, <1>3, <2>2
  <2>5. ASSUME NEW u \in Threads
        PROVE  /\ thread'[u].pc = "lookup" => seeded
               /\ Scans(thread[u])' =>
                     \A k \in 1 .. thread'[u].next - 1 : Scanned(k)
               /\ Scans(thread[u])' /\ thread'[u].pc # "hydrate" =>
                     finding'[thread'[u].object].spec = Scan[thread'[u].next]
    <3>1. CASE u = t
      <4>1. thread'[u] = s /\ (Scans(thread[u])' <=> Scans(s))
        BY <1>5, <3>1 DEF Scans
      <4>2. finding'[s.object].spec = spec
        BY <1>2, <1>3
      <4>3. Scans(thread[t]) => \A k \in 1 .. thread[t].next - 1 : Scanned(k)
        BY <1>0 DEF ScanInOrder
      <4> QED  BY <4>1, <4>2, <4>3
    <3>2. CASE u # t
      <4>1. thread'[u] = thread[u] /\ (Scans(thread[u])' <=> Scans(thread[u]))
        BY <1>5, <3>2 DEF Scans
      <4>2. Scans(thread[u]) /\ thread[u].pc # "hydrate" =>
               finding'[thread[u].object].spec = finding[thread[u].object].spec
        BY <1>0, <1>3, ScansAtWork
      <4>3. /\ thread[u].pc = "lookup" => seeded
            /\ Scans(thread[u]) => \A k \in 1 .. thread[u].next - 1 : Scanned(k)
            /\ Scans(thread[u]) /\ thread[u].pc # "hydrate" =>
                  finding[thread[u].object].spec = Scan[thread[u].next]
        BY <1>0 DEF ScanInOrder
      <4> QED  BY <4>1, <4>2, <4>3
    <3> QED  BY <3>1, <3>2
  <2> QED
    BY <2>2, <2>3, <2>4, <2>5
<1>7. LockMoves(t, s)
  BY DEF LockMoves
<1>8. /\ counter' \in Nat /\ seeded' \in BOOLEAN /\ listed' \subseteq listed
      /\ Len(finding) <= Len(finding') /\ resets' \in Nat
  BY <1>0, <1>1, <1>3, <1>4 DEF FindingsTypeOK
<1>9. /\ \A g \in DOMAIN finding' \ DOMAIN finding : Untouched(finding'[g])
      /\ s.object \in DOMAIN finding' \ DOMAIN finding
  BY <1>2, <1>3
<1>10. /\ thread[t].pc \notin {"remediate", "verify"} /\ s.pc \notin {"remediate", "verify"}
       /\ s.pc # "decide" /\ UNCHANGED cluster
  OBVIOUS
<1> QED
  BY <1>3, <1>6, <1>7, <1>8, <1>9, <1>10, QuietKeeps

\* A new finding gets its id before its pipeline runs.
LEMMA CreateFindingKeeps ==
    ASSUME FindingsInv, NEW t \in Threads, NEW spec \in Injected, CreateFinding(t, spec)
    PROVE  FindingsInv'
<1>1. FindingsTypeOK /\ spec \in Specs
  BY DEF FindingsInv, Specs
<1>2. PICK n \in Nat : n = Len(finding) + 1
  BY <1>1 DEF FindingsTypeOK
<1> DEFINE r == [Idle EXCEPT !.pc = "enter", !.kind = "create", !.object = n]
<1>3. /\ r \in ThreadStates /\ r.pc = "enter" /\ r.kind = "create" /\ r.object = n
      /\ r.next = 0
  BY PcLiterals DEF Idle, ThreadStates
<1>4. PICK s \in ThreadStates : s = r
  BY <1>3
<1>5. /\ thread' = [thread EXCEPT ![t] = s] /\ thread[t].pc = "idle"
      /\ finding' = Append(finding, Hydrated(spec)) /\ counter' = counter + 1
      /\ UNCHANGED <<listed, seeded, lock, cluster, resets>>
  BY <1>2, <1>4 DEF CreateFinding, At
<1>6. s.pc = "enter" /\ s.kind = "create" /\ s.object = n /\ s.next = 0
  BY <1>3, <1>4
<1> HIDE DEF r
<1>7. n # 0
  BY <1>1, <1>2 DEF FindingsTypeOK
<1>8. StageOK(s) /\ ~HoldsLock(s) /\ ~HoldsLock(thread[t]) /\ ~Scans(s)
  BY <1>5, <1>6, <1>7 DEF StageOK, HoldsLock, Scans, CreatesIt, Nothing
<1> QED
  BY <1>1, <1>2, <1>5, <1>6, <1>8, AddKeeps

\* The scan creates its next finding.
LEMMA HydrateScanKeeps ==
    ASSUME FindingsInv, NEW t \in Threads, HydrateScan(t)
    PROVE  FindingsInv'
<1>1. /\ thread[t].pc = "hydrate" /\ counter' = counter + 1
      /\ UNCHANGED <<listed, seeded, lock, cluster, resets>>
  BY DEF HydrateScan, At
<1>2. /\ FindingsTypeOK /\ thread[t] \in ThreadStates /\ Scans(thread[t])
  BY <1>1 DEF FindingsInv, FindingsTypeOK, Stages, StageOK
<1>3. PICK spec \in Specs : spec = Scan[thread[t].next]
  BY <1>2, ScanSpec DEF Scans
<1>4. PICK n \in Nat : n = Len(finding) + 1
  BY <1>2 DEF FindingsTypeOK
<1>5. n # 0
  BY <1>2, <1>4 DEF FindingsTypeOK
<1> DEFINE r == [thread[t] EXCEPT !.pc = "evaluate", !.object = n]
<1>6. /\ r \in ThreadStates /\ r.pc = "evaluate" /\ r.object = n
      /\ r.kind = thread[t].kind /\ r.next = thread[t].next
  BY <1>2, PcLiterals DEF ThreadStates
<1>7. PICK s \in ThreadStates : s = r
  BY <1>6
<1>8. thread' = [thread EXCEPT ![t] = s]
  BY <1>2, <1>4, <1>7 DEF HydrateScan, FindingsTypeOK, ThreadStates
<1>9. /\ s.pc = "evaluate" /\ s.object = n
      /\ s.kind = thread[t].kind /\ s.next = thread[t].next
  BY <1>6, <1>7
<1> HIDE DEF r
<1>10. finding' = Append(finding, Hydrated(spec))
  BY <1>3 DEF HydrateScan
<1>11. Scans(s)
  BY <1>2, <1>9 DEF Scans
<1>12. StageOK(s) /\ HoldsLock(s) /\ HoldsLock(thread[t])
  BY <1>1, <1>5, <1>9, <1>11 DEF StageOK, HoldsLock, Nothing
<1> QED
  BY <1>1, <1>2, <1>3, <1>4, <1>8, <1>9, <1>10, <1>11, <1>12, AddKeeps

\* A reset drops the store and leaves the objects to those at work on them.
LEMMA ResetFindingsKeeps ==
    ASSUME FindingsInv, NEW t \in Threads, ResetFindings(t)
    PROVE  FindingsInv'
<1>1. /\ thread[t].pc = "idle" /\ resets' = resets + 1 /\ listed' = {} /\ counter' = 0
      /\ seeded' = FALSE /\ UNCHANGED <<finding, lock, thread, cluster>>
  BY DEF ResetFindings, At
<1>2. FindingsTypeOK /\ thread[t] \in ThreadStates /\ StageOK(thread[t]) /\ Stages
  BY DEF FindingsInv, FindingsTypeOK, Stages
<1>3. PICK s \in ThreadStates : s = thread[t]
  BY <1>2
<1>4. thread' = [thread EXCEPT ![t] = s]
  BY <1>1, <1>2, <1>3 DEF FindingsTypeOK
<1>5. resets' # 0 /\ resets' \in Nat
  BY <1>1, <1>2 DEF FindingsTypeOK
<1>6. ScanInOrder'
  BY <1>5 DEF ScanInOrder
<1>7. LockMoves(t, s)
  BY <1>1, <1>3 DEF LockMoves
<1>8. /\ finding' \in Seq(FindingObjects) /\ Len(finding) <= Len(finding')
      /\ \A g \in DOMAIN finding : finding'[g] = finding[g]
      /\ \A g \in DOMAIN finding' \ DOMAIN finding : Untouched(finding'[g])
      /\ UNCHANGED cluster
  BY <1>1, <1>2 DEF FindingsTypeOK
<1>9. counter' \in Nat /\ seeded' \in BOOLEAN /\ listed' \subseteq listed
  BY <1>1
<1>10. /\ s.pc = "idle" /\ thread[t].pc = "idle" /\ s.object = thread[t].object
       /\ StageOK(s)
  BY <1>1, <1>2, <1>3
<1> QED
  BY <1>4, <1>5, <1>6, <1>7, <1>8, <1>9, <1>10, QuietKeeps

\* What the store lists it goes on listing, until ids are given out again.
LEMMA InsertLists ==
    ASSUME FindingsInv, resets = 0, NEW f \in DOMAIN finding, listed' = List(f),
           UNCHANGED finding
    PROVE  /\ listed \subseteq listed' /\ f \in listed'
           /\ \A k : Scanned(k) => Scanned(k)'
<1>1. /\ listed \subseteq DOMAIN finding
      /\ \A g \in DOMAIN finding : finding[g].id = g
  BY DEF FindingsInv, FindingsTypeOK, ScanInOrder
<1>2. listed \subseteq listed' /\ f \in listed'
  BY <1>1 DEF List
<1> QED
  BY <1>2 DEF Scanned

\* The finding is listed, and the thread goes on with the scan or is done.
LEMMA InsertKeeps ==
    ASSUME FindingsInv, NEW t \in Threads, Insert(t)
    PROVE  FindingsInv'
<1>1. /\ thread[t].pc = "insert" /\ listed' = List(thread[t].object)
      /\ UNCHANGED <<finding, counter, cluster, resets>>
  BY DEF Insert, At
<1>2. /\ FindingsTypeOK /\ thread[t] \in ThreadStates /\ Stages /\ ScanInOrder
      /\ CreatesIt(thread[t]) \/ Scans(thread[t])
      /\ thread[t].object \in DOMAIN finding /\ HoldsLock(thread[t]) /\ lock = t
  BY <1>1, AtWork DEF FindingsInv, FindingsTypeOK, Stages, StageOK, HoldsLock
<1>3. PICK s \in ThreadStates :
         /\ thread' = [thread EXCEPT ![t] = s] /\ StageOK(s) /\ LockMoves(t, s)
         /\ s.pc \in {"idle", "hydrate", "lookup"}
         /\ s.object \in {thread[t].object, 0}
         /\ seeded' \in BOOLEAN
         /\ seeded => seeded'
         /\ Scans(s) => /\ s.pc = "hydrate" /\ Scans(thread[t])
                        /\ s.next = thread[t].next + 1
         /\ s.pc = "lookup" => seeded'
         /\ seeded' => seeded \/ (Scans(thread[t]) /\ thread[t].next = Len(Scan))
  <2>1. CASE thread[t].kind = "create"
    <3>1. PICK s \in ThreadStates : s = Idle
      BY IdleState
    <3>2. /\ s.pc = "idle" /\ s.object = 0 /\ StageOK(s) /\ ~HoldsLock(s) /\ ~Scans(s)
      BY <3>1, IdleState
    <3>3. thread' = [thread EXCEPT ![t] = s] /\ lock' = None /\ seeded' = seeded
      BY <2>1, <3>1 DEF Insert, Return
    <3>4. LockMoves(t, s)
      BY <1>2, <3>2, <3>3 DEF LockMoves
    <3> QED
      BY <1>2, <3>2, <3>3, <3>4 DEF FindingsTypeOK
  <2>2. CASE thread[t].kind # "create" /\ thread[t].next < Len(Scan)
    <3>1. Scans(thread[t])
      BY <1>2, <2>2 DEF CreatesIt
    <3>2. PICK n \in Nat : n = thread[t].next + 1
      BY <3>1, ScanPositions DEF Scans
    <3>3. n \in DOMAIN Scan
      BY <2>2, <3>1, <3>2, FindingsAssumption DEF Scans
    <3> DEFINE r == [thread[t] EXCEPT !.pc = "hydrate", !.next = n]
    <3>4. /\ r \in ThreadStates /\ r.pc = "hydrate" /\ r.next = n
          /\ r.kind = thread[t].kind /\ r.object = thread[t].object
      BY <1>2, PcLiterals DEF ThreadStates
    <3>5. PICK s \in ThreadStates : s = r
      BY <3>4
    <3>6. /\ thread' = [thread EXCEPT ![t] = s]
          /\ lock' = lock /\ seeded' = seeded
      BY <1>2, <2>2, <3>2, <3>5 DEF Insert, FindingsTypeOK, ThreadStates
    <3>7. /\ s.pc = "hydrate" /\ s.next = n
          /\ s.kind = thread[t].kind /\ s.object = thread[t].object
      BY <3>4, <3>5
    <3> HIDE DEF r
    <3>8. Scans(s) /\ StageOK(s) /\ HoldsLock(s)
      BY <3>1, <3>3, <3>7 DEF Scans, StageOK, HoldsLock
    <3>9. LockMoves(t, s)
      BY <1>2, <3>6, <3>8 DEF LockMoves
    <3> QED
      BY <1>2, <3>1, <3>2, <3>6, <3>7, <3>8, <3>9 DEF FindingsTypeOK
  <2>3. CASE thread[t].kind # "create" /\ ~(thread[t].next < Len(Scan))
    <3>1. Scans(thread[t])
      BY <1>2, <2>3 DEF CreatesIt
    <3>2. thread[t].next = Len(Scan)
      BY <2>3, <3>1, FindingsAssumption DEF Scans
    <3> DEFINE r == [thread[t] EXCEPT !.pc = "lookup", !.next = 0]
    <3>3. /\ r \in ThreadStates /\ r.pc = "lookup" /\ r.next = 0
          /\ r.kind = thread[t].kind /\ r.object = thread[t].object
      BY <1>2, PcLiterals DEF ThreadStates
    <3>4. PICK s \in ThreadStates : s = r
      BY <3>3
    <3>5. /\ thread' = [thread EXCEPT ![t] = s]
          /\ lock' = None /\ seeded' = TRUE
      BY <1>2, <2>3, <3>4 DEF Insert, FindingsTypeOK, ThreadStates
    <3>6. /\ s.pc = "lookup" /\ s.next = 0
          /\ s.kind = thread[t].kind /\ s.object = thread[t].object
      BY <3>3, <3>4
    <3> HIDE DEF r
    <3>7. ~Scans(s) /\ StageOK(s) /\ ~HoldsLock(s)
      BY <3>1, <3>6, ScanPositions DEF Scans, StageOK, HoldsLock
    <3>8. LockMoves(t, s)
      BY <1>2, <3>5, <3>7 DEF LockMoves
    <3> QED
      BY <3>1, <3>2, <3>5, <3>6, <3>7, <3>8
  <2> QED
    BY <2>1, <2>2, <2>3
<1>4. /\ thread[t]' = s
      /\ \A u \in Threads : u # t => thread[u]' = thread[u]
  BY <1>2, <1>3, OneThreadMoves
<1>5. ScanInOrder'
  <2> SUFFICES ASSUME resets = 0
               PROVE  /\ counter = Len(finding)
                      /\ \A g \in DOMAIN finding : finding[g].id = g
                      /\ seeded' => \A k \in DOMAIN Scan : Scanned(k)'
                      /\ \A u \in Threads :
                            /\ thread'[u].pc = "lookup" => seeded'
                            /\ Scans(thread[u])' =>
                                  \A k \in 1 .. thread'[u].next - 1 : Scanned(k)'
                            /\ Scans(thread[u])' /\ thread'[u].pc # "hydrate" =>
                                  finding[thread'[u].object].spec = Scan[thread'[u].next]
    BY <1>1 DEF ScanInOrder
  <2>1. PICK f \in DOMAIN finding : f = thread[t].object
    BY <1>2
  <2>2. f \in listed' /\ \A k : Scanned(k) => Scanned(k)'
    BY <1>1, <2>1, InsertLists
  <2>3. /\ counter = Len(finding)
        /\ \A g \in DOMAIN finding : finding[g].id = g
        /\ seeded => \A k \in DOMAIN Scan : Scanned(k)
    BY <1>2 DEF ScanInOrder
  <2>4. Scans(thread[t]) => \A k \in 1 .. thread[t].next : Scanned(k)'
    <3> SUFFICES ASSUME Scans(thread[t]), NEW k \in 1 .. thread[t].next
                 PROVE  Scanned(k)'
      OBVIOUS
    <3>1. /\ \A j \in 1 .. thread[t].next - 1 : Scanned(j)
          /\ finding[f].spec = Scan[thread[t].next]
      BY <1>1, <1>2, <2>1 DEF ScanInOrder
    <3>2. thread[t].next \in Nat
      BY ScanPositions DEF Scans
    <3>3. CASE k = thread[t].next
      BY <1>1, <2>2, <3>1, <3>3 DEF Scanned
    <3>4. CASE k # thread[t].next
      <4>1. k \in 1 .. thread[t].next - 1
        BY <3>2, <3>4
      <4> QED  BY <2>2, <3>1, <4>1
    <3> QED  BY <3>3, <3>4
  <2>5. seeded' => \A k \in DOMAIN Scan : Scanned(k)'
    <3>1. CASE seeded
      BY <2>2, <2>3, <3>1
    <3>2. CASE Scans(thread[t]) /\ thread[t].next = Len(Scan)
      <4>1. DOMAIN Scan = 1 .. Len(Scan)
        BY FindingsAssumption
      <4> QED  BY <2>4, <3>2, <4>1
    <3> QED  BY <1>3, <3>1, <3>2
  <2>6. ASSUME NEW u \in Threads
        PROVE  /\ thread'[u].pc = "lookup" => seeded'
               /\ Scans(thread[u])' =>
                     \A k \in 1 .. thread'[u].next - 1 : Scanned(k)'
               /\ Scans(thread[u])' /\ thread'[u].pc # "hydrate" =>
                     finding[thread'[u].object].spec = Scan[thread'[u].next]
    <3>1. CASE u = t
      <4>1. thread'[u] = s /\ (Scans(thread[u])' <=> Scans(s))
        BY <1>4, <3>1 DEF Scans
      <4>2. Scans(s) => s.next - 1 = thread[t].next
        BY <1>3, ScanPositions DEF Scans
      <4>3. Scans(s) => \A k \in 1 .. s.next - 1 : Scanned(k)'
        BY <1>3, <2>4, <4>2
      <4>4. /\ s.pc = "lookup" => seeded'
            /\ Scans(s) => s.pc = "hydrate"
        BY <1>3
      <4> QED  BY <4>1, <4>3, <4>4
    <3>2. CASE u # t
      <4>1. thread'[u] = thread[u] /\ (Scans(thread[u])' <=> Scans(thread[u]))
        BY <1>4, <3>2 DEF Scans
      <4>2. /\ thread[u].pc = "lookup" => seeded
            /\ Scans(thread[u]) => \A k \in 1 .. thread[u].next - 1 : Scanned(k)
            /\ Scans(thread[u]) /\ thread[u].pc # "hydrate" =>
                  finding[thread[u].object].spec = Scan[thread[u].next]
        BY <1>2 DEF ScanInOrder
      <4> QED  BY <1>3, <2>2, <4>1, <4>2
    <3> QED  BY <3>1, <3>2
  <2> QED
    BY <2>3, <2>5, <2>6
<1>6. /\ finding' \in Seq(FindingObjects) /\ Len(finding) <= Len(finding')
      /\ \A g \in DOMAIN finding : finding'[g] = finding[g]
      /\ \A g \in DOMAIN finding' \ DOMAIN finding : Untouched(finding'[g])
      /\ counter' \in Nat /\ resets' \in Nat /\ UNCHANGED cluster
  BY <1>1, <1>2 DEF FindingsTypeOK
<1>7. /\ thread[t].pc = "insert" /\ listed' \subseteq listed \union {thread[t].object}
      /\ thread[t].pc \notin {"remediate", "verify"}
      /\ s.pc \notin {"remediate", "verify"}
      /\ s.pc \notin {"enter", "evaluate"} /\ s.pc # "decide"
      /\ s.object \in {thread[t].object, 0} \union listed
                           \union (DOMAIN finding' \ DOMAIN finding)
  BY <1>1, <1>3 DEF List
<1>8. /\ thread' = [thread EXCEPT ![t] = s] /\ StageOK(s) /\ LockMoves(t, s)
      /\ seeded' \in BOOLEAN
  BY <1>3
<1> QED
  BY <1>5, <1>6, <1>7, <1>8, QuietKeeps

-----------------------------------------------------------------------------
(* The induction.                                                          *)

\* At the start there is no finding and no request.
LEMMA InitFindingsInv == Init => FindingsInv
<1> SUFFICES ASSUME Init PROVE FindingsInv
  OBVIOUS
<1>1. /\ finding = <<>> /\ listed = {} /\ counter = 0 /\ seeded = FALSE /\ lock = None
      /\ replicas = InitialReplicas /\ serving = InitiallyServing /\ resets = 0
      /\ \A t \in Threads : thread[t] = Idle
  BY DEF Init
<1>2. /\ thread \in [Threads -> ThreadStates]
      /\ \A t \in Threads : /\ thread[t].pc = "idle" /\ thread[t].object = 0
                            /\ StageOK(thread[t]) /\ ~HoldsLock(thread[t])
                            /\ ~Scans(thread[t])
  BY <1>1, IdleState DEF Init
<1>3. finding \in Seq(FindingObjects) /\ DOMAIN finding = {} /\ Len(finding) = 0
  BY <1>1
<1>4. FindingsTypeOK
  <2>1. replicas \in [Deployments -> Int] /\ serving \subseteq Deployments
    BY <1>1, FindingsAssumption
  <2>2. /\ lock \in Threads \union {None}
        /\ \A t \in Threads : lock = t <=> HoldsLock(thread[t])
    BY <1>1, <1>2, FindingsAssumption
  <2>3. \A t \in Threads : thread[t].object \in 0 .. Len(finding)
    BY <1>2, <1>3
  <2> QED
    BY <1>1, <1>2, <1>3, <2>1, <2>2, <2>3 DEF FindingsTypeOK
<1>5. Stages /\ FreshIsPrivate /\ LetThrough
  BY <1>2 DEF Stages, FreshIsPrivate, LetThrough
<1>6. AwaitingIsUntouched /\ AllowedAtLayer /\ ConsentInHand /\ InHand
  BY <1>3 DEF AwaitingIsUntouched, AllowedAtLayer, ConsentInHand, InHand
<1>7. ScanInOrder
  BY <1>1, <1>2, <1>3 DEF ScanInOrder
<1> QED
  BY <1>4, <1>5, <1>6, <1>7 DEF FindingsInv

\* A request or a step of one thread preserves the inductive invariant.
LEMMA ThreadKeeps ==
    ASSUME FindingsInv, NEW t \in Threads, Request(t) \/ Step(t)
    PROVE  FindingsInv'
<1>1. CASE \E spec \in Injected : CreateFinding(t, spec)
  BY <1>1, CreateFindingKeeps
<1>2. CASE ReadOrDecide(t, "read", 0)
  BY <1>2, ReadOrDecideKeeps
<1>3. CASE \E f \in DOMAIN finding, kind \in {"approve", "reject"} :
              ReadOrDecide(t, kind, finding[f].id)
  <2>1. PICK f \in DOMAIN finding, kind \in {"approve", "reject"} :
              ReadOrDecide(t, kind, finding[f].id)
    BY <1>3
  <2>2. finding[f] \in FindingObjects
    BY DEF FindingsInv, FindingsTypeOK
  <2>3. PICK id \in Nat : id = finding[f].id
    BY <2>2 DEF FindingObjects
  <2> QED
    BY <2>1, <2>3, ReadOrDecideKeeps
<1>4. CASE ResetFindings(t)  BY <1>4, ResetFindingsKeeps
<1>5. CASE EnterSeed(t)  BY <1>5, EnterSeedKeeps
<1>6. CASE HydrateScan(t)  BY <1>6, HydrateScanKeeps
<1>7. CASE EnterPipeline(t)  BY <1>7, EnterPipelineKeeps
<1>8. CASE EvaluatePolicy(t)  BY <1>8, EvaluateKeeps
<1>9. CASE RemediationSucceeds(t)  BY <1>9, RemediationSucceedsKeeps
<1>10. CASE RemediationFails(t)  BY <1>10, RemediationFailsKeeps
<1>11. CASE RemediationFailsLate(t)  BY <1>11, RemediationFailsLateKeeps
<1>12. CASE VerifyRemediation(t)  BY <1>12, VerifyRemediationKeeps
<1>13. CASE Insert(t)  BY <1>13, InsertKeeps
<1>14. CASE LookUp(t)  BY <1>14, LookUpKeeps
<1>15. CASE Approve(t)  BY <1>15, ApproveKeeps
<1>16. CASE Reject(t)  BY <1>16, RejectKeeps
<1> QED
  BY <1>1, <1>2, <1>3, <1>4, <1>5, <1>6, <1>7, <1>8, <1>9, <1>10, <1>11, <1>12, <1>13,
     <1>14, <1>15, <1>16 DEF Request, Step

\* So does doing nothing.
LEMMA StutterKeepsFindings == FindingsInv /\ UNCHANGED vars => FindingsInv'
<1> SUFFICES ASSUME FindingsInv, UNCHANGED vars PROVE FindingsInv'
  OBVIOUS
<1>1. /\ finding' = finding /\ listed' = listed /\ counter' = counter /\ seeded' = seeded
      /\ lock' = lock /\ thread' = thread /\ replicas' = replicas /\ serving' = serving
      /\ resets' = resets
  BY DEF vars, store, cluster
<1>2. FindingsTypeOK' /\ Stages' /\ FreshIsPrivate'
  BY <1>1 DEF FindingsInv, FindingsTypeOK, Stages, FreshIsPrivate
<1>3. AwaitingIsUntouched' /\ LetThrough' /\ AllowedAtLayer'
  BY <1>1 DEF FindingsInv, AwaitingIsUntouched, LetThrough, AllowedAtLayer, Verdict
<1>4. ConsentInHand' /\ InHand'
  BY <1>1 DEF FindingsInv, ConsentInHand, InHand, Remediators, Permitted
<1>5. ScanInOrder'
  BY <1>1 DEF FindingsInv, ScanInOrder, Scanned, Scans
<1> QED
  BY <1>2, <1>3, <1>4, <1>5 DEF FindingsInv

\* Every step preserves the inductive invariant.
LEMMA NextFindingsInv == FindingsInv /\ [Next]_vars => FindingsInv'
BY ThreadKeeps, StutterKeepsFindings DEF Next

\* The inductive invariant always holds.
LEMMA AlwaysFindingsInv == Spec => []FindingsInv
BY InitFindingsInv, NextFindingsInv, PTL DEF Spec

-----------------------------------------------------------------------------
(* The theorems.                                                           *)

\* The findings service keeps its data well formed, and its lock in the hands
\* of the one thread that runs a pipeline (services/security.py, _lock).
THEOREM FindingsTypeCorrect == Spec => []FindingsTypeOK
<1>1. FindingsInv => FindingsTypeOK
  BY DEF FindingsInv
<1> QED
  BY <1>1, AlwaysFindingsInv, PTL

\* Nothing is remediated that the policy engine does not allow at the
\* finding's layer, whoever approves it (_run_pipeline_body, decide_finding).
THEOREM NeverBeyondLayer == Spec => []AllowedAtLayer
<1>1. FindingsInv => AllowedAtLayer
  BY DEF FindingsInv
<1> QED
  BY <1>1, AlwaysFindingsInv, PTL

\* However many threads decide on a finding at once, every remediation has an
\* approval of its own, except the one the policy lets run alone
\* (_finish_remediation has no lock of its own).
THEOREM NoEffectWithoutConsent == Spec => []EffectPerConsent
<1>1. FindingsInv => EffectPerConsent
  <2> SUFFICES ASSUME FindingsInv, NEW f \in DOMAIN finding
               PROVE  finding[f].effects <= Permitted(f)
    BY DEF EffectPerConsent, Permitted
  <2>1. finding[f] \in FindingObjects
    BY DEF FindingsInv, FindingsTypeOK
  <2>2. finding[f].effects \in Nat /\ finding[f].consents \in Nat
    BY <2>1 DEF FindingObjects
  <2>3. Permitted(f) \in Nat
    BY <2>2 DEF Permitted
  <2>4. finding[f].effects + Cardinality(Remediators(f)) <= Permitted(f)
    BY DEF FindingsInv, ConsentInHand
  <2>5. Cardinality(Remediators(f)) \in Nat
    BY RemediatorsFinite
  <2> QED
    BY <2>2, <2>3, <2>4, <2>5
<1> QED
  BY <1>1, AlwaysFindingsInv, PTL

\* Who looks at the findings sees the whole scan, until somebody resets them:
\* the scan is run once, under the lock, and nobody passes it (_seed).
THEOREM ScanIsSeenWhole == Spec => []SeesWholeScan
<1>1. FindingsInv => SeesWholeScan
  BY DEF FindingsInv, ScanInOrder, SeesWholeScan, Scanned, At
<1> QED
  BY <1>1, AlwaysFindingsInv, PTL

\* A finding that shows a remediation under way has a thread that will end
\* it, and one that waits for a decision is untouched (_finish_remediation).
THEOREM RemediationIsAlwaysInHand == Spec => []NoFindingStranded
<1>1. FindingsInv => NoFindingStranded
  <2> SUFFICES ASSUME FindingsInv, NEW f \in listed, \A t \in Threads : ~WorksOn(t, f)
               PROVE  /\ finding[f].status # "REMEDIATING"
                      /\ finding[f].remediation # "in_progress"
                      /\ finding[f].status = "AWAITING_APPROVAL" =>
                            finding[f].decision = "APPROVAL_REQUIRED" /\ finding[f].effects = 0
    BY DEF NoFindingStranded
  <2>1. f \in DOMAIN finding
    BY DEF FindingsInv, FindingsTypeOK
  <2>2. finding[f].status # "REMEDIATING" /\ finding[f].remediation # "in_progress"
    BY <2>1 DEF FindingsInv, InHand, WorksOn
  <2>3. finding[f].status = "AWAITING_APPROVAL" =>
           finding[f].decision = "APPROVAL_REQUIRED" /\ finding[f].effects = 0
    BY <2>1 DEF FindingsInv, AwaitingIsUntouched
  <2> QED
    BY <2>2, <2>3
<1> QED
  BY <1>1, AlwaysFindingsInv, PTL
=============================================================================
