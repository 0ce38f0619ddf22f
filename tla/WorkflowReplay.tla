---------------------------- MODULE WorkflowReplay ----------------------------
(***************************************************************************)
(* The replay of backend/api/workflow.py: the timeline of an incident,     *)
(* grouped by the stations of the pipeline, with the steps that have no    *)
(* entry in the timeline (the approval, the end) derived from its state.   *)
(*                                                                         *)
(* An entry of the timeline is the station its name maps to and a time.    *)
(* Times are in milliseconds; two entries are at least one apart.          *)
(***************************************************************************)
EXTENDS Integers, Sequences, SequencesExt

Pipeline ==
    << "classify", "collect_evidence", "correlate", "rag_retrieve", "diagnose", "assess_risk",
       "plan_remediation", "policy_check", "approval", "execute", "verify", "finalize" >>

Resolved ==
    {"REMEDIATED", "VERIFICATION_FAILED", "REJECTED", "NO_ACTION", "CLOSED", "FAILED"}

Entry(station, time) == [station |-> station, time |-> time]

\* Waiting for a person, or (were approval_required not set) what was decided.
ShowsApproval(inc) == inc.approval # "NOT_REQUIRED"

\* The approval and the end are derived from the state of the incident.
Derived(inc, station) ==
    \/ station = "approval" /\ ShowsApproval(inc)
    \/ station = "finalize" /\ inc.status \in Resolved

\* The entries of one station in the order of the timeline; the derived
\* entry, at time 0, is first.
Group(inc, station) ==
    LET grouped[n \in 0 .. Len(inc.timeline)] ==
            IF n = 0 THEN IF Derived(inc, station) THEN <<Entry(station, 0)>> ELSE << >>
            ELSE IF inc.timeline[n].station = station
                 THEN Append(grouped[n - 1], inc.timeline[n])
                 ELSE grouped[n - 1]
    IN  grouped[Len(inc.timeline)]

\* Faulty variant: an entry is moved only when it is earlier.
PushedEarlier(steps, e) ==
    Append(steps, IF e.time < Last(steps).time THEN [e EXCEPT !.time = Last(steps).time] ELSE e)

\* An entry that is not later than the one before it is moved behind it.
Pushed(steps, e) ==
    Append(steps, IF e.time <= Last(steps).time THEN [e EXCEPT !.time = Last(steps).time + 1] ELSE e)

Stitch(steps, chunk) ==
    LET pushed[n \in 0 .. Len(chunk)] ==
            IF n = 0 THEN steps ELSE Pushed(pushed[n - 1], chunk[n])
    IN  IF steps = << >> THEN chunk ELSE pushed[Len(chunk)]

\* Station by station in the order of the pipeline.
Replay(inc) ==
    LET stitched[n \in 0 .. Len(Pipeline)] ==
            IF n = 0 THEN << >> ELSE Stitch(stitched[n - 1], Group(inc, Pipeline[n]))
    IN  stitched[Len(Pipeline)]

\* The stations the replay lights up.
Stations(steps) == {steps[k].station : k \in DOMAIN steps}
=============================================================================
