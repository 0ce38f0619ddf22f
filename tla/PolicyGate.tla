------------------------------ MODULE PolicyGate ------------------------------
(***************************************************************************)
(* What the workflow promises the operator, whatever the threads do: the   *)
(* cluster is changed only by an action the policy engine allowed for that *)
(* incident, and where the policy asks for a human, only on behalf of a    *)
(* human decision that has not been used yet.                              *)
(***************************************************************************)
EXTENDS Sequences

CONSTANTS Requesters, Subjects, Actions, Nobody

VARIABLES
    allowed,    \* <<subject, action, decision>> triples the policy has allowed
    consent,    \* consent[r]: the subject for which r may act once, or Nobody
    acts        \* the actions taken on behalf of each subject, in order

gateVars == <<allowed, consent, acts>>

GateInit ==
    /\ allowed = {}
    /\ consent = [r \in Requesters |-> Nobody]
    /\ acts = [s \in Subjects |-> <<>>]

Allow(s, a, d) ==
    /\ d \in {"AUTO", "APPROVAL_REQUIRED"}
    /\ allowed' = allowed \union {<<s, a, d>>}
    /\ UNCHANGED <<consent, acts>>

\* A human approves: one use of one subject's pending action.
Consent(r, s) ==
    /\ consent[r] = Nobody
    /\ \E a \in Actions : <<s, a, "APPROVAL_REQUIRED">> \in allowed
    /\ consent' = [consent EXCEPT ![r] = s]
    /\ UNCHANGED <<allowed, acts>>

\* The consent is not used.
Lapse(r) ==
    /\ consent' = [consent EXCEPT ![r] = Nobody]
    /\ UNCHANGED <<allowed, acts>>

Act(r, s, a) ==
    /\ \/ <<s, a, "AUTO">> \in allowed
       \/ <<s, a, "APPROVAL_REQUIRED">> \in allowed /\ consent[r] = s
    /\ acts' = [acts EXCEPT ![s] = Append(@, a)]
    /\ consent' = [consent EXCEPT ![r] = Nobody]
    /\ UNCHANGED allowed

GateNext ==
    \/ \E s \in Subjects, a \in Actions, d \in {"AUTO", "APPROVAL_REQUIRED"} : Allow(s, a, d)
    \/ \E r \in Requesters :
          \/ Lapse(r)
          \/ \E s \in Subjects :
                \/ Consent(r, s)
                \/ \E a \in Actions : Act(r, s, a)

GateSpec == GateInit /\ [][GateNext]_gateVars
=============================================================================
