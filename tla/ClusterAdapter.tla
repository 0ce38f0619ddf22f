---------------------------- MODULE ClusterAdapter ----------------------------
(***************************************************************************)
(* The Kubernetes adapter of backend/services/kube.py in mode "auto": the  *)
(* probe and its cached answer, the three clients, and the calls that go   *)
(* to the cluster or to the simulation, by threads that share all of it    *)
(* without a lock.                                                         *)
(*                                                                         *)
(* A cluster that is made anew has a new endpoint.  An endpoint stands for *)
(* what the kubeconfig file says and for what a client was built with.     *)
(***************************************************************************)
EXTENDS Integers, Sequences

CONSTANTS
    Threads,
    Actions,        \* the actions that requests ask for; see Calls
    MaxEndpoints,   \* bound: clusters in one behaviour
    MaxOutages,     \* bound: times the cluster becomes unreachable
    None

VARIABLES
    cluster,        \* its endpoint, and whether it answers
    outages,        \* outages so far
    config,         \* the endpoint of the client library's configuration, or None
    client,         \* _api, _apps, _rbac: the endpoint each was built with, or None
    probe,          \* _last_probe: None, or its answer and whether it is within the TTL
    thread          \* where each request is

vars == <<cluster, outages, config, client, probe, thread>>

Clients == {"api", "apps", "rbac"}

\* The adapter's calls of an action and of its verification, each by the
\* client it uses: a scale first reads the deployment.
Calls(action) ==
    CASE action = "scale_deployment" ->
            << "apps", "apps", "apps" >>
      [] action = "restart_deployment" -> << "apps", "api" >>
      [] action = "rollback_rbac" -> << "rbac", "rbac" >>

ASSUME ActionsAssumption ==
    Actions \subseteq {"scale_deployment", "restart_deployment", "rollback_rbac"}

\* What _last_probe remembers.
Answers == [live : BOOLEAN, fresh : BOOLEAN]

\* None is neither an endpoint nor an answer.
ASSUME EndpointsAssumption ==
    MaxEndpoints \in Nat \ {0} /\ None \notin Nat /\ None \notin Answers

Idle == [at |-> "idle", probing |-> FALSE, calls |-> << >>, worlds |-> {}, steady |-> TRUE]

Init ==
    /\ cluster = [endpoint |-> 1, up |-> TRUE]
    /\ outages = 0
    /\ config = None
    /\ client = [c \in Clients |-> None]
    /\ probe = None
    /\ thread = [t \in Threads |-> Idle]

Goto(t, at) == thread' = [thread EXCEPT ![t].at = at]

\* The request has not used any answer of the probe so far.
Unbound(u) ==
    thread[u].worlds = {} /\ (thread[u].at \in {"idle", "mode"} \/ thread[u].probing)

\* What a request whose answer of the probe another one replaces, or time
\* outdates, can no longer count on.
Disturbed(u) ==
    IF Unbound(u) THEN thread[u] ELSE [thread[u] EXCEPT !.steady = FALSE]

-----------------------------------------------------------------------------
(* The cluster and the clock.                                              *)

Outage ==
    /\ cluster.up
    /\ outages < MaxOutages
    /\ outages' = outages + 1
    /\ cluster' = [cluster EXCEPT !.up = FALSE]
    /\ UNCHANGED <<config, client, probe, thread>>

Return ==
    /\ ~cluster.up
    /\ cluster' = [cluster EXCEPT !.up = TRUE]
    /\ UNCHANGED <<outages, config, client, probe, thread>>

Recreate ==
    /\ ~cluster.up
    /\ cluster.endpoint < MaxEndpoints
    /\ cluster' = [endpoint |-> cluster.endpoint + 1, up |-> TRUE]
    /\ UNCHANGED <<outages, config, client, probe, thread>>

\* _PROBE_TTL has passed.
Expire ==
    /\ probe # None
    /\ probe.fresh
    /\ probe' = [probe EXCEPT !.fresh = FALSE]
    /\ thread' = [u \in Threads |-> Disturbed(u)]
    /\ UNCHANGED <<cluster, outages, config, client>>

-----------------------------------------------------------------------------
(* A request, and the mode it finds before each of its calls.              *)

Begin(t, action) ==
    /\ thread[t] = Idle
    /\ thread' = [thread EXCEPT ![t] = [Idle EXCEPT !.at = "mode", !.calls = Calls(action)]]
    /\ UNCHANGED <<cluster, outages, config, client, probe>>

Fresh == probe # None /\ probe.fresh

UseAnswer(t) ==
    /\ thread[t].at = "mode"
    /\ Fresh
    /\ thread' = [thread EXCEPT ![t].at = IF probe.live THEN "ensure" ELSE "simulate"]
    /\ UNCHANGED <<cluster, outages, config, client, probe>>

BeginProbe(t) ==
    /\ thread[t].at = "mode"
    /\ ~Fresh
    /\ thread' = [thread EXCEPT ![t].at = "ensure", ![t].probing = TRUE]
    /\ UNCHANGED <<cluster, outages, config, client, probe>>

-----------------------------------------------------------------------------
(* _ensure_clients, in a probe and before a live call.                     *)

HaveClients(t) ==
    /\ thread[t].at = "ensure"
    /\ client["api"] # None
    /\ Goto(t, IF thread[t].probing THEN "check" ELSE "call")
    /\ UNCHANGED <<cluster, outages, config, client, probe>>

LoadConfig(t) ==
    /\ thread[t].at = "ensure"
    /\ client["api"] = None
    /\ config' = cluster.endpoint
    /\ Goto(t, "api")
    /\ UNCHANGED <<cluster, outages, client, probe>>

\* The kubeconfig of a cluster that is gone may be gone, too.  Outside a probe
\* the exception ends the request.
LoadFails(t) ==
    /\ thread[t].at = "ensure"
    /\ client["api"] = None
    /\ ~cluster.up
    /\ thread' = [thread EXCEPT ![t] = IF @.probing THEN [@ EXCEPT !.at = "drop_api"] ELSE Idle]
    /\ UNCHANGED <<cluster, outages, config, client, probe>>

BuildClient(t, name, next) ==
    /\ thread[t].at = name
    /\ client' = [client EXCEPT ![name] = config]
    /\ Goto(t, next)
    /\ UNCHANGED <<cluster, outages, config, probe>>

BuildClients(t) ==
    \/ BuildClient(t, "api", "apps")
    \/ BuildClient(t, "apps", "rbac")
    \/ BuildClient(t, "rbac", IF thread[t].probing THEN "check" ELSE "call")

-----------------------------------------------------------------------------
(* The rest of the probe.                                                  *)

\* The answer is cached, and this request goes on with it.
Answer(t, live) ==
    /\ probe' = [live |-> live, fresh |-> TRUE]
    /\ thread' = [u \in Threads |->
                    IF u = t
                    THEN [thread[t] EXCEPT !.at = IF live THEN "ensure" ELSE "simulate",
                                           !.probing = FALSE]
                    ELSE Disturbed(u)]
    /\ UNCHANGED <<cluster, outages, config, client>>

\* Another thread dropped the clients: no cluster, as far as the probe knows.
ProbeWithoutClients(t) ==
    /\ thread[t].at = "check"
    /\ client["api"] = None
    /\ Answer(t, FALSE)

\* The version is asked for with the library's configuration, not with a client.
Reachable(endpoint) == cluster.up /\ endpoint = cluster.endpoint

ProbeAnswers(t) ==
    /\ thread[t].at = "check"
    /\ client["api"] # None
    /\ Reachable(config)
    /\ Answer(t, TRUE)

\* Faulty variant: a cluster that does not answer is not asked again soon, and
\* the clients are kept.
ProbeFailsKeepsClients(t) ==
    /\ thread[t].at = "check"
    /\ client["api"] # None
    /\ ~Reachable(config)
    /\ Answer(t, FALSE)

\* No answer: the clients are dropped, one after the other.
ProbeFails(t) ==
    /\ thread[t].at = "check"
    /\ client["api"] # None
    /\ ~Reachable(config)
    /\ Goto(t, "drop_api")
    /\ UNCHANGED <<cluster, outages, config, client, probe>>

DropClient(t, at, name, next) ==
    /\ thread[t].at = at
    /\ client' = [client EXCEPT ![name] = None]
    /\ Goto(t, next)
    /\ UNCHANGED <<cluster, outages, config, probe>>

DropClients(t) ==
    \/ DropClient(t, "drop_api", "api", "drop_apps")
    \/ DropClient(t, "drop_apps", "apps", "drop_rbac")
    \/ DropClient(t, "drop_rbac", "rbac", "dropped")

\* Faulty variant: only a cluster that answers is remembered.
ProbeAnsweredUncached(t) ==
    /\ thread[t].at = "dropped"
    /\ thread' = [thread EXCEPT ![t].at = "simulate", ![t].probing = FALSE]
    /\ UNCHANGED <<cluster, outages, config, client, probe>>

ProbeAnswered(t) == thread[t].at = "dropped" /\ Answer(t, FALSE)

-----------------------------------------------------------------------------
(* The calls.                                                              *)

\* Faulty variant: a request that was answered calls once more.
DoneAndAsksAgain(t, world) ==
    thread' = [thread EXCEPT ![t].worlds = @ \union {world}, ![t].calls = Tail(@),
                             ![t].at = "mode"]

\* The call went to the world; the next one asks for the mode again.
Done(t, world) ==
    thread' = [thread EXCEPT ![t].worlds = @ \union {world}, ![t].calls = Tail(@),
                             ![t].at = IF Len(thread[t].calls) = 1 THEN "answered" ELSE "mode"]

Simulate(t) ==
    /\ thread[t].at = "simulate"
    /\ Done(t, "simulated")
    /\ UNCHANGED <<cluster, outages, config, client, probe>>

CallSucceeds(t) ==
    /\ thread[t].at = "call"
    /\ Reachable(client[Head(thread[t].calls)])
    /\ Done(t, "live")
    /\ UNCHANGED <<cluster, outages, config, client, probe>>

\* KubernetesUnavailable, also where the client is missing; the request fails.
CallFails(t) ==
    /\ thread[t].at = "call"
    /\ ~Reachable(client[Head(thread[t].calls)])
    /\ thread' = [thread EXCEPT ![t] = Idle]
    /\ UNCHANGED <<cluster, outages, config, client, probe>>

Reply(t) ==
    /\ thread[t].at = "answered"
    /\ thread' = [thread EXCEPT ![t] = Idle]
    /\ UNCHANGED <<cluster, outages, config, client, probe>>

Step(t) ==
    \/ \E action \in Actions : Begin(t, action)
    \/ UseAnswer(t) \/ BeginProbe(t)
    \/ HaveClients(t) \/ LoadConfig(t) \/ LoadFails(t) \/ BuildClients(t)
    \/ ProbeWithoutClients(t) \/ ProbeAnswers(t) \/ ProbeFails(t) \/ DropClients(t)
    \/ ProbeAnswered(t)
    \/ Simulate(t) \/ CallSucceeds(t) \/ CallFails(t) \/ Reply(t)

Next == Outage \/ Return \/ Recreate \/ Expire \/ \E t \in Threads : Step(t)

Spec == Init /\ [][Next]_vars

\* Requests keep coming and go on, and time passes.
FairSpec == Spec /\ WF_vars(Expire) /\ \A t \in Threads : WF_vars(Step(t))
=============================================================================
