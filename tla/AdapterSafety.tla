---------------------------- MODULE AdapterSafety ----------------------------
(* What the adapter promises while the cluster comes and goes. *)
EXTENDS ClusterAdapter

Locations ==
    {"idle", "mode", "ensure", "api", "apps", "rbac", "check", "drop_api", "drop_apps",
     "drop_rbac", "dropped", "simulate", "call", "answered"}

Worlds == {"live", "simulated"}

ThreadStates ==
    [at : Locations, probing : BOOLEAN, calls : Seq(Clients), worlds : SUBSET Worlds,
     steady : BOOLEAN]

\* The types of the adapter's state; no client is newer than the configuration
\* it was built with, and a thread that asks for the mode has a call to make.
AdapterTypeOK ==
    /\ cluster \in [endpoint : 1 .. MaxEndpoints, up : BOOLEAN]
    /\ outages \in Nat
    /\ config \in (1 .. cluster.endpoint) \union {None}
    /\ client \in [Clients -> Nat \union {None}]
    /\ \A c \in Clients : client[c] = None \/ (config # None /\ client[c] <= config)
    /\ probe \in Answers \union {None}
    /\ thread \in [Threads -> ThreadStates]
    /\ \A t \in Threads :
          thread[t].at \notin {"idle", "answered"} => thread[t].calls # << >>

\* Everything a request does, up to its verification, is done to the same
\* world, the cluster or the simulation, unless the cached answer of the probe
\* is replaced or runs out meanwhile (kube.py:46-71: an answer of either kind
\* is kept for _PROBE_TTL).
OneWorld ==
    \A t \in Threads :
        thread[t].at = "answered" /\ thread[t].steady =>
            ~({"live", "simulated"} \subseteq thread[t].worlds)

\* A thread probes from the moment it finds no answer until there is one.
Probing(t) ==
    /\ thread[t].at \in {"check", "drop_api", "drop_apps", "drop_rbac", "dropped"}
          => thread[t].probing
    /\ thread[t].probing => thread[t].at \notin {"idle", "mode", "simulate", "call", "answered"}

\* A thread that nothing has disturbed and that has begun to rely on an answer
\* of the probe relies on the one that is cached, and has acted accordingly.
ReliesOnAnswer(t) ==
    thread[t].steady /\ ~Unbound(t) =>
        /\ Fresh
        /\ ~thread[t].probing
        /\ thread[t].worlds \subseteq {IF probe.live THEN "live" ELSE "simulated"}
        /\ thread[t].at \in {"ensure", "api", "apps", "rbac", "call"} => probe.live
        /\ thread[t].at = "simulate" => ~probe.live

\* The inductive invariant behind OneWorld.
AdapterInv ==
    /\ AdapterTypeOK
    /\ \A t \in Threads : Probing(t) /\ ReliesOnAnswer(t)

\* A thread is among the clients.
Ensuring(t) == thread[t].at \in {"ensure", "check", "api", "apps", "rbac"}
Dropping(t) == thread[t].at \in {"drop_api", "drop_apps", "drop_rbac"}

\* A failed probe drops the clients while another thread builds or drops them.
Overlap ==
    \E t, u \in Threads : t # u /\ Dropping(t) /\ (Ensuring(u) \/ Dropping(u))

Current == \A c \in Clients : client[c] = cluster.endpoint

\* However often the cluster was down or made anew: once it stays up, all
\* clients are built for it in the end and are kept, if no failed probe
\* overlapped with another thread's use of the clients (kube.py:64-66).
Recovers == []~Overlap => (<>[]cluster.up => <>[]Current)

\* The same whatever overlaps, as the comment has it: "Drop the cached clients
\* so the next probe re-reads the kubeconfig. ... clients built for the old
\* endpoint would otherwise stay permanently dead" (kube.py:64-66).
RecoversAlways == <>[]cluster.up => <>[]Current
=============================================================================
