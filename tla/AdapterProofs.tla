---------------------------- MODULE AdapterProofs ----------------------------
(***************************************************************************)
(* The safety of the Kubernetes adapter for every number of threads, every *)
(* set of actions, and however often the cluster is down or made anew.     *)
(***************************************************************************)
EXTENDS AdapterSafety, TLAPS

-----------------------------------------------------------------------------
(* The values the actions write.                                           *)

\* The places the actions send a thread to are places.
LEMMA LocationLiterals ==
    /\ "idle" \in Locations /\ "mode" \in Locations /\ "ensure" \in Locations
    /\ "api" \in Locations /\ "apps" \in Locations /\ "rbac" \in Locations
    /\ "check" \in Locations /\ "drop_api" \in Locations /\ "drop_apps" \in Locations
    /\ "drop_rbac" \in Locations /\ "dropped" \in Locations /\ "simulate" \in Locations
    /\ "call" \in Locations /\ "answered" \in Locations
BY DEF Locations

\* An idle thread is a thread.
LEMMA IdleType == Idle \in ThreadStates
BY LocationLiterals DEF Idle, ThreadStates

\* Every action makes calls, and makes them by the adapter's clients.
LEMMA CallsType ==
    ASSUME NEW action \in Actions
    PROVE  Calls(action) \in Seq(Clients) /\ Calls(action) # << >>
<1>1. "api" \in Clients /\ "apps" \in Clients /\ "rbac" \in Clients
  BY DEF Clients
<1>2. CASE action = "scale_deployment"
  <2>1. Calls(action) = << "apps", "apps", "apps" >>
    BY <1>2 DEF Calls
  <2> QED
    BY <1>1, <2>1
<1>3. CASE action = "restart_deployment"
  <2>1. Calls(action) = << "apps", "api" >>
    BY <1>3 DEF Calls
  <2> QED
    BY <1>1, <2>1
<1>4. CASE action = "rollback_rbac"
  <2>1. Calls(action) = << "rbac", "rbac" >>
    BY <1>4 DEF Calls
  <2> QED
    BY <1>1, <2>1
<1> QED
  BY ActionsAssumption, <1>2, <1>3, <1>4

-----------------------------------------------------------------------------
(* The invariant, one part for what the threads share and one for each.    *)

\* The part of the invariant about what the threads share.
SharedOK ==
    /\ cluster \in [endpoint : 1 .. MaxEndpoints, up : BOOLEAN]
    /\ outages \in Nat
    /\ config \in (1 .. cluster.endpoint) \union {None}
    /\ client \in [Clients -> Nat \union {None}]
    /\ \A c \in Clients : client[c] = None \/ (config # None /\ client[c] <= config)
    /\ probe \in Answers \union {None}

\* The part about one thread.
ThreadOK(t) ==
    /\ thread[t].at \notin {"idle", "answered"} => thread[t].calls # << >>
    /\ Probing(t)
    /\ ReliesOnAnswer(t)

\* The parts make up the invariant.
LEMMA Parts ==
    AdapterInv <=>
        SharedOK /\ thread \in [Threads -> ThreadStates] /\ \A t \in Threads : ThreadOK(t)
BY DEF AdapterInv, AdapterTypeOK, SharedOK, ThreadOK

\* A step of one thread that leaves the answer of the probe alone keeps the
\* invariant if it keeps that thread's part of it.
LEMMA OneThreadMoves ==
    ASSUME AdapterInv, NEW t \in Threads, NEW r \in ThreadStates,
           thread' = [thread EXCEPT ![t] = r], probe' = probe, SharedOK', ThreadOK(t)'
    PROVE  AdapterInv'
<1>1. thread \in [Threads -> ThreadStates] /\ \A u \in Threads : ThreadOK(u)
  BY Parts
<1>2. thread' \in [Threads -> ThreadStates]
  BY <1>1
<1>3. ASSUME NEW u \in Threads, u # t PROVE ThreadOK(u)'
  <2>1. thread'[u] = thread[u]
    BY <1>1, <1>3
  <2> QED
    BY <1>1, <2>1 DEF ThreadOK, Probing, ReliesOnAnswer, Unbound, Fresh
<1>4. \A u \in Threads : ThreadOK(u)'
  BY <1>3
<1> QED
  BY <1>2, <1>4 DEF AdapterInv, AdapterTypeOK, SharedOK, ThreadOK

\* What the threads share keeps its types if it is left alone.
LEMMA SharedUnchanged ==
    ASSUME SharedOK, UNCHANGED <<cluster, outages, config, client, probe>>
    PROVE  SharedOK'
BY DEF SharedOK

\* A thread that moves on within the probe or to its call, where the answer it
\* relies on stays the same.
LEMMA GotoKeeps ==
    ASSUME AdapterInv, NEW t \in Threads, NEW to \in Locations,
           thread[t].at \notin {"idle", "mode", "simulate", "answered"},
           to \notin {"idle", "mode", "simulate", "answered"},
           to \in {"check", "drop_api", "drop_apps", "drop_rbac", "dropped"} => thread[t].probing,
           to = "call" => ~thread[t].probing,
           to \in {"ensure", "api", "apps", "rbac", "call"} /\ ~thread[t].probing
              => thread[t].at \in {"ensure", "api", "apps", "rbac", "call"},
           Goto(t, to), probe' = probe, SharedOK'
    PROVE  AdapterInv'
<1>1. thread \in [Threads -> ThreadStates] /\ ThreadOK(t)
  BY Parts
<1> DEFINE r == [thread[t] EXCEPT !.at = to]
<1>2. r \in ThreadStates /\ thread' = [thread EXCEPT ![t] = r]
  BY <1>1 DEF ThreadStates, Goto
<1>3. /\ r.at = to /\ r.probing = thread[t].probing /\ r.calls = thread[t].calls
      /\ r.worlds = thread[t].worlds /\ r.steady = thread[t].steady
  BY <1>1 DEF ThreadStates
<1>4. thread'[t] = r
  BY <1>1, <1>2
<1> HIDE DEF r
<1>5. (thread[t].at \notin {"idle", "answered"} => thread[t].calls # << >>)'
  BY <1>1, <1>3, <1>4 DEF ThreadOK
<1>6. Probing(t)'
  BY <1>1, <1>3, <1>4 DEF ThreadOK, Probing
<1>7. ReliesOnAnswer(t)'
  BY <1>1, <1>3, <1>4 DEF ThreadOK, Probing, ReliesOnAnswer, Unbound, Fresh
<1>8. ThreadOK(t)'
  BY <1>5, <1>6, <1>7 DEF ThreadOK
<1> QED
  BY <1>2, <1>8, OneThreadMoves

\* A thread whose request has ended.
LEMMA IdleKeeps ==
    ASSUME AdapterInv, NEW t \in Threads, thread' = [thread EXCEPT ![t] = Idle],
           UNCHANGED <<cluster, outages, config, client, probe>>
    PROVE  AdapterInv'
<1>1. thread \in [Threads -> ThreadStates] /\ SharedOK
  BY Parts
<1>2. thread'[t] = Idle
  BY <1>1
<1>3. ThreadOK(t)'
  BY <1>2 DEF ThreadOK, Probing, ReliesOnAnswer, Unbound, Idle
<1>4. SharedOK'
  BY <1>1, SharedUnchanged
<1> QED
  BY <1>3, <1>4, IdleType, OneThreadMoves

\* A thread that another one's answer disturbs keeps its part of the invariant,
\* whatever the answer.
LEMMA DisturbedKeeps ==
    ASSUME AdapterInv, NEW u \in Threads, thread'[u] = Disturbed(u)
    PROVE  Disturbed(u) \in ThreadStates /\ ThreadOK(u)'
<1>1. thread[u] \in ThreadStates /\ ThreadOK(u)
  BY Parts
<1>2. CASE Unbound(u)
  <2>1. thread'[u] = thread[u]
    BY <1>2 DEF Disturbed
  <2>2. Disturbed(u) \in ThreadStates
    BY <1>1, <1>2 DEF Disturbed
  <2>3. ReliesOnAnswer(u)'
    BY <1>2, <2>1 DEF ReliesOnAnswer, Unbound
  <2> QED
    BY <1>1, <2>1, <2>2, <2>3 DEF ThreadOK, Probing
<1>3. CASE ~Unbound(u)
  <2> DEFINE r == [thread[u] EXCEPT !.steady = FALSE]
  <2>1. thread'[u] = r /\ Disturbed(u) = r
    BY <1>3 DEF Disturbed
  <2>2. r \in ThreadStates /\ r.at = thread[u].at /\ r.probing = thread[u].probing
        /\ r.calls = thread[u].calls /\ r.steady = FALSE
    BY <1>1 DEF ThreadStates
  <2> HIDE DEF r
  <2> QED
    BY <1>1, <2>1, <2>2 DEF ThreadOK, Probing, ReliesOnAnswer
<1> QED
  BY <1>2, <1>3

-----------------------------------------------------------------------------
(* The initial state, and the steps of the cluster and of the clock.       *)

\* The invariant holds initially.
LEMMA InitInv == Init => AdapterInv
<1> SUFFICES ASSUME Init PROVE AdapterInv
  OBVIOUS
<1>1. SharedOK
  BY EndpointsAssumption DEF Init, SharedOK
<1>2. thread \in [Threads -> ThreadStates]
  BY IdleType DEF Init
<1>3. \A t \in Threads : ThreadOK(t)
  BY DEF Init, Idle, ThreadOK, Probing, ReliesOnAnswer, Unbound
<1> QED
  BY <1>1, <1>2, <1>3, Parts

\* The cluster comes and goes: what the adapter has of it keeps its type.
LEMMA ClusterKeeps == AdapterInv /\ (Outage \/ Return \/ Recreate) => AdapterInv'
<1> SUFFICES ASSUME AdapterInv, Outage \/ Return \/ Recreate PROVE AdapterInv'
  OBVIOUS
<1>1. thread' = thread /\ probe' = probe /\ config' = config /\ client' = client
  BY DEF Outage, Return, Recreate
<1>2. SharedOK /\ thread \in [Threads -> ThreadStates] /\ \A t \in Threads : ThreadOK(t)
  BY Parts
<1>3. cluster.endpoint \in 1 .. MaxEndpoints /\ outages' \in Nat
  BY <1>2 DEF SharedOK, Outage, Return, Recreate
<1>4. /\ cluster' \in [endpoint : 1 .. MaxEndpoints, up : BOOLEAN]
      /\ cluster'.endpoint >= cluster.endpoint
  <2>1. CASE Outage \/ Return
    <3>1. PICK up \in BOOLEAN : cluster' = [cluster EXCEPT !.up = up]
      BY <2>1 DEF Outage, Return
    <3>2. cluster \in [endpoint : 1 .. MaxEndpoints, up : BOOLEAN]
      BY <1>2 DEF SharedOK
    <3>3. cluster'.endpoint = cluster.endpoint
      BY <3>1, <3>2
    <3>4. cluster.endpoint \in Int
      BY <1>3, EndpointsAssumption
    <3> QED
      BY <3>1, <3>2, <3>3, <3>4
  <2>2. CASE Recreate
    BY <1>3, <2>2, EndpointsAssumption DEF Recreate
  <2> QED
    BY <2>1, <2>2
<1>5. config' \in (1 .. cluster'.endpoint) \union {None}
  BY <1>1, <1>2, <1>3, <1>4, EndpointsAssumption DEF SharedOK
<1>6. SharedOK'
  BY <1>1, <1>2, <1>3, <1>4, <1>5 DEF SharedOK
<1>7. \A t \in Threads : ThreadOK(t)'
  BY <1>1, <1>2 DEF ThreadOK, Probing, ReliesOnAnswer, Unbound, Fresh
<1> QED
  BY <1>1, <1>2, <1>6, <1>7 DEF AdapterInv, AdapterTypeOK, SharedOK, ThreadOK

\* Once the answer of the probe is outdated, nobody relies on it.
LEMMA ExpireKeeps == AdapterInv /\ Expire => AdapterInv'
<1> SUFFICES ASSUME AdapterInv, Expire PROVE AdapterInv'
  OBVIOUS
<1>1. SharedOK
  BY Parts
<1>2. probe' \in Answers \union {None}
  BY <1>1 DEF Expire, SharedOK, Answers
<1>3. SharedOK'
  BY <1>1, <1>2 DEF SharedOK, Expire
<1>4. thread' = [u \in Threads |-> Disturbed(u)]
  BY DEF Expire
<1>5. \A u \in Threads : Disturbed(u) \in ThreadStates /\ ThreadOK(u)'
  <2> TAKE u \in Threads
  <2>1. thread'[u] = Disturbed(u)
    BY <1>4
  <2> QED
    BY <2>1, DisturbedKeeps
<1>6. thread' \in [Threads -> ThreadStates]
  BY <1>4, <1>5
<1> QED
  BY <1>3, <1>5, <1>6 DEF AdapterInv, AdapterTypeOK, SharedOK, ThreadOK

-----------------------------------------------------------------------------
(* A request finds its mode.                                               *)

\* A request begins without an answer.
LEMMA BeginKeeps ==
    ASSUME AdapterInv, NEW t \in Threads, NEW action \in Actions, Begin(t, action)
    PROVE  AdapterInv'
<1>1. thread \in [Threads -> ThreadStates] /\ SharedOK
  BY Parts
<1> DEFINE r == [Idle EXCEPT !.at = "mode", !.calls = Calls(action)]
<1>2. r \in ThreadStates
  BY CallsType, LocationLiterals DEF Idle, ThreadStates
<1>3. r.at = "mode" /\ ~r.probing /\ r.calls = Calls(action) /\ r.worlds = {}
  BY DEF Idle
<1>4. thread' = [thread EXCEPT ![t] = r] /\ thread'[t] = r
  BY <1>1 DEF Begin
<1> HIDE DEF r
<1>5. ThreadOK(t)'
  BY <1>3, <1>4, CallsType DEF ThreadOK, Probing, ReliesOnAnswer, Unbound
<1>6. UNCHANGED <<cluster, outages, config, client, probe>>
  BY DEF Begin
<1>7. SharedOK'
  BY <1>1, <1>6, SharedUnchanged
<1> QED
  BY <1>2, <1>4, <1>5, <1>6, <1>7, OneThreadMoves

\* A request that takes the cached answer relies on it from now on.
LEMMA UseAnswerKeeps ==
    ASSUME AdapterInv, NEW t \in Threads, UseAnswer(t)
    PROVE  AdapterInv'
<1>1. thread \in [Threads -> ThreadStates] /\ SharedOK /\ ThreadOK(t)
  BY Parts
<1> DEFINE to == IF probe.live THEN "ensure" ELSE "simulate"
           r  == [thread[t] EXCEPT !.at = to]
<1>2. r \in ThreadStates
  BY <1>1, LocationLiterals DEF ThreadStates
<1>3. /\ r.at = to /\ r.probing = thread[t].probing /\ r.calls = thread[t].calls
      /\ r.worlds = thread[t].worlds /\ r.steady = thread[t].steady
  BY <1>1 DEF ThreadStates
<1>4. thread' = [thread EXCEPT ![t] = r] /\ thread'[t] = r
  BY <1>1 DEF UseAnswer
<1>5. thread[t].at = "mode" /\ Fresh /\ ~thread[t].probing
  BY <1>1 DEF UseAnswer, ThreadOK, Probing
<1>6. UNCHANGED <<cluster, outages, config, client, probe>>
  BY DEF UseAnswer
<1> HIDE DEF r
<1>7. ReliesOnAnswer(t)'
  <2> SUFFICES ASSUME r.steady
               PROVE  /\ Fresh
                      /\ ~r.probing
                      /\ r.worlds \subseteq {IF probe.live THEN "live" ELSE "simulated"}
                      /\ r.at \in {"ensure", "api", "apps", "rbac", "call"} => probe.live
                      /\ r.at = "simulate" => ~probe.live
    BY <1>4, <1>6 DEF ReliesOnAnswer, Fresh
  <2>1. thread[t].worlds \subseteq {IF probe.live THEN "live" ELSE "simulated"}
    BY <1>1, <1>3, <1>5 DEF ThreadOK, ReliesOnAnswer, Unbound
  <2> QED
    BY <1>3, <1>5, <2>1
<1>8. ThreadOK(t)'
  BY <1>1, <1>3, <1>4, <1>5, <1>7 DEF ThreadOK, Probing
<1>9. SharedOK'
  BY <1>1, <1>6, SharedUnchanged
<1> QED
  BY <1>2, <1>4, <1>6, <1>8, <1>9, OneThreadMoves

\* Only a request that relies on no answer, or was disturbed, begins to probe.
LEMMA BeginProbeKeeps ==
    ASSUME AdapterInv, NEW t \in Threads, BeginProbe(t)
    PROVE  AdapterInv'
<1>1. thread \in [Threads -> ThreadStates] /\ SharedOK /\ ThreadOK(t)
  BY Parts
<1> DEFINE r == [thread[t] EXCEPT !.at = "ensure", !.probing = TRUE]
<1>2. r \in ThreadStates
  BY <1>1, LocationLiterals DEF ThreadStates
<1>3. /\ r.at = "ensure" /\ r.probing = TRUE /\ r.calls = thread[t].calls
      /\ r.worlds = thread[t].worlds /\ r.steady = thread[t].steady
  BY <1>1 DEF ThreadStates
<1>4. thread' = [thread EXCEPT ![t] = r] /\ thread'[t] = r
  BY <1>1 DEF BeginProbe
<1>5. thread[t].at = "mode" /\ ~Fresh
  BY DEF BeginProbe
<1>6. UNCHANGED <<cluster, outages, config, client, probe>>
  BY DEF BeginProbe
<1> HIDE DEF r
<1>7. ReliesOnAnswer(t)'
  BY <1>1, <1>3, <1>4, <1>5 DEF ThreadOK, ReliesOnAnswer, Unbound
<1>8. ThreadOK(t)'
  BY <1>1, <1>3, <1>4, <1>5, <1>7 DEF ThreadOK, Probing
<1>9. SharedOK'
  BY <1>1, <1>6, SharedUnchanged
<1> QED
  BY <1>2, <1>4, <1>6, <1>8, <1>9, OneThreadMoves

-----------------------------------------------------------------------------
(* The clients, and the rest of the probe.                                 *)

\* A thread that finds the clients goes on with its probe or its call.
LEMMA HaveClientsKeeps ==
    ASSUME AdapterInv, NEW t \in Threads, HaveClients(t)
    PROVE  AdapterInv'
<1>1. SharedOK /\ SharedOK'
  BY Parts, SharedUnchanged DEF HaveClients
<1>2. thread[t].at = "ensure" /\ probe' = probe
  BY DEF HaveClients
<1>3. CASE thread[t].probing
  BY <1>1, <1>2, <1>3, LocationLiterals, GotoKeeps DEF HaveClients
<1>4. CASE ~thread[t].probing
  BY <1>1, <1>2, <1>4, LocationLiterals, GotoKeeps DEF HaveClients
<1> QED
  BY <1>3, <1>4

\* The configuration that is loaded is the newest there is.
LEMMA LoadConfigKeeps ==
    ASSUME AdapterInv, NEW t \in Threads, LoadConfig(t)
    PROVE  AdapterInv'
<1>1. SharedOK
  BY Parts
<1>2. /\ config' = cluster.endpoint
      /\ cluster' = cluster /\ outages' = outages /\ client' = client /\ probe' = probe
  BY DEF LoadConfig
<1>3. cluster.endpoint \in 1 .. MaxEndpoints /\ cluster.endpoint \in Nat
  BY <1>1, EndpointsAssumption DEF SharedOK
<1>4. config' \in (1 .. cluster.endpoint) \union {None} /\ config' # None
  BY <1>2, <1>3, EndpointsAssumption
<1>5. \A c \in Clients : client[c] = None \/ client[c] <= cluster.endpoint
  <2> SUFFICES ASSUME NEW c \in Clients, client[c] # None PROVE client[c] <= cluster.endpoint
    OBVIOUS
  <2>1. client[c] \in Nat /\ config \in 1 .. cluster.endpoint /\ client[c] <= config
    BY <1>1 DEF SharedOK
  <2> QED
    BY <1>3, <2>1
<1>6. SharedOK'
  BY <1>1, <1>2, <1>4, <1>5 DEF SharedOK
<1>7. thread[t].at = "ensure" /\ Goto(t, "api")
  BY DEF LoadConfig
<1> QED
  BY <1>2, <1>6, <1>7, LocationLiterals, GotoKeeps

\* Without a configuration the probe drops the clients, and a call fails.
LEMMA LoadFailsKeeps ==
    ASSUME AdapterInv, NEW t \in Threads, LoadFails(t)
    PROVE  AdapterInv'
<1>1. thread[t].at = "ensure" /\ UNCHANGED <<cluster, outages, config, client, probe>>
  BY DEF LoadFails
<1>2. thread \in [Threads -> ThreadStates] /\ SharedOK /\ SharedOK'
  BY <1>1, Parts, SharedUnchanged
<1>3. CASE thread[t].probing
  <2>1. Goto(t, "drop_api")
    BY <1>2, <1>3 DEF LoadFails, Goto
  <2> QED
    BY <1>1, <1>2, <1>3, <2>1, LocationLiterals, GotoKeeps
<1>4. CASE ~thread[t].probing
  <2>1. thread' = [thread EXCEPT ![t] = Idle]
    BY <1>2, <1>4 DEF LoadFails
  <2> QED
    BY <1>1, <2>1, IdleKeeps
<1> QED
  BY <1>3, <1>4

\* A client that is built, or dropped, is no newer than the configuration.
LEMMA ClientKeeps ==
    ASSUME SharedOK, NEW name \in Clients, NEW to \in {config, None},
           client' = [client EXCEPT ![name] = to],
           UNCHANGED <<cluster, outages, config, probe>>
    PROVE  SharedOK'
<1>1. cluster.endpoint \in Nat
  BY EndpointsAssumption DEF SharedOK
<1>2. config \in Nat \union {None}
  BY <1>1 DEF SharedOK
<1>3. client' \in [Clients -> Nat \union {None}]
  BY <1>2 DEF SharedOK
<1>4. ASSUME NEW c \in Clients
      PROVE  client'[c] = None \/ (config # None /\ client'[c] <= config)
  <2>1. CASE c = name
    <3>1. client'[c] = to
      BY <2>1 DEF SharedOK
    <3>2. CASE to = None
      BY <3>1, <3>2
    <3>3. CASE to # None
      <4>1. to = config /\ config \in Nat
        BY <1>2, <3>3
      <4>2. config <= config
        BY <4>1
      <4> QED
        BY <3>1, <3>3, <4>1, <4>2
    <3> QED
      BY <3>2, <3>3
  <2>2. CASE c # name
    BY <2>2 DEF SharedOK
  <2> QED
    BY <2>1, <2>2
<1> QED
  BY <1>3, <1>4 DEF SharedOK

\* A thread builds the clients one after the other.
LEMMA BuildClientsKeeps ==
    ASSUME AdapterInv, NEW t \in Threads, BuildClients(t)
    PROVE  AdapterInv'
<1>1. SharedOK
  BY Parts
<1>2. ASSUME NEW name \in Clients, NEW next, BuildClient(t, name, next)
      PROVE  SharedOK' /\ thread[t].at = name /\ Goto(t, next) /\ probe' = probe
  BY <1>1, <1>2, ClientKeeps DEF BuildClient
<1>3. "api" \in Clients /\ "apps" \in Clients /\ "rbac" \in Clients
  BY DEF Clients
<1>4. CASE BuildClient(t, "api", "apps")
  BY <1>2, <1>3, <1>4, LocationLiterals, GotoKeeps
<1>5. CASE BuildClient(t, "apps", "rbac")
  BY <1>2, <1>3, <1>5, LocationLiterals, GotoKeeps
<1>6. CASE BuildClient(t, "rbac", IF thread[t].probing THEN "check" ELSE "call")
  <2>1. /\ SharedOK' /\ thread[t].at = "rbac" /\ probe' = probe
        /\ Goto(t, IF thread[t].probing THEN "check" ELSE "call")
    BY <1>2, <1>3, <1>6
  <2>2. CASE thread[t].probing
    BY <2>1, <2>2, LocationLiterals, GotoKeeps
  <2>3. CASE ~thread[t].probing
    BY <2>1, <2>3, LocationLiterals, GotoKeeps
  <2> QED
    BY <2>2, <2>3
<1> QED
  BY <1>4, <1>5, <1>6 DEF BuildClients

\* A thread drops the clients one after the other.
LEMMA DropClientsKeeps ==
    ASSUME AdapterInv, NEW t \in Threads, DropClients(t)
    PROVE  AdapterInv'
<1>1. SharedOK /\ ThreadOK(t)
  BY Parts
<1>2. ASSUME NEW at, NEW name \in Clients, NEW next, DropClient(t, at, name, next)
      PROVE  SharedOK' /\ thread[t].at = at /\ Goto(t, next) /\ probe' = probe
  BY <1>1, <1>2, ClientKeeps DEF DropClient
<1>3. "api" \in Clients /\ "apps" \in Clients /\ "rbac" \in Clients
  BY DEF Clients
<1>4. CASE DropClient(t, "drop_api", "api", "drop_apps")
  <2>1. thread[t].at = "drop_api" /\ Goto(t, "drop_apps") /\ SharedOK' /\ probe' = probe
    BY <1>2, <1>3, <1>4
  <2> QED
    BY <1>1, <2>1, LocationLiterals, GotoKeeps DEF ThreadOK, Probing
<1>5. CASE DropClient(t, "drop_apps", "apps", "drop_rbac")
  <2>1. thread[t].at = "drop_apps" /\ Goto(t, "drop_rbac") /\ SharedOK' /\ probe' = probe
    BY <1>2, <1>3, <1>5
  <2> QED
    BY <1>1, <2>1, LocationLiterals, GotoKeeps DEF ThreadOK, Probing
<1>6. CASE DropClient(t, "drop_rbac", "rbac", "dropped")
  <2>1. thread[t].at = "drop_rbac" /\ Goto(t, "dropped") /\ SharedOK' /\ probe' = probe
    BY <1>2, <1>3, <1>6
  <2> QED
    BY <1>1, <2>1, LocationLiterals, GotoKeeps DEF ThreadOK, Probing
<1> QED
  BY <1>4, <1>5, <1>6 DEF DropClients

\* An answer is cached: the thread that asked relies on it, and whoever relied
\* on the one before is disturbed.
LEMMA AnswerKeeps ==
    ASSUME AdapterInv, NEW t \in Threads, NEW live \in BOOLEAN,
           thread[t].at \in {"check", "dropped"}, Answer(t, live)
    PROVE  AdapterInv'
<1>1. thread \in [Threads -> ThreadStates] /\ SharedOK /\ ThreadOK(t)
  BY Parts
<1> DEFINE to == IF live THEN "ensure" ELSE "simulate"
           r  == [thread[t] EXCEPT !.at = to, !.probing = FALSE]
<1>2. r \in ThreadStates
  BY <1>1, LocationLiterals DEF ThreadStates
<1>3. /\ r.at = to /\ r.probing = FALSE /\ r.calls = thread[t].calls
      /\ r.worlds = thread[t].worlds /\ r.steady = thread[t].steady
  BY <1>1 DEF ThreadStates
<1>4. thread' = [u \in Threads |-> IF u = t THEN r ELSE Disturbed(u)]
  BY DEF Answer
<1>5. thread'[t] = r
  BY <1>4
<1>6. /\ probe' = [live |-> live, fresh |-> TRUE]
      /\ UNCHANGED <<cluster, outages, config, client>>
  BY DEF Answer
<1> HIDE DEF r
<1>7. probe' \in Answers /\ probe' # None /\ probe'.live = live /\ probe'.fresh = TRUE
  <2>1. probe' \in Answers
    BY <1>6 DEF Answers
  <2>2. probe'.live = live /\ probe'.fresh = TRUE
    BY <1>6
  <2> QED
    BY <2>1, <2>2, EndpointsAssumption
<1>8. thread[t].probing /\ (thread[t].steady => thread[t].worlds = {})
  BY <1>1 DEF ThreadOK, Probing, ReliesOnAnswer, Unbound
<1>9. ThreadOK(t)'
  <2>1. ReliesOnAnswer(t)'
    BY <1>3, <1>5, <1>7, <1>8 DEF ReliesOnAnswer, Fresh
  <2>2. thread[t].calls # << >>
    BY <1>1 DEF ThreadOK
  <2> QED
    BY <1>3, <1>5, <2>1, <2>2 DEF ThreadOK, Probing
<1>10. ASSUME NEW u \in Threads
       PROVE  thread'[u] \in ThreadStates /\ ThreadOK(u)'
  <2>1. CASE u = t
    BY <1>2, <1>5, <1>9, <2>1
  <2>2. CASE u # t
    <3>1. thread'[u] = Disturbed(u)
      BY <1>4, <2>2
    <3> QED
      BY <3>1, DisturbedKeeps
  <2> QED
    BY <2>1, <2>2
<1>11. thread' \in [Threads -> ThreadStates]
  BY <1>4, <1>10
<1>12. SharedOK'
  BY <1>1, <1>6, <1>7 DEF SharedOK
<1> QED
  BY <1>10, <1>11, <1>12 DEF AdapterInv, AdapterTypeOK, SharedOK, ThreadOK

\* Every way the probe can end, or fail on its way, keeps the invariant.
LEMMA ProbeKeeps ==
    ASSUME AdapterInv, NEW t \in Threads,
           ProbeWithoutClients(t) \/ ProbeAnswers(t) \/ ProbeFails(t) \/ ProbeAnswered(t)
    PROVE  AdapterInv'
<1>1. CASE ProbeWithoutClients(t)
  BY <1>1, AnswerKeeps DEF ProbeWithoutClients
<1>2. CASE ProbeAnswers(t)
  BY <1>2, AnswerKeeps DEF ProbeAnswers
<1>3. CASE ProbeFails(t)
  <2>1. SharedOK /\ ThreadOK(t)
    BY Parts
  <2>2. thread[t].at = "check" /\ Goto(t, "drop_api")
        /\ UNCHANGED <<cluster, outages, config, client, probe>>
    BY <1>3 DEF ProbeFails
  <2>3. SharedOK' /\ thread[t].probing
    BY <2>1, <2>2, SharedUnchanged DEF ThreadOK, Probing
  <2> QED
    BY <2>2, <2>3, LocationLiterals, GotoKeeps
<1>4. CASE ProbeAnswered(t)
  BY <1>4, AnswerKeeps DEF ProbeAnswered
<1> QED
  BY <1>1, <1>2, <1>3, <1>4

-----------------------------------------------------------------------------
(* The calls.                                                              *)

\* A call goes to the world that the answer in force names.
LEMMA DoneKeeps ==
    ASSUME AdapterInv, NEW t \in Threads, NEW world \in Worlds,
           thread[t].at = IF world = "live" THEN "call" ELSE "simulate",
           Done(t, world), UNCHANGED <<cluster, outages, config, client, probe>>
    PROVE  AdapterInv'
<1>1. thread \in [Threads -> ThreadStates] /\ SharedOK /\ ThreadOK(t)
  BY Parts
<1>2. thread[t].at \notin {"idle", "answered"} /\ thread[t].calls # << >>
  BY <1>1 DEF ThreadOK, Worlds
<1> DEFINE to == IF Len(thread[t].calls) = 1 THEN "answered" ELSE "mode"
           r  == [thread[t] EXCEPT !.worlds = thread[t].worlds \union {world},
                                   !.calls = Tail(thread[t].calls), !.at = to]
<1>3. thread[t].calls \in Seq(Clients)
  BY <1>1 DEF ThreadStates
<1>4. /\ Tail(thread[t].calls) \in Seq(Clients)
      /\ Len(thread[t].calls) # 1 => Tail(thread[t].calls) # << >>
  <2> DEFINE s == thread[t].calls
  <2>1. s \in Seq(Clients) /\ s # << >>
    BY <1>2, <1>3
  <2> HIDE DEF s
  <2>2. Len(s) \in Nat /\ Len(s) # 0
    BY <2>1
  <2>3. Tail(s) \in Seq(Clients) /\ Len(Tail(s)) = Len(s) - 1
    BY <2>1, <2>2
  <2>4. Len(s) # 1 => Tail(s) # << >>
    BY <2>2, <2>3
  <2> QED
    BY <2>3, <2>4 DEF s
<1>5. r \in ThreadStates
  BY <1>1, <1>4, LocationLiterals DEF ThreadStates
<1>6. /\ r.at = to /\ r.probing = thread[t].probing /\ r.calls = Tail(thread[t].calls)
      /\ r.worlds = thread[t].worlds \union {world} /\ r.steady = thread[t].steady
  BY <1>1 DEF ThreadStates
<1>7. thread' = [thread EXCEPT ![t] = r]
  BY DEF Done
<1>8. thread'[t] = r
  BY <1>1, <1>7
<1> HIDE DEF r
<1>9. thread[t].at \in {"call", "simulate"} /\ ~thread[t].probing
  BY <1>1 DEF ThreadOK, Probing
<1>10. ReliesOnAnswer(t)'
  <2> SUFFICES ASSUME r.steady
               PROVE  /\ Fresh
                      /\ ~r.probing
                      /\ r.worlds \subseteq {IF probe.live THEN "live" ELSE "simulated"}
                      /\ r.at \notin {"ensure", "api", "apps", "rbac", "call", "simulate"}
    BY <1>8 DEF ReliesOnAnswer, Fresh
  <2>1. thread[t].steady /\ ~Unbound(t)
    BY <1>6, <1>9 DEF Unbound
  <2>2. /\ Fresh /\ thread[t].worlds \subseteq {IF probe.live THEN "live" ELSE "simulated"}
        /\ world = IF probe.live THEN "live" ELSE "simulated"
    BY <1>1, <2>1 DEF ThreadOK, ReliesOnAnswer, Worlds
  <2> QED
    BY <1>6, <1>9, <2>2
<1>11. ThreadOK(t)'
  BY <1>4, <1>6, <1>8, <1>9, <1>10 DEF ThreadOK, Probing
<1>12. SharedOK'
  BY <1>1, SharedUnchanged
<1> QED
  BY <1>5, <1>7, <1>11, <1>12, OneThreadMoves

\* A call that is answered, one that fails, and the reply keep the invariant.
LEMMA CallKeeps ==
    ASSUME AdapterInv, NEW t \in Threads,
           Simulate(t) \/ CallSucceeds(t) \/ CallFails(t) \/ Reply(t)
    PROVE  AdapterInv'
<1>1. CASE Simulate(t)
  BY <1>1, DoneKeeps DEF Simulate, Worlds
<1>2. CASE CallSucceeds(t)
  BY <1>2, DoneKeeps DEF CallSucceeds, Worlds
<1>3. CASE CallFails(t)
  BY <1>3, IdleKeeps DEF CallFails
<1>4. CASE Reply(t)
  BY <1>4, IdleKeeps DEF Reply
<1> QED
  BY <1>1, <1>2, <1>3, <1>4

-----------------------------------------------------------------------------
(* Every step.                                                             *)

\* A step of a thread keeps the invariant.
LEMMA StepKeeps ==
    ASSUME AdapterInv, NEW t \in Threads, Step(t)
    PROVE  AdapterInv'
<1>1. CASE \E action \in Actions : Begin(t, action)
  BY <1>1, BeginKeeps
<1>2. CASE UseAnswer(t) \/ BeginProbe(t)
  BY <1>2, UseAnswerKeeps, BeginProbeKeeps
<1>3. CASE HaveClients(t) \/ LoadConfig(t) \/ LoadFails(t)
  BY <1>3, HaveClientsKeeps, LoadConfigKeeps, LoadFailsKeeps
<1>4. CASE BuildClients(t) \/ DropClients(t)
  BY <1>4, BuildClientsKeeps, DropClientsKeeps
<1>5. CASE ProbeWithoutClients(t) \/ ProbeAnswers(t) \/ ProbeFails(t) \/ ProbeAnswered(t)
  BY <1>5, ProbeKeeps
<1>6. CASE Simulate(t) \/ CallSucceeds(t) \/ CallFails(t) \/ Reply(t)
  BY <1>6, CallKeeps
<1> QED
  BY <1>1, <1>2, <1>3, <1>4, <1>5, <1>6 DEF Step

\* The invariant is inductive.
LEMMA NextInv == AdapterInv /\ [Next]_vars => AdapterInv'
<1> SUFFICES ASSUME AdapterInv, [Next]_vars PROVE AdapterInv'
  OBVIOUS
<1>1. CASE Outage \/ Return \/ Recreate
  BY <1>1, ClusterKeeps
<1>2. CASE Expire
  BY <1>2, ExpireKeeps
<1>3. CASE \E t \in Threads : Step(t)
  BY <1>3, StepKeeps
<1>4. CASE UNCHANGED vars
  BY <1>4 DEF vars, AdapterInv, AdapterTypeOK, Probing, ReliesOnAnswer, Unbound, Fresh
<1> QED
  BY <1>1, <1>2, <1>3, <1>4 DEF Next

\* The invariant holds in every state that can be reached.
LEMMA AlwaysInv == Spec => []AdapterInv
BY InitInv, NextInv, PTL DEF Spec

\* The adapter's state is of its types however the threads that share it
\* without a lock interleave: above all, no client is ever newer than the
\* configuration, and nobody asks for a mode without a call to make.
THEOREM AdapterTypeCorrect == Spec => []AdapterTypeOK
<1>1. AdapterInv => AdapterTypeOK
  BY DEF AdapterInv
<1> QED
  BY <1>1, AlwaysInv, PTL

\* A request that is answered while one answer of the probe was in force has
\* been done to one world from its first call to its verification.
THEOREM OneWorldAlways == Spec => []OneWorld
<1>1. AdapterInv => OneWorld
  <2> SUFFICES ASSUME AdapterInv, NEW t \in Threads,
                      thread[t].at = "answered", thread[t].steady
               PROVE  ~({"live", "simulated"} \subseteq thread[t].worlds)
    BY DEF OneWorld
  <2>1. Probing(t) /\ ReliesOnAnswer(t)
    BY DEF AdapterInv
  <2>2. ~Unbound(t)
    BY <2>1 DEF Probing, Unbound
  <2>3. thread[t].worlds \subseteq {IF probe.live THEN "live" ELSE "simulated"}
    BY <2>1, <2>2 DEF ReliesOnAnswer
  <2> QED
    BY <2>3
<1> QED
  BY <1>1, AlwaysInv, PTL
=============================================================================
