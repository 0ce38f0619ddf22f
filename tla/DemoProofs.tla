------------------------------ MODULE DemoProofs ------------------------------
(***************************************************************************)
(* The closed loop of the demonstration for every number of requests and   *)
(* detections, whatever clients report and whatever the allow-lists and    *)
(* limits are.                                                             *)
(***************************************************************************)
EXTENDS DemoSafety, PolicyEngineProofs, FiniteSetTheorems, WellFoundedInduction, TLAPS

-----------------------------------------------------------------------------
(* The cluster.                                                            *)

Shipped == InitialCluster.pods
AllRestarted == Restarted(InitialCluster).pods
RestartedPods(pods) ==
    [k \in DOMAIN pods |->
        IF pods[k].deployment \in RestartedDeployments
        THEN [pods[k] EXCEPT !.ready = TRUE, !.restarts = 0, !.oom = FALSE]
        ELSE pods[k]]

Privileges(c) == <<c.bindings, c.certDays, c.configs>>

\* What the cluster never takes back.
Kept(c, e) ==
    /\ c.pods = AllRestarted => e.pods = AllRestarted
    /\ e.bindings \subseteq c.bindings
    /\ c.certDays = 365 => e.certDays = 365
    /\ CrashReplicas(c) > 1 => CrashReplicas(e) > 1

LEMMA KeptKept ==
    ASSUME NEW c, NEW e, NEW g, Kept(c, e), Kept(e, g)
    PROVE  Kept(c, g)
BY DEF Kept

LEMMA ClusterShape ==
    ASSUME NEW c, ClusterOK(c)
    PROVE  c = [deployment |-> c.deployment, pods |-> c.pods, bindings |-> c.bindings,
                certDays |-> c.certDays, configs |-> c.configs]
BY DEF ClusterOK

\* A cluster put together from its parts.
LEMMA ClusterMade ==
    ASSUME NEW deployment, NEW pods, NEW bindings, NEW certDays, NEW configs,
           deployment \in [DOMAIN deployment -> [replicas : Nat \ {0}, ready : Nat, available : Nat]],
           DOMAIN InitialCluster.deployment \subseteq DOMAIN deployment,
           \A d \in DOMAIN deployment :
               /\ deployment[d].available <= deployment[d].replicas
               /\ d # "crash-demo" => deployment[d].available = deployment[d].replicas,
           pods \in {Shipped, AllRestarted}, bindings \subseteq InitialCluster.bindings,
           certDays \in {4, 365}
    PROVE  ClusterOK([deployment |-> deployment, pods |-> pods, bindings |-> bindings,
                      certDays |-> certDays, configs |-> configs])
BY DEF ClusterOK, Shipped, AllRestarted

LEMMA ClusterParts ==
    ASSUME NEW c, ClusterOK(c)
    PROVE  /\ c.deployment \in [DOMAIN c.deployment -> [replicas : Nat \ {0}, ready : Nat, available : Nat]]
           /\ DOMAIN InitialCluster.deployment \subseteq DOMAIN c.deployment
           /\ \A d \in DOMAIN c.deployment :
               /\ c.deployment[d].available <= c.deployment[d].replicas
               /\ d # "crash-demo" => c.deployment[d].available = c.deployment[d].replicas
           /\ c.pods \in {Shipped, AllRestarted} /\ c.bindings \subseteq InitialCluster.bindings
           /\ c.certDays \in {4, 365}
BY DEF ClusterOK, Shipped, AllRestarted

LEMMA DeploymentNames ==
    DOMAIN InitialCluster.deployment = {"demo-app", "cpu-demo", "memory-demo", "crash-demo", "cert-demo"}
BY DEF InitialCluster

LEMMA CrashHasReplicas ==
    ASSUME NEW c, ClusterOK(c)
    PROVE  /\ "crash-demo" \in DOMAIN c.deployment
           /\ CrashReplicas(c) \in Nat \ {0}
           /\ DeploymentState(c, "crash-demo").replicas = CrashReplicas(c)
BY ClusterParts, DeploymentNames DEF CrashReplicas, DeploymentState

LEMMA InitialClusterOK == ClusterOK(InitialCluster)
<1>1. \A d \in DOMAIN InitialCluster.deployment :
         /\ InitialCluster.deployment[d] \in [replicas : Nat \ {0}, ready : Nat, available : Nat]
         /\ InitialCluster.deployment[d].available <= InitialCluster.deployment[d].replicas
         /\ d # "crash-demo" =>
               InitialCluster.deployment[d].available = InitialCluster.deployment[d].replicas
  BY DEF InitialCluster, Replicated
<1>2. InitialCluster.deployment = [d \in DOMAIN InitialCluster.deployment |-> InitialCluster.deployment[d]]
  BY DEF InitialCluster
<1>3. InitialCluster \in [deployment : {InitialCluster.deployment}, pods : {InitialCluster.pods},
              bindings : {InitialCluster.bindings}, certDays : {4}, configs : {InitialCluster.configs}]
  BY DEF InitialCluster
<1> QED
  BY <1>1, <1>2, <1>3 DEF ClusterOK

\* Restarting pods that have been restarted changes nothing.
LEMMA PodsOfRestart ==
    ASSUME NEW pods \in {Shipped, AllRestarted}
    PROVE  RestartedPods(pods) = AllRestarted
<1>1. AllRestarted = RestartedPods(Shipped)
  BY DEF Restarted, AllRestarted, Shipped, InitialCluster, RestartedPods
<1>2. RestartedPods(RestartedPods(Shipped)) = RestartedPods(Shipped)
  BY ZenonT(60) DEF InitialCluster, Shipped, Pod, RestartedPods
<1> QED
  BY <1>1, <1>2

\* A deployment that is replaced by another one.
LEMMA DeploymentReplaced ==
    ASSUME NEW c, ClusterOK(c), NEW d, NEW s \in [replicas : Nat \ {0}, ready : Nat, available : Nat],
           s.available <= s.replicas, d # "crash-demo" => s.available = s.replicas,
           NEW pods \in {Shipped, AllRestarted}, NEW deployment,
           deployment = [e \in DOMAIN c.deployment \union {d} |-> IF e = d THEN s ELSE c.deployment[e]]
    PROVE  ClusterOK([deployment |-> deployment, pods |-> pods, bindings |-> c.bindings,
                      certDays |-> c.certDays, configs |-> c.configs])
<1>1. DOMAIN deployment = DOMAIN c.deployment \union {d}
  OBVIOUS
<1>2. \A e \in DOMAIN deployment :
         /\ deployment[e] \in [replicas : Nat \ {0}, ready : Nat, available : Nat]
         /\ deployment[e].available <= deployment[e].replicas
         /\ e # "crash-demo" => deployment[e].available = deployment[e].replicas
  <2>1. TAKE e \in DOMAIN deployment
  <2>2. CASE e = d
    <3>1. deployment[e] = s
      BY <2>2
    <3> QED
      BY <2>2, <3>1
  <2>3. CASE e # d
    <3>1. e \in DOMAIN c.deployment /\ deployment[e] = c.deployment[e]
      BY <1>1, <2>3
    <3>2. c.deployment[e] \in [replicas : Nat \ {0}, ready : Nat, available : Nat]
      BY <3>1, ClusterParts
    <3> QED
      BY <3>1, <3>2, ClusterParts
  <2> QED
    BY <2>2, <2>3
<1>3. deployment \in [DOMAIN deployment -> [replicas : Nat \ {0}, ready : Nat, available : Nat]]
  BY <1>2
<1>4. DOMAIN InitialCluster.deployment \subseteq DOMAIN deployment
  BY <1>1, ClusterParts
<1> HIDE DEF Shipped, AllRestarted
<1> QED
  BY <1>2, <1>3, <1>4, ClusterParts, ClusterMade

LEMMA ScaledKeeps ==
    ASSUME NEW c, ClusterOK(c), NEW d, NEW n \in Nat \ {0}, d = "crash-demo" => n > 1
    PROVE  /\ ClusterOK(Scaled(c, d, n)) /\ Kept(c, Scaled(c, d, n))
           /\ Privileges(Scaled(c, d, n)) = Privileges(c)
           /\ DeploymentState(Scaled(c, d, n), d) = Replicated(n)
<1>0. PICK s : s = Replicated(n)
  OBVIOUS
<1>1. PICK deployment :
         deployment = [e \in DOMAIN c.deployment \union {d} |-> IF e = d THEN s ELSE c.deployment[e]]
  OBVIOUS
<1>2. Scaled(c, d, n) = [deployment |-> deployment, pods |-> c.pods, bindings |-> c.bindings,
                         certDays |-> c.certDays, configs |-> c.configs]
  BY <1>0, <1>1, ClusterShape DEF Scaled
<1>3. /\ s \in [replicas : Nat \ {0}, ready : Nat, available : Nat]
      /\ s.available <= s.replicas /\ s.available = s.replicas /\ s.replicas = n
  BY <1>0 DEF Replicated
<1>4. ClusterOK(Scaled(c, d, n))
  <2>1. c.pods \in {Shipped, AllRestarted}
    BY ClusterParts
  <2>2. ClusterOK([deployment |-> deployment, pods |-> c.pods, bindings |-> c.bindings,
                   certDays |-> c.certDays, configs |-> c.configs])
    BY <1>1, <1>3, <2>1, DeploymentReplaced
  <2> QED
    BY <1>2, <2>2
<1>5. CrashReplicas(c) > 1 => CrashReplicas(Scaled(c, d, n)) > 1
  BY <1>1, <1>2, <1>3, CrashHasReplicas DEF CrashReplicas
<1>6. DeploymentState(Scaled(c, d, n), d) = Replicated(n)
  BY <1>0, <1>1, <1>2 DEF DeploymentState
<1> QED
  BY <1>2, <1>4, <1>5, <1>6 DEF Kept, Privileges

LEMMA RestartedKeeps ==
    ASSUME NEW c, ClusterOK(c)
    PROVE  /\ ClusterOK(Restarted(c)) /\ Kept(c, Restarted(c))
           /\ Privileges(Restarted(c)) = Privileges(c)
           /\ Restarted(c).pods = AllRestarted
           /\ DOMAIN Restarted(c).deployment = DOMAIN c.deployment
           /\ CrashReplicas(Restarted(c)) = CrashReplicas(c)
           /\ Restarted(c).deployment["crash-demo"].available = 1
<1>1. PICK pods : pods = RestartedPods(c.pods)
  OBVIOUS
<1>2. PICK crash : crash = [replicas |-> CrashReplicas(c), ready |-> 1, available |-> 1]
  OBVIOUS
<1>3. Restarted(c) = [c EXCEPT !.pods = pods, !.deployment["crash-demo"] = crash]
  BY <1>1, <1>2 DEF Restarted, RestartedPods
<1>4. PICK deployment :
         deployment = [e \in DOMAIN c.deployment \union {"crash-demo"} |->
                          IF e = "crash-demo" THEN crash ELSE c.deployment[e]]
  OBVIOUS
<1>5. deployment = [c.deployment EXCEPT !["crash-demo"] = crash]
  BY <1>4, CrashHasReplicas
<1>6. Restarted(c) = [deployment |-> deployment, pods |-> pods, bindings |-> c.bindings,
                      certDays |-> c.certDays, configs |-> c.configs]
  <2>1. Restarted(c) = [deployment |-> [c.deployment EXCEPT !["crash-demo"] = crash], pods |-> pods,
                        bindings |-> c.bindings, certDays |-> c.certDays, configs |-> c.configs]
    BY <1>1, <1>2, <1>3, ClusterShape
  <2> QED
    BY <1>5, <2>1
<1>7. pods = AllRestarted
  BY <1>1, ClusterParts, PodsOfRestart
<1>8. crash \in [replicas : Nat \ {0}, ready : Nat, available : Nat] /\ crash.available <= crash.replicas
  BY <1>2, CrashHasReplicas
<1>9. ClusterOK(Restarted(c))
  BY <1>4, <1>6, <1>7, <1>8, DeploymentReplaced
<1>10. CrashReplicas(Restarted(c)) = CrashReplicas(c) /\ deployment["crash-demo"].available = 1
  BY <1>2, <1>4, <1>6 DEF CrashReplicas
<1>11. DOMAIN deployment = DOMAIN c.deployment
  BY <1>5
<1> QED
  BY <1>6, <1>7, <1>9, <1>10, <1>11 DEF Kept, Privileges

LEMMA RolledBackKeeps ==
    ASSUME NEW c, ClusterOK(c), NEW binding
    PROVE  /\ ClusterOK(RolledBack(c, binding)) /\ Kept(c, RolledBack(c, binding))
           /\ binding \notin RolledBack(c, binding).bindings
<1>1. PICK bindings : bindings = c.bindings \ {binding}
  OBVIOUS
<1>2. RolledBack(c, binding) = [deployment |-> c.deployment, pods |-> c.pods, bindings |-> bindings,
                                certDays |-> c.certDays, configs |-> c.configs]
  BY <1>1, ClusterShape DEF RolledBack
<1>3. bindings \subseteq InitialCluster.bindings
  BY <1>1, ClusterParts
<1>4. ClusterOK(RolledBack(c, binding))
  BY <1>2, <1>3, ClusterParts, ClusterMade
<1> QED
  BY <1>1, <1>2, <1>4 DEF Kept, CrashReplicas

LEMMA RenewedKeeps ==
    ASSUME NEW c, ClusterOK(c)
    PROVE  /\ ClusterOK(Renewed(c)) /\ Kept(c, Renewed(c))
           /\ Renewed(c).certDays = 365
<1>1. Renewed(c) = [deployment |-> c.deployment, pods |-> c.pods, bindings |-> c.bindings,
                    certDays |-> 365, configs |-> c.configs]
  BY ClusterShape DEF Renewed
<1>2. ClusterOK(Renewed(c))
  BY <1>1, ClusterParts, ClusterMade
<1> QED
  BY <1>1, <1>2 DEF Kept, CrashReplicas

LEMMA ConfiguredKeeps ==
    ASSUME NEW c, ClusterOK(c), NEW config, NEW target
    PROVE  /\ ClusterOK(Configured(c, config, target)) /\ Kept(c, Configured(c, config, target))
           /\ config \in SecurityConfigs => <<config, target>> \in Configured(c, config, target).configs
<1>1. CASE config \in SecurityConfigs
  <2>1. PICK configs : configs = c.configs \union {<<config, target>>}
    OBVIOUS
  <2>2. Configured(c, config, target) = [deployment |-> c.deployment, pods |-> c.pods, bindings |-> c.bindings,
                                         certDays |-> c.certDays, configs |-> configs]
    BY <1>1, <2>1, ClusterShape DEF Configured
  <2>3. ClusterOK(Configured(c, config, target))
    BY <2>2, ClusterParts, ClusterMade
  <2> QED
    BY <2>1, <2>2, <2>3 DEF Kept, CrashReplicas
<1>2. CASE config \notin SecurityConfigs
  BY <1>2 DEF Configured, Kept
<1> QED
  BY <1>1, <1>2

\* Which actions need a person.
Privileged == {"rollback_rbac", "renew_certificate", "apply_security_config"}

\* Whatever is performed, the cluster stays a cluster and keeps what was repaired.
LEMMA PerformedKeeps ==
    ASSUME NEW c, ClusterOK(c), NEW plan,
           plan.action = "scale_deployment" =>
               plan.desired \in Nat \ {0} /\ (plan.deployment = "crash-demo" => plan.desired > 1)
    PROVE  /\ ClusterOK(Performed(c, plan)) /\ Kept(c, Performed(c, plan))
           /\ plan.action \notin Privileged => Privileges(Performed(c, plan)) = Privileges(c)
<1>1. CASE plan.action = "scale_deployment"
  BY <1>1, ScaledKeeps DEF Performed
<1>2. CASE plan.action = "restart_deployment"
  BY <1>2, RestartedKeeps DEF Performed
<1>3. CASE plan.action = "rollback_rbac"
  BY <1>3, RolledBackKeeps DEF Performed, Privileged
<1>4. CASE plan.action = "renew_certificate"
  BY <1>4, RenewedKeeps DEF Performed, Privileged
<1>5. CASE plan.action = "apply_security_config"
  BY <1>5, ConfiguredKeeps DEF Performed, Privileged
<1>6. CASE plan.action \notin {"scale_deployment", "restart_deployment", "rollback_rbac",
                               "renew_certificate", "apply_security_config"}
  BY <1>6 DEF Performed, Kept
<1> QED
  BY <1>1, <1>2, <1>3, <1>4, <1>5, <1>6

-----------------------------------------------------------------------------
(* What the detector and the logs see.                                     *)

\* The pods as they were deployed.
LEMMA ShippedPods ==
    /\ Len(Shipped) = 6 /\ DOMAIN Shipped = 1 .. 6
    /\ Shipped[1] = Pod("demo-app-1", "demo-app", TRUE, 0, FALSE)
    /\ Shipped[2] = Pod("cpu-demo-1", "cpu-demo", TRUE, 0, FALSE)
    /\ Shipped[3] = Pod("cpu-demo-2", "cpu-demo", TRUE, 0, FALSE)
    /\ Shipped[4] = Pod("memory-demo-1", "memory-demo", TRUE, 2, TRUE)
    /\ Shipped[5] = Pod("crash-demo-1", "crash-demo", FALSE, 7, FALSE)
    /\ Shipped[6] = Pod("test-pod", Unmanaged, TRUE, 0, FALSE)
BY DEF Shipped, InitialCluster

LEMMA OneToSix == \A k \in 1 .. 6 : k = 1 \/ k = 2 \/ k = 3 \/ k = 4 \/ k = 5 \/ k = 6
OBVIOUS

LEMMA SignsShipped ==
    /\ OutOfMemory(Shipped) = {4} /\ CrashLooping(Shipped) = {5}
    /\ FirstPod(Shipped, {4}) = "memory-demo" /\ FirstPod(Shipped, {5}) = "crash-demo"
<1>2. \A k \in 1 .. 6 : /\ Shipped[k].oom <=> (k = 4)
                        /\ (Shipped[k].restarts >= 5) <=> (k = 5)
  BY ShippedPods, OneToSix DEF Pod
<1>3. Min({4}) = 4 /\ Min({5}) = 5
  BY DEF Min
<1>4. Shipped[4].deployment = "memory-demo" /\ Shipped[5].deployment = "crash-demo"
  BY ShippedPods DEF Pod
<1>5. OutOfMemory(Shipped) = {4} /\ CrashLooping(Shipped) = {5}
  BY <1>2, ShippedPods DEF OutOfMemory, CrashLooping
<1> QED
  BY <1>3, <1>4, <1>5 DEF FirstPod, Unmanaged

\* The pods after a restart: only the lab's pod was not restarted.
LEMMA RestartedAsShipped ==
    /\ AllRestarted = RestartedPods(Shipped)
    /\ DOMAIN AllRestarted = 1 .. 6
    /\ \A k \in 1 .. 6 : /\ AllRestarted[k].name = Shipped[k].name
                         /\ AllRestarted[k].deployment = Shipped[k].deployment
                         /\ AllRestarted[k].ready = TRUE /\ AllRestarted[k].restarts = 0
                         /\ AllRestarted[k].oom = FALSE
<1>1. AllRestarted = RestartedPods(Shipped)
  BY DEF Restarted, AllRestarted, Shipped, InitialCluster, RestartedPods
<1>2. DOMAIN AllRestarted = 1 .. 6
  BY <1>1, ShippedPods DEF RestartedPods
<1>3. ASSUME NEW k \in 1 .. 6
      PROVE  AllRestarted[k] = IF Shipped[k].deployment \in RestartedDeployments
                               THEN [Shipped[k] EXCEPT !.ready = TRUE, !.restarts = 0, !.oom = FALSE]
                               ELSE Shipped[k]
  BY <1>1, ShippedPods DEF RestartedPods
<1>4. ASSUME NEW k \in 1 .. 6
      PROVE  /\ AllRestarted[k].name = Shipped[k].name
             /\ AllRestarted[k].deployment = Shipped[k].deployment
             /\ AllRestarted[k].ready = TRUE /\ AllRestarted[k].restarts = 0
             /\ AllRestarted[k].oom = FALSE
  <2>1. PICK p : p = Shipped[k]
    OBVIOUS
  <2>2. p = [name |-> p.name, deployment |-> p.deployment, ready |-> p.ready,
             restarts |-> p.restarts, oom |-> p.oom]
    BY <2>1, ShippedPods, OneToSix DEF Pod
  <2>3. CASE p.deployment \in RestartedDeployments
    BY <1>3, <2>1, <2>2, <2>3
  <2>4. CASE p.deployment \notin RestartedDeployments
    <3>1. k = 6
      BY <2>1, <2>4, ShippedPods, OneToSix DEF Pod, RestartedDeployments
    <3>2. Shipped[k] = Pod("test-pod", Unmanaged, TRUE, 0, FALSE)
      BY <3>1, ShippedPods
    <3>3. AllRestarted[k] = Shipped[k]
      BY <1>3, <2>1, <2>4
    <3> QED
      BY <3>2, <3>3 DEF Pod
  <2> QED
    BY <2>3, <2>4
<1> QED
  BY <1>1, <1>2, <1>4

LEMMA SignsRestarted == OutOfMemory(AllRestarted) = {} /\ CrashLooping(AllRestarted) = {}
BY RestartedAsShipped DEF OutOfMemory, CrashLooping

LEMMA ToSetOfConcat ==
    ASSUME NEW S, NEW s \in Seq(S), NEW t \in Seq(S)
    PROVE  s \o t \in Seq(S) /\ ToSet(s \o t) = ToSet(s) \union ToSet(t)
<1>1. s \o t \in Seq(S) /\ Len(s \o t) = Len(s) + Len(t) /\ Len(s) \in Nat /\ Len(t) \in Nat
  OBVIOUS
<1>2. \A k \in 1 .. Len(s) : (s \o t)[k] = s[k]
  OBVIOUS
<1>3. \A k \in 1 .. Len(t) : (s \o t)[Len(s) + k] = t[k]
  OBVIOUS
<1>4. ASSUME NEW x \in ToSet(s \o t) PROVE x \in ToSet(s) \union ToSet(t)
  <2>1. PICK k \in 1 .. Len(s) + Len(t) : x = (s \o t)[k]
    BY <1>1 DEF ToSet
  <2>2. CASE k \in 1 .. Len(s)
    BY <1>2, <2>1, <2>2 DEF ToSet
  <2>3. CASE k \notin 1 .. Len(s)
    <3>1. k - Len(s) \in 1 .. Len(t) /\ k = Len(s) + (k - Len(s))
      BY <1>1, <2>3
    <3>2. x = t[k - Len(s)]
      BY <1>3, <2>1, <3>1
    <3> QED
      BY <3>1, <3>2 DEF ToSet
  <2> QED
    BY <2>2, <2>3
<1>5. ASSUME NEW x \in ToSet(s) PROVE x \in ToSet(s \o t)
  BY <1>1, <1>2 DEF ToSet
<1>6. ASSUME NEW x \in ToSet(t) PROVE x \in ToSet(s \o t)
  <2>1. PICK k \in 1 .. Len(t) : x = t[k]
    BY DEF ToSet
  <2>2. Len(s) + k \in 1 .. Len(s \o t)
    BY <1>1
  <2>3. (s \o t)[Len(s) + k] = x
    BY <1>3, <2>1
  <2>4. DOMAIN (s \o t) = 1 .. Len(s \o t)
    BY <1>1
  <2> QED
    BY <2>2, <2>3, <2>4 DEF ToSet
<1> QED
  BY <1>1, <1>4, <1>5, <1>6

LEMMA OneShell == ASSUME NEW x PROVE ToSet(<<x>>) = {x}
BY DEF ToSet

LEMMA NoShell == ToSet(<< >>) = {}
BY DEF ToSet

\* The rules that fire, and those that fire whatever was done.
Always == {Shell("high_cpu", "cpu-demo"), Shell("high_memory", "memory-demo"),
           Shell("falco_security", "test-pod")}
Unrestarted == {Shell("oom_killed", "memory-demo"), Shell("crashloop_backoff", "crash-demo")}
Expiring == {Shell("certificate_expiry", "cert-demo")}
Bound == {Shell("suspicious_rbac", "ci-bot-cluster-admin")}

LEMMA DetectedShells ==
    ASSUME NEW c, ClusterOK(c)
    PROVE  /\ Detected(c) \in Seq(Always \union Unrestarted \union Expiring \union Bound)
           /\ ToSet(Detected(c)) =
                 Always \union (IF c.pods = Shipped THEN Unrestarted ELSE {})
                        \union (IF c.certDays = 4 THEN Expiring ELSE {})
                        \union (IF "ci-bot-cluster-admin" \in c.bindings THEN Bound ELSE {})
<1> DEFINE All == Always \union Unrestarted \union Expiring \union Bound
<1>1. PICK x1, x2, x3, x4, x5, x6, x7 :
         /\ x1 = Shell("high_cpu", "cpu-demo") /\ x2 = Shell("high_memory", "memory-demo")
         /\ x3 = Shell("oom_killed", "memory-demo") /\ x4 = Shell("crashloop_backoff", "crash-demo")
         /\ x5 = Shell("certificate_expiry", "cert-demo") /\ x6 = Shell("falco_security", "test-pod")
         /\ x7 = Shell("suspicious_rbac", "ci-bot-cluster-admin")
  OBVIOUS
<1>2. Always = {x1, x2, x6} /\ Unrestarted = {x3, x4} /\ Expiring = {x5} /\ Bound = {x7}
  BY <1>1 DEF Always, Unrestarted, Expiring, Bound
<1>3. PICK b1 \in BOOLEAN, b2 \in BOOLEAN, b3 \in BOOLEAN :
         /\ b1 <=> c.pods = Shipped
         /\ b2 <=> c.certDays = 4
         /\ b3 <=> "ci-bot-cluster-admin" \in c.bindings
  OBVIOUS
<1>4. PICK s1, s2, s3, s4, s5, s6, s7 :
         /\ s1 = <<x1>>
         /\ s2 = <<x2>>
         /\ s3 = IF b1 THEN <<x3>> ELSE << >>
         /\ s4 = IF b1 THEN <<x4>> ELSE << >>
         /\ s5 = IF b2 THEN <<x5>> ELSE << >>
         /\ s6 = <<x6>>
         /\ s7 = IF b3 THEN <<x7>> ELSE << >>
  OBVIOUS
<1>5. Detected(c) = s1 \o s2 \o s3 \o s4 \o s5 \o s6 \o s7
  <2>1. s1 = IF HighCpuPoints >= CpuSustainMinutes THEN <<x1>> ELSE << >>
    BY <1>4 DEF HighCpuPoints, CpuSustainMinutes
  <2>2. s2 = IF HighMemoryPoints > 0 THEN <<x2>> ELSE << >>
    BY <1>4 DEF HighMemoryPoints
  <2>3. b1 <=> OutOfMemory(c.pods) # {}
    BY <1>3, ClusterParts, SignsShipped, SignsRestarted
  <2>4. b1 <=> CrashLooping(c.pods) # {}
    BY <1>3, ClusterParts, SignsShipped, SignsRestarted
  <2>5. s3 = IF OutOfMemory(c.pods) # {}
             THEN <<Shell("oom_killed", FirstPod(c.pods, OutOfMemory(c.pods)))>> ELSE << >>
    <3>1. b1 => FirstPod(c.pods, OutOfMemory(c.pods)) = "memory-demo"
      BY <1>3, SignsShipped
    <3> QED
      BY <1>1, <1>4, <2>3, <3>1
  <2>6. s4 = IF CrashLooping(c.pods) # {}
             THEN <<Shell("crashloop_backoff", FirstPod(c.pods, CrashLooping(c.pods)))>> ELSE << >>
    <3>1. b1 => FirstPod(c.pods, CrashLooping(c.pods)) = "crash-demo"
      BY <1>3, SignsShipped
    <3> QED
      BY <1>1, <1>4, <2>4, <3>1
  <2>7. s5 = IF c.certDays < CertExpiryDays THEN <<x5>> ELSE << >>
    BY <1>3, <1>4, ClusterParts DEF CertExpiryDays
  <2>8. s7 = IF \E b \in c.bindings : Suspicious(b)
             THEN <<Shell("suspicious_rbac", CHOOSE b \in c.bindings : Suspicious(b))>> ELSE << >>
    <3>1. b3 <=> \E b \in c.bindings : Suspicious(b)
      BY <1>3 DEF Suspicious
    <3>2. b3 => (CHOOSE b \in c.bindings : Suspicious(b)) = "ci-bot-cluster-admin"
      BY <3>1 DEF Suspicious
    <3> QED
      BY <1>1, <1>4, <3>1, <3>2
  <2> QED
    BY <1>1, <1>4, <2>1, <2>2, <2>5, <2>6, <2>7, <2>8 DEF Detected
<1>6. /\ s1 \in Seq(All) /\ ToSet(s1) = {x1}
      /\ s2 \in Seq(All) /\ ToSet(s2) = {x2}
      /\ s3 \in Seq(All) /\ ToSet(s3) = IF b1 THEN {x3} ELSE {}
      /\ s4 \in Seq(All) /\ ToSet(s4) = IF b1 THEN {x4} ELSE {}
      /\ s5 \in Seq(All) /\ ToSet(s5) = IF b2 THEN {x5} ELSE {}
      /\ s6 \in Seq(All) /\ ToSet(s6) = {x6}
      /\ s7 \in Seq(All) /\ ToSet(s7) = IF b3 THEN {x7} ELSE {}
  <2>1. x1 \in All /\ x2 \in All /\ x3 \in All /\ x4 \in All /\ x5 \in All /\ x6 \in All /\ x7 \in All
    BY <1>2
  <2> HIDE DEF All
  <2>2. \A x \in All : <<x>> \in Seq(All)
    OBVIOUS
  <2>3. << >> \in Seq(All)
    OBVIOUS
  <2>4. /\ s1 \in Seq(All) /\ s2 \in Seq(All) /\ s3 \in Seq(All) /\ s4 \in Seq(All)
        /\ s5 \in Seq(All) /\ s6 \in Seq(All) /\ s7 \in Seq(All)
    BY <1>4, <2>1, <2>2, <2>3
  <2>5. ToSet(s1) = {x1} /\ ToSet(s2) = {x2} /\ ToSet(s6) = {x6}
    BY <1>4, OneShell
  <2>6. ToSet(s3) = (IF b1 THEN {x3} ELSE {}) /\ ToSet(s4) = (IF b1 THEN {x4} ELSE {})
    BY <1>4, OneShell, NoShell
  <2>7. ToSet(s5) = (IF b2 THEN {x5} ELSE {}) /\ ToSet(s7) = (IF b3 THEN {x7} ELSE {})
    BY <1>4, OneShell, NoShell
  <2> QED
    BY <2>4, <2>5, <2>6, <2>7
<1> HIDE DEF All
<1>7. /\ Detected(c) \in Seq(All)
      /\ ToSet(Detected(c)) = ToSet(s1) \union ToSet(s2) \union ToSet(s3) \union ToSet(s4)
                                 \union ToSet(s5) \union ToSet(s6) \union ToSet(s7)
  <2>1. PICK r2, r3, r4, r5, r6 :
          /\ r2 = s1 \o s2 /\ r3 = r2 \o s3 /\ r4 = r3 \o s4 /\ r5 = r4 \o s5 /\ r6 = r5 \o s6
    OBVIOUS
  <2>0. \A s \in Seq(All), t \in Seq(All) : s \o t \in Seq(All) /\ ToSet(s \o t) = ToSet(s) \union ToSet(t)
    BY ToSetOfConcat
  <2>2. r2 \in Seq(All) /\ ToSet(r2) = ToSet(s1) \union ToSet(s2)
    BY <1>6, <2>1, <2>0
  <2>3. r3 \in Seq(All) /\ ToSet(r3) = ToSet(r2) \union ToSet(s3)
    BY <1>6, <2>1, <2>2, <2>0
  <2>4. r4 \in Seq(All) /\ ToSet(r4) = ToSet(r3) \union ToSet(s4)
    BY <1>6, <2>1, <2>3, <2>0
  <2>5. r5 \in Seq(All) /\ ToSet(r5) = ToSet(r4) \union ToSet(s5)
    BY <1>6, <2>1, <2>4, <2>0
  <2>6. r6 \in Seq(All) /\ ToSet(r6) = ToSet(r5) \union ToSet(s6)
    BY <1>6, <2>1, <2>5, <2>0
  <2>7. Detected(c) = r6 \o s7
    BY <1>5, <2>1
  <2>8. Detected(c) \in Seq(All) /\ ToSet(Detected(c)) = ToSet(r6) \union ToSet(s7)
    BY <1>6, <2>6, <2>7, <2>0
  <2> QED
    BY <2>2, <2>3, <2>4, <2>5, <2>6, <2>8
<1>8. ToSet(Detected(c)) = {x1, x2, x6} \union (IF b1 THEN {x3, x4} ELSE {})
                              \union (IF b2 THEN {x5} ELSE {}) \union (IF b3 THEN {x7} ELSE {})
  BY <1>6, <1>7
<1> QED
  BY <1>2, <1>3, <1>7, <1>8 DEF All

LEMMA ShellsDiffer ==
    ASSUME NEW t1, NEW r1, NEW t2, NEW r2
    PROVE  Shell(t1, r1) = Shell(t2, r2) <=> t1 = t2 /\ r1 = r2
<1>1. Shell(t1, r1).type = t1 /\ Shell(t1, r1).resource = r1
  BY DEF Shell
<1>2. Shell(t2, r2).type = t2 /\ Shell(t2, r2).resource = r2
  BY DEF Shell
<1> QED
  BY <1>1, <1>2

\* What the detector reports of the types a repair removes, and the killed containers.
LEMMA Reported ==
    ASSUME NEW c, ClusterOK(c), NEW r
    PROVE  /\ Shell("crashloop_backoff", r) \in ToSet(Detected(c)) <=> r = "crash-demo" /\ c.pods = Shipped
           /\ Shell("oom_killed", r) \in ToSet(Detected(c)) <=> r = "memory-demo" /\ c.pods = Shipped
           /\ Shell("certificate_expiry", r) \in ToSet(Detected(c)) <=> r = "cert-demo" /\ c.certDays = 4
           /\ Shell("suspicious_rbac", r) \in ToSet(Detected(c))
                 <=> r = "ci-bot-cluster-admin" /\ "ci-bot-cluster-admin" \in c.bindings
<1> USE DetectedShells DEF Always, Unrestarted, Expiring, Bound
<1>1. Shell("crashloop_backoff", r) \in ToSet(Detected(c)) <=> r = "crash-demo" /\ c.pods = Shipped
  BY ShellsDiffer
<1>2. Shell("oom_killed", r) \in ToSet(Detected(c)) <=> r = "memory-demo" /\ c.pods = Shipped
  BY ShellsDiffer
<1>3. Shell("certificate_expiry", r) \in ToSet(Detected(c)) <=> r = "cert-demo" /\ c.certDays = 4
  BY ShellsDiffer
<1>4. Shell("suspicious_rbac", r) \in ToSet(Detected(c))
         <=> r = "ci-bot-cluster-admin" /\ "ci-bot-cluster-admin" \in c.bindings
  BY ShellsDiffer
<1> QED
  BY <1>1, <1>2, <1>3, <1>4

LEMMA PodsDiffer == Shipped # AllRestarted
BY SignsShipped, SignsRestarted

\* What has been repaired stays repaired.
LEMMA KeptCured ==
    ASSUME NEW c, NEW e, ClusterOK(c), ClusterOK(e), Kept(c, e),
           NEW type \in Curable, NEW r, Shell(type, r) \notin ToSet(Detected(c))
    PROVE  Shell(type, r) \notin ToSet(Detected(e))
<1>1. CASE type = "crashloop_backoff"
  BY <1>1, Reported, ClusterParts, PodsDiffer DEF Kept
<1>2. CASE type = "certificate_expiry"
  BY <1>2, Reported, ClusterParts DEF Kept
<1>3. CASE type = "suspicious_rbac"
  BY <1>3, Reported DEF Kept
<1> QED
  BY <1>1, <1>2, <1>3 DEF Curable

\* The logs show an error exactly for the pods that have not been restarted.
LEMMA LogsOfPods ==
    ASSUME NEW c, ClusterOK(c)
    PROVE  LoggedErrors(c) = IF c.pods = Shipped THEN {"crash-demo", "memory-demo"} ELSE {}
<1>1. CASE c.pods = Shipped
  <2>1. Shipped[5] \in PodsOf(c, "crash-demo") /\ ~Healthy(Shipped[5])
    BY <1>1, ShippedPods DEF PodsOf, ToSet, Pod, Healthy
  <2>2. Shipped[4] \in PodsOf(c, "memory-demo") /\ ~Healthy(Shipped[4])
    BY <1>1, ShippedPods DEF PodsOf, ToSet, Pod, Healthy
  <2> QED
    BY <1>1, <2>1, <2>2 DEF LoggedErrors
<1>2. CASE c.pods = AllRestarted
  <2>1. \A d : \A p \in PodsOf(c, d) : Healthy(p)
    BY <1>2, RestartedAsShipped DEF PodsOf, ToSet, Healthy
  <2> QED
    BY <1>2, <2>1, PodsDiffer DEF LoggedErrors
<1> QED
  BY <1>1, <1>2, ClusterParts

LEMMA LogsMirror ==
    ASSUME NEW c, ClusterOK(c)
    PROVE  LoggedErrors(c) =
               {d \in {"crash-demo"} : Shell("crashloop_backoff", d) \in ToSet(Detected(c))}
                 \union {d \in {"memory-demo"} : Shell("oom_killed", d) \in ToSet(Detected(c))}
BY LogsOfPods, Reported

-----------------------------------------------------------------------------
(* Incidents.                                                              *)

LEMMA StationsKnown ==
    /\ << >> \in Seq(Noted) /\ Investigation \in Seq(Noted)
    /\ "execute" \in Noted /\ "verify" \in Noted
<1>1. \A k \in 1 .. 12 : Pipeline[k] \in ToSet(Pipeline)
  BY DEF Pipeline, ToSet
<1>2. /\ "classify" \in Noted /\ "collect_evidence" \in Noted
      /\ "correlate" \in Noted /\ "rag_retrieve" \in Noted
      /\ "diagnose" \in Noted /\ "assess_risk" \in Noted
      /\ "plan_remediation" \in Noted /\ "policy_check" \in Noted
      /\ "execute" \in Noted /\ "verify" \in Noted
  <2>1. /\ Pipeline[1] = "classify" /\ Pipeline[2] = "collect_evidence" /\ Pipeline[3] = "correlate"
        /\ Pipeline[4] = "rag_retrieve" /\ Pipeline[5] = "diagnose" /\ Pipeline[6] = "assess_risk"
        /\ Pipeline[7] = "plan_remediation" /\ Pipeline[8] = "policy_check"
        /\ Pipeline[10] = "execute" /\ Pipeline[11] = "verify"
    BY DEF Pipeline
  <2> QED
    BY <1>1, <2>1 DEF Noted
<1>3. PICK S : S = Noted
  OBVIOUS
<1>4. << >> \in Seq(S) /\ Investigation \in Seq(S)
  BY <1>2, <1>3 DEF Investigation
<1> QED
  BY <1>2, <1>3, <1>4

Approvals == {"NOT_REQUIRED", "PENDING", "APPROVED", "REJECTED"}

\* A record whose decision, state and timeline change.
LEMMA RecordedFields ==
    ASSUME NEW inc, Recorded(inc)
    PROVE  /\ inc = [type |-> inc.type, resource |-> inc.resource, status |-> inc.status,
                     approval |-> inc.approval, plan |-> inc.plan, policy |-> inc.policy,
                     timeline |-> inc.timeline]
           /\ inc.type \in IncidentTypes /\ inc.status \in Statuses /\ inc.approval \in Approvals
           /\ inc.timeline \in Seq(Noted)
BY DEF Recorded, Approvals

LEMMA RecordMade ==
    ASSUME NEW type \in IncidentTypes, NEW resource, NEW status \in Statuses,
           NEW approval \in Approvals, NEW plan, NEW policy, NEW timeline \in Seq(Noted),
           NEW inc, inc = [type |-> type, resource |-> resource, status |-> status,
                           approval |-> approval, plan |-> plan, policy |-> policy, timeline |-> timeline]
    PROVE  Recorded(inc)
BY DEF Recorded, Approvals

\* An incident that only changes its approval, its state and its timeline.
LEMMA IncidentMade ==
    ASSUME NEW inc, Recorded(inc), Planned(inc), NEW status \in Statuses \ {"DETECTED"},
           NEW approval \in Approvals, NEW timeline \in Seq(Noted),
           NEW made, made = [type |-> inc.type, resource |-> inc.resource, status |-> status,
                             approval |-> approval, plan |-> inc.plan, policy |-> inc.policy,
                             timeline |-> timeline],
           status = "AWAITING_APPROVAL" => approval = "PENDING",
           NEW c, inc.type \in Curable /\ status = "REMEDIATED" =>
                      Shell(inc.type, inc.resource) \notin ToSet(Detected(c))
    PROVE  IncidentOK(made, c) /\ made.approval = approval
<1>1. /\ made.type = inc.type /\ made.resource = inc.resource /\ made.plan = inc.plan
      /\ made.policy = inc.policy /\ made.status = status /\ made.approval = approval
  OBVIOUS
<1>2. Recorded(made)
  BY RecordedFields, RecordMade
<1>3. Planned(made)
  BY <1>1 DEF Planned
<1>4. made.status # "DETECTED"
  BY <1>1
<1>5. Cured(made, c) /\ Awaited(made)
  BY <1>1 DEF Cured, Awaited
<1> QED
  BY <1>1, <1>2, <1>3, <1>4, <1>5 DEF IncidentOK

\* What the execution of its plan does to an incident of a curable type.
LEMMA PerformedCures ==
    ASSUME NEW c, ClusterOK(c), NEW inc, Planned(inc), inc.type \in Curable
    PROVE  /\ inc.plan.action \in RegisteredTools
           /\ Shell(inc.type, inc.resource) \notin ToSet(Detected(Performed(c, inc.plan)))
<1>0. inc.plan.action = MockAdvice(inc.type)
  BY DEF Planned
<1>1. CASE inc.type = "crashloop_backoff"
  <2>1. inc.plan.action = "restart_deployment"
    BY <1>0, <1>1 DEF MockAdvice
  <2>2. Performed(c, inc.plan) = Restarted(c)
    BY <2>1 DEF Performed
  <2> QED
    BY <1>1, <2>1, <2>2, RestartedKeeps, Reported, PodsDiffer DEF RegisteredTools, ActionToolNames
<1>2. CASE inc.type = "certificate_expiry"
  <2>1. inc.plan.action = "renew_certificate"
    BY <1>0, <1>2 DEF MockAdvice
  <2>2. Performed(c, inc.plan) = Renewed(c)
    BY <2>1 DEF Performed
  <2> QED
    BY <1>2, <2>1, <2>2, RenewedKeeps, Reported DEF RegisteredTools, ActionToolNames
<1>3. CASE inc.type = "suspicious_rbac"
  <2>1. inc.plan.action = "rollback_rbac"
    BY <1>0, <1>3 DEF MockAdvice
  <2>2. Performed(c, inc.plan) = RolledBack(c, inc.resource)
    BY <2>1 DEF Performed, Planned
  <2> QED
    BY <1>3, <2>1, <2>2, RolledBackKeeps, Reported DEF RegisteredTools, ActionToolNames
<1> QED
  BY <1>1, <1>2, <1>3 DEF Curable

\* The execution graph keeps the cluster and the record in order, and without
\* a person it leaves the privileges alone.
ExecutionOK(c, o, inc) ==
    /\ ClusterOK(o.cluster) /\ Kept(c, o.cluster)
    /\ IncidentOK(o.incident, o.cluster)
    /\ o.incident.approval = inc.approval
    /\ inc.policy.decision = "AUTO" => Privileges(o.cluster) = Privileges(c)

LEMMA ExecuteKeeps ==
    ASSUME NEW c, ClusterOK(c), NEW inc, Recorded(inc), Planned(inc), NEW approved
    PROVE  ExecutionOK(c, Execute(c, inc, approved), inc)
<1>1. PICK after : after = Performed(c, inc.plan)
  OBVIOUS
<1>2. PICK shape : shape = [type |-> inc.type, resource |-> inc.resource, status |-> inc.status,
                            approval |-> inc.approval, plan |-> inc.plan, policy |-> inc.policy,
                            timeline |-> inc.timeline]
  OBVIOUS
<1>3. inc = shape /\ inc.approval \in Approvals /\ inc.timeline \in Seq(Noted)
  BY <1>2, RecordedFields
<1>4. /\ Append(inc.timeline, "verify") \in Seq(Noted)
      /\ Append(inc.timeline, "execute") \in Seq(Noted)
      /\ inc.timeline \o <<"execute", "verify">> \in Seq(Noted)
  <2>1. PICK S : S = Noted
    OBVIOUS
  <2>2. <<"execute", "verify">> \in Seq(S)
    BY <2>1, StationsKnown
  <2> QED
    BY <1>3, <2>1, <2>2, StationsKnown
<1>5. Kept(c, c)
  BY DEF Kept
<1>6. CASE inc.plan.action \notin RegisteredTools
  <2>1. PICK made : made = [inc EXCEPT !.status = "REMEDIATED", !.timeline = Append(@, "verify")]
    OBVIOUS
  <2>2. PICK t : t = Append(inc.timeline, "verify")
    OBVIOUS
  <2>3. made = [type |-> inc.type, resource |-> inc.resource, status |-> "REMEDIATED",
                approval |-> inc.approval, plan |-> inc.plan, policy |-> inc.policy, timeline |-> t]
    BY <1>2, <1>3, <2>1, <2>2
  <2>4. IncidentOK(made, c) /\ made.approval = inc.approval
    <3>1. inc.type \notin Curable
      BY <1>6, PerformedCures
    <3>2. "REMEDIATED" \in Statuses \ {"DETECTED"} /\ "REMEDIATED" # "AWAITING_APPROVAL" /\ t \in Seq(Noted)
      BY <1>4, <2>2 DEF Statuses
    <3> QED
      BY <1>3, <2>3, <3>1, <3>2, IncidentMade
  <2>5. Execute(c, inc, approved) = Outcome(c, made)
    BY <1>6, <2>1 DEF Execute
  <2> QED
    BY <1>5, <2>4, <2>5 DEF ExecutionOK, Outcome
<1>7. CASE /\ inc.plan.action \in RegisteredTools
           /\ ToolRefuses(inc.plan) \/ ~Authorized(inc.plan, inc.policy, approved)
  <2>1. PICK made : made = [inc EXCEPT !.status = "EXECUTING", !.timeline = Append(@, "execute")]
    OBVIOUS
  <2>2. PICK t : t = Append(inc.timeline, "execute")
    OBVIOUS
  <2>3. made = [type |-> inc.type, resource |-> inc.resource, status |-> "EXECUTING",
                approval |-> inc.approval, plan |-> inc.plan, policy |-> inc.policy, timeline |-> t]
    BY <1>2, <1>3, <2>1, <2>2
  <2>4. IncidentOK(made, c) /\ made.approval = inc.approval
    <3>1. "EXECUTING" \in Statuses \ {"DETECTED"} /\ "EXECUTING" # "AWAITING_APPROVAL" /\ t \in Seq(Noted)
      BY <1>4, <2>2 DEF Statuses
    <3>2. "EXECUTING" # "REMEDIATED"
      OBVIOUS
    <3> QED
      BY <1>3, <2>3, <3>1, <3>2, IncidentMade
  <2>5. Execute(c, inc, approved) = Outcome(c, made)
    BY <1>7, <2>1 DEF Execute
  <2> QED
    BY <1>5, <2>4, <2>5 DEF ExecutionOK, Outcome
<1>8. CASE /\ inc.plan.action \in RegisteredTools
           /\ ~(ToolRefuses(inc.plan) \/ ~Authorized(inc.plan, inc.policy, approved))
  <2>0. PICK status \in {"REMEDIATED", "VERIFICATION_FAILED"} :
           status = IF VerifiedByTool(after, inc.plan) THEN "REMEDIATED" ELSE "VERIFICATION_FAILED"
    OBVIOUS
  <2>1. PICK made : made = [inc EXCEPT !.timeline = @ \o <<"execute", "verify">>, !.status = status]
    OBVIOUS
  <2>2. PICK t : t = inc.timeline \o <<"execute", "verify">>
    OBVIOUS
  <2>3. made = [type |-> inc.type, resource |-> inc.resource, status |-> status,
                approval |-> inc.approval, plan |-> inc.plan, policy |-> inc.policy, timeline |-> t]
    BY <1>2, <1>3, <2>1, <2>2
  <2>4. ClusterOK(after) /\ Kept(c, after)
    BY <1>1, PerformedKeeps DEF Planned
  <2>5. inc.type \in Curable => Shell(inc.type, inc.resource) \notin ToSet(Detected(after))
    BY <1>1, PerformedCures
  <2>6. IncidentOK(made, after) /\ made.approval = inc.approval
    <3>1. status \in Statuses \ {"DETECTED"} /\ status # "AWAITING_APPROVAL" /\ t \in Seq(Noted)
      BY <1>4, <2>2 DEF Statuses
    <3> QED
      BY <1>3, <2>3, <2>5, <3>1, IncidentMade
  <2>7. Execute(c, inc, approved) = Outcome(after, made)
    BY <1>1, <1>8, <2>0, <2>1 DEF Execute
  <2>8. inc.policy.decision = "AUTO" => Privileges(after) = Privileges(c)
    <3>1. inc.policy.decision = "AUTO" => inc.plan.action = "scale_deployment"
      BY EvaluateAuto DEF Planned
    <3> QED
      BY <1>1, <3>1, PerformedKeeps DEF Planned, Privileged
  <2> QED
    BY <2>4, <2>6, <2>7, <2>8 DEF ExecutionOK, Outcome
<1> QED
  BY <1>6, <1>7, <1>8

LEMMA PlanForType ==
    ASSUME NEW c, ClusterOK(c), NEW inc, inc.type \in IncidentTypes
    PROVE  LET plan == PlanFor(c, inc) IN
           /\ plan.action = MockAdvice(inc.type)
           /\ plan.action = "rollback_rbac" => plan.target = inc.resource
           /\ plan.action = "scale_deployment" =>
                 plan.desired \in Nat \ {0} /\ (plan.deployment = "crash-demo" => plan.desired > 1)
<1>1. CASE MockAdvice(inc.type) = "scale_deployment"
  <2>1. PICK n : n = DeploymentState(c, inc.resource).replicas
    OBVIOUS
  <2>2. n \in Nat /\ (inc.resource = "crash-demo" => n > 0)
    <3>1. CASE inc.resource \in DOMAIN c.deployment
      <4>1. c.deployment[inc.resource].replicas \in Nat \ {0}
        BY <3>1, ClusterParts
      <4> QED
        BY <2>1, <3>1, <4>1 DEF DeploymentState
    <3>2. CASE inc.resource \notin DOMAIN c.deployment
      BY <2>1, <3>2, CrashHasReplicas DEF DeploymentState, Replicated
    <3> QED
      BY <3>1, <3>2
  <2>3. n + 1 \in Nat \ {0} /\ (inc.resource = "crash-demo" => n + 1 > 1)
    BY <2>2
  <2>4. PICK m : m = n + 1
    OBVIOUS
  <2>5. PlanFor(c, inc) = [Scale(inc.resource, m) EXCEPT !.delta = 1]
    BY <1>1, <2>1, <2>4 DEF PlanFor
  <2>6. /\ PlanFor(c, inc).action = "scale_deployment" /\ PlanFor(c, inc).desired = m
        /\ PlanFor(c, inc).deployment = inc.resource
    BY <2>5 DEF Scale, Proposal
  <2> QED
    BY <1>1, <2>3, <2>4, <2>6
<1>2. CASE MockAdvice(inc.type) = "restart_deployment"
  BY <1>2 DEF PlanFor, Restart, Proposal
<1>3. CASE MockAdvice(inc.type) = "rollback_rbac"
  BY <1>3 DEF PlanFor, Rollback, Proposal
<1>4. CASE MockAdvice(inc.type) = "renew_certificate"
  BY <1>4 DEF PlanFor, Proposal
<1>5. CASE MockAdvice(inc.type) = "none"
  BY <1>5 DEF PlanFor, Proposal
<1>6. \/ MockAdvice(inc.type) = "scale_deployment"
      \/ MockAdvice(inc.type) = "restart_deployment"
      \/ MockAdvice(inc.type) = "rollback_rbac"
      \/ MockAdvice(inc.type) = "renew_certificate"
      \/ MockAdvice(inc.type) = "none"
  BY DEF MockAdvice
<1> QED
  BY <1>1, <1>2, <1>3, <1>4, <1>5, <1>6

\* An investigation leaves a plan and the decision about it.
LEMMA InvestigatedPlans ==
    ASSUME NEW c, ClusterOK(c), NEW inc, Recorded(inc)
    PROVE  /\ Recorded(Investigated(c, inc)) /\ Planned(Investigated(c, inc))
           /\ Investigated(c, inc).approval = inc.approval
           /\ Investigated(c, inc).type = inc.type /\ Investigated(c, inc).resource = inc.resource
           /\ Investigated(c, inc).policy.decision \in Decisions
<1>1. PICK plan : plan = PlanFor(c, inc)
  OBVIOUS
<1>2. PICK policy : policy = Evaluate(inc.type, plan)
  OBVIOUS
<1>3. PICK t : t = inc.timeline \o Investigation
  OBVIOUS
<1>4. PICK shape : shape = [type |-> inc.type, resource |-> inc.resource, status |-> inc.status,
                            approval |-> inc.approval, plan |-> inc.plan, policy |-> inc.policy,
                            timeline |-> inc.timeline]
  OBVIOUS
<1>5. inc = shape
  BY <1>4, RecordedFields
<1>6. PICK made : made = [inc EXCEPT !.plan = plan, !.policy = policy, !.timeline = @ \o Investigation]
  OBVIOUS
<1>7. made = Investigated(c, inc)
  BY <1>1, <1>2, <1>6 DEF Investigated
<1>8. made = [type |-> inc.type, resource |-> inc.resource, status |-> inc.status,
              approval |-> inc.approval, plan |-> plan, policy |-> policy, timeline |-> t]
  BY <1>3, <1>4, <1>5, <1>6
<1>9. t \in Seq(Noted)
  <2>1. PICK S : S = Noted
    OBVIOUS
  <2>2. inc.timeline \in Seq(S) /\ Investigation \in Seq(S)
    BY <2>1, RecordedFields, StationsKnown
  <2> QED
    BY <1>3, <2>1, <2>2
<1>10. Recorded(made)
  BY <1>8, <1>9, RecordedFields, RecordMade
<1>11. /\ made.type = inc.type /\ made.resource = inc.resource /\ made.approval = inc.approval
       /\ made.plan = plan /\ made.policy = policy
  BY <1>8
<1>12. Planned(made)
  BY <1>1, <1>2, <1>11, PlanForType, RecordedFields DEF Planned
<1>13. made.policy.decision \in Decisions
  BY <1>2, <1>11, EvaluateKeepsPlan
<1> QED
  BY <1>7, <1>10, <1>11, <1>12, <1>13

\* A workflow on its own keeps everything and needs nobody.
WorkflowOK(c, o) ==
    /\ ClusterOK(o.cluster) /\ Kept(c, o.cluster)
    /\ IncidentOK(o.incident, o.cluster)
    /\ Privileges(o.cluster) = Privileges(c)

LEMMA RunWorkflowKeeps ==
    ASSUME NEW c, ClusterOK(c), NEW inc, Recorded(inc)
    PROVE  WorkflowOK(c, RunWorkflow(c, inc))
<1>1. PICK i : i = Investigated(c, inc)
  OBVIOUS
<1>2. /\ Recorded(i) /\ Planned(i) /\ i.policy.decision \in Decisions
  BY <1>1, InvestigatedPlans
<1>3. PICK shape : shape = [type |-> i.type, resource |-> i.resource, status |-> i.status,
                            approval |-> i.approval, plan |-> i.plan, policy |-> i.policy,
                            timeline |-> i.timeline]
  OBVIOUS
<1>4. i = shape /\ i.timeline \in Seq(Noted) /\ i.status \in Statuses
      /\ i.type \in IncidentTypes /\ i.approval \in Approvals
  BY <1>2, <1>3, RecordedFields
<1>5. Kept(c, c)
  BY DEF Kept
<1>6. CASE i.policy.decision = "AUTO"
  <2>1. PICK unasked : unasked = [i EXCEPT !.approval = "NOT_REQUIRED"]
    OBVIOUS
  <2>2. unasked = [type |-> i.type, resource |-> i.resource, status |-> i.status,
                   approval |-> "NOT_REQUIRED", plan |-> i.plan, policy |-> i.policy,
                   timeline |-> i.timeline]
    BY <1>3, <1>4, <2>1
  <2>3. Recorded(unasked)
    BY <1>4, <2>2, RecordMade, ZenonT(60) DEF Approvals
  <2>4. /\ unasked.type = i.type /\ unasked.resource = i.resource
        /\ unasked.plan = i.plan /\ unasked.policy = i.policy
    BY <2>2
  <2>5. Planned(unasked)
    BY <1>2, <2>4 DEF Planned
  <2>6. ExecutionOK(c, Execute(c, unasked, FALSE), unasked)
    BY <2>3, <2>5, ExecuteKeeps
  <2>7. RunWorkflow(c, inc) = Execute(c, unasked, FALSE)
    BY <1>1, <1>6, <2>1 DEF RunWorkflow
  <2> QED
    BY <1>6, <2>4, <2>6, <2>7 DEF ExecutionOK, WorkflowOK
<1>7. CASE i.policy.decision = "APPROVAL_REQUIRED"
  <2>1. PICK made : made = [i EXCEPT !.approval = "PENDING", !.status = "AWAITING_APPROVAL"]
    OBVIOUS
  <2>2. made = [type |-> i.type, resource |-> i.resource, status |-> "AWAITING_APPROVAL",
                approval |-> "PENDING", plan |-> i.plan, policy |-> i.policy, timeline |-> i.timeline]
    BY <1>3, <1>4, <2>1
  <2>3. "AWAITING_APPROVAL" \in Statuses \ {"DETECTED"} /\ "PENDING" \in Approvals
        /\ "AWAITING_APPROVAL" # "REMEDIATED"
    BY DEF Statuses, Approvals
  <2>4. IncidentOK(made, c)
    BY <1>2, <1>4, <2>2, <2>3, IncidentMade
  <2>5. RunWorkflow(c, inc) = Outcome(c, made)
    BY <1>1, <1>7, <2>1 DEF RunWorkflow
  <2> QED
    BY <1>5, <2>4, <2>5 DEF WorkflowOK, Outcome
<1>8. CASE i.policy.decision = "NO_ACTION"
  <2>1. PICK made : made = [i EXCEPT !.status = "NO_ACTION"]
    OBVIOUS
  <2>2. made = [type |-> i.type, resource |-> i.resource, status |-> "NO_ACTION",
                approval |-> i.approval, plan |-> i.plan, policy |-> i.policy, timeline |-> i.timeline]
    BY <1>3, <1>4, <2>1
  <2>3. "NO_ACTION" \in Statuses \ {"DETECTED"} /\ "NO_ACTION" # "REMEDIATED"
        /\ "NO_ACTION" # "AWAITING_APPROVAL"
    BY DEF Statuses
  <2>4. IncidentOK(made, c)
    BY <1>2, <1>4, <2>2, <2>3, IncidentMade
  <2>5. RunWorkflow(c, inc) = Outcome(c, made)
    BY <1>1, <1>8, <2>1 DEF RunWorkflow
  <2> QED
    BY <1>5, <2>4, <2>5 DEF WorkflowOK, Outcome
<1> QED
  BY <1>2, <1>6, <1>7, <1>8 DEF Decisions

LEMMA NewIncidentRecorded ==
    ASSUME NEW shell, shell.type \in IncidentTypes
    PROVE  Recorded(NewIncident(shell))
<1>1. "DETECTED" \in Statuses /\ "NOT_REQUIRED" \in Approvals
  BY DEF Statuses, Approvals
<1> QED
  BY <1>1, StationsKnown, RecordMade DEF NewIncident

-----------------------------------------------------------------------------
(* Requests that run several workflows, and the records they leave.         *)

\* Every set of natural numbers has a least element.
LEMMA Least ==
    ASSUME NEW S, S \subseteq Nat, S # {}
    PROVE  \E n \in S : \A m \in S : n <= m
<1>1. PICK n \in S : \A m \in S : ~(<<m, n>> \in OpToRel(<, Nat))
  BY WFMin, NatLessThanWellFounded
<1>2. \A m \in S : ~(m < n)
  BY <1>1 DEF OpToRel
<1> QED
  BY <1>2

\* Induction from 0 to N, over the set of the numbers that have the property.
LEMMA Inductive ==
    ASSUME NEW N \in Nat, NEW S, 0 \in S, \A n \in 1 .. N : n - 1 \in S => n \in S
    PROVE  0 .. N \subseteq S
<1> DEFINE Bad == (0 .. N) \ S
<1>1. SUFFICES ASSUME Bad # {} PROVE FALSE
  OBVIOUS
<1>2. Bad \subseteq Nat
  OBVIOUS
<1>3. PICK m \in Bad : \A k \in Bad : m <= k
  <2> HIDE DEF Bad
  <2> QED
    BY <1>1, <1>2, Least
<1>4. m \in 1 .. N
  OBVIOUS
<1>5. m - 1 \notin Bad
  BY <1>3, <1>4
<1>6. m - 1 \in S
  BY <1>4, <1>5
<1> QED
  BY <1>4, <1>6

\* f is what comes of taking step[1], step[2], ... in turn.
Iterates(f, N, start, step) ==
    \A n \in 0 .. N : f[n] = IF n = 0 THEN start ELSE step[n][f[n - 1]]

\* Steps that stay in V can be taken in turn.
LEMMA Iterated ==
    ASSUME NEW N \in Nat, NEW V, NEW start, start \in V, NEW step, step \in [1 .. N -> [V -> V]]
    PROVE  \E f \in [0 .. N -> V] : Iterates(f, N, start, step)
<1> DEFINE Run(f, m) == \A n \in 0 .. m : f[n] = IF n = 0 THEN start ELSE step[n][f[n - 1]]
           S == {m \in 0 .. N : \E f \in [0 .. m -> V] : Run(f, m)}
<1>1. 0 \in S
  <2>1. PICK f : f = [n \in 0 .. 0 |-> start]
    OBVIOUS
  <2>2. f \in [0 .. 0 -> V] /\ Run(f, 0)
    BY <2>1
  <2> QED
    BY <2>2
<1>2. ASSUME NEW n \in 1 .. N, n - 1 \in S PROVE n \in S
  <2>1. PICK g \in [0 .. n - 1 -> V] : Run(g, n - 1)
    BY <1>2
  <2>2. PICK f : f = [k \in 0 .. n |-> IF k = n THEN step[n][g[n - 1]] ELSE g[k]]
    OBVIOUS
  <2>3. g[n - 1] \in V /\ step[n] \in [V -> V]
    OBVIOUS
  <2>4. f \in [0 .. n -> V]
    <3>1. ASSUME NEW k \in 0 .. n PROVE (IF k = n THEN step[n][g[n - 1]] ELSE g[k]) \in V
      <4>1. k # n => k \in 0 .. n - 1
        OBVIOUS
      <4> QED
        BY <2>3, <4>1
    <3> QED
      BY <2>2, <3>1
  <2>5. \A k \in 0 .. n - 1 : f[k] = g[k]
    BY <2>2
  <2>6. f[n] = step[n][f[n - 1]]
    BY <2>2, <2>5
  <2>7. Run(f, n)
    <3>1. SUFFICES ASSUME NEW k \in 0 .. n
                   PROVE  f[k] = IF k = 0 THEN start ELSE step[k][f[k - 1]]
      OBVIOUS
    <3>2. CASE k = n
      BY <2>6, <3>2
    <3>3. CASE k # n
      <4>1. k \in 0 .. n - 1 /\ (k # 0 => k - 1 \in 0 .. n - 1)
        BY <3>3
      <4>2. g[k] = IF k = 0 THEN start ELSE step[k][g[k - 1]]
        BY <2>1, <4>1
      <4> QED
        BY <2>5, <4>1, <4>2
    <3> QED
      BY <3>2, <3>3
  <2>8. \E h \in [0 .. n -> V] : Run(h, n)
    <3> HIDE DEF Run
    <3> QED
      BY <2>4, <2>7
  <2>9. n \in 0 .. N
    OBVIOUS
  <2> QED
    BY <2>8, <2>9
<1>3. 0 .. N \subseteq S
  <2> HIDE DEF S
  <2> QED
    BY <1>1, <1>2, Inductive
<1>4. N \in S
  <2> HIDE DEF S
  <2> QED
    BY <1>3
<1> QED
  BY <1>4 DEF Iterates

\* What handling shells one after another amounts to.
LEMMA HandledOneByOne ==
    ASSUME NEW start, NEW shells, Len(shells) \in Nat
    PROVE  \E after : /\ after[0] = start
                      /\ \A n \in 1 .. Len(shells) : after[n] = Handle(after[n - 1], shells[n])
                      /\ HandleAll(start, shells) = after[Len(shells)]
<1> DEFINE Equation(f, N) ==
               f = [n \in 0 .. N |-> IF n = 0 THEN start ELSE Handle(f[n - 1], shells[n])]
           Bad == {N \in 0 .. Len(shells) : ~\E f : Equation(f, N)}
<1>0. Bad \subseteq Nat /\ \A N \in Bad : N <= Len(shells)
  OBVIOUS
<1>1. \A N \in 0 .. Len(shells) : N \notin Bad <=> \E f : Equation(f, N)
  OBVIOUS
<1> HIDE DEF Bad
<1>2. Bad = {}
  <2>1. SUFFICES ASSUME Bad # {} PROVE FALSE
    OBVIOUS
  <2>2. PICK N \in Bad : \A m \in Bad : N <= m
    BY <1>0, <2>1, Least
  <2>3. N \in Nat /\ N \in 0 .. Len(shells)
    BY <1>0
  <2>4. CASE N = 0
    <3>1. Equation([n \in 0 .. 0 |-> start], 0)
      OBVIOUS
    <3> QED
      BY <1>1, <2>3, <2>4, <3>1
  <2>5. CASE N # 0
    <3>1. N - 1 \in 0 .. Len(shells) /\ N - 1 \notin Bad
      BY <2>2, <2>3, <2>5
    <3>2. \E g : Equation(g, N - 1)
      BY <1>1, <3>1
    <3>3. PICK g : g = [n \in 0 .. N - 1 |-> IF n = 0 THEN start ELSE Handle(g[n - 1], shells[n])]
      BY <3>2
    <3>4. PICK f : f = [n \in 0 .. N |-> IF n = N THEN Handle(g[N - 1], shells[N]) ELSE g[n]]
      OBVIOUS
    <3>5. \A n \in 0 .. N - 1 : f[n] = g[n]
      BY <2>3, <3>4
    <3>6. f[N] = Handle(f[N - 1], shells[N])
      BY <2>3, <2>5, <3>4, <3>5
    <3>7. \A n \in 0 .. N - 1 : f[n] = IF n = 0 THEN start ELSE Handle(f[n - 1], shells[n])
      <4>1. TAKE n \in 0 .. N - 1
      <4>2. g[n] = IF n = 0 THEN start ELSE Handle(g[n - 1], shells[n])
        BY <3>3
      <4>3. n # 0 => g[n - 1] = f[n - 1]
        BY <2>3, <3>5
      <4> QED
        BY <3>5, <4>2, <4>3
    <3>8. \A n \in 0 .. N : f[n] = IF n = 0 THEN start ELSE Handle(f[n - 1], shells[n])
      <4>1. TAKE n \in 0 .. N
      <4>2. n = N \/ n \in 0 .. N - 1
        BY <2>3
      <4> QED
        BY <2>5, <3>6, <3>7, <4>2
    <3>9. f = [n \in 0 .. N |-> f[n]]
      BY <3>4
    <3>10. Equation(f, N)
      BY <3>8, <3>9
    <3> QED
      BY <1>1, <2>3, <3>10
  <2> QED
    BY <2>4, <2>5
<1>3. \E f : Equation(f, Len(shells))
  BY <1>1, <1>2
<1>4. PICK f : f = (CHOOSE g : Equation(g, Len(shells)))
  OBVIOUS
<1> HIDE DEF Equation
<1>5. Equation(f, Len(shells))
  BY <1>3, <1>4
<1>6. HandleAll(start, shells) = f[Len(shells)]
  BY <1>4 DEF HandleAll, Equation
<1>7. \A n \in 0 .. Len(shells) : f[n] = IF n = 0 THEN start ELSE Handle(f[n - 1], shells[n])
  BY <1>5 DEF Equation
<1> QED
  BY <1>6, <1>7

LEMMA Appended ==
    ASSUME NEW s, s \in Seq(ToSet(s)), NEW x
    PROVE  /\ Append(s, x) \in Seq(ToSet(Append(s, x)))
           /\ Len(s) \in Nat /\ DOMAIN s = 1 .. Len(s)
           /\ DOMAIN Append(s, x) = 1 .. Len(s) + 1
           /\ \A k \in 1 .. Len(s) : Append(s, x)[k] = s[k]
           /\ Append(s, x)[Len(s) + 1] = x
<1>1. PICK S : S = ToSet(s) \union {x}
  OBVIOUS
<1>2. s \in Seq(S) /\ x \in S
  BY <1>1
<1>3. PICK t : t = Append(s, x)
  OBVIOUS
<1>4. /\ t \in Seq(S) /\ Len(t) = Len(s) + 1 /\ Len(s) \in Nat
      /\ \A k \in 1 .. Len(s) : t[k] = s[k]
      /\ t[Len(s) + 1] = x
  BY <1>2, <1>3
<1>5. \A k \in 1 .. Len(t) : t[k] \in ToSet(t)
  BY <1>4 DEF ToSet
<1>6. t \in Seq(ToSet(t))
  BY <1>4, <1>5
<1> QED
  BY <1>2, <1>3, <1>4, <1>6

LEMMA Exchanged ==
    ASSUME NEW s, s \in Seq(ToSet(s)), NEW k \in DOMAIN s, NEW x
    PROVE  /\ [s EXCEPT ![k] = x] \in Seq(ToSet([s EXCEPT ![k] = x]))
           /\ DOMAIN [s EXCEPT ![k] = x] = DOMAIN s
           /\ [s EXCEPT ![k] = x][k] = x
           /\ \A j \in DOMAIN s \ {k} : [s EXCEPT ![k] = x][j] = s[j]
<1>1. PICK S : S = ToSet(s) \union {x}
  OBVIOUS
<1>2. s \in Seq(S) /\ x \in S
  BY <1>1
<1>3. PICK t : t = [s EXCEPT ![k] = x]
  OBVIOUS
<1>4. /\ t \in Seq(S) /\ DOMAIN t = DOMAIN s /\ Len(t) \in Nat /\ DOMAIN t = 1 .. Len(t)
      /\ \A j \in DOMAIN s \ {k} : t[j] = s[j]
      /\ t[k] = x
  BY <1>2, <1>3
<1>5. \A j \in 1 .. Len(t) : t[j] \in ToSet(t)
  BY <1>4 DEF ToSet
<1>6. t \in Seq(ToSet(t))
  BY <1>4, <1>5
<1> QED
  BY <1>3, <1>4, <1>6

LEMMA IncidentKept ==
    ASSUME NEW c, NEW e, ClusterOK(c), ClusterOK(e), Kept(c, e), NEW inc, IncidentOK(inc, c)
    PROVE  IncidentOK(inc, e)
BY KeptCured DEF IncidentOK, Cured

\* A cluster and the incidents about it, as workflows that began at c leave them.
WorkflowsOK(c, acc) ==
    /\ ClusterOK(acc.cluster) /\ Kept(c, acc.cluster)
    /\ Privileges(acc.cluster) = Privileges(c)
    /\ acc.incidents \in Seq(ToSet(acc.incidents))
    /\ \A k \in DOMAIN acc.incidents : IncidentOK(acc.incidents[k], acc.cluster)

LEMMA HandleKeeps ==
    ASSUME NEW c, NEW acc, WorkflowsOK(c, acc), NEW shell, shell.type \in IncidentTypes
    PROVE  WorkflowsOK(c, Handle(acc, shell))
<1>1. PICK o : o = RunWorkflow(acc.cluster, NewIncident(shell))
  OBVIOUS
<1>2. WorkflowOK(acc.cluster, o)
  BY <1>1, NewIncidentRecorded, RunWorkflowKeeps DEF WorkflowsOK
<1>3. PICK s : s = Append(acc.incidents, o.incident)
  OBVIOUS
<1>4. Handle(acc, shell) = [cluster |-> o.cluster, incidents |-> s]
  BY <1>1, <1>3 DEF Handle
<1>5. Kept(c, o.cluster)
  BY <1>2, KeptKept DEF WorkflowsOK, WorkflowOK
<1>6. \A k \in DOMAIN s : IncidentOK(s[k], o.cluster)
  <2>1. TAKE k \in DOMAIN s
  <2>2. /\ Len(acc.incidents) \in Nat /\ DOMAIN acc.incidents = 1 .. Len(acc.incidents)
        /\ k \in 1 .. Len(acc.incidents) + 1
        /\ \A j \in 1 .. Len(acc.incidents) : s[j] = acc.incidents[j]
        /\ s[Len(acc.incidents) + 1] = o.incident
    BY <1>3, Appended DEF WorkflowsOK
  <2>3. CASE k = Len(acc.incidents) + 1
    BY <1>2, <2>2, <2>3 DEF WorkflowOK
  <2>4. CASE k # Len(acc.incidents) + 1
    <3>1. k \in DOMAIN acc.incidents /\ s[k] = acc.incidents[k]
      BY <2>2, <2>4
    <3>2. IncidentOK(acc.incidents[k], acc.cluster)
      BY <3>1 DEF WorkflowsOK
    <3>3. IncidentOK(acc.incidents[k], o.cluster)
      BY <1>2, <3>2, IncidentKept DEF WorkflowsOK, WorkflowOK
    <3> QED
      BY <3>1, <3>3
  <2> QED
    BY <2>3, <2>4
<1>7. s \in Seq(ToSet(s))
  BY <1>3, Appended DEF WorkflowsOK
<1>8. ClusterOK(o.cluster) /\ Privileges(o.cluster) = Privileges(c)
  BY <1>2 DEF WorkflowOK, WorkflowsOK
<1> QED
  BY <1>4, <1>5, <1>6, <1>7, <1>8 DEF WorkflowsOK

LEMMA HandleAllKeeps ==
    ASSUME NEW c, NEW start, WorkflowsOK(c, start), NEW shells, Len(shells) \in Nat,
           \A n \in 1 .. Len(shells) : shells[n].type \in IncidentTypes
    PROVE  WorkflowsOK(c, HandleAll(start, shells))
<1>1. PICK after : /\ after[0] = start
                   /\ \A n \in 1 .. Len(shells) : after[n] = Handle(after[n - 1], shells[n])
                   /\ HandleAll(start, shells) = after[Len(shells)]
  BY HandledOneByOne
<1>2. PICK Bad : Bad = {n \in 0 .. Len(shells) : ~WorkflowsOK(c, after[n])}
  OBVIOUS
<1>3. SUFFICES ASSUME Bad # {} PROVE FALSE
  BY <1>1, <1>2
<1>4. Bad \subseteq Nat
  BY <1>2
<1>5. PICK n \in Bad : \A m \in Bad : n <= m
  BY <1>3, <1>4, Least
<1>6. n \in 0 .. Len(shells) /\ ~WorkflowsOK(c, after[n])
  BY <1>2
<1>7. n # 0
  BY <1>1, <1>6
<1>8. n \in 1 .. Len(shells) /\ n - 1 \in 0 .. Len(shells) /\ ~(n <= n - 1)
  BY <1>6, <1>7
<1>9. WorkflowsOK(c, after[n - 1])
  BY <1>2, <1>5, <1>8
<1> QED
  BY <1>1, <1>6, <1>8, <1>9, HandleKeeps

\* Every shell of the detector has a type the API knows.
LEMMA DetectedTypes ==
    ASSUME NEW c, ClusterOK(c)
    PROVE  /\ Len(Detected(c)) \in Nat
           /\ \A n \in 1 .. Len(Detected(c)) : Detected(c)[n].type \in IncidentTypes
<1>1. PICK S : S = Always \union Unrestarted \union Expiring \union Bound
  OBVIOUS
<1>2. Detected(c) \in Seq(S)
  BY <1>1, DetectedShells
<1>3. \A shell \in S : shell.type \in IncidentTypes
  <2>1. \A shell \in Always \union Unrestarted : shell.type \in IncidentTypes
    BY DEF Always, Unrestarted, Shell, IncidentTypes
  <2>2. \A shell \in Expiring \union Bound : shell.type \in IncidentTypes
    BY DEF Expiring, Bound, Shell, IncidentTypes
  <2> QED
    BY <1>1, <2>1, <2>2
<1> QED
  BY <1>2, <1>3

-----------------------------------------------------------------------------
(* Findings.                                                               *)

\* What every entry of the catalogue proposes.
Proposed(spec) ==
    /\ spec.layer \in Layers
    /\ spec.plan.action \in FindingRules[spec.layer].allowed
    /\ spec.plan.deployment \in {Absent, "demo-app", "cpu-demo", "crash-demo"}
    /\ spec.plan.namespace \in {Absent, Namespace}
    /\ \/ spec.plan.action = "restart_deployment" /\ spec.plan.deployment \in {"demo-app", "crash-demo"}
       \/ spec.plan.action = "scale_deployment" /\ spec.plan.deployment = "cpu-demo" /\ spec.plan.desired = 3
       \/ spec.plan.action = "rollback_rbac"
       \/ spec.plan.action = "apply_security_config" /\ spec.plan.config \in SecurityConfigs

LEMMA CataloguedLayer == \A layer, plan : Catalogued(layer, plan).layer = layer
BY DEF Catalogued

LEMMA ConfigProposed ==
    ASSUME NEW layer \in {"container", "node_cloud", "kubernetes_cluster"},
           NEW config \in SecurityConfigs, NEW target
    PROVE  Proposed(Catalogued(layer, Config(config, target)))
<1>1. PICK spec : spec = Catalogued(layer, Config(config, target))
  OBVIOUS
<1>2. /\ spec.layer = layer /\ spec.plan.action = "apply_security_config"
      /\ spec.plan.deployment = Absent /\ spec.plan.namespace = Namespace /\ spec.plan.config = config
  BY <1>1 DEF Catalogued, Config, Proposal
<1>3. "apply_security_config" \in FindingRules[layer].allowed /\ layer \in Layers
  BY DEF FindingRules, Layers
<1> QED
  BY <1>1, <1>2, <1>3 DEF Proposed

LEMMA RollbackProposed ==
    ASSUME NEW binding
    PROVE  Proposed(Catalogued("kubernetes_cluster", Rollback(binding)))
<1>1. PICK spec : spec = Catalogued("kubernetes_cluster", Rollback(binding))
  OBVIOUS
<1>2. /\ spec.layer = "kubernetes_cluster" /\ spec.plan.action = "rollback_rbac"
      /\ spec.plan.deployment = Absent /\ spec.plan.namespace = Absent
  BY <1>1 DEF Catalogued, Rollback, Proposal
<1>3. "rollback_rbac" \in FindingRules["kubernetes_cluster"].allowed /\ "kubernetes_cluster" \in Layers
  BY DEF FindingRules, Layers
<1> QED
  BY <1>1, <1>2, <1>3 DEF Proposed

LEMMA RestartProposed ==
    ASSUME NEW layer \in {"application", "container"}, NEW d \in {"demo-app", "crash-demo"}
    PROVE  Proposed(Catalogued(layer, Restart(d)))
<1>1. PICK spec : spec = Catalogued(layer, Restart(d))
  OBVIOUS
<1>2. /\ spec.layer = layer /\ spec.plan.action = "restart_deployment"
      /\ spec.plan.deployment = d /\ spec.plan.namespace = Namespace
  BY <1>1 DEF Catalogued, Restart, Proposal
<1>3. "restart_deployment" \in FindingRules[layer].allowed /\ layer \in Layers
  BY DEF FindingRules, Layers
<1> QED
  BY <1>1, <1>2, <1>3 DEF Proposed

LEMMA SeedSpecsProposed ==
    /\ Len(SeedSpecs) = 14 /\ DOMAIN SeedSpecs = 1 .. 14
    /\ SeedSpecs[1].layer = "application"
    /\ \A k \in 1 .. 14 : /\ Proposed(SeedSpecs[k])
                          /\ SeedSpecs[k] \in ToSet(SeedSpecs)
                          /\ k # 1 => SeedSpecs[k].layer # "application"
<1>1. \A k \in 1 .. 7 : /\ Proposed(PostureSpecs[k])
                        /\ PostureSpecs[k].layer = "application" <=> k = 1
  <2>1. TAKE k \in 1 .. 7
  <2>2. PICK spec : spec = PostureSpecs[k]
    OBVIOUS
  <2>3. \/ k = 1 /\ spec = Catalogued("application", Restart("demo-app"))
        \/ k # 1 /\ \E config \in SecurityConfigs : \E target :
              \/ spec = Catalogued("container", Config(config, target))
              \/ spec = Catalogued("kubernetes_cluster", Config(config, target))
              \/ spec = Catalogued("node_cloud", Config(config, target))
        \/ k # 1 /\ spec = Catalogued("kubernetes_cluster", Rollback("ci-bot-cluster-admin"))
    BY <2>2 DEF PostureSpecs, SecurityConfigs
  <2>4. CASE k = 1 /\ spec = Catalogued("application", Restart("demo-app"))
    BY <2>2, <2>4, RestartProposed, CataloguedLayer
  <2>5. CASE k # 1 /\ \E config \in SecurityConfigs : \E target :
              \/ spec = Catalogued("container", Config(config, target))
              \/ spec = Catalogued("kubernetes_cluster", Config(config, target))
              \/ spec = Catalogued("node_cloud", Config(config, target))
    BY <2>2, <2>5, ConfigProposed, CataloguedLayer
  <2>6. CASE k # 1 /\ spec = Catalogued("kubernetes_cluster", Rollback("ci-bot-cluster-admin"))
    BY <2>2, <2>6, RollbackProposed, CataloguedLayer
  <2> QED
    BY <2>3, <2>4, <2>5, <2>6
<1>2. \A k \in 1 .. 7 : Proposed(HardeningSpecs[k]) /\ HardeningSpecs[k].layer # "application"
  <2>1. TAKE k \in 1 .. 7
  <2>2. PICK spec : spec = HardeningSpecs[k]
    OBVIOUS
  <2>3. \E config \in SecurityConfigs : \E target :
              \/ spec = Catalogued("container", Config(config, target))
              \/ spec = Catalogued("kubernetes_cluster", Config(config, target))
              \/ spec = Catalogued("node_cloud", Config(config, target))
    BY <2>2 DEF HardeningSpecs, SecurityConfigs
  <2> QED
    BY <2>2, <2>3, ConfigProposed, CataloguedLayer
<1>3. PICK s, t : s = PostureSpecs /\ t = HardeningSpecs
  OBVIOUS
<1>4. Len(s) = 7 /\ DOMAIN s = 1 .. 7 /\ Len(t) = 7 /\ DOMAIN t = 1 .. 7
  BY <1>3 DEF PostureSpecs, HardeningSpecs
<1>5. PICK S : S = ToSet(s) \union ToSet(t)
  OBVIOUS
<1>6. s \in Seq(S) /\ t \in Seq(S)
  <2>1. s \in Seq(ToSet(s)) /\ t \in Seq(ToSet(t))
    BY <1>3 DEF PostureSpecs, HardeningSpecs, ToSet
  <2> QED
    BY <1>5, <2>1
<1>7. /\ Len(s \o t) = 14 /\ DOMAIN (s \o t) = 1 .. 14
      /\ \A k \in 1 .. 7 : (s \o t)[k] = s[k] /\ (s \o t)[7 + k] = t[k]
  <2>1. Len(s \o t) = Len(s) + Len(t) /\ s \o t \in Seq(S)
    BY <1>6
  <2>2. Len(s \o t) = 14 /\ DOMAIN (s \o t) = 1 .. 14
    BY <1>4, <2>1
  <2>3. \A k \in 1 .. Len(s) : (s \o t)[k] = s[k]
    BY <1>6
  <2>4. \A k \in 1 .. Len(t) : (s \o t)[Len(s) + k] = t[k]
    BY <1>6
  <2> QED
    BY <1>4, <2>2, <2>3, <2>4
<1>8. \A k \in 1 .. 14 : Proposed((s \o t)[k]) /\ (k # 1 => (s \o t)[k].layer # "application")
  <2>1. TAKE k \in 1 .. 14
  <2>2. CASE k \in 1 .. 7
    BY <1>1, <1>3, <1>7, <2>2
  <2>3. CASE k \notin 1 .. 7
    <3>1. k - 7 \in 1 .. 7 /\ k = 7 + (k - 7) /\ k # 1
      BY <2>3
    <3>2. (s \o t)[k] = t[k - 7]
      BY <1>7, <3>1
    <3> QED
      BY <1>2, <1>3, <3>1, <3>2
  <2> QED
    BY <2>2, <2>3
<1>9. (s \o t)[1].layer = "application"
  BY <1>1, <1>3, <1>7, SMTT(60)
<1>10. \A k \in 1 .. 14 : (s \o t)[k] \in ToSet(s \o t)
  BY <1>7 DEF ToSet
<1> QED
  BY <1>3, <1>7, <1>8, <1>9, <1>10 DEF SeedSpecs

LEMMA LabProposed ==
    \A key \in DOMAIN LabScenarios : Proposed(LabScenarios[key])
<1>1. TAKE key \in DOMAIN LabScenarios
<1>2. PICK spec : spec = LabScenarios[key]
  OBVIOUS
<1>3. \/ spec = Catalogued("application", Restart("demo-app"))
      \/ spec = Catalogued("application", Scale("cpu-demo", 3))
      \/ spec = Catalogued("container", Restart("crash-demo"))
      \/ spec = Catalogued("kubernetes_cluster", Rollback("ci-bot-cluster-admin"))
      \/ \E config \in SecurityConfigs : \E target :
            \/ spec = Catalogued("container", Config(config, target))
            \/ spec = Catalogued("kubernetes_cluster", Config(config, target))
  BY <1>2 DEF LabScenarios, SecurityConfigs
<1>4. Proposed(Catalogued("application", Scale("cpu-demo", 3)))
  BY DEF Proposed, Catalogued, Scale, Proposal, FindingRules, Layers
<1> QED
  BY <1>2, <1>3, <1>4, ConfigProposed, RollbackProposed, RestartProposed

\* The entries a finding may come from.
LEMMA FindingProposed ==
    ASSUME NEW c, NEW f, FindingOK(f, c)
    PROVE  Proposed(f.spec)
<1>1. f.source \in {"scan"} \union DOMAIN LabScenarios
  BY DEF FindingOK
<1>2. CASE f.source = "scan"
  <2>1. PICK k \in DOMAIN SeedSpecs : f.spec = SeedSpecs[k]
    BY <1>2 DEF FindingOK, ToSet
  <2> QED
    BY <2>1, SeedSpecsProposed
<1>3. CASE f.source # "scan"
  BY <1>1, <1>3, LabProposed DEF FindingOK
<1> QED
  BY <1>2, <1>3

LEMMA FindingFields ==
    ASSUME NEW c, NEW f, FindingOK(f, c)
    PROVE  /\ f = [source |-> f.source, spec |-> f.spec, decision |-> f.decision, status |-> f.status]
           /\ f.decision = EvaluateFinding(f.spec.layer, f.spec.plan).decision
BY DEF FindingOK

LEMMA FindingKept ==
    ASSUME NEW c, NEW e, Kept(c, e), NEW f, FindingOK(f, c)
    PROVE  FindingOK(f, e)
BY DEF FindingOK, Kept

LEMMA FindingMade ==
    ASSUME NEW c, NEW source \in {"scan"} \union DOMAIN LabScenarios,
           NEW spec \in IF source = "scan" THEN ToSet(SeedSpecs) ELSE {LabScenarios[source]},
           NEW decision, decision = EvaluateFinding(spec.layer, spec.plan).decision,
           NEW status \in {"OPEN", "AWAITING_APPROVAL", "REMEDIATED", "VERIFICATION_FAILED"},
           status = "VERIFICATION_FAILED" => CrashReplicas(c) > 1,
           NEW f, f = [source |-> source, spec |-> spec, decision |-> decision, status |-> status]
    PROVE  FindingOK(f, c)
<1>1. f.source = source /\ f.spec = spec /\ f.status = status
  OBVIOUS
<1> QED
  BY <1>1 DEF FindingOK

\* Only what concerns an application is done unattended, and that is never
\* a change of privileges.
LEMMA AutoFinding ==
    ASSUME NEW spec, Proposed(spec)
    PROVE  /\ EvaluateFinding(spec.layer, spec.plan).decision = "AUTO" =>
                 spec.layer = "application" /\ spec.plan.action \notin Privileged
           /\ ShippedAllowLists =>
                 EvaluateFinding(spec.layer, spec.plan).decision =
                     IF spec.layer = "application" THEN "AUTO" ELSE "APPROVAL_REQUIRED"
<1>1. /\ FindingRules[spec.layer].decision = IF spec.layer = "application" THEN "AUTO" ELSE "APPROVAL_REQUIRED"
      /\ FindingRules["application"].allowed = {"restart_deployment", "scale_deployment"}
  BY DEF FindingRules, Layers, Proposed
<1>2. ShippedAllowLists => ~TargetRefused(spec.plan)
  BY DEF ShippedAllowLists, TargetRefused, Proposed
<1>3. EvaluateFinding(spec.layer, spec.plan).decision =
         IF TargetRefused(spec.plan) THEN "NO_ACTION" ELSE FindingRules[spec.layer].decision
  BY DEF EvaluateFinding, Decision, Proposed
<1>4. spec.layer = "application" => spec.plan.action \notin Privileged
  BY <1>1 DEF Proposed, Privileged
<1> QED
  BY <1>1, <1>2, <1>3, <1>4

\* What the catalogue proposes can be done, and is found done.
LEMMA PerformedVerifies ==
    ASSUME NEW c, ClusterOK(c), NEW spec, Proposed(spec)
    PROVE  LET after == Performed(c, spec.plan) IN
           /\ ClusterOK(after) /\ Kept(c, after)
           /\ VerifiedByFinding(after, spec.plan) \/ CrashReplicas(after) > 1
           /\ spec.plan.action \notin Privileged => Privileges(after) = Privileges(c)
<1>1. PICK after : after = Performed(c, spec.plan)
  OBVIOUS
<1>2. /\ ClusterOK(after) /\ Kept(c, after)
      /\ spec.plan.action \notin Privileged => Privileges(after) = Privileges(c)
  <2>1. spec.plan.action = "scale_deployment" =>
            spec.plan.desired \in Nat \ {0} /\ (spec.plan.deployment = "crash-demo" => spec.plan.desired > 1)
    BY DEF Proposed
  <2> QED
    BY <1>1, <2>1, PerformedKeeps
<1>3. VerifiedByFinding(after, spec.plan) \/ CrashReplicas(after) > 1
  <2>1. CASE spec.plan.action = "restart_deployment"
    <3>1. after = Restarted(c) /\ spec.plan.deployment \in {"demo-app", "crash-demo"}
      BY <1>1, <2>1 DEF Performed, Proposed
    <3>2. PICK s : s = DeploymentState(after, spec.plan.deployment)
      OBVIOUS
    <3>3. VerifiedByFinding(after, spec.plan) <=> s.available = s.replicas /\ s.available > 0
      BY <2>1, <3>2 DEF VerifiedByFinding
    <3>4. CASE spec.plan.deployment = "demo-app"
      <4>1. "demo-app" \in DOMAIN after.deployment
        BY <1>2, ClusterParts, DeploymentNames
      <4>2. s = after.deployment["demo-app"]
        BY <3>2, <3>4, <4>1 DEF DeploymentState
      <4>3. s.available = s.replicas /\ s.replicas \in Nat \ {0}
        <5>1. s \in [replicas : Nat \ {0}, ready : Nat, available : Nat]
          BY <1>2, <4>1, <4>2, ClusterParts
        <5>2. s.available = s.replicas
          BY <1>2, <4>1, <4>2, ClusterParts
        <5> QED
          BY <5>1, <5>2
      <4> QED
        BY <3>3, <4>3
    <3>5. CASE spec.plan.deployment = "crash-demo"
      <4>1. s.available = 1 /\ s.replicas = CrashReplicas(after) /\ CrashReplicas(after) \in Nat \ {0}
        BY <1>2, <3>1, <3>2, <3>5, RestartedKeeps, CrashHasReplicas DEF DeploymentState
      <4> QED
        BY <3>3, <4>1
    <3> QED
      BY <3>1, <3>4, <3>5
  <2>2. CASE spec.plan.action = "scale_deployment"
    <3>1. spec.plan.deployment = "cpu-demo" /\ spec.plan.desired = 3
      BY <2>2 DEF Proposed
    <3>2. after = Scaled(c, "cpu-demo", 3)
      BY <1>1, <2>2, <3>1 DEF Performed
    <3>3. DeploymentState(after, "cpu-demo") = Replicated(3)
      BY <3>2, ScaledKeeps
    <3> QED
      BY <2>2, <3>1, <3>3 DEF VerifiedByFinding, Replicated
  <2>3. CASE spec.plan.action = "rollback_rbac"
    <3>1. after = RolledBack(c, spec.plan.target)
      BY <1>1, <2>3 DEF Performed
    <3> QED
      BY <2>3, <3>1, RolledBackKeeps DEF VerifiedByFinding
  <2>4. CASE spec.plan.action = "apply_security_config"
    <3>1. after = Configured(c, spec.plan.config, spec.plan.target) /\ spec.plan.config \in SecurityConfigs
      BY <1>1, <2>4 DEF Performed, Proposed
    <3> QED
      BY <2>4, <3>1, ConfiguredKeeps DEF VerifiedByFinding
  <2> QED
    BY <2>1, <2>2, <2>3, <2>4 DEF Proposed
<1> QED
  BY <1>1, <1>2, <1>3

\* A cluster and the finding about it, as a pipeline that began at c leaves them.
PipelineOK(c, r, source, spec) ==
    /\ ClusterOK(r.cluster) /\ Kept(c, r.cluster)
    /\ FindingOK(r.finding, r.cluster)
    /\ r.finding.source = source /\ r.finding.spec = spec

LEMMA RemediateKeeps ==
    ASSUME NEW c, ClusterOK(c), NEW f, FindingOK(f, c)
    PROVE  LET r == Remediate(c, f) IN
           /\ PipelineOK(c, r, f.source, f.spec)
           /\ r.finding.status \in {"REMEDIATED", "VERIFICATION_FAILED"}
           /\ f.decision = "AUTO" => Privileges(r.cluster) = Privileges(c)
<1>1. PICK after : after = Performed(c, f.spec.plan)
  OBVIOUS
<1>2. Proposed(f.spec)
  BY FindingProposed
<1>3. /\ ClusterOK(after) /\ Kept(c, after)
      /\ VerifiedByFinding(after, f.spec.plan) \/ CrashReplicas(after) > 1
      /\ f.spec.plan.action \notin Privileged => Privileges(after) = Privileges(c)
  BY <1>1, <1>2, PerformedVerifies
<1>4. PICK status \in {"REMEDIATED", "VERIFICATION_FAILED"} :
         status = IF VerifiedByFinding(after, f.spec.plan) THEN "REMEDIATED" ELSE "VERIFICATION_FAILED"
  OBVIOUS
<1>5. PICK shape : shape = [source |-> f.source, spec |-> f.spec, decision |-> f.decision, status |-> f.status]
  OBVIOUS
<1>6. f = shape
  BY <1>5, FindingFields
<1>7. PICK made : made = [f EXCEPT !.status = status]
  OBVIOUS
<1>8. made = [source |-> f.source, spec |-> f.spec, decision |-> f.decision, status |-> status]
  BY <1>5, <1>6, <1>7
<1>9. FindingOK(made, after)
  <2>1. f.source \in {"scan"} \union DOMAIN LabScenarios
        /\ f.spec \in IF f.source = "scan" THEN ToSet(SeedSpecs) ELSE {LabScenarios[f.source]}
    BY DEF FindingOK
  <2>2. status = "VERIFICATION_FAILED" => CrashReplicas(after) > 1
    BY <1>3, <1>4
  <2> QED
    BY <1>4, <1>8, <2>1, <2>2, FindingFields, FindingMade
<1>10. made.source = f.source /\ made.spec = f.spec /\ made.status = status
  BY <1>8
<1>11. Remediate(c, f) = [cluster |-> after, finding |-> made]
  BY <1>1, <1>4, <1>7 DEF Remediate
<1>12. f.decision = "AUTO" => Privileges(after) = Privileges(c)
  BY <1>2, <1>3, FindingFields, AutoFinding
<1> QED
  BY <1>3, <1>4, <1>9, <1>10, <1>11, <1>12 DEF PipelineOK

LEMMA RunPipelineKeeps ==
    ASSUME NEW c, ClusterOK(c), NEW source \in {"scan"} \union DOMAIN LabScenarios,
           NEW spec \in IF source = "scan" THEN ToSet(SeedSpecs) ELSE {LabScenarios[source]}
    PROVE  LET r == RunPipeline(c, source, spec) IN
           /\ PipelineOK(c, r, source, spec)
           /\ Privileges(r.cluster) = Privileges(c)
<1>1. PICK decision : decision = EvaluateFinding(spec.layer, spec.plan).decision
  OBVIOUS
<1>2. PICK f : f = [source |-> source, spec |-> spec, decision |-> decision, status |-> "OPEN"]
  OBVIOUS
<1>3. FindingOK(f, c)
  BY <1>1, <1>2, FindingMade
<1>4. Kept(c, c)
  BY DEF Kept
<1>5. f.source = source /\ f.spec = spec /\ f.decision = decision
  BY <1>2
<1>6. CASE decision = "AUTO"
  <2>1. RunPipeline(c, source, spec) = Remediate(c, f)
    BY <1>1, <1>2, <1>6 DEF RunPipeline
  <2> QED
    BY <1>3, <1>5, <1>6, <2>1, RemediateKeeps
<1>7. CASE decision = "APPROVAL_REQUIRED"
  <2>1. PICK made : made = [f EXCEPT !.status = "AWAITING_APPROVAL"]
    OBVIOUS
  <2>2. made = [source |-> source, spec |-> spec, decision |-> decision, status |-> "AWAITING_APPROVAL"]
    BY <1>2, <2>1
  <2>3. FindingOK(made, c) /\ made.source = source /\ made.spec = spec
    BY <1>1, <2>2, FindingMade
  <2>4. RunPipeline(c, source, spec) = [cluster |-> c, finding |-> made]
    BY <1>1, <1>2, <1>7, <2>1 DEF RunPipeline
  <2> QED
    BY <1>4, <2>3, <2>4 DEF PipelineOK
<1>8. CASE decision \notin {"AUTO", "APPROVAL_REQUIRED"}
  <2>1. RunPipeline(c, source, spec) = [cluster |-> c, finding |-> f]
    BY <1>1, <1>2, <1>8 DEF RunPipeline
  <2> QED
    BY <1>3, <1>4, <1>5, <2>1 DEF PipelineOK
<1> QED
  BY <1>6, <1>7, <1>8

\* The scan goes through the catalogue entry by entry.
LEMMA ScannedOneByOne ==
    ASSUME NEW start, Len(SeedSpecs) \in Nat
    PROVE  \E after : /\ after[0] = start
                      /\ \A n \in 1 .. Len(SeedSpecs) : after[n] = Scan(after[n - 1], SeedSpecs[n])
                      /\ ScanAll(start) = after[Len(SeedSpecs)]
<1> DEFINE Equation(f, N) ==
               f = [n \in 0 .. N |-> IF n = 0 THEN start ELSE Scan(f[n - 1], SeedSpecs[n])]
           Bad == {N \in 0 .. Len(SeedSpecs) : ~\E f : Equation(f, N)}
<1>0. Bad \subseteq Nat /\ \A N \in Bad : N <= Len(SeedSpecs)
  OBVIOUS
<1>1. \A N \in 0 .. Len(SeedSpecs) : N \notin Bad <=> \E f : Equation(f, N)
  OBVIOUS
<1> HIDE DEF Bad
<1>2. Bad = {}
  <2>1. SUFFICES ASSUME Bad # {} PROVE FALSE
    OBVIOUS
  <2>2. PICK N \in Bad : \A m \in Bad : N <= m
    BY <1>0, <2>1, Least
  <2>3. N \in Nat /\ N \in 0 .. Len(SeedSpecs)
    BY <1>0
  <2>4. CASE N = 0
    <3>1. Equation([n \in 0 .. 0 |-> start], 0)
      OBVIOUS
    <3> QED
      BY <1>1, <2>3, <2>4, <3>1
  <2>5. CASE N # 0
    <3>1. N - 1 \in 0 .. Len(SeedSpecs) /\ N - 1 \notin Bad
      BY <2>2, <2>3, <2>5
    <3>2. \E g : Equation(g, N - 1)
      BY <1>1, <3>1
    <3>3. PICK g : g = [n \in 0 .. N - 1 |-> IF n = 0 THEN start ELSE Scan(g[n - 1], SeedSpecs[n])]
      BY <3>2
    <3>4. PICK f : f = [n \in 0 .. N |-> IF n = N THEN Scan(g[N - 1], SeedSpecs[N]) ELSE g[n]]
      OBVIOUS
    <3>5. \A n \in 0 .. N - 1 : f[n] = g[n]
      BY <2>3, <3>4
    <3>6. f[N] = Scan(f[N - 1], SeedSpecs[N])
      BY <2>3, <2>5, <3>4, <3>5
    <3>7. \A n \in 0 .. N - 1 : f[n] = IF n = 0 THEN start ELSE Scan(f[n - 1], SeedSpecs[n])
      <4>1. TAKE n \in 0 .. N - 1
      <4>2. g[n] = IF n = 0 THEN start ELSE Scan(g[n - 1], SeedSpecs[n])
        BY <3>3
      <4>3. n # 0 => g[n - 1] = f[n - 1]
        BY <2>3, <3>5
      <4> QED
        BY <3>5, <4>2, <4>3
    <3>8. \A n \in 0 .. N : f[n] = IF n = 0 THEN start ELSE Scan(f[n - 1], SeedSpecs[n])
      <4>1. TAKE n \in 0 .. N
      <4>2. n = N \/ n \in 0 .. N - 1
        BY <2>3
      <4> QED
        BY <2>5, <3>6, <3>7, <4>2
    <3>9. f = [n \in 0 .. N |-> f[n]]
      BY <3>4
    <3>10. Equation(f, N)
      BY <3>8, <3>9
    <3> QED
      BY <1>1, <2>3, <3>10
  <2> QED
    BY <2>4, <2>5
<1>3. \E f : Equation(f, Len(SeedSpecs))
  BY <1>1, <1>2
<1>4. PICK f : f = (CHOOSE g : Equation(g, Len(SeedSpecs)))
  OBVIOUS
<1> HIDE DEF Equation
<1>5. Equation(f, Len(SeedSpecs))
  BY <1>3, <1>4
<1>6. ScanAll(start) = f[Len(SeedSpecs)]
  BY <1>4 DEF ScanAll, Equation
<1>7. \A n \in 0 .. Len(SeedSpecs) : f[n] = IF n = 0 THEN start ELSE Scan(f[n - 1], SeedSpecs[n])
  BY <1>5 DEF Equation
<1> QED
  BY <1>6, <1>7

\* The scan after n entries: it began at c and appends to before.
ScanOK(c, before, n, acc) ==
    /\ ClusterOK(acc.cluster) /\ Kept(c, acc.cluster)
    /\ Privileges(acc.cluster) = Privileges(c)
    /\ acc.findings \in Seq(ToSet(acc.findings))
    /\ Len(acc.findings) = Len(before) + n
    /\ \A k \in DOMAIN acc.findings : FindingOK(acc.findings[k], acc.cluster)
    /\ \A k \in 1 .. Len(before) : acc.findings[k] = before[k]
    /\ \A k \in 1 .. n : LET f == acc.findings[Len(before) + k]
                         IN  f.source = "scan" /\ f.spec = SeedSpecs[k]

LEMMA ScanKeeps ==
    ASSUME NEW c, NEW before, Len(before) \in Nat, NEW n \in 1 .. Len(SeedSpecs), NEW acc,
           ScanOK(c, before, n - 1, acc)
    PROVE  ScanOK(c, before, n, Scan(acc, SeedSpecs[n]))
<1>0. n \in 1 .. 14 /\ n \in Nat /\ n - 1 \in Nat
  BY SeedSpecsProposed
<1>1. PICK r : r = RunPipeline(acc.cluster, "scan", SeedSpecs[n])
  OBVIOUS
<1>2. /\ PipelineOK(acc.cluster, r, "scan", SeedSpecs[n])
      /\ Privileges(r.cluster) = Privileges(acc.cluster)
  BY <1>0, <1>1, SeedSpecsProposed, RunPipelineKeeps DEF ScanOK
<1>3. PICK s : s = Append(acc.findings, r.finding)
  OBVIOUS
<1>4. Scan(acc, SeedSpecs[n]) = [cluster |-> r.cluster, findings |-> s]
  BY <1>1, <1>3 DEF Scan
<1>5. PICK L : L = Len(before)
  OBVIOUS
<1>6. /\ L \in Nat /\ Len(acc.findings) = L + (n - 1) /\ DOMAIN acc.findings = 1 .. L + (n - 1)
      /\ s \in Seq(ToSet(s)) /\ DOMAIN s = 1 .. L + (n - 1) + 1
      /\ \A k \in 1 .. L + (n - 1) : s[k] = acc.findings[k]
      /\ s[L + (n - 1) + 1] = r.finding
  BY <1>3, <1>5, Appended DEF ScanOK
<1>7. L + (n - 1) + 1 = L + n
  BY <1>0, <1>6
<1>8. /\ DOMAIN s = 1 .. L + n /\ s[L + n] = r.finding /\ Len(s) = L + n
  <2>1. DOMAIN s = 1 .. L + n /\ s[L + n] = r.finding
    BY <1>6, <1>7
  <2>2. Len(s) \in Nat /\ DOMAIN s = 1 .. Len(s) /\ L + n \in Nat
    BY <1>0, <1>6
  <2> QED
    BY <2>1, <2>2
<1>9. \A k \in DOMAIN s : FindingOK(s[k], r.cluster)
  <2>1. TAKE k \in DOMAIN s
  <2>2. CASE k = L + n
    BY <1>2, <1>8, <2>2 DEF PipelineOK
  <2>3. CASE k # L + n
    <3>1. k \in 1 .. L + (n - 1)
      BY <1>0, <1>6, <1>8, <2>3
    <3>2. FindingOK(acc.findings[k], acc.cluster) /\ s[k] = acc.findings[k]
      BY <1>6, <3>1 DEF ScanOK
    <3> QED
      BY <1>2, <3>2, FindingKept DEF PipelineOK
  <2> QED
    BY <2>2, <2>3
<1>10. \A k \in 1 .. L : s[k] = before[k]
  <2>1. TAKE k \in 1 .. L
  <2>2. k \in 1 .. L + (n - 1)
    BY <1>0, <1>6
  <2> QED
    BY <1>5, <1>6, <2>2 DEF ScanOK
<1>11. \A k \in 1 .. n : s[L + k].source = "scan" /\ s[L + k].spec = SeedSpecs[k]
  <2>1. TAKE k \in 1 .. n
  <2>2. CASE k = n
    BY <1>2, <1>8, <2>2 DEF PipelineOK
  <2>3. CASE k # n
    <3>1. k \in 1 .. n - 1 /\ L + k \in 1 .. L + (n - 1)
      BY <1>0, <1>6, <2>3
    <3>2. s[L + k] = acc.findings[L + k]
      BY <1>6, <3>1
    <3> QED
      BY <1>5, <3>1, <3>2 DEF ScanOK
  <2> QED
    BY <2>2, <2>3
<1>12. /\ ClusterOK(r.cluster) /\ Kept(c, r.cluster) /\ Privileges(r.cluster) = Privileges(c)
  BY <1>2, KeptKept DEF PipelineOK, ScanOK
<1>13. PICK made : made = [cluster |-> r.cluster, findings |-> s]
  OBVIOUS
<1>14. made.cluster = r.cluster /\ made.findings = s
  BY <1>13
<1>15. ScanOK(c, before, n, made)
  BY <1>5, <1>6, <1>8, <1>9, <1>10, <1>11, <1>12, <1>14 DEF ScanOK
<1> QED
  BY <1>4, <1>13, <1>15

LEMMA ScanAllKeeps ==
    ASSUME NEW c, ClusterOK(c), NEW before, before \in Seq(ToSet(before)),
           \A k \in DOMAIN before : FindingOK(before[k], c)
    PROVE  ScanOK(c, before, 14, ScanAll([cluster |-> c, findings |-> before]))
<1>0. Len(SeedSpecs) = 14
  BY SeedSpecsProposed
<1>1. PICK start : start = [cluster |-> c, findings |-> before]
  OBVIOUS
<1>2. PICK after : /\ after[0] = start
                   /\ \A n \in 1 .. Len(SeedSpecs) : after[n] = Scan(after[n - 1], SeedSpecs[n])
                   /\ ScanAll(start) = after[Len(SeedSpecs)]
  BY <1>0, ScannedOneByOne, SMTT(60)
<1>3. PICK Bad : Bad = {n \in 0 .. 14 : ~ScanOK(c, before, n, after[n])}
  OBVIOUS
<1>4. Len(before) \in Nat
  OBVIOUS
<1>5. ScanOK(c, before, 0, start)
  <2>1. start.cluster = c /\ start.findings = before
    BY <1>1
  <2>2. Kept(c, c)
    BY DEF Kept
  <2> QED
    BY <1>4, <2>1, <2>2 DEF ScanOK
<1>6. Bad = {}
  <2>1. SUFFICES ASSUME Bad # {} PROVE FALSE
    OBVIOUS
  <2>2. Bad \subseteq Nat
    BY <1>3
  <2>3. PICK n \in Bad : \A m \in Bad : n <= m
    BY <2>1, <2>2, Least
  <2>4. n \in 0 .. 14 /\ ~ScanOK(c, before, n, after[n])
    BY <1>3
  <2>5. n # 0
    BY <1>2, <1>5, <2>4
  <2>6. n \in 1 .. 14 /\ n - 1 \in 0 .. 14 /\ ~(n <= n - 1)
    BY <2>4, <2>5
  <2>7. ScanOK(c, before, n - 1, after[n - 1])
    BY <1>3, <2>3, <2>6
  <2>8. after[n] = Scan(after[n - 1], SeedSpecs[n])
    BY <1>0, <1>2, <2>6
  <2> QED
    BY <1>0, <1>4, <2>4, <2>6, <2>7, <2>8, ScanKeeps
<1> QED
  BY <1>0, <1>1, <1>2, <1>3, <1>6

\* Of a scan one entry is done unattended.
LEMMA OneUnattended ==
    ASSUME NEW c, NEW before, Len(before) \in Nat, NEW acc, ScanOK(c, before, 14, acc),
           \A k \in 1 .. Len(before) : before[k].source # "scan"
    PROVE  Len(before) + 1 \in DOMAIN acc.findings /\ Unattended(acc.findings) = {Len(before) + 1}
<1>1. PICK L : L = Len(before)
  OBVIOUS
<1>2. PICK s : s = acc.findings
  OBVIOUS
<1>3. /\ DOMAIN s = 1 .. L + 14 /\ L \in Nat
      /\ \A k \in 1 .. L : s[k].source # "scan"
      /\ \A k \in 1 .. 14 : s[L + k].source = "scan" /\ s[L + k].spec = SeedSpecs[k]
  <2>1. /\ Len(s) = L + 14 /\ s \in Seq(ToSet(s)) /\ L \in Nat
        /\ \A k \in 1 .. L : s[k] = before[k]
        /\ \A k \in 1 .. 14 : s[L + k].source = "scan" /\ s[L + k].spec = SeedSpecs[k]
    BY <1>1, <1>2 DEF ScanOK
  <2>2. DOMAIN s = 1 .. L + 14
    BY <2>1
  <2>3. \A k \in 1 .. L : s[k].source # "scan"
    BY <1>1, <2>1
  <2> QED
    BY <2>1, <2>2, <2>3
<1>4. \A k \in 2 .. 14 : SeedSpecs[k] # SeedSpecs[1]
  BY SeedSpecsProposed
<1>5. L + 1 \in DOMAIN s /\ L + 1 \in Unattended(s)
  BY <1>3 DEF Unattended
<1>6. \A k \in Unattended(s) : k = L + 1
  <2>1. TAKE k \in Unattended(s)
  <2>2. k \in 1 .. L + 14 /\ s[k].source = "scan" /\ s[k].spec = SeedSpecs[1]
    BY <1>3 DEF Unattended
  <2>3. k \notin 1 .. L
    BY <1>3, <2>2
  <2>4. k - L \in 1 .. 14 /\ k = L + (k - L)
    BY <1>3, <2>2, <2>3
  <2>5. SeedSpecs[k - L] = SeedSpecs[1]
    BY <1>3, <2>2, <2>4
  <2>6. k - L \notin 2 .. 14
    BY <1>4, <2>5
  <2> QED
    BY <1>3, <2>4, <2>6
<1> QED
  BY <1>1, <1>2, <1>5, <1>6

-----------------------------------------------------------------------------
(* The loop.                                                               *)

\* The parts of the invariant, for incidents and for findings.
IncidentsOK(is, c) == is \in Seq(ToSet(is)) /\ \A k \in DOMAIN is : IncidentOK(is[k], c)
FindingsOK(fs, c, scanned) ==
    /\ fs \in Seq(ToSet(fs))
    /\ \A k \in DOMAIN fs : FindingOK(fs[k], c)
    /\ IF scanned THEN \E k \in DOMAIN fs : Unattended(fs) = {k}
       ELSE \A k \in DOMAIN fs : fs[k].source # "scan"

LEMMA DemoInvParts ==
    /\ DemoInv <=> /\ ClusterOK(cluster) /\ IncidentsOK(incidents, cluster)
                   /\ FindingsOK(findings, cluster, seeded)
    /\ DemoInv' <=> /\ ClusterOK(cluster') /\ IncidentsOK(incidents', cluster')
                    /\ FindingsOK(findings', cluster', seeded')
<1>1. DemoInv <=> /\ ClusterOK(cluster) /\ IncidentsOK(incidents, cluster)
                  /\ FindingsOK(findings, cluster, seeded)
  BY DEF DemoInv, IncidentsOK, FindingsOK
<1>2. DemoInv' <=> /\ ClusterOK(cluster') /\ IncidentsOK(incidents', cluster')
                   /\ FindingsOK(findings', cluster', seeded')
  BY DEF DemoInv, IncidentsOK, FindingsOK
<1> QED
  BY <1>1, <1>2

LEMMA AllIncidentsKept ==
    ASSUME NEW c, NEW e, ClusterOK(c), ClusterOK(e), Kept(c, e), NEW is, IncidentsOK(is, c)
    PROVE  IncidentsOK(is, e)
BY IncidentKept DEF IncidentsOK

LEMMA AllFindingsKept ==
    ASSUME NEW c, NEW e, Kept(c, e), NEW fs, NEW scanned, FindingsOK(fs, c, scanned)
    PROVE  FindingsOK(fs, e, scanned)
BY FindingKept DEF FindingsOK

LEMMA IncidentAppended ==
    ASSUME NEW is, NEW c, IncidentsOK(is, c), NEW inc, IncidentOK(inc, c)
    PROVE  IncidentsOK(Append(is, inc), c)
<1>1. PICK s : s = Append(is, inc)
  OBVIOUS
<1>2. /\ s \in Seq(ToSet(s)) /\ DOMAIN is = 1 .. Len(is) /\ Len(is) \in Nat
      /\ DOMAIN s = 1 .. Len(is) + 1
      /\ \A k \in 1 .. Len(is) : s[k] = is[k]
      /\ s[Len(is) + 1] = inc
  BY <1>1, Appended DEF IncidentsOK
<1>3. \A k \in DOMAIN s : IncidentOK(s[k], c)
  <2>1. TAKE k \in DOMAIN s
  <2>2. k = Len(is) + 1 \/ k \in 1 .. Len(is)
    BY <1>2
  <2> QED
    BY <1>2, <2>2 DEF IncidentsOK
<1> QED
  BY <1>1, <1>2, <1>3 DEF IncidentsOK

LEMMA IncidentExchanged ==
    ASSUME NEW is, NEW c, IncidentsOK(is, c), NEW k \in DOMAIN is, NEW inc, IncidentOK(inc, c)
    PROVE  IncidentsOK([is EXCEPT ![k] = inc], c) /\ [is EXCEPT ![k] = inc][k] = inc
<1>1. PICK s : s = [is EXCEPT ![k] = inc]
  OBVIOUS
<1>2. /\ s \in Seq(ToSet(s)) /\ DOMAIN s = DOMAIN is /\ s[k] = inc
      /\ \A j \in DOMAIN is \ {k} : s[j] = is[j]
  BY <1>1, Exchanged DEF IncidentsOK
<1>3. \A j \in DOMAIN s : IncidentOK(s[j], c)
  BY <1>2 DEF IncidentsOK
<1> QED
  BY <1>1, <1>2, <1>3 DEF IncidentsOK

\* A pipeline whose finding is not of the scan.
LEMMA FindingAppended ==
    ASSUME NEW fs, NEW c, NEW scanned, FindingsOK(fs, c, scanned), NEW f, FindingOK(f, c), f.source # "scan"
    PROVE  FindingsOK(Append(fs, f), c, scanned)
<1>1. PICK s : s = Append(fs, f)
  OBVIOUS
<1>2. /\ s \in Seq(ToSet(s)) /\ DOMAIN fs = 1 .. Len(fs) /\ Len(fs) \in Nat
      /\ DOMAIN s = 1 .. Len(fs) + 1
      /\ \A k \in 1 .. Len(fs) : s[k] = fs[k]
      /\ s[Len(fs) + 1] = f
  BY <1>1, Appended DEF FindingsOK
<1>3. \A k \in DOMAIN s : (k \in DOMAIN fs /\ s[k] = fs[k]) \/ (k = Len(fs) + 1 /\ s[k] = f)
  BY <1>2
<1>4. \A k \in DOMAIN s : FindingOK(s[k], c)
  BY <1>3 DEF FindingsOK
<1>5. Unattended(s) = Unattended(fs)
  <2>1. \A k \in Unattended(s) : k \in Unattended(fs)
    BY <1>3 DEF Unattended
  <2>2. \A k \in Unattended(fs) : k \in DOMAIN s /\ s[k] = fs[k]
    BY <1>2 DEF Unattended
  <2>3. \A k \in Unattended(fs) : k \in Unattended(s)
    BY <2>2 DEF Unattended
  <2> QED
    BY <2>1, <2>3
<1>6. DOMAIN fs \subseteq DOMAIN s
  BY <1>2
<1>7. IF scanned THEN \E k \in DOMAIN s : Unattended(s) = {k}
      ELSE \A k \in DOMAIN s : s[k].source # "scan"
  BY <1>3, <1>5, <1>6 DEF FindingsOK
<1> QED
  BY <1>1, <1>2, <1>4, <1>7 DEF FindingsOK

\* A finding that keeps its source and its entry.
LEMMA FindingExchanged ==
    ASSUME NEW fs, NEW c, NEW scanned, FindingsOK(fs, c, scanned), NEW k \in DOMAIN fs,
           NEW f, FindingOK(f, c), f.source = fs[k].source, f.spec = fs[k].spec
    PROVE  FindingsOK([fs EXCEPT ![k] = f], c, scanned) /\ [fs EXCEPT ![k] = f][k] = f
<1>1. PICK s : s = [fs EXCEPT ![k] = f]
  OBVIOUS
<1>2. /\ s \in Seq(ToSet(s)) /\ DOMAIN s = DOMAIN fs /\ s[k] = f
      /\ \A j \in DOMAIN fs \ {k} : s[j] = fs[j]
  BY <1>1, Exchanged DEF FindingsOK
<1>3. \A j \in DOMAIN s : FindingOK(s[j], c)
  BY <1>2 DEF FindingsOK
<1>4. \A j \in DOMAIN fs : s[j].source = fs[j].source /\ s[j].spec = fs[j].spec
  BY <1>2
<1>5. Unattended(s) = Unattended(fs)
  BY <1>2, <1>4 DEF Unattended
<1>6. IF scanned THEN \E j \in DOMAIN s : Unattended(s) = {j}
      ELSE \A j \in DOMAIN s : s[j].source # "scan"
  BY <1>2, <1>4, <1>5 DEF FindingsOK
<1> QED
  BY <1>1, <1>2, <1>3, <1>6 DEF FindingsOK

\* What a reader of the findings finds.
LEMMA SeededKeeps ==
    ASSUME ClusterOK(cluster), FindingsOK(findings, cluster, seeded)
    PROVE  /\ ClusterOK(Seeded.cluster) /\ Kept(cluster, Seeded.cluster)
           /\ Privileges(Seeded.cluster) = Privileges(cluster)
           /\ FindingsOK(Seeded.findings, Seeded.cluster, TRUE)
           /\ DOMAIN findings \subseteq DOMAIN Seeded.findings
           /\ \A k \in DOMAIN findings : Seeded.findings[k] = findings[k]
<1>1. PICK c, fs : c = cluster /\ fs = findings
  OBVIOUS
<1>2. PICK before : before = [cluster |-> c, findings |-> fs]
  OBVIOUS
<1>3. ClusterOK(c) /\ FindingsOK(fs, c, seeded)
  BY <1>1
<1>4. CASE seeded
  <2>1. Seeded = before
    BY <1>1, <1>2, <1>4 DEF Seeded
  <2>2. Seeded.cluster = c /\ Seeded.findings = fs
    BY <1>2, <2>1
  <2>3. Kept(c, c)
    BY DEF Kept
  <2>4. FindingsOK(fs, c, TRUE)
    BY <1>3, <1>4 DEF FindingsOK
  <2> QED
    BY <1>1, <1>3, <2>2, <2>3, <2>4
<1>5. CASE ~seeded
  <2>1. PICK acc : acc = ScanAll(before)
    OBVIOUS
  <2>2. Seeded = acc
    BY <1>1, <1>2, <1>5, <2>1 DEF Seeded
  <2>3. fs \in Seq(ToSet(fs)) /\ \A k \in DOMAIN fs : FindingOK(fs[k], c) /\ fs[k].source # "scan"
    BY <1>3, <1>5 DEF FindingsOK
  <2>4. ScanOK(c, fs, 14, acc)
    BY <1>2, <1>3, <2>1, <2>3, ScanAllKeeps
  <2>5. DOMAIN fs = 1 .. Len(fs) /\ Len(fs) \in Nat
    BY <2>3
  <2>6. Len(fs) + 1 \in DOMAIN acc.findings /\ Unattended(acc.findings) = {Len(fs) + 1}
    <3>1. \A k \in 1 .. Len(fs) : fs[k].source # "scan"
      BY <2>3, <2>5
    <3> QED
      BY <2>4, <2>5, <3>1, OneUnattended
  <2>7. FindingsOK(acc.findings, acc.cluster, TRUE)
    BY <2>4, <2>6 DEF ScanOK, FindingsOK
  <2>8. DOMAIN fs \subseteq DOMAIN acc.findings
    <3>1. Len(acc.findings) = Len(fs) + 14 /\ DOMAIN acc.findings = 1 .. Len(acc.findings)
      BY <2>4, <2>7 DEF ScanOK, FindingsOK
    <3> QED
      BY <2>5, <3>1
  <2>9. \A k \in DOMAIN fs : acc.findings[k] = fs[k]
    BY <2>4, <2>5 DEF ScanOK
  <2> QED
    BY <1>1, <2>2, <2>4, <2>7, <2>8, <2>9 DEF ScanOK
<1> QED
  BY <1>4, <1>5

\* Nothing about the bindings, the certificate and the configurations changes
\* without a person.
Untouched == Privileges(cluster') = Privileges(cluster)

LEMMA DetectKeeps ==
    ASSUME DemoInv, Detect
    PROVE  DemoInv' /\ Untouched
<1>1. PICK c : c = cluster
  OBVIOUS
<1>2. PICK start : start = [cluster |-> cluster, incidents |-> incidents]
  OBVIOUS
<1>3. PICK end : end = HandleAll(start, Detected(cluster))
  OBVIOUS
<1>4. ClusterOK(cluster) /\ IncidentsOK(incidents, cluster) /\ FindingsOK(findings, cluster, seeded)
  BY DemoInvParts
<1>5. WorkflowsOK(cluster, start)
  <2>1. start.cluster = cluster /\ start.incidents = incidents
    BY <1>2
  <2>2. Kept(cluster, cluster)
    BY DEF Kept
  <2> QED
    BY <1>4, <2>1, <2>2 DEF WorkflowsOK, IncidentsOK
<1>6. WorkflowsOK(cluster, end)
  BY <1>3, <1>4, <1>5, DetectedTypes, HandleAllKeeps
<1>7. cluster' = end.cluster /\ incidents' = end.incidents /\ findings' = findings /\ seeded' = seeded
  BY <1>2, <1>3 DEF Detect
<1>8. /\ ClusterOK(end.cluster) /\ IncidentsOK(end.incidents, end.cluster)
      /\ Kept(cluster, end.cluster) /\ Privileges(end.cluster) = Privileges(cluster)
  BY <1>6 DEF WorkflowsOK, IncidentsOK
<1>9. FindingsOK(findings, end.cluster, seeded)
  BY <1>4, <1>8, AllFindingsKept
<1>10. ClusterOK(cluster') /\ IncidentsOK(incidents', cluster') /\ FindingsOK(findings', cluster', seeded')
  BY <1>7, <1>8, <1>9
<1> QED
  BY <1>7, <1>8, <1>10, DemoInvParts DEF Untouched

LEMMA ReportKeeps ==
    ASSUME DemoInv, NEW shell \in Reports, Report(shell)
    PROVE  DemoInv' /\ Untouched
<1>1. PICK o : o = RunWorkflow(cluster, NewIncident(shell))
  OBVIOUS
<1>2. ClusterOK(cluster) /\ IncidentsOK(incidents, cluster) /\ FindingsOK(findings, cluster, seeded)
  BY DemoInvParts
<1>3. WorkflowOK(cluster, o)
  BY <1>1, <1>2, ReportsAssumption, NewIncidentRecorded, RunWorkflowKeeps
<1>4. /\ cluster' = o.cluster /\ incidents' = Append(incidents, o.incident)
      /\ findings' = findings /\ seeded' = seeded
  BY <1>1 DEF Report
<1>5. IncidentsOK(Append(incidents, o.incident), o.cluster)
  BY <1>2, <1>3, AllIncidentsKept, IncidentAppended DEF WorkflowOK
<1>6. FindingsOK(findings, o.cluster, seeded)
  BY <1>2, <1>3, AllFindingsKept DEF WorkflowOK
<1>7. ClusterOK(cluster') /\ IncidentsOK(incidents', cluster') /\ FindingsOK(findings', cluster', seeded')
  BY <1>3, <1>4, <1>5, <1>6 DEF WorkflowOK
<1> QED
  BY <1>3, <1>4, <1>7, DemoInvParts DEF Untouched, WorkflowOK

LEMMA UpdateKeeps ==
    ASSUME DemoInv, NEW k \in DOMAIN incidents, NEW o, ClusterOK(o.cluster), Kept(cluster, o.cluster),
           IncidentOK(o.incident, o.cluster), Update(k, o)
    PROVE  DemoInv' /\ incidents'[k] = o.incident /\ cluster' = o.cluster
<1>1. ClusterOK(cluster) /\ IncidentsOK(incidents, cluster) /\ FindingsOK(findings, cluster, seeded)
  BY DemoInvParts
<1>2. /\ cluster' = o.cluster /\ incidents' = [incidents EXCEPT ![k] = o.incident]
      /\ findings' = findings /\ seeded' = seeded
  BY DEF Update
<1>3. IncidentsOK([incidents EXCEPT ![k] = o.incident], o.cluster)
      /\ [incidents EXCEPT ![k] = o.incident][k] = o.incident
  BY <1>1, AllIncidentsKept, IncidentExchanged
<1>4. FindingsOK(findings, o.cluster, seeded)
  BY <1>1, AllFindingsKept
<1>5. ClusterOK(cluster') /\ IncidentsOK(incidents', cluster') /\ FindingsOK(findings', cluster', seeded')
  BY <1>2, <1>3, <1>4
<1> QED
  BY <1>2, <1>3, <1>5, DemoInvParts

LEMMA RerunKeeps ==
    ASSUME DemoInv, NEW k \in DOMAIN incidents, Rerun(k)
    PROVE  DemoInv' /\ Untouched
<1>1. PICK o : o = RunWorkflow(cluster, incidents[k])
  OBVIOUS
<1>2. ClusterOK(cluster) /\ Recorded(incidents[k])
  BY DemoInvParts DEF IncidentsOK, IncidentOK
<1>3. WorkflowOK(cluster, o)
  BY <1>1, <1>2, RunWorkflowKeeps
<1>4. Update(k, o)
  BY <1>1 DEF Rerun
<1> QED
  BY <1>3, <1>4, UpdateKeeps DEF WorkflowOK, Untouched

LEMMA ApproveKeeps ==
    ASSUME DemoInv, NEW k \in DOMAIN incidents, Approve(k)
    PROVE  DemoInv' /\ Approved
<1>1. PICK i : i = incidents[k]
  OBVIOUS
<1>2. PICK asked : asked = [i EXCEPT !.approval = "APPROVED"]
  OBVIOUS
<1>3. PICK o : o = Execute(cluster, asked, TRUE)
  OBVIOUS
<1>4. ClusterOK(cluster) /\ IncidentOK(i, cluster)
  BY <1>1, DemoInvParts DEF IncidentsOK
<1>5. PICK shape : shape = [type |-> i.type, resource |-> i.resource, status |-> i.status,
                            approval |-> i.approval, plan |-> i.plan, policy |-> i.policy,
                            timeline |-> i.timeline]
  OBVIOUS
<1>6. i = shape
  BY <1>4, <1>5, RecordedFields DEF IncidentOK
<1>7. asked = [type |-> i.type, resource |-> i.resource, status |-> i.status, approval |-> "APPROVED",
               plan |-> i.plan, policy |-> i.policy, timeline |-> i.timeline]
  BY <1>2, <1>5, <1>6
<1>8. Recorded(asked)
  BY <1>4, <1>7, RecordedFields, RecordMade, ZenonT(60) DEF IncidentOK, Approvals
<1>9. /\ asked.type = i.type /\ asked.resource = i.resource /\ asked.plan = i.plan
      /\ asked.policy = i.policy /\ asked.approval = "APPROVED"
  BY <1>7
<1>10. Planned(asked)
  BY <1>4, <1>9 DEF IncidentOK, Planned
<1>11. ExecutionOK(cluster, o, asked)
  BY <1>3, <1>4, <1>8, <1>10, ExecuteKeeps
<1>12. Update(k, o) /\ incidents[k].approval = "PENDING"
  BY <1>1, <1>2, <1>3 DEF Approve
<1>13. DemoInv' /\ incidents'[k] = o.incident
  BY <1>11, <1>12, UpdateKeeps DEF ExecutionOK
<1>14. o.incident.approval = "APPROVED"
  BY <1>9, <1>11 DEF ExecutionOK
<1> QED
  BY <1>12, <1>13, <1>14 DEF Approved

LEMMA RejectKeeps ==
    ASSUME DemoInv, NEW k \in DOMAIN incidents, Reject(k)
    PROVE  DemoInv' /\ Untouched
<1>1. PICK i : i = incidents[k]
  OBVIOUS
<1>2. PICK made : made = [i EXCEPT !.approval = "REJECTED", !.status = "REJECTED"]
  OBVIOUS
<1>3. PICK o : o = Outcome(cluster, made)
  OBVIOUS
<1>4. ClusterOK(cluster) /\ IncidentOK(i, cluster)
  BY <1>1, DemoInvParts DEF IncidentsOK
<1>5. PICK shape : shape = [type |-> i.type, resource |-> i.resource, status |-> i.status,
                            approval |-> i.approval, plan |-> i.plan, policy |-> i.policy,
                            timeline |-> i.timeline]
  OBVIOUS
<1>6. i = shape
  BY <1>4, <1>5, RecordedFields DEF IncidentOK
<1>7. made = [type |-> i.type, resource |-> i.resource, status |-> "REJECTED", approval |-> "REJECTED",
              plan |-> i.plan, policy |-> i.policy, timeline |-> i.timeline]
  BY <1>2, <1>5, <1>6
<1>8. "REJECTED" \in Statuses \ {"DETECTED"} /\ "REJECTED" \in Approvals /\ "REJECTED" # "REMEDIATED"
      /\ "REJECTED" # "AWAITING_APPROVAL"
  BY DEF Statuses, Approvals
<1>9. IncidentOK(made, cluster)
  <2>1. i.timeline \in Seq(Noted) /\ Recorded(i) /\ Planned(i)
    BY <1>4, RecordedFields DEF IncidentOK
  <2> QED
    BY <1>7, <1>8, <2>1, IncidentMade
<1>10. o.cluster = cluster /\ o.incident = made
  BY <1>3 DEF Outcome
<1>11. Update(k, o)
  BY <1>1, <1>2, <1>3 DEF Reject
<1>12. Kept(cluster, cluster)
  BY DEF Kept
<1> QED
  BY <1>4, <1>9, <1>10, <1>11, <1>12, UpdateKeeps DEF Untouched

LEMMA ListFindingsKeeps ==
    ASSUME DemoInv, ListFindings
    PROVE  DemoInv' /\ Untouched
<1>1. ClusterOK(cluster) /\ IncidentsOK(incidents, cluster) /\ FindingsOK(findings, cluster, seeded)
  BY DemoInvParts
<1>2. PICK s : s = Seeded
  OBVIOUS
<1>3. /\ ClusterOK(s.cluster) /\ Kept(cluster, s.cluster)
      /\ Privileges(s.cluster) = Privileges(cluster)
      /\ FindingsOK(s.findings, s.cluster, TRUE)
  BY <1>1, <1>2, SeededKeeps
<1>4. cluster' = s.cluster /\ findings' = s.findings /\ seeded' = TRUE /\ incidents' = incidents
  BY <1>2 DEF ListFindings
<1>5. IncidentsOK(incidents, s.cluster)
  BY <1>1, <1>3, AllIncidentsKept
<1>6. ClusterOK(cluster') /\ IncidentsOK(incidents', cluster') /\ FindingsOK(findings', cluster', seeded')
  BY <1>3, <1>4, <1>5
<1> QED
  BY <1>3, <1>4, <1>6, DemoInvParts DEF Untouched

LEMMA RunLabKeeps ==
    ASSUME DemoInv, NEW key \in DOMAIN LabScenarios, RunLab(key)
    PROVE  DemoInv' /\ Untouched
<1>1. ClusterOK(cluster) /\ IncidentsOK(incidents, cluster) /\ FindingsOK(findings, cluster, seeded)
  BY DemoInvParts
<1>2. PICK r : r = RunPipeline(cluster, key, LabScenarios[key])
  OBVIOUS
<1>3. key # "scan"
  BY DEF LabScenarios
<1>4. PipelineOK(cluster, r, key, LabScenarios[key]) /\ Privileges(r.cluster) = Privileges(cluster)
  BY <1>1, <1>2, <1>3, RunPipelineKeeps
<1>5. /\ cluster' = r.cluster /\ findings' = Append(findings, r.finding)
      /\ seeded' = seeded /\ incidents' = incidents
  BY <1>2 DEF RunLab
<1>6. IncidentsOK(incidents, r.cluster)
  BY <1>1, <1>4, AllIncidentsKept DEF PipelineOK
<1>7. FindingsOK(Append(findings, r.finding), r.cluster, seeded)
  BY <1>1, <1>3, <1>4, AllFindingsKept, FindingAppended DEF PipelineOK
<1>8. ClusterOK(cluster') /\ IncidentsOK(incidents', cluster') /\ FindingsOK(findings', cluster', seeded')
  BY <1>4, <1>5, <1>6, <1>7 DEF PipelineOK
<1> QED
  BY <1>4, <1>5, <1>8, DemoInvParts DEF Untouched

LEMMA DecideFindingKeeps ==
    ASSUME DemoInv, NEW k \in DOMAIN findings, NEW approve \in BOOLEAN, DecideFinding(k, approve)
    PROVE  DemoInv' /\ (Untouched \/ Approved)
<1>1. ClusterOK(cluster) /\ IncidentsOK(incidents, cluster) /\ FindingsOK(findings, cluster, seeded)
  BY DemoInvParts
<1>2. PICK s : s = Seeded
  OBVIOUS
<1>3. /\ ClusterOK(s.cluster) /\ Kept(cluster, s.cluster)
      /\ Privileges(s.cluster) = Privileges(cluster)
      /\ FindingsOK(s.findings, s.cluster, TRUE)
      /\ k \in DOMAIN s.findings /\ s.findings[k] = findings[k]
  BY <1>1, <1>2, SeededKeeps
<1>4. PICK f : f = s.findings[k]
  OBVIOUS
<1>5. FindingOK(f, s.cluster) /\ f = findings[k]
  BY <1>3, <1>4 DEF FindingsOK
<1>6. PICK r : r = IF approve THEN Remediate(s.cluster, f)
                   ELSE [cluster |-> s.cluster, finding |-> [f EXCEPT !.status = "OPEN"]]
  OBVIOUS
<1>7. /\ f.status = "AWAITING_APPROVAL"
      /\ cluster' = r.cluster /\ findings' = [s.findings EXCEPT ![k] = r.finding]
      /\ seeded' = TRUE /\ incidents' = incidents
  BY <1>2, <1>4, <1>6 DEF DecideFinding
<1>8. PipelineOK(s.cluster, r, f.source, f.spec)
  <2>1. CASE approve
    BY <1>3, <1>5, <1>6, <2>1, RemediateKeeps
  <2>2. CASE ~approve
    <3>1. PICK made : made = [f EXCEPT !.status = "OPEN"]
      OBVIOUS
    <3>2. PICK shape : shape = [source |-> f.source, spec |-> f.spec, decision |-> f.decision, status |-> f.status]
      OBVIOUS
    <3>3. f = shape
      BY <1>5, <3>2, FindingFields
    <3>4. made = [source |-> f.source, spec |-> f.spec, decision |-> f.decision, status |-> "OPEN"]
      BY <3>1, <3>2, <3>3
    <3>5. FindingOK(made, s.cluster)
      <4>1. f.source \in {"scan"} \union DOMAIN LabScenarios
            /\ f.spec \in IF f.source = "scan" THEN ToSet(SeedSpecs) ELSE {LabScenarios[f.source]}
        BY <1>5 DEF FindingOK
      <4> QED
        BY <1>5, <3>4, <4>1, FindingFields, FindingMade, ZenonT(60)
    <3>6. r.cluster = s.cluster /\ r.finding = made
      BY <1>6, <2>2, <3>1
    <3>7. Kept(s.cluster, s.cluster) /\ made.source = f.source /\ made.spec = f.spec
      BY <3>4 DEF Kept
    <3> QED
      BY <1>3, <3>5, <3>6, <3>7 DEF PipelineOK
  <2> QED
    BY <2>1, <2>2
<1>9. ClusterOK(r.cluster) /\ Kept(cluster, r.cluster)
  BY <1>3, <1>8, KeptKept DEF PipelineOK
<1>10. IncidentsOK(incidents, r.cluster)
  BY <1>1, <1>9, AllIncidentsKept
<1>11. /\ FindingsOK([s.findings EXCEPT ![k] = r.finding], r.cluster, TRUE)
       /\ [s.findings EXCEPT ![k] = r.finding][k] = r.finding
  <2>1. FindingsOK(s.findings, r.cluster, TRUE)
    BY <1>3, <1>8, AllFindingsKept DEF PipelineOK
  <2> QED
    BY <1>3, <1>4, <1>8, <2>1, FindingExchanged DEF PipelineOK
<1>12. ClusterOK(cluster') /\ IncidentsOK(incidents', cluster') /\ FindingsOK(findings', cluster', seeded')
  BY <1>7, <1>9, <1>10, <1>11
<1>13. CASE approve
  <2>1. r.finding.status \in {"REMEDIATED", "VERIFICATION_FAILED"}
    BY <1>3, <1>5, <1>6, <1>13, RemediateKeeps
  <2>2. findings[k].status = "AWAITING_APPROVAL" /\ findings'[k].status \in {"REMEDIATED", "VERIFICATION_FAILED"}
    BY <1>5, <1>7, <1>11, <2>1
  <2> QED
    BY <1>12, <2>2, DemoInvParts DEF Approved
<1>14. CASE ~approve
  <2>1. r.cluster = s.cluster
    BY <1>6, <1>14
  <2> QED
    BY <1>3, <1>7, <1>12, <2>1, DemoInvParts DEF Untouched
<1> QED
  BY <1>13, <1>14

LEMMA ResetFindingsKeeps ==
    ASSUME DemoInv, ResetFindings
    PROVE  DemoInv' /\ Untouched
<1>1. ClusterOK(cluster) /\ IncidentsOK(incidents, cluster)
  BY DemoInvParts
<1>2. cluster' = cluster /\ incidents' = incidents /\ findings' = << >> /\ seeded' = FALSE
  BY DEF ResetFindings
<1>3. FindingsOK(<< >>, cluster, FALSE)
  BY DEF FindingsOK
<1>4. ClusterOK(cluster') /\ IncidentsOK(incidents', cluster') /\ FindingsOK(findings', cluster', seeded')
  BY <1>1, <1>2, <1>3
<1> QED
  BY <1>2, <1>4, DemoInvParts DEF Untouched

LEMMA DemoInvInit == Init => DemoInv
<1>1. IncidentsOK(<< >>, InitialCluster) /\ FindingsOK(<< >>, InitialCluster, FALSE)
  BY DEF IncidentsOK, FindingsOK
<1> QED
  BY <1>1, InitialClusterOK, DemoInvParts DEF Init

\* Every request keeps the invariant, and touches privileges only on a person's word.
LEMMA DemoStep == DemoInv /\ Next => DemoInv' /\ (Untouched \/ Approved)
<1> SUFFICES ASSUME DemoInv, Next
             PROVE  DemoInv' /\ (Untouched \/ Approved)
  OBVIOUS
<1>1. CASE Detect
  BY <1>1, DetectKeeps
<1>2. CASE \E shell \in Reports : Report(shell)
  BY <1>2, ReportKeeps
<1>3. ASSUME NEW k \in DOMAIN incidents, Rerun(k) \/ Approve(k) \/ Reject(k)
      PROVE  DemoInv' /\ (Untouched \/ Approved)
  BY <1>3, RerunKeeps, ApproveKeeps, RejectKeeps
<1>4. CASE ListFindings
  BY <1>4, ListFindingsKeeps
<1>5. CASE \E key \in DOMAIN LabScenarios : RunLab(key)
  BY <1>5, RunLabKeeps
<1>6. CASE \E k \in DOMAIN findings, approve \in BOOLEAN : DecideFinding(k, approve)
  BY <1>6, DecideFindingKeeps
<1>7. CASE ResetFindings
  BY <1>7, ResetFindingsKeeps
<1> QED
  BY <1>1, <1>2, <1>3, <1>4, <1>5, <1>6, <1>7 DEF Next

LEMMA DemoStutter == DemoInv /\ UNCHANGED vars => DemoInv'
BY DEF DemoInv, vars

LEMMA DemoInvariant == Spec => []DemoInv
<1>1. DemoInv /\ [Next]_vars => DemoInv'
  BY DemoStep, DemoStutter
<1> QED
  BY <1>1, DemoInvInit, PTL DEF Spec

-----------------------------------------------------------------------------
(* The replay: the entries of a station, station after station, in time.   *)

\* Times go forward.
Forward(s) == \A j \in 2 .. Len(s) : s[j - 1].time < s[j].time

Entries == [station : ToSet(Pipeline), time : Nat]

LEMMA EntryAppended ==
    ASSUME NEW s \in Seq(Entries), NEW e \in Entries
    PROVE  /\ Append(s, e) \in Seq(Entries)
           /\ Len(s) \in Nat /\ Len(Append(s, e)) = Len(s) + 1
           /\ \A k \in 1 .. Len(s) : Append(s, e)[k] = s[k]
           /\ Append(s, e)[Len(s) + 1] = e
           /\ Append(s, e) # << >>
<1>1. PICK E : E = Entries
  OBVIOUS
<1>2. s \in Seq(E) /\ e \in E
  BY <1>1
<1> QED
  BY <1>1, <1>2

LEMMA ForwardAppended ==
    ASSUME NEW s \in Seq(Entries), Forward(s), NEW e \in Entries,
           s # << >> => s[Len(s)].time < e.time
    PROVE  Forward(Append(s, e))
<1>1. PICK t : t = Append(s, e)
  OBVIOUS
<1>2. /\ Len(s) \in Nat /\ Len(t) = Len(s) + 1 /\ t[Len(s) + 1] = e
      /\ \A k \in 1 .. Len(s) : t[k] = s[k]
  BY <1>1, EntryAppended
<1>3. ASSUME NEW j \in 2 .. Len(t) PROVE t[j - 1].time < t[j].time
  <2>1. CASE j = Len(s) + 1
    <3>1. s # << >> /\ t[j - 1] = s[Len(s)] /\ t[j] = e
      BY <1>2, <2>1
    <3> QED
      BY <3>1
  <2>2. CASE j # Len(s) + 1
    <3>1. j \in 2 .. Len(s) /\ t[j - 1] = s[j - 1] /\ t[j] = s[j]
      BY <1>2, <2>2
    <3> QED
      BY <3>1 DEF Forward
  <2> QED
    BY <2>1, <2>2
<1> QED
  BY <1>1, <1>3 DEF Forward

\* The station has an entry: its own, or one in the timeline.
Shown(inc, station) ==
    \/ Derived(inc, station)
    \/ \E k \in 1 .. Len(inc.timeline) : inc.timeline[k].station = station

GroupOK(inc, station, g) ==
    /\ g \in Seq(Entries) /\ Forward(g)
    /\ \A j \in 1 .. Len(g) : g[j].station = station
    /\ g # << >> <=> Shown(inc, station)

LEMMA GroupOfStation ==
    ASSUME NEW inc, inc.timeline \in Seq(Entries),
           \A k \in 1 .. Len(inc.timeline) : inc.timeline[k].time = k,
           NEW station \in ToSet(Pipeline)
    PROVE  GroupOK(inc, station, Group(inc, station))
<1>1. PICK T : T = inc.timeline
  OBVIOUS
<1>2. PICK N : N = Len(T)
  OBVIOUS
<1>3. PICK start : start = IF Derived(inc, station) THEN <<Entry(station, 0)>> ELSE << >>
  OBVIOUS
<1>4. PICK V : V = Seq(Entries)
  OBVIOUS
<1>5. N \in Nat /\ \A k \in 1 .. N : T[k] \in Entries /\ T[k].time = k
  BY <1>1, <1>2
<1>6. /\ start \in V /\ Forward(start) /\ Len(start) \in Nat
      /\ \A j \in 1 .. Len(start) : start[j].time = 0 /\ start[j].station = station
      /\ start # << >> <=> Derived(inc, station)
  <2>1. CASE Derived(inc, station)
    <3>1. PICK e : e = Entry(station, 0)
      OBVIOUS
    <3>2. e \in Entries /\ e.time = 0 /\ e.station = station
      BY <3>1 DEF Entry, Entries
    <3>3. start = <<e>>
      BY <1>3, <2>1, <3>1
    <3>4. start \in Seq(Entries) /\ Len(start) = 1 /\ start[1] = e /\ start # << >>
      BY <3>2, <3>3
    <3> QED
      BY <1>4, <2>1, <3>2, <3>4 DEF Forward
  <2>2. CASE ~Derived(inc, station)
    BY <1>3, <1>4, <2>2 DEF Forward
  <2> QED
    BY <2>1, <2>2
<1> DEFINE Value(n, before) == IF T[n].station = station THEN Append(before, T[n]) ELSE before
           Equation(f) == f = [n \in 0 .. N |-> IF n = 0 THEN start ELSE Value(n, f[n - 1])]
<1>7. PICK step : step = [n \in 1 .. N |-> [before \in V |-> Value(n, before)]]
  OBVIOUS
<1>8. step \in [1 .. N -> [V -> V]]
  <2>1. ASSUME NEW n \in 1 .. N, NEW before \in V PROVE Value(n, before) \in V
    BY <1>4, <1>5, EntryAppended
  <2> QED
    BY <1>7, <2>1
<1> HIDE DEF Value
<1>9. PICK h \in [0 .. N -> V] : Iterates(h, N, start, step)
  <2>1. N \in Nat /\ start \in V
    BY <1>5, <1>6
  <2> QED
    BY <1>8, <2>1, Iterated
<1>10. Equation(h)
  <2>1. ASSUME NEW n \in 0 .. N PROVE h[n] = IF n = 0 THEN start ELSE Value(n, h[n - 1])
    <3>1. n # 0 => n \in 1 .. N /\ h[n - 1] \in V
      BY <1>5
    <3> QED
      BY <1>7, <1>9, <3>1 DEF Iterates
  <2>2. h = [n \in 0 .. N |-> h[n]]
    OBVIOUS
  <2> QED
    BY <2>1, <2>2
<1>11. PICK f : f = (CHOOSE g : Equation(g))
  OBVIOUS
<1>12. Group(inc, station) = f[N]
  BY <1>1, <1>2, <1>3, <1>11 DEF Group, Value
<1> HIDE DEF Equation
<1>13. Equation(f)
  BY <1>10, <1>11
<1>14. \A n \in 0 .. N : f[n] = IF n = 0 THEN start ELSE Value(n, f[n - 1])
  BY <1>13 DEF Equation
<1> DEFINE Good(n) ==
               /\ f[n] \in Seq(Entries) /\ Forward(f[n])
               /\ \A j \in 1 .. Len(f[n]) : f[n][j].station = station /\ f[n][j].time <= n
               /\ f[n] # << >> <=> Derived(inc, station) \/ \E k \in 1 .. n : T[k].station = station
           S == {n \in 0 .. N : Good(n)}
<1>15. Good(0)
  <2>1. f[0] = start
    BY <1>5, <1>14
  <2> QED
    BY <1>4, <1>6, <2>1
<1>16. ASSUME NEW n \in 1 .. N, Good(n - 1) PROVE Good(n)
  <2>1. PICK b : b = f[n - 1]
    OBVIOUS
  <2>2. /\ b \in Seq(Entries) /\ Forward(b) /\ Len(b) \in Nat
        /\ \A j \in 1 .. Len(b) : b[j].station = station /\ b[j].time <= n - 1
        /\ b # << >> <=> Derived(inc, station) \/ \E k \in 1 .. n - 1 : T[k].station = station
    BY <1>16, <2>1
  <2>3. \A j \in 1 .. Len(b) : b[j] \in Entries /\ b[j].time \in Nat
    <3>1. \A j \in 1 .. Len(b) : b[j] \in Entries
      BY <2>2
    <3> QED
      BY <3>1 DEF Entries
  <2>4. f[n] = Value(n, b)
    BY <1>5, <1>14, <2>1
  <2>5. CASE T[n].station = station
    <3>1. f[n] = Append(b, T[n])
      BY <2>4, <2>5 DEF Value
    <3>2. b # << >> => b[Len(b)].time < T[n].time
      BY <1>5, <2>2, <2>3
    <3>3. /\ f[n] \in Seq(Entries) /\ Forward(f[n]) /\ Len(f[n]) = Len(b) + 1 /\ f[n] # << >>
          /\ \A k \in 1 .. Len(b) : f[n][k] = b[k]
          /\ f[n][Len(b) + 1] = T[n]
      BY <1>5, <2>2, <3>1, <3>2, EntryAppended, ForwardAppended
    <3>4. ASSUME NEW j \in 1 .. Len(f[n]) PROVE f[n][j].station = station /\ f[n][j].time <= n
      <4>1. j = Len(b) + 1 \/ j \in 1 .. Len(b)
        BY <2>2, <3>3
      <4> QED
        BY <1>5, <2>2, <2>3, <2>5, <3>3, <4>1, SMTT(60)
    <3>5. \E k \in 1 .. n : T[k].station = station
      BY <2>5
    <3> QED
      BY <3>3, <3>4, <3>5
  <2>6. CASE T[n].station # station
    <3>1. f[n] = b
      BY <2>4, <2>6 DEF Value
    <3>2. (\E k \in 1 .. n : T[k].station = station) <=> (\E k \in 1 .. n - 1 : T[k].station = station)
      BY <2>6
    <3>3. \A j \in 1 .. Len(b) : b[j].time <= n
      BY <2>2, <2>3
    <3> QED
      BY <2>2, <3>1, <3>2, <3>3
  <2> QED
    BY <2>5, <2>6
<1>17. Good(N)
  <2>1. 0 \in S /\ \A n \in 1 .. N : n - 1 \in S => n \in S
    BY <1>5, <1>15, <1>16, SMTT(60)
  <2> HIDE DEF S
  <2>2. 0 .. N \subseteq S
    BY <1>5, <2>1, Inductive
  <2>3. N \in S
    BY <1>5, <2>2
  <2> QED
    BY <2>3 DEF S
<1> QED
  BY <1>1, <1>2, <1>12, <1>17 DEF GroupOK, Shown

LEMMA PushedForward ==
    ASSUME NEW b \in Seq(Entries), Forward(b), b # << >>, NEW e \in Entries
    PROVE  /\ Pushed(b, e) \in Seq(Entries) /\ Forward(Pushed(b, e)) /\ Pushed(b, e) # << >>
           /\ Len(b) \in Nat /\ Len(Pushed(b, e)) = Len(b) + 1
           /\ \A k \in 1 .. Len(b) : Pushed(b, e)[k] = b[k]
           /\ Pushed(b, e)[Len(b) + 1].station = e.station
<1>1. PICK last : last = Last(b)
  OBVIOUS
<1>2. last = b[Len(b)] /\ last \in Entries
  <2>1. PICK E : E = Entries
    OBVIOUS
  <2>2. b[Len(b)] \in E
    BY <2>1
  <2> QED
    BY <1>1, <2>1, <2>2 DEF Last
<1>3. PICK t : t = last.time + 1
  OBVIOUS
<1>4. last.time \in Nat /\ t \in Nat /\ last.time < t /\ e.time \in Nat
  BY <1>2, <1>3 DEF Entries
<1>5. PICK moved : moved = IF e.time <= last.time THEN [e EXCEPT !.time = t] ELSE e
  OBVIOUS
<1>6. moved \in Entries /\ moved.station = e.station /\ last.time < moved.time
  <2>1. [e EXCEPT !.time = t] \in Entries /\ [e EXCEPT !.time = t].station = e.station
        /\ [e EXCEPT !.time = t].time = t
    BY <1>4 DEF Entries
  <2> QED
    BY <1>4, <1>5, <2>1
<1>7. Pushed(b, e) = Append(b, moved)
  BY <1>1, <1>3, <1>5 DEF Pushed
<1> QED
  BY <1>2, <1>6, <1>7, EntryAppended, ForwardAppended

\* R is steps and then chunk, in time.
Stitched(steps, chunk, R) ==
    /\ R \in Seq(Entries) /\ Forward(R)
    /\ Len(R) = Len(steps) + Len(chunk)
    /\ \A j \in 1 .. Len(steps) : R[j].station = steps[j].station
    /\ \A j \in 1 .. Len(chunk) : R[Len(steps) + j].station = chunk[j].station

LEMMA StitchInTime ==
    ASSUME NEW steps \in Seq(Entries), Forward(steps), NEW chunk \in Seq(Entries), Forward(chunk)
    PROVE  Stitched(steps, chunk, Stitch(steps, chunk))
<1>1. CASE steps = << >>
  <2>1. Stitch(steps, chunk) = chunk
    BY <1>1 DEF Stitch
  <2>2. Len(steps) = 0 /\ Len(chunk) \in Nat /\ \A j \in 1 .. Len(chunk) : Len(steps) + j = j
    BY <1>1
  <2> QED
    BY <2>1, <2>2 DEF Stitched
<1>2. CASE steps # << >>
  <2>1. PICK N : N = Len(chunk)
    OBVIOUS
  <2>2. N \in Nat /\ \A n \in 1 .. N : chunk[n] \in Entries
    <3>1. PICK E : E = Entries
      OBVIOUS
    <3>2. N \in Nat /\ \A n \in 1 .. N : chunk[n] \in E
      BY <2>1, <3>1
    <3> QED
      BY <3>1, <3>2
  <2>3. PICK V : V = {b \in Seq(Entries) : b # << >> /\ Forward(b)}
    OBVIOUS
  <2>4. steps \in V
    BY <1>2, <2>3
  <2> DEFINE Equation(f) == f = [n \in 0 .. N |-> IF n = 0 THEN steps ELSE Pushed(f[n - 1], chunk[n])]
  <2>5. PICK step : step = [n \in 1 .. N |-> [b \in V |-> Pushed(b, chunk[n])]]
    OBVIOUS
  <2>6. step \in [1 .. N -> [V -> V]]
    <3>1. ASSUME NEW n \in 1 .. N, NEW b \in V PROVE Pushed(b, chunk[n]) \in V
      BY <2>2, <2>3, PushedForward
    <3> QED
      BY <2>5, <3>1
  <2>7. PICK h \in [0 .. N -> V] : Iterates(h, N, steps, step)
    BY <2>2, <2>4, <2>6, Iterated
  <2>8. Equation(h)
    <3>1. ASSUME NEW n \in 0 .. N PROVE h[n] = IF n = 0 THEN steps ELSE Pushed(h[n - 1], chunk[n])
      <4>1. n # 0 => n \in 1 .. N /\ h[n - 1] \in V
        BY <2>2
      <4> QED
        BY <2>5, <2>7, <4>1 DEF Iterates
    <3>2. h = [n \in 0 .. N |-> h[n]]
      OBVIOUS
    <3> QED
      BY <3>1, <3>2
  <2>9. PICK f : f = (CHOOSE g : Equation(g))
    OBVIOUS
  <2>10. Stitch(steps, chunk) = f[N]
    BY <1>2, <2>1, <2>9 DEF Stitch
  <2> HIDE DEF Equation
  <2>11. Equation(f)
    BY <2>8, <2>9
  <2>12. \A n \in 0 .. N : f[n] = IF n = 0 THEN steps ELSE Pushed(f[n - 1], chunk[n])
    BY <2>11 DEF Equation
  <2>13. PICK L : L = Len(steps)
    OBVIOUS
  <2> DEFINE Good(n) ==
                 /\ f[n] \in Seq(Entries) /\ Forward(f[n]) /\ f[n] # << >>
                 /\ Len(f[n]) = L + n
                 /\ \A j \in 1 .. L : f[n][j].station = steps[j].station
                 /\ \A j \in 1 .. n : f[n][L + j].station = chunk[j].station
             S == {n \in 0 .. N : Good(n)}
  <2>14. L \in Nat
    BY <2>13
  <2>15. Good(0)
    <3>1. f[0] = steps
      BY <2>2, <2>12
    <3> QED
      BY <1>2, <2>13, <2>14, <3>1
  <2>16. ASSUME NEW n \in 1 .. N, Good(n - 1) PROVE Good(n)
    <3>1. PICK b : b = f[n - 1]
      OBVIOUS
    <3>2. /\ b \in Seq(Entries) /\ Forward(b) /\ b # << >> /\ Len(b) = L + (n - 1)
          /\ \A j \in 1 .. L : b[j].station = steps[j].station
          /\ \A j \in 1 .. n - 1 : b[L + j].station = chunk[j].station
      BY <2>16, <3>1
    <3>3. PICK t : t = f[n]
      OBVIOUS
    <3>4. t = Pushed(b, chunk[n])
      BY <2>2, <2>12, <3>1, <3>3
    <3>5. /\ t \in Seq(Entries) /\ Forward(t) /\ t # << >> /\ Len(t) = Len(b) + 1
          /\ \A k \in 1 .. Len(b) : t[k] = b[k]
          /\ t[Len(b) + 1].station = chunk[n].station
      BY <2>2, <3>2, <3>4, PushedForward
    <3>6. Len(t) = L + n /\ Len(b) + 1 = L + n
      BY <2>14, <3>2, <3>5
    <3>7. ASSUME NEW j \in 1 .. L PROVE t[j].station = steps[j].station
      <4>1. j \in 1 .. Len(b)
        BY <2>14, <3>2
      <4> QED
        BY <3>2, <3>5, <4>1
    <3>8. ASSUME NEW j \in 1 .. n PROVE t[L + j].station = chunk[j].station
      <4>1. CASE j = n
        BY <3>5, <3>6, <4>1
      <4>2. CASE j # n
        <5>1. j \in 1 .. n - 1 /\ L + j \in 1 .. Len(b)
          BY <2>14, <3>2, <4>2
        <5> QED
          BY <3>2, <3>5, <5>1
      <4> QED
        BY <4>1, <4>2
    <3> QED
      BY <3>3, <3>5, <3>6, <3>7, <3>8
  <2>17. Good(N)
    <3> HIDE DEF Good
    <3>1. 0 \in S /\ \A n \in 1 .. N : n - 1 \in S => n \in S
      BY <2>2, <2>15, <2>16
    <3> HIDE DEF S
    <3>2. 0 .. N \subseteq S
      BY <2>2, <3>1, Inductive
    <3>3. N \in S
      BY <2>2, <3>2
    <3> QED
      BY <3>3 DEF S
  <2> QED
    BY <2>1, <2>10, <2>13, <2>17 DEF Stitched
<1> QED
  BY <1>1, <1>2

LEMMA PipelineLength == Len(Pipeline) = 12 /\ DOMAIN Pipeline = 1 .. 12
BY DEF Pipeline

\* No station comes twice.
LEMMA StationsDiffer == \A i, j \in 1 .. 12 : Pipeline[i] = Pipeline[j] => i = j
BY DEF Pipeline

LEMMA Positions ==
    /\ \A k \in 1 .. 12 : Pipeline[k] \in ToSet(Pipeline) /\ Position(Pipeline[k]) = k
    /\ \A station \in ToSet(Pipeline) : \E k \in 1 .. 12 : station = Pipeline[k]
<1>1. ASSUME NEW k \in 1 .. 12 PROVE Position(Pipeline[k]) = k
  <2>1. PICK p : p = Position(Pipeline[k])
    OBVIOUS
  <2>2. \E j \in 1 .. 12 : Pipeline[j] = Pipeline[k]
    OBVIOUS
  <2>3. p \in 1 .. 12 /\ Pipeline[p] = Pipeline[k]
    BY <2>1, <2>2, PipelineLength DEF Position
  <2> QED
    BY <2>1, <2>3, StationsDiffer
<1> QED
  BY <1>1, PipelineLength DEF ToSet

\* R shows the first n stations of the pipeline, in order.
ReplayOK(inc, R, n) ==
    /\ R \in Seq(Entries) /\ Forward(R)
    /\ \A j \in 1 .. Len(R) : Position(R[j].station) <= n
    /\ \A i, j \in 1 .. Len(R) : i <= j => Position(R[i].station) <= Position(R[j].station)
    /\ \A m \in 1 .. 12 : Pipeline[m] \in Stations(R) <=> m <= n /\ Shown(inc, Pipeline[m])

LEMMA EntryAt ==
    ASSUME NEW s \in Seq(Entries)
    PROVE  /\ Len(s) \in Nat
           /\ DOMAIN s = 1 .. Len(s)
           /\ \A j \in 1 .. Len(s) : \E m \in 1 .. 12 : s[j].station = Pipeline[m]
<1>1. PICK E : E = Entries
  OBVIOUS
<1>2. Len(s) \in Nat /\ DOMAIN s = 1 .. Len(s) /\ \A j \in 1 .. Len(s) : s[j] \in E
  BY <1>1
<1>3. ASSUME NEW j \in 1 .. Len(s) PROVE \E m \in 1 .. 12 : s[j].station = Pipeline[m]
  <2>1. s[j].station \in ToSet(Pipeline)
    BY <1>1, <1>2 DEF Entries
  <2> QED
    BY <2>1, Positions
<1> QED
  BY <1>2, <1>3

LEMMA StitchFollows ==
    ASSUME NEW inc, NEW n \in 1 .. 12, NEW B, ReplayOK(inc, B, n - 1),
           NEW G, GroupOK(inc, Pipeline[n], G)
    PROVE  ReplayOK(inc, Stitch(B, G), n)
<1>1. PICK R : R = Stitch(B, G)
  OBVIOUS
<1>2. B \in Seq(Entries) /\ Forward(B) /\ G \in Seq(Entries) /\ Forward(G)
  BY DEF ReplayOK, GroupOK
<1>3. Stitched(B, G, R)
  BY <1>1, <1>2, StitchInTime
<1>4. /\ Len(B) \in Nat /\ Len(G) \in Nat /\ Len(R) = Len(B) + Len(G)
      /\ R \in Seq(Entries) /\ Forward(R)
  BY <1>2, <1>3, EntryAt DEF Stitched
<1>5. \A j \in 1 .. Len(B) : R[j].station = B[j].station
  BY <1>3 DEF Stitched
<1>6. \A j \in 1 .. Len(G) : R[Len(B) + j].station = Pipeline[n]
  BY <1>3 DEF Stitched, GroupOK
<1>7. ASSUME NEW j \in 1 .. Len(R)
      PROVE  \/ j \in 1 .. Len(B)
             \/ R[j].station = Pipeline[n] /\ j > Len(B)
  <2>1. CASE j \in 1 .. Len(B)
    BY <2>1
  <2>2. CASE j \notin 1 .. Len(B)
    <3>1. PICK i : i = j - Len(B)
      OBVIOUS
    <3>2. i \in 1 .. Len(G) /\ j = Len(B) + i /\ j > Len(B)
      BY <1>4, <2>2, <3>1
    <3> QED
      BY <1>6, <3>2
  <2> QED
    BY <2>1, <2>2
<1>8. Position(Pipeline[n]) = n
  BY Positions
<1>9. \A j \in 1 .. Len(B) : Position(B[j].station) \in 1 .. n - 1
  <2>1. TAKE j \in 1 .. Len(B)
  <2>2. PICK m \in 1 .. 12 : B[j].station = Pipeline[m]
    BY <1>2, EntryAt
  <2>3. Position(B[j].station) = m
    BY <2>2, Positions
  <2>4. Position(B[j].station) <= n - 1
    BY DEF ReplayOK
  <2> QED
    BY <2>3, <2>4
<1>10. \A j \in 1 .. Len(R) : Position(R[j].station) <= n
  <2>1. TAKE j \in 1 .. Len(R)
  <2>2. CASE j \in 1 .. Len(B)
    <3>1. Position(R[j].station) \in 1 .. n - 1
      BY <1>5, <1>9, <2>2
    <3> QED
      BY <3>1
  <2>3. CASE R[j].station = Pipeline[n]
    BY <1>8, <2>3
  <2> QED
    BY <1>7, <2>2, <2>3
<1>11. ASSUME NEW i \in 1 .. Len(R), NEW j \in 1 .. Len(R), i <= j
       PROVE  Position(R[i].station) <= Position(R[j].station)
  <2>1. CASE R[j].station = Pipeline[n]
    BY <1>8, <1>10, <2>1
  <2>2. CASE j \in 1 .. Len(B)
    <3>1. i \in 1 .. Len(B)
      BY <1>4, <1>11, <2>2
    <3>2. Position(B[i].station) <= Position(B[j].station)
      BY <1>11, <2>2, <3>1 DEF ReplayOK
    <3> QED
      BY <1>5, <2>2, <3>1, <3>2
  <2> QED
    BY <1>7, <2>1, <2>2
<1>12. ASSUME NEW m \in 1 .. 12
       PROVE  Pipeline[m] \in Stations(R) <=> m <= n /\ Shown(inc, Pipeline[m])
  <2>1. Pipeline[m] \in Stations(R) <=> \E j \in 1 .. Len(R) : R[j].station = Pipeline[m]
    BY <1>4, EntryAt DEF Stations
  <2>2. Pipeline[m] \in Stations(B) <=> \E j \in 1 .. Len(B) : B[j].station = Pipeline[m]
    BY <1>2, EntryAt DEF Stations
  <2>3. Pipeline[m] \in Stations(B) <=> m <= n - 1 /\ Shown(inc, Pipeline[m])
    BY DEF ReplayOK
  <2>4. G # << >> <=> Shown(inc, Pipeline[n])
    BY DEF GroupOK
  <2>5. G # << >> <=> Len(G) >= 1
    BY <1>2, <1>4
  <2>6. CASE m = n
    <3>1. ASSUME NEW j \in 1 .. Len(R), R[j].station = Pipeline[n] PROVE Len(G) >= 1
      <4>1. j \notin 1 .. Len(B)
        <5>1. SUFFICES ASSUME j \in 1 .. Len(B) PROVE FALSE
          OBVIOUS
        <5>2. Position(B[j].station) = n
          BY <1>5, <1>8, <3>1, <5>1
        <5> QED
          BY <1>9, <5>1, <5>2
      <4> QED
        BY <1>4, <4>1
    <3>2. ASSUME Len(G) >= 1 PROVE \E j \in 1 .. Len(R) : R[j].station = Pipeline[n]
      <4>1. Len(B) + 1 \in 1 .. Len(R) /\ 1 \in 1 .. Len(G)
        BY <1>4, <3>2
      <4> QED
        BY <1>6, <4>1
    <3> QED
      BY <2>1, <2>4, <2>5, <2>6, <3>1, <3>2
  <2>7. CASE m # n
    <3>1. Pipeline[m] # Pipeline[n]
      BY <2>7, StationsDiffer
    <3>2. Pipeline[m] \in Stations(R) <=> Pipeline[m] \in Stations(B)
      <4>1. ASSUME NEW j \in 1 .. Len(R), R[j].station = Pipeline[m]
            PROVE  \E i \in 1 .. Len(B) : B[i].station = Pipeline[m]
        BY <1>5, <1>7, <3>1, <4>1
      <4>2. ASSUME NEW j \in 1 .. Len(B), B[j].station = Pipeline[m]
            PROVE  \E i \in 1 .. Len(R) : R[i].station = Pipeline[m]
        <5>1. j \in 1 .. Len(R)
          BY <1>4
        <5> QED
          BY <1>5, <4>2, <5>1
      <4> QED
        BY <2>1, <2>2, <4>1, <4>2
    <3>3. m <= n - 1 <=> m <= n
      BY <2>7
    <3> QED
      BY <2>3, <3>2, <3>3
  <2> QED
    BY <2>6, <2>7
<1> QED
  BY <1>1, <1>4, <1>10, <1>11, <1>12 DEF ReplayOK

LEMMA ReplayFollows ==
    ASSUME NEW inc, inc.timeline \in Seq(Entries),
           \A k \in 1 .. Len(inc.timeline) : inc.timeline[k].time = k
    PROVE  ReplayOK(inc, Replay(inc), 12)
<1>1. PICK group : group = [n \in 1 .. 12 |-> Group(inc, Pipeline[n])]
  OBVIOUS
<1>2. \A n \in 1 .. 12 : group[n] = Group(inc, Pipeline[n]) /\ GroupOK(inc, Pipeline[n], group[n])
  BY <1>1, Positions, GroupOfStation
<1>3. PICK V : V = {b \in Seq(Entries) : Forward(b)}
  OBVIOUS
<1>4. << >> \in V /\ \A n \in 1 .. 12 : group[n] \in Seq(Entries) /\ Forward(group[n])
  <2>1. << >> \in Seq(Entries) /\ Forward(<< >>)
    BY DEF Forward
  <2> QED
    BY <1>2, <1>3, <2>1 DEF GroupOK
<1> DEFINE Value(n, before) == Stitch(before, Group(inc, Pipeline[n]))
           Equation(f) == f = [n \in 0 .. Len(Pipeline) |-> IF n = 0 THEN << >> ELSE Value(n, f[n - 1])]
<1>5. PICK step : step = [n \in 1 .. 12 |-> [before \in V |-> Value(n, before)]]
  OBVIOUS
<1>6. step \in [1 .. 12 -> [V -> V]]
  <2>1. ASSUME NEW n \in 1 .. 12, NEW before \in V PROVE Value(n, before) \in V
    BY <1>2, <1>3, <1>4, StitchInTime DEF Stitched
  <2> QED
    BY <1>5, <2>1
<1> HIDE DEF Value
<1>7. PICK h \in [0 .. 12 -> V] : Iterates(h, 12, << >>, step)
  <2>1. PICK N : N = 12
    OBVIOUS
  <2>2. PICK start : start = << >>
    OBVIOUS
  <2>3. N \in Nat /\ start \in V /\ step \in [1 .. N -> [V -> V]]
    BY <1>4, <1>6, <2>1, <2>2
  <2>4. \E g \in [0 .. N -> V] : Iterates(g, N, start, step)
    BY <2>3, Iterated
  <2> QED
    BY <2>1, <2>2, <2>4
<1>8. Equation(h)
  <2>1. ASSUME NEW n \in 0 .. 12 PROVE h[n] = IF n = 0 THEN << >> ELSE Value(n, h[n - 1])
    <3>1. n # 0 => n \in 1 .. 12 /\ h[n - 1] \in V
      OBVIOUS
    <3> QED
      BY <1>5, <1>7, <3>1 DEF Iterates
  <2>2. h = [n \in 0 .. 12 |-> h[n]]
    OBVIOUS
  <2> QED
    BY <2>1, <2>2, PipelineLength
<1>9. PICK f : f = (CHOOSE g : Equation(g))
  OBVIOUS
<1>10. Replay(inc) = f[12]
  BY <1>9, PipelineLength DEF Replay, Value
<1> HIDE DEF Equation
<1>11. Equation(f)
  BY <1>8, <1>9
<1>12. \A n \in 0 .. 12 : f[n] = IF n = 0 THEN << >> ELSE Value(n, f[n - 1])
  BY <1>11, PipelineLength DEF Equation
<1> DEFINE S == {n \in 0 .. 12 : ReplayOK(inc, f[n], n)}
<1>13. ReplayOK(inc, f[0], 0)
  <2>1. f[0] = << >>
    BY <1>12
  <2>2. \A m \in 1 .. 12 : ~(m <= 0)
    OBVIOUS
  <2>3. Stations(<< >>) = {}
    BY DEF Stations
  <2>4. << >> \in Seq(Entries) /\ Forward(<< >>) /\ Len(<< >>) = 0
    BY DEF Forward
  <2> QED
    BY <2>1, <2>2, <2>3, <2>4 DEF ReplayOK
<1>14. ASSUME NEW n \in 1 .. 12, ReplayOK(inc, f[n - 1], n - 1) PROVE ReplayOK(inc, f[n], n)
  <2>1. f[n] = Stitch(f[n - 1], group[n])
    BY <1>2, <1>12, SMTT(60) DEF Value
  <2> QED
    BY <1>2, <1>14, <2>1, StitchFollows, ZenonT(60)
<1>15. 0 \in S /\ \A n \in 1 .. 12 : n - 1 \in S => n \in S
  BY <1>13, <1>14
<1>16. 0 .. 12 \subseteq S
  <2> HIDE DEF S
  <2>1. PICK N : N = 12
    OBVIOUS
  <2>2. N \in Nat /\ \A n \in 1 .. N : n - 1 \in S => n \in S
    BY <1>15, <2>1
  <2>3. 0 .. N \subseteq S
    BY <1>15, <2>2, Inductive
  <2> QED
    BY <2>1, <2>3
<1>17. 12 \in S
  BY <1>16
<1> QED
  BY <1>10, <1>17

\* The last station is the furthest one that is shown.
LEMMA LastShown ==
    ASSUME NEW inc, NEW R, ReplayOK(inc, R, 12), NEW m \in 1 .. 12, Shown(inc, Pipeline[m]),
           \A k \in 1 .. 12 : k > m => ~Shown(inc, Pipeline[k])
    PROVE  Last(R).station = Pipeline[m]
<1>1. /\ R \in Seq(Entries) /\ Len(R) \in Nat /\ DOMAIN R = 1 .. Len(R)
      /\ \A j \in 1 .. Len(R) : \E k \in 1 .. 12 : R[j].station = Pipeline[k]
  BY EntryAt DEF ReplayOK
<1>2. \A k \in 1 .. 12 : Pipeline[k] \in Stations(R) <=> Shown(inc, Pipeline[k])
  BY DEF ReplayOK
<1>3. PICK j \in 1 .. Len(R) : R[j].station = Pipeline[m]
  <2>1. Pipeline[m] \in Stations(R)
    BY <1>2
  <2> QED
    BY <1>1, <2>1 DEF Stations
<1>4. PICK n : n = Len(R)
  OBVIOUS
<1>5. n \in 1 .. Len(R) /\ j <= n
  BY <1>1, <1>4
<1>6. PICK k \in 1 .. 12 : R[n].station = Pipeline[k]
  BY <1>1, <1>5
<1>7. Shown(inc, Pipeline[k])
  BY <1>1, <1>2, <1>5, <1>6 DEF Stations
<1>8. ~(k > m)
  BY <1>7
<1>9. Position(R[j].station) <= Position(R[n].station)
  BY <1>5 DEF ReplayOK
<1>10. m <= k
  BY <1>3, <1>6, <1>9, Positions
<1>11. k = m
  BY <1>8, <1>10
<1> QED
  BY <1>4, <1>6, <1>11 DEF Last

LEMMA TimedEntries ==
    ASSUME NEW t \in Seq(Noted)
    PROVE  /\ Timed(t) \in Seq(Entries) /\ Len(Timed(t)) = Len(t) /\ Len(t) \in Nat
           /\ \A k \in 1 .. Len(t) : Timed(t)[k].time = k /\ Timed(t)[k].station = t[k]
           /\ \A k \in 1 .. Len(t) : t[k] \in Noted
           /\ DOMAIN t = 1 .. Len(t)
<1>1. PICK S : S = Noted
  OBVIOUS
<1>2. Len(t) \in Nat /\ DOMAIN t = 1 .. Len(t) /\ \A k \in 1 .. Len(t) : t[k] \in S
  BY <1>1
<1>3. \A k \in 1 .. Len(t) : Entry(t[k], k) \in Entries /\ Entry(t[k], k).time = k
                            /\ Entry(t[k], k).station = t[k]
  BY <1>1, <1>2 DEF Entry, Entries, Noted
<1>4. Timed(t) = [k \in 1 .. Len(t) |-> Entry(t[k], k)]
  BY <1>2 DEF Timed
<1>5. Timed(t) \in Seq(Entries) /\ Len(Timed(t)) = Len(t)
  <2>1. PICK E : E = Entries
    OBVIOUS
  <2>2. Timed(t) \in [1 .. Len(t) -> E]
    BY <1>3, <1>4, <2>1
  <2>3. Timed(t) \in Seq(E)
    BY <1>2, <2>2
  <2>4. DOMAIN Timed(t) = 1 .. Len(t)
    BY <1>4
  <2> QED
    BY <1>2, <2>1, <2>3, <2>4
<1> QED
  BY <1>1, <1>2, <1>3, <1>4, <1>5

LEMMA IncidentInOrder ==
    ASSUME NEW inc, Recorded(inc), Awaited(inc)
    PROVE  InOrder(inc, Replay([inc EXCEPT !.timeline = Timed(@)]))
<1>1. PICK t : t = Timed(inc.timeline)
  OBVIOUS
<1>2. PICK r : r = [inc EXCEPT !.timeline = Timed(@)]
  OBVIOUS
<1>3. r.timeline = t /\ r.status = inc.status /\ r.approval = inc.approval
  <2>1. PICK shape : shape = [type |-> inc.type, resource |-> inc.resource, status |-> inc.status,
                              approval |-> inc.approval, plan |-> inc.plan, policy |-> inc.policy,
                              timeline |-> inc.timeline]
    OBVIOUS
  <2>2. inc = shape
    BY <2>1, RecordedFields
  <2>3. r = [inc EXCEPT !.timeline = t]
    BY <1>1, <1>2
  <2> QED
    BY <2>1, <2>2, <2>3
<1>4. /\ t \in Seq(Entries) /\ Len(t) = Len(inc.timeline) /\ Len(t) \in Nat
      /\ \A k \in 1 .. Len(t) : t[k].time = k /\ t[k].station = inc.timeline[k]
      /\ \A k \in 1 .. Len(t) : inc.timeline[k] \in Noted
      /\ DOMAIN inc.timeline = 1 .. Len(t)
  BY <1>1, RecordedFields, TimedEntries
<1>5. PICK R : R = Replay(r)
  OBVIOUS
<1>6. ReplayOK(r, R, 12)
  BY <1>3, <1>4, <1>5, ReplayFollows
<1>7. \A station : Shown(r, station) <=> Derived(r, station) \/ station \in ToSet(inc.timeline)
  BY <1>3, <1>4 DEF Shown, ToSet
<1>8. \A station \in ToSet(inc.timeline) : station \in Noted
  BY <1>4 DEF ToSet
<1>9. \A m \in 1 .. 12 : Pipeline[m] \in Stations(R) <=> Shown(r, Pipeline[m])
  BY <1>6 DEF ReplayOK
<1>10. /\ Pipeline[9] = "approval" /\ Pipeline[10] = "execute" /\ Pipeline[11] = "verify"
       /\ Pipeline[12] = "finalize"
  BY DEF Pipeline
<1>11. "approval" \notin Noted /\ "finalize" \notin Noted
  BY DEF Noted
<1>12. \A j \in 2 .. Len(R) :
          /\ R[j - 1].time < R[j].time
          /\ Position(R[j - 1].station) <= Position(R[j].station)
  <2>1. TAKE j \in 2 .. Len(R)
  <2>2. Len(R) \in Nat /\ Forward(R)
    BY <1>6, EntryAt DEF ReplayOK
  <2>3. j - 1 \in 1 .. Len(R) /\ j \in 1 .. Len(R) /\ j - 1 <= j
    BY <2>2
  <2>4. Position(R[j - 1].station) <= Position(R[j].station)
    BY <1>6, <2>3 DEF ReplayOK
  <2> QED
    BY <2>2, <2>4 DEF Forward
<1>13. ToSet(inc.timeline) \subseteq Stations(R)
  <2>1. ASSUME NEW s \in ToSet(inc.timeline) PROVE s \in Stations(R)
    <3>1. PICK m \in 1 .. 12 : s = Pipeline[m]
      BY <1>8, Positions DEF Noted
    <3> QED
      BY <1>7, <1>9, <3>1
  <2> QED
    BY <2>1
<1>14. ASSUME inc.status \in Resolved PROVE Last(R).station = "finalize"
  <2>1. Shown(r, Pipeline[12])
    BY <1>3, <1>7, <1>10, <1>14 DEF Derived
  <2>2. \A k \in 1 .. 12 : ~(k > 12)
    OBVIOUS
  <2>3. Last(R).station = Pipeline[12]
    BY <1>6, <2>1, <2>2, LastShown
  <2> QED
    BY <1>10, <2>3
<1>15. ASSUME inc.status = "AWAITING_APPROVAL",
              {"execute", "verify"} \intersect ToSet(inc.timeline) = {}
       PROVE  Last(R).station = "approval"
  <2>1. Shown(r, Pipeline[9])
    <3>1. "PENDING" # "NOT_REQUIRED"
      OBVIOUS
    <3> QED
      BY <1>3, <1>7, <1>10, <1>15, <3>1 DEF Derived, ShowsApproval, Awaited
  <2>2. ~Shown(r, Pipeline[10]) /\ ~Shown(r, Pipeline[11])
    BY <1>7, <1>10, <1>15 DEF Derived
  <2>3. ~Shown(r, Pipeline[12])
    BY <1>3, <1>7, <1>8, <1>10, <1>11, <1>15 DEF Derived, Resolved
  <2>4. \A k \in 1 .. 12 : k > 9 => k = 10 \/ k = 11 \/ k = 12
    OBVIOUS
  <2>5. \A k \in 1 .. 12 : k > 9 => ~Shown(r, Pipeline[k])
    BY <2>2, <2>3, <2>4
  <2>6. Last(R).station = Pipeline[9]
    BY <1>6, <2>1, <2>5, LastShown
  <2> QED
    BY <1>10, <2>6
<1>16. ASSUME inc.approval = "NOT_REQUIRED" PROVE "approval" \notin Stations(R)
  <2>1. ~Shown(r, Pipeline[9])
    BY <1>3, <1>7, <1>8, <1>10, <1>11, <1>16 DEF Derived, ShowsApproval
  <2> QED
    BY <1>9, <1>10, <2>1
<1> QED
  BY <1>2, <1>5, <1>12, <1>13, <1>14, <1>15, <1>16 DEF InOrder

-----------------------------------------------------------------------------
(* What the invariant says.                                                *)

LEMMA ShippedNames ==
    /\ [k \in DOMAIN Shipped |-> Shipped[k].name] = [k \in DOMAIN AllRestarted |-> AllRestarted[k].name]
BY ShippedPods, RestartedAsShipped

LEMMA InvTypeOK == DemoInv => DemoTypeOK
<1> SUFFICES ASSUME DemoInv
             PROVE  DemoTypeOK
  OBVIOUS
<1>1. ClusterOK(cluster) /\ IncidentsOK(incidents, cluster) /\ FindingsOK(findings, cluster, seeded)
  BY DemoInvParts
<1>2. DOMAIN InitialCluster.deployment \subseteq DOMAIN cluster.deployment
  BY <1>1, ClusterParts
<1>3. \A d \in DOMAIN cluster.deployment :
         cluster.deployment[d].available \in 0 .. cluster.deployment[d].replicas
  <2>1. TAKE d \in DOMAIN cluster.deployment
  <2>2. PICK s : s = cluster.deployment[d]
    OBVIOUS
  <2>3. s \in [replicas : Nat \ {0}, ready : Nat, available : Nat] /\ s.available <= s.replicas
    BY <1>1, <2>2, ClusterParts
  <2>4. s.available \in Nat /\ s.replicas \in Nat
    BY <2>3
  <2> QED
    BY <2>2, <2>3, <2>4
<1>4. [k \in DOMAIN cluster.pods |-> cluster.pods[k].name]
         = [k \in DOMAIN InitialCluster.pods |-> InitialCluster.pods[k].name]
  BY <1>1, ClusterParts, ShippedNames DEF Shipped
<1>5. cluster.bindings \subseteq InitialCluster.bindings
  BY <1>1, ClusterParts
<1>6. ASSUME NEW k \in DOMAIN incidents
      PROVE  /\ incidents[k].type \in IncidentTypes
             /\ incidents[k].status \in Statuses \ {"DETECTED"}
             /\ incidents[k].approval \in {"NOT_REQUIRED", "PENDING", "APPROVED", "REJECTED"}
             /\ incidents[k].policy.decision \in Decisions
             /\ ToSet(incidents[k].timeline) \subseteq ToSet(Pipeline)
  <2>1. PICK inc : inc = incidents[k]
    OBVIOUS
  <2>2. IncidentOK(inc, cluster)
    BY <1>1, <2>1 DEF IncidentsOK
  <2>3. /\ inc.type \in IncidentTypes /\ inc.status \in Statuses \ {"DETECTED"}
        /\ inc.approval \in Approvals /\ inc.timeline \in Seq(Noted)
    BY <2>2, RecordedFields DEF IncidentOK
  <2>4. inc.policy.decision \in Decisions
    BY <2>2, EvaluateKeepsPlan DEF IncidentOK, Planned
  <2>5. ToSet(inc.timeline) \subseteq ToSet(Pipeline)
    <3>1. PICK S : S = Noted
      OBVIOUS
    <3>2. inc.timeline \in Seq(S)
      BY <2>3, <3>1
    <3>3. \A j \in DOMAIN inc.timeline : inc.timeline[j] \in S
      BY <3>2
    <3>4. S \subseteq ToSet(Pipeline)
      BY <3>1 DEF Noted
    <3> QED
      BY <3>3, <3>4 DEF ToSet
  <2> QED
    BY <2>1, <2>3, <2>4, <2>5 DEF Approvals
<1>7. ASSUME NEW k \in DOMAIN findings
      PROVE  /\ findings[k].source \in {"scan"} \union DOMAIN LabScenarios
             /\ findings[k].status \in {"OPEN", "AWAITING_APPROVAL", "REMEDIATED", "VERIFICATION_FAILED"}
  BY <1>1 DEF FindingsOK, FindingOK
<1> QED
  BY <1>2, <1>3, <1>4, <1>5, <1>6, <1>7 DEF DemoTypeOK

LEMMA InvHint == ShippedAllowLists /\ DemoInv => HintIsDecision
<1> SUFFICES ASSUME ShippedAllowLists, DemoInv
             PROVE  HintIsDecision
  OBVIOUS
<1>1. FindingsOK(findings, cluster, seeded)
  BY DemoInvParts
<1>2. ASSUME NEW k \in DOMAIN findings
      PROVE  /\ FindingOK(findings[k], cluster)
             /\ findings[k].decision = IF findings[k].spec.layer = "application" THEN "AUTO" ELSE "APPROVAL_REQUIRED"
  <2>1. FindingOK(findings[k], cluster)
    BY <1>1 DEF FindingsOK
  <2> QED
    BY <2>1, FindingProposed, FindingFields, AutoFinding
<1>3. \A k \in DOMAIN findings :
         findings[k].source # "scan" => findings[k].decision = DecisionHint(findings[k].source)
  <2>1. SUFFICES ASSUME NEW k \in DOMAIN findings, findings[k].source # "scan"
                 PROVE  findings[k].decision = DecisionHint(findings[k].source)
    OBVIOUS
  <2>2. findings[k].spec = LabScenarios[findings[k].source]
    BY <1>2, <2>1 DEF FindingOK
  <2> QED
    BY <1>2, <2>2 DEF DecisionHint
<1>4. {k \in DOMAIN findings : findings[k].source = "scan" /\ findings[k].decision = "AUTO"}
        = Unattended(findings)
  <2>1. ASSUME NEW k \in DOMAIN findings, findings[k].source = "scan"
        PROVE  findings[k].decision = "AUTO" <=> findings[k].spec = SeedSpecs[1]
    <3>1. PICK j \in 1 .. 14 : findings[k].spec = SeedSpecs[j]
      BY <1>2, <2>1, SeedSpecsProposed, ZenonT(60) DEF FindingOK, ToSet
    <3>2. SeedSpecs[j].layer = "application" <=> j = 1
      BY SeedSpecsProposed
    <3>3. SeedSpecs[j] = SeedSpecs[1] <=> j = 1
      BY <3>2, SeedSpecsProposed
    <3> QED
      BY <1>2, <3>1, <3>2, <3>3
  <2> QED
    BY <2>1 DEF Unattended
<1>5. seeded => Cardinality(Unattended(findings)) = 1
  <2>1. SUFFICES ASSUME seeded PROVE Cardinality(Unattended(findings)) = 1
    OBVIOUS
  <2>2. PICK k : Unattended(findings) = {k}
    BY <1>1, <2>1 DEF FindingsOK
  <2> QED
    BY <2>2, FS_Singleton
<1> QED
  BY <1>3, <1>4, <1>5 DEF HintIsDecision

-----------------------------------------------------------------------------
(* Theorems.                                                               *)

\* The state of the demonstration is well-formed, whatever is requested.
THEOREM DemoTypes == Spec => []DemoTypeOK
BY DemoInvariant, InvTypeOK, PTL

\* What the tools call remediated, the detector never reports again.
THEOREM CureIsLasting == Spec => []RemediatedIsCured
<1>1. DemoInv => RemediatedIsCured
  BY DEF DemoInv, IncidentOK, Cured, RemediatedIsCured
<1> QED
  BY <1>1, DemoInvariant, PTL

\* Whatever the catalogue proposes is found done, in whatever order it is done.
THEOREM CatalogueVerifies == Spec => []EveryRemediationVerifies
<1>1. DemoInv => EveryRemediationVerifies
  <2>1. SUFFICES ASSUME DemoInv PROVE EveryRemediationVerifies
    OBVIOUS
  <2>2. ClusterOK(cluster) /\ \A k \in DOMAIN findings : FindingOK(findings[k], cluster)
    BY <2>1 DEF DemoInv
  <2>3. DeploymentState(cluster, "crash-demo").replicas = CrashReplicas(cluster)
    BY <2>2, CrashHasReplicas
  <2>4. ~(1 > 1)
    OBVIOUS
  <2> QED
    BY <2>2, <2>3, <2>4 DEF EveryRemediationVerifies, FindingOK
<1> QED
  BY <1>1, DemoInvariant, PTL

\* The logs and the detector tell one story about every reachable cluster.
THEOREM OneStory == Spec => []LogsMirrorCluster
<1>1. DemoInv => LogsMirrorCluster
  BY LogsMirror DEF DemoInv, LogsMirrorCluster
<1> QED
  BY <1>1, DemoInvariant, PTL

\* With the allow-lists as they ship, the announced decision is the one taken,
\* and of a scan one finding is handled without a person.
THEOREM AnnouncedDecision ==
    ASSUME ShippedAllowLists
    PROVE  Spec => []HintIsDecision
<1>1. DemoInv => HintIsDecision
  BY InvHint
<1> QED
  BY <1>1, DemoInvariant, PTL

\* The replay of every incident there can be runs forward through the pipeline
\* and ends where the incident is.
THEOREM ReplayRunsForward == Spec => []ReplayInOrder
<1>1. DemoInv => ReplayInOrder
  <2>1. SUFFICES ASSUME DemoInv PROVE ReplayInOrder
    OBVIOUS
  <2>2. ASSUME NEW k \in DOMAIN incidents
        PROVE  InOrder(incidents[k], Replay([incidents[k] EXCEPT !.timeline = Timed(@)]))
    BY <2>1, IncidentInOrder DEF DemoInv, IncidentOK
  <2> QED
    BY <2>2 DEF ReplayInOrder
<1> QED
  BY <1>1, DemoInvariant, PTL

\* No binding, certificate or security configuration changes in a step in which
\* nobody approves.
THEOREM ConsentForPrivilege == Spec => PrivilegeNeedsConsent
<1>1. DemoInv /\ [Next]_vars =>
         [<<cluster.bindings, cluster.certDays, cluster.configs>>'
             # <<cluster.bindings, cluster.certDays, cluster.configs>> => Approved]_vars
  <2>1. ASSUME DemoInv, Next
        PROVE  <<cluster.bindings, cluster.certDays, cluster.configs>>'
                  # <<cluster.bindings, cluster.certDays, cluster.configs>> => Approved
    BY <2>1, DemoStep DEF Untouched, Privileges
  <2> QED
    BY <2>1
<1> QED
  BY <1>1, DemoInvariant, PTL DEF Spec, PrivilegeNeedsConsent
=============================================================================
