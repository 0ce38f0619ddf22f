----------------------------- MODULE DemoCluster -----------------------------
(***************************************************************************)
(* The simulated cluster of backend/services/simulation.py as a value: its *)
(* initial state, what each action does to it, and what the detector, the  *)
(* application logs and the verification functions read from it.           *)
(*                                                                         *)
(* Of a pod only what somebody compares is kept: its deployment, whether   *)
(* it is ready (1/1), its restart count, and whether a container's last    *)
(* state is OOMKilled.  Every simulated pod is in phase Running.           *)
(***************************************************************************)
EXTENDS ActionTools, FiniteSets, SequencesExt

Namespace == "ai-observability-demo"

Pod(name, deployment, ready, restarts, oom) ==
    [name |-> name, deployment |-> deployment, ready |-> ready,
     restarts |-> restarts, oom |-> oom]

Replicated(n) == [replicas |-> n, ready |-> n, available |-> n]

\* The deployment of a pod that has none.
Unmanaged == "unmanaged"

InitialCluster ==
    [deployment |-> [d \in {"demo-app", "cpu-demo", "memory-demo", "crash-demo", "cert-demo"} |->
                        CASE d \in {"demo-app", "cpu-demo"} -> Replicated(2)
                          [] d = "crash-demo" -> [replicas |-> 1, ready |-> 0, available |-> 0]
                          [] OTHER -> Replicated(1)],
     pods |-> << Pod("demo-app-1",    "demo-app",    TRUE,  0, FALSE),
                 Pod("cpu-demo-1",    "cpu-demo",    TRUE,  0, FALSE),
                 Pod("cpu-demo-2",    "cpu-demo",    TRUE,  0, FALSE),
                 Pod("memory-demo-1", "memory-demo", TRUE,  2, TRUE),
                 Pod("crash-demo-1",  "crash-demo",  FALSE, 7, FALSE),
                 Pod("test-pod",      Unmanaged,     TRUE,  0, FALSE) >>,
     bindings |-> {"ai-observability-reader", "ci-bot-cluster-admin"},
     certDays |-> 4,
     configs |-> {}]

\* get_deployment answers zeros for a deployment it does not know.
DeploymentState(c, d) ==
    IF d \in DOMAIN c.deployment THEN c.deployment[d] ELSE Replicated(0)

PodsOf(c, d) == {p \in ToSet(c.pods) : p.deployment = d}

-----------------------------------------------------------------------------
(* What the actions do.                                                    *)

\* A scale creates the deployment it does not know.
Scaled(c, d, n) ==
    [c EXCEPT !.deployment = [e \in DOMAIN c.deployment \union {d} |->
                                IF e = d THEN Replicated(n) ELSE c.deployment[e]]]

CrashReplicas(c) == c.deployment["crash-demo"].replicas

RestartedDeployments == {"crash-demo", "memory-demo", "demo-app", "cpu-demo"}

\* Faulty variant: the restart counts survive.
RestartedOnce(c) ==
    [c EXCEPT !.pods = [k \in DOMAIN c.pods |->
                          IF c.pods[k].deployment \in RestartedDeployments
                          THEN [c.pods[k] EXCEPT !.ready = TRUE, !.oom = FALSE]
                          ELSE c.pods[k]],
              !.deployment["crash-demo"].ready = 1,
              !.deployment["crash-demo"].available = 1]

\* Whichever deployment the restart is called for, the pods of four are reset
\* and crash-demo gets its one replica back.
Restarted(c) ==
    [c EXCEPT !.pods = [k \in DOMAIN c.pods |->
                          IF c.pods[k].deployment \in RestartedDeployments
                          THEN [c.pods[k] EXCEPT !.ready = TRUE, !.restarts = 0, !.oom = FALSE]
                          ELSE c.pods[k]],
              !.deployment["crash-demo"] =
                  [replicas |-> CrashReplicas(c), ready |-> 1, available |-> 1]]

RolledBack(c, binding) == [c EXCEPT !.bindings = @ \ {binding}]

Renewed(c) == [c EXCEPT !.certDays = 365]

\* Faulty variant: only the configurations the tool's schema enumerates.
SchemaConfigs ==
    {"drop-privileged", "enable-apparmor", "enable-seccomp",
     "default-deny-network-policy", "lockdown-kubelet", "tidy-image"}

SecurityConfigs ==
    {"drop-privileged", "enable-apparmor", "enable-seccomp", "default-deny-network-policy",
     "lockdown-kubelet", "tidy-image", "use-secret", "set-image-pull-policy",
     "disallow-host-network", "drop-capabilities", "disable-auto-mount-token"}

\* A configuration that is not supported is answered "rejected", not raised.
Configured(c, config, target) ==
    IF config \in SecurityConfigs THEN [c EXCEPT !.configs = @ \union {<<config, target>>}] ELSE c

\* The adapter's call for a plan.  Beyond the parameters the policy engine
\* looks at, a plan carries a configuration and a target, or a binding.
Performed(c, plan) ==
    CASE plan.action = "scale_deployment"      -> Scaled(c, plan.deployment, plan.desired)
      [] plan.action = "restart_deployment"    -> Restarted(c)
      [] plan.action = "rollback_rbac"         -> RolledBack(c, plan.target)
      [] plan.action = "renew_certificate"     -> Renewed(c)
      [] plan.action = "apply_security_config" -> Configured(c, plan.config, plan.target)
      [] OTHER                                 -> c

-----------------------------------------------------------------------------
(* Verification, as the tools and as the findings do it.                   *)

CertExpiryDays == 7

VerifiedByTool(c, plan) ==
    CASE plan.action = "scale_deployment" ->
            LET d == DeploymentState(c, plan.deployment)
            IN  d.replicas = plan.desired /\ d.ready = d.available
      [] plan.action = "restart_deployment" ->
            /\ PodsOf(c, plan.deployment) # {}
            /\ \A p \in PodsOf(c, plan.deployment) : p.ready /\ p.restarts < 3
      [] plan.action = "renew_certificate" -> c.certDays > CertExpiryDays
      [] plan.action = "rollback_rbac" -> plan.target \notin c.bindings
      [] plan.action = "apply_security_config" -> <<plan.config, plan.target>> \in c.configs

VerifiedByFinding(c, plan) ==
    LET d == DeploymentState(c, plan.deployment)
    IN  CASE plan.action = "restart_deployment" -> d.available = d.replicas /\ d.available > 0
          [] plan.action = "scale_deployment" -> d.replicas = plan.desired
          [] plan.action = "rollback_rbac" -> plan.target \notin c.bindings
          [] plan.action = "apply_security_config" -> <<plan.config, plan.target>> \in c.configs
          [] OTHER -> TRUE

-----------------------------------------------------------------------------
(* The detector.                                                           *)

\* Of the 15 points of a simulated series the last 8 (CPU) and 6 (memory)
\* are above every threshold and the others below, whatever happened.
HighCpuPoints == 8
CpuSustainMinutes == 5
HighMemoryPoints == 6

\* The positions of the pods that show the sign.
OutOfMemory(pods) == {k \in DOMAIN pods : pods[k].oom}
CrashLooping(pods) == {k \in DOMAIN pods : pods[k].restarts >= 5}

\* What an incident is about: the first of the pods that show its sign.
FirstPod(pods, positions) ==
    LET p == pods[Min(positions)] IN IF p.deployment = Unmanaged THEN p.name ELSE p.deployment

Suspicious(b) == b = "ci-bot-cluster-admin"

Shell(type, resource) == [type |-> type, resource |-> resource]

\* One shell per rule that fires, in the order of detect().  The Falco events
\* are the same whatever happened.
Detected(c) ==
    LET If(cond, shell) == IF cond THEN <<shell>> ELSE << >>
        killed == OutOfMemory(c.pods)
        looping == CrashLooping(c.pods)
    IN  If(HighCpuPoints >= CpuSustainMinutes, Shell("high_cpu", "cpu-demo"))
        \o If(HighMemoryPoints > 0, Shell("high_memory", "memory-demo"))
        \o If(killed # {}, Shell("oom_killed", FirstPod(c.pods, killed)))
        \o If(looping # {}, Shell("crashloop_backoff", FirstPod(c.pods, looping)))
        \o If(c.certDays < CertExpiryDays, Shell("certificate_expiry", "cert-demo"))
        \o <<Shell("falco_security", "test-pod")>>
        \o If(\E b \in c.bindings : Suspicious(b),
              Shell("suspicious_rbac", CHOOSE b \in c.bindings : Suspicious(b)))

-----------------------------------------------------------------------------
(* The application logs.                                                   *)

Healthy(p) == p.ready /\ p.restarts = 0

\* The deployments whose logs show an ERROR line.
LoggedErrors(c) ==
    {d \in {"crash-demo", "memory-demo"} : \E p \in PodsOf(c, d) : ~Healthy(p)}
=============================================================================
