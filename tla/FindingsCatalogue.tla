-------------------------- MODULE FindingsCatalogue --------------------------
(***************************************************************************)
(* What backend/services/security.py ships: the results of the simulated   *)
(* scan (_seed_specs) and the scenarios of the security test lab.  Of each *)
(* entry only the layer and the proposed action with its parameters are    *)
(* kept; titles, evidence and prose are left out.                          *)
(***************************************************************************)
EXTENDS DemoCluster

Catalogued(layer, plan) == [layer |-> layer, plan |-> plan]

Proposal(action, deployment, namespace, desired, config, target) ==
    [action |-> action, deployment |-> deployment, namespace |-> namespace, delta |-> 0,
     desired |-> desired, config |-> config, target |-> target]

Restart(d) == Proposal("restart_deployment", d, Namespace, 0, Absent, Absent)
Scale(d, n) == Proposal("scale_deployment", d, Namespace, n, Absent, Absent)
Rollback(binding) == Proposal("rollback_rbac", Absent, Absent, 0, Absent, binding)
Config(config, target) ==
    Proposal("apply_security_config", Absent, Namespace, 0, config, target)

\* The first half of the scan, in its order.
PostureSpecs ==
    << Catalogued("application",        Restart("demo-app")),
       Catalogued("container",          Config("drop-privileged", "test-pod")),
       Catalogued("container",          Config("enable-apparmor", "crash-demo")),
       Catalogued("container",          Config("enable-seccomp", "memory-demo")),
       Catalogued("kubernetes_cluster", Config("default-deny-network-policy", Namespace)),
       Catalogued("kubernetes_cluster", Rollback("ci-bot-cluster-admin")),
       Catalogued("node_cloud",         Config("lockdown-kubelet", "demo-control-plane")) >>

\* The second half.
HardeningSpecs ==
    << Catalogued("container",          Config("tidy-image", "demo-app")),
       Catalogued("container",          Config("use-secret", "demo-app")),
       Catalogued("container",          Config("disallow-host-network", "lab-pod")),
       Catalogued("kubernetes_cluster", Config("disable-auto-mount-token", "ci-bot")),
       Catalogued("container",          Config("drop-capabilities", "demo-app")),
       Catalogued("container",          Config("set-image-pull-policy", "cert-demo")),
       Catalogued("node_cloud",         Config("lockdown-kubelet", "demo-worker-1")) >>

SeedSpecs == PostureSpecs \o HardeningSpecs

LabScenarios ==
    [app_error  |-> Catalogued("application",        Restart("demo-app")),
     high_cpu   |-> Catalogued("application",        Scale("cpu-demo", 3)),
     crashloop  |-> Catalogued("container",          Restart("crash-demo")),
     falco      |-> Catalogued("container",          Config("drop-privileged", "test-pod")),
     trivy      |-> Catalogued("container",          Config("tidy-image", "demo-app")),
     apparmor   |-> Catalogued("container",          Config("enable-apparmor", "crash-demo")),
     privileged |-> Catalogued("container",          Config("drop-privileged", "lab-privileged")),
     rbac       |-> Catalogued("kubernetes_cluster", Rollback("ci-bot-cluster-admin")),
     netpol     |-> Catalogued("kubernetes_cluster", Config("default-deny-network-policy", Namespace))]

\* Faulty variant: the hint follows the action, not the layer.
HintByAction(key) ==
    IF LabScenarios[key].plan.action = "restart_deployment" THEN "AUTO" ELSE "APPROVAL_REQUIRED"

\* The decision the catalogue of the lab announces for a scenario.
DecisionHint(key) ==
    IF LabScenarios[key].layer = "application" THEN "AUTO" ELSE "APPROVAL_REQUIRED"
=============================================================================
