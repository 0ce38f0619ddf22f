\* Every plan over two names of each kind, for every incident type and layer.
SPECIFICATION Spec
CONSTANTS
    Namespaces = {"demo", "kube-system"}
    Deployments = {"cpu-demo", "coredns"}
    Deltas <- Steps
    Counts <- Replicas
    Absent = "absent"
    ReadTools = {"get_pods"}
    AllowedNamespaces = {"demo"}
    AllowedDeployments = {"cpu-demo"}
    MaxAutoscaleDelta = 1
    MaxAutoscaleReplicas = 2
INVARIANTS AutoIsRecovery PerformedIsAllowed GatesAgree
CHECK_DEADLOCK FALSE
