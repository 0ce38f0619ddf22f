\* Two request threads, a live cluster, two incidents about one deployment.
SPECIFICATION Spec
CONSTANTS
    i1 = i1
    i2 = i2
    i3 = i3
    t1 = t1
    t2 = t2
    Threads = {t1, t2}
    Incidents = {i1, i2}
    Subject <- SharedDeployment
    Deployments = {"cpu-demo"}
    InitialReplicas <- ThreeReplicas
    Advice <- FreeAdvice
    LiveCluster = TRUE
    MaxRequests = 3
    None = None
    Absent = "absent"
    ReadTools = {"get_pods"}
    AllowedNamespaces = {"demo"}
    AllowedDeployments = {"cpu-demo"}
    MaxAutoscaleDelta = 1
    MaxAutoscaleReplicas = 4
INVARIANTS TypeOK HumanInTheLoop ReplicasBounded NoOrphanRecord
PROPERTY ImplementsGate
CHECK_DEADLOCK FALSE
