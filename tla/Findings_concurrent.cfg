\* Two request threads, a live cluster, a reset.
SPECIFICATION FairSpec
CONSTANTS
    t1 = t1
    t2 = t2
    Threads = {t1, t2}
    Scan <- TwoFindings
    Injected <- Mixed
    Deployments = {"cpu-demo", "crash-demo"}
    CrashDemo = "crash-demo"
    InitialReplicas <- Replicas
    InitiallyServing = {"cpu-demo"}
    Supported = {"test-pod"}
    LiveCluster = TRUE
    MaxRequests = 3
    MaxResets = 1
    None = None
    Absent = "absent"
    AllowedNamespaces = {"demo"}
    AllowedDeployments = {"cpu-demo", "crash-demo"}
    MaxAutoscaleDelta = 1
    MaxAutoscaleReplicas = 4
INVARIANTS FindingsTypeOK AllowedAtLayer EffectPerConsent SeesWholeScan NoFindingStranded
PROPERTY RequestsAnswered
CHECK_DEADLOCK FALSE
