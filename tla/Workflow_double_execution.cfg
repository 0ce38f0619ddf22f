\* Two request threads on one incident, a simulated cluster.
SPECIFICATION Spec
CONSTANTS
    i1 = i1
    i2 = i2
    i3 = i3
    t1 = t1
    t2 = t2
    Threads = {t1, t2}
    Incidents = {i2}
    Subject <- OneApproval
    Deployments = {"cpu-demo"}
    InitialReplicas <- TwoReplicas
    Advice <- MockAdvice
    LiveCluster = FALSE
    MaxRequests = 4
    None = None
    Absent = "absent"
    ReadTools = {"get_pods"}
    AllowedNamespaces = {"demo"}
    AllowedDeployments = {"cpu-demo"}
    MaxAutoscaleDelta = 1
    MaxAutoscaleReplicas = 4
INVARIANT EffectPerGrant
CHECK_DEADLOCK FALSE
