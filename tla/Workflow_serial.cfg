\* One request at a time, a live cluster, three incidents.
SPECIFICATION Spec
CONSTANTS
    i1 = i1
    i2 = i2
    i3 = i3
    t1 = t1
    t2 = t2
    Threads = {t1}
    Incidents = {i1, i2, i3}
    Subject <- MixedSubjects
    Deployments = {"cpu-demo"}
    InitialReplicas <- TwoReplicas
    Advice <- FreeAdvice
    LiveCluster = TRUE
    MaxRequests = 5
    None = None
    Absent = "absent"
    ReadTools = {"get_pods"}
    AllowedNamespaces = {"demo"}
    AllowedDeployments = {"cpu-demo"}
    MaxAutoscaleDelta = 1
    MaxAutoscaleReplicas = 4
INVARIANTS EffectPerGrant ExecutedAsEvaluated
PROPERTIES RemediatedHolds DecisionIsFinal
CHECK_DEADLOCK FALSE
