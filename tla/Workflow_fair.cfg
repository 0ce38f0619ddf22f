\* Two fair request threads, a live cluster.
SPECIFICATION FairSpec
CONSTANTS
    i1 = i1
    i2 = i2
    i3 = i3
    t1 = t1
    t2 = t2
    Threads = {t1, t2}
    Incidents = {i1, i2}
    Subject <- FairSubjects
    Deployments = {"cpu-demo"}
    InitialReplicas <- TwoReplicas
    Advice <- MockAdvice
    LiveCluster = TRUE
    MaxRequests = 3
    None = None
    Absent = "absent"
    ReadTools = {"get_pods"}
    AllowedNamespaces = {"demo"}
    AllowedDeployments = {"cpu-demo"}
    MaxAutoscaleDelta = 1
    MaxAutoscaleReplicas = 4
PROPERTY RequestsSettle
CHECK_DEADLOCK FALSE
