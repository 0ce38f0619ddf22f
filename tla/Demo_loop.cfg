\* The demonstration with the shipped allow-lists and step, a lower ceiling, one request at a time.
SPECIFICATION Spec
CONSTANTS
    Reports <- OddReports
    MaxRequests = 4
    MaxDetections = 2
    Absent = "absent"
    AllowedNamespaces = {"ai-observability-demo"}
    AllowedDeployments = {"demo-app", "cpu-demo", "memory-demo", "crash-demo", "cert-demo"}
    MaxAutoscaleDelta = 3
    MaxAutoscaleReplicas = 3
    ReadTools = {"get_pods"}
INVARIANTS DemoTypeOK RemediatedIsCured EveryRemediationVerifies LogsMirrorCluster HintIsDecision ReplayInOrder
PROPERTY PrivilegeNeedsConsent
CHECK_DEADLOCK FALSE
