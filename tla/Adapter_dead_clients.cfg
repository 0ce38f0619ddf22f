\* Two request threads, one outage, a cluster made anew once.
SPECIFICATION FairSpec
CONSTANTS
    t1 = t1
    t2 = t2
    Threads = {t1, t2}
    Actions = {"restart_deployment"}
    MaxEndpoints = 2
    MaxOutages = 1
    None = None
PROPERTY RecoversAlways
CHECK_DEADLOCK FALSE
