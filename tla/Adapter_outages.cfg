\* Two request threads, up to two outages, a cluster made anew once.
SPECIFICATION FairSpec
CONSTANTS
    t1 = t1
    t2 = t2
    Threads = {t1, t2}
    Actions = {"restart_deployment"}
    MaxEndpoints = 2
    MaxOutages = 2
    None = None
INVARIANTS AdapterTypeOK OneWorld
PROPERTY Recovers
CHECK_DEADLOCK FALSE
