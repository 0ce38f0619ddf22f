\* A search and two reindexings by two threads, while the files change or a
\* store goes down and comes back.
SPECIFICATION FairSpec
CONSTANTS
    t1 = t1
    t2 = t2
    Threads = {t1, t2}
    Chunks = {1, 2}
    Knowledge = {{2}}
    Mode = "auto"
    MaxSearches = 1
    MaxReindexings = 2
    MaxChanges = 1
    None = None
INVARIANTS RetrievalTypeOK ReindexTakesEffect SearchIsExact ReachedBackendsContribute
PROPERTY RequestsEnd
CHECK_DEADLOCK FALSE
