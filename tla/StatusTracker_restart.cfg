SPECIFICATION FairSpec
CONSTANTS
    Servers = {a1}
    MaxResults = 2
    MaxStarts = 3
INVARIANTS Coherent NothingInvented
PROPERTIES FileGrows Persisted
CHECK_DEADLOCK FALSE
