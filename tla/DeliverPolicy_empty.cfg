SPECIFICATION Spec
CONSTANTS
    MaxSeq = 2
    MaxInit = 0
    Replays = {1}
    Froms = {0}
INVARIANTS
    ReplayPromise
