SPECIFICATION FairSpec
CONSTANTS
    MaxSeq = 7
    MaxInit = 6
    Replays = {0, 1, 2, 3}
    Froms = {0, 3, 9}
INVARIANTS
    TypeOK
    ReplaysNewest
    ReplaysNoMore
PROPERTIES
    Terminates
