CONSTANTS
    n1 = n1
    n2 = n2
    n3 = n3
    alice = alice
    Nodes = {n1, n2, n3}
    Actors = {alice}
    Links <- Diamond
    Author <- MCAuthor
    FirstSeq = 1
    Whole = TRUE
    MaxEvents = 2
    MaxLost = 1
SPECIFICATION FairSpec
INVARIANTS NothingSkipped
PROPERTIES Converges
CHECK_DEADLOCK FALSE
