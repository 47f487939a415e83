SPECIFICATION FairSpec
CONSTANTS
    e1 = e1
    e2 = e2
    p = p
    q = q
    Row = {e1}
    Run = {p, q}
    Window = 1
    MaxWindows = 2
    MaxTime = 3
    MaxFaults = 1
INVARIANTS
    NothingIsSkipped
    CopiesAreExcused
PROPERTIES
    ChangesArrive
