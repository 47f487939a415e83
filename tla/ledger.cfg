SPECIFICATION Spec
CONSTANTS
    a = a  b = b  l1 = l1  l2 = l2  p1 = p1  p2 = p2
    NoLine = NoLine
    Sku <- MCSku
    Line <- MCLine
    Session <- MCSession
    Work <- MCWork
    MaxEvents = 2
SYMMETRY Sessions
INVARIANTS SnapshotMatchesLog SourcedOnce ReturnsFollowConsumption AdjustNeverBelowZero WritersAreIsolated
PROPERTY ImplementsBook
