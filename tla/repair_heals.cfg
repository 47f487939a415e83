SPECIFICATION FairRepairSpec
CONSTANTS
    a = a  b = b  l1 = l1  p1 = p1  p2 = p2
    NoLine = NoLine
    Sku <- MCSku
    Line <- MCLine
    Session <- MCSession
    Work <- MCWork
    MaxEvents = 1
    Targets <- MCTargets
    MaxDrift = 1
INVARIANTS HealedAgrees
PROPERTY TransactionsEnd
