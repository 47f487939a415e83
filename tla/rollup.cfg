SPECIFICATION FairSpec
CONSTANTS
    l1 = l1
    l2 = l2
    p = p
    q = q
    Line = {l1, l2}
    LastDay = 2
    Recent = {2}
    MaxDays = 1
    DayOf <- MCDayOf
    Job = {p, q}
    MaxNow = 3
    MaxFails = 1
INVARIANTS
    RowsTellOrders
PROPERTIES
    RepairHeals
