SPECIFICATION CountsSpec
CONSTANTS
    r1 = r1  d1 = d1  d2 = d2  s1 = s1  s2 = s2  p1 = p1  p2 = p2
    None = None
    Run = {r1}
    Diff = {d1, d2}
    Sku = {s1, s2}
    Session = {p1, p2}
    RunOf <- OneRun
    SkuOf <- TwoSkus
    Request <- AllRequests
    Master = {"A", "B"}
    Capacity <- Burst
    Rate <- OnePerStep
    NULL = None
    Blank = ""
    Task = {1, 2}
    Plans <- CallPlans
    Item = {1, 2, 3, 4}
    Order = {1, 2, 3, 4, 5}
    Node <- Nodes
    DayOf <- OrderDays
    PageSize = 2  PageLimit = 2  BatchSize = 2  LineLimit = 2
    Pair = {"p", "q"}
INVARIANTS AppliedIffApproved AbsentIsNotZero ApprovedCountStands
    RateIsKept ReadsMissNothing WritesAreKnown
PROPERTIES ClosedStaysClosed
CHECK_DEADLOCK FALSE
