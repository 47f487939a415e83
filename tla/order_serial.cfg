SPECIFICATION Spec
CONSTANTS
    o1 = o1  o2 = o2  l1 = l1  l2 = l2  k1 = k1  k2 = k2
    m1 = m1  m2 = m2  p1 = p1  p2 = p2  NULL = NULL
    Order = {o1}
    Line = {l1, l2}
    Key = {k1, k2}
    Master = {m1, m2}
    Session = {p1}
    OrderOf <- OneOrder
    KeyOf <- TwoKeys
    BlankKey = {}
    Choice <- TwoChoices
    LateDelivery = TRUE
    Unmap = TRUE
    HistoryPass = TRUE
INVARIANTS StatusIsTrue
