SPECIFICATION FairSpec
CONSTANTS
    set = set
    alone = alone
    shared = shared
    Sku <- MCSku
    Bundle <- MCBundle
    Per <- MCPer
    Job = {j}
    Screen = {s}
    Quantity <- MCQuantity
    MaxMoves = 1
PROPERTIES
    ShownCouldBeMade
    ShownIsRight
