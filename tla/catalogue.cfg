SPECIFICATION PartsSpec
CONSTANTS
    sa = sa  sb = sb  sc = sc  s1 = s1  s2 = s2  NULL = NULL
    Master = {sa, sb, sc}
    Order = {o1}
    Export <- Lines
    Placeholder = {"r-sku1"}
    Long = {}
    ReadsAs <- KeyReadsAs
    PageNames <- PagesByName
    PairLines <- Pairs
    TokenOf <- Tokens4
    CodeOf <- CodesMade
    RankOf <- RanksOfNames
    Codes <- AllCodes
    Starts <- FirstCodes
    CategoryOf <- Categories
    OldRows <- PageRows
    MaxEdits = 2
    None = None
    Blank = ""
    Channel = {"shopify", "rakuten"}
    Line <- Lines4
    MasterSku = {"a", "b", "old"}
    ChannelOf <- SoldOn
    SkuOf <- SoldAs
    VariantSold <- SoldVariant
    TrueMaster <- SoldMaster
    OldCode <- FirstCode
    History = {"l1", "l2"}
SYMMETRY Sessions
INVARIANTS CancelMirrorsConsumption SharesHoldNothing ArchivedWasFree
    VariantsShareNoMaster RepairRestoresMaster SheetsAreSound RoundIsSound
CHECK_DEADLOCK FALSE
