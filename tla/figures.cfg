SPECIFICATION FiguresSpec
CONSTANTS
  Order = {1, 2, 3}
  Line = {11, 12, 21, 31}
  Item = {"i", "j"}
  Channel = {"shopify", "rakuten"}
  Master = {"m", "n"}
  Category = {"A", "B"}
  LastDay = 2
  DayOf <- Days
  ChannelOf <- Channels
  OrderOf <- OrderOfDef
  ItemOf <- ItemOfDef
  Quantity <- QuantityDef
  Price <- PriceDef
  FirstTree <- TreeDef
  FirstCategory <- CategoryDef
  Sheets <- SheetsDef
  Week = 2
  MaxEdits = 3
  Window = 2
  MinDays = 1
  Cover = 3
  MinThreshold = 2
  MaxThreshold = 5
  Fallback = 3
  NULL = "NULL"
INVARIANTS PartsSumToTotals AuditFindsOnlyStaleDays RowsLagForAReason ScreensAgree
CHECK_DEADLOCK FALSE
