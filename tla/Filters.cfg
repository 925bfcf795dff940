SPECIFICATION AllSpec
CONSTANTS
  SeqSpace = 32
  TsSpace = 32
  FirstSeq = 30
  MaxSpan = 6
  GoodKeys = {"1"}
  BadKeys = {"x"}
  Durations = {2, 3}
  Duration0 = 2
  Tolerance = 1
  TevQSize = 6
  MaxPress = 2
  MaxQuiet = 1
  MaxRead = 2
  Budgets <- AllBudgets
INVARIANTS
  KeysReportedOnce
  WalkFillsGaps
PROPERTIES
  StockGoesDown
  SeenStopReturns
  NumbersFollow
  EndsReported
  ToneEnds
  Drains
CHECK_DEADLOCK FALSE
