SPECIFICATION SafeSpec
CONSTANTS
  SeqSpace = 16
  TsSpace = 32
  Seq0 = 14
  Ts0 = 30
  MediaPt = 113
  RetryLimit = 1
  ProfilePts = {1, 113}
  SendCache = 3
  RecvCache = 2
  JittComp = 1
  MaxRqSize = 3
  MaxPackets = 4
  MaxUserTs = 12
  LastArrival = 4
  LossBudget = 2
  DupBudget = 0
INVARIANTS
  PayloadTypeSignalIsTrue
CHECK_DEADLOCK FALSE
