SPECIFICATION SessionsSpec
CONSTANTS
  SeqSpace = 16
  TsSpace = 32
  Seq0 = 14
  Ts0 = 30
  MediaPt = 113
  RetryLimit = 1
  ProfilePts = {1, 113}
  SendCache = 3
  RecvCache = 2
  JittComp = 1
  MaxRqSize = 3
  MaxPackets = 4
  MaxUserTs = 12
  LastArrival = 4
  LossBudget = 2
  DupBudget = 1
  s1 = s1
  s2 = s2
  a1 = a1
  a2 = a2
  NoThread = NoThread
  SchedThread = SchedThread
  List <- Both
  Apps = {a1}
  Uses <- SetsUses
  Blocking = {}
  WordOf <- TwoWords
  SignBit = {}
  Period = 1
  TimeSpace = 4
  Spurious = FALSE
INVARIANTS
  RtxQueueContiguous
  SendCacheIsTheWindow
  EventNotLost
PROPERTIES
  ImplementsChannel
  RetransmissionFillsHole
  SelectIsOnTime
