SPECIFICATION PartsSpec
CONSTANTS
  SeqSpace = 64
  TsSpace = 64
  s1 = s1
  s2 = s2
  s3 = s3
  Ssrcs = {s1, s2, s3}
  LoopWindow = 4
  Threshold = 3
  TsJump = 3
  MaxRqSize = 2
  Resyncs = TRUE
  Scenes <- AllScenes
  RtpSessions = {s1, s2, s3}
  MaxSessions = 2
  Agents = {"A", "B"}
  Chans = {"rtp"}
  Settings <- AllSettings
  MaxNatLost = 3
  Sizes = {1, 2, 3, 4, 5, 66}
  PointerSize = 4
INVARIANTS
  LockFollows
  ExtSeqIsNewest
  LossIsNearlyTrue
  DeafnessEnds
  PlacesAreTheirs
  FreedIsUnlisted
  TypeIsTrue
  TogetherTheyConnect
  SuccessIsMutual
  MessagesAreReadBack
  SignedIsCovered
PROPERTIES
  LockChangesOnRun
CHECK_DEADLOCK FALSE
