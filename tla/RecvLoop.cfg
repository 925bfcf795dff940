SPECIFICATION Spec
CONSTANTS
  SeqSpace = 64
  TsSpace = 64
  s1 = s1
  s2 = s2
  s3 = s3
  Ssrcs = {s1, s2, s3}
  LoopWindow = 4
  Threshold = 3
  TsJump = 3
  MaxRqSize = 2
  Resyncs = TRUE
  Scenes <- LateScenes
INVARIANTS
  ExtSeqIsNewest
CHECK_DEADLOCK FALSE
