SPECIFICATION FairSpec
CONSTANTS
  A = A
  B = B
  hA = hA
  hB = hB
  rA = rA
  gB = gB
  gA = gA
  mA = mA
  Agents = {A, B}
  Addrs = {hA, hB, gB, rA, gA, mA}
  MaxPairs = 2
  MaxTries = 0
  Scenes <- AllScenes
INVARIANTS
  IndexIsNominated
  SwitchesOnce
  SucceededPairWorks
PROPERTIES
  RolesSettle
CHECK_DEADLOCK FALSE
