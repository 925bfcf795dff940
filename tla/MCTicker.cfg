SPECIFICATION FairSpec
CONSTANTS
  src1 = src1
  src2 = src2
  enc = enc
  join = join
  sink = sink
  recv = recv
  mix = mix
  eq = eq
  Filters = {src1, src2, enc, join, sink, recv, mix, eq}
  Outputs <- TwoGraphs
  MaxQueue = 2
INVARIANTS
  TypeOK
  NothingIsLeft
  TickRunsAll
PROPERTIES
  ProcessesAttached
  GraphsRun
  TicksEnd
CHECK_DEADLOCK FALSE
