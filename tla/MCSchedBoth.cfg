SPECIFICATION SystemSpec
CONSTANTS
  s1 = s1
  s2 = s2
  a1 = a1
  a2 = a2
  NoThread = NoThread
  SchedThread = SchedThread
  List <- One
  Apps = {a1}
  Uses <- BothUses
  Blocking = {}
  WordOf <- Alone
  SignBit = {}
  Period = 1
  TimeSpace = 4
  Spurious = FALSE
PROPERTIES
  SelectReportsEvents
