SPECIFICATION EnvSpec
CONSTANTS
  PitchLen = 26
  PitchWid = 15
  TeamSlots = 11
  StackMax = 32
  QuickD2 = 4
  PassD2 = 9
  ThrowD2 = 9
  CrashMax = 1
  SideMax = 2
  LineMin = 1
  WideMax = 1
  WideWid = 1
  SetupBudget = 4
  FarthestKick = 2
  Starts <- RingStarts
INVARIANTS GridKept
