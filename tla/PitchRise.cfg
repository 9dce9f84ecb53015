SPECIFICATION EnvSpec
CONSTANTS
  PitchLen = 5
  PitchWid = 3
  TeamSlots = 3
  StackMax = 8
  QuickD2 = 4
  PassD2 = 9
  ThrowD2 = 9
  CrashMax = 1
  SideMax = 2
  LineMin = 1
  WideMax = 1
  WideWid = 1
  SetupBudget = 4
  FarthestKick = 2
  Starts <- RiseBlockStarts
INVARIANTS FairBlocks
