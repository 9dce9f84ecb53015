SPECIFICATION FairSpec
CONSTANTS
  N = 2
  Cap = 2
  Slots = 3
  MaxCrashes = 1
INVARIANTS CapKept
PROPERTIES HaltSticks Settles
