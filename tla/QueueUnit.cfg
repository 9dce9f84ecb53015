SPECIFICATION FairSpec
CONSTANTS
  N = 2
  ResumeSafe <- Safe1
  Accepts <- FirstAny
  Unit = TRUE
  Slots = 3
  MaxFaults = 3
INVARIANTS EvidenceOnDisk OneAtATime
PROPERTIES Settles
