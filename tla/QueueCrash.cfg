SPECIFICATION Spec
CONSTANTS
  N = 2
  ResumeSafe <- Safe1
  Accepts <- FirstAny
  Unit = FALSE
  Slots = 3
  MaxFaults = 2
INVARIANTS EvidenceRecorded DriftNeverCounts NothingStrays
PROPERTIES KeepsPromise
