SPECIFICATION Spec
CONSTANTS
  N = 2
  ResumeSafe <- Unsafe
  Accepts <- FirstAny
  Unit = TRUE
  Slots = 3
  MaxFaults = 1
PROPERTIES InterruptHalts

