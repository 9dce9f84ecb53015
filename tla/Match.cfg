SPECIFICATION FairSpec
CONSTANTS
  TurnsPerHalf = 2
  TimeOutFrom = 2
  LeaderTeams = {1}
  RerollsStart <- OneOwn
  Squad = 1
  ChargeBudget = 1
  MaxScore <- TwoOne
  MaxTimeOuts = 1
INVARIANTS OwnPoolKept ClockInStep TurnsBooked
PROPERTIES RerollsInOwnTurn RefinesDriveCycle Termination
