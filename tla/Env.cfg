SPECIFICATION Spec
CONSTANTS
  DMax = 1
  MaxDecisions = 3
  MaxPlan = 1
  MaxIncidents = 1
  GammaNum = 1
  GammaDen = 2
  RewardTd = 4
  RewardWin = 5
  RewardDraw <- Penalty
  RewardGain = 1
  RewardLoss <- Penalty
  RewardBall = 1
  RewardEndzone = 2
  RewardTouchback <- Penalty
  RewardPossession = 1
  RewardInjury = 1
  RewardSendOff = 1
  RewardSurf = 1
  RewardExposure = 1
  RewardAction <- Penalty
  StatmatchScale = 1
  MaxDeviation = 1
  RewardUnit = 5
  Clamp = 8
INVARIANTS PossessionsPair ShapingTelescopes LedgersAgree LastInEnvelope
