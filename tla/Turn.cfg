SPECIFICATION FairSpec
CONSTANTS
  h1 = h1
  h2 = h2
  a1 = a1
  Player <- Everybody
  Home <- H12
  NoPlayer = NoPlayer
  Casts <- Troupes
INVARIANTS ActsOnce OwnLatches
PROPERTIES LostMeansOver StunServed TurnsEnd
