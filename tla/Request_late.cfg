SPECIFICATION MCSpec
CONSTANTS
  MaxRuns = 2
  MaxEvents = 2
  MaxWrites = 2
  MaxLives = 1
  MaxTurns = 2
  MaxRecs = 2
  Calls = 2
  Clients <- Clientele
  LateLoss = TRUE
INVARIANT CallEnded
