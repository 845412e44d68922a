CONSTANTS
  Standing <- MCStanding
  InitialThirds <- MCInitialThirds
  Open <- MCOpen
  Score <- MCScore
  Playable <- MCPlayable
  NoScore = NoScore
SPECIFICATION Spec
INVARIANTS
  TypeOK
  BracketHoldsTheQualified
  BracketClosesTheStage
  AnnouncedIsStored
PROPERTIES
  ResultsAreNeverUndone
