CONSTANTS
  Standing <- MCStanding
  InitialThirds <- MCInitialThirds
  Open <- MCOpen
  Score <- MCScore
  Playable <- MCPlayable
  NoScore = NoScore
SPECIFICATION Spec
PROPERTY CloseGroupStageCloses
