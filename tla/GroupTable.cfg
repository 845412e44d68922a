\* One group, all six matches, with the position constraint deferred and as built.
SPECIFICATION Spec
CONSTANTS
  ARG = ARG
  SCO = SCO
  POL = POL
  MAR = MAR
  Outsider = Outsider
  NoReport = NoReport
  MatchesPerGroup = 6
  Teams <- MCTeams
  Report <- MCReport
INVARIANTS
  TypeOK
  TableMatchesResults
  TableIsRanked
  AnnouncedTableIsFinal
  RefusedIffReordered
PROPERTIES
  BystandersKeepOrder
