SPECIFICATION Spec
CONSTANTS
  Group = {"A", "B"}
  GroupOf <- MCGroupOf
  Knockout <- MCKnockout
  Day = {1, 2}
  InitialDay <- MCInitialDay
  FilterDay = 1
  PerPage = 2
  MaxMoves = 2
INVARIANTS
  TypeOK
  AnswersRunForward
  ShownAgainOnlyIfEntered
  SkippedOnlyIfShifted
