SPECIFICATION Spec
CONSTANTS
  Venue <- MCVenue
  Place <- MCPlace
  Seeded <- MCSeeded
  Reader = {r1}
INVARIANTS
  TypeOK
  StaleOnlyIfMoved
  MissingOnlyIfAdded
  AnswersWereTrue
