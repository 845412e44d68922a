CONSTANTS
  gA = gA
  gB = gB
  m1 = m1
  m2 = m2
  m3 = m3
  Group <- MCGroup
  Match <- MCMatchPair
  GroupOf <- MCGroupOfPair
  NoSuchMatch = NoSuchMatch
  Request = {h1}
  Consumer = Consumer
  Msg = {k1}
  NoMsg = NoMsg
  Garbage = Garbage
  NoResult = NoResult
  Decisive = {r1, r2}
  Drawn = {}
  Invalid = {x1}
  Kickoff = {ko1}
  InitialKickoff = ko1
  MaxDeliver = 3
  MaxReschedules = 0
  Faults = TRUE
  PositionsSwap = FALSE
  SlotsDecoded = TRUE
  PhaseScanned = TRUE
  ResultScanned = TRUE
SYMMETRY MCActorSymmetry
SPECIFICATION Spec
INVARIANTS
  PublishedOnce
  AckedMeansStored
  ConfirmedMeansStored
PROPERTIES
  StoredResultIsFinal
