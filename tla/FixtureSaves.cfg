CONSTANTS
  gA = gA
  gB = gB
  m1 = m1
  m2 = m2
  m3 = m3
  Group <- MCGroup
  Match <- MCMatchPair
  GroupOf <- MCGroupOfPair
  NoSuchMatch = NoSuchMatch
  Request = {h1}
  Consumer = Consumer
  Msg = {}
  NoMsg = NoMsg
  Garbage = Garbage
  NoResult = NoResult
  Decisive = {r1}
  Drawn = {}
  Invalid = {}
  Kickoff = {ko1, ko2}
  InitialKickoff = ko1
  MaxDeliver = 0
  MaxReschedules = 1
  Faults = FALSE
  PositionsSwap = FALSE
  SlotsDecoded = FALSE
  PhaseScanned = FALSE
  ResultScanned = FALSE
SPECIFICATION Spec
PROPERTY SaveFailsOnlyOnConflict
