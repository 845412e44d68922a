CONSTANTS
  gA = gA
  gB = gB
  m1 = m1
  m2 = m2
  m3 = m3
  Group <- MCGroup
  Match <- MCMatch
  GroupOf <- MCGroupOf
  NoSuchMatch = NoSuchMatch
  Request = {h1}
  Consumer = Consumer
  Msg = {k1}
  NoMsg = NoMsg
  Garbage = Garbage
  NoResult = NoResult
  Decisive = {r1}
  Drawn = {}
  Invalid = {}
  Kickoff = {ko1, ko2}
  InitialKickoff = ko1
  MaxDeliver = 2
  MaxReschedules = 1
  Faults = FALSE
  PositionsSwap = TRUE
  SlotsDecoded = TRUE
  PhaseScanned = TRUE
  ResultScanned = TRUE
SPECIFICATION FairSpec
INVARIANTS
  TypeOK
  StandingsAgree
  CompletionAnnounced
  SaveIsOfCurrentRows
PROPERTIES
  RefinesLedger
  EveryIngestedResultLands
  EveryRequestIsAnswered
