CONSTANTS
  m1 = m1
  m2 = m2
  Match = {m1, m2}
  Handler = {h1, h2, h3}
  Report <- MCReport
  NoReport = NoReport
  Nil = Nil
  MaxPublished = 1
  Faults = TRUE
SPECIFICATION FairSpec
INVARIANTS
  OncePerKey
  ConfirmedIsOnItsWay
  
PROPERTIES
  ClaimIsSettled
