CONSTANTS
  Message <- MCMessage
  MaxEvents = 2
  reliable = reliable
  flaky = flaky
  Subscriber = {reliable, flaky}
  Config <- MCConfig
  Reliable = {reliable}
  MaxDeliver = 2
  MaxPrefetch = 2
  MaxCrashes = 1
SPECIFICATION FairSpec
INVARIANTS
  TypeOK
  AckedMeansHeard
  SkippedOnlyIfRefused
  CopiesAreBounded
PROPERTIES
  ReliableSubscribersHear
