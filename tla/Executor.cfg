\* Two records, a delay that can wrap, a fatal error, fair clock and timer.
SPECIFICATION FairSpec
CONSTANTS
  e1 = e1
  e2 = e2
  Events <- TwoEvents
  LateDelay = 1
  NtPerUs = 1
  TooFarUs = 4
  HalfRange = 3
  MaxTime = 5
INVARIANTS
  TypeOK
  WakeupNotLost
  QueueConsistent
PROPERTIES
  ExecutesAsPromised
  ScheduledIsExecuted
