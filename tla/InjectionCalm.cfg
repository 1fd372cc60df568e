\* No noise, no prime pulse, nobody turns the settings while the engine turns.
SPECIFICATION FairSpec
CONSTANTS
  NumCylinders = 3
  FiringOrder <- Fo132
  TwoWireBatch = FALSE
  Configurations <- FourPairs
  TunesModes = FALSE
  TunesTrigger = FALSE
  NoisyTrigger = FALSE
  Primes = FALSE
INVARIANTS
  NoDownIgnored
  EveryOpeningHasItsEnd
  ScheduleFitsMode
PROPERTIES
  EventIsReleased
  InjectsInPairs
