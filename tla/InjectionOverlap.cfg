\* One fueling mode for cranking and running; four cylinders, so that the batch
\* mode makes two events share an injector.
SPECIFICATION Spec
CONSTANTS
  NumCylinders = 4
  FiringOrder <- Fo1342
  TwoWireBatch = TRUE
  Configurations <- SameModes
  TunesModes = FALSE
  TunesTrigger = TRUE
  NoisyTrigger = TRUE
  Primes = FALSE
INVARIANTS
  EveryOpeningHasItsEnd
  CounterInSync
PROPERTIES
  InjectsInPairs
