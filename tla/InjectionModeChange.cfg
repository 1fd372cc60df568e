\* The fueling mode changes between cranking and running.
SPECIFICATION Spec
CONSTANTS
  NumCylinders = 2
  FiringOrder <- Crossed
  TwoWireBatch = FALSE
  Configurations <- CrankingDiffers
  TunesModes = FALSE
  TunesTrigger = FALSE
  NoisyTrigger = FALSE
  Primes = FALSE
INVARIANT
  CounterInSync
