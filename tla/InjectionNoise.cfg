\* The trigger is noisy while the engine starts again.
SPECIFICATION Spec
CONSTANTS
  NumCylinders = 2
  FiringOrder <- Crossed
  TwoWireBatch = FALSE
  Configurations <- CrankingDiffers
  TunesModes = FALSE
  TunesTrigger = FALSE
  NoisyTrigger = TRUE
  Primes = FALSE
INVARIANT
  EveryOpeningHasItsEnd
