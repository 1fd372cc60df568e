\* The prime pulse is on.
SPECIFICATION Spec
CONSTANTS
  NumCylinders = 2
  FiringOrder <- Crossed
  TwoWireBatch = FALSE
  Configurations <- CrankingDiffers
  TunesModes = FALSE
  TunesTrigger = FALSE
  NoisyTrigger = FALSE
  Primes = TRUE
INVARIANT
  NoDownIgnored
