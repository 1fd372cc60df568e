\* A noisy trigger, a prime pulse, and a tuner who changes the fueling modes.
SPECIFICATION Spec
CONSTANTS
  NumCylinders = 2
  FiringOrder <- Crossed
  TwoWireBatch = TRUE
  Configurations <- TwoPairs
  TunesModes = TRUE
  TunesTrigger = FALSE
  NoisyTrigger = TRUE
  Primes = TRUE
INVARIANTS
  TypeOK
  PairsDoNotMix
