\* Two cylinders that share two wasted-spark coils, multispark series, stalls.
SPECIFICATION FairSpec
CONSTANTS
  NumCylinders = 2
  NumTeeth = 8
  TimingTeeth = 1
  DwellTeeth = 2
  Late = 1
  IgnitionMode = "WASTED_SPARK"
  TwoWireBatch = TRUE
  FasterSpinUp = FALSE
  MaxSparks = 1
  Stalls = TRUE
  TunesTrigger = FALSE
INVARIANTS
  TypeOK
  ChargedHasSpark
PROPERTIES
  ChargedCoilFires
