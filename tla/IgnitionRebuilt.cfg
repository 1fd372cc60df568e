\* No timer is late and the engine does not stall; the trigger settings change.
SPECIFICATION Spec
CONSTANTS
  NumCylinders = 2
  NumTeeth = 6
  TimingTeeth = 1
  DwellTeeth = 1
  Late = 0
  IgnitionMode = "INDIVIDUAL_COILS"
  TwoWireBatch = FALSE
  FasterSpinUp = TRUE
  MaxSparks = 0
  Stalls = FALSE
  TunesTrigger = TRUE
INVARIANTS
  ChargedHasSpark
