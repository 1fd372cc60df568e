\* A wheel of two teeth and a gap at 120 rpm; the engine spins up fast.
SPECIFICATION Spec
CONSTANTS
  Pitches = 3
  FasterSpinUp = TRUE
  Second = 12
  Unrealistic = 8
  Preemptions = 1
  MaxClean = 8
INVARIANTS
  TypeOK
  SyncRecovers
  PhaseRecovers
  RpmRecovers
