\* Three edits and two power losses; boards with flash and with FRAM.
SPECIFICATION FairSpec
CONSTANTS
  MaxEdits = 3
  MaxLosses = 2
INVARIANTS
  TypeOK
  StoredSurvives
  SettledIsStored
PROPERTIES
  BurntIsStored
  StoresAtomically
