\* One edit, no power loss: a burn against the first tooth of a cycle.
SPECIFICATION Spec
CONSTANTS
  MaxEdits = 1
  MaxLosses = 0
INVARIANTS
  TriggerChangeIsSeen
