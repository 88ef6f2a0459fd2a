SPECIFICATION Spec
CONSTANTS
  Programs <- AllPrograms
  MaxEvents = 24
  MaxLen = 2
  MaxArgs = 2
INVARIANTS
  Faithful
  Balanced
