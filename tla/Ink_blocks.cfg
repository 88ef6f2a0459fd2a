SPECIFICATION Spec
CONSTANTS
  Programs <- AfterTry
  MaxEvents = 12
  MaxLen = 2
  MaxArgs = 2
INVARIANTS
  OwnBlock
