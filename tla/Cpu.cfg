CONSTANTS
  Opcodes <- MCOpcodes
  Budgets <- MCBudgets
  Floor <- MCFloor
SPECIFICATION FairSpec
INVARIANT ControlInv
PROPERTIES ImplementsDiscipline ModeZeroStarves PinServed ReturnsToCaller
