CONSTANTS
  before = before
  memory_read = memory_read
  Kinds <- MCKinds
  ExecutionKinds = {before}
  Free = free
  Wild = wild
  Addresses <- MCAddresses
  BreakAddresses <- MCBreakAddresses
  Counts <- MCCounts
  Codes <- MCCodes
  Instructions <- MCInstructions
  Chunks <- MCChunks
  Before = before
  On = memory_read
  MaxBreaks = 2
  MaxOn = 2
SPECIFICATION Spec
INVARIANTS HooksInv BreakpointsHold InterruptHeeded StopsWhereAsked StepOverStops HidingKeepsTheRest
PROPERTIES RunMakesProgress
CHECK_DEADLOCK FALSE
