CONSTANTS
  before = before
  memory_read = memory_read
  Kinds <- MCKinds
  ExecutionKinds = {before}
  Free = free
  Wild = wild
  Addresses <- MCSixAddresses
  BreakAddresses <- MCBreakAddresses
  Counts <- MCCounts
  Codes <- MCSystemCalls
  Instructions <- MCInstructions
  Chunks <- MCSmallChunks
  Before = before
  On = memory_read
  MaxBreaks = 2
  MaxOn = 2
SPECIFICATION Spec
INVARIANTS EveryStepOverStops
CHECK_DEADLOCK FALSE
