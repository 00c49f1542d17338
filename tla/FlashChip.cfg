CONSTANTS
  FlashPages = 32
  Cells <- MCCells
  Bytes <- MCBytes
SPECIFICATION Spec
INVARIANT RecordInv
PROPERTIES ImplementsCommands
