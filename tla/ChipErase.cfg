CONSTANTS
  FlashPages = 32
  Cells <- MCCells
  Bytes <- MCBytes
SPECIFICATION Spec
PROPERTY ChipEraseErases
