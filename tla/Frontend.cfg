CONSTANTS
  on = on
  timer1 = timer1
  link = link
  rshift = rshift
  backspace = backspace
  enter = enter
  escape = escape
  Sources <- MCSources
  OnKey = on
  AckPort = TRUE
  Codes <- MCCodes
  HostKeys <- MCHostKeys
  KeyCode <- MCKeyCode
  Rows = 2
  RowBits = 6
  Long = 3
  Short = 2
  YLimit = 4
  Width = 5
  Garbage <- MCGarbage
  Words <- MCWords
  MaxWrites = 2
  MaxMoves = 5
SPECIFICATION FaceSpec
INVARIANTS PinTracksPending KeysSeen ScreenCurrent CursorWalks
