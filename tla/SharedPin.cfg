CONSTANTS
  on = on
  timer = timer
  none = none
  Sources <- MCSources
  OnKey = on
  AckPort = TRUE
  Bytes <- MCBytes
  Nothing = none
  Assisted = TRUE
  Timer = timer
  MainMasks <- MCMainMasks
  LinkMasks <- MCLinkMasks
  MaxDepth = 2
SPECIFICATION FairSpec
INVARIANT HandlersDoNotNest
PROPERTIES SeenBeforeGone OnlyTheOtherDeviceHides EventuallySeen ImplementsDiscipline
