SPECIFICATION DesktopFairSpec
CONSTANTS
  good = good
  better = better
  NoConfig = NoConfig
  Broken = Broken
  Configs <- AllConfigs
  Unroutable <- None
  Unlaunchable <- None
  MaxStarts = 2
INVARIANTS ShownIsTrue UnsavedEditsOnScreen WorkInv
PROPERTIES ShutDownStops BusyEnds QuitExits
CHECK_DEADLOCK FALSE
