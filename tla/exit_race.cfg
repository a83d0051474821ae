SPECIFICATION DesktopSpec
CONSTANTS
  good = good
  better = better
  NoConfig = NoConfig
  Broken = Broken
  Configs <- AllConfigs
  Unroutable <- None
  Unlaunchable <- None
  MaxStarts = 1
INVARIANT NothingOutlivesExit

CHECK_DEADLOCK FALSE
