SPECIFICATION ManagerFairSpec
CONSTANTS
  good = good
  better = better
  badRoute = badRoute
  badCommand = badCommand
  NoConfig = NoConfig
  Broken = Broken
  Configs <- AllConfigs
  Unroutable <- BadRoutes
  Unlaunchable <- BadCommands
  MaxStarts = 3
INVARIANTS ManagerInv RunningExactlyWhileServing OneGeneration AnswerHonest
PROPERTIES DownOnlyForCause
