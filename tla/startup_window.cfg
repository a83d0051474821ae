SPECIFICATION InstanceSpec
CONSTANTS
  l1 = l1
  l2 = l2
  l3 = l3
  Nobody = Nobody
  Launches <- ThreeLaunches
  Garbled = Garbled
  InheritedPaths <- Inherited
  LoginPaths <- LoginAnswers
  Mangled <- Lossy
  ShellTimeout = 10
  ActivationTimeout = 3
PROPERTY StartupCovered
CHECK_DEADLOCK FALSE
