SPECIFICATION InstanceFairSpec
CONSTANTS
  l1 = l1
  l2 = l2
  l3 = l3
  Nobody = Nobody
  Launches <- ThreeLaunches
  Garbled = Garbled
  InheritedPaths <- Inherited
  LoginPaths <- LoginAnswers
  Mangled <- Lossy
  ShellTimeout = 3
  ActivationTimeout = 1
INVARIANTS InstanceTypeOK OnePrimary ListenerHoldsLock
PROPERTIES LaunchSettles RequestsAnswered PathRestored
CHECK_DEADLOCK FALSE
