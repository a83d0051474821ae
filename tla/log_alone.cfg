SPECIFICATION Spec
CONSTANTS
  web = web
  api = api
  p1 = p1
  p2 = p2
  NoService = NoService
  NoPid = NoPid
  Services <- OnlyWeb
  AutoStart <- OnlyWeb
  Pids <- TwoPids
  Strange <- TwoPids
  MaxLaunches = 2
  MaxRestarts = 1
SYMMETRY PidSymmetry
INVARIANTS LogOwnedAlone
