SPECIFICATION Spec
CONSTANTS
  web = web
  api = api
  p1 = p1
  p2 = p2
  NoService = NoService
  NoPid = NoPid
  Services <- WebAndApi
  AutoStart <- WebAndApi
  Pids <- TwoPids
  Strange <- NoPids
  MaxLaunches = 2
  MaxRestarts = 0
SYMMETRY Symmetry
INVARIANTS IInv OneLiveTree NoUntrackedTree SnapshotHonest OnlyCaptureWrites 
  StopAllLeavesNothing
PROPERTIES ImplementsSlots
