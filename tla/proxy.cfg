SPECIFICATION ProxyFairSpec
CONSTANTS
  a1 = a1
  a2 = a2
  c1 = c1
  c2 = c2
  Nobody = Nobody
  Stranger = Stranger
  Addresses <- TwoAddresses
  BindLists <- Lists
  Clients <- TwoClients
  MaxServers = 2
INVARIANTS ProxyInv FreedWhenDown
PROPERTIES ImplementsPromise
