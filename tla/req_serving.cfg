SPECIFICATION Spec
CONSTANTS
  Clients = {x1}
  Nil = Nil
  proxyAddr = proxyAddr
  client = client
  other = other
  Addresses <- MCAddresses
  Kinds <- MCKinds
  Ingresses <- MCIngresses
  Commons <- MCCommons
  IntMax = 8191
  MaxBody = 2000
INVARIANTS TypeOK OneResponse CheckedBeforeUpstream ModuleHeadersWin BodyWithinLimit OneWriter NothingLeftOpen
PROPERTIES StreamsEnd OneEndsBoth
