\* Two clients, one port, a host that may do anything.
CONSTANTS
  Clients = {c1, c2}
  NoClient = NoClient
  Result1s = {0, 20}
SPECIFICATION Spec
INVARIANTS TypeOK HostSeesLiveMessage NoOrphanCommand NothingHeldAtExit
PROPERTIES ImplementsExchange StuckOnlyOnHost
