SPECIFICATION MCFairSpec
CONSTANTS
  Agents = {a1, a2}
  Routes = {r}
  RouteOf <- MCRouteOf
  Conns = {k1, k2}
  Calls = {x1, x2}
  MaxHandlers = 2
  NoConn = NoConn
  NoAgent = NoAgent
  NoCall = NoCall
  MaxFaults = 1
INVARIANTS
  TypeOK
  RegistryIsExact
  RequestsAreAnswered
  ConnectionsAreSound
PROPERTIES
  RouteIsServed
CHECK_DEADLOCK FALSE
