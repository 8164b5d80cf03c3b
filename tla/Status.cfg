SPECIFICATION FairSpec
CONSTANTS
  Workers <- MCWorkers
  Scope <- MCScope
  GatewayUid <- MCGatewayUid
  Gateways = {1, 2}
  RouteSpecs <- MCRouteSpecs
  GatewaySpecs = {"s", "t"}
  Services <- MCServices
  MaxEdits = 1
INVARIANTS RouteObserved OwnAddress
PROPERTIES OthersKept StatusSettles WritesCease
