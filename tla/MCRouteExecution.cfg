SPECIFICATION FairSpec
CONSTANTS
  route1 = route1
  order1 = order1
  pick1 = pick1
  drop1 = drop1
  Routes = {route1}
  Orders = {order1}
  Stops = {pick1, drop1}
  Drivers = {ana, beto}
  Staff = staff
  None = none
  Handlers = {h1, h2}
  Faults = TRUE
  RouteOf <- MCRouteOf
  OrderOf <- MCOrderOf
  KindOf <- MCKindOf
INVARIANT DeliveredHasPod
INVARIANT ToldOnceAfterCommit
INVARIANT ClosedRouteAttended
PROPERTY ImplementsLedger
PROPERTY FinishedRouteCloses
