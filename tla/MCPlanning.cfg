SPECIFICATION FleetSpec
CONSTANTS
  Routes = {r1, r2}
  Orders = {a, b}
  Pickups = {a}
  Dispatchers = {d1, d2}
  Faults = TRUE
  Packages = {o1, o2, o3}
  Vehicles = {v1, v2}
  OrderKinds <- MCOrderKinds
  VehicleKinds <- MCVehicleKinds
  Objectives <- MCObjectives
  Points <- MCPoints
  Depot = 0
  Km <- MCKm
  Minutes <- MCKm
  Departure = 0
  MaxRouteDuration = 18
  ServiceTime = 1
  Far = 100
  MaxEdits = 1
  Shares <- MCShares
  MaxOrders = 40
  MaxDrivers = 7
  PerDriver = {1, 4, 9, 18}
  Configs <- MCConfigs
  Profile <- MCProfile
  Clusters <- MCClusters
  Batteries = {486, 1152, 2304}
  Needs = {0, 1, 333, 486, 1001, 1152, 2303, 2305}
  PerVehicle = 3
  MaxRecent = 43
  Open = open
  plan = plan
  go = go
  Pages = {screen}
  Turns = {t1, t2}
  Rows = {plan, go}
  Kind <- MCKind
  Handlers = {h1, h2}
  MAX_LOOP = 2
  NONE = none
SYMMETRY Symmetry
INVARIANT OneRoutePerOrder
INVARIANT AssignedHasDelivery
INVARIANT RoutesAreFeasible
INVARIANT RefusedByAll
INVARIANT ScheduleIsRight
INVARIANT AdviceIsEnough
INVARIANT CardRunsOnce
PROPERTY NoPlanComesBack
PROPERTY InsertionKeepsAttended
CHECK_DEADLOCK FALSE
CONSTRAINT Bounded
