SPECIFICATION BackgroundSpec
CONSTANTS
  Actions = {arrive, complete, fail}
  MaxFaults = 3
  MaxCommands = 3
  RequestsFail = TRUE
  r1 = r1
  r2 = r2
  p1 = p1
  p2 = p2
  p3 = p3
  Routes = {r1, r2}
  Pings = {p1, p2, p3}
  RouteOf <- MCRouteOf
  Jobs = {j1}
  MaxRoutes = 1
  BatchSize = 1
  MaxBatches = 2
  MaxCrashes = 1
CHECK_DEADLOCK FALSE
INVARIANT SettledActionsKept
INVARIANT RunOnceInOrder
INVARIANT RowMatchesEngine
INVARIANT HistoryKept
PROPERTY QueueDrains
PROPERTY CommandsAcked
PROPERTY BuiltOnce
PROPERTY TracksAreBuilt
