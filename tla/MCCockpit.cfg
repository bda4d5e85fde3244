SPECIFICATION Spec
CONSTANTS
  NONE = none
  PANIC = panic
  Alerts = {a1, a2}
  Routes = {r1}
  Requests = {h1, h2}
  Pages = {p1}
  Loads = {l1, l2}
  Listens <- MCListens
  Conditions = {late}
  MaxChanges = 2
INVARIANT OneOpenDeviation
INVARIANT StaleHasCause
PROPERTY PanicReachesScreen
