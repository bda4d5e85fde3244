SPECIFICATION Spec
CONSTANTS
  Routes = {r1, r2}
  Orders = {a, b}
  Pickups = {}
  Dispatchers = {d1}
  Faults = FALSE
PROPERTY AttendedStaysAttended
