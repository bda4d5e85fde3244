SPECIFICATION TenancySpec
CONSTANTS
  EV = EV
  TELEMATICS = TELEMATICS
  SAFETY = SAFETY
  None = none
  Nobody = nobody
  Modules = {EV, TELEMATICS, SAFETY}
  Core = {EV}
  Requires <- Needs
  Presets <- MCPresets
  Selections <- MCSelections
  Requests = {r1, r2}
  Operators = {p1, p2}
  Tenants = {t1, t2}
  Users = {u1, u2, u3}
  Emails = {e1, e2}
  Ids = {d1, d2, d3}
  Processes = {a, b}
  Lookups = {k1}
  Ttl = 2
  Latency = 1
  MaxTime = 4
SYMMETRY Symmetry
CHECK_DEADLOCK FALSE
INVARIANT StaleAtMostTtl
INVARIANT AdminStays
INVARIANT OneMainDepot
PROPERTY RequirementsKept
