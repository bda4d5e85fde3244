SPECIFICATION DeskSpec
CONSTANTS
  p1 = p1
  p2 = p2
  o1 = o1
  o2 = o2
  o3 = o3
  Proposals = {p1, p2}
  Orders = {o1, o2, o3}
  OrdersOf <- MCOrdersOf
  Handlers = {h1, h2}
  Faults = {"throw", "crash"}
  Refs = {ref}
  NoRef = noref
  IntakeOrders = {i1, i2, i3}
  Requests = {r1, r2}
  MayFail = TRUE
  PlacedOrders = {l1, l2}
  Addresses = {a1}
  AddressOf <- MCAddressOf
  Points = {here}
  Mock = mock
  NoPin = nopin
  LastDay = 2
  Things = {x}
  Lengths = {2}
  Readings = {k1, k2}
  Never = never
SYMMETRY Symmetry
CHECK_DEADLOCK FALSE
INVARIANT NewShipment
