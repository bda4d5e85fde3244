SPECIFICATION DaySpec
CONSTANTS
  s1 = s1
  arrive = arrive
  deliver = deliver
  Actions = {arrive, deliver}
  MaxFaults = 1
  Stops = {s1}
  StopOf <- MCStopOf
  KindOf <- MCKindOf
  Desks = {d1, d2}
  Starts = {k1}
  Me = me
  Other = other
  None = none
  MaxLoads = 2
CHECK_DEADLOCK FALSE
PROPERTY HandedOverOnce
PROPERTY ViewCatchesUp
