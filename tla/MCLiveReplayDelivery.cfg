CONSTANTS
  Rows <- B2Rows
  DataOrders = {{1, 2}, {2, 3}}
  Tokens = {2, 3}
  Reservoir <- FrozenGroups
  TolNum = 1
  TolDen = 4
  Capacity = 2
  MaxAge = 1
  Steps = 3
SPECIFICATION ReplaySpec
INVARIANT DeliveredRunValidates
CHECK_DEADLOCK FALSE
