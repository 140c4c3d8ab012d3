SPECIFICATION Spec
CONSTANTS
  OrderIds <- MCOrderIds
  ShareCounts <- MCShareCounts
  Prices <- MCPrices
  L3_ADDRS = 2
  L3_LINE_SIZE = 1
  L3_CAM_SIZE = 1
  SpillLogRaises = TRUE
INVARIANT SpillNeverRaises
CHECK_DEADLOCK FALSE
