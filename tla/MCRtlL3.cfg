SPECIFICATION Spec
CONSTANTS
  OrderIds <- MCOrderIds
  ShareCounts <- MCShareCounts
  Prices <- MCPrices
  L3_ADDRS = 2
  L3_LINE_SIZE = 1
  L3_CAM_SIZE = 2
INVARIANTS
  TypeOK
  LinesHoldLive
  NeverFoundTwice
  ErrorMeansFull
PROPERTY ImplementsStore
CHECK_DEADLOCK FALSE
ACTION_CONSTRAINT LeastFreeId
VIEW Used
CONSTRAINT TwoShares
