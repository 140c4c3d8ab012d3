SPECIFICATION Spec
CONSTANTS
  OrderIds <- MCOrderIds
  ShareCounts <- MCShareCounts
  Prices <- MCPrices
  Quotes <- MCQuotes
  L3_ADDRS = 1
  L3_LINE_SIZE = 4
  L3_CAM_SIZE = 1
  SpillLogRaises = TRUE
  L2_MEM_SIZE = 4
  BBO_DEPTH = 2
  price_base = 100
INVARIANTS
  TypeOK
  L3FollowsExchange
  L2AggregatesL3
  BBOExact
  NoAssertionFails
CONSTRAINTS
  ExpandOnce
  ShortAfterLoss
ACTION_CONSTRAINT LeastFreeId
VIEW UpToIds
PROPERTY ImplementsOrderBook
CHECK_DEADLOCK FALSE
