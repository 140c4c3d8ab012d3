SPECIFICATION Spec
CONSTANTS
  L2_MEM_SIZE = 4
  L2_BLOCK_W = 2
  PriceBase = 100
  Bids <- MCBids
  Offers <- MCOffers
  ShareCounts <- MCShareCounts
  MaxShares = 4
  InitDelay = 2
  CountsAtReset <- MCCountsAtReset
  OldContents <- MCOldContents
INVARIANTS
  TypeOK
  L2Holds
  BBOExact
  ResultExact
  NoFalseError
  PriceKnown
PROPERTIES
  EveryMessageAnswered
  BecomesReady
