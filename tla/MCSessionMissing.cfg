SPECIFICATION Spec
CONSTANTS
  own = own
  other = other
  here = here
  there = there
  Symbols = {own, other}
  MarketCodes = {here, there}
  locate_of <- MCLocates
  stock_symbol = own
  market_code = here
  DirectoryRepeats = FALSE
  MaxAhead = 2
  MaxCount = 2
  MaxLate = 1
INVARIANT NoMessageMissing
VIEW Relative
CHECK_DEADLOCK FALSE
