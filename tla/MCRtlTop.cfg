SPECIFICATION Spec
CONSTANTS
  own = own
  other = other
  here = here
  there = there
  Symbols = {own, other}
  MarketCodes = {here, there}
  locate_of <- MCLocates
  init_stock_symbol = own
  init_market = here
  Packets <- MCPackets
  OpenPackets <- MCOpenPackets
  MaxGaps = 1
VIEW Live
INVARIANTS
  ResultsMatch
  ControlAgrees
  NoFalseAlarm
  NoErrorMissed
  KeepsPace
  FieldsAligned
  AddressInTime
CHECK_DEADLOCK FALSE
