---------------------------- MODULE SessionTypes ----------------------------
(***************************************************************************)
(* What the stages before the order book tell apart: MoldUDP64 packets and *)
(* the ITCH messages in them (src/ref_model/structs.py, itch_parser.py).   *)
(***************************************************************************)
EXTENDS Integers

CONSTANTS Symbols,       \* the stocks of the feed
          MarketCodes,   \* the markets an operational halt can name
          locate_of      \* the stock_locate the exchange gives each stock

ASSUME LocateAssumption ==
  \A s, t \in Symbols : s # t => locate_of[s] # locate_of[t]

NoLocate == "none"

Locates == {locate_of[s] : s \in Symbols}

ASSUME NoLocateAssumption == NoLocate \notin Locates

(* The events of a day, in the order in which an exchange sends them. *)
EventCodes == <<"MSG_BEGIN", "SYS_BEGIN", "MKT_BEGIN", "MKT_END", "SYS_END", "MSG_END">>

(* An ITCH message after parsing.  PAUSE acts as HALT and QUOTE as TRADE.  *)
(* BOOK is any order message: the order book has a model of its own.       *)
SystemEventMsg == [kind : {"EVENT"}, event_code : {EventCodes[i] : i \in DOMAIN EventCodes}]
DirectoryMsg   == [kind : {"DIRECTORY"}, stock_symbol : Symbols, stock_locate : Locates]
TradeActionMsg == [kind : {"ACTION"}, stock_symbol : Symbols, trade_action : {"HALT", "TRADE"}]
OpHaltMsg      == [kind : {"HALT"}, stock_symbol : Symbols, market_code : MarketCodes,
                   is_halt : BOOLEAN]
ITCHBookMsg    == [kind : {"BOOK"}, stock_locate : Locates]
IgnoreMsg      == [kind : {"IGNORE"}]

ITCHMsg == SystemEventMsg \cup DirectoryMsg \cup TradeActionMsg \cup OpHaltMsg
             \cup ITCHBookMsg \cup IgnoreMsg
=============================================================================
