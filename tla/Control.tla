------------------------------ MODULE Control ------------------------------
(***************************************************************************)
(* The control module of the reference model (src/ref_model/control.py):   *)
(* follows the day's events, the halts of one stock and the locate code    *)
(* under which its orders travel.                                          *)
(***************************************************************************)
EXTENDS SessionTypes

CONSTANTS stock_symbol,  \* the stock init_params asks for
          market_code    \* the market init_params asks for

VARIABLES initialized, msg_hours, sys_hours, mkt_hours, stock_halt, market_halt,
          stock_locate

control_vars == <<initialized, msg_hours, sys_hours, mkt_hours,
                  stock_halt, market_halt, stock_locate>>

IsEvent(msg, code) == msg.kind = "EVENT" /\ msg.event_code = code

ForStock(msg) == msg.stock_symbol = stock_symbol

(* Mutant: a halt at any market halts the stock. *)
ForAnyMarket(msg) == ForStock(msg)

ForMarket(msg) == ForStock(msg) /\ msg.market_code = market_code

(* An assertion of process_msg: an event or an operational halt that       *)
(* repeats what the module already holds.                                  *)
Redundant(msg) ==
  \/ IsEvent(msg, "MSG_BEGIN") /\ msg_hours
  \/ IsEvent(msg, "SYS_BEGIN") /\ sys_hours
  \/ IsEvent(msg, "MKT_BEGIN") /\ mkt_hours
  \/ IsEvent(msg, "MKT_END") /\ ~mkt_hours
  \/ IsEvent(msg, "SYS_END") /\ ~sys_hours
  \/ IsEvent(msg, "MSG_END") /\ ~msg_hours
  \/ msg.kind = "HALT" /\ ForMarket(msg) /\ market_halt = msg.is_halt

(* A second directory message that moves the stock to another locate. *)
MovesStock(msg) ==
  /\ msg.kind = "DIRECTORY"
  /\ ForStock(msg)
  /\ stock_locate \notin {NoLocate, msg.stock_locate}

(* What process_msg returns, or "assert". *)
Outcome(msg) ==
  CASE ~initialized                                    -> "uninitialized"
    [] initialized /\ Redundant(msg)                   -> "assert"
    [] initialized /\ MovesStock(msg)                  -> "locate_mismatch"
    [] initialized /\ ~Redundant(msg) /\ ~MovesStock(msg)
         /\ ~msg_hours /\ ~IsEvent(msg, "MSG_BEGIN")   -> "not_msg_hours"
    [] OTHER                                           -> "ok"

StockActive == msg_hours /\ sys_hours /\ ~stock_halt /\ ~market_halt

(* Mutant: the directory entry of any stock sets the locate. *)
LocateResultOfAny(msg) == IF msg.kind = "DIRECTORY" THEN msg.stock_locate ELSE NoLocate

(* The result's stock_locate: the stock's, on every directory message.     *)
LocateResult(msg) ==
  IF msg.kind = "DIRECTORY" /\ ForStock(msg) THEN msg.stock_locate ELSE NoLocate

Event(msg) ==
  LET Switched(flag, on, off) ==
        CASE IsEvent(msg, on) -> TRUE [] IsEvent(msg, off) -> FALSE [] OTHER -> flag
  IN  /\ msg_hours' = Switched(msg_hours, "MSG_BEGIN", "MSG_END")
      /\ sys_hours' = Switched(sys_hours, "SYS_BEGIN", "SYS_END")
      /\ mkt_hours' = Switched(mkt_hours, "MKT_BEGIN", "MKT_END")

Directory(msg) ==
  stock_locate' = IF LocateResult(msg) = NoLocate THEN stock_locate ELSE LocateResult(msg)

TradeAction(msg) ==
  stock_halt' = IF msg.kind = "ACTION" /\ ForStock(msg)
                THEN msg.trade_action = "HALT" ELSE stock_halt

(* Mutant: the check looks at the market, the assignment does not. *)
OpHaltOfAnyMarket(msg) ==
  market_halt' = IF msg.kind = "HALT" /\ ForStock(msg) THEN msg.is_halt ELSE market_halt

OpHalt(msg) ==
  market_halt' = IF msg.kind = "HALT" /\ ForMarket(msg) THEN msg.is_halt ELSE market_halt

(* process_msg.  A message outside message hours is answered with an error *)
(* only after it has changed the state.                                    *)
ProcessMsg(msg) ==
  \/ /\ Outcome(msg) \in {"ok", "not_msg_hours"}
     /\ Event(msg) /\ Directory(msg) /\ TradeAction(msg) /\ OpHalt(msg)
     /\ UNCHANGED initialized
  \/ /\ Outcome(msg) \in {"uninitialized", "assert", "locate_mismatch"}
     /\ UNCHANGED control_vars

(* init_params, which asserts that it is called once. *)
InitParams ==
  /\ ~initialized
  /\ initialized' = TRUE
  /\ UNCHANGED <<msg_hours, sys_hours, mkt_hours, stock_halt, market_halt, stock_locate>>

InitControl ==
  /\ initialized = FALSE
  /\ msg_hours = FALSE /\ sys_hours = FALSE /\ mkt_hours = FALSE
  /\ stock_halt = TRUE
  /\ market_halt = FALSE
  /\ stock_locate = NoLocate
=============================================================================
