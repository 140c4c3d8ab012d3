----------------------------- MODULE RtlControl -----------------------------
(***************************************************************************)
(* The hardware control module (rtl/module/control.sv): one clock takes    *)
(* the initialization inputs, what the ITCH parser decoded for it, and     *)
(* whether it decoded an order message in the clock.                       *)
(***************************************************************************)
EXTENDS SessionTypes

CONSTANTS init_stock_symbol, init_market

VARIABLES initialized_q, msg_hours_q, system_hours_q, market_hours_q,
          stock_locate_q,             \* [valid, stock_locate]
          stock_halt_q, market_halt_q

ctrl_regs == <<initialized_q, msg_hours_q, system_hours_q, market_hours_q,
               stock_locate_q, stock_halt_q, market_halt_q>>

(* No message of the kind, in this clock. *)
NoMsg == [kind |-> "NONE"]

stock_active_o ==
  initialized_q /\ msg_hours_q /\ system_hours_q /\ ~stock_halt_q /\ ~market_halt_q

OfStock(msg) == msg.stock_symbol = init_stock_symbol

Says(msg, code) == msg.kind = "EVENT" /\ msg.event_code = code

(* Mutant: the message that begins the hours comes outside them. *)
ErrorUntilHours(msg, dec_book_v) == (msg # NoMsg \/ dec_book_v) /\ ~msg_hours_q

error_msg_hours(msg, dec_book_v) ==
  (msg # NoMsg \/ dec_book_v) /\ ~msg_hours_q /\ ~Says(msg, "MSG_BEGIN")

(* The locate is overwritten all the same. *)
error_stock_locate(msg) ==
  /\ msg.kind = "DIRECTORY"
  /\ OfStock(msg)
  /\ stock_locate_q.valid /\ stock_locate_q.stock_locate # msg.stock_locate

(* Mutant: an order message outside the hours passes. *)
CtrlErrorOfControl(msg, dec_book_v) ==
  \/ (msg # NoMsg \/ dec_book_v) /\ ~initialized_q
  \/ error_msg_hours(msg, FALSE)
  \/ error_stock_locate(msg)

ctrl_error(msg, dec_book_v) ==
  \/ (msg # NoMsg \/ dec_book_v) /\ ~initialized_q
  \/ error_msg_hours(msg, dec_book_v)
  \/ error_stock_locate(msg)

Hours(msg) ==
  LET Switched(flag, on, off) ==
        CASE Says(msg, on) -> TRUE [] Says(msg, off) -> FALSE [] OTHER -> flag
  IN  /\ msg_hours_q' = Switched(msg_hours_q, "MSG_BEGIN", "MSG_END")
      /\ system_hours_q' = Switched(system_hours_q, "SYS_BEGIN", "SYS_END")
      /\ market_hours_q' = Switched(market_hours_q, "MKT_BEGIN", "MKT_END")

(* Mutant: a halt at any market halts the stock. *)
HaltsOfAnyMarket(msg) ==
  /\ stock_halt_q' = IF msg.kind = "ACTION" /\ OfStock(msg)
                     THEN msg.trade_action = "HALT" ELSE stock_halt_q
  /\ market_halt_q' = IF msg.kind = "HALT" /\ OfStock(msg) THEN msg.is_halt ELSE market_halt_q

Halts(msg) ==
  /\ stock_halt_q' = IF msg.kind = "ACTION" /\ OfStock(msg)
                     THEN msg.trade_action = "HALT" ELSE stock_halt_q
  /\ market_halt_q' = IF msg.kind = "HALT" /\ OfStock(msg) /\ msg.market_code = init_market
                      THEN msg.is_halt ELSE market_halt_q

ControlClock(init_v, msg) ==
  /\ initialized_q' = (initialized_q \/ init_v)
  /\ Hours(msg)
  /\ stock_locate_q' = IF msg.kind = "DIRECTORY" /\ OfStock(msg)
                       THEN [valid |-> TRUE, stock_locate |-> msg.stock_locate]
                       ELSE stock_locate_q
  /\ Halts(msg)

InitRtlControl ==
  /\ initialized_q = FALSE
  /\ msg_hours_q = FALSE /\ system_hours_q = FALSE /\ market_hours_q = FALSE
  /\ stock_locate_q = [valid |-> FALSE, stock_locate |-> NoLocate]
  /\ stock_halt_q = TRUE /\ market_halt_q = FALSE
=============================================================================
