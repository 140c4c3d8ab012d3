------------------------------ MODULE MCRtlTop ------------------------------
(* Two stocks and two markets, the configured ones and another of each.    *)
(* Every message alone; an order and any message behind it, which then     *)
(* begins at any of the four places in a word; while the stock is open     *)
(* also two messages behind an ignored one of any length.                  *)
EXTENDS RtlTopFeed, TLC

CONSTANTS own, other, here, there

MCLocates == (own :> "1") @@ (other :> "2")

Msg(type, body) ==
  [type |-> type, len |-> IF type \in DOMAIN msg_len THEN msg_len[type] ELSE 20,
   valid_code |-> TRUE, body |-> body]

Ignored == [kind |-> "IGNORE"]
Order(stock) == [kind |-> "BOOK", stock_locate |-> locate_of[stock]]

Events == {Msg("S", body) : body \in SystemEventMsg}
Directories == {Msg("R", [kind |-> "DIRECTORY", stock_symbol |-> s, stock_locate |-> locate_of[s]]) : s \in Symbols}
Moves == {Msg("R", [kind |-> "DIRECTORY", stock_symbol |-> own, stock_locate |-> locate_of[other]])}
Actions == {Msg("H", body) : body \in TradeActionMsg}
OpHalts == {Msg("h", body) : body \in OpHaltMsg}
Controls == Events \cup Directories \cup Actions \cup OpHalts

OwnOrders == {Msg(type, Order(own)) : type \in Orders}
OtherOrders == {Msg(type, Order(other)) : type \in Orders}
Ignoreds == {Msg(type, Ignored) : type \in DOMAIN msg_len \ (Orders \cup {"S", "R", "H", "h"})}

(* One thing wrong. *)
Wrong ==
  {[msg EXCEPT !.len = @ + 1] : msg \in OwnOrders \cup Ignoreds \cup Directories}
  \cup {[msg EXCEPT !.valid_code = FALSE] :
          msg \in {m \in OwnOrders \cup Controls : m.type \in {"S", "H", "h", "A", "F"}}}
  \cup {Msg("?", Ignored)}

All == Controls \cup Moves \cup OwnOrders \cup OtherOrders \cup Ignoreds \cup Wrong

(* Ignored messages that leave the next one at each place of a word. *)
Pads == {Msg(type, Ignored) : type \in {"Y", "V", "I", "N"}}

(* What a closed stock may see together. *)
Turns == {Msg("S", [kind |-> "EVENT", event_code |-> code]) : code \in {"MSG_BEGIN", "SYS_BEGIN", "SYS_END"}}
         \cup {Msg("R", [kind |-> "DIRECTORY", stock_symbol |-> own, stock_locate |-> locate_of[own]])}
         \cup {Msg("H", [kind |-> "ACTION", stock_symbol |-> own, trade_action |-> action]) : action \in {"HALT", "TRADE"}}
         \cup {Msg("h", [kind |-> "HALT", stock_symbol |-> own, market_code |-> here, is_halt |-> TRUE])}

(* Messages that close an open stock. *)
Closing == {msg \in Turns : CASE msg.body.kind = "EVENT" -> msg.body.event_code = "SYS_END"
                              [] msg.body.kind = "ACTION" -> msg.body.trade_action = "HALT"
                              [] OTHER -> msg.body.kind = "HALT"}

MCPackets == {<<msg>> : msg \in All} \cup {<<a, b>> : a \in Turns, b \in Turns \cup OwnOrders}

MCOpenPackets ==
  {<<msg>> : msg \in All}
  \cup {<<a, b>> : a \in OwnOrders, b \in All}
  \cup {<<a, b>> : a \in OtherOrders, b \in OwnOrders}
  \cup {<<pad, a, b>> : pad \in Pads, a \in OwnOrders, b \in OwnOrders \cup Closing}

(* Registers that are set again before they are read. *)
Live == <<state_q, bytes_left_q, dec_ctrl_o, dec_book_del_q, dec_book_q, ip_error,
          IF state_q = "IDLE" THEN FALSE ELSE msg_alt_q,
          IF state_q = "IDLE" THEN FALSE ELSE match_locate_q,
          ctrl_regs, book_time, bbo_res_o, pkt, at, gaps, refused, expected, quiet, shown_ids,
          failed, model_vars>>
=============================================================================
