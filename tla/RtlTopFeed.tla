----------------------------- MODULE RtlTopFeed -----------------------------
(***************************************************************************)
(* The hardware top and the reference model side by side, as sim_top.py    *)
(* runs them: the payload of a packet goes to the hardware word by word,   *)
(* with gaps (axis_driver.py), while the reference takes in each message   *)
(* with the word that holds its first byte; the results it expects wait in *)
(* a queue (monitors.py).  Packets are accepted ones: RtlMold models the   *)
(* packet parser.                                                          *)
(***************************************************************************)
EXTENDS RtlTop, RtlPace

CONSTANTS Packets,        \* that may be sent while the stock is closed
          OpenPackets,    \* and while it is open
          MaxGaps         \* clocks without a word in a packet

(* A message as the packet parser hands it on: of 4 to 254 bytes (RtlMold).  *)
WireMsg == [type : STRING, len : 4 .. 254, valid_code : BOOLEAN, body : ITCHMsg]

ASSUME RtlTopAssumption ==
  /\ init_stock_symbol \in Symbols /\ init_market \in MarketCodes
  /\ MaxGaps \in Nat
  /\ Packets \cup OpenPackets \subseteq {pkt \in Seq(WireMsg) :
       \A i \in DOMAIN pkt : pkt[i].body.kind = KindOf(pkt[i].type)}

VARIABLES pkt, at,     \* the packet, and its word of this clock, counted from 0
          gaps,        \* gaps left in it
          refused,     \* what the reference has refused: nothing, or ...
          expected,    \* results it expects
          quiet,       \* clocks since the last lookup, see RtlPace
          shown_ids,   \* the ids whose address the last two clocks showed
          failed,      \* error_o has been high
          initialized, msg_hours, sys_hours, mkt_hours,
          stock_halt, market_halt, ctrl_locate

model_vars == <<initialized, msg_hours, sys_hours, mkt_hours, stock_halt, market_halt, ctrl_locate>>

vars == <<top_regs, pkt, at, gaps, refused, expected, quiet, shown_ids, failed, model_vars>>

Ctrl == INSTANCE Control
          WITH stock_locate <- ctrl_locate, stock_symbol <- init_stock_symbol, market_code <- init_market

----------------------------------------------------------------------------
(* The reference model. *)

OwnOrder(msg) == msg.kind = "BOOK" /\ msg.stock_locate = ctrl_locate

(* What the hardware does not look at: it drops the messages of other      *)
(* stocks and those it ignores before Control sees them, and has none of   *)
(* the assertions.                                                         *)
Unwatched(msg) ==
  \/ Ctrl!Outcome(msg) = "assert"
  \/ msg.kind = "IGNORE"
  \/ msg.kind = "BOOK" /\ ctrl_locate # NoLocate /\ ~OwnOrder(msg)

(* Top's answer to a message: nothing else is handled after an error.      *)
Verdict(msg) ==
  CASE Malformed(msg) -> "error"
    [] ~Malformed(msg) /\ Ctrl!Outcome(msg.body) # "ok" ->
         IF Unwatched(msg.body) THEN "unwatched" ELSE "error"
    [] ~Malformed(msg) /\ Ctrl!Outcome(msg.body) = "ok"
         /\ msg.body.kind = "BOOK" /\ ctrl_locate = NoLocate -> "error"
    [] OTHER -> "no"

Beginning == {i \in DOMAIN pkt : Start(pkt, i) \div 4 = at}

(* The result of this clock is taken off the queue.                        *)
Left == IF bbo_res_o.valid /\ expected # <<>> THEN Tail(expected) ELSE expected

(* The reference takes in the message that begins with this word.          *)
Take(i) ==
  /\ refused' = Verdict(pkt[i])
  /\ IF Malformed(pkt[i]) THEN UNCHANGED model_vars ELSE Ctrl!ProcessMsg(pkt[i].body)
  /\ expected' = IF refused' = "no" /\ OwnOrder(pkt[i].body)
                 THEN Append(Left, [of |-> i, shown |-> Ctrl!StockActive])
                 ELSE Left

TakeNone ==
  /\ expected' = Left
  /\ UNCHANGED <<refused, model_vars>>

----------------------------------------------------------------------------
(* A clock, with or without a word.  The tests reset the hardware after an *)
(* error, so the run ends with the first.                                  *)
Clock(v, init_v) ==
  /\ ~failed
  /\ \E refills \in {FALSE, TakesShares(bbo_dec_book)} :
       TopClock(pkt, at, v, v /\ at + 1 = WordsOf(pkt), init_v, refills)
  /\ failed' = error_o(pkt)
  /\ quiet' = QuietAfter(quiet, lookup)
  /\ shown_ids' = <<shown_ids[2], order_id_d(pkt, at, v /\ state_q # "IDLE")>>

(* Clocks behind a packet's last word, the header of the next among them. *)
DRAIN == 4

Between == pkt = <<>> /\ at = DRAIN

Initialize ==
  /\ Between /\ ~initialized
  /\ Clock(FALSE, TRUE)
  /\ Ctrl!InitParams
  /\ expected' = Left
  /\ UNCHANGED <<pkt, at, gaps, refused>>

Sent == IF Ctrl!StockActive THEN OpenPackets ELSE Packets

(* With the last word of its header a packet is on its way. *)
Send ==
  /\ Between
  /\ refused = "no"
  /\ pkt' \in Sent
  /\ at' = 0
  /\ gaps' = MaxGaps
  /\ Clock(FALSE, FALSE)
  /\ TakeNone

Arrive ==
  /\ at < WordsOf(pkt)
  /\ Clock(TRUE, FALSE)
  /\ IF refused = "no" /\ Beginning # {} THEN \E i \in Beginning : Take(i) ELSE TakeNone
  /\ at' = at + 1
  /\ UNCHANGED <<pkt, gaps>>

Gap ==
  /\ at < WordsOf(pkt)
  /\ gaps > 0
  /\ gaps' = gaps - 1
  /\ Clock(FALSE, FALSE)
  /\ TakeNone
  /\ UNCHANGED <<pkt, at>>

Rest ==
  /\ at >= WordsOf(pkt)
  /\ at < WordsOf(pkt) + DRAIN \/ Between
  /\ Clock(FALSE, FALSE)
  /\ TakeNone
  /\ at' = IF Between THEN at ELSE at + 1
  /\ UNCHANGED <<pkt, gaps>>

(* No clock: the bytes of a packet that is over, which registers may still *)
(* hold, are no byte of the next.                                          *)
Forget ==
  /\ ~failed
  /\ pkt # <<>> /\ at = WordsOf(pkt) + DRAIN
  /\ pkt' = <<>> /\ at' = DRAIN /\ gaps' = 0
  /\ dec_book_q' = [dec_book_q EXCEPT !.order_id = NoByte]
  /\ shown_ids' = <<NoByte, NoByte>>
  /\ UNCHANGED <<state_q, bytes_left_q, msg_alt_q, match_locate_q, dec_ctrl_o, dec_book_del_q,
                 ip_error, ctrl_regs, book_time, bbo_res_o,
                 refused, expected, quiet, failed, model_vars>>

Init ==
  /\ InitRtlTop
  /\ Ctrl!InitControl
  /\ pkt = <<>> /\ at = DRAIN /\ gaps = 0
  /\ refused = "no"
  /\ expected = <<>>
  /\ quiet = LongQuiet
  /\ shown_ids = <<NoByte, NoByte>>
  /\ failed = FALSE

Next == Initialize \/ Send \/ Arrive \/ Gap \/ Rest \/ Forget

Spec == Init /\ [][Next]_vars

----------------------------------------------------------------------------
(* Each result that leaves is that of the next order message the reference *)
(* has answered, shown or hidden as the reference shows or hides it, even  *)
(* when the message behind it closes the stock (top.sv, stock_active; the  *)
(* comparison of TopMonitor._process_cycle); and it leaves within five     *)
(* clocks of the payload's last word, the sixth being the packet parser's  *)
(* (README.md:16): before the next packet's first.                         *)
ResultsMatch ==
  ~failed =>
    /\ bbo_res_o.valid /\ refused = "no" => expected # <<>>
    /\ bbo_res_o.valid /\ expected # <<>> =>
         bbo_res_o.of = Head(expected).of /\ bbo_res_o.shown = Head(expected).shown
    /\ at = 0 => expected = <<>>

(* Between packets Control holds in the hardware what it holds in the      *)
(* reference (sim_control.py compares the results only).                   *)
ControlAgrees ==
  Between /\ refused = "no" /\ ~failed =>
    /\ initialized_q = initialized
    /\ <<msg_hours_q, system_hours_q, market_hours_q>> = <<msg_hours, sys_hours, mkt_hours>>
    /\ <<stock_halt_q, market_halt_q>> = <<stock_halt, market_halt>>
    /\ stock_locate_q = [valid |-> ctrl_locate # NoLocate, stock_locate |-> ctrl_locate]

(* The hardware reports an error only in a packet the reference refuses.   *)
NoFalseAlarm == failed => refused # "no"

(* A packet the reference refuses is over only with an error reported, but *)
(* for what the hardware does not look at.                                 *)
NoErrorMissed == Between /\ refused = "error" => failed

(* However the messages of a packet lie behind each other, lookups are as  *)
(* far apart as the order table and the book need them to be (the          *)
(* assumption of RtlL3Feed and RtlBookFeed).                               *)
KeepsPace == lookup.valid => quiet >= Needed(lookup.msg_type)

(* The fields of a message passed on are its own, each from its place,     *)
(* whatever the place of the message in its words (itch_parser.sv:166-173).*)
FieldsAligned ==
  /\ dec_book_q.valid =>
       LET i == dec_book_q.order_id[1]
           type == pkt[i].type
           new == dec_book_q.msg_type = "REPLACE"
       IN  /\ pkt[i].body = [kind |-> "BOOK", stock_locate |-> stock_locate_q.stock_locate]
           /\ dec_book_q.order_id[2] = IF new THEN NEW_ID ELSE SYMBOL
           /\ CASE dec_book_q.msg_type = "ADD" ->
                      type \in {"A", "F"} /\ dec_book_q.fields = << <<i, CODE>>, <<i, HALT>>, <<i, PRICE>> >>
                [] dec_book_q.msg_type = "REDUCE" ->
                      type \in {"E", "C", "X"} /\ dec_book_q.fields = << <<i, CODE>> >>
                [] dec_book_q.msg_type = "DELETE" ->
                      type = (IF dec_book_q.has_rep THEN "U" ELSE "D")
                [] dec_book_q.msg_type = "REPLACE" ->
                      type = "U" /\ dec_book_q.fields = << <<i, NEW_SHARES>>, <<i, NEW_PRICE>> >>
  /\ dec_ctrl_o.valid =>
       LET i == dec_ctrl_o.fields[1][1]
       IN  dec_ctrl_o.fields =
             CASE pkt[i].type = "S" -> << <<i, SYMBOL>> >>
               [] pkt[i].type = "R" -> << <<i, LOCATE>>, <<i, SYMBOL>> >>
               [] pkt[i].type = "H" -> << <<i, LOCATE>>, <<i, SYMBOL>>, <<i, CODE>> >>
               [] pkt[i].type = "h" -> << <<i, LOCATE>>, <<i, SYMBOL>>, <<i, CODE>>, <<i, HALT>> >>

(* The address of an order is shown for the two clocks before its message  *)
(* (README.md:62; the assumption of RtlL3Feed).                            *)
AddressInTime == dec_book_q.valid => shown_ids = <<dec_book_q.order_id, dec_book_q.order_id>>
=============================================================================
