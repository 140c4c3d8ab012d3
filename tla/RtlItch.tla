------------------------------ MODULE RtlItch ------------------------------
(***************************************************************************)
(* The hardware ITCH parser (rtl/module/itch_parser.sv), word by word.  It *)
(* keeps the last 44 bytes and counts down the bytes left of the message;  *)
(* at fixed counts it takes fields from fixed places of the line, shifted  *)
(* by the count modulo four, for a message begins anywhere in a word.      *)
(* Here the value of a field is its first byte (ItchWire).                 *)
(***************************************************************************)
EXTENDS ItchWire

VARIABLES state_q, bytes_left_q,
          msg_alt_q,        \* an 'F' or an 'X'
          match_locate_q,
          dec_ctrl_o,
          dec_book_del_q,   \* a deletion, passed on a clock later
          dec_book_q,
          ip_error          \* an error was reported with the last word

itch_regs == <<state_q, bytes_left_q, msg_alt_q, match_locate_q, dec_ctrl_o,
               dec_book_del_q, dec_book_q, ip_error>>

NoCtrl == [valid |-> FALSE, fields |-> <<>>]

NoBook == [valid |-> FALSE, msg_type |-> "ADD", has_rep |-> FALSE, order_id |-> NoByte, fields |-> <<>>]

----------------------------------------------------------------------------
(* Clocks in which the parser takes something of a message: with words the *)
(* words left, this one included.                                          *)

words_left == (bytes_left_q + 3) \div 4

After == [S |-> "SYS_EVENT", R |-> "DIRECTORY", H |-> "TRADING_ACTION", h |-> "OP_HALT",
          A |-> "ADD", F |-> "ADD", E |-> "EXECUTE", X |-> "EXECUTE", C |-> "EXECUTE_P",
          D |-> "DELETE", U |-> "REPLACE"]

StateOf(type) == IF type \in DOMAIN After THEN After[type] ELSE "IGNORE"

Late == IF msg_alt_q THEN 1 ELSE 0

(* Words left when the locate is compared, when the order id is read, and  *)
(* when the message is passed on.                                          *)
LocateWord ==
  CASE state_q = "ADD" -> 2 + Late
    [] state_q = "EXECUTE" -> 4 - 2 * Late
    [] state_q = "EXECUTE_P" -> 5
    [] state_q = "DELETE" -> 2
    [] state_q = "REPLACE" -> 6
    [] OTHER -> 0

BookWord ==
  CASE state_q = "ADD" -> 1 + Late
    [] state_q = "EXECUTE" -> 3 - 2 * Late
    [] state_q = "EXECUTE_P" -> 4
    [] state_q = "REPLACE" -> 1
    [] OTHER -> 0

(* Mutant: the id of an order is read with its other fields. *)
IdWordsLate ==
  CASE state_q \in {"ADD", "EXECUTE", "EXECUTE_P"} -> {BookWord}
    [] state_q = "DELETE" -> {1}
    [] state_q = "REPLACE" -> {5, 2}
    [] OTHER -> {}

IdWords ==
  CASE state_q \in {"ADD", "EXECUTE", "EXECUTE_P"} -> {LocateWord}
    [] state_q = "DELETE" -> {1}
    [] state_q = "REPLACE" -> {5, 2}
    [] OTHER -> {}

(* Mutant: the first half of a replacement is passed on a word late. *)
DelWordLate == CASE state_q = "DELETE" -> 1 [] state_q = "REPLACE" -> 4 [] OTHER -> 0

DelWord == CASE state_q = "DELETE" -> 1 [] state_q = "REPLACE" -> 5 [] OTHER -> 0

CtrlWord ==
  CASE state_q \in {"SYS_EVENT", "OP_HALT"} -> 1
    [] state_q = "DIRECTORY" -> 6
    [] state_q = "TRADING_ACTION" -> 2
    [] OTHER -> 0

----------------------------------------------------------------------------
(* Where the fields lie in line_shifted: the number of bytes right of the  *)
(* first byte of each.                                                     *)

LocatePlace ==
  CASE state_q = "ADD" -> 34 [] state_q = "EXECUTE" -> 21 [] state_q = "EXECUTE_P" -> 22 [] OTHER -> 17

IdPlace ==
  CASE state_q = "ADD" -> 24 [] state_q = "EXECUTE_P" -> 12
    [] state_q = "REPLACE" /\ words_left = 2 -> 15 [] OTHER -> 11

(* Mutant: an execution with a price is read like one without. *)
BookPlacesOfE ==
  CASE state_q = "ADD" -> <<20, 19, 7>>
    [] state_q \in {"EXECUTE", "EXECUTE_P"} -> <<7>>
    [] OTHER -> <<11, 7>>

BookPlaces ==
  CASE state_q = "ADD" -> <<20, 19, 7>>
    [] state_q = "EXECUTE" -> <<7>>
    [] state_q = "EXECUTE_P" -> <<8>>
    [] OTHER -> <<11, 7>>

CtrlPlaces ==
  CASE state_q = "SYS_EVENT" -> <<4>>
    [] state_q = "DIRECTORY" -> <<21, 11>>
    [] state_q = "TRADING_ACTION" -> <<23, 13, 5>>
    [] OTHER -> <<23, 13, 5, 4>>

Shift == IF bytes_left_q % 4 = 0 THEN 4 ELSE bytes_left_q % 4

(* The byte of line_shifted at a place, word k of the payload having come. *)
line_shifted(pkt, k, place) == ByteAt(pkt, 4 * k + 3 - place + Shift)

Fields(pkt, k, places) == [i \in DOMAIN places |-> line_shifted(pkt, k, places[i])]

----------------------------------------------------------------------------
(* A word in IDLE is the first to hold the length and the type; whatever   *)
(* is read elsewhere than there is an unknown type.                        *)
Header(pkt, k) ==
  LET first == line_shifted(pkt, k, 5)
      msg   == pkt[first[1]]
      known == first[2] = TYPE /\ msg.type \in DOMAIN msg_len
  IN  /\ bytes_left_q' = IF first[2] # TYPE THEN 0
                         ELSE (msg.len - (CASE Shift = 4 -> 2 [] Shift = 1 -> 5
                                            [] Shift = 2 -> 4 [] Shift = 3 -> 3)) % 256
      /\ msg_alt_q' = (known /\ msg.type \in {"F", "X"})
      /\ state_q' = IF known THEN StateOf(msg.type) ELSE "IDLE"
      /\ ip_error' = (known => msg.len # msg_len[msg.type])

Countdown(last) ==
  /\ state_q' = IF bytes_left_q < 5 THEN "IDLE" ELSE state_q
  /\ bytes_left_q' = IF last THEN 0 ELSE (bytes_left_q - 4) % 256

(* A coded field that is none of its letters. *)
BadCode(pkt, bytes) == \E i \in DOMAIN bytes : bytes[i] # NoByte /\ ~pkt[bytes[i][1]].valid_code

(* The rest of a message's words.                                          *)
BodyWord(pkt, k, last, locate) ==
  /\ Countdown(last)
  /\ UNCHANGED msg_alt_q
  /\ ip_error' =
       \/ words_left = LocateWord /\ LocateWord > 0 /\ ~locate.valid
       \/ /\ state_q \in {"SYS_EVENT", "TRADING_ACTION", "OP_HALT"}
          /\ words_left = CtrlWord
          /\ BadCode(pkt, Fields(pkt, k, CtrlPlaces))
       \/ /\ state_q = "ADD"
          /\ words_left = BookWord
          /\ BadCode(pkt, Fields(pkt, k, BookPlaces))

(* Without a locate to compare with an error is reported anyway.           *)
MatchLocate(pkt, k, taken, locate) ==
  match_locate_q' =
    IF taken /\ words_left = LocateWord /\ LocateWord > 0
    THEN LET byte == line_shifted(pkt, k, LocatePlace)
         IN  /\ locate.valid
             /\ byte[2] = LOCATE
             /\ pkt[byte[1]].body.kind = "BOOK"
             /\ pkt[byte[1]].body.stock_locate = locate.stock_locate
    ELSE match_locate_q

order_id_d(pkt, k, taken) ==
  IF taken /\ words_left \in IdWords THEN line_shifted(pkt, k, IdPlace) ELSE dec_book_q.order_id

DecCtrl(pkt, k, taken) ==
  dec_ctrl_o' = [valid  |-> taken /\ words_left = CtrlWord /\ CtrlWord > 0,
                 fields |-> IF taken /\ words_left = CtrlWord /\ CtrlWord > 0
                            THEN Fields(pkt, k, CtrlPlaces) ELSE <<>>]

BookType == CASE state_q = "ADD" -> "ADD" [] state_q = "REPLACE" -> "REPLACE" [] OTHER -> "REDUCE"

(* Of what is not valid only the order id is read, by the order table.     *)
DecBook(pkt, k, taken) ==
  LET id == order_id_d(pkt, k, taken)
      passed == taken /\ words_left = BookWord /\ BookWord > 0
  IN  /\ dec_book_del_q' =
           IF taken /\ words_left = DelWord /\ DelWord > 0
           THEN [valid |-> match_locate_q, msg_type |-> "DELETE", has_rep |-> state_q = "REPLACE",
                 order_id |-> id, fields |-> <<>>]
           ELSE NoBook
      /\ dec_book_q' =
           CASE dec_book_del_q.valid -> dec_book_del_q
             [] ~dec_book_del_q.valid /\ passed ->
                  [valid |-> match_locate_q, msg_type |-> BookType, has_rep |-> FALSE,
                   order_id |-> id, fields |-> Fields(pkt, k, BookPlaces)]
             [] OTHER -> [NoBook EXCEPT !.order_id = id]

----------------------------------------------------------------------------
(* One clock: word k of the packet's payload comes, or none.               *)
ItchClock(pkt, k, v, last, locate) ==
  LET taken == v /\ state_q # "IDLE"
  IN  /\ DecCtrl(pkt, k, taken)
      /\ DecBook(pkt, k, taken)
      /\ MatchLocate(pkt, k, taken, locate)
      /\ IF v /\ state_q = "IDLE" THEN Header(pkt, k)
         ELSE IF v THEN BodyWord(pkt, k, last, locate)
         ELSE ip_error' = FALSE /\ UNCHANGED <<state_q, bytes_left_q, msg_alt_q>>

InitRtlItch ==
  /\ state_q = "IDLE" /\ bytes_left_q = 0 /\ msg_alt_q = FALSE /\ match_locate_q = FALSE
  /\ dec_ctrl_o = NoCtrl /\ dec_book_del_q = NoBook /\ dec_book_q = NoBook
  /\ ip_error = FALSE
=============================================================================
