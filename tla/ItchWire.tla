------------------------------ MODULE ItchWire ------------------------------
(***************************************************************************)
(* ITCH messages as the bytes of a packet's payload (ITCHParser.parse_msg  *)
(* of src/ref_model/itch_parser.py).  A message is a record of its type,   *)
(* its length field, whether its coded fields are among their letters, and *)
(* its body as SessionTypes has it.  A byte is a pair: which message of    *)
(* the packet it belongs to, and its place there, the two bytes of the     *)
(* length included; a field is named by the place of its first byte.       *)
(***************************************************************************)
EXTENDS Integers, Sequences, FiniteSets

(* The length each type must have.  What follows the orders is ignored but *)
(* for its length.  Type 'B' is left out: here it must have 17 bytes, in   *)
(* the hardware 19 (itch_parser.sv:273).                                   *)
msg_len ==
  [S |-> 12, R |-> 39, H |-> 25, h |-> 21,
   A |-> 36, F |-> 40, E |-> 31, C |-> 36, X |-> 23, D |-> 19, U |-> 35,
   Y |-> 20, L |-> 26, V |-> 35, W |-> 12, K |-> 28, J |-> 35, P |-> 44,
   Q |-> 40, I |-> 50, N |-> 20, O |-> 48]

Orders == {"A", "F", "E", "C", "X", "D", "U"}

(* What a message of each type is to Control. *)
KindOf(type) ==
  CASE type = "S" -> "EVENT" [] type = "R" -> "DIRECTORY" [] type = "H" -> "ACTION"
    [] type = "h" -> "HALT" [] type \in Orders -> "BOOK" [] OTHER -> "IGNORE"

(* Places of fields. *)
LENGTH == 0
TYPE   == 2
LOCATE == 3
SYMBOL == 13         \* and event_code, order_id
CODE   == 21         \* trade_action, market_code, buy/sell, shares of a reduction
HALT   == 22         \* and shares of an order
PRICE  == 34
NEW_ID == 21
NEW_SHARES == 29
NEW_PRICE  == 33

(* The bytes of the messages before message i, and how many they are. *)
BytesBefore(pkt, i) == UNION {{k} \X (0 .. pkt[k].len + 1) : k \in 1 .. i - 1}

Start(pkt, i) == Cardinality(BytesBefore(pkt, i))

NoByte == <<0, 0>>

ByteAt(pkt, pos) ==
  LET i == {k \in DOMAIN pkt : Start(pkt, k) <= pos /\ pos < Start(pkt, k + 1)}
  IN  IF i = {} THEN NoByte ELSE LET k == CHOOSE k \in i : TRUE IN <<k, pos - Start(pkt, k)>>

Payload(pkt) == Start(pkt, Len(pkt) + 1)

WordsOf(pkt) == (Payload(pkt) + 3) \div 4

(* parse_msg yields an error. *)
Malformed(msg) ==
  \/ msg.type \notin DOMAIN msg_len
  \/ msg.type \in DOMAIN msg_len /\ msg.len # msg_len[msg.type]
  \/ msg.type \in {"S", "H", "h", "A", "F"} /\ ~msg.valid_code
=============================================================================
