-------------------------------- MODULE RtlL3 --------------------------------
(***************************************************************************)
(* The hardware order table (rtl/module/l3_order_table.sv), clock by       *)
(* clock: the memory of RtlL3Ram, the fully associative CAM that takes the *)
(* orders of full lines, and the logic that looks an order up in both at   *)
(* once, writes it back and hands it on.  The address of an order arrives  *)
(* two clocks before its message, so that its line is read by then.        *)
(***************************************************************************)
EXTENDS RtlL3Ram, FiniteSetsExt

CONSTANT L3_CAM_SIZE

ASSUME RtlL3SizesAssumption ==
  /\ L3_ADDRS \in Nat /\ L3_ADDRS >= 2
  /\ L3_LINE_SIZE \in Nat \ {0}
  /\ L3_CAM_SIZE \in Nat \ {0}

VARIABLES mem_arr_q,                    \* the CAM
          l3_cam_w_en_q, l3_cam_d_in_q, \* the write asked of it at the last clock
          oid_hash_q, prev_is_buy_q,
          lookup_dec_book_o             \* the message handed on, filled in

cam_vars == <<mem_arr_q, l3_cam_w_en_q, l3_cam_d_in_q>>
rtl_vars == <<ram_vars, cam_vars, oid_hash_q, prev_is_buy_q, lookup_dec_book_o>>

Slots == 0 .. L3_CAM_SIZE - 1

(* The low bits of the order id, taken by the ITCH parser. *)
oid_hash(id) == id % L3_ADDRS

----------------------------------------------------------------------------
(* The CAM: a slot of the same order is written, else the last empty one.  *)

SameSlots == {i \in Slots : mem_arr_q[i].order_id = l3_cam_d_in_q.order_id}

EmptySlots == {i \in Slots : ~mem_arr_q[i].valid}

(* Mutant: a new order is an error even while a slot is empty. *)
CamErrorOfNew == l3_cam_w_en_q /\ SameSlots = {}

l3_cam_error == l3_cam_w_en_q /\ SameSlots = {} /\ EmptySlots = {}

(* Mutant: an empty slot is written before one of the same order. *)
CamWrittenEmptyFirst ==
  LET slots == IF EmptySlots # {} THEN {Max(EmptySlots)} ELSE SameSlots
  IN  IF l3_cam_w_en_q
      THEN [i \in Slots |-> IF i \in slots THEN l3_cam_d_in_q ELSE mem_arr_q[i]]
      ELSE mem_arr_q

CamWritten ==
  LET slots == IF SameSlots # {} \/ EmptySlots = {} THEN SameSlots ELSE {Max(EmptySlots)}
  IN  IF l3_cam_w_en_q
      THEN [i \in Slots |-> IF i \in slots THEN l3_cam_d_in_q ELSE mem_arr_q[i]]
      ELSE mem_arr_q

CamHits(id) == {i \in Slots : mem_arr_q[i].valid /\ mem_arr_q[i].order_id = id}

CamRead(id) == IF CamHits(id) = {} THEN NoWord ELSE mem_arr_q[Max(CamHits(id))]

----------------------------------------------------------------------------
(* The lookup of the message at hand, in the line read and in the CAM.     *)

NoDec == [valid |-> FALSE, msg_type |-> "ADD", order_id |-> 0,
          is_buy |-> FALSE, shares |-> 0, price |-> 0]

Matches(dec) == {w \in Ways : doutb_o[w].valid /\ doutb_o[w].order_id = dec.order_id}

EmptyWays == {w \in Ways : ~doutb_o[w].valid}

Found(dec) == IF Matches(dec) # {} THEN doutb_o[Max(Matches(dec))] ELSE CamRead(dec.order_id)

BringsShares(dec) == dec.msg_type \in {"ADD", "REPLACE"}

(* A replacement takes the side of the order deleted last. *)
IsBuy(dec) == IF dec.msg_type = "REPLACE" THEN prev_is_buy_q ELSE dec.is_buy

(* write_word.  A delete writes a word with no order id either, and the    *)
(* CAM finds the slot to write by that id.                                 *)
WriteWord(dec) ==
  CASE BringsShares(dec) ->
         [valid |-> TRUE, order_id |-> dec.order_id, is_buy |-> IsBuy(dec),
          shares |-> dec.shares, price |-> dec.price]
    [] dec.msg_type = "REDUCE" ->
         LET left == Found(dec).shares - dec.shares
         IN  [Found(dec) EXCEPT !.valid = left # 0, !.order_id = dec.order_id, !.shares = left]
    [] dec.msg_type = "DELETE" -> NoWord

(* Ways the word may go to: those that match, or the empty ones. *)
TargetWays(dec) == IF BringsShares(dec) THEN EmptyWays ELSE Matches(dec)

RamWrite(dec) ==
  LET ways == TargetWays(dec)
  IN  [wea      |-> dec.valid /\ ways # {},
       addra    |-> oid_hash_q,
       line     |-> doutb_o,
       word_idx |-> IF dec.valid /\ ways # {} THEN Max(ways) ELSE 0,
       word     |-> IF dec.valid THEN WriteWord(dec) ELSE NoWord]

(* lookup_dec_book_d: the stored order fills in what the message leaves    *)
(* out.  (The parser sends a delete with no shares, so the CAM's           *)
(* subtraction leaves the order's own.)                                    *)
Lookup(dec) ==
  CASE ~dec.valid -> dec
    [] dec.valid /\ BringsShares(dec) -> [dec EXCEPT !.is_buy = IsBuy(dec)]
    [] dec.valid /\ dec.msg_type = "REDUCE" ->
         [dec EXCEPT !.is_buy = Found(dec).is_buy, !.price = Found(dec).price]
    [] dec.valid /\ dec.msg_type = "DELETE" ->
         [dec EXCEPT !.is_buy = Found(dec).is_buy, !.price = Found(dec).price,
                     !.shares = Found(dec).shares - (IF Matches(dec) # {} THEN 0 ELSE @)]

(* l3_error_o: the message contradicts the table, or the CAM had no slot   *)
(* for the order of the message before.                                    *)
l3_error(dec) ==
  \/ /\ dec.valid
     /\ \/ BringsShares(dec) /\ Found(dec).valid
        \/ ~BringsShares(dec) /\ ~Found(dec).valid
        \/ dec.msg_type = "REDUCE" /\ WriteWord(dec).shares < 0
  \/ l3_cam_error

(* The assertions: an order is found once, in the line or in the CAM. *)
FoundOnce(dec) == Cardinality(Matches(dec)) + Cardinality(CamHits(dec.order_id)) <= 1

(* One clock, with the address and the message on the inputs. *)
Clock(hash, dec) ==
  /\ RamClock(RamWrite(dec), hash)
  /\ mem_arr_q' = CamWritten
  /\ l3_cam_w_en_q' = (dec.valid /\ TargetWays(dec) = {})
  /\ l3_cam_d_in_q' = RamWrite(dec).word
  /\ oid_hash_q' = hash
  /\ prev_is_buy_q' = IF dec.valid /\ dec.msg_type = "DELETE" THEN Lookup(dec).is_buy
                      ELSE prev_is_buy_q
  /\ lookup_dec_book_o' = Lookup(dec)

(* A reset clears the valid bits of the CAM and leaves its order ids. *)
InitRtlL3(before, ids) ==
  /\ InitRam(before)
  /\ mem_arr_q = [i \in Slots |-> [NoWord EXCEPT !.order_id = ids[i]]]
  /\ l3_cam_w_en_q = FALSE
  /\ l3_cam_d_in_q = NoWord
  /\ oid_hash_q = 0
  /\ prev_is_buy_q = FALSE
  /\ lookup_dec_book_o = NoDec
=============================================================================
