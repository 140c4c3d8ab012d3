------------------------------- MODULE RtlBBO -------------------------------
(***************************************************************************)
(* One half of the hardware BBO registers (bbo_half of rtl/module/bbo.sv): *)
(* two words, the better first, and the shares outside them.  A half is a  *)
(* record of its registers, and HalfClock the record after a clock.        *)
(* half_dec_book_i is valid in the half of the message's side only.        *)
(***************************************************************************)
EXTENDS Integers

NoBBOWord == [valid |-> FALSE, price |-> 0, shares |-> 0]

(* Registers after a reset. *)
ResetHalf == [arr |-> <<NoBBOWord, NoBBOWord>>,
              out_size |-> 0, out_size_in_range |-> 0,
              updt_able |-> FALSE, updt_able_in_range |-> FALSE,
              updt_ing |-> FALSE, updt_req |-> FALSE]

IsAdd(dec) == dec.msg_type \in {"ADD", "REPLACE"}

Beats(dec, price) == IF dec.is_buy THEN dec.price > price ELSE dec.price < price

(* A message is inserted at a word that is empty or worse than it. *)
Inserts(word, dec) == ~word.valid \/ Beats(dec, word.price)

(* The first word the message concerns, 3 for none. *)
Concerned(h, dec) ==
  LET Is(i) == Inserts(h.arr[i], dec) \/ h.arr[i].price = dec.price
  IN  CASE Is(1) -> 1 [] ~Is(1) /\ Is(2) -> 2 [] OTHER -> 3

arr_mod(word, dec) == IF IsAdd(dec) THEN word.shares + dec.shares ELSE word.shares - dec.shares

Effect(h, dec) ==
  LET i == Concerned(h, dec)
  IN  CASE i = 3 -> "out"
        [] i < 3 /\ Inserts(h.arr[i], dec) -> "ins"
        [] i < 3 /\ ~Inserts(h.arr[i], dec) /\ arr_mod(h.arr[i], dec) = 0 -> "del"
        [] OTHER -> "mod"

(* The last word when a level is gone: its price stays. *)
Cleared(word) == [word EXCEPT !.valid = FALSE, !.shares = 0]

ArrAfter(h, dec) ==
  LET i == Concerned(h, dec)
      word_ins == [valid |-> TRUE, price |-> dec.price, shares |-> dec.shares]
  IN  CASE Effect(h, dec) = "out" -> h.arr
        [] Effect(h, dec) = "mod" -> [h.arr EXCEPT ![i].shares = arr_mod(h.arr[i], dec)]
        [] Effect(h, dec) = "ins" -> IF i = 1 THEN <<word_ins, h.arr[1]>> ELSE <<h.arr[1], word_ins>>
        [] Effect(h, dec) = "del" -> <<IF i = 1 THEN h.arr[2] ELSE h.arr[1], Cleared(h.arr[2])>>

InRange(is_buy, price, bound) == IF is_buy THEN price >= bound ELSE price <= bound

(* Shares (negative: fewer) that join those outside. *)
Outside(h, is_buy, shares, price, bound) ==
  [h EXCEPT !.out_size = @ + shares,
            !.out_size_in_range = IF InRange(is_buy, price, bound) THEN @ + shares ELSE @]

(* updt_req_d: the registers behind the two flags lag a clock behind the   *)
(* counts.                                                                 *)
AsksUpdt(h) == h.updt_able /\ h.updt_able_in_range

(* A message: an insertion pushes the second word out, even an empty one,  *)
(* whose shares are zero.                                                  *)
WithMsg(h, dec, bound) ==
  LET moved == [h EXCEPT !.arr = ArrAfter(h, dec)]
  IN  CASE Effect(h, dec) = "ins" ->
             Outside(moved, dec.is_buy, h.arr[2].shares, h.arr[2].price, bound)
        [] Effect(h, dec) = "del" ->
             [moved EXCEPT !.updt_req = AsksUpdt(h), !.updt_ing = AsksUpdt(h)]
        [] Effect(h, dec) = "out" ->
             Outside(h, dec.is_buy, IF IsAdd(dec) THEN dec.shares ELSE -dec.shares, dec.price, bound)
        [] Effect(h, dec) = "mod" -> moved

(* Mutant: the refilled level still counts as outside. *)
WithUpdtUncounted(h, updt) == [h EXCEPT !.arr[2] = updt, !.updt_ing = FALSE]

(* The level L2 supplies. *)
WithUpdt(h, updt) ==
  [h EXCEPT !.arr[2] = updt,
            !.out_size = @ - updt.shares,
            !.out_size_in_range = @ - updt.shares,
            !.updt_ing = FALSE]

(* One clock.  The flags behind updt_req follow the counts a clock later.  *)
(* (A message together with a level is an error.)                          *)
HalfClock(h, dec, updt, bound) ==
  LET asked == [h EXCEPT !.updt_req = FALSE]
      next == CASE dec.valid -> WithMsg(asked, dec, bound)
                [] ~dec.valid /\ updt.valid -> WithUpdt(asked, updt)
                [] OTHER -> asked
  IN  [next EXCEPT !.updt_able = h.out_size # 0,
                   !.updt_able_in_range = h.out_size_in_range # 0]

(* half_error_o: a message during a refill, a refill nobody asked for, or  *)
(* a level to replace and shares outside but none within L2's reach.       *)
half_error(h, dec, updt) ==
  \/ dec.valid /\ h.updt_ing
  \/ ~dec.valid /\ updt.valid /\ ~h.updt_ing
  \/ dec.valid /\ Effect(h, dec) = "del" /\ h.updt_able /\ ~h.updt_able_in_range

(* updt_price_addr_o before it is cut to an address: the level below which *)
(* the next is wanted, already that of the refill as it arrives.           *)
updt_price(h, updt) == IF updt.valid THEN updt.price ELSE h.arr[2].price
==============================================================================
