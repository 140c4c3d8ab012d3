------------------------------ MODULE RtlBook ------------------------------
(***************************************************************************)
(* The hardware book behind the order table (rtl/module/book.sv, bbo.sv):  *)
(* what the table looks up goes to RtlL2 and to the half of its side.      *)
(* While a half waits for a level from RtlL2 no message may reach it; the  *)
(* second half of a replacement, which can come in that time, is kept      *)
(* until the level is there.                                               *)
(***************************************************************************)
EXTENDS RtlL2, RtlBBO

VARIABLES half,              \* bid_half and off_half
          dec_book_updt_q,   \* the message kept, if valid
          updt_ing_q,        \* a level is on its way
          bbo_res_v_last_q   \* the result is reported in this clock

book_regs == <<l2_vars, half, dec_book_updt_q, updt_ing_q, bbo_res_v_last_q>>

(* bid_init_price_bound, off_init_price_bound *)
bound(is_buy) == IF is_buy THEN price_base_q ELSE price_max_q

Releases == dec_book_updt_q.valid /\ ~updt_ing_q

(* Mutant: a message passes although a level is on its way. *)
BboDecBookUnheld(lookup) == IF Releases THEN dec_book_updt_q ELSE lookup

bbo_dec_book(lookup) ==
  CASE Releases -> dec_book_updt_q
    [] ~Releases /\ updt_ing_q -> NoDec
    [] OTHER -> lookup

half_dec_book(lookup, is_buy) ==
  IF bbo_dec_book(lookup).is_buy = is_buy THEN bbo_dec_book(lookup) ELSE NoDec

error_dec_updt(lookup) ==
  Releases /\ (lookup.valid \/ dec_book_updt_q.msg_type # "REPLACE")

book_error(lookup) ==
  \/ l2_error(lookup)
  \/ error_dec_updt(lookup)
  \/ \E is_buy \in BOOLEAN :
       half_error(half[is_buy], half_dec_book(lookup, is_buy), updt_o(is_buy))

(* Mutant: a message that comes together with the level is not kept.       *)
StashBeforeLevel(lookup) ==
  /\ dec_book_updt_q' = IF updt_ing_q /\ ~updt_o(TRUE).valid /\ ~updt_o(FALSE).valid
                        THEN lookup ELSE NoDec
  /\ updt_ing_q' = (/\ ~\E is_buy \in BOOLEAN : updt_o(is_buy).valid
                    /\ updt_ing_q \/ \E is_buy \in BOOLEAN : half[is_buy].updt_req)

(* A message is kept for one clock: it must come in the clock of the level.*)
Stash(lookup) ==
  /\ dec_book_updt_q' = IF updt_ing_q THEN lookup ELSE NoDec
  /\ updt_ing_q' = (/\ ~\E is_buy \in BOOLEAN : updt_o(is_buy).valid
                    /\ updt_ing_q \/ \E is_buy \in BOOLEAN : half[is_buy].updt_req)

(* Mutant: only the first half of a replacement has a result. *)
ReportsHalves(dec) == dec.valid /\ dec.has_rep

(* The first half of a replacement has no result of its own. *)
Reports(dec) == dec.valid /\ ~dec.has_rep

(* One clock with the initialization inputs and the message looked up.     *)
BookClock(init, lookup) ==
  /\ L2Clock(init, lookup,
             [is_buy \in BOOLEAN |-> half[is_buy].updt_req],
             [is_buy \in BOOLEAN |-> price_addr(updt_price(half[is_buy], updt_o(is_buy)))])
  /\ half' = [is_buy \in BOOLEAN |->
                HalfClock(half[is_buy], half_dec_book(lookup, is_buy), updt_o(is_buy), bound(is_buy))]
  /\ Stash(lookup)
  /\ bbo_res_v_last_q' = Reports(bbo_dec_book(lookup))

(* book_bbo_res_o of a side *)
bbo_res(is_buy) == half[is_buy].arr[1]

InitRtlBook(shares, place, price, count) ==
  /\ InitRtlL2(shares, place, price, count)
  /\ half = [is_buy \in BOOLEAN |-> ResetHalf]
  /\ dec_book_updt_q = NoDec
  /\ updt_ing_q = FALSE
  /\ bbo_res_v_last_q = FALSE
=============================================================================
