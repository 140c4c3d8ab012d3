------------------------------- MODULE RtlTop -------------------------------
(***************************************************************************)
(* The hardware behind the packet parser (rtl/top.sv): ITCH parser,        *)
(* Control, book and the output register with the gate of the results.  Of *)
(* the book only the clocks it takes are modelled here (l3_order_table.sv, *)
(* book.sv); what it answers has models of its own, RtlL3 and RtlBook.     *)
(***************************************************************************)
EXTENDS RtlItch, RtlControl

VARIABLES lookup,      \* lookup_dec_book, a clock behind dec_book
          updt_left,   \* clocks until the level asked for is there
          dec_book_updt_q,
          book_res_q,  \* the message bbo_res_v_last_q reports on
          bbo_res_o    \* the message whose result leaves, and whether shown

book_time == <<lookup, updt_left, dec_book_updt_q, book_res_q>>

top_regs == <<itch_regs, ctrl_regs, book_time, bbo_res_o>>

NoLookup == [valid |-> FALSE, msg_type |-> "ADD", has_rep |-> FALSE, of |-> 0]

NoRes == [valid |-> FALSE, of |-> 0]

(* The control message dec_ctrl_o carries.                                 *)
dec_ctrl(pkt) == IF dec_ctrl_o.valid THEN pkt[dec_ctrl_o.fields[1][1]].body ELSE NoMsg

TakesShares(dec) == dec.valid /\ dec.msg_type \in {"REDUCE", "DELETE"}

(* book.sv, with updt_ing_q in the last two clocks of a refill. *)
updt_ing_q == updt_left \in 1 .. 2

Releases == dec_book_updt_q.valid /\ ~updt_ing_q

bbo_dec_book ==
  CASE Releases -> dec_book_updt_q
    [] ~Releases /\ updt_ing_q -> NoLookup
    [] OTHER -> lookup

book_error == Releases /\ (lookup.valid \/ dec_book_updt_q.msg_type # "REPLACE")

(* A message that takes shares may empty a level and begin a refill, which *)
(* takes three clocks.                                                     *)
BookTime(refills) ==
  /\ lookup' = IF dec_book_q.valid
               THEN [valid |-> TRUE, msg_type |-> dec_book_q.msg_type,
                     has_rep |-> dec_book_q.has_rep, of |-> dec_book_q.order_id[1]]
               ELSE NoLookup
  /\ updt_left' = CASE refills -> 3
                    [] ~refills /\ updt_left > 0 -> updt_left - 1
                    [] OTHER -> 0
  /\ dec_book_updt_q' = IF updt_ing_q THEN lookup ELSE NoLookup
  /\ book_res_q' = IF bbo_dec_book.valid /\ ~bbo_dec_book.has_rep
                   THEN [valid |-> TRUE, of |-> bbo_dec_book.of] ELSE NoRes

(* Mutant: the gate is that of the clock in which the message is looked up.*)
(* (It is the next message's that comes too early.)                        *)
OutputOfNext ==
  bbo_res_o' = [valid |-> book_res_q.valid, of |-> book_res_q.of,
                shown |-> book_res_q.valid /\ stock_active_o']

Output ==
  bbo_res_o' = [valid |-> book_res_q.valid, of |-> book_res_q.of,
                shown |-> book_res_q.valid /\ stock_active_o]

(* An error is reported in this clock (error_o).                           *)
error_o(pkt) == ip_error' \/ ctrl_error(dec_ctrl(pkt), dec_book_q.valid) \/ book_error

TopClock(pkt, k, v, last, init_v, refills) ==
  /\ ItchClock(pkt, k, v, last, stock_locate_q)
  /\ ControlClock(init_v, dec_ctrl(pkt))
  /\ BookTime(refills)
  /\ Output

InitRtlTop ==
  /\ InitRtlItch
  /\ InitRtlControl
  /\ lookup = NoLookup /\ updt_left = 0 /\ dec_book_updt_q = NoLookup
  /\ book_res_q = NoRes
  /\ bbo_res_o = [valid |-> FALSE, of |-> 0, shown |-> FALSE]
=============================================================================
