------------------------------ MODULE MCRtlL3 ------------------------------
(* Two one-word lines with a CAM of two, and four orders of which three    *)
(* share a line: lines and CAM fill, slots are given up and taken again,   *)
(* and orders deleted from the CAM crowd out others.                       *)
EXTENDS RtlL3Feed

MCOrderIds    == {1, 2, 3, 5}
MCShareCounts == {1, 2}
MCPrices      == {50}

(* Order ids of one line are interchangeable: of those an order can take,  *)
(* it takes the least.                                                     *)
LeastFreeId ==
  coming' # NoMsg /\ coming = NoMsg /\ BringsShares(coming') =>
    \A id \in OrderIds :
      /\ Fits([coming' EXCEPT !.order_id = id]) /\ Unused(id)
      /\ oid_hash(id) = oid_hash(coming'.order_id)
      => coming'.order_id <= id

(* New orders bring two shares, which a reduction takes at once or singly. *)
(* At most one of the orders is an offer.                                  *)
TwoShares ==
  /\ coming # NoMsg /\ BringsShares(coming) => coming.shares = 2
  /\ Cardinality({id \in DOMAIN live : ~live[id].is_buy}) <= 1

(* Registers nothing will read again: the data of a write that is not      *)
(* enabled, a line read for no message, the last lookup, and what an       *)
(* invalid word of memory still shows.                                     *)
Shown(line) == [w \in Ways |-> IF line[w].valid THEN line[w] ELSE NoWord]

Used ==
  <<[a \in Addrs |-> Shown(mem[a])],
    IF write_q.wea THEN <<write_q.addra, Shown(dina)>> ELSE <<>>,
    IF write_q2.wea THEN <<write_q2.addra, Shown(write_q2.dina)>> ELSE <<>>,
    IF coming # NoMsg THEN <<addrb_q, Shown(doutb)>> ELSE <<>>,
    IF held = 2 THEN <<oid_hash_q, Shown(doutb_o)>> ELSE <<>>,
    rst_in_progress_q, count_q,
    mem_arr_q, IF l3_cam_w_en_q THEN l3_cam_d_in_q ELSE <<>>, prev_is_buy_q,
    live, last_side, half, coming, held, answer.status, failed>>
=============================================================================
