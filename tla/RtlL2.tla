-------------------------------- MODULE RtlL2 --------------------------------
(***************************************************************************)
(* The hardware price table (rtl/module/l2_price_table.sv), clock by       *)
(* clock.  A table filled at the start turns a price address into its      *)
(* place in the order of prices and back; the shares are kept twice, by    *)
(* price address and by place; and a pipeline that never stops works out   *)
(* which level follows the worst one in the BBO registers, so that it is   *)
(* at hand when BBO asks.  A side is TRUE for bids, as is_buy is.          *)
(***************************************************************************)
EXTENDS Integers, FiniteSetsExt

CONSTANTS L2_MEM_SIZE,  \* ticks of the window, 1 << L2_LOG_MEM_SIZE
          L2_BLOCK_W    \* ticks the first half of the encoder looks at together

ASSUME RtlL2SizesAssumption ==
  /\ L2_MEM_SIZE \in Nat /\ L2_MEM_SIZE >= 2
  /\ L2_BLOCK_W \in 1 .. L2_MEM_SIZE

VARIABLES pa_ram, od_ram,               \* shares by price address, and by place
          pa_ram_doutb, od_ram_doutb,   \* what the last clock read of them
          ram_rst,                      \* rst_in_progress_q and count_q of both
          lut_ordering, lut_price,      \* the memories of l2_ordering_lut
          lut_ordering_out, lut_price_out, \* what the last clock read, per port
          lut_q,                        \* initialized_q, init_done_q, count_q, price_q
          initialized_q, price_base_q,
          dec_book_q,
          exist_arr_q,                  \* places that have shares
          exist_q,                      \* exist_wen_q, exist_waddr_q, exist_din_q
          updt_q                        \* the next-best pipeline of each side

l2_vars == <<pa_ram, od_ram, pa_ram_doutb, od_ram_doutb, ram_rst,
             lut_ordering, lut_price, lut_ordering_out, lut_price_out, lut_q,
             initialized_q, price_base_q, dec_book_q, exist_arr_q, exist_q, updt_q>>

Places == 0 .. L2_MEM_SIZE - 1

NoDec == [valid |-> FALSE, msg_type |-> "ADD", has_rep |-> FALSE,
          is_buy |-> FALSE, shares |-> 0, price |-> 0]

BringsShares(dec) == dec.msg_type \in {"ADD", "REPLACE"}

(* price[L2_LOG_MEM_SIZE:1]: ticks are 25 addresses apart. *)
price_addr(price) == (price \div 2) % L2_MEM_SIZE

price_max_q == price_base_q + 50 * (L2_MEM_SIZE - 1)

l2_ready_o == ~ram_rst.in_progress /\ lut_q.done

(* The message is processed even when its price is not on a tick. *)
l2_error(dec) == dec.valid /\ (~initialized_q \/ dec.price % 50 # 0)

----------------------------------------------------------------------------
(* The lookup tables: filled one entry per clock from the initialization   *)
(* on.  Their counter is not reset, and its first pass through the last    *)
(* place sets l2_lut_init_done_q, filled or not.                           *)

lut_wea == lut_q.initialized /\ ~lut_q.done

(* Mutant: the counter runs on from where the initialization finds it. *)
LutStepKeepsCount(init) ==
  lut_q' = [initialized |-> lut_q.initialized \/ init.valid,
            done  |-> lut_q.done \/ lut_q.count = L2_MEM_SIZE - 1,
            count |-> IF lut_q.done THEN 0 ELSE (lut_q.count + 1) % L2_MEM_SIZE,
            price |-> CASE init.valid -> init.price_base
                        [] ~init.valid /\ lut_q.done -> 0
                        [] OTHER -> lut_q.price + 50]

(* Mutant: done when the count is the number of places.  (The price wraps  *)
(* early here.)                                                            *)
LutStepOffByOne(init) ==
  lut_q' = [initialized |-> lut_q.initialized \/ init.valid,
            done  |-> lut_q.done \/ lut_q.count = L2_MEM_SIZE,
            count |-> IF init.valid \/ lut_q.done THEN 0 ELSE (lut_q.count + 1) % L2_MEM_SIZE,
            price |-> IF init.valid THEN init.price_base
                      ELSE (lut_q.price + 50) % (200 * L2_MEM_SIZE)]

(* Once done neither counter is read again: both are 0 from then on here. *)
LutStep(init) ==
  lut_q' = [initialized |-> lut_q.initialized \/ init.valid,
            done  |-> lut_q.done \/ lut_q.count = L2_MEM_SIZE - 1,
            count |-> IF init.valid \/ lut_q.done THEN 0 ELSE (lut_q.count + 1) % L2_MEM_SIZE,
            price |-> CASE init.valid -> init.price_base
                        [] ~init.valid /\ lut_q.done -> 0
                        [] OTHER -> lut_q.price + 50]

(* Port 1 is a message's, else the bids'; port 2 is the offers'. *)
LutClock(init, dec, addr) ==
  LET addr_1 == IF dec.valid THEN price_addr(dec.price) ELSE addr[TRUE]
      addra  == IF lut_wea THEN price_addr(lut_q.price) ELSE addr_1
      enc    == IF updt_q[FALSE].req /\ ~updt_q[TRUE].req THEN updt_q[FALSE].enc
                ELSE updt_q[TRUE].enc
  IN  /\ LutStep(init)
      /\ lut_ordering' = IF lut_wea THEN [lut_ordering EXCEPT ![addra] = lut_q.count]
                         ELSE lut_ordering
      /\ lut_price' = IF lut_wea THEN [lut_price EXCEPT ![lut_q.count] = lut_q.price]
                      ELSE lut_price
      /\ lut_ordering_out' = [side \in BOOLEAN |->
                                lut_ordering[IF side THEN addra ELSE addr[FALSE]]]
      /\ lut_price_out' = lut_price[enc]
      /\ od_ram_doutb' = od_ram[enc]

----------------------------------------------------------------------------
(* Order processing: the shares of the message's price are read in its     *)
(* clock and written in the next, and exist_arr_q follows one clock later. *)

(* Mutant: a replacement's shares are taken away. *)
NewSharesOfAdds ==
  IF dec_book_q.msg_type = "ADD" THEN pa_ram_doutb + dec_book_q.shares
  ELSE pa_ram_doutb - dec_book_q.shares

order_new_shares ==
  IF BringsShares(dec_book_q) THEN pa_ram_doutb + dec_book_q.shares
  ELSE pa_ram_doutb - dec_book_q.shares

(* The memories clear one address per clock after a reset, from the top. *)
RamWritten(ram, addr) ==
  CASE ram_rst.in_progress -> [ram EXCEPT ![ram_rst.count] = 0]
    [] ~ram_rst.in_progress /\ dec_book_q.valid -> [ram EXCEPT ![addr] = order_new_shares]
    [] OTHER -> ram

InWindow(price) == price_base_q <= price /\ price <= price_max_q

ExistWritten ==
  CASE exist_q.wen /\ exist_q.din  -> exist_arr_q \cup {exist_q.waddr}
    [] exist_q.wen /\ ~exist_q.din -> exist_arr_q \ {exist_q.waddr}
    [] OTHER -> exist_arr_q

OrderClock(dec) ==
  /\ dec_book_q' = IF dec.valid /\ InWindow(dec.price) THEN dec ELSE NoDec
  /\ pa_ram_doutb' = pa_ram[price_addr(dec.price)]
  /\ pa_ram' = RamWritten(pa_ram, price_addr(dec_book_q.price))
  /\ od_ram' = RamWritten(od_ram, lut_ordering_out[TRUE])
  /\ ram_rst' = [in_progress |-> ram_rst.count # 0,
                 count |-> IF ram_rst.in_progress /\ ram_rst.count # 0
                           THEN ram_rst.count - 1 ELSE 0]
  /\ exist_q' = [wen   |-> dec_book_q.valid,
                 waddr |-> IF dec_book_q.valid THEN lut_ordering_out[TRUE] ELSE 0,
                 din   |-> dec_book_q.valid /\ (BringsShares(dec_book_q) \/ order_new_shares # 0)]
  /\ exist_arr_q' = ExistWritten

(* The assertion of line 199: what loses shares has some. *)
PriceExists ==
  dec_book_q.valid /\ ~BringsShares(dec_book_q) => lut_ordering_out[TRUE] \in exist_arr_q

----------------------------------------------------------------------------
(* The next-best level of a side: of the places worse than the one asked   *)
(* for, the best of each block, and a clock later the best of those.       *)

BestPlace(is_buy, S) == IF S = {} THEN 0 ELSE IF is_buy THEN Max(S) ELSE Min(S)

Worse(is_buy, place) == {i \in exist_arr_q : IF is_buy THEN i < place ELSE i > place}

BlockBests(is_buy, places) ==
  {BestPlace(is_buy, {i \in places : i \div L2_BLOCK_W = b}) : b \in {i \div L2_BLOCK_W : i \in places}}

UpdtClock(req) ==
  updt_q' = [side \in BOOLEAN |->
               [req      |-> req[side],
                req2     |-> updt_q[side].req,
                ordering |-> lut_ordering_out[side],
                local    |-> BlockBests(side, Worse(side, updt_q[side].ordering)),
                enc      |-> BestPlace(side, updt_q[side].local)]]

(* bid_updt_o, off_updt_o *)
updt_o(is_buy) == [valid |-> updt_q[is_buy].req2, price |-> lut_price_out, shares |-> od_ram_doutb]

(* One clock, with the inputs init, dec, and per side the request and the  *)
(* price address whose next-best level is to be worked out.                *)
L2Clock(init, dec, req, addr) ==
  /\ LutClock(init, dec, addr)
  /\ OrderClock(dec)
  /\ UpdtClock(req)
  /\ initialized_q' = (initialized_q \/ init.valid)
  /\ price_base_q' = IF init.valid THEN init.price_base ELSE price_base_q

(* As a reset leaves it: memories, tables and the counter keep what they   *)
(* held.                                                                   *)
InitRtlL2(shares, place, price, count) ==
  /\ pa_ram = shares /\ od_ram = shares
  /\ pa_ram_doutb = 0 /\ od_ram_doutb = 0
  /\ ram_rst = [in_progress |-> TRUE, count |-> L2_MEM_SIZE - 1]
  /\ lut_ordering = place /\ lut_price = price
  /\ lut_ordering_out = [side \in BOOLEAN |-> 0] /\ lut_price_out = 0
  /\ lut_q = [initialized |-> FALSE, done |-> FALSE, count |-> count, price |-> 0]
  /\ initialized_q = FALSE /\ price_base_q = 0
  /\ dec_book_q = NoDec
  /\ exist_arr_q = {} /\ exist_q = [wen |-> FALSE, waddr |-> 0, din |-> FALSE]
  /\ updt_q = [side \in BOOLEAN |->
                 [req |-> FALSE, req2 |-> FALSE, ordering |-> 0, local |-> {}, enc |-> 0]]
==============================================================================
