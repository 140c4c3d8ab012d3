--------------------------------- MODULE L2 ---------------------------------
(***************************************************************************)
(* The L2 price table of the reference model                               *)
(* (src/ref_model/l2_price_table.py): the total shares at every price tick *)
(* of a fixed window, and which ticks hold bids and which hold offers.     *)
(* Bids and offers share one array, indexed by a hash of the price.        *)
(***************************************************************************)
EXTENDS BookTypes

CONSTANTS L2_MEM_SIZE,  \* ticks of the window, a power of two
          BBO_DEPTH,    \* best levels the BBO registers hold
          price_base    \* lowest price of the window

VARIABLES arr,   \* shares by hashed price
          bids,  \* prices with bid shares
          offs   \* prices with offer shares

l2_vars == <<arr, bids, offs>>

price_max == price_base + 50 * (L2_MEM_SIZE - 1)

InWindow(price) == price_base <= price /\ price <= price_max

OnTick(price) == price % 50 = 0

(* (price >> 1) & (L2_MEM_SIZE - 1): consecutive ticks are 25 slots apart. *)
price_hash(price) == (price \div 2) % L2_MEM_SIZE

SharesAt(price) == arr[price_hash(price)]

SideLevels(is_buy) == IF is_buy THEN bids ELSE offs

(* A bid above or an offer below the window would be a best price L2       *)
(* cannot hold: the code asserts that price_base was chosen to avoid it.   *)
WrongSideOfWindow(msg) ==
  IF msg.is_buy THEN msg.price > price_max ELSE msg.price < price_base

(* process_msg's checks, in the order it makes them. *)
Status(msg) ==
  CASE ~OnTick(msg.price) -> "off_tick"
    [] OnTick(msg.price) /\ WrongSideOfWindow(msg) -> "assert"
    [] OnTick(msg.price) /\ ~WrongSideOfWindow(msg) /\ ~InWindow(msg.price) -> "ignored"
    [] OnTick(msg.price) /\ InWindow(msg.price) /\ ~BringsShares(msg)
         /\ (SharesAt(msg.price) <= 0 \/ msg.price \notin SideLevels(msg.is_buy)) -> "assert"
    [] OTHER -> "ok"

(* Mutant: a level that has lost its last share stays in its set. *)
AccountKeepsLevel(msg) ==
  LET total == SharesAt(msg.price) + (IF BringsShares(msg) THEN msg.shares ELSE -msg.shares)
  IN  /\ arr' = [arr EXCEPT ![price_hash(msg.price)] = total]
      /\ bids' = IF msg.is_buy THEN bids \cup {msg.price} ELSE bids
      /\ offs' = IF msg.is_buy THEN offs ELSE offs \cup {msg.price}

(* The level's new total; a level without shares leaves its side's set. *)
Account(msg) ==
  LET total  == SharesAt(msg.price) + (IF BringsShares(msg) THEN msg.shares ELSE -msg.shares)
      Levels(side) == IF total = 0 /\ ~BringsShares(msg)
                      THEN side \ {msg.price}
                      ELSE side \cup {msg.price}
  IN  /\ arr' = [arr EXCEPT ![price_hash(msg.price)] = total]
      /\ bids' = IF msg.is_buy THEN Levels(bids) ELSE bids
      /\ offs' = IF msg.is_buy THEN offs ELSE Levels(offs)

(* process_msg where it returns without an exception. *)
ProcessMsg(msg) ==
  \/ Status(msg) = "ok" /\ Account(msg)
  \/ Status(msg) \in {"off_tick", "ignored"} /\ UNCHANGED l2_vars

(* a is a better price than b on this side. *)
Better(is_buy, a, b) == IF is_buy THEN a > b ELSE a < b

(* The prices of S from the n best on: heapq.nlargest / nsmallest. *)
Rank(is_buy, price, S) == 1 + Cardinality({q \in S : Better(is_buy, q, price)})

(* get_updt needs more than BBO_DEPTH - 1 levels, and asserts so. *)
CanUpdt(is_buy) == Cardinality(SideLevels(is_buy)) >= BBO_DEPTH

(* get_bid_updt / get_off_updt: the level that enters the BBO registers.   *)
GetUpdt(is_buy) ==
  LET price == CHOOSE p \in SideLevels(is_buy) :
                 Rank(is_buy, p, SideLevels(is_buy)) = BBO_DEPTH
  IN  [shares |-> SharesAt(price), price |-> price]

InitL2 ==
  /\ arr = [k \in 0 .. L2_MEM_SIZE - 1 |-> 0]
  /\ bids = {}
  /\ offs = {}
=============================================================================
