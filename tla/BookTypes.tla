----------------------------- MODULE BookTypes -----------------------------
(***************************************************************************)
(* The messages and records that travel through the order book             *)
(* (src/ref_model/structs.py), and the dictionary operations every table   *)
(* of the reference model is built from.                                   *)
(***************************************************************************)
EXTENDS Integers, FiniteSets

CONSTANTS OrderIds,     \* order reference numbers
          ShareCounts,  \* share counts a message can carry
          Prices        \* prices a message can carry

ASSUME OrderIdsAssumption    == OrderIds \subseteq Nat
ASSUME ShareCountsAssumption == ShareCounts \subseteq Nat \ {0}
ASSUME PricesAssumption      == Prices \subseteq Nat \ {0}

----------------------------------------------------------------------------
(* Book messages, as the ITCH parser emits them.  An 'A' or 'F' message is *)
(* an ADD, an 'E', 'C' or 'X' message a REDUCE, and a 'U' message a DELETE *)
(* followed at once by a REPLACE, which carries no side.                   *)

AddOrderMsg == [msg_type : {"ADD"}, order_id : OrderIds, is_buy : BOOLEAN,
                shares : ShareCounts, price : Prices]

ReduceOrderMsg == [msg_type : {"REDUCE"}, order_id : OrderIds, shares : ShareCounts]

DeleteOrderMsg == [msg_type : {"DELETE"}, order_id : OrderIds]

ReplaceOrderMsg == [msg_type : {"REPLACE"}, order_id : OrderIds,
                    shares : ShareCounts, price : Prices]

BookMsg == AddOrderMsg \cup ReduceOrderMsg \cup DeleteOrderMsg \cup ReplaceOrderMsg

(* What the L3 table stores of an order. *)
L3Entry == [is_buy : BOOLEAN, shares : Nat \ {0}, price : Prices]

(* What L3 hands on to L2 and BBO: the message with every field filled in. *)
DownstreamOrderMsg == [msg_type : {"ADD", "REDUCE", "DELETE", "REPLACE"},
                       is_buy : BOOLEAN, shares : Nat \ {0}, price : Prices]

(* ADD and REPLACE bring shares to a price level, REDUCE and DELETE take them away. *)
BringsShares(msg) == msg.msg_type \in {"ADD", "REPLACE"}

----------------------------------------------------------------------------
(* A Python dict is a function on the set of its keys. *)

IsDict(d, K, V) == DOMAIN d \subseteq K /\ d \in [DOMAIN d -> V]

EmptyDict == [k \in {} |-> {}]

Put(d, k, v) == [x \in DOMAIN d \cup {k} |-> IF x = k THEN v ELSE d[x]]

Drop(d, k) == [x \in DOMAIN d \ {k} |-> d[x]]
=============================================================================
