----------------------------- MODULE OrderStore -----------------------------
(***************************************************************************)
(* What an order table promises, whatever memory it keeps orders in: a     *)
(* dictionary from order ids to orders and, for every message, an answer   *)
(* that follows from the dictionary alone.  L3 with ideal = True, which    *)
(* keeps orders in a Python dict, is this specification; it may in         *)
(* addition run out of slots for a new order, and then nothing changes.    *)
(***************************************************************************)
EXTENDS BookTypes

VARIABLES orders,     \* the live orders, by id
          last_side,  \* side a REPLACE gives its new order
          answer      \* the answer to the last message

store_vars == <<orders, last_side, answer>>

Answer(status, lookup) == [status |-> status, lookup |-> lookup]

NoLookup == [msg_type |-> "none"]

Lookup(msg, order, shares) ==
  [msg_type |-> msg.msg_type, is_buy |-> order.is_buy,
   shares |-> shares, price |-> order.price]

Live(id) == id \in DOMAIN orders

(* A new order enters the store and is passed on as it stands. *)
Enter(msg, order) ==
  /\ ~Live(msg.order_id)
  /\ orders' = Put(orders, msg.order_id, order)
  /\ UNCHANGED last_side
  /\ answer' = Answer("ok", Lookup(msg, order, order.shares))

Add(msg) ==
  /\ msg.msg_type = "ADD"
  /\ Enter(msg, [is_buy |-> msg.is_buy, shares |-> msg.shares, price |-> msg.price])

(* A replacement takes the side of the order deleted last. *)
Replace(msg) ==
  /\ msg.msg_type = "REPLACE"
  /\ last_side # "none"
  /\ Enter(msg, [is_buy |-> last_side = "buy", shares |-> msg.shares, price |-> msg.price])

(* An order that loses all its shares leaves the store. *)
Reduce(msg) ==
  /\ msg.msg_type = "REDUCE"
  /\ Live(msg.order_id)
  /\ LET id    == msg.order_id
         order == orders[id]
     IN  /\ order.shares >= msg.shares
         /\ orders' = IF order.shares = msg.shares
                      THEN Drop(orders, id)
                      ELSE Put(orders, id, [order EXCEPT !.shares = @ - msg.shares])
         /\ answer' = Answer("ok", Lookup(msg, order, msg.shares))
  /\ UNCHANGED last_side

Delete(msg) ==
  /\ msg.msg_type = "DELETE"
  /\ Live(msg.order_id)
  /\ LET order == orders[msg.order_id]
     IN  /\ orders' = Drop(orders, msg.order_id)
         /\ last_side' = IF order.is_buy THEN "buy" ELSE "sell"
         /\ answer' = Answer("ok", Lookup(msg, order, order.shares))

(* A message that contradicts the live orders is answered with an error. *)
Contradicts(msg) ==
  \/ /\ BringsShares(msg)
     /\ Live(msg.order_id)
     /\ answer' = Answer("duplicate", NoLookup)
  \/ /\ ~BringsShares(msg)
     /\ ~Live(msg.order_id)
     /\ answer' = Answer("missing", NoLookup)
  \/ /\ msg.msg_type = "REDUCE"
     /\ Live(msg.order_id)
     /\ orders[msg.order_id].shares < msg.shares
     /\ answer' = Answer("negative", NoLookup)

(* A new order finds no slot.  *)
OutOfSlots(msg) ==
  /\ BringsShares(msg)
  /\ ~Live(msg.order_id)
  /\ answer' \in {Answer("full", NoLookup), Answer("raises", NoLookup)}

StoreInit ==
  /\ orders = EmptyDict
  /\ last_side = "none"
  /\ answer = Answer("none", NoLookup)

StoreNext ==
  \E msg \in BookMsg :
    \/ Add(msg) \/ Reduce(msg) \/ Delete(msg) \/ Replace(msg)
    \/ (Contradicts(msg) \/ OutOfSlots(msg)) /\ UNCHANGED <<orders, last_side>>

StoreSpec == StoreInit /\ [][StoreNext]_store_vars
=============================================================================
