-------------------------------- MODULE Feed --------------------------------
(***************************************************************************)
(* The order book driven by an exchange.  The exchange keeps the live      *)
(* orders of one stock, never lets bids and offers meet, and sends a       *)
(* message for every change; some messages contradict what was sent        *)
(* before.  Top.process_pkt hands both halves of a 'U' message to the book *)
(* one after the other, and drops the second when the first is answered    *)
(* with an error (src/ref_model/top.py:61-94).                             *)
(***************************************************************************)
EXTENDS Book, OrderSums

CONSTANT Quotes  \* <<is_buy, price, shares>> the exchange's orders come with

ASSUME QuotesAssumption == Quotes \subseteq BOOLEAN \X Prices \X ShareCounts

VARIABLES live,     \* the exchange's live orders, by id
          missed,   \* live orders whose message did not reach the book, or
                    \* for which L3 had no place
          pending,  \* the second half of a 'U' message and its order, or NoMsg
          lost      \* BBO has answered "No shares in range for updt."

feed_vars == <<live, missed, pending, lost>>

vars == <<ram, cam, last_del_is_buy, arr, bids, offs,
          bid_module, off_module, bid_entry, off_entry, result,
          live, missed, pending, lost>>

NoMsg == [msg_type |-> "none"]

Order(is_buy, shares, price) == [is_buy |-> is_buy, shares |-> shares, price |-> price]

(* The book handles a message; the loss of the best levels is remembered. *)
Handle(msg) ==
  /\ ProcessMsg(msg)
  /\ lost' = (lost \/ result'.why = "no_shares_in_range")

(* A new order L3 has no place for is missed. *)
Enter(msg) ==
  /\ Handle(msg)
  /\ missed' = IF result'.why = "full" THEN missed \cup {msg.order_id} ELSE missed

Between == pending = NoMsg

(* 'A', 'F': a new order. *)
NewOrder ==
  /\ Between
  /\ \E msg \in AddOrderMsg :
       /\ msg.order_id \notin DOMAIN live
       /\ <<msg.is_buy, msg.price, msg.shares>> \in Quotes
       /\ live' = Put(live, msg.order_id, Order(msg.is_buy, msg.shares, msg.price))
       /\ Uncrossed(live')
       /\ Enter(msg)
  /\ UNCHANGED pending

(* 'E', 'C', 'X': an order is executed or cancelled in part or in full. *)
ReduceOrder ==
  /\ Between
  /\ \E msg \in ReduceOrderMsg :
       /\ msg.order_id \in DOMAIN live
       /\ LET order == live[msg.order_id]
          IN  /\ order.shares >= msg.shares
              /\ live' = IF order.shares = msg.shares
                         THEN Drop(live, msg.order_id)
                         ELSE Put(live, msg.order_id, [order EXCEPT !.shares = @ - msg.shares])
       /\ Handle(msg)
  /\ missed' = missed \cap DOMAIN live'
  /\ UNCHANGED pending

(* 'D': an order is deleted. *)
DeleteOrder ==
  /\ Between
  /\ \E msg \in DeleteOrderMsg :
       /\ msg.order_id \in DOMAIN live
       /\ live' = Drop(live, msg.order_id)
       /\ Handle(msg)
  /\ missed' = missed \cap DOMAIN live'
  /\ UNCHANGED pending

(* 'U', first half: the order it names is deleted.  If that fails the new  *)
(* order never reaches the book.                                           *)
ReplaceOrder ==
  /\ Between
  /\ \E id \in DOMAIN live, msg \in ReplaceOrderMsg :
       LET rest == Drop(live, id)
           new  == Order(live[id].is_buy, msg.shares, msg.price)
           all  == Put(rest, msg.order_id, new)
       IN  /\ msg.order_id \notin DOMAIN live
           /\ <<live[id].is_buy, msg.price, msg.shares>> \in Quotes
           /\ Uncrossed(all)
           /\ Handle([msg_type |-> "DELETE", order_id |-> id])
           /\ IF result'.kind = "ok"
              THEN /\ pending' = [msg |-> msg, order |-> new]
                   /\ live' = rest /\ missed' = missed \ {id}
              ELSE pending' = NoMsg /\ live' = all
                   /\ missed' = (missed \ {id}) \cup {msg.order_id}

(* 'U', second half: the new order enters on the side of the old one. *)
ReplaceHalf ==
  /\ ~Between
  /\ live' = Put(live, pending.msg.order_id, pending.order)
  /\ Enter(pending.msg)
  /\ pending' = NoMsg

(* A message that contradicts the live orders: a known id is added again,  *)
(* an unknown one reduced or deleted, or more shares taken than there are. *)
BadMsg ==
  /\ Between
  /\ \E msg \in AddOrderMsg \cup ReduceOrderMsg \cup DeleteOrderMsg :
       /\ msg.order_id \notin missed
       /\ \/ msg.msg_type = "ADD" /\ msg.order_id \in DOMAIN live
               /\ <<msg.is_buy, msg.price, msg.shares>> \in Quotes
          \/ msg.msg_type # "ADD" /\ msg.order_id \notin DOMAIN live
          \/ msg.msg_type = "REDUCE" /\ msg.order_id \in DOMAIN live
               /\ live[msg.order_id].shares < msg.shares
       /\ Handle(msg)
  /\ UNCHANGED <<live, missed, pending>>

Init ==
  /\ InitBook
  /\ live = EmptyDict /\ missed = {} /\ pending = NoMsg /\ lost = FALSE

Next == NewOrder \/ ReduceOrder \/ DeleteOrder \/ ReplaceOrder \/ ReplaceHalf \/ BadMsg

Spec == Init /\ [][Next]_vars

----------------------------------------------------------------------------
(* Every variable has its type: L2's totals never go negative, and the     *)
(* registers never hold more than BBO_DEPTH levels.                        *)
HalfTypeOK(half) ==
  /\ half.entries \in Seq([shares : Nat \ {0}, price : Prices])
  /\ Len(half.entries) <= BBO_DEPTH
  /\ half.outside \in Int
  /\ half.in_range \in Int

TypeOK ==
  /\ last_del_is_buy \in L3!Sides
  /\ arr \in [0 .. L2_MEM_SIZE - 1 -> Nat]
  /\ bids \subseteq Prices /\ offs \subseteq Prices
  /\ HalfTypeOK(bid_module) /\ HalfTypeOK(off_module)
  /\ result.kind \in {"ok", "error", "exception"}
  /\ IsDict(live, OrderIds, L3!L3Entry)
  /\ pending \in [msg : ReplaceOrderMsg, order : L3!L3Entry] \cup {NoMsg}

(* L3 holds exactly the exchange's live orders, but for those whose        *)
(* message Top dropped or for which it had no place; in particular a       *)
(* replacement enters on the side of the order it replaces.                *)
L3FollowsExchange ==
  ~Stopped => L3!Contents = [id \in DOMAIN live \ missed |-> live[id]]

----------------------------------------------------------------------------
(* The orders the price levels are made of: those L3 holds at a tick. *)
Priced ==
  LET stored == L3!Contents
  IN  [id \in {i \in DOMAIN stored : L2!OnTick(stored[i].price)} |-> stored[id]]

(* assert_consistent_state, first part: in the window L2 is what the       *)
(* orders of L3 add up to, and its side sets name the levels that exist.   *)
(* It holds after every message, whatever BBO answered.                    *)
L2AggregatesL3 ==
  ~Stopped =>
    LET book == Priced
        Levels(is_buy) == {p \in SidePrices(book, is_buy) : L2!InWindow(p)}
    IN  /\ bids = Levels(TRUE)
        /\ offs = Levels(FALSE)
        /\ \A p \in bids \cup offs :
             L2!SharesAt(p) = SharesOf(book, {id \in DOMAIN book : book[id].price = p})
        /\ \A k \in DOMAIN arr :
             arr[k] > 0 => \E p \in bids \cup offs : L2!price_hash(p) = k

(* The half's registers hold the best levels of the side, best first, and  *)
(* its counts are the shares of the levels left over.                      *)
HalfExact(half, book, is_buy) ==
  LET orders == OrdersOf(book, is_buy)
      prices == {book[id].price : id \in orders}
      n      == Min({BBO_DEPTH, Cardinality(prices)})
      held   == {half.entries[i].price : i \in DOMAIN half.entries}
      others == {id \in orders : book[id].price \notin held}
  IN  /\ Len(half.entries) = n
      /\ \A i \in 1 .. n :
           LET e == half.entries[i]
           IN  /\ e.price \in prices
               /\ L2!Rank(is_buy, e.price, prices) = i
               /\ e.shares = SharesOf(book, {id \in orders : book[id].price = e.price})
      /\ half.outside = SharesOf(book, others)
      /\ half.in_range = SharesOf(book, {id \in others : L2!InWindow(book[id].price)})

(* assert_consistent_state, second part, and what it leaves out: until BBO *)
(* has answered that it lost track, its registers are the best levels of   *)
(* the orders in and out of the window, and the two counters that decide   *)
(* between a refill and that error are the shares really outside.          *)
BBOExact ==
  ~lost /\ ~Stopped =>
    LET book == Priced
    IN  HalfExact(bid_module, book, TRUE) /\ HalfExact(off_module, book, FALSE)

(* None of the assertions in l3, l2 and bbo is what a feed of an uncrossed *)
(* market runs into, as long as BBO has not answered that it lost track.   *)
NoAssertionFails == ~lost => ~Stopped

(* The book reports the best bid and offer of the live orders after every  *)
(* message it takes in, and a refused message changes nothing.             *)
OB == INSTANCE OrderBook WITH
        orders <- Priced,
        report <- [kind |-> IF lost THEN "lost"
                            ELSE IF result.kind = "ok" THEN "best" ELSE result.kind,
                   bid  |-> IF lost THEN BBO!NoEntry ELSE result.bid,
                   off  |-> IF lost THEN BBO!NoEntry ELSE result.off]

ImplementsOrderBook == OB!OBSpec

(* The spread of an uncrossed market is positive (bbo.py:53).              *)
SpreadStaysPositive == result.why # "spread"
=============================================================================
