----------------------------- MODULE OrderBook -----------------------------
(***************************************************************************)
(* What an order book promises.  It follows the live orders, and after     *)
(* every message reports the best bid and the best offer they make up.     *)
(* Once it has reported that it lost track of the best levels, only the    *)
(* live orders are promised.                                               *)
(***************************************************************************)
EXTENDS BookTypes, OrderSums

VARIABLES orders,  \* the live orders, by id
          report   \* the last answer: best bid and offer, an error, or "lost"

ob_vars == <<orders, report>>

NoLevel == [shares |-> 0, price |-> 0]

(* The shares a side puts at a price. *)
SharesAtPrice(book, is_buy, price) ==
  SharesOf(book, {id \in OrdersOf(book, is_buy) : book[id].price = price})

LevelAt(book, is_buy, price) ==
  [shares |-> SharesAtPrice(book, is_buy, price), price |-> price]

BestPrice(prices, is_buy) == IF is_buy THEN Max(prices) ELSE Min(prices)

BestLevel(book, is_buy) ==
  LET prices == SidePrices(book, is_buy)
  IN  IF prices = {} THEN NoLevel
      ELSE LevelAt(book, is_buy, BestPrice(prices, is_buy))

BestReport(book) ==
  [kind |-> "best", bid |-> BestLevel(book, TRUE), off |-> BestLevel(book, FALSE)]

Failed(kind) == [kind |-> kind, bid |-> NoLevel, off |-> NoLevel]

----------------------------------------------------------------------------
(* How the live orders can change: an order enters, loses some of its      *)
(* shares, or leaves.                                                      *)
Enters ==
  LET after == orders'
  IN  \E id \in DOMAIN after \ DOMAIN orders :
        /\ id \in OrderIds
        /\ after[id] \in [is_buy : BOOLEAN, shares : ShareCounts, price : Prices]
        /\ after = Put(orders, id, after[id])

Shrinks ==
  LET before == orders
      after  == orders'
  IN  \E id \in DOMAIN before, shares \in ShareCounts :
        /\ before[id].shares > shares
        /\ after = Put(before, id, [before[id] EXCEPT !.shares = @ - shares])

Leaves ==
  LET before == orders
      after  == orders'
  IN  \E id \in DOMAIN before : after = Drop(before, id)

Changes == Enters \/ Shrinks \/ Leaves

Lost == report.kind = "lost"

(* A message takes effect, and the report is exact. *)
TakesEffect == Changes /\ ~Lost /\ report' = BestReport(orders')

(* A message is refused: it changes nothing. *)
Refuses == UNCHANGED orders /\ ~Lost /\ report' = Failed("error")

(* The book reports it can no longer name the best levels, and an order    *)
(* that a message takes away does leave.                                   *)
LosesTrack == Leaves /\ ~Lost /\ report' = Failed("lost")

OnlyFollows == Lost /\ (Changes \/ UNCHANGED orders) /\ UNCHANGED report

OBInit ==
  /\ orders = EmptyDict
  /\ report = BestReport(EmptyDict)

OBNext == TakesEffect \/ Refuses \/ LosesTrack \/ OnlyFollows

OBSpec == OBInit /\ [][OBNext]_ob_vars
=============================================================================
