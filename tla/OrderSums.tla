------------------------------ MODULE OrderSums ------------------------------
(***************************************************************************)
(* What a book of orders adds up to: the orders of a side, their prices,   *)
(* and the shares of a set of orders.  A book is a dictionary of orders by *)
(* id.                                                                     *)
(***************************************************************************)
EXTENDS FiniteSetsExt

OrdersOf(book, is_buy) == {id \in DOMAIN book : book[id].is_buy = is_buy}

SidePrices(book, is_buy) == {book[id].price : id \in OrdersOf(book, is_buy)}

SharesOf(book, ids) == MapThenSumSet(LAMBDA id : book[id].shares, ids)

(* Bids and offers on the exchange never meet. *)
Uncrossed(book) ==
  \A b \in SidePrices(book, TRUE), o \in SidePrices(book, FALSE) : b < o
=============================================================================
