------------------------------- MODULE MCFeed -------------------------------
(* Four orders in a window of four ticks, 100 to 200 + 50, with one bid    *)
(* below it, one offer above it and one bid between two ticks: enough for  *)
(* two levels in the registers, one in L2 only and one nowhere.            *)
EXTENDS Feed

MCOrderIds    == 1 .. 4
MCShareCounts == {1, 2}
MCPrices      == {50, 100, 125, 150, 200, 250, 300}
MCQuotes      == {<<TRUE, 50, 1>>, <<TRUE, 100, 1>>, <<TRUE, 125, 1>>,
                  <<TRUE, 150, 2>>, <<TRUE, 200, 1>>,
                  <<FALSE, 150, 1>>, <<FALSE, 200, 2>>, <<FALSE, 250, 1>>, <<FALSE, 300, 1>>}

(* A refused message leaves everything but the result as it was, so what   *)
(* follows it also follows the state before it.                            *)
ExpandOnce == result.why \notin {"duplicate", "missing", "negative"}

(* Past the loss BBO's counters drift without bound, and only L3 and L2    *)
(* still promise anything: follow books of two orders and small counters.  *)
ShortAfterLoss ==
  lost => /\ Cardinality(DOMAIN live) <= 2
          /\ \A half \in {bid_module, off_module} : half.outside \in 0 .. 1

(* Ids of one L3 line are interchangeable: the exchange takes the least    *)
(* free one, and states that differ by which id an order has are one.      *)
LeastFreeId ==
  \A id \in DOMAIN live' \ DOMAIN live : \A i \in OrderIds \ DOMAIN live : id <= i

NoOrder == Order(FALSE, 0, 0)

Known(id) == [at_exchange |-> IF id \in DOMAIN live THEN live[id] ELSE NoOrder,
              at_l3       |-> IF L3!Contains(id) THEN L3!GetItem(id) ELSE NoOrder,
              missed      |-> id \in missed]

UpToIds ==
  LET kinds == {Known(id) : id \in OrderIds}
  IN  <<[k \in kinds |-> Cardinality({id \in OrderIds : Known(id) = k})],
        last_del_is_buy, l2_vars, bbo_vars, result, lost,
        IF Between THEN NoOrder ELSE pending.order>>
=============================================================================
