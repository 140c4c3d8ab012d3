--------------------------------- MODULE L3 ---------------------------------
(***************************************************************************)
(* The L3 order table of the reference model (class L3 of                  *)
(* src/ref_model/l3_order_table.py): looks an order up by its id, keeps    *)
(* the table up to date and fills in the fields L2 and BBO need.           *)
(***************************************************************************)
EXTENDS L3Memory

VARIABLE last_del_is_buy  \* side of the last deleted order, "none" before the first

l3_vars == <<ram, cam, last_del_is_buy>>

Sides == {"none", "buy", "sell"}

SideOf(is_buy) == IF is_buy THEN "buy" ELSE "sell"

(* process_msg's checks, in the order it makes them: "ok", an error it     *)
(* returns, or the way an exception leaves it ("assert", "raises").        *)
Status(msg) ==
  LET id == msg.order_id
  IN  CASE BringsShares(msg) /\ Contains(id) -> "duplicate"
        [] msg.msg_type = "REPLACE" /\ ~Contains(id) /\ last_del_is_buy = "none" -> "assert"
        [] BringsShares(msg) /\ ~Contains(id) /\ StoreOutcome(id) # "stored" -> StoreOutcome(id)
        [] ~BringsShares(msg) /\ ~Contains(id) -> "missing"
        [] msg.msg_type = "REDUCE" /\ Contains(id) /\ GetItem(id).shares < msg.shares -> "negative"
        [] OTHER -> "ok"

(* An exception leaves process_msg, an error code is returned. *)
Raises(status) == status \in {"assert", "raises"}

(* The entry a message that brings shares stores. *)
NewEntry(msg) ==
  [is_buy |-> IF msg.msg_type = "ADD" THEN msg.is_buy ELSE last_del_is_buy = "buy",
   shares |-> msg.shares, price |-> msg.price]

(* lookup_msg of the result: the stored order fills in what msg leaves out. *)
LookupMsg(msg) ==
  LET order == IF BringsShares(msg) THEN NewEntry(msg) ELSE GetItem(msg.order_id)
  IN  [msg_type |-> msg.msg_type,
       is_buy   |-> order.is_buy,
       shares   |-> IF msg.msg_type = "REDUCE" THEN msg.shares ELSE order.shares,
       price    |-> order.price]

Add(msg) ==
  /\ msg.msg_type = "ADD"
  /\ SetItem(msg.order_id, NewEntry(msg))
  /\ UNCHANGED last_del_is_buy

(* Mutant: an order reduced to no shares stays. *)
ReduceKeepsEmpty(msg) ==
  /\ msg.msg_type = "REDUCE"
  /\ LET id    == msg.order_id
         entry == GetItem(id)
     IN  SetItem(id, [entry EXCEPT !.shares = @ - msg.shares])
  /\ UNCHANGED last_del_is_buy

Reduce(msg) ==
  /\ msg.msg_type = "REDUCE"
  /\ LET id    == msg.order_id
         entry == GetItem(id)
     IN  IF entry.shares > msg.shares
         THEN SetItem(id, [entry EXCEPT !.shares = @ - msg.shares])
         ELSE DelItem(id)
  /\ UNCHANGED last_del_is_buy

(* Mutant: the side is not kept for the REPLACE that may follow.  *)
DeleteForgetsSide(msg) ==
  /\ msg.msg_type = "DELETE"
  /\ DelItem(msg.order_id)
  /\ UNCHANGED last_del_is_buy

Delete(msg) ==
  /\ msg.msg_type = "DELETE"
  /\ DelItem(msg.order_id)
  /\ last_del_is_buy' = SideOf(GetItem(msg.order_id).is_buy)

Replace(msg) ==
  /\ msg.msg_type = "REPLACE"
  /\ SetItem(msg.order_id, NewEntry(msg))
  /\ UNCHANGED last_del_is_buy

(* process_msg of a message it accepts. *)
Accept(msg) ==
  /\ Status(msg) = "ok"
  /\ Add(msg) \/ Reduce(msg) \/ Delete(msg) \/ Replace(msg)

(* process_msg of a message it answers with an error or an exception: the  *)
(* table is left as it was.                                                *)
Refuse(msg) ==
  /\ Status(msg) # "ok"
  /\ UNCHANGED l3_vars

InitL3 == InitMemory /\ last_del_is_buy = "none"
=============================================================================
