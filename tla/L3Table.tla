------------------------------ MODULE L3Table ------------------------------
(***************************************************************************)
(* The L3 order table alone, driven by every message the ITCH parser and   *)
(* Top can hand it, with the answer it gives.  ADD, REDUCE and DELETE      *)
(* arrive in any order, well-formed or not; a REPLACE is the second half   *)
(* of a 'U' message, so it arrives only right after the DELETE it belongs  *)
(* to was accepted (Top drops it when the first half fails).  An exception *)
(* is not caught anywhere: it ends the run.                                *)
(***************************************************************************)
EXTENDS L3

VARIABLE l3_result  \* L3Result of the last message: its status and lookup_msg

vars == <<ram, cam, last_del_is_buy, l3_result>>

NoLookup == [msg_type |-> "none"]

Statuses == {"none", "ok", "duplicate", "missing", "negative", "full", "raises"}

Init ==
  /\ InitL3
  /\ l3_result = [status |-> "none", lookup |-> NoLookup]

Stopped == Raises(l3_result.status)

Arrives(msg) ==
  msg.msg_type = "REPLACE" => /\ l3_result.status = "ok"
                              /\ l3_result.lookup.msg_type = "DELETE"

Accepted(msg) ==
  /\ Accept(msg)
  /\ l3_result' = [status |-> "ok", lookup |-> LookupMsg(msg)]

Refused(msg) ==
  /\ Refuse(msg)
  /\ l3_result' = [status |-> Status(msg), lookup |-> NoLookup]

Next ==
  /\ ~Stopped
  /\ \E msg \in BookMsg : Arrives(msg) /\ (Accepted(msg) \/ Refused(msg))

Spec == Init /\ [][Next]_vars

----------------------------------------------------------------------------
(* Every variable has its type; a line holds orders of its own address     *)
(* only, and the assertion on last_del_is_buy (l3_order_table.py:92) is    *)
(* never what ends process_msg.                                            *)
TypeOK ==
  /\ ram = [a \in Addrs |-> ram[a]]
  /\ \A a \in Addrs : IsDict(ram[a], OrderIds, L3Entry)
  /\ IsDict(cam, OrderIds, L3Entry)
  /\ last_del_is_buy \in Sides
  /\ l3_result \in [status : Statuses, lookup : DownstreamOrderMsg \cup {NoLookup}]

(* The hash table with its spill memory answers every message as a plain   *)
(* dictionary would, except that a new order may find no slot.             *)
Store == INSTANCE OrderStore WITH orders    <- Contents,
                                  last_side <- last_del_is_buy,
                                  answer    <- l3_result

ImplementsStore == Store!StoreSpec

(* The table never raises on a spill: tests/test_book.py:298-306 expects   *)
(* an order whose line is full to be accepted and looked up in the CAM.    *)
SpillNeverRaises == l3_result.status # "raises"
=============================================================================
