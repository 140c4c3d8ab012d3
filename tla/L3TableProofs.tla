--------------------------- MODULE L3TableProofs ---------------------------
(***************************************************************************)
(* Proofs about the L3 order table, for every number of lines, ways and    *)
(* CAM entries and every set of order ids, share counts and prices.        *)
(***************************************************************************)
EXTENDS L3Table, L3Proofs

----------------------------------------------------------------------------
(* The inductive invariant. *)

ResultType ==
  /\ last_del_is_buy \in Sides
  /\ l3_result \in [status : Statuses, lookup : DownstreamOrderMsg \cup {NoLookup}]

(* Why the assertion on last_del_is_buy holds: a REPLACE follows an        *)
(* accepted DELETE, and an accepted DELETE has noted its side.             *)
DeleteNotesSide ==
  /\ l3_result.status = "ok"
  /\ l3_result.lookup.msg_type = "DELETE"
  => last_del_is_buy \in {"buy", "sell"}

IInv == MemoryInv /\ ResultType /\ DeleteNotesSide

(* Initially nothing is stored.                                            *)
LEMMA InitIInv == Init => IInv /\ Store!StoreInit
<1> SUFFICES ASSUME Init PROVE IInv /\ Store!StoreInit
  OBVIOUS
<1>1. ram = [a \in Addrs |-> EmptyDict] /\ cam = EmptyDict
  BY DEF Init, InitL3, InitMemory
<1>2. DOMAIN EmptyDict = {} /\ IsDict(EmptyDict, OrderIds, L3Entry)
  BY DEF EmptyDict, IsDict
<1>3. MemoryType
  BY <1>1, <1>2 DEF MemoryType
<1>4. OneHome
  BY <1>1, <1>2 DEF OneHome
<1>5. WithinCapacity
  BY <1>1, <1>2, FS_EmptySet, L3SizesAssumption DEF WithinCapacity
<1>6. ResultType /\ DeleteNotesSide
  BY DEF Init, InitL3, ResultType, DeleteNotesSide, Sides, Statuses
<1>7. Contents = Store!EmptyDict
  BY <1>1, <1>2, HashInAddrs
  DEF Contents, Stored, Contains, line, Store!EmptyDict
<1>8. Store!StoreInit
  BY <1>7 DEF Store!StoreInit, Store!Answer, Store!NoLookup, NoLookup, Init, InitL3
<1> QED BY <1>3, <1>4, <1>5, <1>6, <1>8 DEF IInv, MemoryInv

----------------------------------------------------------------------------
(* Each operation keeps the invariant and is its abstract counterpart. *)

(* A message that brings shares, accepted by SetItem. *)
LEMMA AddStep ==
  ASSUME IInv, NEW msg \in BookMsg, Accepted(msg), Add(msg)
  PROVE  IInv' /\ Store!Add(msg)
<1> DEFINE id == msg.order_id
           entry == NewEntry(msg)
<1>1. msg.msg_type = "ADD" /\ BringsShares(msg)
  BY DEF Add, BringsShares
<1>2. id \in OrderIds /\ entry \in L3Entry
  BY <1>1, MsgFacts, NewEntryType
<1>3. SetItem(id, entry) /\ last_del_is_buy' = last_del_is_buy
  BY DEF Add
<1>4. MemoryInv' /\ Contents' = Put(Contents, id, entry)
  BY <1>2, <1>3, SetItemFacts DEF IInv
<1>5. l3_result' = [status |-> "ok", lookup |-> LookupMsg(msg)] /\ Status(msg) = "ok"
  BY DEF Accepted, Accept
<1>6. LookupMsg(msg) \in DownstreamOrderMsg /\ LookupMsg(msg).msg_type = "ADD"
  BY <1>1, LookupType DEF IInv, LookupMsg
<1>7. ResultType' /\ DeleteNotesSide'
  BY <1>3, <1>5, <1>6 DEF IInv, ResultType, DeleteNotesSide, Statuses
<1>8. ~Contains(id)
  BY <1>1, <1>5 DEF Status
<1>9. ~Store!Live(id)
  BY <1>2, <1>8, ContentsFacts DEF IInv, Store!Live
<1>10. entry = [is_buy |-> msg.is_buy, shares |-> msg.shares, price |-> msg.price]
  BY <1>1 DEF NewEntry
<1>11. LookupMsg(msg) = Store!Lookup(msg, entry, entry.shares)
  BY <1>1 DEF LookupMsg, Store!Lookup, NewEntry
<1>12. Store!Enter(msg, entry)
  BY <1>3, <1>4, <1>5, <1>9, <1>11 DEF Store!Enter, Store!Answer, Store!Put, Put
<1> QED BY <1>1, <1>4, <1>7, <1>10, <1>12 DEF IInv, Store!Add

(* A replacement takes the side of the order deleted right before it.      *)
LEMMA ReplaceStep ==
  ASSUME IInv, NEW msg \in BookMsg, Arrives(msg), Accepted(msg), Replace(msg)
  PROVE  IInv' /\ Store!Replace(msg)
<1> DEFINE id == msg.order_id
           entry == NewEntry(msg)
<1>1. msg.msg_type = "REPLACE" /\ BringsShares(msg)
  BY DEF Replace, BringsShares
<1>2. id \in OrderIds /\ entry \in L3Entry
  BY <1>1, MsgFacts, NewEntryType
<1>3. SetItem(id, entry) /\ last_del_is_buy' = last_del_is_buy
  BY DEF Replace
<1>4. MemoryInv' /\ Contents' = Put(Contents, id, entry)
  BY <1>2, <1>3, SetItemFacts DEF IInv
<1>5. l3_result' = [status |-> "ok", lookup |-> LookupMsg(msg)] /\ Status(msg) = "ok"
  BY DEF Accepted, Accept
<1>6. LookupMsg(msg) \in DownstreamOrderMsg /\ LookupMsg(msg).msg_type = "REPLACE"
  BY <1>1, LookupType DEF IInv, LookupMsg
<1>7. ResultType' /\ DeleteNotesSide'
  BY <1>3, <1>5, <1>6 DEF IInv, ResultType, DeleteNotesSide, Statuses
<1>8. ~Contains(id)
  BY <1>1, <1>5 DEF Status
<1>9. ~Store!Live(id)
  BY <1>2, <1>8, ContentsFacts DEF IInv, Store!Live
<1>10. last_del_is_buy # "none"
  BY <1>1 DEF Arrives, IInv, DeleteNotesSide
<1>11. entry = [is_buy |-> last_del_is_buy = "buy", shares |-> msg.shares, price |-> msg.price]
  BY <1>1 DEF NewEntry
<1>12. LookupMsg(msg) = Store!Lookup(msg, entry, entry.shares)
  BY <1>1 DEF LookupMsg, Store!Lookup, NewEntry
<1>13. Store!Enter(msg, entry)
  BY <1>3, <1>4, <1>5, <1>9, <1>12 DEF Store!Enter, Store!Answer, Store!Put, Put
<1> QED BY <1>1, <1>4, <1>7, <1>10, <1>11, <1>13 DEF IInv, Store!Replace

(* A deletion takes the order out and notes its side.                      *)
LEMMA DeleteStep ==
  ASSUME IInv, NEW msg \in BookMsg, Accepted(msg), Delete(msg)
  PROVE  IInv' /\ Store!Delete(msg)
<1> DEFINE id == msg.order_id
           order == GetItem(id)
<1>1. msg.msg_type = "DELETE" /\ ~BringsShares(msg)
  BY DEF Delete, BringsShares
<1>2. l3_result' = [status |-> "ok", lookup |-> LookupMsg(msg)] /\ Status(msg) = "ok"
  BY DEF Accepted, Accept
<1>3. Contains(id)
  BY <1>1, <1>2 DEF Status, BringsShares
<1>4. id \in OrderIds /\ order \in L3Entry
  BY <1>3, MsgFacts, ContentsFacts DEF IInv
<1>5. MemoryInv' /\ Contents' = Drop(Contents, id)
  BY <1>3, <1>4, DelItemFacts DEF IInv, Delete
<1>6. last_del_is_buy' = (IF order.is_buy THEN "buy" ELSE "sell")
  BY DEF Delete, SideOf
<1>7. LookupMsg(msg) \in DownstreamOrderMsg
  BY <1>3, LookupType DEF IInv
<1>8. ResultType' /\ DeleteNotesSide'
  BY <1>2, <1>6, <1>7 DEF ResultType, DeleteNotesSide, Statuses, Sides
<1>9. Store!Live(id) /\ Contents[id] = order
  BY <1>3, <1>4, ContentsFacts DEF IInv, Store!Live
<1>10. LookupMsg(msg) = Store!Lookup(msg, order, order.shares)
  BY <1>1 DEF LookupMsg, Store!Lookup
<1> QED BY <1>1, <1>2, <1>5, <1>6, <1>8, <1>9, <1>10
        DEF IInv, Store!Delete, Store!Answer, Store!Drop, Drop

(* A reduction leaves the rest of the order, or takes it out when nothing  *)
(* is left.                                                                *)
LEMMA ReduceStep ==
  ASSUME IInv, NEW msg \in BookMsg, Accepted(msg), Reduce(msg)
  PROVE  IInv' /\ Store!Reduce(msg)
<1> DEFINE id == msg.order_id
           order == GetItem(id)
           left == [order EXCEPT !.shares = order.shares - msg.shares]
<1>1. msg.msg_type = "REDUCE" /\ ~BringsShares(msg)
  BY DEF Reduce, BringsShares
<1>2. l3_result' = [status |-> "ok", lookup |-> LookupMsg(msg)] /\ Status(msg) = "ok"
  BY DEF Accepted, Accept
<1>3. Contains(id) /\ ~(order.shares < msg.shares)
  BY <1>1, <1>2 DEF Status, BringsShares
<1>4. id \in OrderIds /\ order \in L3Entry /\ msg.shares \in Nat \ {0}
  BY <1>1, <1>3, MsgFacts, ContentsFacts DEF IInv
<1>5. last_del_is_buy' = last_del_is_buy
  BY DEF Reduce
<1>6. order.shares \in Nat /\ order.shares >= msg.shares
  BY <1>3, <1>4 DEF L3Entry
<1>7. LookupMsg(msg) \in DownstreamOrderMsg /\ LookupMsg(msg).msg_type = "REDUCE"
  BY <1>1, <1>3, LookupType DEF IInv, LookupMsg
<1>8. ResultType' /\ DeleteNotesSide'
  BY <1>2, <1>5, <1>7 DEF IInv, ResultType, DeleteNotesSide, Statuses
<1>9. Store!Live(id) /\ Contents[id] = order
  BY <1>3, <1>4, ContentsFacts DEF IInv, Store!Live
<1>10. l3_result' = Store!Answer("ok", Store!Lookup(msg, order, msg.shares))
  BY <1>1, <1>2 DEF LookupMsg, Store!Lookup, Store!Answer
<1>11. CASE order.shares > msg.shares
  <2>1. left \in L3Entry
    BY <1>4, <1>6, <1>11 DEF L3Entry
  <2>2. SetItem(id, left)
    BY <1>11 DEF Reduce
  <2>3. MemoryInv' /\ Contents' = Put(Contents, id, left)
    BY <1>4, <2>1, <2>2, SetItemFacts DEF IInv
  <2> QED BY <1>1, <1>5, <1>6, <1>8, <1>9, <1>10, <1>11, <2>3
          DEF IInv, Store!Reduce, Store!Put, Put
<1>12. CASE ~(order.shares > msg.shares)
  <2>1. order.shares = msg.shares
    BY <1>4, <1>6, <1>12
  <2>2. MemoryInv' /\ Contents' = Drop(Contents, id)
    BY <1>3, <1>4, <1>12, DelItemFacts DEF IInv, Reduce
  <2> QED BY <1>1, <1>5, <1>6, <1>8, <1>9, <1>10, <2>1, <2>2
          DEF IInv, Store!Reduce, Store!Drop, Drop
<1> QED BY <1>11, <1>12

(* A refused message changes nothing but the answer, and the answer says   *)
(* what the dictionary shows, or that there was no slot.                   *)
LEMMA RefuseStep ==
  ASSUME IInv, NEW msg \in BookMsg, Arrives(msg), Refused(msg)
  PROVE  /\ IInv'
         /\ Store!Contradicts(msg) \/ Store!OutOfSlots(msg)
         /\ UNCHANGED <<Contents, last_del_is_buy>>
<1> DEFINE id == msg.order_id
<1>1. /\ Status(msg) # "ok"
      /\ UNCHANGED <<ram, cam, last_del_is_buy>>
      /\ l3_result' = [status |-> Status(msg), lookup |-> NoLookup]
  BY DEF Refused, Refuse, l3_vars
<1>2. msg.msg_type = "REPLACE" => last_del_is_buy # "none"
  BY DEF Arrives, IInv, DeleteNotesSide
<1>3. Store!Live(id) <=> Contains(id)
  BY MsgFacts, ContentsFacts DEF IInv, Store!Live
<1>4. Contains(id) => Contents[id] = GetItem(id)
  BY MsgFacts, ContentsFacts DEF IInv
<1>5. StoreOutcome(id) \in {"stored", "raises", "full"}
  BY DEF StoreOutcome
<1>6. \/ Status(msg) = "duplicate" /\ BringsShares(msg) /\ Contains(id)
      \/ Status(msg) \in {"raises", "full"} /\ BringsShares(msg) /\ ~Contains(id)
      \/ Status(msg) = "missing" /\ ~BringsShares(msg) /\ ~Contains(id)
      \/ Status(msg) = "negative" /\ msg.msg_type = "REDUCE" /\ Contains(id)
         /\ GetItem(id).shares < msg.shares
  BY <1>1, <1>2, <1>5 DEF Status, BringsShares
<1>7. Contents' = Contents /\ MemoryInv'
  BY <1>1 DEF IInv, MemoryInv, MemoryType, OneHome, WithinCapacity, line,
              Contents, Stored, Contains, GetItem
<1>8. ResultType' /\ DeleteNotesSide'
  BY <1>1, <1>6 DEF IInv, ResultType, DeleteNotesSide, Statuses, NoLookup
<1>9. Store!Contradicts(msg) \/ Store!OutOfSlots(msg)
  BY <1>1, <1>3, <1>4, <1>6
  DEF Store!Contradicts, Store!OutOfSlots, Store!Answer, Store!NoLookup, NoLookup,
      Store!BringsShares, BringsShares
<1> QED BY <1>1, <1>7, <1>8, <1>9 DEF IInv

(* Every step keeps the invariant and is a step of the store.              *)
LEMMA NextStep ==
  ASSUME IInv, Next
  PROVE  IInv' /\ Store!StoreNext
<1>1. PICK msg \in BookMsg : Arrives(msg) /\ (Accepted(msg) \/ Refused(msg))
  BY DEF Next
<1>2. Store!BookMsg = BookMsg
  BY DEF Store!BookMsg, Store!AddOrderMsg, Store!ReduceOrderMsg, Store!DeleteOrderMsg,
         Store!ReplaceOrderMsg, BookMsg, AddOrderMsg, ReduceOrderMsg, DeleteOrderMsg,
         ReplaceOrderMsg
<1>3. CASE Accepted(msg) /\ Add(msg)
  BY <1>2, <1>3, AddStep DEF Store!StoreNext
<1>4. CASE Accepted(msg) /\ Reduce(msg)
  BY <1>2, <1>4, ReduceStep DEF Store!StoreNext
<1>5. CASE Accepted(msg) /\ Delete(msg)
  BY <1>2, <1>5, DeleteStep DEF Store!StoreNext
<1>6. CASE Accepted(msg) /\ Replace(msg)
  BY <1>1, <1>2, <1>6, ReplaceStep DEF Store!StoreNext
<1>7. CASE Refused(msg)
  BY <1>1, <1>2, <1>7, RefuseStep DEF Store!StoreNext
<1> QED BY <1>1, <1>3, <1>4, <1>5, <1>6, <1>7 DEF Accepted, Accept

(* So does a step that changes no variable.                                *)
LEMMA Stutter ==
  ASSUME IInv, UNCHANGED vars
  PROVE  IInv' /\ UNCHANGED Store!store_vars
BY DEF vars, IInv, MemoryInv, MemoryType, OneHome, WithinCapacity, ResultType,
       DeleteNotesSide, line, Store!store_vars, Contents, Stored, Contains, GetItem

----------------------------------------------------------------------------
(* The theorems. *)

(* The inductive invariant holds in every reachable state.                 *)
THEOREM InvariantHolds == Spec => []IInv
<1>1. Init => IInv
  BY InitIInv
<1>2. IInv /\ [Next]_vars => IInv'
  BY NextStep, Stutter
<1> QED BY <1>1, <1>2, PTL DEF Spec

(* Whatever messages arrive, the table keeps its types, and the assertion  *)
(* of l3_order_table.py:92 never fires: "assert" is not a status of        *)
(* TypeOK.                                                                 *)
THEOREM TypesHold == Spec => []TypeOK
<1>1. IInv => TypeOK
  BY DEF IInv, MemoryInv, MemoryType, ResultType, TypeOK
<1> QED BY <1>1, InvariantHolds, PTL

(* No order is ever kept both in its line and in the CAM (the memory's     *)
(* __setitem__ and __delitem__, l3_order_table.py:137-190).                *)
THEOREM OneHomeHolds == Spec => []OneHome
<1>1. IInv => OneHome
  BY DEF IInv, MemoryInv
<1> QED BY <1>1, InvariantHolds, PTL

(* No line and no CAM ever exceeds its size, for every geometry.           *)
THEOREM CapacityHolds == Spec => []WithinCapacity
<1>1. IInv => WithinCapacity
  BY DEF IInv, MemoryInv
<1> QED BY <1>1, InvariantHolds, PTL

(* The size-limited table (class L3 with ideal = False) implements the     *)
(* plain dictionary (ideal = True), for every geometry.                    *)
THEOREM Refinement == Spec => ImplementsStore
<1>1. Init => Store!StoreInit
  BY InitIInv
<1>2. IInv /\ [Next]_vars => [Store!StoreNext]_(Store!store_vars)
  BY NextStep, Stutter
<1> QED BY <1>1, <1>2, InvariantHolds, PTL DEF Spec, ImplementsStore, Store!StoreSpec
=============================================================================
