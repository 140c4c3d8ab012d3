------------------------------ MODULE L3Proofs ------------------------------
(***************************************************************************)
(* What the order table's memory guarantees, and what process_msg does to  *)
(* its contents, for every number of lines, ways and CAM entries and every *)
(* set of order ids, share counts and prices.  The proofs about the table  *)
(* alone and about the book build on this.                                 *)
(***************************************************************************)
EXTENDS L3, FiniteSetTheorems, TLAPS

----------------------------------------------------------------------------
(* Dictionaries. *)

(* Storing under a key keeps a dictionary a dictionary, and finite.        *)
LEMMA PutFacts ==
  ASSUME NEW K, NEW V, NEW d, IsDict(d, K, V), NEW k \in K, NEW v \in V
  PROVE  /\ IsDict(Put(d, k, v), K, V)
         /\ DOMAIN Put(d, k, v) = DOMAIN d \cup {k}
         /\ Put(d, k, v)[k] = v
         /\ \A x \in DOMAIN d : x # k => Put(d, k, v)[x] = d[x]
BY DEF IsDict, Put

(* Deleting a key does too, and leaves every other key alone.              *)
LEMMA DropFacts ==
  ASSUME NEW K, NEW V, NEW d, IsDict(d, K, V), NEW k \in K
  PROVE  /\ IsDict(Drop(d, k), K, V)
         /\ DOMAIN Drop(d, k) = DOMAIN d \ {k}
         /\ \A x \in DOMAIN d : x # k => Drop(d, k)[x] = d[x]
BY DEF IsDict, Drop

----------------------------------------------------------------------------
(* The memory: its part of the type invariant, and what it guarantees. *)

MemoryType ==
  /\ ram = [a \in Addrs |-> ram[a]]
  /\ \A a \in Addrs : IsDict(ram[a], OrderIds, L3Entry)
  /\ IsDict(cam, OrderIds, L3Entry)

MemoryInv == MemoryType /\ OneHome /\ WithinCapacity

(* An order id hashes to a line of the table.                              *)
LEMMA HashInAddrs == \A id \in OrderIds : oid_hash(id) \in Addrs
BY OrderIdsAssumption, L3SizesAssumption DEF oid_hash, Addrs

(* The contents of the memory are a dictionary of orders.                  *)
LEMMA ContentsFacts ==
  ASSUME MemoryInv
  PROVE  /\ \A id \in OrderIds : Contains(id) => GetItem(id) \in L3Entry
         /\ IsDict(Contents, OrderIds, L3Entry)
         /\ \A id \in OrderIds : id \in DOMAIN Contents <=> Contains(id)
         /\ \A id \in DOMAIN Contents : Contents[id] = GetItem(id)
<1>1. \A id \in OrderIds : Contains(id) => GetItem(id) \in L3Entry
  BY HashInAddrs DEF MemoryInv, MemoryType, IsDict, Contains, GetItem, line
<1>2. IsDict(Contents, OrderIds, L3Entry)
  BY <1>1 DEF IsDict, Contents, Stored
<1>3. \A id \in OrderIds : id \in DOMAIN Contents <=> Contains(id)
  BY DEF Contents, Stored
<1>4. \A id \in DOMAIN Contents : Contents[id] = GetItem(id)
  BY DEF Contents
<1> QED BY <1>1, <1>2, <1>3, <1>4

(* Storing an order keeps the memory's invariant, and adds the order to    *)
(* its contents or overwrites it there, whichever memory it lands in.      *)
LEMMA SetItemFacts ==
  ASSUME MemoryInv, NEW id \in OrderIds, NEW entry \in L3Entry, SetItem(id, entry)
  PROVE  /\ MemoryInv'
         /\ Contents' = Put(Contents, id, entry)
<1> DEFINE h == oid_hash(id)
<1>h. h \in Addrs
  BY HashInAddrs
<1>ram. ram = [a \in Addrs |-> ram[a]] /\ \A a \in Addrs : IsDict(ram[a], OrderIds, L3Entry)
  BY DEF MemoryInv, MemoryType
<1>cam. IsDict(cam, OrderIds, L3Entry)
  BY DEF MemoryInv, MemoryType
<1>hash. \A i \in OrderIds : oid_hash(i) \in Addrs
  BY HashInAddrs
<1>1. CASE id \in DOMAIN line(id) \/ (id \notin DOMAIN cam /\ LineHasRoom(id))
  <2>1. /\ ram' = [ram EXCEPT ![h] = Put(ram[h], id, entry)]
        /\ cam' = cam
    BY <1>1 DEF SetItem, PutInLine
  <2>2. /\ IsDict(Put(ram[h], id, entry), OrderIds, L3Entry)
        /\ DOMAIN Put(ram[h], id, entry) = DOMAIN ram[h] \cup {id}
        /\ Put(ram[h], id, entry)[id] = entry
        /\ \A x \in DOMAIN ram[h] : x # id => Put(ram[h], id, entry)[x] = ram[h][x]
    BY <1>h, <1>ram, PutFacts
  <2>3. /\ ram'[h] = Put(ram[h], id, entry)
        /\ \A a \in Addrs : a # h => ram'[a] = ram[a]
    BY <2>1, <1>h, <1>ram
  <2>4. MemoryType'
    BY <2>1, <2>2, <2>3, <1>h, <1>ram, <1>cam DEF MemoryType
  <2>5. id \notin DOMAIN cam
    BY <1>1 DEF MemoryInv, OneHome
  <2>6. OneHome'
    BY <2>1, <2>2, <2>3, <2>5, <1>h DEF MemoryInv, OneHome, line, oid_hash
  <2>7. IsFiniteSet(DOMAIN ram'[h]) /\ Cardinality(DOMAIN ram'[h]) <= L3_LINE_SIZE
    <3>1. /\ IsFiniteSet(DOMAIN ram[h])
          /\ Cardinality(DOMAIN ram[h]) \in Nat
          /\ Cardinality(DOMAIN ram[h]) <= L3_LINE_SIZE
      BY <1>h, FS_CardinalityType DEF MemoryInv, WithinCapacity
    <3>2. /\ IsFiniteSet(DOMAIN ram[h] \cup {id})
          /\ Cardinality(DOMAIN ram[h] \cup {id})
               = IF id \in DOMAIN ram[h] THEN Cardinality(DOMAIN ram[h])
                                         ELSE Cardinality(DOMAIN ram[h]) + 1
      BY <3>1, FS_AddElement
    <3>3. id \notin DOMAIN ram[h] => Cardinality(DOMAIN ram[h]) < L3_LINE_SIZE
      BY <1>1 DEF line, LineHasRoom
    <3> QED BY <3>1, <3>2, <3>3, <2>2, <2>3, L3SizesAssumption
  <2>8. WithinCapacity'
    BY <2>1, <2>3, <2>7 DEF MemoryInv, WithinCapacity
  <2>9. Contents' = Put(Contents, id, entry)
    BY <2>1, <2>2, <2>3, <2>5, <1>h, <1>hash
    DEF Contents, Stored, Contains, GetItem, Put, line
  <2> QED BY <2>4, <2>6, <2>8, <2>9 DEF MemoryInv
<1>2. CASE ~(id \in DOMAIN line(id) \/ (id \notin DOMAIN cam /\ LineHasRoom(id)))
  <2>1. cam' = Put(cam, id, entry) /\ ram' = ram
    BY <1>2 DEF SetItem, PutInCam
  <2>2. /\ IsDict(Put(cam, id, entry), OrderIds, L3Entry)
        /\ DOMAIN Put(cam, id, entry) = DOMAIN cam \cup {id}
        /\ Put(cam, id, entry)[id] = entry
        /\ \A x \in DOMAIN cam : x # id => Put(cam, id, entry)[x] = cam[x]
    BY <1>cam, PutFacts
  <2>3. MemoryType'
    BY <2>1, <2>2, <1>ram DEF MemoryType
  <2>4. id \notin DOMAIN ram[h]
    BY <1>2 DEF line
  <2>5. OneHome'
    BY <2>1, <2>2, <2>4 DEF MemoryInv, OneHome, line
  <2>6. WithinCapacity'
    <3>1. /\ IsFiniteSet(DOMAIN cam)
          /\ Cardinality(DOMAIN cam) \in Nat
          /\ Cardinality(DOMAIN cam) <= L3_CAM_SIZE
      BY FS_CardinalityType DEF MemoryInv, WithinCapacity
    <3>2. /\ IsFiniteSet(DOMAIN cam \cup {id})
          /\ Cardinality(DOMAIN cam \cup {id})
               = IF id \in DOMAIN cam THEN Cardinality(DOMAIN cam)
                                      ELSE Cardinality(DOMAIN cam) + 1
      BY <3>1, FS_AddElement
    <3>3. id \notin DOMAIN cam => Cardinality(DOMAIN cam) < L3_CAM_SIZE
      BY <1>2 DEF SetItem, StoreOutcome, Contains, CamHasRoom
    <3>4. IsFiniteSet(DOMAIN cam') /\ Cardinality(DOMAIN cam') <= L3_CAM_SIZE
      BY <3>1, <3>2, <3>3, <2>1, <2>2, L3SizesAssumption
    <3> QED BY <3>4, <2>1 DEF MemoryInv, WithinCapacity
  <2>7. Contents' = Put(Contents, id, entry)
    BY <2>1, <2>2, <2>4, <1>hash
    DEF Contents, Stored, Contains, GetItem, Put, line, MemoryInv, OneHome
  <2> QED BY <2>3, <2>5, <2>6, <2>7 DEF MemoryInv
<1> QED BY <1>1, <1>2

(* Deleting a stored order keeps the memory's invariant and takes the      *)
(* order, and nothing else, out of its contents.                           *)
LEMMA DelItemFacts ==
  ASSUME MemoryInv, NEW id \in OrderIds, Contains(id), DelItem(id)
  PROVE  /\ MemoryInv'
         /\ Contents' = Drop(Contents, id)
<1> DEFINE h == oid_hash(id)
<1>h. h \in Addrs
  BY HashInAddrs
<1>ram. ram = [a \in Addrs |-> ram[a]] /\ \A a \in Addrs : IsDict(ram[a], OrderIds, L3Entry)
  BY DEF MemoryInv, MemoryType
<1>cam. IsDict(cam, OrderIds, L3Entry)
  BY DEF MemoryInv, MemoryType
<1>hash. \A i \in OrderIds : oid_hash(i) \in Addrs
  BY HashInAddrs
<1>1. CASE id \in DOMAIN line(id)
  <2>1. /\ ram' = [ram EXCEPT ![h] = Drop(ram[h], id)]
        /\ cam' = cam
    BY <1>1 DEF DelItem
  <2>2. /\ IsDict(Drop(ram[h], id), OrderIds, L3Entry)
        /\ DOMAIN Drop(ram[h], id) = DOMAIN ram[h] \ {id}
        /\ \A x \in DOMAIN ram[h] : x # id => Drop(ram[h], id)[x] = ram[h][x]
    BY <1>h, <1>ram, DropFacts
  <2>3. /\ ram'[h] = Drop(ram[h], id)
        /\ \A a \in Addrs : a # h => ram'[a] = ram[a]
    BY <2>1, <1>h, <1>ram
  <2>4. MemoryType'
    BY <2>1, <2>2, <2>3, <1>h, <1>ram, <1>cam DEF MemoryType
  <2>5. id \notin DOMAIN cam
    BY <1>1 DEF MemoryInv, OneHome
  <2>6. OneHome'
    BY <2>1, <2>2, <2>3, <1>h DEF MemoryInv, OneHome, line, oid_hash
  <2>7. IsFiniteSet(DOMAIN ram'[h]) /\ Cardinality(DOMAIN ram'[h]) <= L3_LINE_SIZE
    <3>1. /\ IsFiniteSet(DOMAIN ram[h])
          /\ Cardinality(DOMAIN ram[h]) <= L3_LINE_SIZE
      BY <1>h DEF MemoryInv, WithinCapacity
    <3>2. /\ IsFiniteSet(DOMAIN ram[h] \ {id})
          /\ Cardinality(DOMAIN ram[h] \ {id}) <= Cardinality(DOMAIN ram[h])
      BY <3>1, FS_Subset, DOMAIN ram[h] \ {id} \subseteq DOMAIN ram[h]
    <3> QED
      BY <3>1, <3>2, <2>2, <2>3, FS_CardinalityType, L3SizesAssumption
  <2>8. WithinCapacity'
    BY <2>1, <2>3, <2>7 DEF MemoryInv, WithinCapacity
  <2>9. Contents' = Drop(Contents, id)
    BY <2>1, <2>2, <2>3, <2>5, <1>h, <1>hash
    DEF Contents, Stored, Contains, GetItem, Drop, line
  <2> QED BY <2>4, <2>6, <2>8, <2>9 DEF MemoryInv
<1>2. CASE id \notin DOMAIN line(id)
  <2>1. cam' = Drop(cam, id) /\ ram' = ram
    BY <1>2 DEF DelItem
  <2>2. /\ IsDict(Drop(cam, id), OrderIds, L3Entry)
        /\ DOMAIN Drop(cam, id) = DOMAIN cam \ {id}
        /\ \A x \in DOMAIN cam : x # id => Drop(cam, id)[x] = cam[x]
    BY <1>cam DEF IsDict, Drop
  <2>3. MemoryType'
    BY <2>1, <2>2, <1>ram DEF MemoryType
  <2>4. OneHome'
    BY <2>1, <2>2 DEF MemoryInv, OneHome, line
  <2>5. WithinCapacity'
    <3>1. IsFiniteSet(DOMAIN cam) /\ Cardinality(DOMAIN cam) <= L3_CAM_SIZE
      BY DEF MemoryInv, WithinCapacity
    <3>2. /\ IsFiniteSet(DOMAIN cam \ {id})
          /\ Cardinality(DOMAIN cam \ {id}) <= Cardinality(DOMAIN cam)
      BY <3>1, FS_Subset, DOMAIN cam \ {id} \subseteq DOMAIN cam
    <3>3. IsFiniteSet(DOMAIN cam') /\ Cardinality(DOMAIN cam') <= L3_CAM_SIZE
      BY <3>1, <3>2, <2>1, <2>2, FS_CardinalityType, L3SizesAssumption
    <3> QED BY <3>3, <2>1 DEF MemoryInv, WithinCapacity
  <2>6. Contents' = Drop(Contents, id)
    BY <2>1, <2>2, <1>2, <1>hash
    DEF Contents, Stored, Contains, GetItem, Drop, line
  <2> QED BY <2>3, <2>4, <2>5, <2>6 DEF MemoryInv
<1> QED BY <1>1, <1>2

----------------------------------------------------------------------------
(* Messages. *)

(* What the fields of a message range over, by its type.                   *)
LEMMA MsgFacts ==
  ASSUME NEW msg \in BookMsg
  PROVE  /\ msg.msg_type \in {"ADD", "REDUCE", "DELETE", "REPLACE"}
         /\ msg.order_id \in OrderIds
         /\ msg.msg_type = "ADD" => msg.is_buy \in BOOLEAN
         /\ msg.msg_type # "DELETE" => msg.shares \in Nat \ {0}
         /\ BringsShares(msg) => msg.price \in Prices
BY ShareCountsAssumption
DEF BookMsg, AddOrderMsg, ReduceOrderMsg, DeleteOrderMsg, ReplaceOrderMsg, BringsShares

(* The order a message that brings shares stores is an order.              *)
LEMMA NewEntryType ==
  ASSUME NEW msg \in BookMsg, BringsShares(msg)
  PROVE  NewEntry(msg) \in L3Entry
BY MsgFacts DEF NewEntry, L3Entry, BringsShares

(* The message handed on downstream has every field filled in.             *)
LEMMA LookupType ==
  ASSUME MemoryInv, NEW msg \in BookMsg, BringsShares(msg) \/ Contains(msg.order_id)
  PROVE  LookupMsg(msg) \in DownstreamOrderMsg
<1>1. (IF BringsShares(msg) THEN NewEntry(msg) ELSE GetItem(msg.order_id)) \in L3Entry
  BY NewEntryType, MsgFacts, ContentsFacts
<1> QED BY <1>1, MsgFacts DEF LookupMsg, DownstreamOrderMsg, L3Entry

----------------------------------------------------------------------------
(* process_msg, by what it does to the contents. *)

(* Nothing is stored at first.                                             *)
LEMMA EmptyMemory ==
  ASSUME InitMemory
  PROVE  MemoryInv /\ Contents = EmptyDict
<1>1. ram = [a \in Addrs |-> EmptyDict] /\ cam = EmptyDict
  BY DEF InitMemory
<1>2. DOMAIN EmptyDict = {} /\ IsDict(EmptyDict, OrderIds, L3Entry)
  BY DEF EmptyDict, IsDict
<1>3. MemoryType
  BY <1>1, <1>2 DEF MemoryType
<1>4. OneHome
  BY <1>1, <1>2 DEF OneHome
<1>5. WithinCapacity
  BY <1>1, <1>2, FS_EmptySet, L3SizesAssumption DEF WithinCapacity
<1>6. Contents = EmptyDict
  BY <1>1, <1>2, HashInAddrs DEF Contents, Stored, Contains, line, EmptyDict
<1> QED BY <1>3, <1>4, <1>5, <1>6 DEF MemoryInv

(* A message that brings shares is accepted only under an id that is free, *)
(* and adds an order.                                                      *)
LEMMA EnterFacts ==
  ASSUME MemoryInv, NEW msg \in BookMsg, BringsShares(msg), Accept(msg)
  PROVE  /\ MemoryInv'
         /\ NewEntry(msg) \in L3Entry
         /\ msg.order_id \notin DOMAIN Contents
         /\ Contents' = Put(Contents, msg.order_id, NewEntry(msg))
         /\ last_del_is_buy' = last_del_is_buy
         /\ LookupMsg(msg) = [msg_type |-> msg.msg_type, is_buy |-> NewEntry(msg).is_buy,
                              shares |-> msg.shares, price |-> msg.price]
<1>1. msg.order_id \in OrderIds /\ NewEntry(msg) \in L3Entry
  BY MsgFacts, NewEntryType
<1>2. SetItem(msg.order_id, NewEntry(msg)) /\ last_del_is_buy' = last_del_is_buy
  BY DEF Accept, Add, Replace, Reduce, Delete, BringsShares
<1>3. MemoryInv' /\ Contents' = Put(Contents, msg.order_id, NewEntry(msg))
  BY <1>1, <1>2, SetItemFacts
<1>4. ~Contains(msg.order_id)
  BY DEF Accept, Status
<1>5. msg.order_id \notin DOMAIN Contents
  BY <1>1, <1>4, ContentsFacts
<1>6. NewEntry(msg).shares = msg.shares /\ NewEntry(msg).price = msg.price
  BY DEF NewEntry
<1> QED BY <1>1, <1>2, <1>3, <1>5, <1>6 DEF LookupMsg, BringsShares

(* A message that takes shares away is accepted only for an order that is  *)
(* stored, and is handed on with that order's side and price.              *)
LEMMA FoundFacts ==
  ASSUME MemoryInv, NEW msg \in BookMsg, ~BringsShares(msg), Status(msg) = "ok"
  PROVE  /\ Contains(msg.order_id) /\ msg.order_id \in OrderIds
         /\ msg.order_id \in DOMAIN Contents
         /\ Contents[msg.order_id] = GetItem(msg.order_id)
         /\ Contents[msg.order_id] \in L3Entry
         /\ LookupMsg(msg).msg_type = msg.msg_type
         /\ LookupMsg(msg).is_buy = Contents[msg.order_id].is_buy
         /\ LookupMsg(msg).price = Contents[msg.order_id].price
         /\ LookupMsg(msg).shares = IF msg.msg_type = "REDUCE" THEN msg.shares
                                    ELSE Contents[msg.order_id].shares
<1>1. Contains(msg.order_id)
  BY DEF Status
<1>2. msg.order_id \in OrderIds
  BY MsgFacts
<1>3. /\ msg.order_id \in DOMAIN Contents
      /\ Contents[msg.order_id] = GetItem(msg.order_id)
      /\ GetItem(msg.order_id) \in L3Entry
  BY <1>1, <1>2, ContentsFacts
<1> QED BY <1>1, <1>2, <1>3 DEF LookupMsg

(* An accepted deletion takes the order out and notes its side.            *)
LEMMA LeaveFacts ==
  ASSUME MemoryInv, NEW msg \in BookMsg, msg.msg_type = "DELETE", Accept(msg)
  PROVE  /\ MemoryInv'
         /\ msg.order_id \in DOMAIN Contents
         /\ Contents' = Drop(Contents, msg.order_id)
         /\ last_del_is_buy' = SideOf(Contents[msg.order_id].is_buy)
<1>1. DelItem(msg.order_id) /\ last_del_is_buy' = SideOf(GetItem(msg.order_id).is_buy)
  BY DEF Accept, Add, Reduce, Delete, Replace
<1>2. Status(msg) = "ok" /\ ~BringsShares(msg)
  BY DEF Accept, BringsShares
<1> QED BY <1>1, <1>2, FoundFacts, DelItemFacts

(* What an accepted reduction leaves of an order.                          *)
Reduced(entry, shares) == [entry EXCEPT !.shares = @ - shares]

(* An accepted reduction takes no more than there is, and an order left    *)
(* without shares goes.                                                    *)
LEMMA ShrinkFacts ==
  ASSUME MemoryInv, NEW msg \in BookMsg, msg.msg_type = "REDUCE", Accept(msg)
  PROVE  /\ MemoryInv'
         /\ msg.order_id \in DOMAIN Contents
         /\ msg.shares <= Contents[msg.order_id].shares
         /\ Contents' = IF Contents[msg.order_id].shares = msg.shares
                        THEN Drop(Contents, msg.order_id)
                        ELSE Put(Contents, msg.order_id,
                                 Reduced(Contents[msg.order_id], msg.shares))
         /\ last_del_is_buy' = last_del_is_buy
<1> DEFINE id == msg.order_id
           order == GetItem(id)
<1>1. Status(msg) = "ok" /\ ~BringsShares(msg)
  BY DEF Accept, BringsShares
<1>2. /\ Contains(id) /\ id \in OrderIds /\ id \in DOMAIN Contents
      /\ Contents[id] = order /\ order \in L3Entry
  BY <1>1, FoundFacts
<1>3. ~(order.shares < msg.shares)
  BY <1>1, <1>2 DEF Status
<1>4. order.shares \in Nat /\ msg.shares \in Nat \ {0}
  BY <1>2, MsgFacts DEF L3Entry
<1>5. /\ IF order.shares > msg.shares THEN SetItem(id, Reduced(order, msg.shares))
                                      ELSE DelItem(id)
      /\ last_del_is_buy' = last_del_is_buy
  BY DEF Accept, Add, Reduce, Delete, Replace, Reduced
<1>6. CASE order.shares > msg.shares
  <2>1. Reduced(order, msg.shares) \in L3Entry
    BY <1>2, <1>4, <1>6 DEF L3Entry, Reduced
  <2>2. MemoryInv' /\ Contents' = Put(Contents, id, Reduced(order, msg.shares))
    BY <1>2, <1>5, <1>6, <2>1, SetItemFacts
  <2>3. order.shares # msg.shares /\ msg.shares <= order.shares
    BY <1>4, <1>6
  <2> QED BY <1>2, <1>5, <2>2, <2>3
<1>7. CASE ~(order.shares > msg.shares)
  <2>1. order.shares = msg.shares /\ msg.shares <= order.shares
    BY <1>3, <1>4, <1>7
  <2>2. MemoryInv' /\ Contents' = Drop(Contents, id)
    BY <1>2, <1>5, <1>7, DelItemFacts
  <2> QED BY <1>2, <1>5, <2>1, <2>2
<1> QED BY <1>6, <1>7

(* A refused message leaves the table as it was.                           *)
LEMMA RefuseFacts ==
  ASSUME MemoryInv, NEW msg \in BookMsg, Refuse(msg)
  PROVE  /\ MemoryInv' /\ Contents' = Contents
         /\ last_del_is_buy' = last_del_is_buy
<1>1. UNCHANGED <<ram, cam, last_del_is_buy>>
  BY DEF Refuse, l3_vars
<1> QED BY <1>1 DEF MemoryInv, MemoryType, OneHome, WithinCapacity, line,
                    Contents, Stored, Contains, GetItem

(* What each status says of the contents.                                  *)
LEMMA StatusFacts ==
  ASSUME MemoryInv, NEW msg \in BookMsg
  PROVE  /\ Status(msg) \in {"ok", "duplicate", "assert", "raises", "full", "missing", "negative"}
         /\ Status(msg) = "duplicate" <=> BringsShares(msg) /\ msg.order_id \in DOMAIN Contents
         /\ Status(msg) = "missing" <=> ~BringsShares(msg) /\ msg.order_id \notin DOMAIN Contents
         /\ Status(msg) = "negative" <=> /\ msg.msg_type = "REDUCE"
                                         /\ msg.order_id \in DOMAIN Contents
                                         /\ Contents[msg.order_id].shares < msg.shares
         /\ Status(msg) = "assert" => /\ msg.msg_type = "REPLACE" /\ last_del_is_buy = "none"
         /\ Status(msg) \in {"raises", "full"} => BringsShares(msg)
<1> DEFINE id == msg.order_id
<1>1. /\ id \in DOMAIN Contents <=> Contains(id)
      /\ id \in DOMAIN Contents => Contents[id] = GetItem(id)
  BY MsgFacts, ContentsFacts
<1>2. StoreOutcome(id) \in {"stored", "raises", "full"}
  BY DEF StoreOutcome
<1>3. BringsShares(msg) <=> msg.msg_type \in {"ADD", "REPLACE"}
  BY DEF BringsShares
<1> HIDE DEF id
<1>4. CASE Contains(id)
  BY <1>1, <1>3, <1>4 DEF Status, id
<1>5. CASE ~Contains(id)
  BY <1>1, <1>2, <1>3, <1>5 DEF Status, id
<1> QED BY <1>4, <1>5
=============================================================================
