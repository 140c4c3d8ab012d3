----------------------------- MODULE BookProofs -----------------------------
(***************************************************************************)
(* Proofs about the reference model's book behind an exchange, for every   *)
(* number of registers, every window and every geometry of the order       *)
(* table.  L3 follows the exchange, and in the window L2 is what the       *)
(* orders of L3 add up to, whatever BBO answers.  Until BBO has answered   *)
(* that it lost track, its registers are the best levels of L3's orders,   *)
(* no assertion of l3, l2 or bbo fails, and the book implements the order  *)
(* book of OrderBook.tla.                                                  *)
(***************************************************************************)
EXTENDS Feed, FiniteSetTheorems, SequenceTheorems, WellFoundedInduction, TLAPS

Table == INSTANCE L3Proofs

----------------------------------------------------------------------------
(* The order table: its lemmas, in the terms of the book. *)

TableInv == Table!MemoryInv

(* The book and the lemmas speak of the same table.                        *)
LEMMA SameTypes ==
  /\ Table!BookMsg = BookMsg /\ Table!L3Entry = L3Entry /\ L3!L3Entry = L3Entry
  /\ Table!EmptyDict = EmptyDict /\ L3!Sides = Table!Sides
  /\ \A d, K, V : Table!IsDict(d, K, V) = IsDict(d, K, V)
  /\ \A d, k, v : Table!Put(d, k, v) = Put(d, k, v)
  /\ \A d, k : Table!Drop(d, k) = Drop(d, k)
<1>1. Table!BookMsg = BookMsg /\ Table!L3Entry = L3Entry /\ L3!L3Entry = L3Entry
  BY DEF Table!BookMsg, Table!AddOrderMsg, Table!ReduceOrderMsg, Table!DeleteOrderMsg,
         Table!ReplaceOrderMsg, BookMsg, AddOrderMsg, ReduceOrderMsg, DeleteOrderMsg,
         ReplaceOrderMsg, Table!L3Entry, L3Entry, L3!L3Entry
<1>2. Table!EmptyDict = EmptyDict /\ L3!Sides = Table!Sides
  BY DEF Table!EmptyDict, EmptyDict, L3!Sides, Table!Sides
<1>3. /\ \A d, K, V : Table!IsDict(d, K, V) = IsDict(d, K, V)
      /\ \A d, k, v : Table!Put(d, k, v) = Put(d, k, v)
      /\ \A d, k : Table!Drop(d, k) = Drop(d, k)
  BY DEF Table!IsDict, IsDict, Table!Put, Put, Table!Drop, Drop
<1> QED BY <1>1, <1>2, <1>3

LEMMA SameState ==
  /\ Table!Contents = L3!Contents /\ Table!Contents' = L3!Contents'
  /\ \A id : Table!Contains(id) = L3!Contains(id)
  /\ Table!InitMemory = L3!InitMemory
BY DEF Table!Contents, L3!Contents, Table!Stored, L3!Stored, Table!Contains, L3!Contains,
       Table!GetItem, L3!GetItem, Table!line, L3!line, Table!oid_hash, L3!oid_hash,
       Table!InitMemory, L3!InitMemory, Table!Addrs, L3!Addrs, Table!EmptyDict, L3!EmptyDict

LEMMA SameMemory ==
  ASSUME NEW id
  PROVE  /\ Table!Contains(id) = L3!Contains(id)
         /\ Table!GetItem(id) = L3!GetItem(id)
         /\ Table!StoreOutcome(id) = L3!StoreOutcome(id)
         /\ \A entry : Table!SetItem(id, entry) = L3!SetItem(id, entry)
         /\ Table!DelItem(id) = L3!DelItem(id)
<1>1. Table!Contains(id) = L3!Contains(id) /\ Table!GetItem(id) = L3!GetItem(id)
  BY DEF Table!Contains, L3!Contains, Table!GetItem, L3!GetItem, Table!line, L3!line,
         Table!oid_hash, L3!oid_hash
<1>2. Table!LineHasRoom(id) = L3!LineHasRoom(id) /\ Table!CamHasRoom = L3!CamHasRoom
  BY DEF Table!LineHasRoom, L3!LineHasRoom, Table!CamHasRoom, L3!CamHasRoom, Table!line,
         L3!line, Table!oid_hash, L3!oid_hash, Table!Cardinality, L3!Cardinality
<1>3. Table!StoreOutcome(id) = L3!StoreOutcome(id)
  BY <1>1, <1>2 DEF Table!StoreOutcome, L3!StoreOutcome
<1>4. ASSUME NEW entry PROVE Table!SetItem(id, entry) = L3!SetItem(id, entry)
  <2>1. /\ Table!PutInLine(id, entry) = L3!PutInLine(id, entry)
        /\ Table!PutInCam(id, entry) = L3!PutInCam(id, entry)
        /\ Table!line(id) = L3!line(id)
    BY DEF Table!PutInLine, L3!PutInLine, Table!PutInCam, L3!PutInCam, Table!Put, L3!Put,
           Table!oid_hash, L3!oid_hash, Table!line, L3!line
  <2> QED BY <1>2, <1>3, <2>1 DEF Table!SetItem, L3!SetItem
<1>5. Table!DelItem(id) = L3!DelItem(id)
  BY DEF Table!DelItem, L3!DelItem, Table!Drop, L3!Drop, Table!oid_hash, L3!oid_hash,
         Table!line, L3!line
<1> QED BY <1>1, <1>3, <1>4, <1>5

LEMMA SameChecks ==
  ASSUME NEW msg
  PROVE  /\ Table!Status(msg) = L3!Status(msg)
         /\ Table!BringsShares(msg) = BringsShares(msg)
         /\ Table!NewEntry(msg) = L3!NewEntry(msg)
         /\ Table!LookupMsg(msg) = L3!LookupMsg(msg)
         /\ Table!Refuse(msg) = L3!Refuse(msg)
         /\ Table!Accept(msg) = L3!Accept(msg)
<1>1. Table!BringsShares(msg) = BringsShares(msg) /\ L3!BringsShares(msg) = BringsShares(msg)
  BY DEF Table!BringsShares, BringsShares, L3!BringsShares
<1>2. /\ Table!Contains(msg.order_id) = L3!Contains(msg.order_id)
      /\ Table!GetItem(msg.order_id) = L3!GetItem(msg.order_id)
      /\ Table!StoreOutcome(msg.order_id) = L3!StoreOutcome(msg.order_id)
  BY SameMemory
<1>3. Table!NewEntry(msg) = L3!NewEntry(msg)
  BY DEF Table!NewEntry, L3!NewEntry
<1>4. Table!Status(msg) = L3!Status(msg)
  BY <1>1, <1>2 DEF Table!Status, L3!Status
<1>5. Table!LookupMsg(msg) = L3!LookupMsg(msg)
  BY <1>1, <1>2, <1>3 DEF Table!LookupMsg, L3!LookupMsg
<1>6. Table!Refuse(msg) = L3!Refuse(msg)
  BY <1>4 DEF Table!Refuse, L3!Refuse, Table!l3_vars, L3!l3_vars
<1>7. Table!Add(msg) = L3!Add(msg) /\ Table!Replace(msg) = L3!Replace(msg)
  BY <1>3, SameMemory DEF Table!Add, L3!Add, Table!Replace, L3!Replace
<1>8. Table!Delete(msg) = L3!Delete(msg)
  BY <1>2, SameMemory DEF Table!Delete, L3!Delete, Table!SideOf, L3!SideOf
<1>9. Table!Reduce(msg) = L3!Reduce(msg)
  BY <1>2, SameMemory DEF Table!Reduce, L3!Reduce
<1>10. Table!Accept(msg) = L3!Accept(msg)
  BY <1>4, <1>7, <1>8, <1>9 DEF Table!Accept, L3!Accept
<1> QED BY <1>1, <1>3, <1>4, <1>5, <1>6, <1>10

(* The constants are what the table assumes of its own.                    *)
LEMMA TableAssumptions ==
  /\ Table!OrderIdsAssumption /\ Table!ShareCountsAssumption
  /\ Table!PricesAssumption /\ Table!L3SizesAssumption
BY OrderIdsAssumption, ShareCountsAssumption, PricesAssumption, L3SizesAssumption
DEF Table!OrderIdsAssumption, Table!ShareCountsAssumption, Table!PricesAssumption,
    Table!L3SizesAssumption

LEMMA TableEmpty ==
  ASSUME L3!InitMemory
  PROVE  TableInv /\ L3!Contents = EmptyDict
BY SameTypes, SameState, TableAssumptions, Table!EmptyMemory DEF TableInv

LEMMA TableContents ==
  ASSUME TableInv
  PROVE  IsDict(L3!Contents, OrderIds, L3Entry)
BY SameTypes, SameState, TableAssumptions, Table!ContentsFacts DEF TableInv

LEMMA TableEnter ==
  ASSUME TableInv, NEW msg \in BookMsg, BringsShares(msg), L3!Accept(msg)
  PROVE  /\ TableInv'
         /\ L3!NewEntry(msg) \in L3Entry
         /\ msg.order_id \notin DOMAIN L3!Contents
         /\ L3!Contents' = Put(L3!Contents, msg.order_id, L3!NewEntry(msg))
         /\ last_del_is_buy' = last_del_is_buy
         /\ L3!LookupMsg(msg) = [msg_type |-> msg.msg_type,
                                 is_buy   |-> L3!NewEntry(msg).is_buy,
                                 shares   |-> msg.shares,
                                 price    |-> msg.price]
BY SameTypes, SameState, SameChecks, TableAssumptions, Table!EnterFacts DEF TableInv

LEMMA TableFound ==
  ASSUME TableInv, NEW msg \in BookMsg, ~BringsShares(msg), L3!Status(msg) = "ok"
  PROVE  /\ msg.order_id \in OrderIds /\ msg.order_id \in DOMAIN L3!Contents
         /\ L3!Contents[msg.order_id] \in L3Entry
         /\ L3!LookupMsg(msg).msg_type = msg.msg_type
         /\ L3!LookupMsg(msg).is_buy = L3!Contents[msg.order_id].is_buy
         /\ L3!LookupMsg(msg).price = L3!Contents[msg.order_id].price
         /\ L3!LookupMsg(msg).shares = IF msg.msg_type = "REDUCE" THEN msg.shares
                                       ELSE L3!Contents[msg.order_id].shares
BY SameTypes, SameState, SameChecks, TableAssumptions, Table!FoundFacts DEF TableInv

LEMMA TableLeave ==
  ASSUME TableInv, NEW msg \in BookMsg, msg.msg_type = "DELETE", L3!Accept(msg)
  PROVE  /\ TableInv'
         /\ msg.order_id \in DOMAIN L3!Contents
         /\ L3!Contents' = Drop(L3!Contents, msg.order_id)
         /\ last_del_is_buy' = IF L3!Contents[msg.order_id].is_buy THEN "buy" ELSE "sell"
BY SameTypes, SameState, SameChecks, TableAssumptions, Table!LeaveFacts
DEF TableInv, Table!SideOf

Reduced(entry, shares) == [entry EXCEPT !.shares = @ - shares]

LEMMA TableShrink ==
  ASSUME TableInv, NEW msg \in BookMsg, msg.msg_type = "REDUCE", L3!Accept(msg)
  PROVE  /\ TableInv'
         /\ msg.order_id \in DOMAIN L3!Contents
         /\ msg.shares <= L3!Contents[msg.order_id].shares
         /\ L3!Contents' = IF L3!Contents[msg.order_id].shares = msg.shares
                           THEN Drop(L3!Contents, msg.order_id)
                           ELSE Put(L3!Contents, msg.order_id,
                                    Reduced(L3!Contents[msg.order_id], msg.shares))
         /\ last_del_is_buy' = last_del_is_buy
BY SameTypes, SameState, SameChecks, TableAssumptions, Table!ShrinkFacts
DEF TableInv, Table!Reduced, Reduced

LEMMA TableRefuse ==
  ASSUME TableInv, NEW msg \in BookMsg, L3!Refuse(msg)
  PROVE  TableInv' /\ L3!Contents' = L3!Contents /\ last_del_is_buy' = last_del_is_buy
BY SameTypes, SameState, SameChecks, TableAssumptions, Table!RefuseFacts DEF TableInv

LEMMA TableStatus ==
  ASSUME TableInv, NEW msg \in BookMsg
  PROVE  /\ L3!Status(msg) \in {"ok", "duplicate", "assert", "raises", "full", "missing", "negative"}
         /\ L3!Status(msg) = "duplicate" <=> BringsShares(msg) /\ msg.order_id \in DOMAIN L3!Contents
         /\ L3!Status(msg) = "missing" <=> ~BringsShares(msg) /\ msg.order_id \notin DOMAIN L3!Contents
         /\ L3!Status(msg) = "negative" <=> /\ msg.msg_type = "REDUCE"
                                            /\ msg.order_id \in DOMAIN L3!Contents
                                            /\ L3!Contents[msg.order_id].shares < msg.shares
         /\ L3!Status(msg) = "assert" => /\ msg.msg_type = "REPLACE" /\ last_del_is_buy = "none"
         /\ L3!Status(msg) \in {"raises", "full"} => BringsShares(msg)
BY SameTypes, SameState, SameChecks, TableAssumptions, Table!StatusFacts DEF TableInv

----------------------------------------------------------------------------
(* One message through the book, as far as the order table is concerned.   *)

(* L3 accepts the message, or refuses it and the result says why.          *)
LEMMA HandleFacts ==
  ASSUME NEW msg, Handle(msg)
  PROVE  /\ ~Stopped
         /\ result'.kind \in {"ok", "error", "exception"}
         /\ \/ L3!Accept(msg) /\ result'.why # "full"
            \/ /\ L3!Refuse(msg)
               /\ \/ result'.kind = "error" /\ result'.why = L3!Status(msg)
                  \/ result'.kind = "exception" /\ result'.why = "L3"
<1>1. ~Stopped /\ ProcessMsg(msg)
  BY DEF Handle, ProcessMsg
<1>2. CASE L3Error(msg)
  BY <1>1, <1>2 DEF L3Error, Error, Result
<1>3. CASE L3Raised(msg)
  BY <1>1, <1>3 DEF L3Raised, Exception, Result
<1>4. CASE L2Error(msg)
  BY <1>1, <1>4 DEF L2Error, Error, Result
<1>5. CASE L2Raised(msg)
  BY <1>1, <1>5 DEF L2Raised, Exception, Result
<1>6. CASE ReachesBBO(msg)
  <2>1. L3!Accept(msg)
    BY <1>6 DEF ReachesBBO, Stored
  <2>2. PICK lookup, step : \/ BBOError(lookup, step) \/ Processed(lookup, step)
                            \/ Refilled(lookup, step) \/ BBORaised(lookup, step)
    BY <1>6 DEF ReachesBBO
  <2>3. \/ result' = Error("no_shares_in_range")
        \/ result' = Best(lookup, step)
        \/ \E where \in {"BBO", "spread", "updt"} : result' = Exception(where)
    BY <2>2 DEF BBOError, Processed, Refilled, BBORaised
  <2>4. result'.kind \in {"ok", "error", "exception"} /\ result'.why # "full"
    <3>1. ASSUME NEW kind, NEW why, NEW bid, NEW off
          PROVE  Result(kind, why, bid, off).kind = kind /\ Result(kind, why, bid, off).why = why
      BY DEF Result
    <3>2. CASE result' = Error("no_shares_in_range")
      BY <3>1, <3>2 DEF Error
    <3>3. CASE result' = Best(lookup, step)
      <4>1. "" # "full"
        BY Zenon
      <4> DEFINE none == ""
      <4>2. none # "full"
        BY <4>1
      <4>3. result'.kind = "ok" /\ result'.why = none
        BY <3>3, Zenon DEF Best, Result
      <4> HIDE DEF none
      <4> QED BY <4>2, <4>3
    <3>4. ASSUME NEW where \in {"BBO", "spread", "updt"}, result' = Exception(where)
          PROVE  result'.kind = "exception" /\ result'.why # "full"
      BY <3>1, <3>4 DEF Exception
    <3> QED BY <2>3, <3>2, <3>3, <3>4
  <2> QED BY <1>1, <2>1, <2>4
<1> QED BY <1>1, <1>2, <1>3, <1>4, <1>5, <1>6 DEF ProcessMsg

----------------------------------------------------------------------------
(* L3 follows the exchange. *)

Halves == [msg : ReplaceOrderMsg, order : L3Entry]

(* The second half of a 'U' message is of the order that was replaced: its *)
(* id is free, and the side L3 has noted is that order's.                  *)
PendingInv ==
  ~Between =>
    /\ pending.msg.order_id \notin DOMAIN live
    /\ pending.order = Order(last_del_is_buy = "buy", pending.msg.shares, pending.msg.price)
    /\ last_del_is_buy # "none"

FollowType ==
  /\ TableInv
  /\ last_del_is_buy \in L3!Sides
  /\ IsDict(live, OrderIds, L3Entry) /\ missed \subseteq DOMAIN live
  /\ pending \in Halves \cup {NoMsg}
  /\ result.kind \in {"ok", "error", "exception"}

FollowInv == FollowType /\ PendingInv /\ L3FollowsExchange

(* The fields of messages.                                                 *)
LEMMA MsgFacts ==
  ASSUME NEW msg \in BookMsg
  PROVE  /\ msg.msg_type \in {"ADD", "REDUCE", "DELETE", "REPLACE"}
         /\ msg.order_id \in OrderIds
         /\ msg.msg_type = "ADD" => msg \in AddOrderMsg /\ msg.is_buy \in BOOLEAN
         /\ msg.msg_type # "DELETE" => msg.shares \in Nat \ {0}
         /\ BringsShares(msg) => msg.price \in Prices
BY ShareCountsAssumption
DEF BookMsg, AddOrderMsg, ReduceOrderMsg, DeleteOrderMsg, ReplaceOrderMsg, BringsShares

LEMMA PutFacts ==
  ASSUME NEW K, NEW V, NEW d, IsDict(d, K, V), NEW k \in K, NEW v \in V
  PROVE  /\ IsDict(Put(d, k, v), K, V)
         /\ DOMAIN Put(d, k, v) = DOMAIN d \cup {k}
         /\ Put(d, k, v)[k] = v
         /\ \A x \in DOMAIN d : x # k => Put(d, k, v)[x] = d[x]
BY DEF IsDict, Put

LEMMA DropFacts ==
  ASSUME NEW K, NEW V, NEW d, IsDict(d, K, V), NEW k
  PROVE  /\ IsDict(Drop(d, k), K, V)
         /\ DOMAIN Drop(d, k) = DOMAIN d \ {k}
         /\ \A x \in DOMAIN d : x # k => Drop(d, k)[x] = d[x]
BY DEF IsDict, Drop

(* What L3 follows: the live orders that were not missed.                  *)
Known == [id \in DOMAIN live \ missed |-> live[id]]

LEMMA InitFollow == Init => FollowInv
<1> SUFFICES ASSUME Init PROVE FollowInv
  OBVIOUS
<1>1. L3!InitMemory /\ last_del_is_buy = "none"
  BY DEF Init, InitBook, L3!InitL3
<1>2. live = EmptyDict /\ missed = {} /\ pending = NoMsg
  BY DEF Init
<1>3. DOMAIN EmptyDict = {} /\ IsDict(EmptyDict, OrderIds, L3Entry)
  BY DEF EmptyDict, IsDict
<1>4. L3!Contents = EmptyDict /\ TableInv
  BY <1>1, TableEmpty
<1>5. result.kind = "ok"
  BY DEF Init, InitBook, Result
<1>6. L3FollowsExchange
  BY <1>2, <1>3, <1>4 DEF L3FollowsExchange, EmptyDict
<1> QED BY <1>1, <1>2, <1>3, <1>4, <1>5, <1>6
        DEF FollowInv, FollowType, PendingInv, Between, L3!Sides

(* A new order enters L3, or is missed; either way L3 follows.             *)
LEMMA EnterFollows ==
  ASSUME FollowInv, NEW msg \in BookMsg, BringsShares(msg), Enter(msg),
         msg.order_id \notin DOMAIN live,
         L3!NewEntry(msg) \in L3Entry,
         live' = Put(live, msg.order_id, L3!NewEntry(msg))
  PROVE  /\ TableInv' /\ last_del_is_buy' = last_del_is_buy
         /\ IsDict(live, OrderIds, L3Entry)' /\ (missed \subseteq DOMAIN live)'
         /\ (result.kind \in {"ok", "error", "exception"})'
         /\ L3FollowsExchange'
<1> DEFINE id == msg.order_id
           entry == L3!NewEntry(msg)
<1>1. /\ Handle(msg) /\ id \in OrderIds
      /\ missed' = IF result'.why = "full" THEN missed \cup {id} ELSE missed
  BY MsgFacts DEF Enter
<1>2. /\ TableInv /\ IsDict(live, OrderIds, L3Entry) /\ missed \subseteq DOMAIN live
      /\ L3!Contents = Known
  BY <1>1, HandleFacts DEF FollowInv, FollowType, L3FollowsExchange, Known
<1>3. /\ IsDict(live', OrderIds, L3Entry)
      /\ DOMAIN live' = DOMAIN live \cup {id} /\ live'[id] = entry
      /\ \A x \in DOMAIN live : live'[x] = live[x]
  BY <1>1, <1>2, PutFacts
<1>4. CASE L3!Accept(msg) /\ result'.why # "full"
  <2>1. /\ TableInv' /\ last_del_is_buy' = last_del_is_buy
        /\ L3!Contents' = Put(L3!Contents, id, entry)
    BY <1>2, <1>4, TableEnter
  <2>2. missed' = missed
    BY <1>1, <1>4
  <2>3. Put(Known, id, entry) = [x \in DOMAIN live' \ missed |-> live'[x]]
    BY <1>2, <1>3 DEF Known, Put
  <2> QED BY <1>1, <1>2, <1>3, <2>1, <2>2, <2>3, HandleFacts DEF L3FollowsExchange
<1>5. CASE /\ L3!Refuse(msg)
           /\ result'.kind = "error" /\ result'.why = L3!Status(msg)
  <2>1. /\ TableInv' /\ last_del_is_buy' = last_del_is_buy /\ L3!Contents' = L3!Contents
    BY <1>2, <1>5, TableRefuse
  <2>2. L3!Status(msg) \notin {"ok", "duplicate", "missing", "negative", "assert", "raises"}
    <3>1. id \notin DOMAIN L3!Contents /\ msg.msg_type # "REDUCE"
      BY <1>2 DEF Known, BringsShares
    <3>2. L3!Status(msg) \notin {"ok", "assert", "raises"}
      <4>1. CASE L3Error(msg)
        BY <4>1 DEF L3Error, L3!Refuse, L3!Raises
      <4>2. CASE L3Raised(msg)
        BY <1>5, <4>2 DEF L3Raised, Exception, Result
      <4>3. ~L3!Accept(msg)
        BY <1>5 DEF L3!Accept, L3!Refuse
      <4> QED BY <1>1, <4>1, <4>2, <4>3
              DEF Handle, ProcessMsg, L2Error, L2Raised, ReachesBBO, Stored
    <3> QED BY <1>2, <3>1, <3>2, TableStatus
  <2>3. missed' = missed \cup {id}
    BY <1>1, <1>2, <1>5, <2>2, TableStatus
  <2>4. Known = [x \in DOMAIN live' \ missed' |-> live'[x]]
    BY <1>2, <1>3, <2>3 DEF Known
  <2> QED BY <1>1, <1>2, <1>3, <2>1, <2>3, <2>4, HandleFacts DEF L3FollowsExchange
<1>6. CASE L3!Refuse(msg) /\ result'.kind = "exception" /\ result'.why = "L3"
  <2>1. TableInv' /\ last_del_is_buy' = last_del_is_buy
    BY <1>2, <1>6, TableRefuse
  <2>2. missed' = missed /\ Stopped'
    BY <1>1, <1>6 DEF Stopped
  <2> QED BY <1>2, <1>3, <1>6, <2>1, <2>2 DEF L3FollowsExchange
<1> QED BY <1>1, <1>4, <1>5, <1>6, HandleFacts

(* A new order. *)
LEMMA NewOrderFollows ==
  ASSUME FollowInv, NewOrder
  PROVE  FollowInv'
<1>1. PICK msg \in AddOrderMsg :
        /\ msg.order_id \notin DOMAIN live
        /\ live' = Put(live, msg.order_id, Order(msg.is_buy, msg.shares, msg.price))
        /\ Enter(msg)
  BY DEF NewOrder
<1>2. msg \in BookMsg /\ msg.msg_type = "ADD" /\ BringsShares(msg)
  BY DEF BookMsg, AddOrderMsg, BringsShares
<1>3. L3!NewEntry(msg) = Order(msg.is_buy, msg.shares, msg.price)
  BY <1>2 DEF L3!NewEntry, Order
<1>4. L3!NewEntry(msg) \in L3Entry
  BY <1>2, <1>3, MsgFacts DEF Order, L3Entry
<1>5. Between /\ pending' = pending
  BY DEF NewOrder
<1> QED BY <1>1, <1>2, <1>3, <1>4, <1>5, EnterFollows
        DEF FollowInv, FollowType, PendingInv, Between

(* The second half of a 'U' message. *)
LEMMA ReplaceHalfFollows ==
  ASSUME FollowInv, ReplaceHalf
  PROVE  FollowInv'
<1> DEFINE msg == pending.msg
<1>1. /\ pending \in Halves
      /\ live' = Put(live, msg.order_id, pending.order)
      /\ Enter(msg) /\ pending' = NoMsg
  BY DEF ReplaceHalf, FollowInv, FollowType, Between
<1>2. msg \in BookMsg /\ msg.msg_type = "REPLACE" /\ BringsShares(msg)
  BY <1>1 DEF Halves, BookMsg, ReplaceOrderMsg, BringsShares
<1>3. /\ msg.order_id \notin DOMAIN live
      /\ pending.order = Order(last_del_is_buy = "buy", msg.shares, msg.price)
  BY DEF ReplaceHalf, FollowInv, PendingInv
<1>4. L3!NewEntry(msg) = pending.order
  BY <1>2, <1>3 DEF L3!NewEntry, Order
<1>5. L3!NewEntry(msg) \in L3Entry
  BY <1>1, <1>4 DEF Halves
<1> QED BY <1>1, <1>2, <1>3, <1>4, <1>5, EnterFollows
        DEF FollowInv, FollowType, PendingInv, Between

(* What a message that takes shares away leaves of the orders L3 follows.  *)
LEMMA KnownFacts ==
  ASSUME FollowInv, ~Stopped
  PROVE  /\ TableInv /\ IsDict(live, OrderIds, L3Entry) /\ missed \subseteq DOMAIN live
         /\ L3!Contents = Known /\ DOMAIN L3!Contents = DOMAIN live \ missed
         /\ \A id \in DOMAIN L3!Contents : L3!Contents[id] = live[id]
BY DEF FollowInv, FollowType, L3FollowsExchange, Known

(* A reduction of a live order. *)
LEMMA ReduceOrderFollows ==
  ASSUME FollowInv, ReduceOrder
  PROVE  FollowInv'
<1>1. PICK msg \in ReduceOrderMsg :
        /\ msg.order_id \in DOMAIN live
        /\ live[msg.order_id].shares >= msg.shares
        /\ live' = IF live[msg.order_id].shares = msg.shares
                   THEN Drop(live, msg.order_id)
                   ELSE Put(live, msg.order_id, Reduced(live[msg.order_id], msg.shares))
        /\ Handle(msg)
  BY DEF ReduceOrder, Reduced
<1> DEFINE id == msg.order_id
           order == live[id]
           left == Reduced(order, msg.shares)
<1>2. Between /\ pending' = pending /\ missed' = missed \cap DOMAIN live'
  BY DEF ReduceOrder
<1>3. msg \in BookMsg /\ msg.msg_type = "REDUCE" /\ ~BringsShares(msg)
  BY DEF BookMsg, ReduceOrderMsg, BringsShares
<1>4. /\ TableInv /\ IsDict(live, OrderIds, L3Entry) /\ missed \subseteq DOMAIN live
      /\ L3!Contents = Known /\ DOMAIN L3!Contents = DOMAIN live \ missed
      /\ \A x \in DOMAIN L3!Contents : L3!Contents[x] = live[x]
  BY <1>1, HandleFacts, KnownFacts
<1>5. id \in OrderIds /\ order \in L3Entry /\ msg.shares \in Nat \ {0} /\ order.shares \in Nat
  BY <1>1, <1>3, <1>4, MsgFacts DEF IsDict, L3Entry
<1>6. order.shares # msg.shares => left \in L3Entry
  BY <1>1, <1>5 DEF Reduced, L3Entry
<1>7. IsDict(live', OrderIds, L3Entry)
  <2>1. CASE order.shares = msg.shares
    BY <1>1, <1>4, <2>1, DropFacts
  <2>2. CASE order.shares # msg.shares
    BY <1>1, <1>4, <1>5, <1>6, <2>2, PutFacts
  <2> QED BY <2>1, <2>2
<1>8. result'.kind \in {"ok", "error", "exception"}
  BY <1>1, HandleFacts
<1>9. CASE L3!Accept(msg)
  <2>1. /\ TableInv' /\ last_del_is_buy' = last_del_is_buy
        /\ id \in DOMAIN L3!Contents
        /\ L3!Contents' = IF L3!Contents[id].shares = msg.shares
                          THEN Drop(L3!Contents, id)
                          ELSE Put(L3!Contents, id, Reduced(L3!Contents[id], msg.shares))
    BY <1>3, <1>4, <1>9, TableShrink
  <2>2. L3!Contents[id] = order /\ id \notin missed
    BY <1>4, <2>1
  <2>3. L3!Contents' = [x \in DOMAIN live' \ missed' |-> live'[x]]
    <3>1. CASE order.shares = msg.shares
      BY <1>1, <1>2, <1>4, <2>1, <2>2, <3>1 DEF Known, Drop
    <3>2. CASE order.shares # msg.shares
      BY <1>1, <1>2, <1>4, <2>1, <2>2, <3>2 DEF Known, Put
    <3> QED BY <3>1, <3>2
  <2> QED BY <1>2, <1>7, <1>8, <2>1, <2>3
          DEF FollowInv, FollowType, PendingInv, Between, L3FollowsExchange
<1>10. CASE L3!Refuse(msg)
  <2>1. /\ TableInv' /\ last_del_is_buy' = last_del_is_buy /\ L3!Contents' = L3!Contents
        /\ L3!Status(msg) # "ok"
    BY <1>3, <1>4, <1>10, TableRefuse DEF L3!Refuse
  <2>2. L3!Status(msg) \in {"missing", "negative"}
    BY <1>3, <1>4, <2>1, TableStatus
  <2>3. ~(id \in DOMAIN L3!Contents /\ order.shares < msg.shares)
    BY <1>1, <1>5
  <2>4. id \in missed
    BY <1>1, <1>3, <1>4, <2>2, <2>3, TableStatus
  <2>5. L3!Contents' = [x \in DOMAIN live' \ missed' |-> live'[x]]
    BY <1>1, <1>2, <1>4, <2>1, <2>4 DEF Known, Put, Drop
  <2> QED BY <1>2, <1>7, <1>8, <2>1, <2>5
          DEF FollowInv, FollowType, PendingInv, Between, L3FollowsExchange
<1> QED BY <1>1, <1>9, <1>10, HandleFacts

(* A deletion of a live order. *)
LEMMA DeleteOrderFollows ==
  ASSUME FollowInv, DeleteOrder
  PROVE  FollowInv'
<1>1. PICK msg \in DeleteOrderMsg :
        /\ msg.order_id \in DOMAIN live
        /\ live' = Drop(live, msg.order_id)
        /\ Handle(msg)
  BY DEF DeleteOrder
<1> DEFINE id == msg.order_id
<1>2. Between /\ pending' = pending /\ missed' = missed \cap DOMAIN live'
  BY DEF DeleteOrder
<1>3. msg \in BookMsg /\ msg.msg_type = "DELETE" /\ ~BringsShares(msg)
  BY DEF BookMsg, DeleteOrderMsg, BringsShares
<1>4. /\ TableInv /\ IsDict(live, OrderIds, L3Entry) /\ missed \subseteq DOMAIN live
      /\ L3!Contents = Known /\ DOMAIN L3!Contents = DOMAIN live \ missed
  BY <1>1, HandleFacts, KnownFacts
<1>5. IsDict(live', OrderIds, L3Entry) /\ DOMAIN live' = DOMAIN live \ {id}
  <2>1. DOMAIN Drop(live, id) = DOMAIN live \ {id}
    BY DEF Drop
  <2>2. IsDict(Drop(live, id), OrderIds, L3Entry)
    BY <1>4, DropFacts
  <2> QED BY <1>1, <2>1, <2>2
<1>6. result'.kind \in {"ok", "error", "exception"}
  BY <1>1, HandleFacts
<1>7. CASE L3!Accept(msg)
  <2>1. /\ TableInv' /\ last_del_is_buy' \in L3!Sides
        /\ id \in DOMAIN L3!Contents
        /\ L3!Contents' = Drop(L3!Contents, id)
    BY <1>3, <1>4, <1>7, TableLeave DEF L3!Sides
  <2>2. L3!Contents' = [x \in DOMAIN live' \ missed' |-> live'[x]]
    BY <1>1, <1>2, <1>4, <2>1 DEF Known, Drop
  <2> QED BY <1>2, <1>5, <1>6, <2>1, <2>2
          DEF FollowInv, FollowType, PendingInv, Between, L3FollowsExchange
<1>8. CASE L3!Refuse(msg)
  <2>1. /\ TableInv' /\ last_del_is_buy' = last_del_is_buy /\ L3!Contents' = L3!Contents
        /\ L3!Status(msg) # "ok"
    BY <1>3, <1>4, <1>8, TableRefuse DEF L3!Refuse
  <2>2. id \in missed
    BY <1>1, <1>3, <1>4, <2>1, TableStatus
  <2>3. L3!Contents' = [x \in DOMAIN live' \ missed' |-> live'[x]]
    BY <1>1, <1>2, <1>4, <2>1, <2>2 DEF Known, Drop
  <2> QED BY <1>2, <1>5, <1>6, <2>1, <2>3
          DEF FollowInv, FollowType, PendingInv, Between, L3FollowsExchange
<1> QED BY <1>1, <1>7, <1>8, HandleFacts

(* The first half of a 'U' message: the order goes, and its replacement is *)
(* either due on the same side or missed.                                  *)
LEMMA ReplaceOrderFollows ==
  ASSUME FollowInv, ReplaceOrder
  PROVE  FollowInv'
<1> DEFINE rest(id) == Drop(live, id)
           new(id, msg) == Order(live[id].is_buy, msg.shares, msg.price)
           all(id, msg) == Put(rest(id), msg.order_id, new(id, msg))
           del(id) == [msg_type |-> "DELETE", order_id |-> id]
<1>1. PICK id \in DOMAIN live, msg \in ReplaceOrderMsg :
        /\ msg.order_id \notin DOMAIN live
        /\ Handle(del(id))
        /\ IF result'.kind = "ok"
           THEN /\ pending' = [msg |-> msg, order |-> new(id, msg)]
                /\ live' = rest(id) /\ missed' = missed \ {id}
           ELSE /\ pending' = NoMsg /\ live' = all(id, msg)
                /\ missed' = (missed \ {id}) \cup {msg.order_id}
  BY DEF ReplaceOrder
<1>2. /\ TableInv /\ IsDict(live, OrderIds, L3Entry) /\ missed \subseteq DOMAIN live
      /\ L3!Contents = Known /\ DOMAIN L3!Contents = DOMAIN live \ missed
      /\ \A x \in DOMAIN L3!Contents : L3!Contents[x] = live[x]
  BY <1>1, HandleFacts, KnownFacts
<1>3. id \in OrderIds /\ live[id] \in L3Entry
  BY <1>2 DEF IsDict
<1>4. /\ del(id) \in BookMsg /\ del(id).msg_type = "DELETE" /\ del(id).order_id = id
      /\ ~BringsShares(del(id))
  BY <1>3 DEF BookMsg, DeleteOrderMsg, BringsShares
<1>5. msg.order_id \in OrderIds /\ new(id, msg) \in L3Entry
  BY <1>3, ShareCountsAssumption DEF ReplaceOrderMsg, L3Entry, Order
<1>6. IsDict(rest(id), OrderIds, L3Entry)
  BY <1>2, DropFacts
<1>7. DOMAIN rest(id) = DOMAIN live \ {id} /\ \A x \in DOMAIN live : x # id => rest(id)[x] = live[x]
  BY DEF Drop
<1>8. /\ IsDict(all(id, msg), OrderIds, L3Entry)
      /\ DOMAIN all(id, msg) = (DOMAIN live \ {id}) \cup {msg.order_id}
      /\ \A x \in DOMAIN rest(id) : x # msg.order_id => all(id, msg)[x] = rest(id)[x]
  <2>1. /\ DOMAIN all(id, msg) = DOMAIN rest(id) \cup {msg.order_id}
        /\ \A x \in DOMAIN rest(id) : x # msg.order_id => all(id, msg)[x] = rest(id)[x]
    BY DEF Put
  <2>2. IsDict(all(id, msg), OrderIds, L3Entry)
    BY <1>5, <1>6, PutFacts
  <2> QED BY <1>7, <2>1, <2>2
<1>9. result'.kind \in {"ok", "error", "exception"}
  BY <1>1, HandleFacts
<1>10. IsDict(live', OrderIds, L3Entry) /\ missed' \subseteq DOMAIN live'
  BY <1>1, <1>2, <1>6, <1>7, <1>8
<1>11. pending' \in Halves \cup {NoMsg}
  BY <1>1, <1>5 DEF Halves
<1>12. CASE L3!Accept(del(id))
  <2>1. /\ TableInv' /\ last_del_is_buy' = IF L3!Contents[id].is_buy THEN "buy" ELSE "sell"
        /\ id \in DOMAIN L3!Contents
        /\ L3!Contents' = Drop(L3!Contents, id)
    BY <1>2, <1>4, <1>12, TableLeave
  <2>2. L3!Contents[id] = live[id] /\ live[id].is_buy \in BOOLEAN
    BY <1>2, <1>3, <2>1 DEF L3Entry
  <2>3. last_del_is_buy' \in L3!Sides
    BY <2>1 DEF L3!Sides
  <2>4. L3!Contents' = [x \in DOMAIN live' \ missed' |-> live'[x]]
    <3>1. CASE result'.kind = "ok"
      BY <1>1, <1>2, <1>7, <2>1, <3>1 DEF Known, Drop
    <3>2. CASE result'.kind # "ok"
      <4>1. DOMAIN live' \ missed' = (DOMAIN live \ missed) \ {id}
        BY <1>1, <1>2, <1>8, <3>2
      <4>2. \A x \in DOMAIN live' \ missed' : live'[x] = live[x]
        BY <1>1, <1>2, <1>7, <1>8, <3>2, <4>1
      <4> QED BY <1>2, <2>1, <4>1, <4>2 DEF Known, Drop
    <3> QED BY <3>1, <3>2
  <2>5. PendingInv'
    <3>1. CASE result'.kind = "ok"
      <4>1. pending'.msg = msg /\ pending'.order = new(id, msg) /\ live' = rest(id)
        BY <1>1, <3>1
      <4>2. last_del_is_buy' # "none" /\ (last_del_is_buy' = "buy") = live[id].is_buy
        BY <2>1, <2>2
      <4> QED BY <1>1, <1>7, <4>1, <4>2 DEF PendingInv
    <3>2. CASE result'.kind # "ok"
      BY <1>1, <3>2 DEF PendingInv, Between
    <3> QED BY <3>1, <3>2
  <2> QED BY <1>9, <1>10, <1>11, <2>1, <2>3, <2>4, <2>5
          DEF FollowInv, FollowType, L3FollowsExchange
<1>13. CASE L3!Refuse(del(id))
  <2>1. /\ TableInv' /\ last_del_is_buy' = last_del_is_buy /\ L3!Contents' = L3!Contents
        /\ L3!Status(del(id)) # "ok"
    BY <1>2, <1>4, <1>13, TableRefuse DEF L3!Refuse
  <2>2. id \in missed
    BY <1>2, <1>4, <2>1, TableStatus
  <2>3. result'.kind # "ok"
    <3>1. ~L3!Accept(del(id))
      BY <1>13 DEF L3!Accept, L3!Refuse
    <3> QED BY <1>1, <3>1, HandleFacts
  <2>4. L3!Contents' = [x \in DOMAIN live' \ missed' |-> live'[x]]
    <3>1. DOMAIN live' \ missed' = DOMAIN live \ missed
      BY <1>1, <1>2, <1>8, <2>2, <2>3
    <3>2. \A x \in DOMAIN live' \ missed' : live'[x] = live[x]
      BY <1>1, <1>2, <1>7, <1>8, <2>2, <2>3, <3>1
    <3> QED BY <1>2, <2>1, <3>1, <3>2 DEF Known
  <2>5. PendingInv'
    BY <1>1, <2>3 DEF PendingInv, Between
  <2> QED BY <1>9, <1>10, <1>11, <2>1, <2>4, <2>5
          DEF FollowInv, FollowType, L3FollowsExchange
<1> QED BY <1>1, <1>12, <1>13, HandleFacts

(* A message that contradicts the live orders is refused. *)
LEMMA BadMsgFollows ==
  ASSUME FollowInv, BadMsg
  PROVE  FollowInv'
<1>1. PICK msg \in AddOrderMsg \cup ReduceOrderMsg \cup DeleteOrderMsg :
        /\ msg.order_id \notin missed
        /\ \/ msg.msg_type = "ADD" /\ msg.order_id \in DOMAIN live
           \/ msg.msg_type # "ADD" /\ msg.order_id \notin DOMAIN live
           \/ msg.msg_type = "REDUCE" /\ msg.order_id \in DOMAIN live
                /\ live[msg.order_id].shares < msg.shares
        /\ Handle(msg)
  BY DEF BadMsg
<1>2. msg \in BookMsg /\ BringsShares(msg) <=> msg \in BookMsg /\ msg.msg_type = "ADD"
  BY DEF BookMsg, AddOrderMsg, ReduceOrderMsg, DeleteOrderMsg, BringsShares
<1>3. msg \in BookMsg
  BY DEF BookMsg
<1>4. /\ TableInv /\ IsDict(live, OrderIds, L3Entry)
      /\ DOMAIN L3!Contents = DOMAIN live \ missed
      /\ \A x \in DOMAIN L3!Contents : L3!Contents[x] = live[x]
  BY <1>1, HandleFacts, KnownFacts
<1>5. UNCHANGED <<live, missed, pending>> /\ Between
  BY DEF BadMsg
<1>6. L3!Status(msg) # "ok"
  <2>1. L3!Status(msg) = "duplicate" <=> BringsShares(msg) /\ msg.order_id \in DOMAIN L3!Contents
    BY <1>3, <1>4, TableStatus
  <2>2. L3!Status(msg) = "missing" <=> ~BringsShares(msg) /\ msg.order_id \notin DOMAIN L3!Contents
    BY <1>3, <1>4, TableStatus
  <2>3. L3!Status(msg) = "negative" <=> /\ msg.msg_type = "REDUCE"
                                        /\ msg.order_id \in DOMAIN L3!Contents
                                        /\ L3!Contents[msg.order_id].shares < msg.shares
    BY <1>3, <1>4, TableStatus
  <2> QED BY <1>1, <1>2, <1>3, <1>4, <2>1, <2>2, <2>3
<1>7. L3!Refuse(msg)
  BY <1>1, <1>6, HandleFacts DEF L3!Accept
<1>8. /\ TableInv' /\ last_del_is_buy' = last_del_is_buy /\ L3!Contents' = L3!Contents
  BY <1>3, <1>4, <1>7, TableRefuse
<1>9. result'.kind \in {"ok", "error", "exception"} /\ ~Stopped
  BY <1>1, HandleFacts
<1> QED BY <1>5, <1>8, <1>9
        DEF FollowInv, FollowType, PendingInv, Between, L3FollowsExchange

(* Every step keeps the invariant. *)
LEMMA NextFollows == FollowInv /\ [Next]_vars => FollowInv'
<1> SUFFICES ASSUME FollowInv, [Next]_vars PROVE FollowInv'
  OBVIOUS
<1>1. CASE UNCHANGED vars
  <2>1. UNCHANGED <<live, missed, pending, result, last_del_is_buy>>
    BY <1>1 DEF vars
  <2>2. TableInv' /\ L3!Contents' = L3!Contents
    <3>1. UNCHANGED <<ram, cam>>
      BY <1>1 DEF vars
    <3> QED BY <3>1 DEF FollowInv, FollowType, TableInv, Table!MemoryInv, Table!MemoryType,
                        Table!OneHome, Table!WithinCapacity, Table!line, L3!Contents,
                        L3!Stored, L3!Contains, L3!GetItem, L3!line
  <2> QED BY <2>1, <2>2
          DEF FollowInv, FollowType, PendingInv, Between, L3FollowsExchange, Stopped
<1> QED BY <1>1, NewOrderFollows, ReduceOrderFollows, DeleteOrderFollows,
           ReplaceOrderFollows, ReplaceHalfFollows, BadMsgFollows DEF Next

(* The invariant of L3 and the exchange holds in every reachable state.    *)
THEOREM FollowInvHolds == Spec => []FollowInv
BY InitFollow, NextFollows, PTL DEF Spec

(* However long the day and whatever the exchange sends, L3 holds its live *)
(* orders but for those Top dropped or L3 had no place for, and a 'U'      *)
(* message keeps its side (l3_order_table.py:80-119, top.py:61-94).        *)
THEOREM L3Follows == Spec => []L3FollowsExchange
<1>1. FollowInv => L3FollowsExchange
  BY DEF FollowInv
<1> QED BY <1>1, FollowInvHolds, PTL

----------------------------------------------------------------------------
(* Sums of shares over any finite set of orders.  The library's fold is a  *)
(* recursive function on the subsets of the set; that it is well defined,  *)
(* and in whatever order it adds, is proved from the well-founded order of *)
(* finite subsets.                                                         *)

(* Induction over the subsets of a finite set: a family of subsets that    *)
(* has every set whose proper subsets it has, has them all.                *)
LEMMA SubsetInduction ==
  ASSUME NEW S, IsFiniteSet(S), NEW G,
         \A T \in SUBSET S : (\A U \in SUBSET T : U # T => U \in G) => T \in G
  PROVE  \A T \in SUBSET S : T \in G
<1> DEFINE Bad == {T \in SUBSET S : T \notin G}
<1> SUFFICES ASSUME Bad # {} PROVE FALSE
  OBVIOUS
<1>1. IsWellFoundedOn(StrictSubsetOrdering(S), FiniteSubsetsOf(S))
  BY FS_StrictSubsetOrderingWellFounded
<1>2. Bad \subseteq FiniteSubsetsOf(S)
  BY FS_FiniteSubsetsOfFinite
<1> HIDE DEF Bad
<1>3. PICK T \in Bad : \A U \in Bad : ~(<<U, T>> \in StrictSubsetOrdering(S))
  BY <1>1, <1>2, WFMin
<1>4. T \in SUBSET S /\ T \notin G
  BY DEF Bad
<1>5. ASSUME NEW U \in SUBSET T, U # T PROVE U \in G
  <2>1. U \in SUBSET S
    BY <1>4
  <2>2. <<U, T>> \in StrictSubsetOrdering(S)
    BY <1>4, <1>5, <2>1 DEF StrictSubsetOrdering
  <2> QED BY <1>3, <2>1, <2>2 DEF Bad
<1> QED BY <1>4, <1>5

(* A family that has the empty set, and with a set every one that has one  *)
(* element more, has every finite set.                                     *)
LEMMA FiniteInduction ==
  ASSUME NEW S, IsFiniteSet(S), NEW G, {} \in G,
         \A T \in SUBSET S : \A x \in S \ T : T \in G => T \cup {x} \in G
  PROVE  S \in G
<1>1. ASSUME NEW T \in SUBSET S, \A U \in SUBSET T : U # T => U \in G
      PROVE  T \in G
  <2>1. CASE T = {}
    BY <2>1
  <2>2. CASE T # {}
    <3>1. PICK x \in T : TRUE
      BY <2>2
    <3>2. T \ {x} \in G
      BY <1>1, <3>1
    <3>3. T \ {x} \in SUBSET S /\ x \in S \ (T \ {x}) /\ (T \ {x}) \cup {x} = T
      BY <3>1
    <3> QED BY <3>2, <3>3
  <2> QED BY <2>1, <2>2
<1> QED BY <1>1, SubsetInduction

----------------------------------------------------------------------------
(* The fold. *)

First(s) == CHOOSE x \in s : TRUE

(* g is the function the fold of book's shares over ids recurs by.         *)
Adds(g, book, ids) ==
  g = [s \in SUBSET ids |-> IF s = {} THEN 0 ELSE book[First(s)].shares + g[s \ {First(s)}]]

LEMMA SharesOfFold ==
  ASSUME NEW book, NEW ids
  PROVE  SharesOf(book, ids) = (CHOOSE g : Adds(g, book, ids))[ids]
BY DEF SharesOf, MapThenSumSet, MapThenFoldSet, Adds, First

LEMMA FirstIn == ASSUME NEW s, s # {} PROVE First(s) \in s
BY DEF First

(* Two such functions agree where both are defined.                        *)
LEMMA AddsAgree ==
  ASSUME NEW book, NEW S, NEW R, NEW g, NEW h, Adds(g, book, S), Adds(h, book, R),
         NEW T, T \subseteq S, T \subseteq R, IsFiniteSet(T)
  PROVE  g[T] = h[T]
<1> DEFINE G == {U \in SUBSET T : g[U] = h[U]}
<1>1. ASSUME NEW U \in SUBSET T, \A V \in SUBSET U : V # U => V \in G
      PROVE  U \in G
  <2>1. U \in SUBSET S /\ U \in SUBSET R
    OBVIOUS
  <2>2. g[U] = IF U = {} THEN 0 ELSE book[First(U)].shares + g[U \ {First(U)}]
    BY <2>1 DEF Adds
  <2>3. h[U] = IF U = {} THEN 0 ELSE book[First(U)].shares + h[U \ {First(U)}]
    BY <2>1 DEF Adds
  <2>4. U # {} => g[U \ {First(U)}] = h[U \ {First(U)}]
    BY <1>1, FirstIn
  <2> QED BY <2>2, <2>3, <2>4
<1>2. \A U \in SUBSET T : U \in G
  <2> HIDE DEF G
  <2> QED BY <1>1, SubsetInduction
<1> QED BY <1>2

Adder(book, ids) == CHOOSE g : Adds(g, book, ids)

(* What the fold's function says of a set, in terms of smaller sets.       *)
Sum(book, ids) == IF ids = {} THEN 0
                  ELSE book[First(ids)].shares + Adder(book, ids \ {First(ids)})[ids \ {First(ids)}]

LEMMA AdderOfPart ==
  ASSUME NEW book, NEW U, IsFiniteSet(U), Adds(Adder(book, U), book, U),
         NEW V, V \subseteq U, Adds(Adder(book, V), book, V)
  PROVE  Adder(book, U)[V] = Adder(book, V)[V]
BY FS_Subset, AddsAgree

(* On a finite set there is one.                                           *)
LEMMA AddsExists ==
  ASSUME NEW book, NEW S, IsFiniteSet(S)
  PROVE  Adds(Adder(book, S), book, S)
<1> DEFINE G == {T \in SUBSET S : Adds(Adder(book, T), book, T)}
<1>1. ASSUME NEW T \in SUBSET S, \A U \in SUBSET T : U # T => U \in G
      PROVE  T \in G
  <2> DEFINE g == [U \in SUBSET T |-> Sum(book, U)]
  <2>1. ASSUME NEW U \in SUBSET T, U # T PROVE Adds(Adder(book, U), book, U) /\ IsFiniteSet(U)
    BY <1>1, <2>1, FS_Subset
  <2>2. ASSUME NEW U \in SUBSET T, U # T PROVE Adder(book, U)[U] = Sum(book, U)
    <3>1. CASE U = {}
      <4>1. Adder(book, U)[U] = IF U = {} THEN 0 ELSE book[First(U)].shares + Adder(book, U)[U \ {First(U)}]
        BY <2>1, <2>2 DEF Adds
      <4> QED BY <3>1, <4>1 DEF Sum
    <3>2. CASE U # {}
      <4> DEFINE V == U \ {First(U)}
      <4>1. V \subseteq U /\ V \in SUBSET T /\ V # T
        BY <3>2, FirstIn
      <4>2. Adder(book, U)[U] = book[First(U)].shares + Adder(book, U)[V]
        BY <2>1, <2>2, <3>2 DEF Adds
      <4>3. Adds(Adder(book, U), book, U) /\ IsFiniteSet(U) /\ Adds(Adder(book, V), book, V)
        BY <2>1, <2>2, <4>1
      <4>4. Adder(book, U)[V] = Adder(book, V)[V]
        <5> HIDE DEF V
        <5> QED BY <4>1, <4>3, AdderOfPart
      <4> QED BY <3>2, <4>2, <4>4 DEF Sum
    <3> QED BY <3>1, <3>2
  <2>3. ASSUME NEW U \in SUBSET T
        PROVE  Sum(book, U) = IF U = {} THEN 0 ELSE book[First(U)].shares + g[U \ {First(U)}]
    <3>1. CASE U = {}
      BY <3>1 DEF Sum
    <3>2. CASE U # {}
      <4> DEFINE V == U \ {First(U)}
      <4>1. V \in SUBSET T /\ V # T
        BY <3>2, FirstIn
      <4>2. g[V] = Adder(book, V)[V]
        BY <2>2, <4>1
      <4> QED BY <3>2, <4>2 DEF Sum
    <3> QED BY <3>1, <3>2
  <2>4. Adds(g, book, T)
    BY <2>3 DEF Adds
  <2>5. Adds(Adder(book, T), book, T)
    <3> HIDE DEF g
    <3> QED BY <2>4 DEF Adder
  <2> QED BY <2>5
<1>2. \A T \in SUBSET S : T \in G
  <2> HIDE DEF G
  <2> QED BY <1>1, SubsetInduction
<1> QED BY <1>2

----------------------------------------------------------------------------
(* The sum. *)

LEMMA SumEmpty == ASSUME NEW book PROVE SharesOf(book, {}) = 0
<1>1. Adds(Adder(book, {}), book, {})
  BY AddsExists, FS_EmptySet
<1>2. Adder(book, {})[{}] = 0
  BY <1>1 DEF Adds
<1> QED BY <1>2, SharesOfFold DEF Adder

LEMMA SumFirst ==
  ASSUME NEW book, NEW ids, IsFiniteSet(ids), ids # {}
  PROVE  SharesOf(book, ids) = book[First(ids)].shares + SharesOf(book, ids \ {First(ids)})
<1> DEFINE rest == ids \ {First(ids)}
<1>1. Adds(Adder(book, ids), book, ids)
  BY AddsExists
<1>2. rest \subseteq ids /\ IsFiniteSet(rest)
  BY FS_Subset
<1>3. Adds(Adder(book, rest), book, rest)
  <2> HIDE DEF rest
  <2> QED BY <1>2, AddsExists
<1>4. Adder(book, ids)[ids] = book[First(ids)].shares + Adder(book, ids)[rest]
  BY <1>1 DEF Adds
<1>5. Adder(book, ids)[rest] = Adder(book, rest)[rest]
  <2> HIDE DEF rest
  <2> QED BY <1>1, <1>2, <1>3, AdderOfPart
<1>6. SharesOf(book, ids) = Adder(book, ids)[ids] /\ SharesOf(book, rest) = Adder(book, rest)[rest]
  <2> HIDE DEF rest
  <2> QED BY SharesOfFold DEF Adder
<1> QED BY <1>4, <1>5, <1>6

(* Natural numbers add up to one. *)
LEMMA SumType ==
  ASSUME NEW book, NEW S, IsFiniteSet(S), \A id \in S : book[id].shares \in Nat
  PROVE  SharesOf(book, S) \in Nat
<1> DEFINE G == {T \in SUBSET S : SharesOf(book, T) \in Nat}
<1>1. ASSUME NEW T \in SUBSET S, \A U \in SUBSET T : U # T => U \in G
      PROVE  T \in G
  <2>1. CASE T = {}
    BY <2>1, SumEmpty
  <2>2. CASE T # {}
    <3>1. First(T) \in T /\ IsFiniteSet(T)
      BY <2>2, FirstIn, FS_Subset
    <3>2. SharesOf(book, T \ {First(T)}) \in Nat
      BY <1>1, <3>1
    <3>3. SharesOf(book, T) = book[First(T)].shares + SharesOf(book, T \ {First(T)})
      BY <2>2, <3>1, SumFirst
    <3> QED BY <3>1, <3>2, <3>3
  <2> QED BY <2>1, <2>2
<1>2. \A T \in SUBSET S : T \in G
  <2> HIDE DEF G
  <2> QED BY <1>1, SubsetInduction
<1> QED BY <1>2

(* Whichever order is counted last.  *)
LEMMA SumRemove ==
  ASSUME NEW book, NEW S, IsFiniteSet(S), \A id \in S : book[id].shares \in Nat, NEW y \in S
  PROVE  SharesOf(book, S) = book[y].shares + SharesOf(book, S \ {y})
<1> DEFINE G == {T \in SUBSET S :
                   \A z \in T : SharesOf(book, T) = book[z].shares + SharesOf(book, T \ {z})}
<1>1. ASSUME NEW T \in SUBSET S, \A U \in SUBSET T : U # T => U \in G
      PROVE  T \in G
  <2> SUFFICES ASSUME NEW z \in T
               PROVE  SharesOf(book, T) = book[z].shares + SharesOf(book, T \ {z})
    OBVIOUS
  <2> DEFINE x == First(T)
  <2>1. x \in T /\ IsFiniteSet(T)
    BY FirstIn, FS_Subset
  <2>2. SharesOf(book, T) = book[x].shares + SharesOf(book, T \ {x})
    BY <2>1, SumFirst
  <2> HIDE DEF x
  <2>3. CASE z = x
    BY <2>2, <2>3
  <2>4. CASE z # x
    <3>1. T \ {x} \in G /\ T \ {z} \in G
      BY <1>1, <2>1
    <3>2. SharesOf(book, T \ {x}) = book[z].shares + SharesOf(book, (T \ {x}) \ {z})
      BY <2>4, <3>1
    <3>3. SharesOf(book, T \ {z}) = book[x].shares + SharesOf(book, (T \ {z}) \ {x})
      BY <2>1, <2>4, <3>1
    <3>4. (T \ {x}) \ {z} = (T \ {z}) \ {x}
      OBVIOUS
    <3>5. SharesOf(book, (T \ {z}) \ {x}) \in Nat
      <4> DEFINE R == (T \ {z}) \ {x}
      <4>1. R \subseteq T /\ R \subseteq S
        OBVIOUS
      <4>2. IsFiniteSet(R) /\ \A id \in R : book[id].shares \in Nat
        <5> HIDE DEF R
        <5> QED BY <2>1, <4>1, FS_Subset
      <4> HIDE DEF R
      <4>3. SharesOf(book, R) \in Nat
        BY <4>2, SumType
      <4> QED BY <4>3 DEF R
    <3>6. book[x].shares \in Nat /\ book[z].shares \in Nat
      BY <2>1
    <3>7. SharesOf(book, (T \ {x}) \ {z}) = SharesOf(book, (T \ {z}) \ {x})
      BY <3>4
    <3> QED BY <2>2, <3>2, <3>3, <3>5, <3>6, <3>7
  <2> QED BY <2>3, <2>4
<1>2. \A T \in SUBSET S : T \in G
  <2> HIDE DEF G
  <2> QED BY <1>1, SubsetInduction
<1> QED BY <1>2

(* An order more, an order less. *)
LEMMA SumAdd ==
  ASSUME NEW book, NEW S, IsFiniteSet(S), NEW y, y \notin S,
         \A id \in S \cup {y} : book[id].shares \in Nat
  PROVE  SharesOf(book, S \cup {y}) = book[y].shares + SharesOf(book, S)
<1> DEFINE T == S \cup {y}
<1>1. IsFiniteSet(T) /\ y \in T /\ T \ {y} = S
  BY FS_AddElement
<1>2. \A id \in T : book[id].shares \in Nat
  OBVIOUS
<1> HIDE DEF T
<1>3. SharesOf(book, T) = book[y].shares + SharesOf(book, T \ {y})
  BY <1>1, <1>2, SumRemove
<1> QED BY <1>1, <1>3 DEF T

(* Only the shares of the orders counted matter. *)
LEMMA SumSame ==
  ASSUME NEW book, NEW other, NEW S, IsFiniteSet(S),
         \A id \in S : book[id].shares = other[id].shares
  PROVE  SharesOf(book, S) = SharesOf(other, S)
<1> DEFINE G == {T \in SUBSET S : SharesOf(book, T) = SharesOf(other, T)}
<1>1. ASSUME NEW T \in SUBSET S, \A U \in SUBSET T : U # T => U \in G
      PROVE  T \in G
  <2>1. CASE T = {}
    BY <2>1, SumEmpty
  <2>2. CASE T # {}
    <3>1. First(T) \in T /\ IsFiniteSet(T)
      BY <2>2, FirstIn, FS_Subset
    <3>2. SharesOf(book, T \ {First(T)}) = SharesOf(other, T \ {First(T)})
      BY <1>1, <3>1
    <3>3. /\ SharesOf(book, T) = book[First(T)].shares + SharesOf(book, T \ {First(T)})
          /\ SharesOf(other, T) = other[First(T)].shares + SharesOf(other, T \ {First(T)})
      BY <2>2, <3>1, SumFirst
    <3> QED BY <3>1, <3>2, <3>3
  <2> QED BY <2>1, <2>2
<1>2. \A T \in SUBSET S : T \in G
  <2> HIDE DEF G
  <2> QED BY <1>1, SubsetInduction
<1> QED BY <1>2

(* Orders of one share or more add up to nothing only if there are none.   *)
LEMMA SumPositive ==
  ASSUME NEW book, NEW S, IsFiniteSet(S), \A id \in S : book[id].shares \in Nat \ {0}
  PROVE  /\ SharesOf(book, S) \in Nat
         /\ SharesOf(book, S) = 0 <=> S = {}
         /\ \A y \in S : SharesOf(book, S) >= book[y].shares
<1>1. SharesOf(book, S) \in Nat
  BY SumType
<1>2. ASSUME NEW y \in S PROVE SharesOf(book, S) >= book[y].shares
  <2>1. SharesOf(book, S) = book[y].shares + SharesOf(book, S \ {y})
    BY SumRemove
  <2>2. SharesOf(book, S \ {y}) \in Nat
    BY FS_RemoveElement, SumType
  <2> QED BY <2>1, <2>2
<1>3. SharesOf(book, S) = 0 <=> S = {}
  BY <1>1, <1>2, SumEmpty
<1> QED BY <1>1, <1>2, <1>3

(* Two sets of orders that share none. *)
LEMMA SumUnion ==
  ASSUME NEW book, NEW S, IsFiniteSet(S), NEW T, IsFiniteSet(T), S \cap T = {},
         \A id \in S \cup T : book[id].shares \in Nat
  PROVE  SharesOf(book, S \cup T) = SharesOf(book, S) + SharesOf(book, T)
<1> DEFINE G == {U \in SUBSET T : SharesOf(book, S \cup U) = SharesOf(book, S) + SharesOf(book, U)}
<1>1. SharesOf(book, S) \in Nat
  BY SumType
<1>2. {} \in G
  <2>1. SharesOf(book, S \cup {}) = SharesOf(book, S) + SharesOf(book, {})
    <3>1. S \cup {} = S
      OBVIOUS
    <3> QED BY <1>1, <3>1, SumEmpty
  <2> QED BY <2>1
<1>3. ASSUME NEW U \in SUBSET T, NEW x \in T \ U, U \in G
      PROVE  U \cup {x} \in G
  <2>1. /\ IsFiniteSet(U) /\ IsFiniteSet(S \cup U) /\ x \notin U /\ x \notin S \cup U
        /\ \A id \in U \cup {x} : book[id].shares \in Nat
        /\ \A id \in (S \cup U) \cup {x} : book[id].shares \in Nat
    BY FS_Subset, FS_Union
  <2>2. SharesOf(book, U \cup {x}) = book[x].shares + SharesOf(book, U)
    BY <2>1, SumAdd
  <2>3. SharesOf(book, (S \cup U) \cup {x}) = book[x].shares + SharesOf(book, S \cup U)
    BY <2>1, SumAdd
  <2>4. SharesOf(book, U) \in Nat /\ book[x].shares \in Nat
    BY <2>1, SumType
  <2>5. (S \cup U) \cup {x} = S \cup (U \cup {x})
    OBVIOUS
  <2>6. SharesOf(book, S \cup U) = SharesOf(book, S) + SharesOf(book, U)
    BY <1>3
  <2>7. SharesOf(book, (S \cup U) \cup {x}) = SharesOf(book, S) + SharesOf(book, U \cup {x})
    BY <1>1, <2>2, <2>3, <2>4, <2>6
  <2> QED BY <2>5, <2>7
<1>4. T \in G
  <2> HIDE DEF G
  <2> QED BY <1>2, <1>3, FiniteInduction
<1> QED BY <1>4

----------------------------------------------------------------------------
(* Books. *)

(* A book is a finite dictionary of orders by id. *)
IsBook(book) == IsDict(book, OrderIds, L3Entry) /\ IsFiniteSet(DOMAIN book)

(* The orders at the given places, a place being a side and a price, and   *)
(* the shares they have in total.                                          *)
At(book, places) == {id \in DOMAIN book : <<book[id].is_buy, book[id].price>> \in places}

Total(book, places) == SharesOf(book, At(book, places))

(* What a message does to a book, once L3 has looked it up: its order      *)
(* enters, or loses shares, and leaves with the last.                      *)
Entering(book, after, id, msg) ==
  /\ BringsShares(msg)
  /\ id \in OrderIds \ DOMAIN book
  /\ after = Put(book, id, Order(msg.is_buy, msg.shares, msg.price))

Leaving(book, after, id, msg) ==
  /\ ~BringsShares(msg)
  /\ id \in DOMAIN book
  /\ book[id].is_buy = msg.is_buy /\ book[id].price = msg.price
  /\ msg.shares <= book[id].shares
  /\ after = IF book[id].shares = msg.shares
             THEN Drop(book, id)
             ELSE Put(book, id, Reduced(book[id], msg.shares))

Moves(book, after, id, msg) == Entering(book, after, id, msg) \/ Leaving(book, after, id, msg)

(* The shares of the message that count for the places. *)
Count(msg, places) == IF <<msg.is_buy, msg.price>> \in places THEN msg.shares ELSE 0

----------------------------------------------------------------------------
(* Totals. *)

LEMMA AtFacts ==
  ASSUME NEW book, IsBook(book), NEW places
  PROVE  /\ IsFiniteSet(At(book, places))
         /\ \A id \in At(book, places) : book[id].shares \in Nat \ {0}
         /\ \A id \in DOMAIN book : book[id] \in L3Entry
<1>1. At(book, places) \subseteq DOMAIN book
  BY DEF At
<1>2. \A id \in DOMAIN book : book[id] \in L3Entry
  BY DEF IsBook, IsDict
<1>3. \A id \in DOMAIN book : book[id].shares \in Nat \ {0}
  BY <1>2 DEF L3Entry
<1> QED BY <1>1, <1>2, <1>3, FS_Subset DEF IsBook

LEMMA TotalFacts ==
  ASSUME NEW book, IsBook(book), NEW places
  PROVE  /\ Total(book, places) \in Nat
         /\ Total(book, places) = 0 <=> At(book, places) = {}
         /\ \A id \in At(book, places) : Total(book, places) >= book[id].shares
BY AtFacts, SumPositive DEF Total, Count

(* An order that enters. *)
LEMMA EnteringFacts ==
  ASSUME NEW book, IsBook(book), NEW after, NEW id, NEW msg \in DownstreamOrderMsg,
         Entering(book, after, id, msg)
  PROVE  /\ IsBook(after)
         /\ DOMAIN after = DOMAIN book \cup {id}
         /\ after[id] = Order(msg.is_buy, msg.shares, msg.price)
         /\ \A x \in DOMAIN book : after[x] = book[x]
<1> DEFINE new == Order(msg.is_buy, msg.shares, msg.price)
<1>1. new \in L3Entry /\ new.is_buy = msg.is_buy /\ new.price = msg.price /\ new.shares = msg.shares
  BY DEF Order, L3Entry, DownstreamOrderMsg
<1>2. id \in OrderIds /\ id \notin DOMAIN book /\ after = Put(book, id, new)
  BY DEF Entering
<1> HIDE DEF new
<1>3. DOMAIN after = DOMAIN book \cup {id} /\ after[id] = new /\ \A x \in DOMAIN book : after[x] = book[x]
  BY <1>2 DEF Put
<1>4. IsBook(after)
  <2>1. IsDict(after, OrderIds, L3Entry)
    BY <1>1, <1>2, PutFacts DEF IsBook
  <2> QED BY <1>3, <2>1, FS_AddElement DEF IsBook
<1> QED BY <1>3, <1>4 DEF new

LEMMA EnteringTotal ==
  ASSUME NEW book, IsBook(book), NEW after, NEW id, NEW msg \in DownstreamOrderMsg,
         Entering(book, after, id, msg), NEW places
  PROVE  Total(after, places) = Total(book, places) + Count(msg, places)
<1> DEFINE new == Order(msg.is_buy, msg.shares, msg.price)
<1>1. new \in L3Entry /\ new.is_buy = msg.is_buy /\ new.price = msg.price /\ new.shares = msg.shares
  BY DEF Order, L3Entry, DownstreamOrderMsg
<1>2. id \notin DOMAIN book /\ after = Put(book, id, new)
  BY DEF Entering
<1> HIDE DEF new
<1>3. DOMAIN after = DOMAIN book \cup {id} /\ after[id] = new /\ \A x \in DOMAIN book : after[x] = book[x]
  BY <1>2 DEF Put
<1>4. IsBook(after)
  BY EnteringFacts
<1>5. /\ IsFiniteSet(At(book, places)) /\ \A x \in At(book, places) : book[x].shares \in Nat \ {0}
      /\ IsFiniteSet(At(after, places)) /\ \A x \in At(after, places) : after[x].shares \in Nat \ {0}
  BY <1>4, AtFacts
<1>6. id \notin At(book, places) /\ \A x \in At(book, places) : after[x].shares = book[x].shares
  BY <1>2, <1>3 DEF At
<1>7. SharesOf(after, At(book, places)) = SharesOf(book, At(book, places))
  BY <1>5, <1>6, SumSame
<1>8. SharesOf(book, At(book, places)) \in Nat
  BY TotalFacts DEF Total, Count
<1>9. CASE <<msg.is_buy, msg.price>> \in places
  <2>1. At(after, places) = At(book, places) \cup {id}
    BY <1>1, <1>2, <1>3, <1>9 DEF At
  <2>2. SharesOf(after, At(book, places) \cup {id}) = after[id].shares + SharesOf(after, At(book, places))
    BY <1>5, <1>6, <2>1, SumAdd
  <2>3. after[id].shares = msg.shares /\ msg.shares \in Nat
    BY <1>1, <1>3 DEF L3Entry
  <2> QED BY <1>7, <1>8, <1>9, <2>1, <2>2, <2>3 DEF Total, Count
<1>10. CASE <<msg.is_buy, msg.price>> \notin places
  <2>1. At(after, places) = At(book, places)
    BY <1>1, <1>2, <1>3, <1>10 DEF At
  <2> QED BY <1>7, <1>8, <1>10, <2>1 DEF Total, Count
<1> QED BY <1>9, <1>10

(* An order that loses shares, or leaves. *)
LEMMA LeavingFacts ==
  ASSUME NEW book, IsBook(book), NEW after, NEW id, NEW msg \in DownstreamOrderMsg,
         Leaving(book, after, id, msg)
  PROVE  /\ IsBook(after)
         /\ DOMAIN after = IF book[id].shares = msg.shares THEN DOMAIN book \ {id} ELSE DOMAIN book
         /\ book[id].shares # msg.shares => after[id] = Reduced(book[id], msg.shares)
         /\ \A x \in DOMAIN book : x # id => after[x] = book[x]
<1>1. /\ id \in DOMAIN book /\ book[id].is_buy = msg.is_buy /\ book[id].price = msg.price
      /\ msg.shares <= book[id].shares
      /\ after = IF book[id].shares = msg.shares
                 THEN Drop(book, id)
                 ELSE Put(book, id, Reduced(book[id], msg.shares))
  BY DEF Leaving
<1>2. /\ id \in OrderIds /\ book[id] \in L3Entry
      /\ book[id].shares \in Nat /\ msg.shares \in Nat \ {0}
  BY <1>1 DEF IsBook, IsDict, L3Entry, DownstreamOrderMsg
<1> DEFINE left == Reduced(book[id], msg.shares)
<1>3. /\ left.is_buy = msg.is_buy /\ left.price = msg.price
      /\ left.shares = book[id].shares - msg.shares
      /\ book[id].shares # msg.shares => left \in L3Entry
  BY <1>1, <1>2 DEF Reduced, L3Entry
<1> HIDE DEF left
<1>4. CASE book[id].shares = msg.shares
  <2>1. after = Drop(book, id) /\ DOMAIN after = DOMAIN book \ {id}
        /\ \A x \in DOMAIN after : after[x] = book[x]
    BY <1>1, <1>4 DEF Drop
  <2>2. IsBook(after)
    <3>1. IsDict(after, OrderIds, L3Entry)
      BY <2>1, DropFacts DEF IsBook
    <3> QED BY <2>1, <3>1, FS_RemoveElement DEF IsBook
  <2> QED BY <1>4, <2>1, <2>2
<1>5. CASE book[id].shares # msg.shares
  <2>1. after = Put(book, id, left) /\ DOMAIN after = DOMAIN book /\ after[id] = left
        /\ \A x \in DOMAIN book : x # id => after[x] = book[x]
    BY <1>1, <1>5 DEF Put, left
  <2>2. IsBook(after)
    <3>1. IsDict(after, OrderIds, L3Entry)
      BY <1>2, <1>3, <1>5, <2>1, PutFacts DEF IsBook
    <3> QED BY <2>1, <3>1 DEF IsBook
  <2> QED BY <1>5, <2>1, <2>2 DEF left
<1> QED BY <1>4, <1>5

LEMMA LeavingTotal ==
  ASSUME NEW book, IsBook(book), NEW after, NEW id, NEW msg \in DownstreamOrderMsg,
         Leaving(book, after, id, msg), NEW places
  PROVE  Total(after, places) = Total(book, places) - Count(msg, places)
<1>1. /\ id \in DOMAIN book /\ book[id].is_buy = msg.is_buy /\ book[id].price = msg.price
      /\ msg.shares <= book[id].shares
  BY DEF Leaving
<1>2. book[id] \in L3Entry /\ book[id].shares \in Nat /\ msg.shares \in Nat \ {0}
  BY <1>1 DEF IsBook, IsDict, L3Entry, DownstreamOrderMsg
<1> DEFINE left == Reduced(book[id], msg.shares)
<1>3. left.is_buy = msg.is_buy /\ left.price = msg.price /\ left.shares = book[id].shares - msg.shares
  BY <1>1, <1>2 DEF Reduced, L3Entry
<1> HIDE DEF left
<1>4. /\ IsBook(after)
      /\ DOMAIN after = IF book[id].shares = msg.shares THEN DOMAIN book \ {id} ELSE DOMAIN book
      /\ book[id].shares # msg.shares => after[id] = left
      /\ \A x \in DOMAIN book : x # id => after[x] = book[x]
  <2>1. IsBook(after)
    BY LeavingFacts
  <2>2. CASE book[id].shares = msg.shares
    <3>1. after = Drop(book, id)
      BY <2>2 DEF Leaving
    <3> QED BY <2>1, <2>2, <3>1 DEF Drop
  <2>3. CASE book[id].shares # msg.shares
    <3>1. after = Put(book, id, left)
      BY <2>3 DEF Leaving, left
    <3> QED BY <1>1, <2>1, <2>3, <3>1 DEF Put
  <2> QED BY <2>2, <2>3
<1>5. /\ IsFiniteSet(At(book, places)) /\ \A x \in At(book, places) : book[x].shares \in Nat
      /\ IsFiniteSet(At(after, places)) /\ \A x \in At(after, places) : after[x].shares \in Nat
  BY <1>4, AtFacts
<1>6. Total(book, places) \in Nat /\ Total(after, places) \in Nat
  BY <1>4, TotalFacts
<1> DEFINE others == At(book, places) \ {id}
<1>7. /\ IsFiniteSet(others) /\ \A x \in others : x \in DOMAIN book /\ x # id
      /\ \A x \in others : book[x].shares \in Nat
  BY <1>5, FS_RemoveElement DEF At
<1>8. SharesOf(after, others) = SharesOf(book, others) /\ SharesOf(book, others) \in Nat
  <2>1. \A x \in others : after[x].shares = book[x].shares
    BY <1>4, <1>7
  <2> HIDE DEF others
  <2> QED BY <1>7, <2>1, SumSame, SumType
<1>9. At(after, places) \ {id} = others
  BY <1>4 DEF At
<1>10. CASE <<msg.is_buy, msg.price>> \in places
  <2>1. SharesOf(book, At(book, places)) = book[id].shares + SharesOf(book, others)
    <3>1. id \in At(book, places)
      BY <1>1, <1>10 DEF At
    <3> QED BY <1>5, <3>1, SumRemove
  <2>2. SharesOf(after, At(after, places)) = (book[id].shares - msg.shares) + SharesOf(book, others)
    <3>1. CASE book[id].shares = msg.shares
      <4>1. At(after, places) = others
        BY <1>4, <1>9, <3>1 DEF At
      <4> HIDE DEF others
      <4> QED BY <1>2, <1>8, <3>1, <4>1
    <3>2. CASE book[id].shares # msg.shares
      <4>1. id \in At(after, places)
        BY <1>1, <1>3, <1>4, <1>10, <3>2 DEF At
      <4>2. SharesOf(after, At(after, places))
              = after[id].shares + SharesOf(after, At(after, places) \ {id})
        BY <1>5, <4>1, SumRemove
      <4> HIDE DEF others
      <4> QED BY <1>3, <1>4, <1>8, <1>9, <3>2, <4>2
    <3> QED BY <3>1, <3>2
  <2> HIDE DEF others
  <2> QED BY <1>2, <1>8, <1>10, <2>1, <2>2 DEF Total, Count
<1>11. CASE <<msg.is_buy, msg.price>> \notin places
  <2>1. others = At(book, places)
    BY <1>1, <1>11 DEF At
  <2>2. others = At(after, places)
    BY <1>1, <1>3, <1>4, <1>9, <1>11 DEF At
  <2> HIDE DEF others
  <2>3. Total(after, places) = Total(book, places)
    BY <1>8, <2>1, <2>2 DEF Total
  <2> QED BY <1>6, <1>11, <2>3 DEF Count
<1> QED BY <1>10, <1>11

----------------------------------------------------------------------------
(* The hash of a price. *)

(* If five divides a multiple of m, it divides the other factor. *)
LEMMA FiveDivides ==
  ASSUME NEW m \in Nat, m % 5 # 0
  PROVE  \A q, e \in Int : m * q = 5 * e => \E r \in Int : q = 5 * r /\ m * r = e
<1> SUFFICES ASSUME NEW q \in Int, NEW e \in Int, m * q = 5 * e
             PROVE  \E r \in Int : q = 5 * r /\ m * r = e
  OBVIOUS
<1>1. PICK k \in Nat, i \in 1 .. 4 : m = 5 * k + i
  BY Z3
<1>2. i * q = 5 * (e - k * q)
  BY <1>1, Z3
<1> DEFINE z == e - k * q
<1>3. z \in Int /\ i * q = 5 * z
  BY <1>1, <1>2
<1> HIDE DEF z
<1>4. PICK r \in Int : q = 5 * r
  <2>1. CASE i = 1
    BY <1>3, <2>1
  <2>2. CASE i = 2
    <3>1. q = 5 * (q - 2 * z) /\ q - 2 * z \in Int
      BY <1>3, <2>2
    <3> QED BY <3>1
  <2>3. CASE i = 3
    <3>1. q = 5 * (2 * z - q) /\ 2 * z - q \in Int
      BY <1>3, <2>3
    <3> QED BY <3>1
  <2>4. CASE i = 4
    <3>1. q = 5 * (q - z) /\ q - z \in Int
      BY <1>3, <2>4
    <3> QED BY <3>1
  <2> QED BY <1>1, <2>1, <2>2, <2>3, <2>4
<1>5. 5 * (m * r) = 5 * e /\ m * r \in Int
  BY <1>4
<1>6. m * r = e
  BY <1>5
<1> QED BY <1>4, <1>6

LEMMA TwentyFiveDivides ==
  ASSUME NEW m \in Nat, m % 5 # 0
  PROVE  \A q, e \in Int : m * q = 25 * e => \E r \in Int : m * r = e
<1> SUFFICES ASSUME NEW q \in Int, NEW e \in Int, m * q = 25 * e
             PROVE  \E r \in Int : m * r = e
  OBVIOUS
<1>1. \A x, y \in Int : m * x = 5 * y => \E r \in Int : x = 5 * r /\ m * r = y
  BY FiveDivides, Zenon
<1>2. 5 * e \in Int /\ m * q = 5 * (5 * e)
  OBVIOUS
<1>3. PICK r \in Int : q = 5 * r /\ m * r = 5 * e
  BY <1>1, <1>2, Zenon
<1>4. \E t \in Int : r = 5 * t /\ m * t = e
  BY <1>1, <1>3, Zenon
<1> QED BY <1>4, Zenon

LEMMA WindowApart ==
  ASSUME NEW m \in Nat, m % 5 # 0
  PROVE  \A e \in 1 .. m - 1 : \A q \in Int : m * q # 25 * e
<1> SUFFICES ASSUME NEW e \in 1 .. m - 1, NEW q \in Int, m * q = 25 * e
             PROVE  FALSE
  OBVIOUS
<1>1. e \in Int
  OBVIOUS
<1>2. PICK r \in Int : m * r = e
  <2>1. \A x, y \in Int : m * x = 25 * y => \E r \in Int : m * r = y
    BY TwentyFiveDivides, Zenon
  <2> QED BY <1>1, <2>1, Zenon
<1>3. CASE r <= 0
  <2>1. m * r <= 0
    BY <1>3
  <2> QED BY <1>2, <2>1
<1>4. CASE r >= 1
  <2>1. m * r >= m
    BY <1>4
  <2> QED BY <1>2, <2>1
<1> QED BY <1>3, <1>4

LEMMA WindowSize ==
  /\ L2_MEM_SIZE \in Nat \ {0} /\ L2_MEM_SIZE % 5 # 0
  /\ price_base \in Nat /\ price_base % 50 = 0
  /\ BBO_DEPTH \in Nat /\ BBO_DEPTH >= 2
BY L2SizesAssumption

LEMMA HashRange ==
  ASSUME NEW p \in Nat
  PROVE  L2!price_hash(p) \in 0 .. L2_MEM_SIZE - 1
<1>1. p \div 2 \in Nat
  OBVIOUS
<1> QED BY <1>1, WindowSize, Z3 DEF L2!price_hash

(* No two ticks of the window share a slot. *)
LEMMA HashApart ==
  ASSUME NEW p \in Nat, NEW q \in Nat, L2!OnTick(p), L2!OnTick(q),
         L2!InWindow(p), L2!InWindow(q), L2!price_hash(p) = L2!price_hash(q)
  PROVE  p = q
<1> SUFFICES ASSUME NEW x \in Nat, NEW y \in Nat, L2!OnTick(x), L2!OnTick(y),
                    L2!InWindow(x), L2!InWindow(y), L2!price_hash(x) = L2!price_hash(y), x < y
             PROVE  FALSE
  OBVIOUS
<1> DEFINE m == L2_MEM_SIZE
<1>1. m \in Nat \ {0} /\ m % 5 # 0 /\ price_base \in Nat
  BY WindowSize
<1> HIDE DEF m
<1>2. PICK a \in Nat, b \in Nat : x = 50 * a /\ y = 50 * b
  BY DEF L2!OnTick
<1>3. y - x <= 50 * (m - 1)
  BY <1>1 DEF L2!InWindow, L2!price_max, m
<1>4. b - a \in 1 .. m - 1
  BY <1>1, <1>2, <1>3
<1>5. (25 * a) % m = (25 * b) % m
  BY <1>2 DEF L2!price_hash, m
<1>6. PICK q1 \in Int : 25 * (b - a) = m * q1
  <2> DEFINE c == 25 * a  d == 25 * b
  <2>1. c \in Nat /\ d \in Nat /\ c % m = d % m
    BY <1>5
  <2> HIDE DEF c, d
  <2>2. c = m * (c \div m) + (c % m) /\ d = m * (d \div m) + (d % m) /\ c \div m \in Int /\ d \div m \in Int
    BY <1>1, <2>1
  <2>3. ASSUME NEW i \in Int, NEW j \in Int, NEW r \in Int, NEW n \in Int
        PROVE  (n * j + r) - (n * i + r) = n * (j - i)
    OBVIOUS
  <2>5. d - c = m * (d \div m - c \div m) /\ d \div m - c \div m \in Int
    BY <1>1, <2>1, <2>2, <2>3
  <2>4. d - c = 25 * (b - a)
    BY DEF c, d
  <2> QED BY <2>4, <2>5
<1>7. \A e \in 1 .. m - 1 : \A q2 \in Int : m * q2 # 25 * e
  <2>1. m \in Nat /\ m % 5 # 0
    BY <1>1
  <2> QED BY <2>1, WindowApart, Zenon
<1> QED BY <1>4, <1>6, <1>7

----------------------------------------------------------------------------
(* The levels of a book, and how the array and the side sets follow them.  *)

Levels(book, is_buy) == {p \in SidePrices(book, is_buy) : L2!InWindow(p)}

BothSides(p) == BOOLEAN \X {p}

OnTicks(book) == \A id \in DOMAIN book : L2!OnTick(book[id].price)

(* Array a and side sets b and o are what the orders of book add up to.    *)
Exact(book, a, b, o) ==
  /\ b = Levels(book, TRUE) /\ o = Levels(book, FALSE)
  /\ a \in [0 .. L2_MEM_SIZE - 1 -> Nat]
  /\ \A p \in b \cup o : a[L2!price_hash(p)] = Total(book, BothSides(p))
  /\ \A k \in 0 .. L2_MEM_SIZE - 1 : a[k] > 0 => \E p \in b \cup o : L2!price_hash(p) = k

(* A side has a level at a price if and only if it has shares there. *)
LEMMA LevelHasShares ==
  ASSUME NEW book, IsBook(book), NEW side \in BOOLEAN, NEW p
  PROVE  /\ p \in SidePrices(book, side) <=> At(book, {<<side, p>>}) # {}
         /\ p \in SidePrices(book, side) <=> Total(book, {<<side, p>>}) # 0
<1>1. p \in SidePrices(book, side) <=> At(book, {<<side, p>>}) # {}
  BY DEF SidePrices, OrdersOf, At
<1> QED BY <1>1, TotalFacts

LEMMA SideTypes ==
  ASSUME NEW book, IsBook(book), NEW side
  PROVE  SidePrices(book, side) \subseteq Prices
BY AtFacts DEF SidePrices, OrdersOf, L3Entry

(* Bids and offers of an uncrossed book share no price. *)
LEMMA ApartFacts ==
  ASSUME NEW book, IsBook(book), Uncrossed(book), NEW side \in BOOLEAN, NEW p,
         p \in SidePrices(book, side)
  PROVE  /\ p \notin SidePrices(book, ~side)
         /\ At(book, BothSides(p)) = At(book, {<<side, p>>})
         /\ Total(book, BothSides(p)) = Total(book, {<<side, p>>})
<1>1. p \in Nat
  BY SideTypes, PricesAssumption
<1>2. p \notin SidePrices(book, ~side)
  <2>1. ASSUME p \in SidePrices(book, TRUE), p \in SidePrices(book, FALSE) PROVE FALSE
    <3>1. p < p
      BY <2>1 DEF Uncrossed
    <3> QED BY <1>1, <3>1
  <2>2. CASE side = TRUE
    BY <2>1, <2>2
  <2>3. CASE side = FALSE
    BY <2>1, <2>3
  <2> QED BY <2>2, <2>3
<1>3. At(book, {<<~side, p>>}) = {}
  BY <1>2, LevelHasShares
<1>4. \A id \in DOMAIN book : book[id].is_buy \in BOOLEAN
  BY AtFacts DEF L3Entry
<1>5. At(book, BothSides(p)) = At(book, {<<side, p>>})
  <2>1. ASSUME NEW id \in At(book, BothSides(p)) PROVE id \in At(book, {<<side, p>>})
    <3>1. id \in DOMAIN book /\ book[id].is_buy \in BOOLEAN /\ book[id].price = p
      BY <1>4 DEF At, BothSides
    <3>2. <<book[id].is_buy, book[id].price>> # <<~side, p>>
      BY <1>3, <3>1 DEF At
    <3>3. book[id].is_buy # ~side
      BY <3>1, <3>2
    <3>4. book[id].is_buy = side
      BY <3>1, <3>3
    <3> QED BY <3>1, <3>4 DEF At
  <2>2. \A id \in At(book, {<<side, p>>}) : id \in At(book, BothSides(p))
    BY DEF At, BothSides
  <2> QED BY <2>1, <2>2
<1> QED BY <1>2, <1>5 DEF Total, Count

(* The orders at other prices are what they were. *)
LEMMA LevelsElsewhere ==
  ASSUME NEW book, IsBook(book), NEW after, NEW id, NEW msg \in DownstreamOrderMsg,
         Moves(book, after, id, msg)
  PROVE  /\ IsBook(after)
         /\ \A p : p # msg.price => Total(after, BothSides(p)) = Total(book, BothSides(p))
         /\ \A side \in BOOLEAN : \A p : (side # msg.is_buy \/ p # msg.price)
              => (p \in SidePrices(after, side) <=> p \in SidePrices(book, side))
<1>1. IsBook(after)
  BY EnteringFacts, LeavingFacts DEF Moves
<1>2. ASSUME NEW places, <<msg.is_buy, msg.price>> \notin places
      PROVE  Total(after, places) = Total(book, places)
  <2>1. Total(book, places) \in Nat
    BY TotalFacts
  <2>2. CASE Entering(book, after, id, msg)
    <3>1. Total(after, places) = Total(book, places)
                                   + Count(msg, places)
      BY <2>2, EnteringTotal
    <3> QED BY <1>2, <2>1, <3>1 DEF Count
  <2>3. CASE Leaving(book, after, id, msg)
    <3>1. Total(after, places) = Total(book, places)
                                   - Count(msg, places)
      BY <2>3, LeavingTotal
    <3> QED BY <1>2, <2>1, <3>1 DEF Count
  <2> QED BY <2>2, <2>3 DEF Moves
<1>3. ASSUME NEW p, p # msg.price PROVE Total(after, BothSides(p)) = Total(book, BothSides(p))
  <2>1. <<msg.is_buy, msg.price>> \notin BothSides(p)
    BY <1>3 DEF BothSides
  <2> QED BY <1>2, <2>1
<1>4. ASSUME NEW side \in BOOLEAN, NEW p, side # msg.is_buy \/ p # msg.price
      PROVE  p \in SidePrices(after, side) <=> p \in SidePrices(book, side)
  <2>1. <<msg.is_buy, msg.price>> \notin {<<side, p>>}
    <3>1. <<msg.is_buy, msg.price>> # <<side, p>>
      BY <1>4
    <3> QED BY <3>1
  <2>2. Total(after, {<<side, p>>}) = Total(book, {<<side, p>>})
    BY <1>2, <2>1
  <2> QED BY <1>1, <2>2, LevelHasShares
<1> QED BY <1>1, <1>3, <1>4

(* An order outside the window changes no level. *)
LEMMA ExactOutside ==
  ASSUME NEW book, IsBook(book), NEW a, NEW b, NEW o, Exact(book, a, b, o),
         NEW after, NEW id, NEW msg \in DownstreamOrderMsg,
         Moves(book, after, id, msg), ~L2!InWindow(msg.price)
  PROVE  Exact(after, a, b, o)
<1>1. /\ \A p : p # msg.price => Total(after, BothSides(p)) = Total(book, BothSides(p))
      /\ \A side \in BOOLEAN : \A p : (side # msg.is_buy \/ p # msg.price)
           => (p \in SidePrices(after, side) <=> p \in SidePrices(book, side))
  BY LevelsElsewhere
<1>2. \A side \in BOOLEAN : Levels(after, side) = Levels(book, side)
  BY <1>1 DEF Levels
<1>3. \A p \in b \cup o : p # msg.price
  BY DEF Exact, Levels
<1> QED BY <1>1, <1>2, <1>3 DEF Exact

(* The slot of a tick of the window holds the tick's shares, and none if   *)
(* the tick is no level.                                                   *)
LEMMA SlotHolds ==
  ASSUME NEW book, IsBook(book), OnTicks(book), NEW a, NEW b, NEW o, Exact(book, a, b, o),
         NEW p \in Prices, L2!OnTick(p), L2!InWindow(p)
  PROVE  /\ L2!price_hash(p) \in 0 .. L2_MEM_SIZE - 1
         /\ a[L2!price_hash(p)] = Total(book, BothSides(p))
         /\ \A q \in b \cup o : L2!price_hash(q) = L2!price_hash(p) => q = p
<1>1. p \in Nat /\ L2!price_hash(p) \in 0 .. L2_MEM_SIZE - 1
  BY PricesAssumption, HashRange
<1>2. ASSUME NEW q \in b \cup o
      PROVE  q \in Nat /\ L2!OnTick(q) /\ L2!InWindow(q)
  <2>1. PICK side \in BOOLEAN : q \in SidePrices(book, side) /\ L2!InWindow(q)
    BY DEF Exact, Levels
  <2>2. q \in Prices
    BY <2>1, SideTypes
  <2>3. L2!OnTick(q)
    BY <2>1 DEF SidePrices, OrdersOf, OnTicks
  <2> QED BY <2>1, <2>2, <2>3, PricesAssumption
<1>3. \A q \in b \cup o : L2!price_hash(q) = L2!price_hash(p) => q = p
  BY <1>1, <1>2, HashApart
<1>4. CASE p \in b \cup o
  BY <1>1, <1>3, <1>4 DEF Exact
<1>5. CASE p \notin b \cup o
  <2>1. a[L2!price_hash(p)] = 0
    <3>1. ~(a[L2!price_hash(p)] > 0)
      BY <1>1, <1>3, <1>5 DEF Exact
    <3>2. a[L2!price_hash(p)] \in Nat
      BY <1>1 DEF Exact
    <3> QED BY <3>1, <3>2
  <2>2. \A side \in BOOLEAN : p \notin SidePrices(book, side)
    BY <1>5 DEF Exact, Levels
  <2>3. At(book, BothSides(p)) = {}
    <3>1. \A id \in DOMAIN book : book[id].is_buy \in BOOLEAN
      BY AtFacts DEF L3Entry
    <3> QED BY <2>2, <3>1 DEF At, BothSides, SidePrices, OrdersOf
  <2>4. Total(book, BothSides(p)) = 0
    BY <2>3, TotalFacts
  <2> QED BY <1>1, <1>3, <2>1, <2>4
<1> QED BY <1>4, <1>5

(* An order that enters at a tick of the window. *)
LEMMA ExactEntering ==
  ASSUME NEW book, IsBook(book), OnTicks(book), NEW a, NEW b, NEW o, Exact(book, a, b, o),
         NEW after, NEW id, NEW msg \in DownstreamOrderMsg, Entering(book, after, id, msg),
         L2!OnTick(msg.price), L2!InWindow(msg.price)
  PROVE  Exact(after,
               [a EXCEPT ![L2!price_hash(msg.price)] = a[L2!price_hash(msg.price)] + msg.shares],
               IF msg.is_buy THEN b \cup {msg.price} ELSE b,
               IF msg.is_buy THEN o ELSE o \cup {msg.price})
<1> DEFINE p == msg.price
           h == L2!price_hash(p)
           a2 == [a EXCEPT ![h] = a[h] + msg.shares]
           b2 == IF msg.is_buy THEN b \cup {p} ELSE b
           o2 == IF msg.is_buy THEN o ELSE o \cup {p}
<1>1. p \in Prices /\ msg.is_buy \in BOOLEAN /\ msg.shares \in Nat \ {0}
  BY DEF DownstreamOrderMsg
<1>2. /\ h \in 0 .. L2_MEM_SIZE - 1 /\ a[h] = Total(book, BothSides(p))
      /\ \A q \in b \cup o : L2!price_hash(q) = h => q = p
  BY <1>1, SlotHolds
<1>3. /\ IsBook(after)
      /\ \A q : q # p => Total(after, BothSides(q)) = Total(book, BothSides(q))
      /\ \A side \in BOOLEAN : \A q : (side # msg.is_buy \/ q # p)
           => (q \in SidePrices(after, side) <=> q \in SidePrices(book, side))
  BY LevelsElsewhere DEF Moves
<1>4. Total(after, BothSides(p)) = a[h] + msg.shares
  <2>1. <<msg.is_buy, p>> \in BothSides(p)
    BY <1>1 DEF BothSides
  <2> QED BY <1>2, <2>1, EnteringTotal DEF Count
<1>5. p \in SidePrices(after, msg.is_buy)
  <2>1. id \in DOMAIN after /\ after[id] = Order(msg.is_buy, msg.shares, p)
    BY DEF Entering, Put
  <2> QED BY <2>1 DEF SidePrices, OrdersOf, Order
<1>6. a \in [0 .. L2_MEM_SIZE - 1 -> Nat] /\ b = Levels(book, TRUE) /\ o = Levels(book, FALSE)
  BY DEF Exact
<1>7. b2 = Levels(after, TRUE) /\ o2 = Levels(after, FALSE)
  <2>1. CASE msg.is_buy
    BY <1>1, <1>3, <1>5, <1>6, <2>1 DEF Levels
  <2>2. CASE ~msg.is_buy
    BY <1>1, <1>3, <1>5, <1>6, <2>2 DEF Levels
  <2> QED BY <2>1, <2>2
<1>8. a2 \in [0 .. L2_MEM_SIZE - 1 -> Nat] /\ a2[h] = a[h] + msg.shares
      /\ \A k \in 0 .. L2_MEM_SIZE - 1 : k # h => a2[k] = a[k]
  BY <1>1, <1>2, <1>6
<1>9. b2 \cup o2 = (b \cup o) \cup {p}
  BY <1>1
<1> HIDE DEF h, a2, b2, o2
<1>10. ASSUME NEW q \in b2 \cup o2 PROVE a2[L2!price_hash(q)] = Total(after, BothSides(q))
  <2>1. CASE q = p
    BY <1>4, <1>8, <2>1 DEF h
  <2>2. CASE q # p
    <3>1. q \in b \cup o /\ L2!price_hash(q) # h
      BY <1>2, <1>9, <2>2
    <3>2. L2!price_hash(q) \in 0 .. L2_MEM_SIZE - 1
      <4>1. q \in Prices
        BY <1>6, <3>1, SideTypes DEF Levels
      <4> QED BY <4>1, HashRange, PricesAssumption
    <3>3. a[L2!price_hash(q)] = Total(book, BothSides(q))
      BY <3>1 DEF Exact
    <3> QED BY <1>3, <1>8, <2>2, <3>1, <3>2, <3>3
  <2> QED BY <2>1, <2>2
<1>11. ASSUME NEW k \in 0 .. L2_MEM_SIZE - 1, a2[k] > 0
       PROVE  \E q \in b2 \cup o2 : L2!price_hash(q) = k
  <2>1. CASE k = h
    BY <1>9, <2>1 DEF h
  <2>2. CASE k # h
    BY <1>8, <1>9, <1>11, <2>2 DEF Exact
  <2> QED BY <2>1, <2>2
<1>12. Exact(after, a2, b2, o2)
  BY <1>7, <1>8, <1>10, <1>11 DEF Exact
<1> QED BY <1>12 DEF a2, b2, o2, h

(* An order at a tick of the window that loses shares, or leaves. *)
LEMMA ExactLeaving ==
  ASSUME NEW book, IsBook(book), OnTicks(book), Uncrossed(book),
         NEW a, NEW b, NEW o, Exact(book, a, b, o),
         NEW after, NEW id, NEW msg \in DownstreamOrderMsg, Leaving(book, after, id, msg),
         L2!OnTick(msg.price), L2!InWindow(msg.price), NEW total,
         total = a[L2!price_hash(msg.price)] - msg.shares
  PROVE  Exact(after,
               [a EXCEPT ![L2!price_hash(msg.price)] = total],
               IF ~msg.is_buy THEN b
               ELSE IF total = 0 THEN b \ {msg.price} ELSE b \cup {msg.price},
               IF msg.is_buy THEN o
               ELSE IF total = 0 THEN o \ {msg.price} ELSE o \cup {msg.price})
<1> DEFINE p == msg.price
           h == L2!price_hash(p)
           a2 == [a EXCEPT ![h] = total]
           b2 == IF ~msg.is_buy THEN b ELSE IF total = 0 THEN b \ {p} ELSE b \cup {p}
           o2 == IF msg.is_buy THEN o ELSE IF total = 0 THEN o \ {p} ELSE o \cup {p}
<1>1. p \in Prices /\ msg.is_buy \in BOOLEAN /\ msg.shares \in Nat \ {0}
  BY DEF DownstreamOrderMsg
<1>2. /\ h \in 0 .. L2_MEM_SIZE - 1 /\ a[h] = Total(book, BothSides(p))
      /\ \A q \in b \cup o : L2!price_hash(q) = h => q = p
  BY <1>1, SlotHolds
<1>3. /\ IsBook(after)
      /\ \A q : q # p => Total(after, BothSides(q)) = Total(book, BothSides(q))
      /\ \A side \in BOOLEAN : \A q : (side # msg.is_buy \/ q # p)
           => (q \in SidePrices(after, side) <=> q \in SidePrices(book, side))
  BY LevelsElsewhere DEF Moves
<1>4. /\ Total(after, BothSides(p)) = total
      /\ Total(after, {<<msg.is_buy, p>>}) = Total(book, {<<msg.is_buy, p>>}) - msg.shares
  <2>1. <<msg.is_buy, p>> \in BothSides(p)
    BY <1>1 DEF BothSides
  <2>2. /\ Count(msg, BothSides(p)) = msg.shares
        /\ Count(msg, {<<msg.is_buy, p>>}) = msg.shares
    BY <2>1 DEF Count
  <2> QED BY <1>2, <2>2, LeavingTotal
<1>5. p \in SidePrices(book, msg.is_buy) /\ p \notin SidePrices(book, ~msg.is_buy)
  <2>1. p \in SidePrices(book, msg.is_buy)
    BY DEF Leaving, SidePrices, OrdersOf
  <2> QED BY <1>1, <2>1, ApartFacts
<1>6. total \in Nat /\ (p \in SidePrices(after, msg.is_buy) <=> total # 0)
  <2>1. Total(book, BothSides(p)) = Total(book, {<<msg.is_buy, p>>})
    BY <1>1, <1>5, ApartFacts
  <2>2. total = Total(after, {<<msg.is_buy, p>>})
    BY <1>2, <1>4, <2>1
  <2>3. total \in Nat
    BY <1>3, <2>2, TotalFacts
  <2> QED BY <1>1, <1>3, <2>2, <2>3, LevelHasShares
<1>7. a \in [0 .. L2_MEM_SIZE - 1 -> Nat] /\ b = Levels(book, TRUE) /\ o = Levels(book, FALSE)
  BY DEF Exact
<1>8. b2 = Levels(after, TRUE) /\ o2 = Levels(after, FALSE)
  <2>1. CASE msg.is_buy
    BY <1>1, <1>3, <1>6, <1>7, <2>1 DEF Levels
  <2>2. CASE ~msg.is_buy
    BY <1>1, <1>3, <1>6, <1>7, <2>2 DEF Levels
  <2> QED BY <2>1, <2>2
<1>9. a2 \in [0 .. L2_MEM_SIZE - 1 -> Nat] /\ a2[h] = total
      /\ \A k \in 0 .. L2_MEM_SIZE - 1 : k # h => a2[k] = a[k]
  BY <1>2, <1>6, <1>7
<1>10. /\ \A q : q # p => (q \in b2 \cup o2 <=> q \in b \cup o)
       /\ total # 0 => p \in b2 \cup o2
       /\ p \in b2 \cup o2 => total # 0
  <2>1. p \notin (IF msg.is_buy THEN o ELSE b)
    BY <1>1, <1>5, <1>7 DEF Levels
  <2> QED BY <1>1, <2>1
<1> HIDE DEF h, a2, b2, o2
<1>11. ASSUME NEW q \in b2 \cup o2 PROVE a2[L2!price_hash(q)] = Total(after, BothSides(q))
  <2>1. CASE q = p
    BY <1>4, <1>9, <2>1 DEF h
  <2>2. CASE q # p
    <3>1. q \in b \cup o /\ L2!price_hash(q) # h
      BY <1>2, <1>10, <2>2
    <3>2. L2!price_hash(q) \in 0 .. L2_MEM_SIZE - 1
      <4>1. q \in Prices
        BY <1>7, <3>1, SideTypes DEF Levels
      <4> QED BY <4>1, HashRange, PricesAssumption
    <3>3. a[L2!price_hash(q)] = Total(book, BothSides(q))
      BY <3>1 DEF Exact
    <3> QED BY <1>3, <1>9, <2>2, <3>1, <3>2, <3>3
  <2> QED BY <2>1, <2>2
<1>12. ASSUME NEW k \in 0 .. L2_MEM_SIZE - 1, a2[k] > 0
       PROVE  \E q \in b2 \cup o2 : L2!price_hash(q) = k
  <2>1. CASE k = h
    BY <1>6, <1>9, <1>10, <1>12, <2>1 DEF h
  <2>2. CASE k # h
    <3>1. PICK q \in b \cup o : L2!price_hash(q) = k
      BY <1>9, <1>12, <2>2 DEF Exact
    <3> QED BY <1>10, <2>2, <3>1 DEF h
  <2> QED BY <2>1, <2>2
<1>13. Exact(after, a2, b2, o2)
  BY <1>8, <1>9, <1>11, <1>12 DEF Exact
<1> QED BY <1>13 DEF a2, b2, o2, h

----------------------------------------------------------------------------
(* From L3's orders to those at a tick. *)

Ticks(stored) == [id \in {i \in DOMAIN stored : L2!OnTick(stored[i].price)} |-> stored[id]]

LEMMA PricedTicks == Priced = Ticks(L3!Contents) /\ Priced' = Ticks(L3!Contents)'
BY DEF Priced, Ticks

LEMMA TicksFacts ==
  ASSUME NEW stored, IsBook(stored)
  PROVE  /\ IsBook(Ticks(stored)) /\ OnTicks(Ticks(stored))
         /\ Uncrossed(stored) => Uncrossed(Ticks(stored))
<1>1. /\ DOMAIN Ticks(stored) \subseteq DOMAIN stored
      /\ \A id \in DOMAIN Ticks(stored) : /\ Ticks(stored)[id] = stored[id]
                                          /\ L2!OnTick(stored[id].price)
  BY DEF Ticks
<1>2. IsDict(Ticks(stored), OrderIds, L3Entry)
  <2>1. Ticks(stored) = [id \in DOMAIN Ticks(stored) |-> Ticks(stored)[id]]
    BY DEF Ticks
  <2> QED BY <1>1, <2>1 DEF IsBook, IsDict
<1>3. IsBook(Ticks(stored))
  BY <1>1, <1>2, FS_Subset DEF IsBook
<1>4. OnTicks(Ticks(stored))
  BY <1>1 DEF OnTicks
<1>5. \A side : SidePrices(Ticks(stored), side) \subseteq SidePrices(stored, side)
  BY <1>1 DEF SidePrices, OrdersOf
<1> QED BY <1>3, <1>4, <1>5 DEF Uncrossed

LEMMA TicksMove ==
  ASSUME NEW stored, IsBook(stored), NEW after, NEW id, NEW msg \in DownstreamOrderMsg,
         Moves(stored, after, id, msg)
  PROVE  /\ L2!OnTick(msg.price) => Moves(Ticks(stored), Ticks(after), id, msg)
         /\ ~L2!OnTick(msg.price) => Ticks(after) = Ticks(stored)
<1>1. CASE Entering(stored, after, id, msg)
  <2> DEFINE new == Order(msg.is_buy, msg.shares, msg.price)
  <2>1. /\ BringsShares(msg) /\ id \in OrderIds /\ id \notin DOMAIN stored
        /\ after = Put(stored, id, new) /\ new.price = msg.price
    BY <1>1 DEF Entering, Order
  <2> HIDE DEF new
  <2>2. CASE L2!OnTick(msg.price)
    <3>1. Ticks(after) = Put(Ticks(stored), id, new)
      BY <2>1, <2>2 DEF Ticks, Put
    <3>2. id \notin DOMAIN Ticks(stored)
      BY <2>1 DEF Ticks
    <3> QED BY <2>1, <2>2, <3>1, <3>2 DEF Moves, Entering, new
  <2>3. CASE ~L2!OnTick(msg.price)
    BY <2>1, <2>3 DEF Ticks, Put
  <2> QED BY <2>2, <2>3
<1>2. CASE Leaving(stored, after, id, msg)
  <2> DEFINE left == Reduced(stored[id], msg.shares)
  <2>1. /\ ~BringsShares(msg) /\ id \in DOMAIN stored
        /\ stored[id].is_buy = msg.is_buy /\ stored[id].price = msg.price
        /\ msg.shares <= stored[id].shares
        /\ after = IF stored[id].shares = msg.shares THEN Drop(stored, id) ELSE Put(stored, id, left)
    BY <1>2 DEF Leaving
  <2>2. left.price = msg.price
    BY <2>1, AtFacts DEF Reduced, L3Entry
  <2> HIDE DEF left
  <2>3. CASE L2!OnTick(msg.price)
    <3>1. id \in DOMAIN Ticks(stored) /\ Ticks(stored)[id] = stored[id]
      BY <2>1, <2>3 DEF Ticks
    <3>2. CASE stored[id].shares = msg.shares
      <4>1. Ticks(after) = Drop(Ticks(stored), id)
        BY <2>1, <2>3, <3>2 DEF Ticks, Drop
      <4> QED BY <2>1, <2>3, <3>1, <3>2, <4>1 DEF Moves, Leaving
    <3>3. CASE stored[id].shares # msg.shares
      <4>1. Ticks(after) = Put(Ticks(stored), id, left)
        BY <2>1, <2>2, <2>3, <3>3 DEF Ticks, Put
      <4> QED BY <2>1, <2>3, <3>1, <3>3, <4>1 DEF Moves, Leaving, left
    <3> QED BY <3>2, <3>3
  <2>4. CASE ~L2!OnTick(msg.price)
    <3>1. CASE stored[id].shares = msg.shares
      BY <2>1, <2>4, <3>1 DEF Ticks, Drop
    <3>2. CASE stored[id].shares # msg.shares
      BY <2>1, <2>2, <2>4, <3>2 DEF Ticks, Put
    <3> QED BY <2>4, <3>1, <3>2
  <2> QED BY <2>3, <2>4
<1> QED BY <1>1, <1>2 DEF Moves

(* What L3 does with a message it accepts, and what it hands on. *)
LEMMA AcceptMoves ==
  ASSUME TableInv, NEW msg \in BookMsg, L3!Accept(msg)
  PROVE  /\ L3!LookupMsg(msg) \in DownstreamOrderMsg
         /\ Moves(L3!Contents, L3!Contents', msg.order_id, L3!LookupMsg(msg))
         /\ TableInv'
<1> DEFINE m == L3!LookupMsg(msg)
<1>1. /\ msg.msg_type \in {"ADD", "REDUCE", "DELETE", "REPLACE"} /\ msg.order_id \in OrderIds
      /\ msg.msg_type # "DELETE" => msg.shares \in Nat \ {0}
      /\ BringsShares(msg) => msg.price \in Prices
  BY MsgFacts
<1>2. CASE BringsShares(msg)
  <2>1. /\ TableInv' /\ L3!NewEntry(msg) \in L3Entry /\ msg.order_id \notin DOMAIN L3!Contents
        /\ L3!Contents' = Put(L3!Contents, msg.order_id, L3!NewEntry(msg))
        /\ m = [msg_type |-> msg.msg_type, is_buy |-> L3!NewEntry(msg).is_buy,
                shares |-> msg.shares, price |-> msg.price]
    BY <1>2, TableEnter
  <2>2. m \in DownstreamOrderMsg
    BY <1>1, <1>2, <2>1 DEF DownstreamOrderMsg, L3Entry, BringsShares
  <2>3. L3!NewEntry(msg) = Order(m.is_buy, m.shares, m.price)
    <3>1. L3!NewEntry(msg).shares = msg.shares /\ L3!NewEntry(msg).price = msg.price
      BY DEF L3!NewEntry
    <3> QED BY <2>1, <3>1 DEF Order, L3Entry
  <2>4. Entering(L3!Contents, L3!Contents', msg.order_id, m)
    <3>1. BringsShares(m)
      BY <1>2, <2>1 DEF BringsShares
    <3> HIDE DEF m
    <3> QED BY <1>1, <2>1, <2>3, <3>1 DEF Entering
  <2> HIDE DEF m
  <2> QED BY <2>1, <2>2, <2>4 DEF Moves, m
<1>3. CASE ~BringsShares(msg)
  <2>1. /\ msg.order_id \in DOMAIN L3!Contents /\ L3!Contents[msg.order_id] \in L3Entry
        /\ m.msg_type = msg.msg_type /\ m.is_buy = L3!Contents[msg.order_id].is_buy
        /\ m.price = L3!Contents[msg.order_id].price
        /\ m.shares = IF msg.msg_type = "REDUCE" THEN msg.shares ELSE L3!Contents[msg.order_id].shares
    BY <1>3, TableFound DEF L3!Accept
  <2>2. m = [msg_type |-> m.msg_type, is_buy |-> m.is_buy, shares |-> m.shares, price |-> m.price]
    BY DEF L3!LookupMsg
  <2> HIDE DEF m
  <2>3. m \in DownstreamOrderMsg /\ ~BringsShares(m)
    BY <1>1, <1>3, <2>1, <2>2 DEF DownstreamOrderMsg, L3Entry, BringsShares
  <2>4. TableInv' /\ Leaving(L3!Contents, L3!Contents', msg.order_id, m)
    <3>1. CASE msg.msg_type = "REDUCE"
      <4>1. /\ TableInv' /\ msg.shares <= L3!Contents[msg.order_id].shares
            /\ L3!Contents' = IF L3!Contents[msg.order_id].shares = msg.shares
                              THEN Drop(L3!Contents, msg.order_id)
                              ELSE Put(L3!Contents, msg.order_id,
                                       Reduced(L3!Contents[msg.order_id], msg.shares))
        BY <3>1, TableShrink
      <4> QED BY <2>1, <2>3, <3>1, <4>1 DEF Leaving
    <3>2. CASE msg.msg_type = "DELETE"
      <4>1. TableInv' /\ L3!Contents' = Drop(L3!Contents, msg.order_id)
        BY <3>2, TableLeave
      <4>2. m.shares = L3!Contents[msg.order_id].shares /\ m.shares \in Nat
        BY <2>1, <3>2 DEF L3Entry
      <4> QED BY <2>1, <2>3, <4>1, <4>2 DEF Leaving
    <3> QED BY <1>1, <1>3, <3>1, <3>2 DEF BringsShares
  <2> QED BY <2>3, <2>4 DEF Moves, m
<1> QED BY <1>2, <1>3

----------------------------------------------------------------------------
(* One message through L2. *)

LEMMA L2StatusFacts ==
  ASSUME NEW msg
  PROVE  /\ L2!Status(msg) = "off_tick" => ~L2!OnTick(msg.price)
         /\ L2!Status(msg) = "ignored" => L2!OnTick(msg.price) /\ ~L2!InWindow(msg.price)
         /\ L2!Status(msg) = "ok" => L2!OnTick(msg.price) /\ L2!InWindow(msg.price)
<1>1. "off_tick" # "ok" /\ "off_tick" # "ignored" /\ "off_tick" # "assert"
      /\ "ignored" # "ok" /\ "ignored" # "assert" /\ "assert" # "ok"
  OBVIOUS
<1> QED BY <1>1, Zenon DEF L2!Status

(* What L3's orders and L2 say of each other, when the book goes on. *)
LevelsInv == Exact(Priced, arr, bids, offs)

LEMMA StoredLevels ==
  ASSUME TableInv, IsFiniteSet(DOMAIN L3!Contents), Uncrossed(L3!Contents), LevelsInv,
         NEW msg \in BookMsg, Stored(msg)
  PROVE  LevelsInv'
<1> DEFINE m == L3!LookupMsg(msg)
           book == Priced
           after == Ticks(L3!Contents')
<1>1. L3!Accept(msg) /\ L2!Status(m) \in {"ok", "ignored"} /\ L2!ProcessMsg(m)
  BY DEF Stored
<1>2. m \in DownstreamOrderMsg /\ Moves(L3!Contents, L3!Contents', msg.order_id, m)
  BY <1>1, AcceptMoves
<1>3. IsBook(L3!Contents)
  BY TableContents DEF IsBook
<1>4. L2!OnTick(m.price)
  BY <1>1, L2StatusFacts
<1>5. /\ IsBook(book) /\ OnTicks(book) /\ Uncrossed(book)
      /\ Moves(book, after, msg.order_id, m)
  BY <1>2, <1>3, <1>4, TicksFacts, TicksMove, PricedTicks
<1>6. Exact(book, arr, bids, offs)
  BY DEF LevelsInv
<1>7. Exact(after, arr', bids', offs') => LevelsInv'
  BY PricedTicks DEF LevelsInv, Exact, Levels
<1> HIDE DEF book, after
<1>8. CASE L2!Status(m) = "ignored"
  <2>1. ~L2!InWindow(m.price)
    BY <1>8, L2StatusFacts
  <2>2. arr' = arr /\ bids' = bids /\ offs' = offs
    BY <1>1, <1>8 DEF L2!ProcessMsg, L2!l2_vars
  <2>3. Exact(after, arr, bids, offs)
    <3> HIDE DEF m
    <3> QED BY <1>2, <1>5, <1>6, <2>1, ExactOutside
  <2> QED BY <1>7, <2>2, <2>3
<1>9. CASE L2!Status(m) = "ok"
  <2>1. L2!InWindow(m.price)
    BY <1>9, L2StatusFacts
  <2>2. L2!Account(m)
    BY <1>1, <1>9 DEF L2!ProcessMsg
  <2> HIDE DEF m
  <2>3. L2!BringsShares(m) = BringsShares(m)
    BY DEF L2!BringsShares, BringsShares
  <2>4. CASE Entering(book, after, msg.order_id, m)
    <3>1. BringsShares(m)
      BY <2>4 DEF Entering
    <3>2. /\ arr' = [arr EXCEPT ![L2!price_hash(m.price)] = arr[L2!price_hash(m.price)] + m.shares]
          /\ bids' = IF m.is_buy THEN bids \cup {m.price} ELSE bids
          /\ offs' = IF m.is_buy THEN offs ELSE offs \cup {m.price}
      BY <2>2, <2>3, <3>1 DEF L2!Account, L2!SharesAt
    <3> QED BY <1>2, <1>4, <1>5, <1>6, <1>7, <2>1, <2>4, <3>2, ExactEntering
  <2>5. CASE Leaving(book, after, msg.order_id, m)
    <3> DEFINE total == arr[L2!price_hash(m.price)] - m.shares
    <3>1. ~BringsShares(m)
      BY <2>5 DEF Leaving
    <3>2. arr[L2!price_hash(m.price)] \in Int /\ m.shares \in Int
      <4>1. m.price \in Prices /\ m.shares \in Nat \ {0}
        BY <1>2 DEF DownstreamOrderMsg
      <4>2. arr \in [0 .. L2_MEM_SIZE - 1 -> Nat]
        BY <1>6 DEF Exact
      <4>3. L2!price_hash(m.price) \in 0 .. L2_MEM_SIZE - 1
        BY <4>1, PricesAssumption, HashRange
      <4> QED BY <4>1, <4>2, <4>3
    <3>3. total = arr[L2!price_hash(m.price)] + -m.shares
      BY <3>2
    <3>4. /\ arr' = [arr EXCEPT ![L2!price_hash(m.price)] = total]
          /\ bids' = IF ~m.is_buy THEN bids
                     ELSE IF total = 0 THEN bids \ {m.price} ELSE bids \cup {m.price}
          /\ offs' = IF m.is_buy THEN offs
                     ELSE IF total = 0 THEN offs \ {m.price} ELSE offs \cup {m.price}
      BY <2>2, <2>3, <3>1, <3>3 DEF L2!Account, L2!SharesAt
    <3> QED BY <1>2, <1>4, <1>5, <1>6, <1>7, <2>1, <2>5, <3>4, ExactLeaving
  <2> QED BY <1>5, <2>4, <2>5 DEF Moves
<1> QED BY <1>1, <1>8, <1>9

(* A message of an uncrossed market leaves L2 what its orders add up to,   *)
(* whatever becomes of it.                                                 *)
LEMMA MessageLevels ==
  ASSUME TableInv, IsFiniteSet(DOMAIN L3!Contents), Uncrossed(L3!Contents), LevelsInv,
         NEW msg \in BookMsg, Handle(msg)
  PROVE  /\ arr' \in [0 .. L2_MEM_SIZE - 1 -> Nat]
         /\ ~Stopped' => LevelsInv'
<1>1. arr \in [0 .. L2_MEM_SIZE - 1 -> Nat]
  BY DEF LevelsInv, Exact
<1>2. ASSUME UNCHANGED <<arr, bids, offs>>, Priced' = Priced
      PROVE  LevelsInv'
  BY <1>2 DEF LevelsInv, Exact, Levels
<1>3. CASE L3Error(msg) \/ L3Raised(msg)
  <2>1. L3!Refuse(msg) /\ UNCHANGED <<arr, bids, offs>>
    BY <1>3 DEF L3Error, L3Raised, l2_vars
  <2>2. Priced' = Priced
    BY <2>1, TableRefuse, PricedTicks
  <2> QED BY <1>1, <1>2, <2>1, <2>2
<1>4. CASE L2Error(msg)
  <2> DEFINE m == L3!LookupMsg(msg)
  <2>1. L3!Accept(msg) /\ L2!Status(m) = "off_tick" /\ L2!ProcessMsg(m)
    BY <1>4 DEF L2Error
  <2>2. ~L2!OnTick(m.price)
    BY <2>1, L2StatusFacts
  <2>3. UNCHANGED <<arr, bids, offs>>
    BY <2>1 DEF L2!ProcessMsg, L2!l2_vars
  <2>4. Priced' = Priced
    <3>1. IsBook(L3!Contents)
      BY TableContents DEF IsBook
    <3>2. m \in DownstreamOrderMsg /\ Moves(L3!Contents, L3!Contents', msg.order_id, m)
      BY <2>1, AcceptMoves
    <3> HIDE DEF m
    <3>3. Ticks(L3!Contents') = Ticks(L3!Contents)
      BY <2>2, <3>1, <3>2, TicksMove
    <3> QED BY <3>3, PricedTicks
  <2> QED BY <1>1, <1>2, <2>3, <2>4
<1>5. CASE L2Raised(msg)
  <2>1. arr' = arr /\ Stopped'
    BY <1>5 DEF L2Raised, l2_vars, Stopped, Exception, Result
  <2> QED BY <1>1, <2>1
<1>6. CASE ReachesBBO(msg)
  <2>1. LevelsInv'
    BY <1>6, StoredLevels DEF ReachesBBO
  <2> QED BY <2>1 DEF LevelsInv, Exact
<1> QED BY <1>3, <1>4, <1>5, <1>6 DEF Handle, ProcessMsg

----------------------------------------------------------------------------
(* The exchange's side. *)

(* Neither the live orders cross, nor would they with the second half of a *)
(* 'U' message among them.                                                 *)
MarketInv ==
  /\ IsFiniteSet(DOMAIN live)
  /\ Uncrossed(live)
  /\ ~Between => Uncrossed(Put(live, pending.msg.order_id, pending.order))

LevelInv ==
  /\ FollowInv /\ MarketInv
  /\ arr \in [0 .. L2_MEM_SIZE - 1 -> Nat]
  /\ ~Stopped => LevelsInv

(* Orders that leave, or lose shares, cross nothing. *)
LEMMA UncrossedPart ==
  ASSUME NEW book, Uncrossed(book), NEW part,
         \A id \in DOMAIN part : /\ id \in DOMAIN book
                                 /\ part[id].is_buy = book[id].is_buy
                                 /\ part[id].price = book[id].price
  PROVE  Uncrossed(part)
<1>1. \A side : SidePrices(part, side) \subseteq SidePrices(book, side)
  BY DEF SidePrices, OrdersOf
<1> QED BY <1>1 DEF Uncrossed

(* What L3 holds is part of the live orders. *)
LEMMA StoredPart ==
  ASSUME FollowInv, MarketInv, ~Stopped
  PROVE  /\ TableInv /\ IsFiniteSet(DOMAIN L3!Contents) /\ Uncrossed(L3!Contents)
<1>1. /\ TableInv /\ L3!Contents = Known /\ DOMAIN L3!Contents = DOMAIN live \ missed
      /\ \A id \in DOMAIN L3!Contents : L3!Contents[id] = live[id]
  BY KnownFacts
<1>2. Uncrossed(L3!Contents)
  BY <1>1, UncrossedPart DEF MarketInv
<1>3. IsFiniteSet(DOMAIN L3!Contents)
  BY <1>1, FS_Difference DEF MarketInv
<1> QED BY <1>1, <1>2, <1>3

LEMMA HandleLevels ==
  ASSUME LevelInv, NEW msg \in BookMsg, Handle(msg)
  PROVE  /\ arr' \in [0 .. L2_MEM_SIZE - 1 -> Nat]
         /\ ~Stopped' => LevelsInv'
<1>1. ~Stopped
  BY HandleFacts
<1> QED BY <1>1, StoredPart, MessageLevels DEF LevelInv

LEMMA InitLevels == Init => LevelInv
<1> SUFFICES ASSUME Init PROVE LevelInv
  OBVIOUS
<1>1. FollowInv
  BY InitFollow
<1>2. live = EmptyDict /\ pending = NoMsg /\ L3!InitMemory /\ L2!InitL2
  BY DEF Init, InitBook, L3!InitL3
<1>3. DOMAIN EmptyDict = {}
  BY DEF EmptyDict
<1>4. MarketInv
  BY <1>2, <1>3, FS_EmptySet DEF MarketInv, Between, Uncrossed, SidePrices, OrdersOf
<1>5. arr = [k \in 0 .. L2_MEM_SIZE - 1 |-> 0] /\ bids = {} /\ offs = {}
  BY <1>2 DEF L2!InitL2
<1>6. DOMAIN Priced = {}
  BY <1>2, <1>3, TableEmpty DEF Priced
<1>7. LevelsInv
  <2>1. Levels(Priced, TRUE) = {} /\ Levels(Priced, FALSE) = {}
    BY <1>6 DEF Levels, SidePrices, OrdersOf
  <2>2. \A k \in 0 .. L2_MEM_SIZE - 1 : arr[k] \in Nat /\ ~(arr[k] > 0)
    BY <1>5
  <2>3. arr \in [0 .. L2_MEM_SIZE - 1 -> Nat]
    BY <1>5
  <2> QED BY <1>5, <2>1, <2>2, <2>3 DEF LevelsInv, Exact
<1> QED BY <1>1, <1>4, <1>7 DEF LevelInv, LevelsInv, Exact

(* The market stays uncrossed, with and without the second half of a 'U'   *)
(* message.                                                                *)
LEMMA NextMarket ==
  ASSUME FollowInv, MarketInv, Next
  PROVE  MarketInv'
<1>1. CASE NewOrder
  <2>1. PICK msg \in AddOrderMsg :
          /\ live' = Put(live, msg.order_id, Order(msg.is_buy, msg.shares, msg.price))
          /\ Uncrossed(live')
    BY <1>1 DEF NewOrder
  <2>2. IsFiniteSet(DOMAIN live')
    BY <2>1, FS_AddElement DEF MarketInv, Put
  <2> QED BY <1>1, <2>1, <2>2 DEF NewOrder, MarketInv, Between
<1>2. CASE ReduceOrder
  <2>1. PICK msg \in ReduceOrderMsg :
          /\ msg.order_id \in DOMAIN live
          /\ live' = IF live[msg.order_id].shares = msg.shares
                     THEN Drop(live, msg.order_id)
                     ELSE Put(live, msg.order_id, Reduced(live[msg.order_id], msg.shares))
    BY <1>2 DEF ReduceOrder, Reduced
  <2> DEFINE left == Reduced(live[msg.order_id], msg.shares)
  <2>2. left.is_buy = live[msg.order_id].is_buy /\ left.price = live[msg.order_id].price
    <3>1. live[msg.order_id] \in L3Entry
      BY <2>1 DEF FollowInv, FollowType, IsDict
    <3> QED BY <3>1 DEF Reduced, L3Entry
  <2> HIDE DEF left
  <2>3. /\ DOMAIN live' \subseteq DOMAIN live
        /\ \A id \in DOMAIN live' : live'[id].is_buy = live[id].is_buy /\ live'[id].price = live[id].price
    <3>1. CASE live' = Drop(live, msg.order_id)
      BY <3>1 DEF Drop
    <3>2. CASE live' = Put(live, msg.order_id, left)
      BY <2>1, <2>2, <3>2 DEF Put
    <3> QED BY <2>1, <3>1, <3>2 DEF left
  <2>4. Uncrossed(live') /\ IsFiniteSet(DOMAIN live')
    BY <2>3, UncrossedPart, FS_Subset DEF MarketInv
  <2> QED BY <1>2, <2>4 DEF ReduceOrder, MarketInv, Between
<1>3. CASE DeleteOrder
  <2>1. PICK msg \in DeleteOrderMsg : live' = Drop(live, msg.order_id)
    BY <1>3 DEF DeleteOrder
  <2>2. DOMAIN live' \subseteq DOMAIN live /\ \A id \in DOMAIN live' : live'[id] = live[id]
    BY <2>1 DEF Drop
  <2>3. Uncrossed(live') /\ IsFiniteSet(DOMAIN live')
    BY <2>2, UncrossedPart, FS_Subset DEF MarketInv
  <2> QED BY <1>3, <2>3 DEF DeleteOrder, MarketInv, Between
<1>4. CASE ReplaceOrder
  <2> DEFINE rest(id) == Drop(live, id)
             new(id, msg) == Order(live[id].is_buy, msg.shares, msg.price)
             all(id, msg) == Put(rest(id), msg.order_id, new(id, msg))
  <2>1. PICK id \in DOMAIN live, msg \in ReplaceOrderMsg :
          /\ Uncrossed(all(id, msg))
          /\ \/ pending' = [msg |-> msg, order |-> new(id, msg)] /\ live' = rest(id)
             \/ pending' = NoMsg /\ live' = all(id, msg)
    BY <1>4 DEF ReplaceOrder
  <2>2. /\ DOMAIN rest(id) \subseteq DOMAIN live /\ \A x \in DOMAIN rest(id) : rest(id)[x] = live[x]
        /\ DOMAIN all(id, msg) = DOMAIN rest(id) \cup {msg.order_id}
    BY DEF Drop, Put
  <2>3. Uncrossed(rest(id)) /\ IsFiniteSet(DOMAIN rest(id)) /\ IsFiniteSet(DOMAIN all(id, msg))
    <3> HIDE DEF rest, all
    <3>1. Uncrossed(rest(id))
      BY <2>2, UncrossedPart DEF MarketInv
    <3>2. IsFiniteSet(DOMAIN rest(id))
      BY <2>2, FS_Subset DEF MarketInv
    <3> QED BY <2>2, <3>1, <3>2, FS_AddElement
  <2>4. CASE pending' = [msg |-> msg, order |-> new(id, msg)] /\ live' = rest(id)
    <3>1. Put(live', pending'.msg.order_id, pending'.order) = all(id, msg)
      BY <2>4
    <3> HIDE DEF rest, all
    <3> QED BY <2>1, <2>3, <2>4, <3>1 DEF MarketInv
  <2>5. CASE pending' = NoMsg /\ live' = all(id, msg)
    <3> HIDE DEF rest, all
    <3> QED BY <2>1, <2>3, <2>5 DEF MarketInv, Between
  <2> QED BY <2>1, <2>4, <2>5
<1>5. CASE ReplaceHalf
  <2>1. /\ live' = Put(live, pending.msg.order_id, pending.order)
        /\ ~Between /\ pending' = NoMsg
    BY <1>5 DEF ReplaceHalf
  <2>2. IsFiniteSet(DOMAIN live')
    BY <2>1, FS_AddElement DEF MarketInv, Put
  <2> QED BY <2>1, <2>2 DEF MarketInv, Between
<1>6. CASE BadMsg
  BY <1>6 DEF BadMsg, MarketInv, Between
<1> QED BY <1>1, <1>2, <1>3, <1>4, <1>5, <1>6 DEF Next

(* Every step but a stutter is one message handled. *)
LEMMA NextHandles ==
  ASSUME FollowInv, Next
  PROVE  \E msg \in BookMsg : Handle(msg)
<1>1. CASE NewOrder
  BY <1>1 DEF NewOrder, Enter, BookMsg
<1>2. CASE ReduceOrder
  BY <1>2 DEF ReduceOrder, BookMsg
<1>3. CASE DeleteOrder
  BY <1>3 DEF DeleteOrder, BookMsg
<1>4. CASE ReplaceOrder
  <2>1. PICK id \in DOMAIN live : Handle([msg_type |-> "DELETE", order_id |-> id])
    BY <1>4 DEF ReplaceOrder
  <2>2. id \in OrderIds
    BY DEF FollowInv, FollowType, IsDict
  <2>3. [msg_type |-> "DELETE", order_id |-> id] \in BookMsg
    BY <2>2 DEF BookMsg, DeleteOrderMsg
  <2> QED BY <2>1, <2>3
<1>5. CASE ReplaceHalf
  <2>1. pending \in Halves /\ Handle(pending.msg)
    BY <1>5 DEF ReplaceHalf, Enter, FollowInv, FollowType, Between
  <2>2. pending.msg \in BookMsg
    BY <2>1 DEF Halves, BookMsg
  <2> QED BY <2>1, <2>2
<1>6. CASE BadMsg
  BY <1>6 DEF BadMsg, BookMsg
<1> QED BY <1>1, <1>2, <1>3, <1>4, <1>5, <1>6 DEF Next

LEMMA NextLevels == LevelInv /\ [Next]_vars => LevelInv'
<1> SUFFICES ASSUME LevelInv, [Next]_vars PROVE LevelInv'
  OBVIOUS
<1>1. FollowInv'
  BY NextFollows DEF LevelInv
<1>2. CASE Next
  <2>1. MarketInv'
    BY <1>2, NextMarket DEF LevelInv
  <2>2. PICK msg \in BookMsg : Handle(msg)
    BY <1>2, NextHandles DEF LevelInv
  <2> QED BY <1>1, <2>1, <2>2, HandleLevels DEF LevelInv
<1>3. CASE UNCHANGED vars
  <2>1. UNCHANGED <<live, pending, result, arr, bids, offs, ram, cam>>
    BY <1>3 DEF vars
  <2>2. Priced' = Priced
    BY <2>1 DEF Priced, L3!Contents, L3!Stored, L3!Contains, L3!GetItem, L3!line
  <2>3. MarketInv' /\ Stopped' = Stopped
    BY <2>1 DEF LevelInv, MarketInv, Between, Stopped
  <2>4. LevelsInv => LevelsInv'
    BY <2>1, <2>2 DEF LevelsInv, Exact, Levels
  <2> QED BY <1>1, <2>1, <2>3, <2>4 DEF LevelInv
<1> QED BY <1>2, <1>3

THEOREM LevelInvHolds == Spec => []LevelInv
BY InitLevels, NextLevels, PTL DEF Spec

(* After every message L2's side sets name exactly the prices in the       *)
(* window at which L3 holds orders, and its array their shares, no slot    *)
(* serving two prices, whatever BBO answered (book.py:63-66, the first     *)
(* part of assert_consistent_state).                                       *)
THEOREM L2Aggregates == Spec => []L2AggregatesL3
<1>1. LevelInv => L2AggregatesL3
  <2> SUFFICES ASSUME LevelInv, ~Stopped PROVE L2AggregatesL3
    BY DEF L2AggregatesL3
  <2>1. Exact(Priced, arr, bids, offs)
    BY DEF LevelInv, LevelsInv
  <2>2. IsBook(Priced)
    <3>1. IsBook(L3!Contents)
      BY StoredPart, TableContents DEF LevelInv, IsBook
    <3> QED BY <3>1, PricedTicks, TicksFacts
  <2>3. ASSUME NEW p
        PROVE  At(Priced, BothSides(p)) = {id \in DOMAIN Priced : Priced[id].price = p}
    <3>1. \A id \in DOMAIN Priced : Priced[id].is_buy \in BOOLEAN
      BY <2>2, AtFacts DEF L3Entry
    <3> QED BY <3>1 DEF At, BothSides
  <2>4. \A p \in bids \cup offs :
          L2!SharesAt(p) = SharesOf(Priced, {id \in DOMAIN Priced : Priced[id].price = p})
    BY <2>1, <2>3 DEF Exact, Total, L2!SharesAt
  <2>5. DOMAIN arr = 0 .. L2_MEM_SIZE - 1
    BY <2>1 DEF Exact
  <2> QED BY <2>1, <2>4, <2>5 DEF L2AggregatesL3, Exact, Levels
<1> QED BY <1>1, LevelInvHolds, PTL

----------------------------------------------------------------------------
(* One half of the registers: whatever a message does to the orders of a   *)
(* side, the half that handles it follows, and the level L2 supplies is    *)
(* the one that has to enter.                                              *)

(* Two parts of a sequence, element by element. *)
LEMMA Joined ==
  ASSUME NEW S, NEW a \in Seq(S), NEW b \in Seq(S), NEW c, c = a \o b
  PROVE  /\ c \in Seq(S) /\ Len(c) = Len(a) + Len(b)
         /\ \A k \in 1 .. Len(a) : c[k] = a[k]
         /\ \A k \in 1 .. Len(b) : c[Len(a) + k] = b[k]
<1>1. /\ c \in Seq(S) /\ Len(c) = Len(a) + Len(b)
      /\ \A i \in 1 .. Len(a) + Len(b) : c[i] = IF i <= Len(a) THEN a[i] ELSE b[i - Len(a)]
  BY ConcatProperties
<1>2. \A k \in 1 .. Len(a) : c[k] = a[k]
  BY <1>1
<1>3. ASSUME NEW k \in 1 .. Len(b) PROVE c[Len(a) + k] = b[k]
  <2>1. Len(a) \in Nat /\ Len(b) \in Nat
    OBVIOUS
  <2>2. Len(a) + k \in 1 .. Len(a) + Len(b) /\ ~(Len(a) + k <= Len(a)) /\ (Len(a) + k) - Len(a) = k
    BY <2>1
  <2> QED BY <1>1, <2>2
<1> QED BY <1>1, <1>2, <1>3

LEMMA InsertAtFacts ==
  ASSUME NEW S, NEW s \in Seq(S), NEW i \in 1 .. Len(s), NEW e \in S
  PROVE  /\ BBO!InsertAt(s, i, e) \in Seq(S)
         /\ Len(BBO!InsertAt(s, i, e)) = Len(s) + 1
         /\ \A k \in 1 .. Len(s) + 1 :
              BBO!InsertAt(s, i, e)[k] = IF k < i THEN s[k] ELSE IF k = i THEN e ELSE s[k - 1]
<1> DEFINE a == SubSeq(s, 1, i - 1)
           b == <<e>>
           c == SubSeq(s, i, Len(s))
<1>1. /\ a \in Seq(S) /\ Len(a) = i - 1
      /\ \A k \in 1 .. i - 1 : a[k] = s[k]
  BY SubSeqProperties
<1>2. b \in Seq(S) /\ Len(b) = 1 /\ b[1] = e
  OBVIOUS
<1>3. /\ c \in Seq(S) /\ Len(c) = Len(s) - i + 1
      /\ \A k \in 1 .. Len(s) - i + 1 : c[k] = s[i + k - 1]
  BY SubSeqProperties
<1>4. BBO!InsertAt(s, i, e) = (a \o b) \o c
  BY DEF BBO!InsertAt
<1> HIDE DEF a, b, c
<1> DEFINE ab == a \o b
<1>5. /\ ab \in Seq(S) /\ Len(ab) = i
      /\ \A k \in 1 .. i : ab[k] = IF k < i THEN s[k] ELSE e
  <2>1. /\ ab \in Seq(S) /\ Len(ab) = Len(a) + Len(b)
        /\ \A k \in 1 .. Len(a) : ab[k] = a[k]
        /\ \A k \in 1 .. Len(b) : ab[Len(a) + k] = b[k]
    <3>1. a \in Seq(S) /\ b \in Seq(S) /\ ab = a \o b
      BY <1>1, <1>2
    <3> HIDE DEF ab
    <3> QED BY <3>1, Joined
  <2> HIDE DEF ab
  <2>2. ab[i] = e
    BY <1>1, <1>2, <2>1
  <2> QED BY <1>1, <1>2, <2>1, <2>2
<1> HIDE DEF ab
<1> DEFINE r == ab \o c
<1>6. /\ r \in Seq(S) /\ Len(r) = Len(ab) + Len(c)
      /\ \A k \in 1 .. Len(ab) : r[k] = ab[k]
      /\ \A k \in 1 .. Len(c) : r[Len(ab) + k] = c[k]
  <2>1. ab \in Seq(S) /\ c \in Seq(S) /\ r = ab \o c
    BY <1>3, <1>5
  <2> HIDE DEF r
  <2> QED BY <2>1, Joined
<1> HIDE DEF r
<1>7. ASSUME NEW k \in 1 .. Len(s) + 1
      PROVE  r[k] = IF k < i THEN s[k] ELSE IF k = i THEN e ELSE s[k - 1]
  <2>1. CASE k <= i
    BY <1>5, <1>6, <2>1
  <2>2. CASE k > i
    <3>1. k - i \in 1 .. Len(c) /\ Len(ab) + (k - i) = k
      BY <1>3, <1>5, <2>2
    <3>2. r[k] = c[k - i]
      BY <1>6, <3>1
    <3> QED BY <1>3, <2>2, <3>1, <3>2
  <2> QED BY <2>1, <2>2
<1>8. r \in Seq(S) /\ Len(r) = Len(s) + 1
  BY <1>3, <1>5, <1>6
<1> QED BY <1>4, <1>7, <1>8 DEF r, ab

LEMMA RemoveAtFacts ==
  ASSUME NEW S, NEW s \in Seq(S), NEW i \in 1 .. Len(s)
  PROVE  /\ BBO!RemoveAt(s, i) \in Seq(S)
         /\ Len(BBO!RemoveAt(s, i)) = Len(s) - 1
         /\ \A k \in 1 .. Len(s) - 1 :
              BBO!RemoveAt(s, i)[k] = IF k < i THEN s[k] ELSE s[k + 1]
<1> DEFINE a == SubSeq(s, 1, i - 1)
           c == SubSeq(s, i + 1, Len(s))
<1>1. /\ a \in Seq(S) /\ Len(a) = i - 1
      /\ \A k \in 1 .. i - 1 : a[k] = s[k]
  BY SubSeqProperties
<1>2. /\ c \in Seq(S) /\ Len(c) = Len(s) - i
      /\ \A k \in 1 .. Len(s) - i : c[k] = s[i + k]
  <2>1. \A k \in i + 1 .. Len(s) : s[k] \in S
    OBVIOUS
  <2>2. /\ c \in Seq(S) /\ Len(c) = IF i + 1 <= Len(s) THEN Len(s) - (i + 1) + 1 ELSE 0
        /\ \A k \in 1 .. Len(s) - (i + 1) + 1 : c[k] = s[(i + 1) + k - 1]
    BY <2>1, SubSeqProperties
  <2> HIDE DEF c
  <2> QED BY <2>2
<1>3. BBO!RemoveAt(s, i) = a \o c
  BY DEF BBO!RemoveAt
<1> HIDE DEF a, c
<1> DEFINE r == a \o c
<1>4. /\ r \in Seq(S) /\ Len(r) = Len(a) + Len(c)
      /\ \A k \in 1 .. Len(a) : r[k] = a[k]
      /\ \A k \in 1 .. Len(c) : r[Len(a) + k] = c[k]
  <2>1. a \in Seq(S) /\ c \in Seq(S) /\ r = a \o c
    BY <1>1, <1>2
  <2> HIDE DEF r
  <2> QED BY <2>1, Joined
<1> HIDE DEF r
<1>5. ASSUME NEW k \in 1 .. Len(s) - 1 PROVE r[k] = IF k < i THEN s[k] ELSE s[k + 1]
  <2>1. CASE k < i
    BY <1>1, <1>4, <2>1
  <2>2. CASE k >= i
    <3>1. k - (i - 1) \in 1 .. Len(c) /\ Len(a) + (k - (i - 1)) = k
      BY <1>1, <1>2, <2>2
    <3>2. r[k] = c[k - (i - 1)]
      BY <1>4, <3>1
    <3>3. i + (k - (i - 1)) = k + 1
      OBVIOUS
    <3> QED BY <1>2, <2>2, <3>1, <3>2, <3>3
  <2> QED BY <2>1, <2>2
<1>6. r \in Seq(S) /\ Len(r) = Len(s) - 1
  BY <1>1, <1>2, <1>4
<1> QED BY <1>3, <1>5, <1>6 DEF r

LEMMA FrontFacts ==
  ASSUME NEW S, NEW s \in Seq(S), Len(s) > 0
  PROVE  /\ BBO!Front(s) \in Seq(S)
         /\ Len(BBO!Front(s)) = Len(s) - 1
         /\ \A k \in 1 .. Len(s) - 1 : BBO!Front(s)[k] = s[k]
<1> DEFINE f == SubSeq(s, 1, Len(s) - 1)
<1>1. \A k \in 1 .. Len(s) - 1 : s[k] \in S
  OBVIOUS
<1>2. /\ f \in Seq(S) /\ Len(f) = IF 1 <= Len(s) - 1 THEN (Len(s) - 1) - 1 + 1 ELSE 0
      /\ \A k \in 1 .. (Len(s) - 1) - 1 + 1 : f[k] = s[1 + k - 1]
  BY <1>1, SubSeqProperties
<1>3. BBO!Front(s) = f
  BY DEF BBO!Front
<1> HIDE DEF f
<1> QED BY <1>2, <1>3

----------------------------------------------------------------------------
(* Shares a message moves, at a place and elsewhere. *)

Signed(msg) == IF BringsShares(msg) THEN msg.shares ELSE -msg.shares

LEMMA TotalHere ==
  ASSUME NEW book, IsBook(book), NEW after, NEW id, NEW msg \in DownstreamOrderMsg,
         Moves(book, after, id, msg), NEW places, <<msg.is_buy, msg.price>> \in places
  PROVE  Total(after, places) = Total(book, places) + Signed(msg)
<1>1. Total(book, places) \in Nat /\ msg.shares \in Nat
  BY TotalFacts DEF DownstreamOrderMsg
<1>2. Count(msg, places) = msg.shares
  BY DEF Count
<1>3. CASE Entering(book, after, id, msg)
  <2>1. Total(after, places) = Total(book, places) + Count(msg, places)
    BY <1>3, EnteringTotal
  <2> QED BY <1>2, <1>3, <2>1 DEF Entering, Signed
<1>4. CASE Leaving(book, after, id, msg)
  <2>1. Total(after, places) = Total(book, places) - Count(msg, places)
    BY <1>4, LeavingTotal
  <2> QED BY <1>1, <1>2, <1>4, <2>1 DEF Leaving, Signed
<1> QED BY <1>3, <1>4 DEF Moves

LEMMA LevelHere ==
  ASSUME NEW book, IsBook(book), NEW after, NEW id, NEW msg \in DownstreamOrderMsg,
         Moves(book, after, id, msg)
  PROVE  Total(after, {<<msg.is_buy, msg.price>>})
           = Total(book, {<<msg.is_buy, msg.price>>}) + Signed(msg)
<1> DEFINE here == {<<msg.is_buy, msg.price>>}
<1>1. <<msg.is_buy, msg.price>> \in here
  OBVIOUS
<1> HIDE DEF here
<1>2. Total(after, here) = Total(book, here) + Signed(msg)
  BY <1>1, TotalHere
<1> QED BY <1>2 DEF here

LEMMA TotalElsewhere ==
  ASSUME NEW book, IsBook(book), NEW after, NEW id, NEW msg \in DownstreamOrderMsg,
         Moves(book, after, id, msg), NEW places, <<msg.is_buy, msg.price>> \notin places
  PROVE  Total(after, places) = Total(book, places)
<1>1. Total(book, places) \in Nat
  BY TotalFacts
<1>2. Count(msg, places) = 0
  BY DEF Count
<1>3. CASE Entering(book, after, id, msg)
  <2>1. Total(after, places) = Total(book, places) + Count(msg, places)
    BY <1>3, EnteringTotal
  <2> QED BY <1>1, <1>2, <2>1
<1>4. CASE Leaving(book, after, id, msg)
  <2>1. Total(after, places) = Total(book, places) - Count(msg, places)
    BY <1>4, LeavingTotal
  <2> QED BY <1>1, <1>2, <2>1
<1> QED BY <1>3, <1>4 DEF Moves

LEMMA TotalUnion ==
  ASSUME NEW book, IsBook(book), NEW A, NEW B, A \cap B = {}
  PROVE  Total(book, A \cup B) = Total(book, A) + Total(book, B)
<1>1. /\ IsFiniteSet(At(book, A)) /\ IsFiniteSet(At(book, B))
      /\ \A id \in At(book, A) \cup At(book, B) : book[id].shares \in Nat
  BY AtFacts
<1>2. At(book, A) \cap At(book, B) = {} /\ At(book, A \cup B) = At(book, A) \cup At(book, B)
  BY DEF At
<1>3. SharesOf(book, At(book, A) \cup At(book, B))
        = SharesOf(book, At(book, A)) + SharesOf(book, At(book, B))
  BY <1>1, <1>2, SumUnion
<1> QED BY <1>2, <1>3 DEF Total

(* The level of a message that takes shares away has them. *)
LEMMA LeavingLevel ==
  ASSUME NEW book, IsBook(book), NEW after, NEW id, NEW msg \in DownstreamOrderMsg,
         Moves(book, after, id, msg), ~BringsShares(msg)
  PROVE  /\ msg.price \in SidePrices(book, msg.is_buy)
         /\ Total(book, {<<msg.is_buy, msg.price>>}) >= msg.shares
<1>1. /\ Leaving(book, after, id, msg)
      /\ id \in DOMAIN book /\ book[id].is_buy = msg.is_buy /\ book[id].price = msg.price
      /\ msg.shares <= book[id].shares
  BY DEF Moves, Entering, Leaving
<1>2. id \in At(book, {<<msg.is_buy, msg.price>>})
  BY <1>1 DEF At
<1>3. /\ Total(book, {<<msg.is_buy, msg.price>>}) >= book[id].shares
      /\ Total(book, {<<msg.is_buy, msg.price>>}) \in Nat
      /\ book[id].shares \in Nat /\ msg.shares \in Nat
  BY <1>2, TotalFacts, AtFacts DEF DownstreamOrderMsg
<1> QED BY <1>1, <1>3 DEF SidePrices, OrdersOf

(* The levels of the side after a message. *)
LEMMA LevelsMove ==
  ASSUME NEW book, IsBook(book), NEW after, NEW id, NEW msg \in DownstreamOrderMsg,
         Moves(book, after, id, msg)
  PROVE  /\ IsBook(after)
         /\ \A p \in SidePrices(after, msg.is_buy) :
              p = msg.price \/ p \in SidePrices(book, msg.is_buy)
BY LevelsElsewhere DEF DownstreamOrderMsg

----------------------------------------------------------------------------
(* Better and worse prices. *)

LEMMA PriceOrder ==
  ASSUME NEW side \in BOOLEAN, NEW a \in Nat, NEW b \in Nat
  PROVE  /\ ~BBO!Improves(side, a, a)
         /\ a = b \/ BBO!Improves(side, a, b) \/ BBO!Improves(side, b, a)
         /\ ~(BBO!Improves(side, a, b) /\ BBO!Improves(side, b, a))
BY DEF BBO!Improves

LEMMA PriceTransitive ==
  ASSUME NEW side \in BOOLEAN, NEW a \in Nat, NEW b \in Nat, NEW c \in Nat,
         BBO!Improves(side, a, b), BBO!Improves(side, b, c)
  PROVE  BBO!Improves(side, a, c)
BY DEF BBO!Improves

(* Finitely many prices have a best one. *)
LEMMA BestExists ==
  ASSUME NEW side \in BOOLEAN, NEW S, IsFiniteSet(S), S \subseteq Nat, S # {}
  PROVE  \E q \in S : \A r \in S : r = q \/ BBO!Improves(side, q, r)
<1> DEFINE BestOf(T, q) == \A r \in T : r = q \/ BBO!Improves(side, q, r)
           G == {T \in SUBSET S : T = {} \/ \E q \in T : BestOf(T, q)}
<1>1. {} \in G
  OBVIOUS
<1>2. ASSUME NEW T \in SUBSET S, NEW x \in S \ T, T \in G
      PROVE  T \cup {x} \in G
  <2>1. CASE T = {}
    <3>1. BestOf(T \cup {x}, x)
      BY <2>1
    <3> HIDE DEF BestOf
    <3> QED BY <3>1
  <2>2. CASE T # {}
    <3>1. PICK q \in T : BestOf(T, q)
      BY <1>2, <2>2
    <3>2. x \in Nat /\ q \in Nat /\ x # q
      OBVIOUS
    <3>3. CASE BBO!Improves(side, q, x)
      <4>1. BestOf(T \cup {x}, q)
        BY <3>1, <3>3
      <4> HIDE DEF BestOf
      <4> QED BY <4>1
    <3>4. CASE BBO!Improves(side, x, q)
      <4>1. ASSUME NEW r \in T PROVE BBO!Improves(side, x, r)
        BY <3>1, <3>2, <3>4, PriceTransitive
      <4>2. BestOf(T \cup {x}, x)
        BY <4>1
      <4> HIDE DEF BestOf
      <4> QED BY <4>2
    <3> QED BY <3>2, <3>3, <3>4, PriceOrder
  <2> QED BY <2>1, <2>2
<1>3. S \in G
  <2> HIDE DEF G
  <2> QED BY <1>1, <1>2, FiniteInduction
<1> QED BY <1>3

LEMMA SameOrder ==
  ASSUME NEW side, NEW a, NEW b
  PROVE  L2!Better(side, a, b) <=> BBO!Improves(side, a, b)
BY DEF L2!Better, BBO!Improves

(* The prices of S better than p. *)
Ahead(side, p, S) == {q \in S : BBO!Improves(side, q, p)}

LEMMA RankAhead ==
  ASSUME NEW side, NEW p, NEW S
  PROVE  L2!Rank(side, p, S) = 1 + Cardinality(Ahead(side, p, S))
<1>1. {q \in S : L2!Better(side, q, p)} = Ahead(side, p, S)
  BY SameOrder DEF Ahead
<1>2. L2!Rank(side, p, S) = 1 + L2!Cardinality({q \in S : L2!Better(side, q, p)})
  BY DEF L2!Rank
<1>3. L2!Cardinality({q \in S : L2!Better(side, q, p)}) = Cardinality({q \in S : L2!Better(side, q, p)})
  BY DEF L2!Cardinality, Cardinality
<1> QED BY <1>1, <1>2, <1>3

(* Finitely many prices have one of every rank. *)
LEMMA RankExists ==
  ASSUME NEW side \in BOOLEAN, NEW S, IsFiniteSet(S), S \subseteq Nat,
         NEW n \in 1 .. Cardinality(S)
  PROVE  \E p \in S : L2!Rank(side, p, S) = n
<1> DEFINE Ranks(T) == \A k \in 1 .. Cardinality(T) :
                         \E p \in T : Cardinality(Ahead(side, p, T)) = k - 1
           G == {T \in SUBSET S : Ranks(T)}
<1>1. ASSUME NEW T \in SUBSET S, \A U \in SUBSET T : U # T => U \in G
      PROVE  T \in G
  <2> SUFFICES ASSUME NEW k \in 1 .. Cardinality(T)
               PROVE  \E p \in T : Cardinality(Ahead(side, p, T)) = k - 1
    OBVIOUS
  <2>1. IsFiniteSet(T) /\ T \subseteq Nat /\ T # {}
    <3>1. IsFiniteSet(T)
      BY FS_Subset
    <3>2. T # {}
      BY <3>1, FS_EmptySet
    <3> QED BY <3>1, <3>2
  <2>2. PICK q \in T : \A r \in T : r = q \/ BBO!Improves(side, q, r)
    BY <2>1, BestExists
  <2>3. CASE k = 1
    <3>1. Ahead(side, q, T) = {}
      BY <2>1, <2>2, PriceOrder DEF Ahead
    <3> QED BY <2>3, <3>1, FS_EmptySet
  <2>4. CASE k # 1
    <3> DEFINE U == T \ {q}
    <3>1. IsFiniteSet(U) /\ Cardinality(U) = Cardinality(T) - 1 /\ Cardinality(T) \in Nat
      BY <2>1, FS_RemoveElement, FS_CardinalityType
    <3>2. U \in SUBSET T /\ U # T
      OBVIOUS
    <3>3. Ranks(U)
      BY <1>1, <3>2
    <3> HIDE DEF U
    <3>4. k - 1 \in 1 .. Cardinality(U)
      BY <2>4, <3>1
    <3>5. PICK p \in U : Cardinality(Ahead(side, p, U)) = (k - 1) - 1
      BY <3>3, <3>4
    <3>6. p \in T /\ p # q /\ p \in Nat /\ q \in Nat
      BY <2>1 DEF U
    <3>7. Ahead(side, p, T) = Ahead(side, p, U) \cup {q} /\ q \notin Ahead(side, p, U)
      BY <2>2, <3>6 DEF Ahead, U
    <3>8. IsFiniteSet(Ahead(side, p, U))
      <4>1. Ahead(side, p, U) \in SUBSET U
        BY DEF Ahead
      <4> QED BY <3>1, <4>1, FS_Subset
    <3>9. Cardinality(Ahead(side, p, T)) = Cardinality(Ahead(side, p, U)) + 1
      BY <3>7, <3>8, FS_AddElement
    <3> QED BY <3>5, <3>6, <3>9
  <2> QED BY <2>3, <2>4
<1>2. S \in G
  <2> HIDE DEF G
  <2> QED BY <1>1, SubsetInduction
<1>3. PICK p \in S : Cardinality(Ahead(side, p, S)) = n - 1
  BY <1>2
<1> QED BY <1>3, RankAhead

----------------------------------------------------------------------------
(* What a half does with a message, register by register. *)

Levels1 == [shares : Nat \ {0}, price : Prices]

HalfType(h) ==
  /\ h \in [entries : Seq(Levels1), outside : Int, in_range : Int]
  /\ Len(h.entries) <= BBO_DEPTH

LEMMA HalfFacts ==
  ASSUME NEW h, HalfType(h)
  PROVE  /\ h.entries \in Seq(Levels1) /\ Len(h.entries) \in Nat /\ DOMAIN h.entries = 1 .. Len(h.entries)
         /\ h.outside \in Int /\ h.in_range \in Int
         /\ h = [entries |-> h.entries, outside |-> h.outside, in_range |-> h.in_range]
         /\ \A k \in 1 .. Len(h.entries) :
              /\ h.entries[k] = [shares |-> h.entries[k].shares, price |-> h.entries[k].price]
              /\ h.entries[k].shares \in Nat \ {0}
              /\ h.entries[k].price \in Prices /\ h.entries[k].price \in Nat
<1>1. /\ h \in [entries : Seq(Levels1), outside : Int, in_range : Int]
  BY DEF HalfType
<1>2. /\ h.entries \in Seq(Levels1) /\ h.outside \in Int /\ h.in_range \in Int
      /\ h = [entries |-> h.entries, outside |-> h.outside, in_range |-> h.in_range]
  BY <1>1
<1>3. Len(h.entries) \in Nat /\ DOMAIN h.entries = 1 .. Len(h.entries)
  BY <1>2
<1>4. ASSUME NEW k \in 1 .. Len(h.entries)
      PROVE  /\ h.entries[k] = [shares |-> h.entries[k].shares, price |-> h.entries[k].price]
             /\ h.entries[k].shares \in Nat \ {0}
             /\ h.entries[k].price \in Prices /\ h.entries[k].price \in Nat
  <2>1. h.entries[k] \in Levels1
    BY <1>2
  <2> QED BY <2>1, PricesAssumption DEF Levels1
<1> QED BY <1>2, <1>3, <1>4

LEMMA FirstHitFacts ==
  ASSUME NEW h, HalfType(h), NEW msg \in DownstreamOrderMsg, BBO!Hits(h, msg) # {}
  PROVE  /\ BBO!FirstHit(h, msg) \in 1 .. Len(h.entries)
         /\ BBO!FirstHit(h, msg) \in BBO!Hits(h, msg)
         /\ \A j \in 1 .. Len(h.entries) : j < BBO!FirstHit(h, msg) => j \notin BBO!Hits(h, msg)
<1> DEFINE S == BBO!Hits(h, msg)
<1>1. S \subseteq 1 .. Len(h.entries) /\ Len(h.entries) \in Nat
  BY HalfFacts DEF BBO!Hits
<1>2. IsFiniteSet(S) /\ S \subseteq Nat
  <2>1. IsFiniteSet(1 .. Len(h.entries))
    BY <1>1, FS_Interval
  <2>2. S \in SUBSET (1 .. Len(h.entries))
    BY <1>1
  <2>3. S \subseteq Nat
    BY <1>1
  <2> HIDE DEF S
  <2>4. IsFiniteSet(S)
    BY <2>1, <2>2, FS_Subset
  <2> QED BY <2>3, <2>4
<1>3. \E i \in S : \A j \in S : i <= j
  <2>1. PICK i \in S : \A j \in S : j = i \/ BBO!Improves(FALSE, i, j)
    <3> HIDE DEF S
    <3> QED BY <1>2, BestExists DEF S
  <2>2. \A j \in S : i <= j
    BY <1>2, <2>1 DEF BBO!Improves
  <2> QED BY <2>2
<1>4. BBO!FirstHit(h, msg) = CHOOSE i \in S : \A j \in S : i <= j
  BY DEF BBO!FirstHit
<1> HIDE DEF S
<1>5. BBO!FirstHit(h, msg) \in S /\ \A j \in S : BBO!FirstHit(h, msg) <= j
  BY <1>3, <1>4
<1> QED BY <1>1, <1>2, <1>5 DEF S

(* Where a message hits, its price and those of the registers. *)
LEMMA ScanFacts ==
  ASSUME NEW h, HalfType(h), NEW msg \in DownstreamOrderMsg,
         NEW k \in 1 .. Len(h.entries)
  PROVE  /\ k \in BBO!Hits(h, msg) => /\ \/ h.entries[k].price = msg.price
                                         \/ BBO!Improves(msg.is_buy, msg.price, h.entries[k].price)
         /\ k \notin BBO!Hits(h, msg) => BBO!Improves(msg.is_buy, h.entries[k].price, msg.price)
<1>1. /\ msg.is_buy \in BOOLEAN /\ msg.price \in Nat
      /\ h.entries[k].price \in Nat /\ k \in DOMAIN h.entries
  BY HalfFacts, PricesAssumption DEF DownstreamOrderMsg
<1> QED BY <1>1, PriceOrder DEF BBO!Hits

(* What the scan decides, and what it found. *)
LEMMA EffectFacts ==
  ASSUME NEW h, NEW msg, NEW i, i = BBO!FirstHit(h, msg)
  PROVE  /\ BBO!Effect(h, msg) \in {"outside", "modify", "depletion", "insertion", "assert"}
         /\ BBO!Effect(h, msg) = "outside" <=> BBO!Hits(h, msg) = {}
         /\ BBO!Effect(h, msg) = "modify" =>
              /\ h.entries[i].price = msg.price
              /\ BringsShares(msg) \/ h.entries[i].shares > msg.shares
         /\ BBO!Effect(h, msg) = "depletion" =>
              /\ h.entries[i].price = msg.price
              /\ ~BringsShares(msg) /\ h.entries[i].shares = msg.shares
         /\ BBO!Effect(h, msg) = "insertion" =>
              h.entries[i].price # msg.price /\ BringsShares(msg)
         /\ BBO!Effect(h, msg) = "assert" =>
              /\ ~BringsShares(msg)
              /\ \/ h.entries[i].price # msg.price
                 \/ ~(h.entries[i].shares > msg.shares) /\ h.entries[i].shares # msg.shares
<1> DEFINE at == h.entries[i]
           none == BBO!Hits(h, msg) = {}
           same == at.price = msg.price
           more == at.shares > msg.shares
           even == at.shares = msg.shares
           brings == BringsShares(msg)
<1>1. BBO!Effect(h, msg) =
        CASE none -> "outside"
          [] ~none /\ same /\ (brings \/ more) -> "modify"
          [] ~none /\ same /\ ~brings /\ even -> "depletion"
          [] ~none /\ ~same /\ brings -> "insertion"
          [] OTHER -> "assert"
  BY DEF BBO!Effect, BBO!BringsShares, BringsShares
<1>2. CASE none
  BY <1>1, <1>2
<1>3. CASE ~none /\ same /\ (brings \/ more)
  BY <1>1, <1>3
<1>4. CASE ~none /\ same /\ ~brings /\ ~more /\ even
  BY <1>1, <1>4
<1>5. CASE ~none /\ ~same /\ brings
  BY <1>1, <1>5
<1>6. CASE ~none /\ ~(same /\ (brings \/ more)) /\ ~(same /\ ~brings /\ even) /\ ~(~same /\ brings)
  BY <1>1, <1>6
<1> QED BY <1>2, <1>3, <1>4, <1>5, <1>6

----------------------------------------------------------------------------
(* A half that follows a book of orders. *)

HeldBy(e) == {e[i].price : i \in 1 .. Len(e)}

(* The places outside the registers, and those of them L2 can supply. *)
Beyond(e, side) == {side} \X (Prices \ HeldBy(e))

Supply(e, side) == {side} \X {p \in Prices \ HeldBy(e) : BBO!WithinBound(side, p)}

InOrder(e, side) ==
  \A i, j \in 1 .. Len(e) : i < j => BBO!Improves(side, e[i].price, e[j].price)

HasShares(e, book, side) ==
  \A i \in 1 .. Len(e) : e[i].shares = Total(book, {<<side, e[i].price>>})

(* Every level outside is worse than those in the registers, and there is  *)
(* none as long as less than n registers are taken.                        *)
LeavesOut(e, book, side, n) ==
  \A p \in SidePrices(book, side) :
    p \notin HeldBy(e) => /\ Len(e) >= n
                          /\ \A i \in 1 .. Len(e) : BBO!Improves(side, e[i].price, p)

RankedTo(e, book, side, n) ==
  InOrder(e, side) /\ HasShares(e, book, side) /\ LeavesOut(e, book, side, n)

Counted(h, e, book, side) ==
  /\ h.outside = Total(book, Beyond(e, side))
  /\ h.in_range = Total(book, Supply(e, side))

HalfFollows(h, book, side) ==
  RankedTo(h.entries, book, side, BBO_DEPTH) /\ Counted(h, h.entries, book, side)

(* The fields of a level. *)
LEMMA LevelFields ==
  ASSUME NEW e \in Seq(Levels1), NEW i \in 1 .. Len(e)
  PROVE  /\ e[i].price \in Prices /\ e[i].price \in Nat
         /\ e[i].shares \in Nat \ {0}
<1>1. e[i] \in Levels1
  OBVIOUS
<1> QED BY <1>1, PricesAssumption DEF Levels1

(* One register for every level. *)
LEMMA OneEach ==
  ASSUME NEW side \in BOOLEAN, NEW e \in Seq(Levels1), InOrder(e, side)
  PROVE  \A i, j \in 1 .. Len(e) : e[i].price = e[j].price => i = j
<1> SUFFICES ASSUME NEW i \in 1 .. Len(e), NEW j \in 1 .. Len(e), e[i].price = e[j].price
             PROVE  i = j
  OBVIOUS
<1>1. e[i].price \in Nat /\ e[j].price \in Nat
  BY LevelFields
<1>2. ~(i < j) /\ ~(j < i)
  BY <1>1, PriceOrder DEF InOrder
<1> QED BY <1>2

(* Levels in the registers are levels of the book. *)
LEMMA HeldFacts ==
  ASSUME NEW book, IsBook(book), NEW side \in BOOLEAN, NEW e \in Seq(Levels1),
         HasShares(e, book, side)
  PROVE  HeldBy(e) \subseteq SidePrices(book, side)
<1>1. ASSUME NEW i \in 1 .. Len(e)
      PROVE  e[i].price \in SidePrices(book, side)
  <2>1. Total(book, {<<side, e[i].price>>}) # 0
    BY LevelFields DEF HasShares
  <2> QED BY <2>1, LevelHasShares
<1> QED BY <1>1 DEF HeldBy

(* Shares outside the registers are those of levels outside. *)
LEMMA BeyondFacts ==
  ASSUME NEW book, IsBook(book), NEW side \in BOOLEAN, NEW e
  PROVE  /\ Total(book, Beyond(e, side)) > 0 =>
              \E p \in SidePrices(book, side) : p \notin HeldBy(e)
         /\ Total(book, Supply(e, side)) > 0 =>
              \E p \in SidePrices(book, side) : p \notin HeldBy(e) /\ BBO!WithinBound(side, p)
         /\ Total(book, Beyond(e, side)) = 0 =>
              \A p \in SidePrices(book, side) : p \in HeldBy(e)
<1>1. ASSUME NEW A, A \subseteq {side} \X Prices, Total(book, A) > 0
      PROVE  \E p \in SidePrices(book, side) : <<side, p>> \in A
  <2>1. PICK id \in At(book, A) : TRUE
    BY <1>1, TotalFacts
  <2>2. /\ id \in DOMAIN book /\ <<book[id].is_buy, book[id].price>> \in A
    BY <2>1 DEF At
  <2>3. book[id].is_buy = side
    BY <1>1, <2>2
  <2> QED BY <2>2, <2>3 DEF SidePrices, OrdersOf
<1>2. Total(book, Beyond(e, side)) > 0 => \E p \in SidePrices(book, side) : p \notin HeldBy(e)
  <2>1. Beyond(e, side) \subseteq {side} \X Prices
    BY DEF Beyond
  <2>2. SUFFICES ASSUME Total(book, Beyond(e, side)) > 0
                 PROVE  \E p \in SidePrices(book, side) : p \notin HeldBy(e)
    OBVIOUS
  <2>3. PICK p \in SidePrices(book, side) : <<side, p>> \in Beyond(e, side)
    BY <1>1, <2>1, <2>2
  <2> QED BY <2>3 DEF Beyond
<1>3. Total(book, Supply(e, side)) > 0 =>
        \E p \in SidePrices(book, side) : p \notin HeldBy(e) /\ BBO!WithinBound(side, p)
  <2>1. Supply(e, side) \subseteq {side} \X Prices
    BY DEF Supply
  <2>2. SUFFICES ASSUME Total(book, Supply(e, side)) > 0
                 PROVE  \E p \in SidePrices(book, side) : p \notin HeldBy(e) /\ BBO!WithinBound(side, p)
    OBVIOUS
  <2>3. PICK p \in SidePrices(book, side) : <<side, p>> \in Supply(e, side)
    BY <1>1, <2>1, <2>2
  <2> QED BY <2>3 DEF Supply
<1>4. ASSUME Total(book, Beyond(e, side)) = 0, NEW p \in SidePrices(book, side), p \notin HeldBy(e)
      PROVE  FALSE
  <2>1. PICK id \in DOMAIN book : book[id].is_buy = side /\ book[id].price = p
    BY DEF SidePrices, OrdersOf
  <2>2. p \in Prices
    BY SideTypes
  <2>3. id \in At(book, Beyond(e, side))
    BY <1>4, <2>1, <2>2 DEF At, Beyond
  <2> QED BY <1>4, <2>3, TotalFacts
<1> QED BY <1>2, <1>3, <1>4

(* One register more, one place less outside. *)
LEMMA GrowBeyond ==
  ASSUME NEW book, IsBook(book), NEW side, NEW e, NEW more, NEW p \in Prices,
         p \notin HeldBy(e), HeldBy(more) = HeldBy(e) \cup {p}
  PROVE  Total(book, Beyond(e, side)) = Total(book, Beyond(more, side)) + Total(book, {<<side, p>>})
<1> DEFINE here == {<<side, p>>}
<1>1. /\ Beyond(e, side) = Beyond(more, side) \cup here
      /\ Beyond(more, side) \cap here = {}
  BY DEF Beyond
<1> HIDE DEF here
<1>2. Total(book, Beyond(e, side)) = Total(book, Beyond(more, side)) + Total(book, here)
  BY <1>1, TotalUnion
<1> QED BY <1>2 DEF here

LEMMA GrowSupply ==
  ASSUME NEW book, IsBook(book), NEW side, NEW e, NEW more, NEW p \in Prices,
         p \notin HeldBy(e), HeldBy(more) = HeldBy(e) \cup {p},
         BBO!WithinBound(side, p)
  PROVE  Total(book, Supply(e, side)) = Total(book, Supply(more, side)) + Total(book, {<<side, p>>})
<1> DEFINE here == {<<side, p>>}
<1>1. /\ Supply(e, side) = Supply(more, side) \cup here
      /\ Supply(more, side) \cap here = {}
  BY DEF Supply
<1> HIDE DEF here
<1>2. Total(book, Supply(e, side)) = Total(book, Supply(more, side)) + Total(book, here)
  BY <1>1, TotalUnion
<1> QED BY <1>2 DEF here

LEMMA SameSupply ==
  ASSUME NEW side, NEW e, NEW more, NEW p \in Prices,
         HeldBy(more) = HeldBy(e) \cup {p}, ~BBO!WithinBound(side, p)
  PROVE  Supply(e, side) = Supply(more, side)
BY DEF Supply

LEMMA PlaceFacts ==
  ASSUME NEW e, NEW side, NEW p \in Prices
  PROVE  /\ p \in HeldBy(e) => /\ <<side, p>> \notin Beyond(e, side)
                               /\ <<side, p>> \notin Supply(e, side)
         /\ p \notin HeldBy(e) =>
              /\ <<side, p>> \in Beyond(e, side)
              /\ <<side, p>> \in Supply(e, side) <=> BBO!WithinBound(side, p)
BY DEF Beyond, Supply

(* The other side's half follows the book as before. *)
LEMMA OtherHalf ==
  ASSUME NEW book, IsBook(book), NEW after, NEW id, NEW msg \in DownstreamOrderMsg,
         Moves(book, after, id, msg), NEW h, NEW side \in BOOLEAN, side # msg.is_buy,
         HalfFollows(h, book, side)
  PROVE  HalfFollows(h, after, side)
<1>1. ASSUME NEW places, \A place \in places : place[1] = side
      PROVE  Total(after, places) = Total(book, places)
  <2>1. <<msg.is_buy, msg.price>> \notin places
    <3>1. <<msg.is_buy, msg.price>>[1] = msg.is_buy
      OBVIOUS
    <3> QED BY <1>1, <3>1
  <2> QED BY <2>1, TotalElsewhere
<1>2. \A p : Total(after, {<<side, p>>}) = Total(book, {<<side, p>>})
  BY <1>1
<1>3. /\ Total(after, Beyond(h.entries, side)) = Total(book, Beyond(h.entries, side))
      /\ Total(after, Supply(h.entries, side)) = Total(book, Supply(h.entries, side))
  <2>1. /\ \A place \in Beyond(h.entries, side) : place[1] = side
        /\ \A place \in Supply(h.entries, side) : place[1] = side
    BY DEF Beyond, Supply
  <2> QED BY <1>1, <2>1
<1>4. SidePrices(after, side) \subseteq SidePrices(book, side)
  BY LevelsElsewhere
<1>5. Counted(h, h.entries, after, side)
  BY <1>3 DEF HalfFollows, Counted
<1>6. HasShares(h.entries, after, side)
  BY <1>2 DEF HalfFollows, RankedTo, HasShares
<1>7. InOrder(h.entries, side) /\ LeavesOut(h.entries, after, side, BBO_DEPTH)
  BY <1>4 DEF HalfFollows, RankedTo, LeavesOut
<1> QED BY <1>5, <1>6, <1>7 DEF HalfFollows, RankedTo

(* Records, field by field. *)
LEMMA WithShares ==
  ASSUME NEW r, NEW a, NEW b, r = [shares |-> a, price |-> b], NEW s
  PROVE  [r EXCEPT !.shares = s] = [shares |-> s, price |-> b]
OBVIOUS

LEMMA WithEntry ==
  ASSUME NEW e, NEW o, NEW r, NEW i, NEW s
  PROVE  [[entries |-> e, outside |-> o, in_range |-> r] EXCEPT !.entries[i].shares = s]
           = [entries |-> [e EXCEPT ![i] = [e[i] EXCEPT !.shares = s]],
              outside |-> o, in_range |-> r]
OBVIOUS

(* A level whose shares change, and stays in its register. *)
LEMMA ModifiedFacts ==
  ASSUME NEW h, HalfType(h), NEW msg \in DownstreamOrderMsg,
         NEW i \in 1 .. Len(h.entries), i = BBO!FirstHit(h, msg),
         BBO!Effect(h, msg) = "modify"
  PROVE  /\ HalfType(BBO!Modified(h, msg))
         /\ BBO!Modified(h, msg).outside = h.outside /\ BBO!Modified(h, msg).in_range = h.in_range
         /\ Len(BBO!Modified(h, msg).entries) = Len(h.entries)
         /\ \A k \in 1 .. Len(h.entries) :
              /\ BBO!Modified(h, msg).entries[k].price = h.entries[k].price
              /\ k # i => BBO!Modified(h, msg).entries[k].shares = h.entries[k].shares
         /\ BBO!Modified(h, msg).entries[i].shares = h.entries[i].shares + Signed(msg)
<1> DEFINE e == h.entries
           s == IF BringsShares(msg) THEN e[i].shares + msg.shares ELSE e[i].shares - msg.shares
           n == [e EXCEPT ![i] = [shares |-> s, price |-> e[i].price]]
<1>1. /\ h = [entries |-> e, outside |-> h.outside, in_range |-> h.in_range]
      /\ e \in Seq(Levels1) /\ Len(e) \in Nat /\ DOMAIN e = 1 .. Len(e)
      /\ \A k \in 1 .. Len(e) : /\ e[k] = [shares |-> e[k].shares, price |-> e[k].price]
                                /\ e[k].shares \in Nat \ {0} /\ e[k].price \in Prices
      /\ h.outside \in Int /\ h.in_range \in Int
  BY HalfFacts
<1>2. /\ BringsShares(msg) \/ e[i].shares > msg.shares
      /\ msg.shares \in Nat \ {0}
  BY EffectFacts DEF DownstreamOrderMsg
<1>3. s \in Nat \ {0} /\ s = e[i].shares + Signed(msg)
  <2>1. e[i].shares \in Nat \ {0}
    BY <1>1
  <2> HIDE DEF e
  <2>2. CASE BringsShares(msg)
    BY <1>2, <2>1, <2>2 DEF Signed
  <2>3. CASE ~BringsShares(msg)
    BY <1>2, <2>1, <2>3 DEF Signed
  <2> QED BY <2>2, <2>3
<1>4. BBO!Modified(h, msg) = [entries |-> n, outside |-> h.outside, in_range |-> h.in_range]
  <2>1. BBO!Modified(h, msg) = [h EXCEPT !.entries[i].shares = IF BringsShares(msg) THEN @ + msg.shares
                                                                                 ELSE @ - msg.shares]
    BY DEF BBO!Modified, BBO!BringsShares, BringsShares
  <2>2. [h EXCEPT !.entries[i].shares = s]
          = [entries |-> [e EXCEPT ![i] = [e[i] EXCEPT !.shares = s]],
             outside |-> h.outside, in_range |-> h.in_range]
    <3>1. h = [entries |-> e, outside |-> h.outside, in_range |-> h.in_range]
      BY <1>1
    <3> DEFINE R == [entries |-> e, outside |-> h.outside, in_range |-> h.in_range]
               X == [entries |-> [e EXCEPT ![i] = [e[i] EXCEPT !.shares = s]],
                     outside |-> h.outside, in_range |-> h.in_range]
    <3> HIDE DEF s, e
    <3>2. [R EXCEPT !.entries[i].shares = s] = X
      BY ONLY WithEntry, SMT
    <3>3. h = R
      BY <3>1
    <3> HIDE DEF R, X
    <3>4. [h EXCEPT !.entries[i].shares = s] = X
      BY ONLY <3>2, <3>3, Zenon
    <3> QED BY <3>4, Zenon DEF X
  <2>3. [e[i] EXCEPT !.shares = s] = [shares |-> s, price |-> e[i].price]
    <3>1. e[i] = [shares |-> e[i].shares, price |-> e[i].price]
      BY <1>1
    <3> HIDE DEF s, e
    <3> QED BY <3>1, WithShares
  <2> QED BY <2>1, <2>2, <2>3
<1>5. /\ n \in Seq(Levels1) /\ Len(n) = Len(e)
      /\ \A k \in 1 .. Len(e) : n[k] = IF k = i THEN [shares |-> s, price |-> e[i].price] ELSE e[k]
  <2>1. [shares |-> s, price |-> e[i].price] \in Levels1
    BY <1>1, <1>3 DEF Levels1
  <2> HIDE DEF s
  <2> QED BY <1>1, <2>1
<1> HIDE DEF n, s
<1>6. HalfType(BBO!Modified(h, msg))
  BY <1>1, <1>4, <1>5 DEF HalfType
<1> QED BY <1>3, <1>4, <1>5, <1>6

LEMMA ModifiedFollows ==
  ASSUME NEW book, IsBook(book), NEW after, NEW id, NEW msg \in DownstreamOrderMsg,
         Moves(book, after, id, msg), NEW h, HalfType(h), HalfFollows(h, book, msg.is_buy),
         BBO!Effect(h, msg) = "modify"
  PROVE  HalfFollows(BBO!Modified(h, msg), after, msg.is_buy)
<1> DEFINE i == BBO!FirstHit(h, msg)
           side == msg.is_buy
           e == h.entries
           m == BBO!Modified(h, msg)
           n == BBO!Modified(h, msg).entries
<1>0. side \in BOOLEAN /\ msg.price \in Prices
  BY DEF DownstreamOrderMsg
<1>1. i \in 1 .. Len(e) /\ e[i].price = msg.price
  BY EffectFacts, FirstHitFacts
<1>2. /\ m.outside = h.outside /\ m.in_range = h.in_range
      /\ Len(n) = Len(e)
      /\ \A k \in 1 .. Len(e) : /\ n[k].price = e[k].price
                                /\ k # i => n[k].shares = e[k].shares
      /\ n[i].shares = e[i].shares + Signed(msg)
  BY <1>1, ModifiedFacts
<1>3. /\ e \in Seq(Levels1)
      /\ InOrder(e, side) /\ HasShares(e, book, side) /\ LeavesOut(e, book, side, BBO_DEPTH)
      /\ h.outside = Total(book, Beyond(e, side)) /\ h.in_range = Total(book, Supply(e, side))
  BY HalfFacts DEF HalfFollows, RankedTo, Counted
<1> HIDE DEF i, side, e, m, n
<1>4. HeldBy(n) = HeldBy(e) /\ msg.price \in HeldBy(e)
  BY <1>1, <1>2 DEF HeldBy
<1>5. Beyond(n, side) = Beyond(e, side) /\ Supply(n, side) = Supply(e, side)
  BY <1>4 DEF Beyond, Supply
<1>6. InOrder(n, side)
  BY <1>2, <1>3 DEF InOrder
<1>7. HasShares(n, after, side)
  <2> SUFFICES ASSUME NEW k \in 1 .. Len(e)
               PROVE  n[k].shares = Total(after, {<<side, e[k].price>>})
    BY <1>2 DEF HasShares
  <2>1. e[k].shares = Total(book, {<<side, e[k].price>>})
    BY <1>3 DEF HasShares
  <2>2. CASE k = i
    <3>1. Total(after, {<<side, msg.price>>}) = Total(book, {<<side, msg.price>>}) + Signed(msg)
      BY LevelHere DEF side
    <3> QED BY <1>1, <1>2, <2>1, <2>2, <3>1
  <2>3. CASE k # i
    <3>1. e[k].price # msg.price
      <4>1. \A x, y \in 1 .. Len(e) : e[x].price = e[y].price => x = y
        BY <1>0, <1>3, OneEach
      <4> QED BY <1>1, <2>3, <4>1
    <3> DEFINE there == {<<side, e[k].price>>}
    <3>2. <<msg.is_buy, msg.price>> \notin there
      BY <3>1
    <3>3. Total(after, there) = Total(book, there)
      <4> HIDE DEF there
      <4> QED BY <3>2, TotalElsewhere
    <3> QED BY <1>2, <2>1, <2>3, <3>3
  <2> QED BY <2>2, <2>3
<1>8. LeavesOut(n, after, side, BBO_DEPTH)
  <2> SUFFICES ASSUME NEW p \in SidePrices(after, side), p \notin HeldBy(n)
               PROVE  /\ Len(n) >= BBO_DEPTH
                      /\ \A k \in 1 .. Len(n) : BBO!Improves(side, n[k].price, p)
    BY DEF LeavesOut
  <2>1. p # msg.price /\ p \notin HeldBy(e)
    BY <1>4
  <2>2. p \in SidePrices(book, side)
    BY <2>1, LevelsMove DEF side
  <2> QED BY <1>2, <1>3, <2>1, <2>2 DEF LeavesOut
<1>9. Counted(m, n, after, side)
  <2>1. /\ <<msg.is_buy, msg.price>> \notin Beyond(e, side)
        /\ <<msg.is_buy, msg.price>> \notin Supply(e, side)
    BY <1>0, <1>4, PlaceFacts DEF side
  <2>2. /\ Total(after, Beyond(e, side)) = Total(book, Beyond(e, side))
        /\ Total(after, Supply(e, side)) = Total(book, Supply(e, side))
    BY <2>1, TotalElsewhere
  <2> QED BY <1>2, <1>3, <1>5, <2>2 DEF Counted
<1> QED BY <1>6, <1>7, <1>8, <1>9 DEF HalfFollows, RankedTo, m, n, side

(* A level that goes. *)
LEMMA DepletedFacts ==
  ASSUME NEW h, HalfType(h), NEW msg \in DownstreamOrderMsg,
         NEW i \in 1 .. Len(h.entries), i = BBO!FirstHit(h, msg)
  PROVE  /\ HalfType(BBO!Depleted(h, msg))
         /\ BBO!Depleted(h, msg).outside = h.outside /\ BBO!Depleted(h, msg).in_range = h.in_range
         /\ Len(BBO!Depleted(h, msg).entries) = Len(h.entries) - 1
         /\ \A k \in 1 .. Len(h.entries) - 1 :
              BBO!Depleted(h, msg).entries[k] = h.entries[IF k < i THEN k ELSE k + 1]
<1> DEFINE e == h.entries
           n == BBO!RemoveAt(e, i)
<1>1. /\ h = [entries |-> e, outside |-> h.outside, in_range |-> h.in_range]
      /\ e \in Seq(Levels1) /\ Len(e) \in Nat
      /\ h.outside \in Int /\ h.in_range \in Int
  BY HalfFacts
<1>2. Len(e) <= BBO_DEPTH
  BY DEF HalfType
<1>3. /\ n \in Seq(Levels1) /\ Len(n) = Len(e) - 1
      /\ \A k \in 1 .. Len(e) - 1 : n[k] = IF k < i THEN e[k] ELSE e[k + 1]
  BY <1>1, RemoveAtFacts
<1>4. BBO!Depleted(h, msg) = [h EXCEPT !.entries = n]
  BY DEF BBO!Depleted
<1> HIDE DEF n
<1>5. BBO!Depleted(h, msg) = [entries |-> n, outside |-> h.outside, in_range |-> h.in_range]
  BY <1>1, <1>4
<1>6. HalfType(BBO!Depleted(h, msg))
  BY <1>1, <1>2, <1>3, <1>5, WindowSize DEF HalfType
<1> QED BY <1>3, <1>5, <1>6

(* A level that loses its last shares goes, and nothing outside changes:   *)
(* if a level outside can be supplied, one register is free.               *)
LEMMA DepletedFollows ==
  ASSUME NEW book, IsBook(book), NEW after, NEW id, NEW msg \in DownstreamOrderMsg,
         Moves(book, after, id, msg), NEW h, HalfType(h), HalfFollows(h, book, msg.is_buy),
         BBO!Effect(h, msg) = "depletion"
  PROVE  /\ RankedTo(BBO!Depleted(h, msg).entries, after, msg.is_buy, BBO_DEPTH - 1)
         /\ Counted(BBO!Depleted(h, msg), BBO!Depleted(h, msg).entries, after, msg.is_buy)
<1> DEFINE i == BBO!FirstHit(h, msg)
           side == msg.is_buy
           e == h.entries
           m == BBO!Depleted(h, msg)
           n == BBO!Depleted(h, msg).entries
<1>0. /\ side \in BOOLEAN /\ msg.price \in Prices /\ msg.shares \in Nat \ {0}
      /\ BBO_DEPTH \in Nat
  BY WindowSize DEF DownstreamOrderMsg
<1>1. /\ i \in 1 .. Len(e) /\ e[i].price = msg.price /\ e[i].shares = msg.shares
      /\ ~BringsShares(msg)
  BY EffectFacts, FirstHitFacts
<1>2. /\ m.outside = h.outside /\ m.in_range = h.in_range
      /\ Len(n) = Len(e) - 1
      /\ \A k \in 1 .. Len(e) - 1 : n[k] = e[IF k < i THEN k ELSE k + 1]
  BY <1>1, DepletedFacts
<1>3. /\ e \in Seq(Levels1) /\ Len(e) \in Nat
      /\ InOrder(e, side) /\ HasShares(e, book, side) /\ LeavesOut(e, book, side, BBO_DEPTH)
      /\ h.outside = Total(book, Beyond(e, side)) /\ h.in_range = Total(book, Supply(e, side))
  BY HalfFacts DEF HalfFollows, RankedTo, Counted
<1>i. IsBook(after)
  BY LevelsMove
<1> HIDE DEF i, side, e, m, n
<1>4. \A x, y \in 1 .. Len(e) : e[x].price = e[y].price => x = y
  BY <1>0, <1>3, OneEach
<1>5. /\ \A k \in 1 .. Len(n) : \E j \in 1 .. Len(e) : j # i /\ n[k] = e[j]
      /\ \A j \in 1 .. Len(e) : j # i => \E k \in 1 .. Len(n) : n[k] = e[j]
  <2>1. ASSUME NEW k \in 1 .. Len(n)
        PROVE  \E j \in 1 .. Len(e) : j # i /\ n[k] = e[j]
    <3>1. /\ (IF k < i THEN k ELSE k + 1) \in 1 .. Len(e)
          /\ (IF k < i THEN k ELSE k + 1) # i
      BY <1>1, <1>2, <1>3
    <3> QED BY <1>2, <3>1
  <2>2. ASSUME NEW j \in 1 .. Len(e), j # i
        PROVE  \E k \in 1 .. Len(n) : n[k] = e[j]
    <3>1. CASE j < i
      BY <1>1, <1>2, <1>3, <3>1
    <3>2. CASE j > i
      <4>1. j - 1 \in 1 .. Len(e) - 1 /\ ~(j - 1 < i) /\ (j - 1) + 1 = j
        BY <1>1, <1>3, <3>2
      <4>2. n[j - 1] = e[j]
        BY <1>2, <4>1
      <4> QED BY <1>2, <4>1, <4>2
    <3> QED BY <1>1, <2>2, <3>1, <3>2
  <2> QED BY <2>1, <2>2
<1>6. HeldBy(e) = HeldBy(n) \cup {msg.price} /\ msg.price \notin HeldBy(n)
  <2>1. ASSUME NEW k \in 1 .. Len(n)
        PROVE  n[k].price # msg.price /\ n[k].price \in HeldBy(e)
    <3>1. PICK j \in 1 .. Len(e) : j # i /\ n[k] = e[j]
      BY <1>5
    <3> QED BY <1>1, <1>4, <3>1 DEF HeldBy
  <2>2. ASSUME NEW j \in 1 .. Len(e), j # i
        PROVE  e[j].price \in HeldBy(n)
    <3>1. PICK k \in 1 .. Len(n) : n[k] = e[j]
      BY <1>5, <2>2
    <3> QED BY <3>1 DEF HeldBy
  <2>3. msg.price \in HeldBy(e) /\ \A p \in HeldBy(e) : p = msg.price \/ p \in HeldBy(n)
    BY <1>1, <2>2 DEF HeldBy
  <2>4. \A p \in HeldBy(n) : p # msg.price /\ p \in HeldBy(e)
    BY <2>1 DEF HeldBy
  <2> QED BY <2>3, <2>4
<1>7. Total(after, {<<side, msg.price>>}) = 0
  <2>1. e[i].shares = Total(book, {<<side, e[i].price>>})
    BY <1>1, <1>3 DEF HasShares
  <2>2. Total(after, {<<side, msg.price>>}) = Total(book, {<<side, msg.price>>}) + Signed(msg)
    BY LevelHere DEF side
  <2> QED BY <1>0, <1>1, <2>1, <2>2 DEF Signed
<1>8. InOrder(n, side)
  <2> SUFFICES ASSUME NEW x \in 1 .. Len(n), NEW y \in 1 .. Len(n), x < y
               PROVE  BBO!Improves(side, n[x].price, n[y].price)
    BY DEF InOrder
  <2> DEFINE xx == IF x < i THEN x ELSE x + 1
             yy == IF y < i THEN y ELSE y + 1
  <2>1. xx \in 1 .. Len(e) /\ yy \in 1 .. Len(e) /\ xx < yy
    BY <1>1, <1>2, <1>3
  <2>2. n[x] = e[xx] /\ n[y] = e[yy]
    BY <1>2
  <2> HIDE DEF xx, yy
  <2> QED BY <1>3, <2>1, <2>2 DEF InOrder
<1>9. HasShares(n, after, side)
  <2> SUFFICES ASSUME NEW k \in 1 .. Len(n)
               PROVE  n[k].shares = Total(after, {<<side, n[k].price>>})
    BY DEF HasShares
  <2>1. PICK j \in 1 .. Len(e) : j # i /\ n[k] = e[j]
    BY <1>5
  <2>2. e[j].shares = Total(book, {<<side, e[j].price>>}) /\ e[j].price # msg.price
    BY <1>1, <1>3, <1>4, <2>1 DEF HasShares
  <2> DEFINE there == {<<side, e[j].price>>}
  <2>3. <<msg.is_buy, msg.price>> \notin there
    BY <2>2
  <2>4. Total(after, there) = Total(book, there)
    <3> HIDE DEF there
    <3> QED BY <2>3, TotalElsewhere
  <2> QED BY <2>1, <2>2, <2>4
<1>10. LeavesOut(n, after, side, BBO_DEPTH - 1)
  <2> SUFFICES ASSUME NEW p \in SidePrices(after, side), p \notin HeldBy(n)
               PROVE  /\ Len(n) >= BBO_DEPTH - 1
                      /\ \A k \in 1 .. Len(n) : BBO!Improves(side, n[k].price, p)
    BY DEF LeavesOut
  <2>1. p # msg.price
    BY <1>0, <1>7, <1>i, LevelHasShares
  <2>2. p \in SidePrices(book, side) /\ p \notin HeldBy(e)
    BY <1>6, <2>1, LevelsMove DEF side
  <2>3. /\ Len(e) >= BBO_DEPTH
        /\ \A j \in 1 .. Len(e) : BBO!Improves(side, e[j].price, p)
    BY <1>3, <2>2 DEF LeavesOut
  <2>4. Len(n) >= BBO_DEPTH - 1
    BY <1>0, <1>2, <1>3, <2>3
  <2>5. ASSUME NEW k \in 1 .. Len(n)
        PROVE  BBO!Improves(side, n[k].price, p)
    BY <1>5, <2>3
  <2> QED BY <2>4, <2>5
<1>11. Counted(m, n, after, side)
  <2>1. /\ <<msg.is_buy, msg.price>> \notin Beyond(e, side)
        /\ <<msg.is_buy, msg.price>> \notin Supply(e, side)
    BY <1>0, <1>6, PlaceFacts DEF side
  <2>2. /\ Total(after, Beyond(e, side)) = Total(book, Beyond(e, side))
        /\ Total(after, Supply(e, side)) = Total(book, Supply(e, side))
    BY <2>1, TotalElsewhere
  <2>3. Total(after, Beyond(e, side)) \in Nat /\ Total(after, Supply(e, side)) \in Nat
    BY <1>i, TotalFacts
  <2>4. Total(after, Beyond(n, side)) = Total(after, Beyond(e, side))
    <3>1. Total(after, Beyond(n, side))
            = Total(after, Beyond(e, side)) + Total(after, {<<side, msg.price>>})
      BY <1>0, <1>6, <1>i, GrowBeyond
    <3> QED BY <1>7, <2>3, <3>1
  <2>5. Total(after, Supply(n, side)) = Total(after, Supply(e, side))
    <3>1. CASE BBO!WithinBound(side, msg.price)
      <4>1. Total(after, Supply(n, side))
              = Total(after, Supply(e, side)) + Total(after, {<<side, msg.price>>})
        BY <1>0, <1>6, <1>i, <3>1, GrowSupply
      <4> QED BY <1>7, <2>3, <4>1
    <3>2. CASE ~BBO!WithinBound(side, msg.price)
      <4>1. Supply(n, side) = Supply(e, side)
        BY <1>0, <1>6, <3>2, SameSupply
      <4> QED BY <4>1
    <3> QED BY <3>1, <3>2
  <2> QED BY <1>2, <1>3, <2>2, <2>4, <2>5 DEF Counted
<1> QED BY <1>8, <1>9, <1>10, <1>11 DEF RankedTo, m, n, side

----------------------------------------------------------------------------
(* A level more in the registers. *)

Joins(n, e, level) ==
  /\ n \in Seq(Levels1) /\ Len(n) = Len(e) + 1
  /\ HeldBy(n) = HeldBy(e) \cup {level.price}
  /\ \A k \in 1 .. Len(n) : n[k] = level \/ \E j \in 1 .. Len(e) : n[k] = e[j]

(* All old levels and the new one are there. *)
LEMMA JoinsHeld ==
  ASSUME NEW e \in Seq(Levels1), NEW level \in Levels1,
         NEW n \in Seq(Levels1), Len(n) = Len(e) + 1,
         \A k \in 1 .. Len(n) : n[k] = level \/ \E j \in 1 .. Len(e) : n[k] = e[j],
         \E k \in 1 .. Len(n) : n[k] = level,
         \A j \in 1 .. Len(e) : \E k \in 1 .. Len(n) : n[k] = e[j]
  PROVE  Joins(n, e, level)
<1>1. ASSUME NEW k \in 1 .. Len(n)
      PROVE  n[k].price = level.price \/ n[k].price \in HeldBy(e)
  BY DEF HeldBy
<1>2. ASSUME NEW j \in 1 .. Len(e)
      PROVE  e[j].price \in HeldBy(n)
  <2>1. PICK k \in 1 .. Len(n) : n[k] = e[j]
    OBVIOUS
  <2> QED BY <2>1 DEF HeldBy
<1>3. level.price \in HeldBy(n)
  <2>1. PICK k \in 1 .. Len(n) : n[k] = level
    OBVIOUS
  <2> QED BY <2>1 DEF HeldBy
<1>4. \A p \in HeldBy(n) : p = level.price \/ p \in HeldBy(e)
  BY <1>1 DEF HeldBy
<1>5. \A p \in HeldBy(e) : p \in HeldBy(n)
  BY <1>2 DEF HeldBy
<1>6. HeldBy(n) = HeldBy(e) \cup {level.price}
  BY <1>3, <1>4, <1>5
<1> QED BY <1>6 DEF Joins

LEMMA InsertedLevels ==
  ASSUME NEW side \in BOOLEAN, NEW e \in Seq(Levels1), InOrder(e, side),
         NEW i \in 1 .. Len(e), NEW level \in Levels1,
         \A j \in 1 .. Len(e) : j < i => BBO!Improves(side, e[j].price, level.price),
         BBO!Improves(side, level.price, e[i].price),
         NEW n, n = BBO!InsertAt(e, i, level)
  PROVE  Joins(n, e, level) /\ InOrder(n, side) /\ \A k \in i + 1 .. Len(n) : n[k] = e[k - 1]
<1>1. /\ n \in Seq(Levels1) /\ Len(n) = Len(e) + 1 /\ Len(e) \in Nat
      /\ \A k \in 1 .. Len(e) + 1 : n[k] = IF k < i THEN e[k] ELSE IF k = i THEN level ELSE e[k - 1]
  BY InsertAtFacts
<1>2. ASSUME NEW k \in 1 .. Len(n)
      PROVE  \/ k < i /\ k \in 1 .. Len(e) /\ n[k] = e[k]
             \/ k = i /\ n[k] = level
             \/ k > i /\ k - 1 \in 1 .. Len(e) /\ n[k] = e[k - 1]
  BY <1>1
<1>3. ASSUME NEW j \in 1 .. Len(e)
      PROVE  \E k \in 1 .. Len(n) : n[k] = e[j]
  <2>1. CASE j < i
    BY <1>1, <2>1
  <2>2. CASE j >= i
    <3>1. j + 1 \in 1 .. Len(e) + 1 /\ ~(j + 1 < i) /\ j + 1 # i /\ (j + 1) - 1 = j
      BY <1>1, <2>2
    <3>2. n[j + 1] = e[j]
      BY <1>1, <3>1
    <3> QED BY <1>1, <3>1, <3>2
  <2> QED BY <2>1, <2>2
<1>4. n[i] = level /\ i \in 1 .. Len(n)
  BY <1>1
<1>5. Joins(n, e, level)
  BY <1>1, <1>2, <1>3, <1>4, JoinsHeld
<1>6. ASSUME NEW j \in 1 .. Len(e), j >= i
      PROVE  BBO!Improves(side, level.price, e[j].price)
  <2>1. CASE j = i
    BY <2>1
  <2>2. CASE j > i
    <3>1. BBO!Improves(side, e[i].price, e[j].price)
      BY <2>2 DEF InOrder
    <3>2. e[i].price \in Nat /\ e[j].price \in Nat /\ level.price \in Nat
      BY LevelFields, PricesAssumption DEF Levels1
    <3> QED BY <3>1, <3>2, PriceTransitive
  <2> QED BY <1>6, <2>1, <2>2
<1>7. InOrder(n, side)
  <2> SUFFICES ASSUME NEW x \in 1 .. Len(n), NEW y \in 1 .. Len(n), x < y
               PROVE  BBO!Improves(side, n[x].price, n[y].price)
    BY DEF InOrder
  <2>1. CASE x < i /\ y < i
    <3>1. n[x] = e[x] /\ n[y] = e[y] /\ x \in 1 .. Len(e) /\ y \in 1 .. Len(e)
      BY <1>2, <2>1
    <3> QED BY <3>1 DEF InOrder
  <2>2. CASE x < i /\ y = i
    BY <1>2, <2>2
  <2>3. CASE x < i /\ y > i
    <3>1. n[x] = e[x] /\ n[y] = e[y - 1] /\ x < y - 1 /\ x \in 1 .. Len(e) /\ y - 1 \in 1 .. Len(e)
      BY <1>2, <2>3
    <3> QED BY <3>1 DEF InOrder
  <2>4. CASE x = i /\ y > i
    <3>1. n[x] = level /\ n[y] = e[y - 1] /\ y - 1 \in 1 .. Len(e) /\ y - 1 >= i
      BY <1>2, <2>4
    <3> QED BY <1>6, <3>1
  <2>5. CASE x > i /\ y > i
    <3>1. /\ n[x] = e[x - 1] /\ n[y] = e[y - 1] /\ x - 1 < y - 1
          /\ x - 1 \in 1 .. Len(e) /\ y - 1 \in 1 .. Len(e)
      BY <1>2, <2>5
    <3> QED BY <3>1 DEF InOrder
  <2> QED BY <2>1, <2>2, <2>3, <2>4, <2>5
<1>8. \A k \in i + 1 .. Len(n) : n[k] = e[k - 1]
  BY <1>1
<1> QED BY <1>5, <1>7, <1>8

LEMMA AppendedLevels ==
  ASSUME NEW side \in BOOLEAN, NEW e \in Seq(Levels1), InOrder(e, side),
         NEW level \in Levels1,
         \A j \in 1 .. Len(e) : BBO!Improves(side, e[j].price, level.price),
         NEW n, n = Append(e, level)
  PROVE  Joins(n, e, level) /\ InOrder(n, side)
<1>1. /\ n \in Seq(Levels1) /\ Len(n) = Len(e) + 1 /\ Len(e) \in Nat
      /\ \A k \in 1 .. Len(e) : n[k] = e[k]
      /\ n[Len(e) + 1] = level
  BY AppendProperties
<1>2. ASSUME NEW k \in 1 .. Len(n)
      PROVE  \/ k \in 1 .. Len(e) /\ n[k] = e[k]
             \/ k = Len(e) + 1 /\ n[k] = level
  BY <1>1
<1>3. Joins(n, e, level)
  <2>1. \A k \in 1 .. Len(n) : n[k] = level \/ \E j \in 1 .. Len(e) : n[k] = e[j]
    BY <1>2
  <2>2. \E k \in 1 .. Len(n) : n[k] = level
    BY <1>1
  <2>3. \A j \in 1 .. Len(e) : \E k \in 1 .. Len(n) : n[k] = e[j]
    BY <1>1
  <2> QED BY <1>1, <2>1, <2>2, <2>3, JoinsHeld
<1>4. InOrder(n, side)
  <2> SUFFICES ASSUME NEW x \in 1 .. Len(n), NEW y \in 1 .. Len(n), x < y
               PROVE  BBO!Improves(side, n[x].price, n[y].price)
    BY DEF InOrder
  <2>1. x \in 1 .. Len(e) /\ n[x] = e[x]
    BY <1>1, <1>2
  <2>2. CASE y \in 1 .. Len(e) /\ n[y] = e[y]
    BY <2>1, <2>2 DEF InOrder
  <2>3. CASE n[y] = level
    BY <2>1, <2>3
  <2> QED BY <1>2, <2>2, <2>3
<1> QED BY <1>3, <1>4

(* A new level enters the registers: one that was nowhere on the side, and *)
(* is better than every level left outside.                                *)
LEMMA GrowFollows ==
  ASSUME NEW book, IsBook(book), NEW after, NEW id, NEW msg \in DownstreamOrderMsg,
         Moves(book, after, id, msg), BringsShares(msg),
         NEW h, HalfType(h), NEW e, e = h.entries, HalfFollows(h, book, msg.is_buy),
         msg.price \notin SidePrices(book, msg.is_buy),
         \A q \in SidePrices(book, msg.is_buy) :
           q \notin HeldBy(e) => BBO!Improves(msg.is_buy, msg.price, q),
         NEW level, level = [shares |-> msg.shares, price |-> msg.price],
         NEW n, Joins(n, e, level), InOrder(n, msg.is_buy)
  PROVE  RankedTo(n, after, msg.is_buy, BBO_DEPTH) /\ Counted(h, n, after, msg.is_buy)
<1> DEFINE side == msg.is_buy
           p == msg.price
<1>0. /\ side \in BOOLEAN /\ p \in Prices /\ msg.shares \in Nat \ {0}
      /\ BBO_DEPTH \in Nat /\ IsBook(after)
  BY WindowSize, LevelsMove DEF DownstreamOrderMsg
<1>1. /\ e \in Seq(Levels1) /\ Len(e) \in Nat
      /\ InOrder(e, side) /\ HasShares(e, book, side) /\ LeavesOut(e, book, side, BBO_DEPTH)
      /\ h.outside = Total(book, Beyond(e, side)) /\ h.in_range = Total(book, Supply(e, side))
  BY HalfFacts DEF HalfFollows, RankedTo, Counted
<1>2. p \notin HeldBy(e)
  BY <1>0, <1>1, HeldFacts
<1>3. /\ Len(n) = Len(e) + 1 /\ HeldBy(n) = HeldBy(e) \cup {p}
      /\ \A k \in 1 .. Len(n) : n[k] = level \/ \E j \in 1 .. Len(e) : n[k] = e[j]
      /\ level.price = p /\ level.shares = msg.shares
  BY DEF Joins
<1>4. Total(book, {<<side, p>>}) = 0 /\ Total(after, {<<side, p>>}) = msg.shares
  <2>1. Total(book, {<<side, p>>}) = 0
    BY <1>0, LevelHasShares
  <2>2. Total(after, {<<side, p>>}) = Total(book, {<<side, p>>}) + Signed(msg)
    BY LevelHere
  <2> QED BY <1>0, <2>1, <2>2 DEF Signed
<1>5. HasShares(n, after, side)
  <2> SUFFICES ASSUME NEW k \in 1 .. Len(n)
               PROVE  n[k].shares = Total(after, {<<side, n[k].price>>})
    BY DEF HasShares
  <2>1. CASE n[k] = level
    BY <1>3, <1>4, <2>1
  <2>2. CASE \E j \in 1 .. Len(e) : n[k] = e[j]
    <3>1. PICK j \in 1 .. Len(e) : n[k] = e[j]
      BY <2>2
    <3>2. e[j].shares = Total(book, {<<side, e[j].price>>}) /\ e[j].price # p
      BY <1>1, <1>2 DEF HasShares, HeldBy
    <3> DEFINE there == {<<side, e[j].price>>}
    <3>3. <<msg.is_buy, msg.price>> \notin there
      BY <3>2
    <3> HIDE DEF there
    <3>4. Total(after, there) = Total(book, there)
      BY <3>3, TotalElsewhere
    <3> QED BY <3>1, <3>2, <3>4 DEF there
  <2> QED BY <1>3, <2>1, <2>2
<1>6. LeavesOut(n, after, side, BBO_DEPTH)
  <2> SUFFICES ASSUME NEW q \in SidePrices(after, side), q \notin HeldBy(n)
               PROVE  /\ Len(n) >= BBO_DEPTH
                      /\ \A k \in 1 .. Len(n) : BBO!Improves(side, n[k].price, q)
    BY DEF LeavesOut
  <2>1. q \in SidePrices(book, side) /\ q \notin HeldBy(e)
    BY <1>3, LevelsMove
  <2>2. /\ Len(e) >= BBO_DEPTH
        /\ \A j \in 1 .. Len(e) : BBO!Improves(side, e[j].price, q)
    BY <1>1, <2>1 DEF LeavesOut
  <2>3. BBO!Improves(side, p, q)
    BY <2>1
  <2>4. Len(n) >= BBO_DEPTH
    BY <1>0, <1>1, <1>3, <2>2
  <2>5. ASSUME NEW k \in 1 .. Len(n)
        PROVE  BBO!Improves(side, n[k].price, q)
    BY <1>3, <2>2, <2>3
  <2> QED BY <2>4, <2>5
<1>7. Counted(h, n, after, side)
  <2>1. /\ <<msg.is_buy, msg.price>> \notin Beyond(n, side)
        /\ <<msg.is_buy, msg.price>> \notin Supply(n, side)
    BY <1>0, <1>3, PlaceFacts
  <2>2. /\ Total(after, Beyond(n, side)) = Total(book, Beyond(n, side))
        /\ Total(after, Supply(n, side)) = Total(book, Supply(n, side))
    BY <2>1, TotalElsewhere
  <2>3. Total(book, Beyond(n, side)) \in Nat /\ Total(book, Supply(n, side)) \in Nat
    BY TotalFacts
  <2>4. Total(book, Beyond(e, side)) = Total(book, Beyond(n, side))
    <3>1. Total(book, Beyond(e, side)) = Total(book, Beyond(n, side)) + Total(book, {<<side, p>>})
      BY <1>0, <1>2, <1>3, GrowBeyond
    <3> QED BY <1>4, <2>3, <3>1
  <2>5. Total(book, Supply(e, side)) = Total(book, Supply(n, side))
    <3>1. CASE BBO!WithinBound(side, p)
      <4>1. Total(book, Supply(e, side)) = Total(book, Supply(n, side)) + Total(book, {<<side, p>>})
        BY <1>0, <1>2, <1>3, <3>1, GrowSupply
      <4> QED BY <1>4, <2>3, <4>1
    <3>2. CASE ~BBO!WithinBound(side, p)
      <4>1. Supply(e, side) = Supply(n, side)
        BY <1>0, <1>3, <3>2, SameSupply
      <4> QED BY <4>1
    <3> QED BY <3>1, <3>2
  <2> QED BY <1>1, <2>2, <2>4, <2>5 DEF Counted
<1> QED BY <1>5, <1>6, <1>7 DEF RankedTo

(* One level too many: the last goes, and counts as outside. *)
LEMMA PushedFields ==
  ASSUME NEW side \in BOOLEAN, NEW h, HalfType(h),
         NEW n \in Seq(Levels1), Len(n) = BBO_DEPTH + 1, NEW last, last = n[Len(n)],
         NEW f, f = BBO!Front(n),
         NEW m, m = BBO!CountOutside([h EXCEPT !.entries = f], side, last.shares, last.price)
  PROVE  /\ HalfType(m) /\ m.entries = f
         /\ m.outside = h.outside + last.shares
         /\ BBO!WithinBound(side, last.price) => m.in_range = h.in_range + last.shares
         /\ ~BBO!WithinBound(side, last.price) => m.in_range = h.in_range
<1>0. BBO_DEPTH \in Nat /\ Len(n) > 0 /\ Len(n) \in Nat
  BY WindowSize
<1>1. f \in Seq(Levels1) /\ Len(f) = BBO_DEPTH
  BY <1>0, FrontFacts
<1>2. last.shares \in Nat \ {0}
  BY <1>0, LevelFields
<1>4. /\ h = [entries |-> h.entries, outside |-> h.outside, in_range |-> h.in_range]
      /\ h.outside \in Int /\ h.in_range \in Int
  BY HalfFacts
<1>5. /\ m.entries = f
      /\ m.outside = h.outside + last.shares
      /\ BBO!WithinBound(side, last.price) => m.in_range = h.in_range + last.shares
      /\ ~BBO!WithinBound(side, last.price) => m.in_range = h.in_range
      /\ m = [entries |-> m.entries, outside |-> m.outside, in_range |-> m.in_range]
  <2>1. m = [[h EXCEPT !.entries = f] EXCEPT
               !.outside  = @ + last.shares,
               !.in_range = IF BBO!WithinBound(side, last.price) THEN @ + last.shares ELSE @]
    BY DEF BBO!CountOutside
  <2>2. [h EXCEPT !.entries = f] = [entries |-> f, outside |-> h.outside, in_range |-> h.in_range]
    BY <1>4
  <2>3. m = [entries |-> f, outside |-> h.outside + last.shares,
             in_range |-> IF BBO!WithinBound(side, last.price) THEN h.in_range + last.shares
                                                               ELSE h.in_range]
    BY <2>1, <2>2
  <2> QED BY <2>3
<1>10. HalfType(m)
  <2>1. m.outside \in Int /\ m.in_range \in Int
    BY <1>2, <1>4, <1>5
  <2>2. m \in [entries : Seq(Levels1), outside : Int, in_range : Int]
    BY <1>1, <1>5, <2>1
  <2> QED BY <1>0, <1>1, <1>5, <2>2 DEF HalfType
<1> QED BY <1>5, <1>10

LEMMA PushedOut ==
  ASSUME NEW book, IsBook(book), NEW side \in BOOLEAN, NEW h, HalfType(h),
         NEW n \in Seq(Levels1), Len(n) = BBO_DEPTH + 1,
         RankedTo(n, book, side, BBO_DEPTH), Counted(h, n, book, side),
         NEW m, m = BBO!CountOutside([h EXCEPT !.entries = BBO!Front(n)], side,
                                     n[Len(n)].shares, n[Len(n)].price)
  PROVE  HalfType(m) /\ HalfFollows(m, book, side)
<1> DEFINE f == BBO!Front(n)
           last == n[Len(n)]
<1>0. BBO_DEPTH \in Nat /\ Len(n) > 0 /\ Len(n) \in Nat
  BY WindowSize
<1>1. /\ f \in Seq(Levels1) /\ Len(f) = BBO_DEPTH
      /\ \A k \in 1 .. BBO_DEPTH : f[k] = n[k]
  BY <1>0, FrontFacts
<1>2. last.price \in Prices /\ last.price \in Nat /\ last.shares \in Nat \ {0}
  BY <1>0, LevelFields
<1>3. /\ InOrder(n, side) /\ HasShares(n, book, side) /\ LeavesOut(n, book, side, BBO_DEPTH)
      /\ h.outside = Total(book, Beyond(n, side)) /\ h.in_range = Total(book, Supply(n, side))
  BY DEF RankedTo, Counted
<1>5. /\ HalfType(m) /\ m.entries = f
      /\ m.outside = h.outside + last.shares
      /\ BBO!WithinBound(side, last.price) => m.in_range = h.in_range + last.shares
      /\ ~BBO!WithinBound(side, last.price) => m.in_range = h.in_range
  BY PushedFields
<1> HIDE DEF f
<1>6. HeldBy(n) = HeldBy(f) \cup {last.price} /\ last.price \notin HeldBy(f)
  <2>1. \A k \in 1 .. Len(n) : k \in 1 .. BBO_DEPTH \/ k = Len(n)
    BY <1>0
  <2>2. \A p \in HeldBy(n) : p \in HeldBy(f) \/ p = last.price
    BY <1>1, <2>1 DEF HeldBy
  <2>3. \A p \in HeldBy(f) : p \in HeldBy(n)
    BY <1>0, <1>1 DEF HeldBy
  <2>4. last.price \in HeldBy(n)
    BY <1>0 DEF HeldBy
  <2>5. last.price \notin HeldBy(f)
    <3>1. SUFFICES ASSUME NEW k \in 1 .. Len(f), f[k].price = last.price PROVE FALSE
      BY DEF HeldBy
    <3>2. k \in 1 .. Len(n) /\ k # Len(n) /\ n[k].price = last.price
      BY <1>0, <1>1, <3>1
    <3>3. \A x, y \in 1 .. Len(n) : n[x].price = n[y].price => x = y
      BY <1>3, OneEach
    <3>4. Len(n) \in 1 .. Len(n)
      BY <1>0
    <3> QED BY <3>2, <3>3, <3>4
  <2> QED BY <2>2, <2>3, <2>4, <2>5
<1>7. InOrder(f, side) /\ HasShares(f, book, side)
  <2>1. \A k \in 1 .. Len(f) : k \in 1 .. Len(n) /\ f[k] = n[k]
    BY <1>0, <1>1
  <2> QED BY <1>3, <2>1 DEF InOrder, HasShares
<1>8. LeavesOut(f, book, side, BBO_DEPTH)
  <2> SUFFICES ASSUME NEW p \in SidePrices(book, side), p \notin HeldBy(f)
               PROVE  /\ Len(f) >= BBO_DEPTH
                      /\ \A k \in 1 .. Len(f) : BBO!Improves(side, f[k].price, p)
    BY DEF LeavesOut
  <2>1. Len(f) >= BBO_DEPTH
    BY <1>0, <1>1
  <2>2. ASSUME NEW k \in 1 .. Len(f)
        PROVE  BBO!Improves(side, f[k].price, p)
    <3>1. k \in 1 .. Len(n) /\ Len(n) \in 1 .. Len(n) /\ k < Len(n) /\ f[k] = n[k]
      BY <1>0, <1>1
    <3>2. CASE p = last.price
      BY <1>3, <3>1, <3>2 DEF InOrder
    <3>3. CASE p # last.price
      <4>1. p \notin HeldBy(n)
        BY <1>6, <3>3
      <4> QED BY <1>3, <3>1, <4>1 DEF LeavesOut
    <3> QED BY <3>2, <3>3
  <2> QED BY <2>1, <2>2
<1>9. Counted(m, f, book, side)
  <2>1. last.shares = Total(book, {<<side, last.price>>})
    BY <1>0, <1>3 DEF HasShares
  <2> HIDE DEF last
  <2>2. Total(book, Beyond(f, side)) = Total(book, Beyond(n, side)) + Total(book, {<<side, last.price>>})
    BY <1>2, <1>6, GrowBeyond
  <2>3. CASE BBO!WithinBound(side, last.price)
    <3>1. Total(book, Supply(f, side)) = Total(book, Supply(n, side)) + Total(book, {<<side, last.price>>})
      BY <1>2, <1>6, <2>3, GrowSupply
    <3> QED BY <1>3, <1>5, <2>1, <2>2, <2>3, <3>1 DEF Counted
  <2>4. CASE ~BBO!WithinBound(side, last.price)
    <3>1. Supply(f, side) = Supply(n, side)
      BY <1>2, <1>6, <2>4, SameSupply
    <3> QED BY <1>3, <1>5, <2>1, <2>2, <2>4, <3>1 DEF Counted
  <2> QED BY <2>3, <2>4
<1> QED BY <1>5, <1>7, <1>8, <1>9 DEF HalfFollows, RankedTo

(* The level a message that brings shares makes of its own. *)
LEMMA OwnLevel ==
  ASSUME NEW msg \in DownstreamOrderMsg
  PROVE  /\ BBO!Level(msg.shares, msg.price) = [shares |-> msg.shares, price |-> msg.price]
         /\ BBO!Level(msg.shares, msg.price) \in Levels1
         /\ BBO!Level(msg.shares, msg.price).price = msg.price
BY DEF BBO!Level, Levels1, DownstreamOrderMsg

(* Registers that take a level more in, and stay within their number. *)
LEMMA TakenIn ==
  ASSUME NEW h, HalfType(h), NEW n \in Seq(Levels1), Len(n) <= BBO_DEPTH,
         NEW m, m = [h EXCEPT !.entries = n]
  PROVE  /\ HalfType(m) /\ m.entries = n
         /\ m.outside = h.outside /\ m.in_range = h.in_range
<1>1. /\ h = [entries |-> h.entries, outside |-> h.outside, in_range |-> h.in_range]
      /\ h.outside \in Int /\ h.in_range \in Int
  BY HalfFacts
<1>2. m = [entries |-> n, outside |-> h.outside, in_range |-> h.in_range]
  BY <1>1
<1> QED BY <1>1, <1>2 DEF HalfType

LEMMA InsertedType ==
  ASSUME NEW h, HalfType(h), NEW msg \in DownstreamOrderMsg,
         NEW i \in 1 .. Len(h.entries), i = BBO!FirstHit(h, msg)
  PROVE  HalfType(BBO!Inserted(h, msg))
<1> DEFINE e == h.entries
           level == BBO!Level(msg.shares, msg.price)
           n == BBO!InsertAt(e, i, level)
           last == n[Len(n)]
<1>1. e \in Seq(Levels1) /\ Len(e) \in Nat /\ Len(e) <= BBO_DEPTH /\ BBO_DEPTH \in Nat
  BY HalfFacts, WindowSize DEF HalfType
<1>2. n \in Seq(Levels1) /\ Len(n) = Len(e) + 1
  <2>1. level \in Levels1
    BY OwnLevel
  <2> HIDE DEF level, e
  <2> QED BY <1>1, <2>1, InsertAtFacts DEF e
<1>3. BBO!Inserted(h, msg) =
        IF Len(n) <= BBO_DEPTH THEN [h EXCEPT !.entries = n]
        ELSE BBO!CountOutside([h EXCEPT !.entries = BBO!Front(n)], msg.is_buy, last.shares, last.price)
  BY DEF BBO!Inserted
<1> HIDE DEF n
<1>4. CASE Len(n) <= BBO_DEPTH
  BY <1>2, <1>3, <1>4, TakenIn
<1>5. CASE ~(Len(n) <= BBO_DEPTH)
  <2>1. Len(n) = BBO_DEPTH + 1 /\ msg.is_buy \in BOOLEAN
    BY <1>1, <1>2, <1>5 DEF DownstreamOrderMsg
  <2>2. BBO!Inserted(h, msg)
          = BBO!CountOutside([h EXCEPT !.entries = BBO!Front(n)], msg.is_buy, last.shares, last.price)
    BY <1>3, <1>5
  <2> HIDE DEF last
  <2>3. last = n[Len(n)]
    BY DEF last
  <2> QED BY <1>2, <2>1, <2>2, <2>3, PushedFields
<1> QED BY <1>4, <1>5

(* A level better than one in the registers enters them in its place.      *)
LEMMA InsertedFollows ==
  ASSUME NEW book, IsBook(book), NEW after, NEW id, NEW msg \in DownstreamOrderMsg,
         Moves(book, after, id, msg), NEW h, HalfType(h), HalfFollows(h, book, msg.is_buy),
         BBO!Effect(h, msg) = "insertion"
  PROVE  HalfFollows(BBO!Inserted(h, msg), after, msg.is_buy)
<1> DEFINE i == BBO!FirstHit(h, msg)
           side == msg.is_buy
           e == h.entries
           level == BBO!Level(msg.shares, msg.price)
           n == BBO!InsertAt(e, i, level)
           last == n[Len(n)]
           m == BBO!Inserted(h, msg)
<1>0. /\ side \in BOOLEAN /\ msg.price \in Nat /\ IsBook(after)
      /\ BBO_DEPTH \in Nat
  BY WindowSize, LevelsMove, PricesAssumption DEF DownstreamOrderMsg
<1>1. /\ i \in 1 .. Len(e) /\ e[i].price # msg.price /\ BringsShares(msg)
      /\ i \in BBO!Hits(h, msg)
      /\ \A j \in 1 .. Len(e) : j < i => j \notin BBO!Hits(h, msg)
  BY EffectFacts, FirstHitFacts
<1>2. BBO!Improves(side, msg.price, e[i].price)
  BY <1>1, ScanFacts
<1>3. \A j \in 1 .. Len(e) : j < i => BBO!Improves(side, e[j].price, msg.price)
  BY <1>1, ScanFacts
<1>4. /\ e \in Seq(Levels1) /\ Len(e) \in Nat /\ Len(e) <= BBO_DEPTH
      /\ InOrder(e, side) /\ HasShares(e, book, side) /\ LeavesOut(e, book, side, BBO_DEPTH)
  BY HalfFacts DEF HalfFollows, RankedTo, HalfType
<1>5. level \in Levels1 /\ level.price = msg.price /\ level = [shares |-> msg.shares, price |-> msg.price]
  BY OwnLevel
<1>6. m = IF Len(n) <= BBO_DEPTH THEN [h EXCEPT !.entries = n]
          ELSE BBO!CountOutside([h EXCEPT !.entries = BBO!Front(n)], side, last.shares, last.price)
  BY DEF BBO!Inserted
<1> HIDE DEF i, e, level, n, last, m
<1>7. Joins(n, e, level) /\ InOrder(n, side)
  <2>1. n = BBO!InsertAt(e, i, level)
    BY DEF n
  <2> QED BY <1>0, <1>1, <1>2, <1>3, <1>4, <1>5, <2>1, InsertedLevels
<1>8. \A q \in SidePrices(book, side) :
        q \notin HeldBy(e) => BBO!Improves(side, msg.price, q)
  <2> SUFFICES ASSUME NEW q \in SidePrices(book, side), q \notin HeldBy(e)
               PROVE  BBO!Improves(side, msg.price, q)
    OBVIOUS
  <2>1. BBO!Improves(side, e[i].price, q)
    BY <1>1, <1>4 DEF LeavesOut
  <2>2. q \in Nat /\ e[i].price \in Nat
    BY <1>1, <1>4, SideTypes, LevelFields, PricesAssumption
  <2> QED BY <1>0, <1>2, <2>1, <2>2, PriceTransitive
<1>9. msg.price \notin SidePrices(book, side)
  <2>1. SUFFICES ASSUME msg.price \in SidePrices(book, side) PROVE FALSE
    OBVIOUS
  <2>2. CASE msg.price \notin HeldBy(e)
    BY <1>0, <1>8, <2>1, <2>2, PriceOrder
  <2>3. CASE msg.price \in HeldBy(e)
    <3>1. PICK j \in 1 .. Len(e) : e[j].price = msg.price
      BY <2>3 DEF HeldBy
    <3>2. ~(j < i) /\ j # i
      BY <1>0, <1>1, <1>3, <3>1, PriceOrder
    <3>3. BBO!Improves(side, e[i].price, e[j].price)
      BY <1>1, <1>4, <3>2 DEF InOrder
    <3>4. e[i].price \in Nat
      BY <1>1, <1>4, LevelFields
    <3> QED BY <1>0, <1>2, <3>1, <3>3, <3>4, PriceOrder
  <2> QED BY <2>2, <2>3
<1>10. RankedTo(n, after, side, BBO_DEPTH) /\ Counted(h, n, after, side)
  <2>1. e = h.entries
    BY DEF e
  <2> QED BY <1>1, <1>5, <1>7, <1>8, <1>9, <2>1, GrowFollows
<1>11. n \in Seq(Levels1) /\ Len(n) = Len(e) + 1
  BY <1>7 DEF Joins
<1>12. CASE Len(n) <= BBO_DEPTH
  <2>0. m = [h EXCEPT !.entries = n]
    BY <1>6, <1>12
  <2>1. m.entries = n /\ m.outside = h.outside /\ m.in_range = h.in_range
    BY <1>11, <1>12, <2>0, TakenIn
  <2>2. HalfFollows(m, after, side)
    BY <1>10, <2>1 DEF HalfFollows, Counted
  <2> QED BY <2>2 DEF m
<1>13. CASE ~(Len(n) <= BBO_DEPTH)
  <2>1. Len(n) = BBO_DEPTH + 1
    BY <1>0, <1>4, <1>11, <1>13
  <2>2. m = BBO!CountOutside([h EXCEPT !.entries = BBO!Front(n)], side, n[Len(n)].shares, n[Len(n)].price)
    BY <1>6, <1>13 DEF last
  <2>3. HalfFollows(m, after, side)
    BY <1>0, <1>10, <1>11, <2>1, <2>2, PushedOut
  <2> QED BY <2>3 DEF m
<1> QED BY <1>12, <1>13

LEMMA CountedOutside ==
  ASSUME NEW h, NEW e, NEW o \in Int, NEW r \in Int,
         h = [entries |-> e, outside |-> o, in_range |-> r],
         NEW side, NEW s \in Int, NEW p
  PROVE  BBO!CountOutside(h, side, s, p)
           = [entries |-> e, outside |-> o + s,
              in_range |-> IF BBO!WithinBound(side, p) THEN r + s ELSE r]
<1> DEFINE a == h.outside + s
           b == IF BBO!WithinBound(side, p) THEN h.in_range + s ELSE h.in_range
<1>1. h.outside = o /\ h.in_range = r
  OBVIOUS
<1>2. BBO!CountOutside(h, side, s, p) = [h EXCEPT !.outside = a, !.in_range = b]
  BY Zenon DEF BBO!CountOutside
<1> HIDE DEF a, b
<1> DEFINE k == [entries |-> e, outside |-> a, in_range |-> r]
<1>3. [h EXCEPT !.outside = a] = k
  OBVIOUS
<1>4. [k EXCEPT !.in_range = b] = [entries |-> e, outside |-> a, in_range |-> b]
  OBVIOUS
<1>5. [h EXCEPT !.outside = a, !.in_range = b] = [[h EXCEPT !.outside = a] EXCEPT !.in_range = b]
  OBVIOUS
<1> QED BY <1>1, <1>2, <1>3, <1>4, <1>5 DEF a, b

LEMMA PutOutsideType ==
  ASSUME NEW h, HalfType(h), NEW msg \in DownstreamOrderMsg
  PROVE  HalfType(BBO!PutOutside(h, msg))
<1> DEFINE e == h.entries
           level == BBO!Level(msg.shares, msg.price)
           n == Append(e, level)
<1>1. /\ e \in Seq(Levels1) /\ Len(e) \in Nat /\ BBO_DEPTH \in Nat
      /\ h = [entries |-> e, outside |-> h.outside, in_range |-> h.in_range]
      /\ h.outside \in Int /\ h.in_range \in Int
  BY HalfFacts, WindowSize
<1>2. level \in Levels1
  BY OwnLevel
<1>3. CASE Len(e) < BBO_DEPTH
  <2>1. BBO!PutOutside(h, msg) = [h EXCEPT !.entries = n]
    BY <1>3 DEF BBO!PutOutside
  <2>2. n \in Seq(Levels1) /\ Len(n) = Len(e) + 1
    BY <1>1, <1>2, AppendProperties
  <2> HIDE DEF n
  <2>3. Len(n) <= BBO_DEPTH
    BY <1>1, <1>3, <2>2
  <2> QED BY <2>1, <2>2, <2>3, TakenIn
<1>4. CASE ~(Len(e) < BBO_DEPTH)
  <2> DEFINE s == IF BringsShares(msg) THEN msg.shares ELSE -msg.shares
             r == IF BBO!WithinBound(msg.is_buy, msg.price) THEN h.in_range + s ELSE h.in_range
  <2>1. BBO!PutOutside(h, msg) = BBO!CountOutside(h, msg.is_buy, s, msg.price)
    BY <1>4 DEF BBO!PutOutside, BBO!BringsShares, BringsShares
  <2>2. s \in Int
    BY DEF DownstreamOrderMsg
  <2>3. BBO!CountOutside(h, msg.is_buy, s, msg.price)
          = [entries |-> e, outside |-> h.outside + s, in_range |-> r]
    <3> HIDE DEF s, e
    <3> QED BY <1>1, <2>2, CountedOutside
  <2> HIDE DEF s, e
  <2>4. h.outside + s \in Int /\ r \in Int
    BY <1>1, <2>2
  <2> HIDE DEF r
  <2>5. Len(e) <= BBO_DEPTH
    BY DEF HalfType, e
  <2> QED BY <1>1, <2>1, <2>3, <2>4, <2>5 DEF HalfType
<1> QED BY <1>3, <1>4

(* A level worse than all in the registers takes a free one, or counts as  *)
(* outside.                                                                *)
LEMMA PutOutsideFollows ==
  ASSUME NEW book, IsBook(book), NEW after, NEW id, NEW msg \in DownstreamOrderMsg,
         Moves(book, after, id, msg), NEW h, HalfType(h), HalfFollows(h, book, msg.is_buy),
         BBO!Hits(h, msg) = {}
  PROVE  HalfFollows(BBO!PutOutside(h, msg), after, msg.is_buy)
<1> DEFINE side == msg.is_buy
           e == h.entries
           p == msg.price
           level == BBO!Level(msg.shares, msg.price)
           n == Append(e, level)
           m == BBO!PutOutside(h, msg)
<1>0. /\ side \in BOOLEAN /\ p \in Nat /\ p \in Prices /\ msg.shares \in Nat /\ IsBook(after)
      /\ BBO_DEPTH \in Nat
  BY WindowSize, LevelsMove, PricesAssumption DEF DownstreamOrderMsg
<1>1. /\ e \in Seq(Levels1) /\ Len(e) \in Nat /\ Len(e) <= BBO_DEPTH
      /\ InOrder(e, side) /\ HasShares(e, book, side) /\ LeavesOut(e, book, side, BBO_DEPTH)
      /\ h.outside = Total(book, Beyond(e, side)) /\ h.in_range = Total(book, Supply(e, side))
      /\ h = [entries |-> e, outside |-> h.outside, in_range |-> h.in_range]
  BY HalfFacts DEF HalfFollows, RankedTo, Counted, HalfType
<1>2. \A j \in 1 .. Len(e) : BBO!Improves(side, e[j].price, p)
  <2> SUFFICES ASSUME NEW j \in 1 .. Len(e) PROVE BBO!Improves(side, e[j].price, p)
    OBVIOUS
  <2>1. j \notin BBO!Hits(h, msg)
    OBVIOUS
  <2> QED BY <2>1, ScanFacts
<1>3. p \notin HeldBy(e)
  <2>1. SUFFICES ASSUME NEW j \in 1 .. Len(e), e[j].price = p PROVE FALSE
    BY DEF HeldBy
  <2> QED BY <1>0, <1>2, <2>1, PriceOrder
<1>4. CASE Len(e) < BBO_DEPTH
  <2>1. m = [h EXCEPT !.entries = n]
    BY <1>4 DEF BBO!PutOutside
  <2>2. level \in Levels1 /\ level.price = p /\ level = [shares |-> msg.shares, price |-> msg.price]
    BY OwnLevel
  <2>3. \A q \in SidePrices(book, side) : q \in HeldBy(e)
    BY <1>0, <1>1, <1>4 DEF LeavesOut
  <2>4. p \notin SidePrices(book, side)
    BY <1>3, <2>3
  <2>5. BringsShares(msg)
    BY <2>4, LeavingLevel
  <2> HIDE DEF level, e
  <2>6. Joins(n, e, level) /\ InOrder(n, side)
    <3>1. n = Append(e, level)
      OBVIOUS
    <3> HIDE DEF n, side
    <3> QED BY <1>0, <1>1, <1>2, <2>2, <3>1, AppendedLevels
  <2> HIDE DEF n
  <2>7. RankedTo(n, after, side, BBO_DEPTH) /\ Counted(h, n, after, side)
    <3>1. \A q \in SidePrices(book, side) : q \notin HeldBy(e) => BBO!Improves(side, p, q)
      BY <2>3
    <3>2. e = h.entries
      BY DEF e
    <3> QED BY <2>2, <2>4, <2>5, <2>6, <3>1, <3>2, GrowFollows
  <2>8. n \in Seq(Levels1) /\ Len(n) <= BBO_DEPTH
    BY <1>0, <1>1, <1>4, <2>6 DEF Joins
  <2> HIDE DEF m
  <2>9. m.entries = n /\ m.outside = h.outside /\ m.in_range = h.in_range
    BY <2>1, <2>8, TakenIn
  <2>10. HalfFollows(m, after, side)
    BY <2>7, <2>9 DEF HalfFollows, Counted
  <2> QED BY <2>10 DEF m
<1>5. CASE ~(Len(e) < BBO_DEPTH)
  <2>1. /\ m.entries = e /\ m.outside = h.outside + Signed(msg)
        /\ BBO!WithinBound(side, p) => m.in_range = h.in_range + Signed(msg)
        /\ ~BBO!WithinBound(side, p) => m.in_range = h.in_range
    <3>1. m = BBO!CountOutside(h, side, Signed(msg), p)
      BY <1>5 DEF BBO!PutOutside, BBO!BringsShares, BringsShares, Signed
    <3>2. m = [entries |-> e, outside |-> h.outside + Signed(msg),
               in_range |-> IF BBO!WithinBound(side, p) THEN h.in_range + Signed(msg) ELSE h.in_range]
      BY <1>1, <3>1 DEF BBO!CountOutside
    <3> HIDE DEF m, e
    <3> QED BY <3>2
  <2>2. HasShares(e, after, side)
    <3> SUFFICES ASSUME NEW k \in 1 .. Len(e)
                 PROVE  e[k].shares = Total(after, {<<side, e[k].price>>})
      BY DEF HasShares
    <3> DEFINE there == {<<side, e[k].price>>}
    <3>1. e[k].shares = Total(book, there) /\ e[k].price # p
      BY <1>1, <1>3 DEF HasShares, HeldBy
    <3>2. <<msg.is_buy, msg.price>> \notin there
      BY <3>1
    <3> HIDE DEF there
    <3>3. Total(after, there) = Total(book, there)
      BY <3>2, TotalElsewhere
    <3> QED BY <3>1, <3>3 DEF there
  <2>3. LeavesOut(e, after, side, BBO_DEPTH)
    <3> SUFFICES ASSUME NEW q \in SidePrices(after, side), q \notin HeldBy(e)
                 PROVE  /\ Len(e) >= BBO_DEPTH
                        /\ \A k \in 1 .. Len(e) : BBO!Improves(side, e[k].price, q)
      BY DEF LeavesOut
    <3>1. Len(e) >= BBO_DEPTH
      BY <1>0, <1>1, <1>5
    <3>2. CASE q = p
      BY <1>2, <3>1, <3>2
    <3>3. CASE q # p
      <4>1. q \in SidePrices(book, side)
        BY <3>3, LevelsMove
      <4> QED BY <1>1, <4>1 DEF LeavesOut
    <3> QED BY <3>2, <3>3
  <2> HIDE DEF e, m
  <2>4. Total(after, Beyond(e, side)) = Total(book, Beyond(e, side)) + Signed(msg)
    <3>1. <<msg.is_buy, msg.price>> \in Beyond(e, side)
      BY <1>0, <1>3, PlaceFacts
    <3> QED BY <3>1, TotalHere
  <2>5. CASE BBO!WithinBound(side, p)
    <3>1. <<msg.is_buy, msg.price>> \in Supply(e, side)
      BY <1>0, <1>3, <2>5, PlaceFacts
    <3>2. Total(after, Supply(e, side)) = Total(book, Supply(e, side)) + Signed(msg)
      BY <3>1, TotalHere
    <3>3. HalfFollows(m, after, side)
      BY <1>1, <2>1, <2>2, <2>3, <2>4, <2>5, <3>2 DEF HalfFollows, RankedTo, Counted
    <3> QED BY <3>3 DEF m
  <2>6. CASE ~BBO!WithinBound(side, p)
    <3>1. <<msg.is_buy, msg.price>> \notin Supply(e, side)
      BY <1>0, <1>3, <2>6, PlaceFacts
    <3>2. Total(after, Supply(e, side)) = Total(book, Supply(e, side))
      BY <3>1, TotalElsewhere
    <3>3. HalfFollows(m, after, side)
      BY <1>1, <2>1, <2>2, <2>3, <2>4, <2>6, <3>2 DEF HalfFollows, RankedTo, Counted
    <3> QED BY <3>3 DEF m
  <2> QED BY <2>5, <2>6
<1> QED BY <1>4, <1>5

----------------------------------------------------------------------------
(* A message, and what the half answers. *)

(* BBOHalf.process_msg, one effect after the other. *)
LEMMA ProcessHalfFacts ==
  ASSUME NEW h, NEW msg, NEW step, step = BBO!ProcessHalf(h, msg)
  PROVE  /\ BBO!Effect(h, msg) = "modify" =>
              step.half = BBO!Modified(h, msg) /\ step.outcome = "ok"
         /\ BBO!Effect(h, msg) = "insertion" =>
              step.half = BBO!Inserted(h, msg) /\ step.outcome = "ok"
         /\ BBO!Effect(h, msg) = "outside" =>
              step.half = BBO!PutOutside(h, msg) /\ step.outcome = "ok"
         /\ BBO!Effect(h, msg) = "assert" => step.half = h /\ step.outcome = "assert"
<1> DEFINE effect == BBO!Effect(h, msg)
           gone == BBO!Depleted(h, msg)
           Done(half, outcome) == [half |-> half, outcome |-> outcome]
           after == CASE h.in_range > 0 /\ Len(gone.entries) = BBO_DEPTH - 1 -> "updt_req"
                      [] h.in_range > 0 /\ Len(gone.entries) # BBO_DEPTH - 1 -> "assert"
                      [] h.in_range <= 0 /\ h.outside > 0 -> "no_shares_in_range"
                      [] OTHER -> "ok"
<1>1. step =
        CASE effect = "modify"    -> Done(BBO!Modified(h, msg), "ok")
          [] effect = "insertion" -> Done(BBO!Inserted(h, msg), "ok")
          [] effect = "outside"   -> Done(BBO!PutOutside(h, msg), "ok")
          [] effect = "assert"    -> Done(h, "assert")
          [] effect = "depletion" -> Done(gone, after)
  BY DEF BBO!ProcessHalf
<1> HIDE DEF effect, gone, after
<1>2. ASSUME effect = "modify" PROVE step = Done(BBO!Modified(h, msg), "ok")
  BY <1>1, <1>2
<1>3. ASSUME effect = "insertion" PROVE step = Done(BBO!Inserted(h, msg), "ok")
  BY <1>1, <1>3
<1>4. ASSUME effect = "outside" PROVE step = Done(BBO!PutOutside(h, msg), "ok")
  BY <1>1, <1>4
<1>5. ASSUME effect = "assert" PROVE step = Done(h, "assert")
  BY <1>1, <1>5
<1> QED BY <1>2, <1>3, <1>4, <1>5 DEF effect

LEMMA DepletionFacts ==
  ASSUME NEW h, HalfType(h), NEW msg, NEW step, step = BBO!ProcessHalf(h, msg),
         BBO!Effect(h, msg) = "depletion",
         NEW gone, gone = BBO!Depleted(h, msg), NEW left \in Int, left = Len(gone.entries)
  PROVE  /\ step.half = gone
         /\ step.outcome \in {"updt_req", "assert", "no_shares_in_range", "ok"}
         /\ step.outcome = "updt_req" => h.in_range > 0 /\ left = BBO_DEPTH - 1
         /\ step.outcome = "assert" => h.in_range > 0 /\ left # BBO_DEPTH - 1
         /\ step.outcome = "no_shares_in_range" => h.in_range <= 0 /\ h.outside > 0
         /\ step.outcome = "ok" => h.in_range <= 0 /\ h.outside <= 0
<1> DEFINE effect == BBO!Effect(h, msg)
           Done(half, outcome) == [half |-> half, outcome |-> outcome]
           supplied == h.in_range > 0
           outside == h.outside > 0
           free == left = BBO_DEPTH - 1
           used == h.in_range <= 0
           after == CASE supplied /\ free -> "updt_req"
                      [] supplied /\ ~free -> "assert"
                      [] used /\ outside -> "no_shares_in_range"
                      [] OTHER -> "ok"
<1>0. used = ~supplied /\ (h.outside <= 0) = ~outside
  BY HalfFacts
<1>1. step =
        CASE effect = "modify"    -> Done(BBO!Modified(h, msg), "ok")
          [] effect = "insertion" -> Done(BBO!Inserted(h, msg), "ok")
          [] effect = "outside"   -> Done(BBO!PutOutside(h, msg), "ok")
          [] effect = "assert"    -> Done(h, "assert")
          [] effect = "depletion" -> Done(gone, after)
  BY DEF BBO!ProcessHalf
<1>2. step = Done(gone, after)
  <2> HIDE DEF after
  <2> QED BY <1>1
<1>3. step.half = gone /\ step.outcome = after
  <2> HIDE DEF after
  <2> QED BY <1>2
<1> HIDE DEF supplied, outside, free, used
<1>4. CASE supplied /\ free
  <2>1. after = "updt_req"
    BY <1>0, <1>4
  <2> QED BY <1>3, <1>4, <2>1 DEF supplied, free
<1>5. CASE supplied /\ ~free
  <2>1. after = "assert"
    BY <1>0, <1>5
  <2> QED BY <1>3, <1>5, <2>1 DEF supplied, free
<1>6. CASE ~supplied /\ outside
  <2>1. after = "no_shares_in_range" /\ used
    BY <1>0, <1>6
  <2> QED BY <1>3, <1>6, <2>1 DEF used, outside
<1>7. CASE ~supplied /\ ~outside
  <2>1. after = "ok" /\ used /\ h.outside <= 0
    BY <1>0, <1>7
  <2> QED BY <1>3, <2>1 DEF used
<1> QED BY <1>4, <1>5, <1>6, <1>7

(* Whatever happens, the half stays a half. *)
LEMMA StepType ==
  ASSUME NEW h, HalfType(h), NEW msg \in DownstreamOrderMsg,
         NEW step, step = BBO!ProcessHalf(h, msg)
  PROVE  /\ HalfType(step.half)
         /\ step.outcome \in {"updt_req", "assert", "no_shares_in_range", "ok"}
         /\ step.outcome = "updt_req" => Len(step.half.entries) = BBO_DEPTH - 1
<1> DEFINE i == BBO!FirstHit(h, msg)
           effect == BBO!Effect(h, msg)
<1>1. effect \in {"outside", "modify", "depletion", "insertion", "assert"}
  BY EffectFacts
<1>2. effect # "outside" => i \in 1 .. Len(h.entries)
  BY EffectFacts, FirstHitFacts
<1>3. CASE effect = "outside"
  BY <1>3, PutOutsideType, ProcessHalfFacts
<1>4. CASE effect = "modify"
  BY <1>2, <1>4, ModifiedFacts, ProcessHalfFacts
<1>5. CASE effect = "insertion"
  BY <1>2, <1>5, InsertedType, ProcessHalfFacts
<1>6. CASE effect = "assert" /\ i \in 1 .. Len(h.entries)
  BY <1>6, ProcessHalfFacts
<1>7. CASE effect = "depletion"
  <2> DEFINE gone == BBO!Depleted(h, msg)
  <2>1. HalfType(gone)
    BY <1>2, <1>7, DepletedFacts
  <2>2. gone = BBO!Depleted(h, msg)
    OBVIOUS
  <2> HIDE DEF gone
  <2> DEFINE left == Len(gone.entries)
  <2>3. left \in Int
    BY <2>1, HalfFacts
  <2>4. left = Len(gone.entries)
    OBVIOUS
  <2> HIDE DEF left
  <2>5. /\ step.half = gone
        /\ step.outcome \in {"updt_req", "assert", "no_shares_in_range", "ok"}
        /\ step.outcome = "updt_req" => left = BBO_DEPTH - 1
    BY <1>7, <2>2, <2>3, <2>4, DepletionFacts
  <2> QED BY <2>1, <2>4, <2>5
<1> QED BY <1>1, <1>2, <1>3, <1>4, <1>5, <1>6, <1>7

(* No assertion of the scan fails: a message that takes shares away finds  *)
(* its level where the scan looks for it.                                  *)
LEMMA ScanFinds ==
  ASSUME NEW book, IsBook(book), NEW after, NEW id, NEW msg \in DownstreamOrderMsg,
         Moves(book, after, id, msg), NEW h, HalfType(h), HalfFollows(h, book, msg.is_buy)
  PROVE  BBO!Effect(h, msg) # "assert"
<1> DEFINE i == BBO!FirstHit(h, msg)
           side == msg.is_buy
           e == h.entries
<1> SUFFICES ASSUME BBO!Effect(h, msg) = "assert" PROVE FALSE
  OBVIOUS
<1>0. side \in BOOLEAN /\ msg.price \in Nat /\ msg.shares \in Nat
  BY PricesAssumption DEF DownstreamOrderMsg
<1>1. /\ i \in 1 .. Len(e) /\ i \in BBO!Hits(h, msg)
      /\ \A j \in 1 .. Len(e) : j < i => j \notin BBO!Hits(h, msg)
      /\ ~BringsShares(msg)
      /\ e[i].price # msg.price \/ (~(e[i].shares > msg.shares) /\ e[i].shares # msg.shares)
  BY EffectFacts, FirstHitFacts
<1>2. /\ e \in Seq(Levels1) /\ Len(e) \in Nat
      /\ InOrder(e, side) /\ HasShares(e, book, side) /\ LeavesOut(e, book, side, BBO_DEPTH)
  BY HalfFacts DEF HalfFollows, RankedTo
<1>3. e[i].price \in Nat /\ e[i].shares \in Nat
  BY <1>1, <1>2, LevelFields
<1>4. msg.price \in SidePrices(book, side) /\ Total(book, {<<side, msg.price>>}) >= msg.shares
  BY <1>1, LeavingLevel
<1>5. CASE e[i].price = msg.price
  <2>1. e[i].shares = Total(book, {<<side, e[i].price>>})
    BY <1>1, <1>2 DEF HasShares
  <2> QED BY <1>0, <1>1, <1>3, <1>4, <1>5, <2>1
<1>6. CASE e[i].price # msg.price
  <2>1. BBO!Improves(side, msg.price, e[i].price)
    BY <1>1, <1>6, ScanFacts
  <2>2. CASE msg.price \notin HeldBy(e)
    <3>1. BBO!Improves(side, e[i].price, msg.price)
      BY <1>1, <1>2, <1>4, <2>2 DEF LeavesOut
    <3> QED BY <1>0, <1>3, <2>1, <3>1, PriceOrder
  <2>3. CASE msg.price \in HeldBy(e)
    <3>1. PICK j \in 1 .. Len(e) : e[j].price = msg.price
      BY <2>3 DEF HeldBy
    <3>2. j \in BBO!Hits(h, msg)
      BY <3>1, HalfFacts DEF BBO!Hits
    <3>3. i < j
      BY <1>1, <1>2, <1>6, <3>1, <3>2
    <3>4. BBO!Improves(side, e[i].price, e[j].price)
      BY <1>1, <1>2, <3>3 DEF InOrder
    <3> QED BY <1>0, <1>3, <2>1, <3>1, <3>4, PriceOrder
  <2> QED BY <2>2, <2>3
<1> QED BY <1>5, <1>6

(* What the half answers, it answers of the book as the message leaves it. *)
LEMMA StepFollows ==
  ASSUME NEW book, IsBook(book), NEW after, NEW id, NEW msg \in DownstreamOrderMsg,
         Moves(book, after, id, msg), NEW h, HalfType(h), HalfFollows(h, book, msg.is_buy),
         NEW step, step = BBO!ProcessHalf(h, msg)
  PROVE  /\ step.outcome # "assert"
         /\ step.outcome = "ok" => HalfFollows(step.half, after, msg.is_buy)
         /\ step.outcome = "updt_req" =>
              /\ RankedTo(step.half.entries, after, msg.is_buy, BBO_DEPTH - 1)
              /\ Counted(step.half, step.half.entries, after, msg.is_buy)
              /\ step.half.in_range > 0
<1> DEFINE effect == BBO!Effect(h, msg)
           side == msg.is_buy
<1>1. effect \in {"outside", "modify", "depletion", "insertion"}
  BY EffectFacts, ScanFinds
<1>2. CASE effect = "outside"
  <2>1. HalfFollows(BBO!PutOutside(h, msg), after, msg.is_buy)
    BY <1>2, EffectFacts, PutOutsideFollows
  <2> QED BY <1>2, <2>1, ProcessHalfFacts
<1>3. CASE effect = "modify"
  BY <1>3, ModifiedFollows, ProcessHalfFacts
<1>4. CASE effect = "insertion"
  BY <1>4, InsertedFollows, ProcessHalfFacts
<1>5. CASE effect = "depletion"
  <2> DEFINE gone == BBO!Depleted(h, msg)
             left == Len(gone.entries)
             i == BBO!FirstHit(h, msg)
  <2>0. i \in 1 .. Len(h.entries) /\ side \in BOOLEAN /\ IsBook(after) /\ BBO_DEPTH \in Nat
    BY <1>5, EffectFacts, FirstHitFacts, LevelsMove, WindowSize DEF DownstreamOrderMsg
  <2>1. /\ HalfType(gone) /\ gone.outside = h.outside /\ gone.in_range = h.in_range
        /\ left = Len(h.entries) - 1
    BY <1>5, <2>0, DepletedFacts
  <2>2. RankedTo(gone.entries, after, side, BBO_DEPTH - 1) /\ Counted(gone, gone.entries, after, side)
    BY <1>5, DepletedFollows
  <2>3. gone = BBO!Depleted(h, msg)
    OBVIOUS
  <2> HIDE DEF gone
  <2>4. left \in Nat /\ left = Len(gone.entries) /\ left <= BBO_DEPTH - 1
    <3>1. Len(h.entries) \in Nat /\ Len(h.entries) <= BBO_DEPTH /\ Len(gone.entries) \in Nat
      BY <2>1, HalfFacts DEF HalfType
    <3> HIDE DEF left
    <3>2. left = Len(gone.entries)
      BY DEF left
    <3> QED BY <2>0, <2>1, <3>1, <3>2
  <2> HIDE DEF left
  <2>5. /\ step.half = gone
        /\ step.outcome \in {"updt_req", "assert", "no_shares_in_range", "ok"}
        /\ step.outcome = "updt_req" => h.in_range > 0 /\ left = BBO_DEPTH - 1
        /\ step.outcome = "assert" => h.in_range > 0 /\ left # BBO_DEPTH - 1
        /\ step.outcome = "ok" => h.in_range <= 0 /\ h.outside <= 0
    BY <1>5, <2>3, <2>4, DepletionFacts
  <2>6. step.outcome # "assert"
    <3>1. SUFFICES ASSUME h.in_range > 0, left # BBO_DEPTH - 1 PROVE FALSE
      BY <2>5
    <3>2. Total(after, Supply(gone.entries, side)) > 0
      BY <2>1, <2>2, <3>1 DEF Counted
    <3>3. PICK p \in SidePrices(after, side) : p \notin HeldBy(gone.entries)
      BY <2>0, <3>2, BeyondFacts
    <3>4. Len(gone.entries) >= BBO_DEPTH - 1
      BY <2>2, <3>3 DEF RankedTo, LeavesOut
    <3> QED BY <2>0, <2>4, <3>1, <3>4
  <2>7. ASSUME step.outcome = "ok"
        PROVE  HalfFollows(gone, after, side)
    <3>1. Total(after, Beyond(gone.entries, side)) = 0
      <4>1. h.outside <= 0 /\ h.outside = Total(after, Beyond(gone.entries, side))
        BY <2>1, <2>2, <2>5, <2>7 DEF Counted
      <4>2. Total(after, Beyond(gone.entries, side)) \in Nat
        BY <2>0, TotalFacts
      <4> QED BY <4>1, <4>2
    <3>2. \A p \in SidePrices(after, side) : p \in HeldBy(gone.entries)
      BY <2>0, <3>1, BeyondFacts
    <3> QED BY <2>2, <3>2 DEF HalfFollows, RankedTo, LeavesOut
  <2> QED BY <2>1, <2>2, <2>5, <2>6, <2>7
<1> QED BY <1>1, <1>2, <1>3, <1>4, <1>5

----------------------------------------------------------------------------
(* Ranks: the k-th register holds the k-th best level. *)

Upto(e, k) == {e[j].price : j \in 1 .. k}

LEMMA UptoCount ==
  ASSUME NEW side \in BOOLEAN, NEW e \in Seq(Levels1), InOrder(e, side), NEW k \in 0 .. Len(e)
  PROVE  IsFiniteSet(Upto(e, k)) /\ Cardinality(Upto(e, k)) = k
<1> DEFINE f == [j \in 1 .. k |-> e[j].price]
           T == Upto(e, k)
<1>0. Len(e) \in Nat /\ k \in Nat
  OBVIOUS
<1>1. IsFiniteSet(1 .. k) /\ Cardinality(1 .. k) = k
  BY <1>0, FS_Interval
<1>2. f \in Surjection(1 .. k, T)
  BY DEF Surjection, Upto
<1>3. f \in Injection(1 .. k, T)
  <2>1. f \in [1 .. k -> T]
    BY DEF Upto
  <2>2. ASSUME NEW x \in 1 .. k, NEW y \in 1 .. k, f[x] = f[y]
        PROVE  x = y
    <3>1. x \in 1 .. Len(e) /\ y \in 1 .. Len(e) /\ e[x].price = e[y].price
      BY <1>0, <2>2
    <3> QED BY <3>1, OneEach
  <2> HIDE DEF f, T
  <2> QED BY <2>1, <2>2 DEF Injection, IsInjective
<1> HIDE DEF f, T
<1>4. IsFiniteSet(T) /\ Cardinality(T) = Cardinality(1 .. k)
  BY <1>1, <1>2, <1>3, FS_Surjection
<1> QED BY <1>1, <1>4 DEF T

LEMMA HeldCount ==
  ASSUME NEW side \in BOOLEAN, NEW e \in Seq(Levels1), InOrder(e, side)
  PROVE  IsFiniteSet(HeldBy(e)) /\ Cardinality(HeldBy(e)) = Len(e)
<1>1. Len(e) \in 0 .. Len(e) /\ HeldBy(e) = Upto(e, Len(e))
  BY DEF HeldBy, Upto
<1> QED BY <1>1, UptoCount

LEMMA RankHeld ==
  ASSUME NEW side \in BOOLEAN, NEW e \in Seq(Levels1), InOrder(e, side),
         NEW S, HeldBy(e) \subseteq S,
         \A p \in S : p \notin HeldBy(e) =>
           p \in Nat /\ \A j \in 1 .. Len(e) : BBO!Improves(side, e[j].price, p),
         NEW i \in 1 .. Len(e)
  PROVE  L2!Rank(side, e[i].price, S) = i
<1>0. Len(e) \in Nat /\ e[i].price \in Nat
  BY LevelFields
<1>1. ASSUME NEW p \in Ahead(side, e[i].price, S)
      PROVE  p \in Upto(e, i - 1)
  <2>1. p \in S /\ BBO!Improves(side, p, e[i].price)
    BY DEF Ahead
  <2>2. CASE p \notin HeldBy(e)
    <3>1. p \in Nat /\ BBO!Improves(side, e[i].price, p)
      BY <2>1, <2>2
    <3> QED BY <1>0, <2>1, <3>1, PriceOrder
  <2>3. CASE p \in HeldBy(e)
    <3>1. PICK j \in 1 .. Len(e) : p = e[j].price
      BY <2>3 DEF HeldBy
    <3>2. p \in Nat
      BY <3>1, LevelFields
    <3>3. ~(i < j)
      BY <1>0, <2>1, <3>1, <3>2, PriceOrder DEF InOrder
    <3>4. i # j
      BY <1>0, <2>1, <3>1, PriceOrder
    <3>5. j \in 1 .. i - 1
      BY <1>0, <3>3, <3>4
    <3> QED BY <3>1, <3>5 DEF Upto
  <2> QED BY <2>2, <2>3
<1>2. ASSUME NEW j \in 1 .. i - 1
      PROVE  e[j].price \in Ahead(side, e[i].price, S)
  <2>1. j \in 1 .. Len(e) /\ j < i
    BY <1>0
  <2> QED BY <2>1 DEF Ahead, InOrder, HeldBy
<1>3. Ahead(side, e[i].price, S) = Upto(e, i - 1)
  BY <1>1, <1>2 DEF Upto
<1>4. i - 1 \in 0 .. Len(e) /\ 1 + (i - 1) = i
  BY <1>0
<1>5. Cardinality(Upto(e, i - 1)) = i - 1
  BY <1>4, UptoCount
<1> QED BY <1>3, <1>4, <1>5, RankAhead

(* The price that follows those in the registers is the best left outside. *)
LEMMA RankNext ==
  ASSUME NEW side \in BOOLEAN, NEW e \in Seq(Levels1), InOrder(e, side),
         NEW S, IsFiniteSet(S), HeldBy(e) \subseteq S,
         \A p \in S : p \notin HeldBy(e) =>
           p \in Nat /\ \A j \in 1 .. Len(e) : BBO!Improves(side, e[j].price, p),
         NEW q \in S, L2!Rank(side, q, S) = Len(e) + 1
  PROVE  /\ q \notin HeldBy(e)
         /\ \A p \in S : p \notin HeldBy(e) => p = q \/ BBO!Improves(side, q, p)
<1>0. Len(e) \in Nat
  OBVIOUS
<1>1. q \notin HeldBy(e)
  <2>1. SUFFICES ASSUME NEW i \in 1 .. Len(e), q = e[i].price PROVE FALSE
    BY DEF HeldBy
  <2>2. L2!Rank(side, q, S) = i
    BY <2>1, RankHeld
  <2> QED BY <1>0, <2>2
<1>2. HeldBy(e) \subseteq Ahead(side, q, S)
  BY <1>1 DEF Ahead, HeldBy
<1>3. IsFiniteSet(Ahead(side, q, S)) /\ Cardinality(Ahead(side, q, S)) \in Nat
  <2>1. Ahead(side, q, S) \in SUBSET S
    BY DEF Ahead
  <2> QED BY <2>1, FS_Subset, FS_CardinalityType
<1>4. Cardinality(Ahead(side, q, S)) = Len(e)
  <2>1. L2!Rank(side, q, S) = 1 + Cardinality(Ahead(side, q, S))
    BY RankAhead
  <2> QED BY <1>0, <1>3, <2>1
<1>5. Ahead(side, q, S) = HeldBy(e)
  <2>1. HeldBy(e) \in SUBSET Ahead(side, q, S) /\ Cardinality(HeldBy(e)) = Len(e)
    BY <1>2, HeldCount
  <2> QED BY <1>3, <1>4, <2>1, FS_Subset
<1>6. ASSUME NEW p \in S, p \notin HeldBy(e)
      PROVE  p = q \/ BBO!Improves(side, q, p)
  <2>1. p \in Nat /\ q \in Nat
    BY <1>1, <1>6
  <2>2. ~BBO!Improves(side, p, q)
    BY <1>5, <1>6 DEF Ahead
  <2> QED BY <2>1, <2>2, PriceOrder
<1> QED BY <1>1, <1>6

----------------------------------------------------------------------------
(* The level L2 supplies. *)

(* A message that L2 takes in, or leaves out as too far from the market,   *)
(* is on the right side of L2's window.                                    *)
RightSide(book) ==
  \A id \in DOMAIN book :
    IF book[id].is_buy THEN book[id].price <= L2!price_max ELSE book[id].price >= price_base

LEMMA RightSideLevels ==
  ASSUME NEW book, RightSide(book), NEW side \in BOOLEAN, NEW p \in SidePrices(book, side)
  PROVE  L2!InWindow(p) <=> BBO!WithinBound(side, p)
<1>1. PICK id \in DOMAIN book : book[id].is_buy = side /\ book[id].price = p
  BY DEF SidePrices, OrdersOf
<1>2. BBO!WithinBound(side, p) = IF side THEN p >= price_base ELSE p <= L2!price_max
  BY DEF BBO!WithinBound
<1>3. CASE side
  <2>1. p <= L2!price_max
    BY <1>1, <1>3 DEF RightSide
  <2>2. BBO!WithinBound(side, p) <=> p >= price_base
    BY <1>2, <1>3
  <2>3. L2!InWindow(p) <=> price_base <= p
    BY <2>1 DEF L2!InWindow
  <2>4. p >= price_base <=> price_base <= p
    OBVIOUS
  <2> QED BY <2>2, <2>3, <2>4
<1>4. CASE ~side
  <2>1. price_base <= p
    <3>1. p >= price_base
      BY <1>1, <1>4 DEF RightSide
    <3> QED BY <3>1
  <2>2. BBO!WithinBound(side, p) <=> p <= L2!price_max
    BY <1>2, <1>4
  <2> QED BY <2>1, <2>2 DEF L2!InWindow
<1> QED BY <1>3, <1>4

(* L2 has the level a half asks for: the best of those it does not hold.   *)
LEMMA SupplyFollows ==
  ASSUME NEW book, IsBook(book), Uncrossed(book), RightSide(book), NEW side \in BOOLEAN,
         NEW a, NEW b, NEW o, Exact(book, a, b, o),
         NEW S, S = IF side THEN b ELSE o, IsFiniteSet(S),
         NEW g, HalfType(g), NEW e, e = g.entries, Len(e) = BBO_DEPTH - 1,
         RankedTo(e, book, side, BBO_DEPTH - 1), Counted(g, e, book, side), g.in_range > 0
  PROVE  Cardinality(S) >= BBO_DEPTH
<1>0. BBO_DEPTH \in Nat /\ BBO_DEPTH >= 2 /\ e \in Seq(Levels1)
  BY HalfFacts, WindowSize
<1>1. InOrder(e, side) /\ HasShares(e, book, side) /\ LeavesOut(e, book, side, BBO_DEPTH - 1)
  BY DEF RankedTo
<1>2. S = {p \in SidePrices(book, side) : L2!InWindow(p)}
  <2>1. b = Levels(book, TRUE) /\ o = Levels(book, FALSE)
    BY DEF Exact
  <2>2. S = Levels(book, side)
    BY <2>1
  <2> QED BY <2>2 DEF Levels
<1>3. PICK p \in SidePrices(book, side) : p \notin HeldBy(e) /\ BBO!WithinBound(side, p)
  <2>1. Total(book, Supply(e, side)) > 0
    BY DEF Counted
  <2> QED BY <2>1, BeyondFacts
<1>4. HeldBy(e) \subseteq S
  <2> SUFFICES ASSUME NEW q \in HeldBy(e) PROVE q \in S
    OBVIOUS
  <2>1. q \in SidePrices(book, side)
    BY <1>0, <1>1, HeldFacts
  <2>2. BBO!Improves(side, q, p)
    BY <1>1, <1>3 DEF LeavesOut, HeldBy
  <2>3. q \in Nat /\ p \in Nat
    BY <1>3, <2>1, SideTypes, PricesAssumption
  <2>4. price_base \in Nat /\ L2!price_max \in Int
    BY WindowSize DEF L2!price_max
  <2>5. BBO!WithinBound(side, q)
    BY <1>3, <2>2, <2>3, <2>4 DEF BBO!WithinBound, BBO!Improves
  <2> QED BY <1>2, <2>1, <2>5, RightSideLevels
<1>5. p \in S
  BY <1>2, <1>3, RightSideLevels
<1>6. HeldBy(e) \cup {p} \in SUBSET S
  BY <1>4, <1>5
<1>7. IsFiniteSet(HeldBy(e)) /\ Cardinality(HeldBy(e)) = Len(e)
  BY <1>0, <1>1, HeldCount
<1>8. Cardinality(HeldBy(e) \cup {p}) = BBO_DEPTH
  <2>1. Cardinality(HeldBy(e) \cup {p}) = Cardinality(HeldBy(e)) + 1
    BY <1>3, <1>7, FS_AddElement
  <2> QED BY <1>0, <1>7, <2>1
<1>9. Cardinality(HeldBy(e) \cup {p}) <= Cardinality(S) /\ Cardinality(S) \in Nat
  BY <1>6, FS_Subset, FS_CardinalityType
<1> QED BY <1>0, <1>8, <1>9

(* With that level the registers hold the best levels again. *)
LEMMA RefillFollows ==
  ASSUME NEW book, IsBook(book), Uncrossed(book), RightSide(book), NEW side \in BOOLEAN,
         NEW a, NEW b, NEW o, Exact(book, a, b, o),
         NEW S, S = IF side THEN b ELSE o, IsFiniteSet(S),
         NEW g, HalfType(g), NEW e, e = g.entries, Len(e) = BBO_DEPTH - 1,
         RankedTo(e, book, side, BBO_DEPTH - 1), Counted(g, e, book, side), g.in_range > 0,
         NEW q \in S, L2!Rank(side, q, S) = BBO_DEPTH,
         NEW level, level = [shares |-> a[L2!price_hash(q)], price |-> q]
  PROVE  HalfFollows(BBO!Updated(g, level), book, side)
<1> DEFINE n == Append(e, level)
           m == BBO!Updated(g, level)
<1>0. /\ BBO_DEPTH \in Nat /\ BBO_DEPTH >= 2 /\ e \in Seq(Levels1)
      /\ g.outside \in Int /\ g.in_range \in Int
  BY HalfFacts, WindowSize
<1>1. /\ InOrder(e, side) /\ HasShares(e, book, side) /\ LeavesOut(e, book, side, BBO_DEPTH - 1)
      /\ g.outside = Total(book, Beyond(e, side)) /\ g.in_range = Total(book, Supply(e, side))
  BY DEF RankedTo, Counted
<1>2. S = {p \in SidePrices(book, side) : L2!InWindow(p)}
  <2>1. b = Levels(book, TRUE) /\ o = Levels(book, FALSE)
    BY DEF Exact
  <2>2. S = Levels(book, side)
    BY <2>1
  <2> QED BY <2>2 DEF Levels
<1>3. \A p \in SidePrices(book, side) : p \in Nat /\ p \in Prices
  BY SideTypes, PricesAssumption
<1>4. \A p \in SidePrices(book, side) :
        p \notin HeldBy(e) => \A j \in 1 .. Len(e) : BBO!Improves(side, e[j].price, p)
  BY <1>1 DEF LeavesOut
<1>5. PICK x \in SidePrices(book, side) : x \notin HeldBy(e) /\ BBO!WithinBound(side, x)
  <2>1. Total(book, Supply(e, side)) > 0
    BY <1>1
  <2> QED BY <2>1, BeyondFacts
<1>6. /\ \A y \in SidePrices(book, side) :
           BBO!Improves(side, y, x) => BBO!WithinBound(side, y)
      /\ \A y, z \in SidePrices(book, side) :
           BBO!WithinBound(side, y) /\ ~BBO!WithinBound(side, z) => BBO!Improves(side, y, z)
  <2>1. price_base \in Nat /\ L2!price_max \in Int
    BY WindowSize DEF L2!price_max
  <2> QED BY <1>3, <1>5, <2>1 DEF BBO!WithinBound, BBO!Improves
<1>7. HeldBy(e) \subseteq S
  <2> SUFFICES ASSUME NEW y \in HeldBy(e) PROVE y \in S
    OBVIOUS
  <2>1. y \in SidePrices(book, side)
    BY <1>0, <1>1, HeldFacts
  <2>2. BBO!Improves(side, y, x)
    BY <1>4, <1>5 DEF HeldBy
  <2> QED BY <1>2, <1>6, <2>1, <2>2, RightSideLevels
<1>8. /\ q \notin HeldBy(e)
      /\ \A p \in S : p \notin HeldBy(e) => p = q \/ BBO!Improves(side, q, p)
  <2>1. \A p \in S : p \notin HeldBy(e) =>
          p \in Nat /\ \A j \in 1 .. Len(e) : BBO!Improves(side, e[j].price, p)
    BY <1>2, <1>3, <1>4
  <2>2. L2!Rank(side, q, S) = Len(e) + 1
    BY <1>0
  <2> QED BY <1>0, <1>1, <1>7, <2>1, <2>2, RankNext
<1>9. q \in SidePrices(book, side) /\ q \in Prices /\ BBO!WithinBound(side, q)
  BY <1>2, <1>3, RightSideLevels
<1>10. \A p \in SidePrices(book, side) :
         p \notin HeldBy(e) => p = q \/ BBO!Improves(side, q, p)
  <2> SUFFICES ASSUME NEW p \in SidePrices(book, side), p \notin HeldBy(e)
               PROVE  p = q \/ BBO!Improves(side, q, p)
    OBVIOUS
  <2>1. CASE BBO!WithinBound(side, p)
    BY <1>2, <1>8, <2>1, RightSideLevels
  <2>2. CASE ~BBO!WithinBound(side, p)
    BY <1>6, <1>9, <2>2
  <2> QED BY <2>1, <2>2
<1>11. level.price = q /\ level.shares = Total(book, {<<side, q>>}) /\ level \in Levels1
  <2>1. q \in b \cup o
    BY <1>9
  <2>2. a[L2!price_hash(q)] = Total(book, BothSides(q))
    BY <2>1 DEF Exact
  <2>3. Total(book, BothSides(q)) = Total(book, {<<side, q>>})
    BY <1>9, ApartFacts
  <2>4. Total(book, {<<side, q>>}) \in Nat /\ Total(book, {<<side, q>>}) # 0
    BY <1>9, TotalFacts, LevelHasShares
  <2> QED BY <1>9, <2>2, <2>3, <2>4 DEF Levels1
<1>12. Joins(n, e, level) /\ InOrder(n, side)
  <2>1. \A j \in 1 .. Len(e) : BBO!Improves(side, e[j].price, level.price)
    BY <1>4, <1>8, <1>9, <1>11
  <2>2. n = Append(e, level)
    OBVIOUS
  <2> HIDE DEF n
  <2> QED BY <1>0, <1>1, <1>11, <2>1, <2>2, AppendedLevels
<1>13. /\ m.entries = n /\ m.outside = g.outside - level.shares
       /\ m.in_range = g.in_range - level.shares
  BY DEF BBO!Updated
<1> HIDE DEF n, m
<1>14. /\ Len(n) = BBO_DEPTH /\ HeldBy(n) = HeldBy(e) \cup {q}
       /\ \A k \in 1 .. Len(n) : n[k] = level \/ \E j \in 1 .. Len(e) : n[k] = e[j]
  BY <1>0, <1>11, <1>12 DEF Joins
<1>15. HasShares(n, book, side)
  <2> SUFFICES ASSUME NEW k \in 1 .. Len(n)
               PROVE  n[k].shares = Total(book, {<<side, n[k].price>>})
    BY DEF HasShares
  <2>1. CASE n[k] = level
    BY <1>11, <2>1
  <2>2. CASE \E j \in 1 .. Len(e) : n[k] = e[j]
    BY <1>1, <2>2 DEF HasShares
  <2> QED BY <1>14, <2>1, <2>2
<1>16. LeavesOut(n, book, side, BBO_DEPTH)
  <2> SUFFICES ASSUME NEW p \in SidePrices(book, side), p \notin HeldBy(n)
               PROVE  /\ Len(n) >= BBO_DEPTH
                      /\ \A k \in 1 .. Len(n) : BBO!Improves(side, n[k].price, p)
    BY DEF LeavesOut
  <2>1. p \notin HeldBy(e) /\ p # q
    BY <1>14
  <2>2. ASSUME NEW k \in 1 .. Len(n)
        PROVE  BBO!Improves(side, n[k].price, p)
    BY <1>4, <1>10, <1>11, <1>14, <2>1
  <2> QED BY <1>0, <1>14, <2>2
<1>17. Counted(m, n, book, side)
  <2>1. Total(book, Beyond(e, side)) = Total(book, Beyond(n, side)) + Total(book, {<<side, q>>})
    BY <1>8, <1>9, <1>14, GrowBeyond
  <2>2. Total(book, Supply(e, side)) = Total(book, Supply(n, side)) + Total(book, {<<side, q>>})
    BY <1>8, <1>9, <1>14, GrowSupply
  <2>3. Total(book, Beyond(n, side)) \in Nat /\ Total(book, Supply(n, side)) \in Nat
        /\ Total(book, {<<side, q>>}) \in Nat
    BY TotalFacts
  <2> QED BY <1>1, <1>11, <1>13, <2>1, <2>2, <2>3 DEF Counted
<1>18. HalfFollows(m, book, side)
  BY <1>12, <1>13, <1>15, <1>16, <1>17 DEF HalfFollows, RankedTo
<1> QED BY <1>18 DEF m

(* A book has finitely many levels. *)
LEMMA FiniteLevels ==
  ASSUME NEW book, IsBook(book), NEW side
  PROVE  IsFiniteSet(SidePrices(book, side)) /\ IsFiniteSet(Levels(book, side))
<1> DEFINE f == [id \in OrdersOf(book, side) |-> book[id].price]
<1>1. IsFiniteSet(OrdersOf(book, side))
  <2>1. OrdersOf(book, side) \in SUBSET DOMAIN book
    BY DEF OrdersOf
  <2> QED BY <2>1, FS_Subset DEF IsBook
<1>2. f \in Surjection(OrdersOf(book, side), SidePrices(book, side))
  BY DEF Surjection, SidePrices
<1> HIDE DEF f
<1>3. IsFiniteSet(SidePrices(book, side))
  BY <1>1, <1>2, FS_Surjection
<1>4. Levels(book, side) \in SUBSET SidePrices(book, side)
  BY DEF Levels
<1>5. IsFiniteSet(Levels(book, side))
  BY <1>3, <1>4, FS_Subset
<1> QED BY <1>3, <1>5

(* The side sets are finite sets of prices. *)
LEMMA SupplyTypes ==
  ASSUME NEW book, IsBook(book), NEW a, NEW b, NEW o, Exact(book, a, b, o),
         NEW side \in BOOLEAN, NEW S, S = IF side THEN b ELSE o
  PROVE  /\ S = Levels(book, side) /\ IsFiniteSet(S)
         /\ S \subseteq SidePrices(book, side) /\ S \subseteq Prices /\ S \subseteq Nat
<1>1. S = Levels(book, side)
  <2>1. b = Levels(book, TRUE) /\ o = Levels(book, FALSE)
    BY DEF Exact
  <2> QED BY <2>1
<1>2. S \subseteq SidePrices(book, side)
  BY <1>1 DEF Levels
<1>3. S \subseteq Prices
  BY <1>2, SideTypes
<1>4. IsFiniteSet(S)
  BY <1>1, FiniteLevels
<1> QED BY <1>1, <1>2, <1>3, <1>4, PricesAssumption

(* The level L2 supplies has shares, whatever the registers hold. *)
LEMMA RefillType ==
  ASSUME NEW book, IsBook(book), NEW a, NEW b, NEW o, Exact(book, a, b, o),
         NEW side \in BOOLEAN, NEW S, S = IF side THEN b ELSE o, NEW q \in S,
         NEW g, HalfType(g), Len(g.entries) = BBO_DEPTH - 1,
         NEW level, level = [shares |-> a[L2!price_hash(q)], price |-> q]
  PROVE  HalfType(BBO!Updated(g, level))
<1>1. q \in SidePrices(book, side) /\ q \in Prices
  BY SupplyTypes
<1>2. a[L2!price_hash(q)] = Total(book, BothSides(q))
  BY DEF Exact
<1>3. Total(book, BothSides(q)) \in Nat \ {0}
  <2>1. PICK id \in DOMAIN book : book[id].is_buy = side /\ book[id].price = q
    BY <1>1 DEF SidePrices, OrdersOf
  <2>2. id \in At(book, BothSides(q))
    BY <2>1 DEF At, BothSides
  <2> QED BY <2>2, TotalFacts
<1>4. level \in Levels1 /\ level.shares \in Int
  BY <1>1, <1>2, <1>3 DEF Levels1
<1>5. /\ g.entries \in Seq(Levels1) /\ g.outside \in Int /\ g.in_range \in Int
      /\ BBO_DEPTH \in Nat
  BY HalfFacts, WindowSize
<1>6. Append(g.entries, level) \in Seq(Levels1) /\ Len(Append(g.entries, level)) = BBO_DEPTH
  BY <1>4, <1>5
<1>7. g.outside - level.shares \in Int /\ g.in_range - level.shares \in Int
  BY <1>4, <1>5
<1>8. BBO!Updated(g, level) = [entries |-> Append(g.entries, level),
                               outside |-> g.outside - level.shares,
                               in_range |-> g.in_range - level.shares]
  BY DEF BBO!Updated
<1> DEFINE entries == Append(g.entries, level)
           outside == g.outside - level.shares
           in_range == g.in_range - level.shares
<1> HIDE DEF entries, outside, in_range
<1>9. entries \in Seq(Levels1) /\ Len(entries) <= BBO_DEPTH /\ outside \in Int /\ in_range \in Int
  BY <1>5, <1>6, <1>7 DEF entries, outside, in_range
<1>10. HalfType([entries |-> entries, outside |-> outside, in_range |-> in_range])
  BY <1>9 DEF HalfType
<1> QED BY <1>8, <1>10 DEF entries, outside, in_range

(* The best level of a half is a level of the book. *)
LEMMA BestFacts ==
  ASSUME NEW book, IsBook(book), NEW side \in BOOLEAN, NEW h, HalfType(h),
         HasShares(h.entries, book, side), BBO!Best(h) # BBO!NoEntry
  PROVE  BBO!Best(h).price \in SidePrices(book, side)
<1>1. h.entries \in Seq(Levels1)
  BY HalfFacts
<1>2. h.entries # <<>> /\ BBO!Best(h) = h.entries[1]
  BY DEF BBO!Best
<1>3. 1 \in 1 .. Len(h.entries)
  BY <1>1, <1>2
<1>4. h.entries[1].price \in HeldBy(h.entries)
  BY <1>3 DEF HeldBy
<1> QED BY <1>1, <1>2, <1>4, HeldFacts

(* L2 can supply a level whenever a half asks for one. *)
LEMMA AnswerCan ==
  ASSUME NEW book, IsBook(book), NEW after, NEW id, NEW msg \in DownstreamOrderMsg,
         Moves(book, after, id, msg), Uncrossed(after), RightSide(after),
         NEW a, NEW b, NEW o, Exact(after, a, b, o),
         NEW S, S = IF msg.is_buy THEN b ELSE o,
         NEW h, HalfType(h), HalfFollows(h, book, msg.is_buy),
         NEW step, step = BBO!ProcessHalf(h, msg), step.outcome = "updt_req"
  PROVE  Cardinality(S) >= BBO_DEPTH
<1>1. IsBook(after) /\ msg.is_buy \in BOOLEAN
  BY LevelsMove DEF DownstreamOrderMsg
<1>2. /\ HalfType(step.half) /\ Len(step.half.entries) = BBO_DEPTH - 1
      /\ RankedTo(step.half.entries, after, msg.is_buy, BBO_DEPTH - 1)
      /\ Counted(step.half, step.half.entries, after, msg.is_buy)
      /\ step.half.in_range > 0
  BY StepType, StepFollows
<1>3. IsFiniteSet(S)
  BY <1>1, SupplyTypes
<1> DEFINE side == msg.is_buy  g == step.half  e == g.entries
<1>4. e = g.entries
  OBVIOUS
<1> HIDE DEF e
<1>5. Len(e) = BBO_DEPTH - 1 /\ RankedTo(e, after, side, BBO_DEPTH - 1) /\ Counted(g, e, after, side)
  BY <1>2, <1>4
<1> HIDE DEF g
<1>6. HalfType(g) /\ g.in_range > 0
  BY <1>2 DEF g
<1> QED BY <1>1, <1>3, <1>4, <1>5, <1>6, SupplyFollows

(* A half that has answered, and got the level it asked for, follows the   *)
(* book as the message leaves it.                                          *)
LEMMA AnswerRefilled ==
  ASSUME NEW book, IsBook(book), NEW after, NEW id, NEW msg \in DownstreamOrderMsg,
         Moves(book, after, id, msg), Uncrossed(after), RightSide(after),
         NEW a, NEW b, NEW o, Exact(after, a, b, o),
         NEW S, S = IF msg.is_buy THEN b ELSE o,
         NEW h, HalfType(h), HalfFollows(h, book, msg.is_buy),
         NEW step, step = BBO!ProcessHalf(h, msg), step.outcome = "updt_req",
         NEW q \in S, L2!Rank(msg.is_buy, q, S) = BBO_DEPTH,
         NEW level, level = [shares |-> a[L2!price_hash(q)], price |-> q]
  PROVE  HalfFollows(BBO!Updated(step.half, level), after, msg.is_buy)
<1>1. IsBook(after) /\ msg.is_buy \in BOOLEAN
  BY LevelsMove DEF DownstreamOrderMsg
<1>2. /\ HalfType(step.half) /\ Len(step.half.entries) = BBO_DEPTH - 1
      /\ RankedTo(step.half.entries, after, msg.is_buy, BBO_DEPTH - 1)
      /\ Counted(step.half, step.half.entries, after, msg.is_buy)
      /\ step.half.in_range > 0
  BY StepType, StepFollows
<1>3. IsFiniteSet(S)
  BY <1>1, SupplyTypes
<1> DEFINE side == msg.is_buy  g == step.half  e == g.entries
<1>4. e = g.entries
  OBVIOUS
<1> HIDE DEF e
<1>5. Len(e) = BBO_DEPTH - 1 /\ RankedTo(e, after, side, BBO_DEPTH - 1) /\ Counted(g, e, after, side)
  BY <1>2, <1>4
<1> HIDE DEF g
<1>6. HalfType(g) /\ g.in_range > 0
  BY <1>2 DEF g
<1>7. HalfFollows(BBO!Updated(g, level), after, side)
  BY <1>1, <1>3, <1>4, <1>5, <1>6, RefillFollows
<1> QED BY <1>7 DEF g

(* The level L2 supplies is never the best one. *)
LEMMA RefillKeepsBest ==
  ASSUME NEW g, HalfType(g), Len(g.entries) = BBO_DEPTH - 1, NEW level
  PROVE  BBO!Best(BBO!Updated(g, level)) = BBO!Best(g)
<1> DEFINE e == g.entries
<1>1. e \in Seq(Levels1) /\ Len(e) >= 1
  BY HalfFacts, WindowSize
<1>2. BBO!Updated(g, level).entries = Append(e, level)
  BY DEF BBO!Updated
<1> HIDE DEF e
<1>3. Append(e, level) # <<>> /\ Append(e, level)[1] = e[1] /\ e # <<>>
  <2>1. e \in Seq({e[k] : k \in 1 .. Len(e)} \cup {level}) /\ level \in {e[k] : k \in 1 .. Len(e)} \cup {level}
    BY <1>1
  <2> QED BY <1>1, <2>1
<1> QED BY <1>2, <1>3 DEF BBO!Best, e

(* GetUpdt picks the level of rank BBO_DEPTH: with as many levels as       *)
(* registers there is one.                                                 *)
LEMMA SupplyExists ==
  ASSUME NEW side \in BOOLEAN, NEW S, IsFiniteSet(S), S \subseteq Nat,
         Cardinality(S) >= BBO_DEPTH,
         NEW q, q = CHOOSE p \in S : L2!Rank(side, p, S) = BBO_DEPTH
  PROVE  q \in S /\ L2!Rank(side, q, S) = BBO_DEPTH
<1>1. BBO_DEPTH \in 1 .. Cardinality(S)
  BY WindowSize, FS_CardinalityType
<1>2. \E p \in S : L2!Rank(side, p, S) = BBO_DEPTH
  BY <1>1, RankExists
<1> QED BY <1>2

----------------------------------------------------------------------------

(* One message through the book. *)

HalvesType == HalfType(bid_module) /\ HalfType(off_module)

HalvesFollow ==
  /\ HalfFollows(bid_module, Priced, TRUE) /\ HalfFollows(off_module, Priced, FALSE)
  /\ bid_entry = BBO!Best(bid_module) /\ off_entry = BBO!Best(off_module)

(* What BBO can do with a message once L2 has taken it in. *)
Answers(msg, step) ==
  \/ BBOError(msg, step) \/ Processed(msg, step)
  \/ Refilled(msg, step) \/ BBORaised(msg, step)

(* The level L2 supplies to this half, of the book as the message leaves it. *)
LEMMA SupplyFacts ==
  ASSUME IsBook(Priced)', LevelsInv', NEW side \in BOOLEAN
  PROVE  \E S, q :
           /\ S = (IF side THEN bids' ELSE offs')
           /\ IsFiniteSet(S)
           /\ L2!CanUpdt(side)' <=> Cardinality(S) >= BBO_DEPTH
           /\ L2!CanUpdt(side)' =>
                /\ q \in S /\ L2!Rank(side, q, S) = BBO_DEPTH
                /\ L2!GetUpdt(side)' = [shares |-> arr'[L2!price_hash(q)], price |-> q]
<1> DEFINE S == IF side THEN bids' ELSE offs'
           q == CHOOSE p \in S : L2!Rank(side, p, S) = BBO_DEPTH
<1>1. Exact(Priced', arr', bids', offs') /\ IsBook(Priced')
  BY DEF LevelsInv, Exact, Levels, IsBook
<1>2. IsFiniteSet(S) /\ S \subseteq Nat
  BY <1>1, SupplyTypes
<1>3. L2!CanUpdt(side)' <=> Cardinality(S) >= BBO_DEPTH
  <2>1. L2!Cardinality(S) = Cardinality(S)
    BY DEF L2!Cardinality, Cardinality
  <2> QED BY <2>1 DEF L2!CanUpdt, L2!SideLevels
<1>4. L2!GetUpdt(side)' = [shares |-> arr'[L2!price_hash(q)], price |-> q]
  BY DEF L2!GetUpdt, L2!SideLevels, L2!SharesAt
<1>5. ASSUME Cardinality(S) >= BBO_DEPTH
      PROVE  q \in S /\ L2!Rank(side, q, S) = BBO_DEPTH
  <2>1. q = CHOOSE p \in S : L2!Rank(side, p, S) = BBO_DEPTH
    OBVIOUS
  <2> HIDE DEF q, S
  <2> QED BY <1>2, <1>5, <2>1, SupplyExists
<1>6. S = (IF side THEN bids' ELSE offs')
  OBVIOUS
<1> HIDE DEF q, S
<1> QED BY <1>2, <1>3, <1>4, <1>5, <1>6

(* A message L2 answers is on the right side of its window. *)
LEMMA StatusRight ==
  ASSUME NEW msg, L2!Status(msg) \in {"ok", "ignored"}
  PROVE  ~L2!WrongSideOfWindow(msg)
<1>1. /\ "off_tick" # "ok" /\ "off_tick" # "ignored"
      /\ "assert" # "ok" /\ "assert" # "ignored"
  OBVIOUS
<1>2. L2!Status(msg) = "ok" \/ L2!Status(msg) = "ignored"
  OBVIOUS
<1> QED BY <1>1, <1>2, Zenon DEF L2!Status

LEMMA RightSideKept ==
  ASSUME NEW book, IsBook(book), RightSide(book), NEW after, NEW id, NEW msg \in DownstreamOrderMsg,
         Moves(book, after, id, msg), ~L2!WrongSideOfWindow(msg)
  PROVE  RightSide(after)
<1>1. CASE Entering(book, after, id, msg)
  <2> DEFINE new == Order(msg.is_buy, msg.shares, msg.price)
  <2>1. after = Put(book, id, new) /\ new.is_buy = msg.is_buy /\ new.price = msg.price
    BY <1>1 DEF Entering, Order
  <2> HIDE DEF new
  <2>2. msg.price \in Nat /\ L2!price_max \in Int /\ price_base \in Int
    <3>1. msg.price \in Nat
      BY PricesAssumption DEF DownstreamOrderMsg
    <3>2. L2!price_max \in Int /\ price_base \in Int
      BY WindowSize DEF L2!price_max
    <3> QED BY <3>1, <3>2
  <2>3. IF msg.is_buy THEN msg.price <= L2!price_max ELSE msg.price >= price_base
    BY <2>2 DEF L2!WrongSideOfWindow
  <2> QED BY <2>1, <2>3 DEF RightSide, Put
<1>2. CASE Leaving(book, after, id, msg)
  <2> DEFINE left == Reduced(book[id], msg.shares)
  <2>1. id \in DOMAIN book /\ (after = Drop(book, id) \/ after = Put(book, id, left))
    BY <1>2 DEF Leaving
  <2>2. left.is_buy = book[id].is_buy /\ left.price = book[id].price
    BY <2>1, AtFacts DEF Reduced, L3Entry
  <2> HIDE DEF left
  <2> QED BY <2>1, <2>2 DEF RightSide, Put, Drop
<1> QED BY <1>1, <1>2 DEF Moves

(* What BBO finds when a message reaches it. *)
LEMMA StoredFacts ==
  ASSUME TableInv, IsFiniteSet(DOMAIN L3!Contents), Uncrossed(L3!Contents), LevelsInv,
         RightSide(Priced), NEW msg \in BookMsg, Stored(msg), Uncrossed(L3!Contents)'
  PROVE  /\ L3!LookupMsg(msg) \in DownstreamOrderMsg
         /\ IsBook(Priced) /\ Moves(Priced, Priced', msg.order_id, L3!LookupMsg(msg))
         /\ IsBook(Priced)' /\ Uncrossed(Priced)' /\ RightSide(Priced)' /\ LevelsInv'
<1> DEFINE m == L3!LookupMsg(msg)
<1>1. L3!Accept(msg) /\ L2!Status(m) \in {"ok", "ignored"}
  BY DEF Stored
<1>2. m \in DownstreamOrderMsg /\ Moves(L3!Contents, L3!Contents', msg.order_id, m)
  BY <1>1, AcceptMoves
<1>3. IsBook(L3!Contents)
  BY TableContents DEF IsBook
<1>4. L2!OnTick(m.price) /\ ~L2!WrongSideOfWindow(m)
  BY <1>1, L2StatusFacts, StatusRight
<1>5. LevelsInv'
  BY StoredLevels
<1> HIDE DEF m
<1>6. /\ IsBook(Priced) /\ Moves(Priced, Priced', msg.order_id, m)
  BY <1>2, <1>3, <1>4, TicksFacts, TicksMove, PricedTicks
<1>7. IsBook(Priced') /\ RightSide(Priced')
  BY <1>2, <1>4, <1>6, LevelsMove, RightSideKept
<1>8. Uncrossed(Priced')
  <2>1. \A side : SidePrices(Priced', side) \subseteq SidePrices(L3!Contents', side)
    BY PricedTicks DEF SidePrices, OrdersOf, Ticks
  <2>2. Uncrossed(L3!Contents')
    BY DEF Uncrossed, SidePrices, OrdersOf
  <2> QED BY <2>1, <2>2 DEF Uncrossed
<1>9. IsBook(Priced)' /\ Uncrossed(Priced)' /\ RightSide(Priced)'
  BY <1>7, <1>8 DEF IsBook, Uncrossed, RightSide, SidePrices, OrdersOf, IsDict
<1> QED BY <1>2, <1>5, <1>6, <1>9 DEF m

(* The halves a message leaves are halves, whatever BBO answers. *)
LEMMA AnswersType ==
  ASSUME HalvesType, NEW m \in DownstreamOrderMsg, IsBook(Priced)', LevelsInv',
         NEW step, step = BBO!HalfStep(m), Answers(m, step)
  PROVE  HalvesType'
<1> DEFINE h == BBO!Half(m.is_buy)
<1>0. m.is_buy \in BOOLEAN /\ HalfType(h)
  BY DEF DownstreamOrderMsg, BBO!Half, HalvesType
<1>1. step = BBO!ProcessHalf(h, m)
  BY DEF BBO!HalfStep
<1> HIDE DEF h
<1>2. HalfType(step.half) /\ (step.outcome = "updt_req" => Len(step.half.entries) = BBO_DEPTH - 1)
  BY <1>0, <1>1, StepType
<1>3. ASSUME NEW g, HalfType(g), BBO!SetHalf(m.is_buy, g)
      PROVE  HalvesType'
  BY <1>0, <1>3 DEF BBO!SetHalf, HalvesType, HalfType
<1>4. CASE BBOError(m, step)
  BY <1>2, <1>3, <1>4 DEF BBOError, BBO!Lose
<1>5. CASE Processed(m, step)
  BY <1>2, <1>3, <1>5 DEF Processed, BBO!Renew
<1>6. CASE Refilled(m, step)
  <2> DEFINE level == L2!GetUpdt(m.is_buy)'
             g == BBO!Updated(step.half, level)
  <2>1. BBO!SetHalf(m.is_buy, g) /\ L2!CanUpdt(m.is_buy)' /\ step.outcome = "updt_req"
    BY <1>6 DEF Refilled, BBO!Renew, BBO!Outcome
  <2>2. PICK S, q : /\ S = (IF m.is_buy THEN bids' ELSE offs') /\ q \in S
                    /\ level = [shares |-> arr'[L2!price_hash(q)], price |-> q]
    BY <1>0, <2>1, SupplyFacts
  <2>3. Exact(Priced', arr', bids', offs') /\ IsBook(Priced')
    BY DEF LevelsInv, Exact, Levels, IsBook
  <2>5. BBO!SetHalf(m.is_buy, BBO!Updated(step.half, level))
    BY <2>1
  <2> HIDE DEF level
  <2>4. HalfType(BBO!Updated(step.half, level))
    BY <1>0, <1>2, <2>1, <2>2, <2>3, RefillType
  <2> HIDE DEF g
  <2> QED BY <1>3, <2>4, <2>5
<1>7. CASE BBORaised(m, step)
  BY <1>7 DEF BBORaised, bbo_vars, HalvesType, HalfType
<1> QED BY <1>4, <1>5, <1>6, <1>7 DEF Answers

(* The half that answers follows the book as the message leaves it, and so *)
(* does the other one.                                                     *)
LEMMA AnswersFollow ==
  ASSUME HalvesType, HalvesFollow, IsBook(Priced), NEW m \in DownstreamOrderMsg, NEW id,
         Moves(Priced, Priced', id, m), IsBook(Priced)', Uncrossed(Priced)',
         RightSide(Priced)', LevelsInv',
         NEW step, step = BBO!HalfStep(m), Processed(m, step) \/ Refilled(m, step)
  PROVE  HalvesFollow' /\ result' = Best(m, step)
<1> DEFINE h == BBO!Half(m.is_buy)
           other == BBO!Half(~m.is_buy)
<1>0. m.is_buy \in BOOLEAN /\ HalfType(h) /\ HalfFollows(h, Priced, m.is_buy)
      /\ HalfFollows(other, Priced, ~m.is_buy)
  BY DEF DownstreamOrderMsg, BBO!Half, HalvesType, HalvesFollow
<1>1. step = BBO!ProcessHalf(h, m)
  BY DEF BBO!HalfStep
<1>2. HalfFollows(other, Priced', ~m.is_buy)
  <2>1. (~m.is_buy) \in BOOLEAN /\ (~m.is_buy) # m.is_buy
    <3>1. m.is_buy = TRUE \/ m.is_buy = FALSE
      BY <1>0
    <3> QED BY <3>1
  <2> HIDE DEF other
  <2> QED BY <1>0, <2>1, OtherHalf
<1>3. /\ IsBook(Priced') /\ Uncrossed(Priced') /\ RightSide(Priced')
      /\ Exact(Priced', arr', bids', offs')
  BY DEF IsBook, Uncrossed, RightSide, SidePrices, OrdersOf, IsDict, LevelsInv, Exact, Levels
<1>4. /\ result' = Best(m, step)
      /\ bid_entry' = BBO!BestBid(m, step) /\ off_entry' = BBO!BestOff(m, step)
  BY DEF Processed, Refilled, BBO!Renew
<1>5. ASSUME NEW g, HalfFollows(g, Priced', m.is_buy), BBO!Best(g) = BBO!Best(step.half),
             BBO!SetHalf(m.is_buy, g)
      PROVE  HalvesFollow'
  <2>1. CASE m.is_buy
    <3>1. bid_module' = g /\ off_module' = off_module /\ other = off_module
      BY <1>5, <2>1 DEF BBO!SetHalf, BBO!Half
    <3>2. bid_entry' = BBO!Best(step.half) /\ off_entry' = off_entry
      BY <1>4, <2>1 DEF BBO!BestBid, BBO!BestOff
    <3>3. HalfFollows(bid_module', Priced', TRUE) /\ HalfFollows(off_module', Priced', FALSE)
      <4>1. m.is_buy = TRUE /\ ~m.is_buy = FALSE
        BY <1>0, <2>1
      <4> QED BY <1>2, <1>5, <3>1, <4>1
    <3>4. bid_entry' = BBO!Best(bid_module') /\ off_entry' = BBO!Best(off_module')
      BY <1>5, <3>1, <3>2 DEF HalvesFollow
    <3>5. HalfFollows(bid_module, Priced, TRUE)' /\ HalfFollows(off_module, Priced, FALSE)'
      BY <3>3
    <3> QED BY <3>4, <3>5 DEF HalvesFollow, BBO!Best
  <2>2. CASE ~m.is_buy
    <3>1. bid_module' = bid_module /\ off_module' = g /\ other = bid_module
      BY <1>5, <2>2 DEF BBO!SetHalf, BBO!Half
    <3>2. bid_entry' = bid_entry /\ off_entry' = BBO!Best(step.half)
      BY <1>4, <2>2 DEF BBO!BestBid, BBO!BestOff
    <3>3. HalfFollows(bid_module', Priced', TRUE) /\ HalfFollows(off_module', Priced', FALSE)
      <4>1. m.is_buy = FALSE /\ ~m.is_buy = TRUE
        BY <1>0, <2>2
      <4> QED BY <1>2, <1>5, <3>1, <4>1
    <3>4. bid_entry' = BBO!Best(bid_module') /\ off_entry' = BBO!Best(off_module')
      BY <1>5, <3>1, <3>2 DEF HalvesFollow
    <3>5. HalfFollows(bid_module, Priced, TRUE)' /\ HalfFollows(off_module, Priced, FALSE)'
      BY <3>3
    <3> QED BY <3>4, <3>5 DEF HalvesFollow, BBO!Best
  <2> QED BY <2>1, <2>2
<1> HIDE DEF h
<1>6. CASE Processed(m, step)
  <2>1. BBO!SetHalf(m.is_buy, step.half) /\ BBO!Outcome(m, step) = "ok"
    BY <1>6 DEF Processed, BBO!Renew
  <2>2. step.outcome = "ok"
    BY <2>1 DEF BBO!Outcome
  <2>3. HalfFollows(step.half, Priced', m.is_buy)
    BY <1>0, <1>1, <2>2, StepFollows
  <2> QED BY <1>4, <1>5, <2>1, <2>3
<1>7. CASE Refilled(m, step)
  <2> DEFINE level == L2!GetUpdt(m.is_buy)'
  <2>1. /\ BBO!SetHalf(m.is_buy, BBO!Updated(step.half, level)) /\ L2!CanUpdt(m.is_buy)'
        /\ BBO!Outcome(m, step) = "updt_req"
    BY <1>7 DEF Refilled, BBO!Renew
  <2>2. PICK S, q : /\ S = (IF m.is_buy THEN bids' ELSE offs') /\ q \in S
                    /\ L2!Rank(m.is_buy, q, S) = BBO_DEPTH
                    /\ level = [shares |-> arr'[L2!price_hash(q)], price |-> q]
    BY <1>0, <2>1, SupplyFacts
  <2> HIDE DEF level
  <2>3. step.outcome = "updt_req"
    BY <2>1 DEF BBO!Outcome
  <2>4. HalfFollows(BBO!Updated(step.half, level), Priced', m.is_buy)
    BY <1>0, <1>1, <1>3, <2>2, <2>3, AnswerRefilled
  <2>5. BBO!Best(BBO!Updated(step.half, level)) = BBO!Best(step.half)
    BY <1>0, <1>1, <2>3, StepType, RefillKeepsBest
  <2> QED BY <1>4, <1>5, <2>1, <2>4, <2>5
<1> QED BY <1>6, <1>7

(* None of BBO's assertions fails, and L2 can supply what is asked of it.  *)
LEMMA AnswersHold ==
  ASSUME HalvesType, HalvesFollow, IsBook(Priced), NEW m \in DownstreamOrderMsg, NEW id,
         Moves(Priced, Priced', id, m), IsBook(Priced)', Uncrossed(Priced)',
         RightSide(Priced)', LevelsInv',
         NEW step, step = BBO!HalfStep(m)
  PROVE  ~BBORaised(m, step)
<1> DEFINE h == BBO!Half(m.is_buy)
           other == BBO!Half(~m.is_buy)
<1>0. m.is_buy \in BOOLEAN /\ HalfType(h) /\ HalfFollows(h, Priced, m.is_buy)
      /\ HalfType(other) /\ HalfFollows(other, Priced, ~m.is_buy)
  BY DEF DownstreamOrderMsg, BBO!Half, HalvesType, HalvesFollow
<1>1. step = BBO!ProcessHalf(h, m)
  BY DEF BBO!HalfStep
<1>2. (~m.is_buy) \in BOOLEAN /\ (~m.is_buy) # m.is_buy
  <2>1. m.is_buy = TRUE \/ m.is_buy = FALSE
    BY <1>0
  <2> QED BY <2>1
<1>3. /\ IsBook(Priced') /\ Uncrossed(Priced') /\ RightSide(Priced')
      /\ Exact(Priced', arr', bids', offs')
  BY DEF IsBook, Uncrossed, RightSide, SidePrices, OrdersOf, IsDict, LevelsInv, Exact, Levels
<1>4. /\ m.is_buy => BBO!BestBid(m, step) = BBO!Best(step.half) /\ BBO!BestOff(m, step) = BBO!Best(other)
      /\ ~m.is_buy => BBO!BestBid(m, step) = BBO!Best(other) /\ BBO!BestOff(m, step) = BBO!Best(step.half)
  BY DEF HalvesFollow, BBO!BestBid, BBO!BestOff, BBO!Half
<1> HIDE DEF h, other
<1>5. HalfFollows(other, Priced', ~m.is_buy)
  BY <1>0, <1>2, OtherHalf
<1>6. /\ step.outcome # "assert" /\ HalfType(step.half)
      /\ step.outcome \in {"ok", "updt_req"} => HasShares(step.half.entries, Priced', m.is_buy)
  BY <1>0, <1>1, StepType, StepFollows DEF HalfFollows, RankedTo
<1>7. BBO!Best(other) # BBO!NoEntry => BBO!Best(other).price \in SidePrices(Priced', ~m.is_buy)
  BY <1>0, <1>2, <1>3, <1>5, BestFacts DEF HalfFollows, RankedTo
<1>8. ASSUME step.outcome \in {"ok", "updt_req"}
      PROVE  BBO!SpreadPositive(BBO!BestBid(m, step), BBO!BestOff(m, step))
  <2> DEFINE bid == BBO!BestBid(m, step)  off == BBO!BestOff(m, step)
  <2>1. BBO!Best(step.half) # BBO!NoEntry => BBO!Best(step.half).price \in SidePrices(Priced', m.is_buy)
    BY <1>0, <1>3, <1>6, <1>8, BestFacts
  <2>2. /\ bid # BBO!NoEntry => bid.price \in SidePrices(Priced', TRUE)
        /\ off # BBO!NoEntry => off.price \in SidePrices(Priced', FALSE)
    <3>1. CASE m.is_buy
      <4>1. m.is_buy = TRUE /\ (~m.is_buy) = FALSE
        BY <1>0, <3>1
      <4> QED BY <1>4, <1>7, <2>1, <3>1, <4>1
    <3>2. CASE ~m.is_buy
      <4>1. m.is_buy = FALSE /\ (~m.is_buy) = TRUE
        BY <1>0, <3>2
      <4> QED BY <1>4, <1>7, <2>1, <3>2, <4>1
    <3> QED BY <3>1, <3>2
  <2> HIDE DEF bid, off
  <2>3. SUFFICES ASSUME bid # BBO!NoEntry, off # BBO!NoEntry PROVE off.price - bid.price > 0
    BY DEF BBO!SpreadPositive, bid, off
  <2>4. bid.price < off.price
    BY <1>3, <2>2, <2>3 DEF Uncrossed
  <2>5. bid.price \in Nat /\ off.price \in Nat
    BY <1>3, <2>2, <2>3, SideTypes, PricesAssumption
  <2> QED BY <2>4, <2>5
<1>9. BBO!Outcome(m, step) = step.outcome
  BY <1>8 DEF BBO!Outcome
<1>10. ASSUME step.outcome = "updt_req"
       PROVE  L2!CanUpdt(m.is_buy)'
  <2>1. PICK S : /\ S = (IF m.is_buy THEN bids' ELSE offs')
                 /\ L2!CanUpdt(m.is_buy)' <=> Cardinality(S) >= BBO_DEPTH
    BY <1>0, SupplyFacts
  <2>2. Cardinality(S) >= BBO_DEPTH
    BY <1>0, <1>1, <1>3, <1>10, <2>1, AnswerCan
  <2> QED BY <2>1, <2>2
<1>11. step.outcome \in {"updt_req", "assert", "no_shares_in_range", "ok"}
  BY <1>0, <1>1, StepType
<1> QED BY <1>6, <1>9, <1>10, <1>11 DEF BBORaised

----------------------------------------------------------------------------
(* What the exchange sends. *)

(* The second half of a 'U' message comes with a price and a share count   *)
(* that some order may have.                                               *)
QuotedInv ==
  ~Between => <<pending.order.is_buy, pending.msg.price, pending.msg.shares>> \in Quotes

(* A new order is one the exchange may have next to the live ones, or its  *)
(* id is one L3 knows; a 'U' message's second half follows its first.      *)
Expected(msg) ==
  /\ \/ ~BringsShares(msg)
     \/ msg.order_id \in DOMAIN L3!Contents
     \/ /\ Uncrossed(Put(live, msg.order_id, L3!NewEntry(msg)))
        /\ <<L3!NewEntry(msg).is_buy, msg.price, msg.shares>> \in Quotes
  /\ msg.msg_type = "REPLACE" => last_del_is_buy # "none"

LEMMA NextExpected ==
  ASSUME FollowInv, MarketInv, QuotedInv, Next
  PROVE  \E msg \in BookMsg : Handle(msg) /\ Expected(msg)
<1>1. CASE NewOrder
  <2>1. PICK msg \in AddOrderMsg :
          /\ <<msg.is_buy, msg.price, msg.shares>> \in Quotes
          /\ live' = Put(live, msg.order_id, Order(msg.is_buy, msg.shares, msg.price))
          /\ Uncrossed(live')
          /\ Handle(msg)
    BY <1>1 DEF NewOrder, Enter
  <2>2. msg \in BookMsg /\ msg.msg_type = "ADD"
    BY DEF BookMsg, AddOrderMsg
  <2>3. L3!NewEntry(msg) = Order(msg.is_buy, msg.shares, msg.price)
    BY <2>2 DEF L3!NewEntry, Order
  <2>4. L3!NewEntry(msg).is_buy = msg.is_buy
    BY <2>3 DEF Order
  <2> QED BY <2>1, <2>2, <2>3, <2>4 DEF Expected
<1>2. CASE ReduceOrder
  <2>1. PICK msg \in ReduceOrderMsg : Handle(msg)
    BY <1>2 DEF ReduceOrder
  <2>2. msg \in BookMsg /\ msg.msg_type = "REDUCE"
    BY DEF BookMsg, ReduceOrderMsg
  <2> QED BY <2>1, <2>2 DEF Expected, BringsShares
<1>3. CASE DeleteOrder
  <2>1. PICK msg \in DeleteOrderMsg : Handle(msg)
    BY <1>3 DEF DeleteOrder
  <2>2. msg \in BookMsg /\ msg.msg_type = "DELETE"
    BY DEF BookMsg, DeleteOrderMsg
  <2> QED BY <2>1, <2>2 DEF Expected, BringsShares
<1>4. CASE ReplaceOrder
  <2>1. PICK id \in DOMAIN live : Handle([msg_type |-> "DELETE", order_id |-> id])
    BY <1>4 DEF ReplaceOrder
  <2>2. id \in OrderIds
    BY DEF FollowInv, FollowType, IsDict
  <2>3. [msg_type |-> "DELETE", order_id |-> id] \in BookMsg
    BY <2>2 DEF BookMsg, DeleteOrderMsg
  <2>4. Expected([msg_type |-> "DELETE", order_id |-> id])
    BY DEF Expected, BringsShares
  <2> QED BY <2>1, <2>3, <2>4
<1>5. CASE ReplaceHalf
  <2>1. /\ pending \in Halves /\ Handle(pending.msg) /\ ~Between
        /\ pending.order = Order(last_del_is_buy = "buy", pending.msg.shares, pending.msg.price)
        /\ last_del_is_buy # "none"
    BY <1>5 DEF ReplaceHalf, Enter, FollowInv, FollowType, PendingInv, Between
  <2> DEFINE msg == pending.msg
  <2>2. msg \in BookMsg /\ msg.msg_type = "REPLACE"
    BY <2>1 DEF Halves, BookMsg, ReplaceOrderMsg
  <2>3. L3!NewEntry(msg) = pending.order
    BY <2>1, <2>2 DEF L3!NewEntry, Order
  <2>4. Expected(msg)
    BY <2>1, <2>3 DEF Expected, MarketInv, QuotedInv
  <2> QED BY <2>1, <2>2, <2>4
<1>6. CASE BadMsg
  <2>1. PICK msg \in AddOrderMsg \cup ReduceOrderMsg \cup DeleteOrderMsg :
          /\ msg.order_id \notin missed
          /\ msg.msg_type = "ADD" => msg.order_id \in DOMAIN live
          /\ Handle(msg)
    BY <1>6 DEF BadMsg
  <2>2. msg \in BookMsg /\ msg.msg_type \in {"ADD", "REDUCE", "DELETE"}
    BY DEF BookMsg, AddOrderMsg, ReduceOrderMsg, DeleteOrderMsg
  <2>3. ~Stopped
    BY <2>1, HandleFacts
  <2>4. msg.msg_type = "ADD" => msg.order_id \in DOMAIN L3!Contents
    BY <2>1, <2>3, KnownFacts
  <2> QED BY <2>1, <2>2, <2>4 DEF Expected, BringsShares
<1> QED BY <1>1, <1>2, <1>3, <1>4, <1>5, <1>6 DEF Next

LEMMA NextQuoted ==
  ASSUME FollowInv, QuotedInv, Next
  PROVE  QuotedInv'
<1>1. CASE NewOrder \/ ReduceOrder \/ DeleteOrder \/ BadMsg
  BY <1>1 DEF NewOrder, ReduceOrder, DeleteOrder, BadMsg, QuotedInv, Between
<1>2. CASE ReplaceOrder
  <2>1. PICK id \in DOMAIN live, msg \in ReplaceOrderMsg :
          /\ <<live[id].is_buy, msg.price, msg.shares>> \in Quotes
          /\ \/ pending' = [msg |-> msg, order |-> Order(live[id].is_buy, msg.shares, msg.price)]
             \/ pending' = NoMsg
    BY <1>2 DEF ReplaceOrder
  <2>2. Order(live[id].is_buy, msg.shares, msg.price).is_buy = live[id].is_buy
    BY DEF Order
  <2> QED BY <2>1, <2>2 DEF QuotedInv, Between
<1>3. CASE ReplaceHalf
  BY <1>3 DEF ReplaceHalf, QuotedInv, Between
<1> QED BY <1>1, <1>2, <1>3 DEF Next

(* What L3 holds once it has accepted an expected message does not cross.  *)
LEMMA AcceptUncrossed ==
  ASSUME FollowInv, MarketInv, ~Stopped, NEW msg \in BookMsg, Expected(msg), L3!Accept(msg)
  PROVE  Uncrossed(L3!Contents)'
<1>1. /\ TableInv /\ L3!Contents = Known
      /\ DOMAIN L3!Contents = DOMAIN live \ missed
      /\ \A id \in DOMAIN L3!Contents : L3!Contents[id] = live[id]
  BY KnownFacts
<1>2. Uncrossed(L3!Contents') => Uncrossed(L3!Contents)'
  BY DEF Uncrossed, SidePrices, OrdersOf
<1>3. CASE BringsShares(msg)
  <2> DEFINE book == Put(live, msg.order_id, L3!NewEntry(msg))
  <2>1. /\ L3!Contents' = Put(L3!Contents, msg.order_id, L3!NewEntry(msg))
        /\ msg.order_id \notin DOMAIN L3!Contents
    BY <1>1, <1>3, TableEnter
  <2>2. Uncrossed(book)
    BY <1>3, <2>1 DEF Expected
  <2>3. \A id \in DOMAIN L3!Contents' : id \in DOMAIN book /\ L3!Contents'[id] = book[id]
    BY <1>1, <2>1 DEF Put
  <2> HIDE DEF book
  <2> QED BY <1>2, <2>2, <2>3, UncrossedPart
<1>4. CASE ~BringsShares(msg)
  <2> DEFINE m == L3!LookupMsg(msg)  id == msg.order_id
             left == Reduced(L3!Contents[id], m.shares)
  <2>1. Moves(L3!Contents, L3!Contents', id, m)
    BY <1>1, AcceptMoves
  <2>2. ~BringsShares(m)
    <3>1. m.msg_type = msg.msg_type
      BY <1>1, <1>4, TableFound DEF L3!Accept
    <3> QED BY <1>4, <3>1 DEF BringsShares
  <2>3. /\ id \in DOMAIN L3!Contents
        /\ L3!Contents' = Drop(L3!Contents, id) \/ L3!Contents' = Put(L3!Contents, id, left)
    BY <2>1, <2>2 DEF Moves, Entering, Leaving
  <2>4. left.is_buy = L3!Contents[id].is_buy /\ left.price = L3!Contents[id].price
    <3>1. L3!Contents[id] \in L3Entry
      BY <1>1, <2>3, TableContents DEF IsDict
    <3> QED BY <3>1 DEF Reduced, L3Entry
  <2> HIDE DEF left, m
  <2>5. \A x \in DOMAIN L3!Contents' :
          /\ x \in DOMAIN L3!Contents /\ L3!Contents'[x].is_buy = L3!Contents[x].is_buy
          /\ L3!Contents'[x].price = L3!Contents[x].price
    BY <2>3, <2>4 DEF Drop, Put
  <2>6. Uncrossed(L3!Contents)
    BY StoredPart
  <2> QED BY <1>2, <2>5, <2>6, UncrossedPart
<1> QED BY <1>3, <1>4

----------------------------------------------------------------------------
(* The inductive invariant of the book. *)

(* Until an exception every order at a tick is on the right side of L2's   *)
(* window; until a loss too, each half follows those orders, and the best  *)
(* entries reported last are those of the halves.                          *)
BBOInv ==
  /\ LevelInv /\ QuotedInv
  /\ HalvesType /\ bids \subseteq Prices /\ offs \subseteq Prices
  /\ ~Stopped => RightSide(Priced)
  /\ ~Stopped /\ ~lost => HalvesFollow

(* A step that changes neither the orders at a tick nor BBO. *)
LEMMA BBOSame ==
  ASSUME BBOInv, ~Stopped, Priced' = Priced, UNCHANGED bbo_vars, UNCHANGED l2_vars
  PROVE  /\ HalvesType' /\ bids' \subseteq Prices /\ offs' \subseteq Prices
         /\ RightSide(Priced)' /\ (~lost => HalvesFollow')
<1>1. UNCHANGED <<bid_module, off_module, bid_entry, off_entry, bids, offs>>
  BY DEF bbo_vars, l2_vars
<1>2. HalvesType' /\ bids' \subseteq Prices /\ offs' \subseteq Prices
  BY <1>1 DEF BBOInv, HalvesType, HalfType
<1>3. RightSide(Priced')
  BY DEF BBOInv
<1>4. ~lost => HalvesFollow'
  <2> SUFFICES ASSUME ~lost PROVE HalvesFollow'
    OBVIOUS
  <2>1. HalvesFollow
    BY DEF BBOInv
  <2>2. HalfFollows(bid_module', Priced', TRUE) /\ HalfFollows(off_module', Priced', FALSE)
    BY <1>1, <2>1 DEF HalvesFollow
  <2>3. bid_entry' = BBO!Best(bid_module') /\ off_entry' = BBO!Best(off_module')
    BY <1>1, <2>1 DEF HalvesFollow
  <2> QED BY <2>2, <2>3 DEF HalvesFollow
<1> QED BY <1>2, <1>3, <1>4

(* What L3 holds, and what an accepted message leaves there. *)
LEMMA BookFacts ==
  ASSUME BBOInv, ~Stopped
  PROVE  /\ TableInv /\ IsBook(L3!Contents) /\ IsBook(Priced) /\ Uncrossed(L3!Contents)
         /\ Uncrossed(Priced)
         /\ IsFiniteSet(DOMAIN L3!Contents) /\ LevelsInv /\ RightSide(Priced)
<1>1. TableInv /\ IsFiniteSet(DOMAIN L3!Contents) /\ Uncrossed(L3!Contents)
  BY StoredPart DEF BBOInv, LevelInv
<1>2. IsBook(L3!Contents)
  BY <1>1, TableContents DEF IsBook
<1>3. IsBook(Priced) /\ Uncrossed(Priced)
  BY <1>1, <1>2, TicksFacts, PricedTicks
<1> QED BY <1>1, <1>2, <1>3 DEF BBOInv, LevelInv

(* A message L3 refuses, or L2 takes no notice of, leaves the orders at a  *)
(* tick as they were.                                                      *)
LEMMA PricedKept ==
  ASSUME BBOInv, ~Stopped, NEW msg \in BookMsg
  PROVE  /\ L3!Refuse(msg) => Priced' = Priced
         /\ L2Error(msg) => Priced' = Priced /\ UNCHANGED l2_vars
<1>1. ASSUME L3!Refuse(msg) PROVE Priced' = Priced
  BY <1>1, BookFacts, TableRefuse, PricedTicks
<1>2. ASSUME L2Error(msg) PROVE Priced' = Priced /\ UNCHANGED l2_vars
  <2> DEFINE m == L3!LookupMsg(msg)
  <2>1. L3!Accept(msg) /\ L2!Status(m) = "off_tick" /\ L2!ProcessMsg(m)
    BY <1>2 DEF L2Error
  <2>2. ~L2!OnTick(m.price)
    BY <2>1, L2StatusFacts
  <2>3. UNCHANGED l2_vars
    BY <2>1 DEF L2!ProcessMsg, L2!l2_vars, l2_vars
  <2>4. m \in DownstreamOrderMsg /\ Moves(L3!Contents, L3!Contents', msg.order_id, m)
    BY <2>1, BookFacts, AcceptMoves
  <2> HIDE DEF m
  <2>5. Ticks(L3!Contents') = Ticks(L3!Contents)
    BY <2>2, <2>4, BookFacts, TicksMove
  <2> QED BY <2>3, <2>5, PricedTicks
<1> QED BY <1>1, <1>2

(* What a message that reaches BBO finds, and what BBO answers. *)
LEMMA ReachedFacts ==
  ASSUME BBOInv, ~Stopped, NEW msg \in BookMsg, Expected(msg), ReachesBBO(msg)
  PROVE  \E m, step :
           /\ m \in DownstreamOrderMsg
           /\ m = L3!LookupMsg(msg) /\ step = BBO!HalfStep(m) /\ Answers(m, step)
           /\ Moves(Priced, Priced', msg.order_id, m)
           /\ IsBook(Priced)' /\ Uncrossed(Priced)' /\ RightSide(Priced)' /\ LevelsInv'
<1>1. PICK m \in {L3!LookupMsg(msg)} : \E step \in {BBO!HalfStep(m)} : Answers(m, step)
  BY DEF ReachesBBO, Answers
<1>2. PICK step \in {BBO!HalfStep(m)} : Answers(m, step)
  BY <1>1
<1>3. Stored(msg) /\ L3!Accept(msg)
  BY DEF ReachesBBO, Stored
<1>4. Uncrossed(L3!Contents)'
  BY <1>3, AcceptUncrossed DEF BBOInv, LevelInv
<1>5. /\ m \in DownstreamOrderMsg /\ Moves(Priced, Priced', msg.order_id, m)
      /\ IsBook(Priced)' /\ Uncrossed(Priced)' /\ RightSide(Priced)' /\ LevelsInv'
  BY <1>3, <1>4, BookFacts, StoredFacts
<1> QED BY <1>2, <1>5

(* One message keeps the invariant's part that is about BBO. *)
LEMMA HandleBBO ==
  ASSUME BBOInv, NEW msg \in BookMsg, Expected(msg), Handle(msg)
  PROVE  /\ HalvesType' /\ bids' \subseteq Prices /\ offs' \subseteq Prices
         /\ ~Stopped' => RightSide(Priced)'
         /\ ~Stopped' /\ ~lost' => HalvesFollow'
<1>0. ~Stopped /\ (~lost' => ~lost)
  BY HandleFacts DEF Handle
<1>1. CASE L3Error(msg)
  BY <1>0, <1>1, PricedKept, BBOSame DEF L3Error
<1>2. CASE L3Raised(msg)
  BY <1>0, <1>2, PricedKept, BBOSame DEF L3Raised
<1>3. CASE L2Error(msg)
  BY <1>0, <1>3, PricedKept, BBOSame DEF L2Error
<1>4. CASE L2Raised(msg)
  <2>1. Stopped' /\ UNCHANGED bbo_vars /\ UNCHANGED l2_vars
    BY <1>4 DEF L2Raised, Stopped, Exception, Result
  <2>2. HalvesType' /\ bids' \subseteq Prices /\ offs' \subseteq Prices
    BY <2>1 DEF bbo_vars, l2_vars, BBOInv, HalvesType, HalfType
  <2> QED BY <2>1, <2>2
<1>5. CASE ReachesBBO(msg)
  <2>1. PICK m, step :
           /\ m \in DownstreamOrderMsg
           /\ step = BBO!HalfStep(m) /\ Answers(m, step)
           /\ Moves(Priced, Priced', msg.order_id, m)
           /\ IsBook(Priced)' /\ Uncrossed(Priced)' /\ RightSide(Priced)' /\ LevelsInv'
    BY <1>0, <1>5, ReachedFacts
  <2>2. HalvesType'
    BY <2>1, AnswersType DEF BBOInv
  <2>3. bids' \subseteq Prices /\ offs' \subseteq Prices
    <3>1. bids' = Levels(Priced', TRUE) /\ offs' = Levels(Priced', FALSE) /\ IsBook(Priced')
      BY <2>1 DEF LevelsInv, Exact
    <3> QED BY <3>1, SideTypes DEF Levels
  <2>4. ASSUME ~Stopped', ~lost' PROVE HalvesFollow'
    <3>1. ~BBOError(m, step)
      <4>1. result'.why # "no_shares_in_range"
        BY <2>4, Zenon DEF Handle
      <4> QED BY <4>1 DEF BBOError, Error, Result
    <3>2. ~BBORaised(m, step)
      BY <2>4 DEF BBORaised, Exception, Result, Stopped
    <3>3. HalvesFollow
      BY <1>0, <2>4 DEF BBOInv
    <3> QED BY <1>0, <2>1, <3>1, <3>2, <3>3, BookFacts, AnswersFollow DEF Answers, BBOInv
  <2> QED BY <2>1, <2>2, <2>3, <2>4
<1> QED BY <1>1, <1>2, <1>3, <1>4, <1>5 DEF Handle, ProcessMsg

LEMMA InitBBO == Init => BBOInv
<1> SUFFICES ASSUME Init PROVE BBOInv
  OBVIOUS
<1>1. LevelInv
  BY InitLevels
<1>2. /\ bid_module = BBO!EmptyHalf /\ off_module = BBO!EmptyHalf
      /\ bid_entry = BBO!NoEntry /\ off_entry = BBO!NoEntry
      /\ bids = {} /\ offs = {} /\ pending = NoMsg /\ L3!InitMemory
  BY DEF Init, InitBook, L3!InitL3, L2!InitL2, BBO!InitBBO
<1>3. QuotedInv
  BY <1>2 DEF QuotedInv, Between
<1>4. HalfType(BBO!EmptyHalf)
  BY WindowSize DEF BBO!EmptyHalf, HalfType
<1>5. DOMAIN Priced = {}
  BY <1>2, TableEmpty DEF Priced, EmptyDict
<1>6. RightSide(Priced)
  BY <1>5 DEF RightSide
<1>7. ASSUME NEW side PROVE HalfFollows(BBO!EmptyHalf, Priced, side)
  <2> DEFINE e == BBO!EmptyHalf.entries
  <2>1. e = <<>> /\ BBO!EmptyHalf.outside = 0 /\ BBO!EmptyHalf.in_range = 0 /\ Len(<<>>) = 0
    BY DEF BBO!EmptyHalf
  <2>2. SidePrices(Priced, side) = {}
    BY <1>5 DEF SidePrices, OrdersOf
  <2>3. \A places : Total(Priced, places) = 0
    BY <1>5, SumEmpty DEF Total, At
  <2>4. RankedTo(e, Priced, side, BBO_DEPTH)
    BY <2>1, <2>2 DEF RankedTo, InOrder, HasShares, LeavesOut
  <2>5. Counted(BBO!EmptyHalf, e, Priced, side)
    BY <2>1, <2>3 DEF Counted
  <2> QED BY <2>4, <2>5 DEF HalfFollows
<1>8. BBO!Best(BBO!EmptyHalf) = BBO!NoEntry
  BY DEF BBO!Best, BBO!EmptyHalf
<1>9. HalvesFollow /\ HalvesType
  BY <1>2, <1>4, <1>7, <1>8 DEF HalvesFollow, HalvesType
<1> QED BY <1>1, <1>2, <1>3, <1>6, <1>9 DEF BBOInv

LEMMA NextBBO == BBOInv /\ [Next]_vars => BBOInv'
<1> SUFFICES ASSUME BBOInv, [Next]_vars PROVE BBOInv'
  OBVIOUS
<1>1. LevelInv'
  BY NextLevels DEF BBOInv
<1>2. CASE Next
  <2>1. QuotedInv'
    BY <1>2, NextQuoted DEF BBOInv, LevelInv
  <2>2. PICK msg \in BookMsg : Handle(msg) /\ Expected(msg)
    BY <1>2, NextExpected DEF BBOInv, LevelInv
  <2> QED BY <1>1, <2>1, <2>2, HandleBBO DEF BBOInv
<1>3. CASE UNCHANGED vars
  <2>1. UNCHANGED <<pending, result, bids, offs, ram, cam, lost,
                    bid_module, off_module, bid_entry, off_entry>>
    BY <1>3 DEF vars
  <2>2. Priced' = Priced
    BY <2>1 DEF Priced, L3!Contents, L3!Stored, L3!Contains, L3!GetItem, L3!line
  <2>3. QuotedInv' /\ Stopped' = Stopped /\ HalvesType' /\ bids' \subseteq Prices /\ offs' \subseteq Prices
    BY <2>1 DEF BBOInv, QuotedInv, Between, Stopped, HalvesType, HalfType
  <2>4. RightSide(Priced) => RightSide(Priced')
    BY <2>2
  <2>5. ASSUME HalvesFollow PROVE HalvesFollow'
    <3>1. HalfFollows(bid_module', Priced', TRUE) /\ HalfFollows(off_module', Priced', FALSE)
      BY <2>1, <2>2, <2>5 DEF HalvesFollow
    <3>2. bid_entry' = BBO!Best(bid_module') /\ off_entry' = BBO!Best(off_module')
      BY <2>1, <2>5 DEF HalvesFollow
    <3> QED BY <3>1, <3>2 DEF HalvesFollow
  <2> QED BY <1>1, <2>1, <2>3, <2>4, <2>5 DEF BBOInv
<1> QED BY <1>2, <1>3

THEOREM BBOInvHolds == Spec => []BBOInv
BY InitBBO, NextBBO, PTL DEF Spec

----------------------------------------------------------------------------
(* What the inductive invariant says of the registers. *)

LEMMA MinOf ==
  ASSUME NEW a \in Nat, NEW b \in Nat, a <= b
  PROVE  Min({a, b}) = a /\ Min({b, a}) = a
<1>1. \A x \in {a, b} : a <= x
  OBVIOUS
<1>2. \A x \in {a, b} : (\A y \in {a, b} : x <= y) => x = a
  OBVIOUS
<1>3. Min({a, b}) = a
  BY <1>1, <1>2 DEF Min
<1>4. {a, b} = {b, a}
  OBVIOUS
<1> QED BY <1>3, <1>4

(* A half that follows the book holds its best levels, in order, and       *)
(* counts the shares of the others.                                        *)
LEMMA FollowsExact ==
  ASSUME NEW book, IsBook(book), RightSide(book), NEW side \in BOOLEAN,
         NEW h, HalfType(h), HalfFollows(h, book, side)
  PROVE  HalfExact(h, book, side)
<1> DEFINE e == h.entries
           orders == OrdersOf(book, side)
           prices == {book[id].price : id \in orders}
           n == Min({BBO_DEPTH, Cardinality(prices)})
           held == {e[i].price : i \in DOMAIN e}
           others == {id \in orders : book[id].price \notin held}
<1>0. /\ e \in Seq(Levels1) /\ Len(e) \in Nat /\ DOMAIN e = 1 .. Len(e) /\ Len(e) <= BBO_DEPTH
      /\ BBO_DEPTH \in Nat
  BY HalfFacts, WindowSize DEF HalfType
<1>1. /\ InOrder(e, side) /\ HasShares(e, book, side) /\ LeavesOut(e, book, side, BBO_DEPTH)
      /\ h.outside = Total(book, Beyond(e, side)) /\ h.in_range = Total(book, Supply(e, side))
  BY DEF HalfFollows, RankedTo, Counted
<1>2. prices = SidePrices(book, side) /\ held = HeldBy(e)
  BY <1>0 DEF SidePrices, HeldBy
<1>3. \A id \in DOMAIN book : book[id].price \in Prices /\ book[id].is_buy \in BOOLEAN
  BY AtFacts DEF L3Entry
<1>4. held \subseteq prices
  BY <1>0, <1>1, <1>2, HeldFacts
<1>5. IsFiniteSet(prices) /\ Cardinality(prices) \in Nat /\ prices \subseteq Nat
  <2>1. IsFiniteSet(SidePrices(book, side)) /\ SidePrices(book, side) \subseteq Prices
    BY FiniteLevels, SideTypes
  <2> HIDE DEF prices
  <2> QED BY <1>2, <2>1, FS_CardinalityType, PricesAssumption
<1>6. IsFiniteSet(held) /\ Cardinality(held) = Len(e)
  BY <1>0, <1>1, <1>2, HeldCount
<1>7. Len(e) = n
  <2>1. Len(e) <= Cardinality(prices)
    <3>1. held \in SUBSET prices
      BY <1>4
    <3> QED BY <1>5, <1>6, <3>1, FS_Subset
  <2>2. CASE held = prices
    <3>1. Cardinality(prices) = Len(e)
      BY <1>6, <2>2
    <3> HIDE DEF e, prices
    <3> QED BY <1>0, <1>5, <3>1, MinOf
  <2>3. CASE held # prices
    <3>1. PICK p \in prices : p \notin held
      BY <1>4, <2>3
    <3>2. Len(e) >= BBO_DEPTH
      BY <1>1, <1>2, <3>1 DEF LeavesOut
    <3>3. Len(e) = BBO_DEPTH
      BY <1>0, <3>2
    <3> HIDE DEF e, prices
    <3> QED BY <1>0, <1>5, <2>1, <3>3, MinOf
  <2> QED BY <2>2, <2>3
<1>8. ASSUME NEW i \in 1 .. n
      PROVE  /\ e[i].price \in prices /\ L2!Rank(side, e[i].price, prices) = i
             /\ e[i].shares = SharesOf(book, {id \in orders : book[id].price = e[i].price})
  <2>0. i \in 1 .. Len(e)
    BY <1>7
  <2>1. e[i].price \in held
    BY <1>0, <2>0
  <2>2. L2!Rank(side, e[i].price, prices) = i
    <3>1. \A p \in prices : p \notin HeldBy(e) =>
            p \in Nat /\ \A j \in 1 .. Len(e) : BBO!Improves(side, e[j].price, p)
      BY <1>1, <1>2, <1>5 DEF LeavesOut
    <3>2. HeldBy(e) \subseteq prices
      BY <1>2, <1>4
    <3> HIDE DEF e, prices
    <3> QED BY <1>0, <1>1, <2>0, <3>1, <3>2, RankHeld
  <2>3. At(book, {<<side, e[i].price>>}) = {id \in orders : book[id].price = e[i].price}
    BY DEF At, OrdersOf
  <2> QED BY <1>1, <1>4, <2>0, <2>1, <2>2, <2>3 DEF HasShares, Total
<1>9. h.outside = SharesOf(book, others)
  <2>1. At(book, Beyond(e, side)) = others
    BY <1>2, <1>3 DEF At, Beyond, OrdersOf
  <2> QED BY <1>1, <2>1 DEF Total
<1>10. h.in_range = SharesOf(book, {id \in others : L2!InWindow(book[id].price)})
  <2>1. ASSUME NEW id \in orders
        PROVE  L2!InWindow(book[id].price) <=> BBO!WithinBound(side, book[id].price)
    <3>1. book[id].price \in SidePrices(book, side)
      BY DEF SidePrices
    <3> QED BY <3>1, RightSideLevels
  <2>2. At(book, Supply(e, side)) = {id \in others : L2!InWindow(book[id].price)}
    <3>1. At(book, Supply(e, side)) = {id \in others : BBO!WithinBound(side, book[id].price)}
      BY <1>2, <1>3 DEF At, Supply, OrdersOf
    <3> QED BY <2>1, <3>1
  <2> QED BY <1>1, <2>2 DEF Total
<1> QED BY <1>7, <1>8, <1>9, <1>10 DEF HalfExact

(* Until BBO has answered that it lost track, its registers are the best   *)
(* levels of the orders L3 holds, in the window and out of it, best first, *)
(* and the counters that decide between a refill and that answer are the   *)
(* shares really left outside (book.py:67-80, the second part of           *)
(* assert_consistent_state).                                               *)
THEOREM BBOExactHolds == Spec => []BBOExact
<1>1. BBOInv => BBOExact
  <2> SUFFICES ASSUME BBOInv, ~lost, ~Stopped
               PROVE  HalfExact(bid_module, Priced, TRUE) /\ HalfExact(off_module, Priced, FALSE)
    BY DEF BBOExact
  <2>1. HalvesType /\ HalvesFollow
    BY DEF BBOInv
  <2> QED BY <2>1, BookFacts, FollowsExact DEF HalvesType, HalvesFollow
<1> QED BY <1>1, BBOInvHolds, PTL

(* Every variable of the book has its type, after a loss and after an      *)
(* exception too: no total of L2 goes negative and no register is filled   *)
(* beyond BBO_DEPTH (l2_price_table.py, bbo.py).                           *)
THEOREM FeedTypes == Spec => []TypeOK
<1>1. BBOInv => TypeOK
  <2> SUFFICES ASSUME BBOInv PROVE TypeOK
    OBVIOUS
  <2>1. FollowInv /\ arr \in [0 .. L2_MEM_SIZE - 1 -> Nat] /\ HalvesType
        /\ bids \subseteq Prices /\ offs \subseteq Prices
    BY DEF BBOInv, LevelInv
  <2>2. ASSUME NEW h, HalfType(h) PROVE HalfTypeOK(h)
    BY <2>2, HalfFacts DEF HalfType, HalfTypeOK, Levels1
  <2>3. HalfTypeOK(bid_module) /\ HalfTypeOK(off_module)
    BY <2>1, <2>2 DEF HalvesType
  <2>4. /\ last_del_is_buy \in L3!Sides /\ result.kind \in {"ok", "error", "exception"}
        /\ IsDict(live, OrderIds, L3!L3Entry)
        /\ pending \in [msg : ReplaceOrderMsg, order : L3!L3Entry] \cup {NoMsg}
    BY <2>1, SameTypes DEF FollowInv, FollowType, Halves
  <2> QED BY <2>1, <2>3, <2>4 DEF TypeOK
<1> QED BY <1>1, BBOInvHolds, PTL

----------------------------------------------------------------------------
(* No assertion fails. *)

(* What the code asserts of price_base: no order at a tick is priced       *)
(* beyond the end of L2's window at which its side is best.                *)
QuotesInMarket ==
  \A quote \in Quotes :
    L2!OnTick(quote[2]) =>
      IF quote[1] THEN quote[2] <= L2!price_max ELSE quote[2] >= price_base

(* L3 finds room for an order before it comes to the log statement of a    *)
(* spill, which raises, or that statement is repaired.                     *)
NoSpillRaises ==
  \/ SpillLogRaises = FALSE
  \/ \A a \in L3!Addrs :
       LET ids == {id \in OrderIds : L3!oid_hash(id) = a}
       IN  IsFiniteSet(ids) /\ Cardinality(ids) <= L3_LINE_SIZE

(* A line that is the home of every order it holds has room for one more.  *)
LEMMA LineRoom ==
  ASSUME TableInv, NoSpillRaises, NEW id \in OrderIds
  PROVE  L3!StoreOutcome(id) # "raises"
<1> SUFFICES ASSUME L3!StoreOutcome(id) = "raises" PROVE FALSE
  OBVIOUS
<1>1. ~L3!Contains(id) /\ ~L3!LineHasRoom(id) /\ SpillLogRaises
  BY Zenon DEF L3!StoreOutcome
<1> DEFINE a == L3!oid_hash(id)
           ids == {x \in OrderIds : L3!oid_hash(x) = a}
           held == DOMAIN L3!line(id)
<1>2. a \in L3!Addrs
  BY OrderIdsAssumption, L3SizesAssumption DEF L3!oid_hash, L3!Addrs
<1>3. IsFiniteSet(ids) /\ Cardinality(ids) <= L3_LINE_SIZE
  BY <1>1, <1>2 DEF NoSpillRaises
<1>4. held \subseteq ids
  <2>1. /\ \A x \in DOMAIN ram[a] : Table!oid_hash(x) = a
        /\ DOMAIN ram[a] \subseteq OrderIds
    BY <1>2 DEF TableInv, Table!MemoryInv, Table!OneHome, Table!MemoryType, Table!Addrs, L3!Addrs,
                Table!IsDict
  <2> QED BY <2>1 DEF L3!line, Table!oid_hash, L3!oid_hash
<1>5. id \in ids /\ id \notin held
  BY <1>1 DEF L3!Contains
<1>6. Cardinality(held) < Cardinality(ids)
  <2> HIDE DEF held, ids
  <2>1. held \in SUBSET ids
    BY <1>4
  <2>2. Cardinality(held) <= Cardinality(ids) /\ Cardinality(held) # Cardinality(ids)
        /\ IsFiniteSet(held)
    BY <1>3, <1>5, <2>1, FS_Subset
  <2> QED BY <1>3, <2>2, FS_CardinalityType
<1>7. L3!Cardinality(held) = Cardinality(held)
  BY DEF L3!Cardinality, Cardinality
<1>8. Cardinality(held) \in Nat /\ Cardinality(ids) \in Nat
  <2> HIDE DEF held, ids
  <2>1. held \in SUBSET ids
    BY <1>4
  <2> QED BY <1>3, <2>1, FS_Subset, FS_CardinalityType
<1> HIDE DEF held, ids
<1>9. Cardinality(held) < L3_LINE_SIZE
  BY <1>3, <1>6, <1>8, L3SizesAssumption
<1> QED BY <1>1, <1>7, <1>9 DEF L3!LineHasRoom, held

(* L3 answers every message an exchange sends.                             *)
LEMMA L3Answers ==
  ASSUME BBOInv, ~Stopped, NoSpillRaises, NEW msg \in BookMsg, Expected(msg)
  PROVE  ~L3Raised(msg)
<1>1. L3!Status(msg) # "assert"
  BY BookFacts, TableStatus DEF Expected
<1>2. L3!Status(msg) # "raises"
  <2>1. L3!StoreOutcome(msg.order_id) # "raises"
    BY BookFacts, MsgFacts, LineRoom
  <2>2. /\ "raises" # "duplicate" /\ "raises" # "assert" /\ "raises" # "missing"
        /\ "raises" # "negative" /\ "raises" # "ok"
    OBVIOUS
  <2> QED BY <2>1, <2>2, Zenon DEF L3!Status
<1> QED BY <1>1, <1>2 DEF L3Raised, L3!Raises

(* L2 answers every message L3 hands on to it. *)
LEMMA L2Answers ==
  ASSUME BBOInv, ~Stopped, QuotesInMarket, NEW msg \in BookMsg, Expected(msg)
  PROVE  ~L2Raised(msg)
<1> SUFFICES ASSUME L2Raised(msg) PROVE FALSE
  OBVIOUS
<1> DEFINE m == L3!LookupMsg(msg)  p == m.price  side == m.is_buy
<1>1. L3!Accept(msg) /\ L2!Status(m) = "assert"
  BY DEF L2Raised
<1>2. m \in DownstreamOrderMsg /\ Moves(L3!Contents, L3!Contents', msg.order_id, m)
  BY <1>1, BookFacts, AcceptMoves
<1>3. /\ L2!OnTick(p)
      /\ \/ L2!WrongSideOfWindow(m)
         \/ /\ ~L2!BringsShares(m) /\ L2!InWindow(p)
            /\ L2!SharesAt(p) <= 0 \/ p \notin L2!SideLevels(side)
  <2>1. /\ "assert" # "off_tick" /\ "assert" # "ignored" /\ "assert" # "ok"
    OBVIOUS
  <2> HIDE DEF m
  <2> QED BY <1>1, <2>1, Zenon DEF L2!Status
<1>4. side \in BOOLEAN /\ p \in Nat /\ L2!price_max \in Int /\ price_base \in Int
  <2>1. side \in BOOLEAN /\ p \in Nat
    BY <1>2, PricesAssumption DEF DownstreamOrderMsg
  <2>2. L2!price_max \in Int /\ price_base \in Int
    BY WindowSize DEF L2!price_max
  <2> QED BY <2>1, <2>2
<1>5. CASE BringsShares(msg)
  <2>1. /\ msg.order_id \notin DOMAIN L3!Contents
        /\ m = [msg_type |-> msg.msg_type, is_buy |-> L3!NewEntry(msg).is_buy,
                shares |-> msg.shares, price |-> msg.price]
    BY <1>1, <1>5, BookFacts, TableEnter
  <2>2. <<side, p, msg.shares>> \in Quotes /\ BringsShares(m)
    BY <1>5, <2>1 DEF Expected, BringsShares
  <2>3. IF side THEN p <= L2!price_max ELSE p >= price_base
    BY <1>3, <2>2 DEF QuotesInMarket
  <2>4. L2!BringsShares(m)
    BY <2>2 DEF L2!BringsShares, BringsShares
  <2> QED BY <1>3, <1>4, <2>3, <2>4 DEF L2!WrongSideOfWindow
<1>6. CASE ~BringsShares(msg)
  <2>1. /\ msg.order_id \in DOMAIN L3!Contents
        /\ m.is_buy = L3!Contents[msg.order_id].is_buy
        /\ m.price = L3!Contents[msg.order_id].price
    BY <1>1, <1>6, BookFacts, TableFound DEF L3!Accept
  <2> HIDE DEF m
  <2>2. /\ msg.order_id \in DOMAIN Priced /\ Priced[msg.order_id].is_buy = side
        /\ Priced[msg.order_id].price = p
    BY <1>3, <2>1 DEF Priced
  <2>3. ~L2!WrongSideOfWindow(m)
    <3>1. IF side THEN p <= L2!price_max ELSE p >= price_base
      BY <2>2, BookFacts DEF RightSide
    <3> QED BY <1>4, <3>1 DEF L2!WrongSideOfWindow
  <2>4. p \in SidePrices(Priced, side) /\ L2!InWindow(p)
    BY <1>3, <2>2, <2>3 DEF SidePrices, OrdersOf
  <2>5. p \in L2!SideLevels(side)
    <3>1. bids = Levels(Priced, TRUE) /\ offs = Levels(Priced, FALSE)
      BY BookFacts DEF LevelsInv, Exact
    <3> QED BY <1>4, <2>4, <3>1 DEF L2!SideLevels, Levels
  <2>6. L2!SharesAt(p) > 0
    <3>1. p \in bids \cup offs
      BY <2>5 DEF L2!SideLevels
    <3>2. L2!SharesAt(p) = Total(Priced, BothSides(p))
      BY <3>1, BookFacts DEF LevelsInv, Exact, L2!SharesAt
    <3>3. msg.order_id \in At(Priced, BothSides(p))
      BY <1>4, <2>2 DEF At, BothSides
    <3>4. Total(Priced, BothSides(p)) \in Nat /\ Total(Priced, BothSides(p)) # 0
      BY <3>3, BookFacts, TotalFacts
    <3> QED BY <3>2, <3>4
  <2>7. ~(L2!SharesAt(p) <= 0)
    <3>1. L2!SharesAt(p) \in Int
      <4>1. arr \in [0 .. L2_MEM_SIZE - 1 -> Nat]
        BY BookFacts DEF LevelsInv, Exact
      <4>2. L2!price_hash(p) \in 0 .. L2_MEM_SIZE - 1
        BY <1>4, HashRange
      <4> QED BY <4>1, <4>2 DEF L2!SharesAt
    <3> QED BY <2>6, <3>1
  <2> QED BY <1>3, <2>3, <2>5, <2>7
<1> QED BY <1>5, <1>6

(* A message of an uncrossed market raises no exception, as long as BBO    *)
(* has not lost track before.                                              *)
LEMMA HandleAnswers ==
  ASSUME BBOInv, ~lost, QuotesInMarket, NoSpillRaises,
         NEW msg \in BookMsg, Expected(msg), Handle(msg)
  PROVE  ~Stopped'
<1>0. ~Stopped
  BY HandleFacts
<1>1. ~L3Raised(msg) /\ ~L2Raised(msg)
  BY <1>0, L3Answers, L2Answers
<1>2. CASE L3Error(msg) \/ L2Error(msg)
  BY <1>2 DEF L3Error, L2Error, Error, Result, Stopped
<1>3. CASE ReachesBBO(msg)
  <2>1. PICK m, step :
           /\ m \in DownstreamOrderMsg
           /\ step = BBO!HalfStep(m) /\ Answers(m, step)
           /\ Moves(Priced, Priced', msg.order_id, m)
           /\ IsBook(Priced)' /\ Uncrossed(Priced)' /\ RightSide(Priced)' /\ LevelsInv'
    BY <1>0, <1>3, ReachedFacts
  <2>2. ~BBORaised(m, step)
    BY <1>0, <2>1, BookFacts, AnswersHold DEF BBOInv
  <2>3. \/ result' = Error("no_shares_in_range") \/ result' = Best(m, step)
    BY <2>1, <2>2 DEF Answers, BBOError, Processed, Refilled
  <2>4. "error" # "exception" /\ "ok" # "exception"
    OBVIOUS
  <2>5. CASE result' = Error("no_shares_in_range")
    <3>1. result'.kind = "error"
      BY <2>5 DEF Error, Result
    <3> QED BY <2>4, <3>1 DEF Stopped
  <2>6. CASE result' = Best(m, step)
    <3>1. result'.kind = "ok"
      BY <2>6, Zenon DEF Best, Result
    <3> QED BY <2>4, <3>1 DEF Stopped
  <2> QED BY <2>3, <2>5, <2>6
<1> QED BY <1>1, <1>2, <1>3 DEF Handle, ProcessMsg

(* No feed of an uncrossed market whose prices are where price_base was    *)
(* chosen to have them runs into an assertion of l3, l2 or bbo, the one on *)
(* the spread (bbo.py:53) included, until BBO has lost track.              *)
THEOREM NoAssertionHolds ==
  ASSUME QuotesInMarket, NoSpillRaises
  PROVE  Spec => []NoAssertionFails
<1>1. Init => NoAssertionFails
  <2> SUFFICES ASSUME Init PROVE result.kind # "exception"
    BY DEF NoAssertionFails, Stopped
  <2>1. result.kind = "ok"
    BY Zenon DEF Init, InitBook, Result
  <2> QED BY <2>1
<1>2. BBOInv /\ NoAssertionFails /\ [Next]_vars => NoAssertionFails'
  <2> SUFFICES ASSUME BBOInv, NoAssertionFails, [Next]_vars PROVE NoAssertionFails'
    OBVIOUS
  <2>1. CASE Next
    <3>1. PICK msg \in BookMsg : Handle(msg) /\ Expected(msg)
      BY <2>1, NextExpected DEF BBOInv, LevelInv
    <3>2. ~lost' => ~lost
      BY <3>1 DEF Handle
    <3> QED BY <3>1, <3>2, HandleAnswers DEF NoAssertionFails
  <2>2. CASE UNCHANGED vars
    BY <2>2 DEF vars, NoAssertionFails, Stopped
  <2> QED BY <2>1, <2>2
<1> QED BY <1>1, <1>2, BBOInvHolds, PTL DEF Spec

----------------------------------------------------------------------------
(* The book implements the order book it promises to be. *)

(* Both speak of the same books. *)
LEMMA SameBook ==
  ASSUME NEW book, NEW side
  PROVE  /\ OB!OrdersOf(book, side) = OrdersOf(book, side)
         /\ OB!SidePrices(book, side) = SidePrices(book, side)
         /\ \A ids : OB!SharesOf(book, ids) = SharesOf(book, ids)
         /\ OB!EmptyDict = EmptyDict /\ OB!NoLevel = BBO!NoEntry
         /\ \A k, v : OB!Put(book, k, v) = Put(book, k, v)
         /\ \A k : OB!Drop(book, k) = Drop(book, k)
<1>1. OB!OrdersOf(book, side) = OrdersOf(book, side)
  BY DEF OB!OrdersOf, OrdersOf
<1>2. OB!SidePrices(book, side) = SidePrices(book, side)
  BY <1>1 DEF OB!SidePrices, SidePrices
<1>3. ASSUME NEW ids PROVE OB!SharesOf(book, ids) = SharesOf(book, ids)
  <2>1. OB!SharesOf(book, ids) = (CHOOSE g : Adds(g, book, ids))[ids]
    BY DEF OB!SharesOf, OB!MapThenSumSet, OB!MapThenFoldSet, Adds, First
  <2> QED BY <2>1, SharesOfFold
<1>4. OB!EmptyDict = EmptyDict /\ OB!NoLevel = BBO!NoEntry
  BY DEF OB!EmptyDict, EmptyDict, OB!NoLevel, BBO!NoEntry
<1>5. /\ \A k, v : OB!Put(book, k, v) = Put(book, k, v)
      /\ \A k : OB!Drop(book, k) = Drop(book, k)
  BY DEF OB!Put, Put, OB!Drop, Drop
<1> QED BY <1>1, <1>2, <1>3, <1>4, <1>5

(* The best price of a side is the one no other price improves on. *)
LEMMA BestPriceIs ==
  ASSUME NEW side \in BOOLEAN, NEW S, S \subseteq Nat, NEW p \in S,
         \A q \in S : q = p \/ BBO!Improves(side, p, q)
  PROVE  OB!BestPrice(S, side) = p
<1>1. CASE side
  <2>1. \A q \in S : p >= q
    BY <1>1 DEF BBO!Improves
  <2>2. \A x \in S : (\A y \in S : x >= y) => x = p
    BY <2>1
  <2>3. OB!Max(S) = p
    BY <2>1, <2>2 DEF OB!Max
  <2> QED BY <1>1, <2>3 DEF OB!BestPrice
<1>2. CASE ~side
  <2>1. \A q \in S : p <= q
    BY <1>2 DEF BBO!Improves
  <2>2. \A x \in S : (\A y \in S : x <= y) => x = p
    BY <2>1
  <2>3. OB!Min(S) = p
    BY <2>1, <2>2 DEF OB!Min
  <2> QED BY <1>2, <2>3 DEF OB!BestPrice
<1> QED BY <1>1, <1>2

(* The first register of a half that follows the book is the best level of *)
(* its side.                                                               *)
LEMMA BestFollows ==
  ASSUME NEW book, IsBook(book), NEW side \in BOOLEAN,
         NEW h, HalfType(h), HalfFollows(h, book, side)
  PROVE  BBO!Best(h) = OB!BestLevel(book, side)
<1> DEFINE e == h.entries
           S == SidePrices(book, side)
<1>0. e \in Seq(Levels1) /\ Len(e) \in Nat /\ BBO_DEPTH \in Nat /\ BBO_DEPTH >= 2
  BY HalfFacts, WindowSize
<1>1. InOrder(e, side) /\ HasShares(e, book, side) /\ LeavesOut(e, book, side, BBO_DEPTH)
  BY DEF HalfFollows, RankedTo
<1>2. S \subseteq Nat /\ HeldBy(e) \subseteq S
  BY <1>0, <1>1, SideTypes, HeldFacts, PricesAssumption
<1>3. OB!BestLevel(book, side) = IF S = {} THEN BBO!NoEntry
                                 ELSE OB!LevelAt(book, side, OB!BestPrice(S, side))
  BY SameBook DEF OB!BestLevel
<1>4. CASE e = <<>>
  <2>1. S = {}
    <3>1. Len(e) = 0 /\ HeldBy(e) = {}
      BY <1>4 DEF HeldBy
    <3> QED BY <1>0, <1>1, <3>1 DEF LeavesOut
  <2> QED BY <1>3, <1>4, <2>1 DEF BBO!Best
<1>5. CASE e # <<>>
  <2> DEFINE p == e[1].price
  <2>1. 1 \in 1 .. Len(e) /\ p \in HeldBy(e) /\ p \in S
    BY <1>0, <1>2, <1>5 DEF HeldBy
  <2>2. ASSUME NEW q \in S PROVE q = p \/ BBO!Improves(side, p, q)
    <3>1. CASE q \in HeldBy(e)
      <4>1. PICK j \in 1 .. Len(e) : q = e[j].price
        BY <3>1 DEF HeldBy
      <4> QED BY <1>0, <1>1, <2>1, <4>1 DEF InOrder
    <3>2. CASE q \notin HeldBy(e)
      BY <1>1, <2>1, <3>2 DEF LeavesOut
    <3> QED BY <3>1, <3>2
  <2>3. OB!BestPrice(S, side) = p
    <3> HIDE DEF p, S
    <3> QED BY <1>2, <2>1, <2>2, BestPriceIs
  <2>4. OB!LevelAt(book, side, p) = [shares |-> OB!SharesAtPrice(book, side, p), price |-> p]
    BY DEF OB!LevelAt
  <2>5. OB!SharesAtPrice(book, side, p) = e[1].shares
    <3>1. At(book, {<<side, p>>}) = {id \in OrdersOf(book, side) : book[id].price = p}
      BY DEF At, OrdersOf
    <3>2. OB!SharesAtPrice(book, side, p) = SharesOf(book, {id \in OrdersOf(book, side) : book[id].price = p})
      BY SameBook DEF OB!SharesAtPrice
    <3> QED BY <1>1, <2>1, <3>1, <3>2 DEF HasShares, Total
  <2>6. BBO!Best(h) = e[1] /\ e[1] = [shares |-> e[1].shares, price |-> p]
    BY <1>5, <2>1, HalfFacts DEF BBO!Best
  <2> QED BY <1>3, <2>1, <2>3, <2>4, <2>5, <2>6
<1> QED BY <1>4, <1>5

(* The shares L3 hands on come with the message, except a deleted order's. *)
LEMMA LookupShares ==
  ASSUME TableInv, NEW msg \in BookMsg, L3!Accept(msg),
         NEW m, m = L3!LookupMsg(msg)
  PROVE  /\ BringsShares(m) => m.shares \in ShareCounts
         /\ ~BringsShares(m) => \/ m.shares \in ShareCounts
                                \/ /\ msg.order_id \in DOMAIN L3!Contents
                                   /\ m.shares = L3!Contents[msg.order_id].shares
<1>1. m.msg_type = msg.msg_type
  BY DEF L3!LookupMsg
<1>2. msg.msg_type # "DELETE" => msg.shares \in ShareCounts
  BY DEF BookMsg, AddOrderMsg, ReduceOrderMsg, DeleteOrderMsg, ReplaceOrderMsg
<1>3. CASE BringsShares(msg)
  <2>1. m.shares = msg.shares
    BY <1>3, TableEnter
  <2> QED BY <1>1, <1>2, <1>3, <2>1 DEF BringsShares
<1>4. CASE ~BringsShares(msg)
  <2>1. L3!Status(msg) = "ok"
    BY DEF L3!Accept
  <2>2. /\ msg.order_id \in DOMAIN L3!Contents
        /\ m.shares = IF msg.msg_type = "REDUCE" THEN msg.shares
                      ELSE L3!Contents[msg.order_id].shares
    BY <1>4, <2>1, TableFound
  <2> QED BY <1>1, <1>2, <1>4, <2>2 DEF BringsShares
<1> QED BY <1>3, <1>4

(* What a message does to the orders at a tick is a change a book may make. *)
LEMMA MovesChange ==
  ASSUME IsBook(Priced), NEW m \in DownstreamOrderMsg, NEW id,
         Moves(Priced, Priced', id, m),
         BringsShares(m) => m.shares \in ShareCounts,
         ~BringsShares(m) => m.shares \in ShareCounts \/ m.shares = Priced[id].shares
  PROVE  OB!Changes
<1>1. CASE Entering(Priced, Priced', id, m)
  <2> DEFINE new == Order(m.is_buy, m.shares, m.price)
  <2>1. /\ BringsShares(m) /\ id \in OrderIds \ DOMAIN Priced
        /\ Priced' = Put(Priced, id, new)
    BY <1>1 DEF Entering
  <2>2. new \in [is_buy : BOOLEAN, shares : ShareCounts, price : Prices]
    BY <2>1 DEF Order, DownstreamOrderMsg
  <2>3. DOMAIN Priced' = DOMAIN Priced \cup {id} /\ Priced'[id] = new
    BY <2>1 DEF Put
  <2> HIDE DEF new
  <2>4. OB!Put(Priced, id, new) = Put(Priced, id, new)
    BY DEF OB!Put, Put
  <2> QED BY <2>1, <2>2, <2>3, <2>4 DEF OB!Changes, OB!Enters
<1>2. CASE Leaving(Priced, Priced', id, m)
  <2>1. /\ ~BringsShares(m) /\ id \in DOMAIN Priced /\ m.shares <= Priced[id].shares
        /\ Priced' = IF Priced[id].shares = m.shares THEN Drop(Priced, id)
                     ELSE Put(Priced, id, Reduced(Priced[id], m.shares))
    BY <1>2 DEF Leaving
  <2>2. CASE Priced[id].shares = m.shares
    <3>1. Priced' = OB!Drop(Priced, id)
      BY <2>1, <2>2 DEF OB!Drop, Drop
    <3> QED BY <2>1, <3>1 DEF OB!Changes, OB!Leaves
  <2>3. CASE Priced[id].shares # m.shares
    <3>1. Priced[id].shares \in Nat /\ m.shares \in Nat
      BY <2>1 DEF IsBook, IsDict, L3Entry, DownstreamOrderMsg
    <3>2. Priced[id].shares > m.shares /\ m.shares \in ShareCounts
      BY <2>1, <2>3, <3>1
    <3>3. Priced' = OB!Put(Priced, id, Reduced(Priced[id], m.shares))
      BY <2>1, <2>3 DEF OB!Put, Put
    <3>4. Priced' = OB!Put(Priced, id, [Priced[id] EXCEPT !.shares = @ - m.shares])
      BY <3>3 DEF Reduced
    <3> QED BY <2>1, <3>2, <3>4 DEF OB!Changes, OB!Shrinks
  <2> QED BY <2>2, <2>3
<1> QED BY <1>1, <1>2 DEF Moves

(* A message L3 takes in changes the orders at a tick, or they stay.       *)
LEMMA AcceptChanges ==
  ASSUME BBOInv, ~Stopped, NEW msg \in BookMsg, L3!Accept(msg)
  PROVE  /\ Priced' = Priced \/ OB!Changes
         /\ Moves(Priced, Priced', msg.order_id, L3!LookupMsg(msg)) => OB!Changes
<1>1. PICK m : m = L3!LookupMsg(msg)
  OBVIOUS
<1>2. /\ m \in DownstreamOrderMsg
      /\ Moves(L3!Contents, L3!Contents', msg.order_id, m)
  BY <1>1, BookFacts, AcceptMoves
<1>3. ASSUME Moves(Priced, Priced', msg.order_id, m) PROVE OB!Changes
  <2>1. IsBook(Priced) /\ TableInv
    BY BookFacts
  <2>2. ~BringsShares(m) => /\ msg.order_id \in DOMAIN Priced
                            /\ Priced[msg.order_id] = L3!Contents[msg.order_id]
    BY <1>3 DEF Moves, Entering, Leaving, Priced
  <2>3. /\ BringsShares(m) => m.shares \in ShareCounts
        /\ ~BringsShares(m) => \/ m.shares \in ShareCounts
                               \/ m.shares = L3!Contents[msg.order_id].shares
    BY <1>1, <2>1, LookupShares
  <2> QED BY <1>2, <1>3, <2>1, <2>2, <2>3, MovesChange
<1>4. Moves(Priced, Priced', msg.order_id, m) \/ Priced' = Priced
  BY <1>2, BookFacts, TicksMove, PricedTicks
<1> QED BY <1>1, <1>3, <1>4

(* When BBO loses track, an order leaves with the last share of its level. *)
LEMMA LosingLeaves ==
  ASSUME HalvesType, HalvesFollow, IsBook(Priced), NEW m \in DownstreamOrderMsg, NEW id,
         Moves(Priced, Priced', id, m),
         NEW step, step = BBO!HalfStep(m), BBOError(m, step)
  PROVE  OB!Leaves
<1> DEFINE h == BBO!Half(m.is_buy)
<1>1. m.is_buy \in BOOLEAN /\ HalfType(h) /\ HalfFollows(h, Priced, m.is_buy)
  BY DEF DownstreamOrderMsg, BBO!Half, HalvesType, HalvesFollow
<1>2. step = BBO!ProcessHalf(h, m)
  BY DEF BBO!HalfStep
<1> HIDE DEF h
<1>3. step.outcome = "no_shares_in_range"
  BY DEF BBOError, BBO!Outcome
<1>4. BBO!Effect(h, m) = "depletion"
  <2>1. BBO!Effect(h, m) \in {"outside", "modify", "depletion", "insertion", "assert"}
    BY EffectFacts
  <2> QED BY <1>2, <1>3, <2>1, ProcessHalfFacts
<1> DEFINE i == BBO!FirstHit(h, m)
           e == h.entries
<1>5. ~BringsShares(m) /\ e[i].price = m.price /\ e[i].shares = m.shares
  BY <1>4, EffectFacts
<1>6. i \in 1 .. Len(e)
  <2>1. BBO!Hits(h, m) # {}
    BY <1>4, EffectFacts
  <2> QED BY <1>1, <2>1, FirstHitFacts
<1>7. m.shares = Total(Priced, {<<m.is_buy, m.price>>})
  BY <1>1, <1>5, <1>6 DEF HalfFollows, RankedTo, HasShares
<1> HIDE DEF i, e
<1>8. /\ id \in DOMAIN Priced /\ m.shares <= Priced[id].shares
      /\ Priced[id].is_buy = m.is_buy /\ Priced[id].price = m.price
      /\ Priced[id].shares = m.shares => Priced' = Drop(Priced, id)
  BY <1>5 DEF Moves, Entering, Leaving
<1>9. Priced[id].shares = m.shares
  <2> DEFINE there == {<<m.is_buy, m.price>>}
  <2>1. id \in At(Priced, there)
    BY <1>8 DEF At
  <2>2. m.shares = Total(Priced, there)
    BY <1>7
  <2> HIDE DEF there
  <2>3. m.shares >= Priced[id].shares
    BY <2>1, <2>2, TotalFacts
  <2>4. Priced[id].shares \in Nat /\ m.shares \in Nat
    BY <1>8 DEF IsBook, IsDict, L3Entry, DownstreamOrderMsg
  <2> QED BY <1>8, <2>3, <2>4
<1>10. Priced' = OB!Drop(Priced, id)
  BY <1>8, <1>9 DEF OB!Drop, Drop
<1> QED BY <1>8, <1>10 DEF OB!Leaves

----------------------------------------------------------------------------
(* What a result and the loss of the best levels report. *)
Report(gone, answer) ==
  [kind |-> IF gone THEN "lost" ELSE IF answer.kind = "ok" THEN "best" ELSE answer.kind,
   bid  |-> IF gone THEN BBO!NoEntry ELSE answer.bid,
   off  |-> IF gone THEN BBO!NoEntry ELSE answer.off]

LEMMA NoLevelIs == OB!NoLevel = BBO!NoEntry
BY DEF OB!NoLevel, BBO!NoEntry

LEMMA ErrorReport ==
  ASSUME NEW gone, ~gone, NEW answer, NEW why, answer = Error(why)
  PROVE  Report(gone, answer) = OB!Failed("error")
<1>1. answer.kind = "error" /\ answer.bid = BBO!NoEntry /\ answer.off = BBO!NoEntry
  BY DEF Error, Result
<1> QED BY <1>1, NoLevelIs DEF Report, OB!Failed

LEMMA LostReport ==
  ASSUME NEW gone, gone, NEW answer
  PROVE  Report(gone, answer) = OB!Failed("lost")
BY NoLevelIs DEF Report, OB!Failed

LEMMA BestReported ==
  ASSUME NEW m, NEW step, NEW gone, ~gone, NEW answer, answer = Best(m, step)
  PROVE  Report(gone, answer) = [kind |-> "best", bid |-> BBO!BestBid(m, step),
                                 off |-> BBO!BestOff(m, step)]
<1>1. answer.kind = "ok" /\ answer.bid = BBO!BestBid(m, step) /\ answer.off = BBO!BestOff(m, step)
  BY Zenon DEF Best, Result
<1> QED BY <1>1 DEF Report

(* The report is "lost" from the loss on. *)
LEMMA LostIs ==
  ASSUME BBOInv, ~Stopped
  PROVE  OB!Lost <=> lost
<1>1. result.kind \in {"ok", "error", "exception"}
  BY DEF BBOInv, LevelInv, FollowInv, FollowType
<1> QED BY <1>1 DEF OB!Lost

(* The four ways of the promise, with the report spelled out. *)
LEMMA Promised ==
  /\ OB!TakesEffect <=> OB!Changes /\ ~OB!Lost /\ Report(lost', result') = OB!BestReport(Priced')
  /\ OB!Refuses <=> Priced' = Priced /\ ~OB!Lost /\ Report(lost', result') = OB!Failed("error")
  /\ OB!LosesTrack <=> OB!Leaves /\ ~OB!Lost /\ Report(lost', result') = OB!Failed("lost")
  /\ OB!OnlyFollows <=> OB!Lost /\ (OB!Changes \/ Priced' = Priced)
                                /\ Report(lost', result') = Report(lost, result)
<1>1. OB!TakesEffect <=> OB!Changes /\ ~OB!Lost /\ Report(lost', result') = OB!BestReport(Priced')
  BY DEF OB!TakesEffect, Report
<1>2. OB!Refuses <=> Priced' = Priced /\ ~OB!Lost /\ Report(lost', result') = OB!Failed("error")
  BY DEF OB!Refuses, Report
<1>3. OB!LosesTrack <=> OB!Leaves /\ ~OB!Lost /\ Report(lost', result') = OB!Failed("lost")
  BY DEF OB!LosesTrack, Report
<1>4. OB!OnlyFollows <=> OB!Lost /\ (OB!Changes \/ Priced' = Priced)
                                 /\ Report(lost', result') = Report(lost, result)
  BY DEF OB!OnlyFollows, Report
<1> QED BY <1>1, <1>2, <1>3, <1>4

(* A half that follows the book answers with the best bid and offer. *)
LEMMA AnswerReports ==
  ASSUME HalvesType', HalvesFollow', IsBook(Priced)', NEW m, NEW step,
         Processed(m, step) \/ Refilled(m, step), result' = Best(m, step), ~lost'
  PROVE  Report(lost', result') = OB!BestReport(Priced')
<1>1. bid_entry' = BBO!BestBid(m, step) /\ off_entry' = BBO!BestOff(m, step)
  BY DEF Processed, Refilled, BBO!Renew
<1>2. /\ HalfType(bid_module') /\ HalfType(off_module')
      /\ HalfFollows(bid_module', Priced', TRUE) /\ HalfFollows(off_module', Priced', FALSE)
      /\ IsBook(Priced')
  BY DEF HalvesType, HalvesFollow
<1>3. bid_entry' = BBO!Best(bid_module') /\ off_entry' = BBO!Best(off_module')
  BY DEF HalvesFollow, BBO!Best
<1>4. /\ BBO!Best(bid_module') = OB!BestLevel(Priced', TRUE)
      /\ BBO!Best(off_module') = OB!BestLevel(Priced', FALSE)
  BY <1>2, BestFollows
<1>5. Report(lost', result') = [kind |-> "best", bid |-> bid_entry', off |-> off_entry']
  BY <1>1, BestReported
<1> QED BY <1>3, <1>4, <1>5 DEF OB!BestReport

LEMMA HandleImplements ==
  ASSUME BBOInv, QuotesInMarket, NoSpillRaises,
         NEW msg \in BookMsg, Expected(msg), Handle(msg)
  PROVE  OB!OBNext
<1>0. ~Stopped /\ (OB!Lost <=> lost)
  BY HandleFacts, LostIs
<1>1. CASE lost
  <2>1. lost'
    BY <1>1, Zenon DEF Handle
  <2>2. Report(lost', result') = Report(lost, result)
    BY <1>1, <2>1 DEF Report
  <2>3. Priced' = Priced \/ OB!Changes
    BY <1>0, HandleFacts, AcceptChanges, PricedKept
  <2> QED BY <1>0, <1>1, <2>2, <2>3, Promised DEF OB!OBNext
<1>2. CASE ~lost
  <2>1. ~L3Raised(msg) /\ ~L2Raised(msg)
    BY <1>0, L3Answers, L2Answers
  <2>2. ASSUME NEW why, why # "no_shares_in_range", result' = Error(why), Priced' = Priced
        PROVE  OB!OBNext
    <3>1. result'.why = why
      BY <2>2 DEF Error, Result
    <3>2. ~lost'
      BY <1>2, <2>2, <3>1, Zenon DEF Handle
    <3>3. Report(lost', result') = OB!Failed("error")
      BY <2>2, <3>2, ErrorReport
    <3> QED BY <1>0, <1>2, <2>2, <3>3, Promised DEF OB!OBNext
  <2>3. CASE L3Error(msg)
    <3>1. L3!Refuse(msg) /\ result' = Error(L3!Status(msg))
      BY <2>3 DEF L3Error
    <3>2. L3!Status(msg) # "no_shares_in_range"
      BY <1>0, BookFacts, TableStatus
    <3> QED BY <1>0, <2>2, <3>1, <3>2, PricedKept
  <2>4. CASE L2Error(msg)
    <3>1. result' = Error("off_tick")
      BY <2>4 DEF L2Error
    <3> QED BY <1>0, <2>2, <2>4, <3>1, PricedKept
  <2>5. CASE ReachesBBO(msg)
    <3>1. PICK m, step :
             /\ m \in DownstreamOrderMsg
             /\ m = L3!LookupMsg(msg) /\ step = BBO!HalfStep(m) /\ Answers(m, step)
             /\ Moves(Priced, Priced', msg.order_id, m)
             /\ IsBook(Priced)' /\ Uncrossed(Priced)' /\ RightSide(Priced)' /\ LevelsInv'
      BY <1>0, <2>5, ReachedFacts
    <3>2. ~BBORaised(m, step)
      BY <1>0, <1>2, <3>1, BookFacts, AnswersHold DEF BBOInv
    <3>3. OB!Changes
      <4>1. L3!Accept(msg)
        BY <2>5 DEF ReachesBBO, Stored
      <4> QED BY <1>0, <3>1, <4>1, AcceptChanges
    <3>4. CASE BBOError(m, step)
      <4>1. result' = Error("no_shares_in_range")
        BY <3>4 DEF BBOError
      <4>2. result'.why = "no_shares_in_range"
        BY <4>1 DEF Error, Result
      <4>3. lost'
        BY <4>2, Zenon DEF Handle
      <4>4. Report(lost', result') = OB!Failed("lost")
        BY <4>3, LostReport
      <4>5. OB!Leaves
        BY <1>0, <1>2, <3>1, <3>4, BookFacts, LosingLeaves DEF BBOInv
      <4> QED BY <1>0, <1>2, <4>4, <4>5, Promised DEF OB!OBNext
    <3>5. CASE Processed(m, step) \/ Refilled(m, step)
      <4>1. HalvesFollow' /\ result' = Best(m, step)
        BY <1>0, <1>2, <3>1, <3>5, BookFacts, AnswersFollow DEF BBOInv
      <4>2. HalvesType'
        BY <3>1, AnswersType DEF BBOInv
      <4>3. ~lost'
        <5>1. result'.why = ""
          BY <4>1, Zenon DEF Best, Result
        <5>2. "" # "no_shares_in_range"
          BY Zenon
        <5> QED BY <1>2, <5>1, <5>2, Zenon DEF Handle
      <4>4. Report(lost', result') = OB!BestReport(Priced')
        BY <3>1, <3>5, <4>1, <4>2, <4>3, AnswerReports
      <4> QED BY <1>0, <1>2, <3>3, <4>3, <4>4, Promised DEF OB!OBNext
    <3> QED BY <3>1, <3>2, <3>4, <3>5 DEF Answers
  <2> QED BY <2>1, <2>3, <2>4, <2>5 DEF Handle, ProcessMsg
<1> QED BY <1>1, <1>2

(* At first there are no orders, and the book says so. *)
LEMMA InitImplements == Init => OB!OBInit
<1> SUFFICES ASSUME Init PROVE OB!OBInit
  OBVIOUS
<1>1. /\ L3!InitMemory /\ lost = FALSE
      /\ result = Result("ok", "", BBO!NoEntry, BBO!NoEntry)
  BY DEF Init, InitBook, L3!InitL3
<1>2. Priced = OB!EmptyDict
  <2>1. L3!Contents = EmptyDict
    BY <1>1, TableEmpty
  <2>2. Priced = EmptyDict
    BY <2>1 DEF Priced, EmptyDict
  <2> QED BY <2>2 DEF OB!EmptyDict, EmptyDict
<1>3. Report(lost, result) = OB!BestReport(OB!EmptyDict)
  <2>1. result.kind = "ok" /\ result.bid = BBO!NoEntry /\ result.off = BBO!NoEntry
    BY <1>1, Zenon DEF Result
  <2>2. \A side : OB!BestLevel(OB!EmptyDict, side) = BBO!NoEntry
    BY NoLevelIs DEF OB!BestLevel, OB!SidePrices, OB!OrdersOf, OB!EmptyDict
  <2> QED BY <1>1, <2>1, <2>2 DEF Report, OB!BestReport
<1> QED BY <1>2, <1>3 DEF OB!OBInit, Report

(* The reference model's book implements the order book: after every       *)
(* message it takes in it reports the best bid and offer that the orders   *)
(* at a tick make up, a refused message changes nothing, and it loses      *)
(* track only with an order that takes the last share of its level away.   *)
THEOREM BookImplements ==
  ASSUME QuotesInMarket, NoSpillRaises
  PROVE  Spec => ImplementsOrderBook
<1>1. Init => OB!OBInit
  BY InitImplements
<1>2. BBOInv /\ [Next]_vars => [OB!OBNext]_(OB!ob_vars)
  <2> SUFFICES ASSUME BBOInv, [Next]_vars PROVE OB!OBNext \/ UNCHANGED OB!ob_vars
    OBVIOUS
  <2>1. CASE Next
    <3>1. PICK msg \in BookMsg : Handle(msg) /\ Expected(msg)
      BY <2>1, NextExpected DEF BBOInv, LevelInv
    <3> QED BY <3>1, HandleImplements
  <2>2. CASE UNCHANGED vars
    <3>1. UNCHANGED <<result, lost, ram, cam>>
      BY <2>2 DEF vars
    <3>2. Priced' = Priced
      BY <3>1 DEF Priced, L3!Contents, L3!Stored, L3!Contains, L3!GetItem, L3!line
    <3> QED BY <3>1, <3>2 DEF OB!ob_vars
  <2> QED BY <2>1, <2>2
<1> QED BY <1>1, <1>2, BBOInvHolds, PTL DEF Spec, ImplementsOrderBook, OB!OBSpec
=============================================================================
