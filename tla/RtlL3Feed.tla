----------------------------- MODULE RtlL3Feed -----------------------------
(***************************************************************************)
(* The hardware order table behind the ITCH parser.  The parser shows the  *)
(* address of an order at least two clocks before its message and holds    *)
(* it until then (itch_parser.sv:79-80, 359-360, 447-455); the address of  *)
(* the next message follows at the earliest one clock after the message,   *)
(* which is where the second half of a 'U' message has it.  The messages   *)
(* are those of an exchange: they fit the orders that are live.            *)
(***************************************************************************)
EXTENDS RtlL3

CONSTANTS OrderIds, ShareCounts, Prices

T == INSTANCE BookTypes

ASSUME FeedAssumption ==
  /\ OrderIds \subseteq Nat \ {0}
  /\ ShareCounts \subseteq Nat \ {0}
  /\ Prices \subseteq Nat \ {0} /\ Prices # {}

VARIABLES live,      \* the exchange's live orders, by id
          last_side, \* side of the order it deleted last
          half,      \* the second half of a 'U' message is due
          coming,    \* the message whose address is shown, or none
          held,      \* clocks its address has been shown, up to two
          answer,    \* the last answer of the table
          failed     \* the table has reported an error

env_vars == <<live, last_side, half, coming, held, answer, failed>>
vars == <<rtl_vars, env_vars>>

(* An id that no order has today. *)
YesterdaysId == 1 + Max(OrderIds)

NoMsg == [msg_type |-> "none"]

Answer(status, lookup) == [status |-> status, lookup |-> lookup]

(* The table still holds the order, or will when its writes have arrived. *)
HeldInRam(id) == \E w \in Ways : Written[oid_hash(id)][w].valid
                                 /\ Written[oid_hash(id)][w].order_id = id
HeldInCam(id) == \E i \in Slots : CamWritten[i].valid /\ CamWritten[i].order_id = id

(* Messages that fit the live orders.                                      *)
Fits(msg) ==
  CASE half -> msg.msg_type = "REPLACE" /\ msg.order_id \notin DOMAIN live
    [] ~half /\ msg.msg_type = "ADD" -> msg.order_id \notin DOMAIN live
    [] ~half /\ msg.msg_type = "REDUCE" -> /\ msg.order_id \in DOMAIN live
                                           /\ live[msg.order_id].shares >= msg.shares
    [] ~half /\ msg.msg_type = "DELETE" -> msg.order_id \in DOMAIN live
    [] OTHER -> FALSE

(* An order id is used once a day; here it may come again when the table   *)
(* has no trace of it.                                                     *)
Unused(id) == ~HeldInRam(id) /\ \A i \in Slots : CamWritten[i].order_id # id

(* dec_book_i.  What a message type does not carry is zero here; in the    *)
(* code it is zero in a deletion and left over from an earlier message     *)
(* else, where the table replaces it.                                      *)
Dec(msg) ==
  [valid |-> TRUE, msg_type |-> msg.msg_type, order_id |-> msg.order_id,
   is_buy |-> msg.msg_type = "ADD" /\ msg.is_buy,
   shares |-> IF msg.msg_type = "DELETE" THEN 0 ELSE msg.shares,
   price  |-> IF BringsShares(msg) THEN msg.price ELSE 0]

(* Nothing recovers from an error: the table is followed up to the first.  *)

(* A clock without a message; the address may be that of an order of       *)
(* another stock.                                                          *)
Idle ==
  /\ ~failed
  /\ coming = NoMsg
  /\ \E hash \in Addrs : Clock(hash, NoDec)
  /\ failed' = l3_error(NoDec)
  /\ UNCHANGED <<live, last_side, half, coming, held, answer>>

(* The address of the next message is shown. *)
Announce(msg) ==
  /\ ~failed
  /\ coming = NoMsg
  /\ rst_done
  /\ Fits(msg)
  /\ BringsShares(msg) => Unused(msg.order_id)
  /\ Clock(oid_hash(msg.order_id), NoDec)
  /\ failed' = l3_error(NoDec)
  /\ coming' = msg
  /\ held' = 1
  /\ UNCHANGED <<live, last_side, half, answer>>

(* The address stays; the parser may be waiting for the rest of its bytes. *)
Hold ==
  /\ ~failed
  /\ coming # NoMsg
  /\ Clock(oid_hash(coming.order_id), NoDec)
  /\ failed' = l3_error(NoDec)
  /\ held' = 2
  /\ UNCHANGED <<live, last_side, half, coming, answer>>

(* The orders live after a message. *)
LiveAfter(msg) ==
  LET id == msg.order_id
  IN  CASE msg.msg_type = "ADD" ->
             T!Put(live, id, [is_buy |-> msg.is_buy, shares |-> msg.shares, price |-> msg.price])
        [] msg.msg_type = "REPLACE" ->
             T!Put(live, id, [is_buy |-> last_side = "buy", shares |-> msg.shares, price |-> msg.price])
        [] msg.msg_type = "REDUCE" /\ live[id].shares > msg.shares ->
             T!Put(live, id, [live[id] EXCEPT !.shares = @ - msg.shares])
        [] OTHER -> T!Drop(live, id)

(* The write on the way to the CAM after this clock will find no slot. *)
NoSlot == l3_cam_error'

(* The message itself: the table answers at the clock's end.  An order     *)
(* that finds no slot is noticed one clock later.                          *)
Decode ==
  /\ ~failed
  /\ held = 2
  /\ LET dec == Dec(coming)
     IN  /\ Clock(oid_hash(coming.order_id), dec)
         /\ failed' = l3_error(dec)
         /\ answer' = IF NoSlot /\ BringsShares(dec) THEN Answer("full", NoMsg)
                      ELSE Answer("ok", [msg_type |-> dec.msg_type,
                                         is_buy |-> lookup_dec_book_o'.is_buy,
                                         shares |-> lookup_dec_book_o'.shares,
                                         price  |-> lookup_dec_book_o'.price])
  /\ live' = LiveAfter(coming)
  /\ IF coming.msg_type = "DELETE"
     THEN /\ last_side' = IF live[coming.order_id].is_buy THEN "buy" ELSE "sell"
          /\ half' \in BOOLEAN
     ELSE /\ half' = FALSE
          /\ UNCHANGED last_side
  /\ coming' = NoMsg
  /\ held' = 0

(* Before the reset the memory held orders of an earlier day, and the CAM  *)
(* shows the ids of some or, after power-up, zeros.                        *)
OldWord(id) == [valid |-> TRUE, order_id |-> id, is_buy |-> TRUE, shares |-> 1,
                price |-> CHOOSE p \in Prices : TRUE]

Init ==
  /\ \E old \in OrderIds :
       LET line == [w \in Ways |-> OldWord(old)]
       IN  \/ InitRtlL3([a \in Addrs |-> line], [i \in Slots |-> 0])
          \/ InitRtlL3([a \in Addrs |-> line], [i \in Slots |-> YesterdaysId])
  /\ live = T!EmptyDict
  /\ last_side = "none"
  /\ half = FALSE
  /\ coming = NoMsg
  /\ held = 0
  /\ answer = Answer("none", NoMsg)
  /\ failed = FALSE

Next == Idle \/ (\E msg \in T!BookMsg : Announce(msg)) \/ Hold \/ Decode

Spec == Init /\ [][Next]_vars

----------------------------------------------------------------------------
Word == [valid : BOOLEAN, order_id : OrderIds \cup {0, YesterdaysId}, is_buy : BOOLEAN,
         shares : Nat, price : Prices \cup {0}]
Line == [Ways -> Word]

(* Every register has its type: no count runs past its range and no order  *)
(* is left with negative shares.                                           *)
TypeOK ==
  /\ mem \in [Addrs -> Line]
  /\ write_q \in [wea : BOOLEAN, addra : Addrs, line : Line, word_idx : Ways, word : Word]
  /\ write_q2 \in [wea : BOOLEAN, addra : Addrs, dina : Line]
  /\ addrb_q \in Addrs /\ oid_hash_q \in Addrs /\ count_q \in Addrs
  /\ doutb \in Line /\ doutb_o \in Line
  /\ mem_arr_q \in [Slots -> Word]
  /\ l3_cam_d_in_q \in Word
  /\ {rst_in_progress_q, l3_cam_w_en_q, prev_is_buy_q, half, failed} \subseteq BOOLEAN
  /\ T!IsDict(live, OrderIds, T!L3Entry)

(* Once ready, a line holds nothing but live orders: no order of the day   *)
(* before survives the reset, none that is deleted stays, and each is in   *)
(* the line its address names with the side, price and shares it has left. *)
LinesHoldLive ==
  rst_done =>
    \A a \in Addrs : \A w \in Ways :
      LET word == Written[a][w]
      IN  word.valid => /\ word.order_id \in DOMAIN live
                        /\ oid_hash(word.order_id) = a
                        /\ live[word.order_id] =
                             [is_buy |-> word.is_buy, shares |-> word.shares, price |-> word.price]

(* The assertions of l3_order_table.sv:121, 128 and 355: a message never   *)
(* finds its order twice.                                                  *)
NeverFoundTwice == held = 2 => FoundOnce(Dec(coming))

(* To messages that fit the live orders the table reports an error only    *)
(* when every slot of the CAM is taken; a slot whose order was deleted     *)
(* stays taken (see WriteWord).                                            *)
ErrorMeansFull == failed => \A i \in Slots : mem_arr_q[i].valid

(* Behind its pipeline the table answers as the plain dictionary does.     *)
(* What it holds are the orders in memory and on their way there, but for  *)
(* those deleted from the CAM, which no later message asks for.            *)
Held == {id \in DOMAIN live : HeldInRam(id) \/ HeldInCam(id)}

HeldWord(id) ==
  LET words == {w \in {Written[oid_hash(id)][v] : v \in Ways} \cup {CamWritten[i] : i \in Slots} :
                  w.valid /\ w.order_id = id}
      word == CHOOSE w \in words : TRUE
  IN  [is_buy |-> word.is_buy, shares |-> word.shares, price |-> word.price]

Store == INSTANCE OrderStore WITH
           orders <- [id \in Held |-> HeldWord(id)],
           last_side <- IF last_side = "none" THEN "none"
                        ELSE IF prev_is_buy_q THEN "buy" ELSE "sell"

ImplementsStore == Store!StoreSpec

(* The CAM reports that it is full (l3_order_table.sv:338) only when every *)
(* one of its entries (eight, README.md:28) holds a live order.            *)
CamFullOfLive == l3_cam_error => \A i \in Slots : mem_arr_q[i].order_id \in DOMAIN live
=============================================================================
