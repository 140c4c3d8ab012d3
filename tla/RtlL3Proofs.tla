----------------------------- MODULE RtlL3Proofs -----------------------------
(***************************************************************************)
(* Proofs about the hardware order table, for every number of lines, words *)
(* and slots, every set of orders and every sequence of messages.          *)
(***************************************************************************)
EXTENDS RtlL3Feed, FiniteSetTheorems, WellFoundedInduction, TLAPS

----------------------------------------------------------------------------
(* What the lines and the CAM hold.  Both are looked at with what is on    *)
(* its way to them, as Written and CamWritten show it.                     *)

(* What a word stores of its order. *)
Stored(word) == [is_buy |-> word.is_buy, shares |-> word.shares, price |-> word.price]

Shows(word, id) == word.valid /\ word.order_id = id

InLines(lines, id) == \E w \in Ways : Shows(lines[oid_hash(id)][w], id)

InCam(cam, id) == \E i \in Slots : Shows(cam[i], id)

(* Every word of a line is a live order at home, as it is. *)
LinesHold(lines, orders) ==
  \A a \in Addrs : \A w \in Ways :
    lines[a][w].valid =>
      /\ lines[a][w].order_id \in DOMAIN orders
      /\ oid_hash(lines[a][w].order_id) = a
      /\ orders[lines[a][w].order_id] = Stored(lines[a][w])

(* The CAM holds orders: those that live as they are, and some deleted.    *)
CamHolds(cam, orders) ==
  \A i \in Slots :
    cam[i].valid =>
      /\ cam[i].order_id \in OrderIds
      /\ cam[i].order_id \in DOMAIN orders => orders[cam[i].order_id] = Stored(cam[i])

(* An order has one word, in its line or in the CAM, and no other slot,    *)
(* empty or not, has its id.                                               *)
OnceInLine(lines) ==
  \A a \in Addrs : \A v, w \in Ways :
    (lines[a][v].valid /\ Shows(lines[a][w], lines[a][v].order_id)) => v = w

OnceInCam(cam) ==
  \A i, j \in Slots : Shows(cam[i], cam[j].order_id) => i = j

LineOrCam(lines, cam) ==
  \A a \in Addrs : \A w \in Ways : \A i \in Slots :
    ~Shows(lines[a][w], cam[i].order_id)

Tables(lines, cam, orders) ==
  /\ LinesHold(lines, orders) /\ CamHolds(cam, orders)
  /\ OnceInLine(lines) /\ OnceInCam(cam) /\ LineOrCam(lines, cam)

----------------------------------------------------------------------------
(* The inductive invariant. *)

(* The registers of the exchange and the parser. *)
FeedOK ==
  /\ coming \in T!BookMsg \cup {NoMsg}
  /\ held \in 0 .. 2
  /\ held = 0 <=> coming = NoMsg
  /\ last_side \in {"none", "buy", "sell"}
  /\ half => last_side # "none"
  /\ last_side # "none" => prev_is_buy_q = (last_side = "buy")

(* In a reset the lines behind the count are clear, and nothing is on its  *)
(* way to a line or to the CAM.  After it the count rests.                 *)
ResetClears ==
  /\ rst_done => count_q = 0
  /\ rst_in_progress_q =>
       /\ \A a \in Addrs : a > count_q => \A w \in Ways : ~mem[a][w].valid
       /\ \A i \in Slots : ~mem_arr_q[i].valid
       /\ ~write_q.wea /\ ~l3_cam_w_en_q
       /\ DOMAIN live = {}
       /\ coming = NoMsg

TablesHold == rst_done => Tables(Written, CamWritten, live)

(* Until an error is reported no live order is missing, but the one whose  *)
(* error is about to be.                                                   *)
NoneMissing ==
  ~failed => \A id \in DOMAIN live :
               \/ InLines(Written, id) \/ InCam(CamWritten, id)
               \/ l3_cam_error /\ l3_cam_d_in_q.order_id = id

(* While an address is shown nothing is written, and the line behind it is *)
(* on its way out of the memory as it stands there, bypass included, and   *)
(* then read.                                                              *)
LineComes ==
  coming # NoMsg =>
    /\ ~write_q.wea /\ ~l3_cam_w_en_q
    /\ addrb_q = oid_hash(coming.order_id)
    /\ oid_hash_q = oid_hash(coming.order_id)
    /\ Read = mem[addrb_q]
    /\ held = 2 => doutb_o = mem[addrb_q]

(* And the message still fits. *)
StillFits ==
  coming # NoMsg => /\ Fits(coming)
                    /\ BringsShares(coming) => Unused(coming.order_id)

IInv ==
  /\ TypeOK /\ FeedOK /\ ResetClears
  /\ TablesHold /\ NoneMissing /\ LineComes /\ StillFits
  /\ ErrorMeansFull

----------------------------------------------------------------------------
(* Addresses, places and words. *)

LEMMA HashInAddrs ==
  ASSUME NEW id \in Nat
  PROVE  oid_hash(id) \in Addrs
BY RtlL3SizesAssumption DEF oid_hash, Addrs

LEMMA IdsAreNat ==
  ASSUME NEW id \in OrderIds
  PROVE  id \in Nat \ {0} /\ oid_hash(id) \in Addrs
BY FeedAssumption, HashInAddrs

(* The encoder's pick of a set of places is one of them. *)
LEMMA MaxIn ==
  ASSUME NEW n \in Nat, NEW S \in SUBSET (0 .. n - 1), S # {}
  PROVE  Max(S) \in S /\ \A y \in S : Max(S) >= y
<1> DEFINE Above(x) == {y \in S : y > x}
           family == {Above(x) : x \in S}
<1>0. \A x \in S : x \in Int
  OBVIOUS
<1>1. IsFiniteSet(S)
  <2>1. IsFiniteSet(0 .. n - 1)
    BY FS_Interval
  <2> QED BY <2>1, FS_Subset
<1>2. IsWellFoundedOn(StrictSubsetOrdering(S), FiniteSubsetsOf(S))
  BY <1>1, FS_StrictSubsetOrderingWellFounded
<1>3. family \subseteq FiniteSubsetsOf(S) /\ family # {}
  <2>1. ASSUME NEW x \in S PROVE Above(x) \in FiniteSubsetsOf(S)
    BY <1>1, FS_FiniteSubsetsOfFinite
  <2> QED BY <2>1
<1>4. PICK T0 \in family : \A U \in family : ~(<<U, T0>> \in StrictSubsetOrdering(S))
  <2> HIDE DEF family
  <2> QED BY <1>2, <1>3, WFMin
<1>5. PICK x \in S : T0 = Above(x)
  OBVIOUS
<1>6. \A y \in S : x >= y
  <2> SUFFICES ASSUME NEW y \in S, y > x PROVE FALSE
    OBVIOUS
  <2>1. Above(y) \in family /\ Above(y) \in SUBSET S /\ T0 \in SUBSET S
    BY <1>5
  <2>2. Above(y) \subseteq T0 /\ y \in T0 /\ y \notin Above(y)
    <3>1. x \in Int /\ y \in Int
      BY <1>0
    <3>2. ASSUME NEW z \in Above(y) PROVE z \in Above(x)
      <4>1. z \in S /\ z > y /\ z \in Int
        BY <1>0
      <4>2. z > x
        BY ONLY <3>1, <4>1, y > x
      <4> QED BY <4>1, <4>2
    <3>3. y \in Above(x) /\ y \notin Above(y)
      BY <3>1
    <3> QED BY <1>5, <3>2, <3>3
  <2>3. <<Above(y), T0>> \in StrictSubsetOrdering(S)
    BY <2>1, <2>2 DEF StrictSubsetOrdering
  <2> QED BY <1>4, <2>1, <2>3
<1> QED BY <1>6 DEF Max

LEMMA NoWordTyped == NoWord \in Word /\ EmptyLine \in Line
BY DEF NoWord, EmptyLine, Word, Line

LEMMA NoMsgIsNone ==
  ASSUME NEW msg \in T!BookMsg
  PROVE  /\ msg # NoMsg
         /\ msg.order_id \in OrderIds
         /\ msg.msg_type \in {"ADD", "REDUCE", "DELETE", "REPLACE"}
<1>1. msg.order_id \in OrderIds /\ msg.msg_type \in {"ADD", "REDUCE", "DELETE", "REPLACE"}
  BY DEF T!BookMsg, T!AddOrderMsg, T!ReduceOrderMsg, T!DeleteOrderMsg, T!ReplaceOrderMsg
<1>2. NoMsg.msg_type = "none"
  BY DEF NoMsg
<1> QED BY <1>1, <1>2

LEMMA WrittenTyped ==
  ASSUME TypeOK
  PROVE  /\ Written \in [Addrs -> Line] /\ dina \in Line /\ Read \in Line
         /\ wea \in BOOLEAN /\ addra \in Addrs
<1>1. dina \in Line
  BY NoWordTyped DEF TypeOK, dina, Line
<1>2. wea \in BOOLEAN /\ addra \in Addrs
  BY DEF TypeOK, wea, addra
<1>3. Written \in [Addrs -> Line]
  BY <1>1, <1>2 DEF TypeOK, Written
<1>4. Read \in Line
  BY DEF TypeOK, Read
<1> QED BY <1>1, <1>2, <1>3, <1>4

LEMMA CamWrittenTyped ==
  ASSUME TypeOK
  PROVE  CamWritten \in [Slots -> Word]
BY DEF TypeOK, CamWritten

(* With nothing on its way a memory is as it stands. *)
LEMMA NothingOnItsWay ==
  ASSUME TypeOK, rst_done
  PROVE  /\ ~write_q.wea => Written = mem
         /\ ~l3_cam_w_en_q => (CamWritten = mem_arr_q /\ ~l3_cam_error)
BY DEF Written, wea, rst_done, CamWritten, l3_cam_error

----------------------------------------------------------------------------
(* Writes.  What follows is about any contents of the lines and the CAM.   *)

(* Two dictionaries of orders that differ at most in one order. *)
SameBut(id, orders, after) ==
  \A x : x # id => /\ x \in DOMAIN orders <=> x \in DOMAIN after
                   /\ x \in DOMAIN orders => after[x] = orders[x]

(* The word stands for the order: it shows it as it now is, or it is empty.*)
StandsFor(word, id, after) ==
  /\ word \in Word
  /\ word.valid => /\ word.order_id = id
                   /\ id \in DOMAIN after
                   /\ after[id] = Stored(word)

(* A way that is empty or has the order itself is written, and the order   *)
(* is in no other place.                                                   *)
LEMMA LineWrite ==
  ASSUME NEW lines \in [Addrs -> Line], NEW cam, NEW orders, NEW after,
         Tables(lines, cam, orders),
         NEW id \in OrderIds, NEW way \in Ways, NEW word,
         SameBut(id, orders, after), StandsFor(word, id, after),
         \A v \in Ways \ {way} : ~Shows(lines[oid_hash(id)][v], id),
         lines[oid_hash(id)][way].valid => lines[oid_hash(id)][way].order_id = id,
         \A i \in Slots : cam[i].order_id # id
  PROVE  Tables([lines EXCEPT ![oid_hash(id)] = [lines[oid_hash(id)] EXCEPT ![way] = word]],
                cam, after)
<1> DEFINE home == oid_hash(id)
           new == [lines EXCEPT ![home] = [lines[home] EXCEPT ![way] = word]]
<1>1. home \in Addrs
  BY IdsAreNat
<1>2. new[home][way] = word
  BY <1>1 DEF Line
<1>3. \A a \in Addrs : \A w \in Ways : (a # home \/ w # way) => new[a][w] = lines[a][w]
  BY <1>1 DEF Line
<1>4. \A a \in Addrs : \A w \in Ways :
        (a # home \/ w # way) => ~Shows(lines[a][w], id)
  <2> TAKE a \in Addrs
  <2> TAKE w \in Ways
  <2> HAVE a # home \/ w # way
  <2>1. CASE a = home
    BY <2>1
  <2>2. CASE a # home
    BY <2>2 DEF Tables, LinesHold, Shows
  <2> QED BY <2>1, <2>2
<1> HIDE DEF new, home
<1>5. LinesHold(new, after)
  <2> SUFFICES ASSUME NEW a \in Addrs, NEW w \in Ways, new[a][w].valid
               PROVE  /\ new[a][w].order_id \in DOMAIN after
                      /\ oid_hash(new[a][w].order_id) = a
                      /\ after[new[a][w].order_id] = Stored(new[a][w])
    BY DEF LinesHold
  <2>1. CASE a = home /\ w = way
    BY <2>1, <1>2 DEF StandsFor, home
  <2>2. CASE a # home \/ w # way
    <3>1. new[a][w] = lines[a][w] /\ lines[a][w].order_id # id
      BY <2>2, <1>3, <1>4 DEF Shows
    <3>2. /\ lines[a][w].order_id \in DOMAIN orders
          /\ oid_hash(lines[a][w].order_id) = a
          /\ orders[lines[a][w].order_id] = Stored(lines[a][w])
      BY <3>1 DEF Tables, LinesHold
    <3> QED BY <3>1, <3>2 DEF SameBut
  <2> QED BY <2>1, <2>2
<1>6. CamHolds(cam, after)
  BY DEF Tables, CamHolds, SameBut
<1>7. OnceInLine(new)
  <2> SUFFICES ASSUME NEW a \in Addrs, NEW v \in Ways, NEW w \in Ways,
                      new[a][v].valid, new[a][w].valid,
                      new[a][w].order_id = new[a][v].order_id, v # w
               PROVE  FALSE
    BY DEF OnceInLine, Shows
  <2>1. CASE a # home
    BY <2>1, <1>3 DEF Tables, OnceInLine, Shows
  <2>2. CASE a = home /\ v # way /\ w # way
    BY <2>2, <1>3 DEF Tables, OnceInLine, Shows
  <2>3. CASE a = home /\ v = way
    BY <2>3, <1>2, <1>3, <1>4 DEF Shows, StandsFor
  <2>4. CASE a = home /\ w = way
    BY <2>4, <1>2, <1>3, <1>4 DEF Shows, StandsFor
  <2> QED BY <2>1, <2>2, <2>3, <2>4
<1>8. LineOrCam(new, cam)
  <2> SUFFICES ASSUME NEW a \in Addrs, NEW w \in Ways, NEW i \in Slots,
                      Shows(new[a][w], cam[i].order_id)
               PROVE  FALSE
    BY DEF LineOrCam
  <2>1. CASE a = home /\ w = way
    BY <2>1, <1>2 DEF Shows, StandsFor
  <2>2. CASE a # home \/ w # way
    BY <2>2, <1>3 DEF Tables, LineOrCam
  <2> QED BY <2>1, <2>2
<1> QED BY <1>5, <1>6, <1>7, <1>8 DEF Tables, new, home

(* Every other order stays where it is. *)
LEMMA LineWriteKeeps ==
  ASSUME NEW lines \in [Addrs -> Line], NEW id \in OrderIds, NEW way \in Ways, NEW word,
         lines[oid_hash(id)][way].valid => lines[oid_hash(id)][way].order_id = id,
         NEW x \in OrderIds, x # id, InLines(lines, x)
  PROVE  InLines([lines EXCEPT ![oid_hash(id)] = [lines[oid_hash(id)] EXCEPT ![way] = word]], x)
<1> DEFINE new == [lines EXCEPT ![oid_hash(id)] = [lines[oid_hash(id)] EXCEPT ![way] = word]]
<1>1. PICK w \in Ways : Shows(lines[oid_hash(x)][w], x)
  BY DEF InLines
<1>2. oid_hash(x) \in Addrs /\ oid_hash(id) \in Addrs
  BY IdsAreNat
<1>3. new[oid_hash(x)][w] = lines[oid_hash(x)][w]
  BY <1>1, <1>2 DEF Line, Shows
<1> QED BY <1>1, <1>3 DEF InLines

LEMMA LineWriteShows ==
  ASSUME NEW lines \in [Addrs -> Line], NEW id \in OrderIds, NEW way \in Ways, NEW word,
         Shows(word, id)
  PROVE  InLines([lines EXCEPT ![oid_hash(id)] = [lines[oid_hash(id)] EXCEPT ![way] = word]], id)
<1> DEFINE new == [lines EXCEPT ![oid_hash(id)] = [lines[oid_hash(id)] EXCEPT ![way] = word]]
<1>1. new[oid_hash(id)][way] = word
  BY IdsAreNat DEF Line
<1> QED BY <1>1 DEF InLines

(* A slot that is empty or has the order itself is written, with the       *)
(* order's id.                                                             *)
LEMMA CamWrite ==
  ASSUME NEW lines, NEW cam \in [Slots -> Word], NEW new \in [Slots -> Word],
         NEW orders, NEW after,
         Tables(lines, cam, orders),
         NEW id \in OrderIds, NEW slot \in Slots, NEW word,
         SameBut(id, orders, after), StandsFor(word, id, after), word.order_id = id,
         new[slot] = word,
         \A i \in Slots \ {slot} : new[i] = cam[i] /\ cam[i].order_id # id,
         \A a \in Addrs : \A w \in Ways : ~Shows(lines[a][w], id)
  PROVE  Tables(lines, new, after)
<1>1. LinesHold(lines, after)
  BY DEF Tables, LinesHold, SameBut, Shows
<1>2. CamHolds(new, after)
  <2> SUFFICES ASSUME NEW i \in Slots, new[i].valid
               PROVE  /\ new[i].order_id \in OrderIds
                      /\ new[i].order_id \in DOMAIN after => after[new[i].order_id] = Stored(new[i])
    BY DEF CamHolds
  <2>1. CASE i = slot
    BY <2>1 DEF StandsFor
  <2>2. CASE i # slot
    BY <2>2 DEF Tables, CamHolds, SameBut
  <2> QED BY <2>1, <2>2
<1>3. OnceInCam(new)
  BY DEF Tables, OnceInCam, Shows
<1>4. LineOrCam(lines, new)
  BY DEF Tables, LineOrCam, Shows
<1> QED BY <1>1, <1>2, <1>3, <1>4 DEF Tables

(* Empty slots are written with an empty word, and an order of the CAM is  *)
(* deleted.                                                                *)
LEMMA CamClear ==
  ASSUME NEW lines, NEW cam \in [Slots -> Word], NEW new \in [Slots -> Word],
         NEW orders, NEW after, DOMAIN orders \subseteq OrderIds,
         Tables(lines, cam, orders),
         NEW id \in OrderIds, SameBut(id, orders, after), id \notin DOMAIN after,
         \A i \in Slots : new[i] = cam[i] \/ (~cam[i].valid /\ new[i] = NoWord),
         \A a \in Addrs : \A w \in Ways : ~Shows(lines[a][w], id)
  PROVE  Tables(lines, new, after)
<1>1. LinesHold(lines, after)
  BY DEF Tables, LinesHold, SameBut, Shows
<1>2. CamHolds(new, after)
  BY DEF Tables, CamHolds, SameBut, NoWord
<1>3. NoWord.valid = FALSE /\ NoWord.order_id = 0 /\ 0 \notin OrderIds
  BY FeedAssumption DEF NoWord
<1>4. \A i \in Slots : new[i].valid => new[i] = cam[i] /\ cam[i].order_id \in OrderIds
  BY <1>3 DEF Tables, CamHolds
<1>5. OnceInCam(new)
  BY <1>3, <1>4 DEF Tables, OnceInCam, Shows
<1>6. \A a \in Addrs : \A w \in Ways : lines[a][w].valid => lines[a][w].order_id \in OrderIds
  BY DEF Tables, LinesHold
<1>7. LineOrCam(lines, new)
  BY <1>3, <1>6 DEF Tables, LineOrCam, Shows
<1> QED BY <1>1, <1>2, <1>5, <1>7 DEF Tables

----------------------------------------------------------------------------
(* A clock. *)

LEMMA TargetWaysIn ==
  ASSUME NEW dec, TargetWays(dec) # {}
  PROVE  Max(TargetWays(dec)) \in TargetWays(dec) /\ Max(TargetWays(dec)) \in Ways
<1>1. TargetWays(dec) \in SUBSET (0 .. L3_LINE_SIZE - 1)
  BY DEF TargetWays, EmptyWays, Matches, Ways
<1>2. L3_LINE_SIZE \in Nat
  BY RtlL3SizesAssumption
<1> HIDE DEF TargetWays
<1> QED BY <1>1, <1>2, MaxIn DEF Ways

LEMMA RamWriteTyped ==
  ASSUME TypeOK, NEW dec, dec.valid \in BOOLEAN, dec.valid => WriteWord(dec) \in Word
  PROVE  RamWrite(dec) \in [wea : BOOLEAN, addra : Addrs, line : Line, word_idx : Ways, word : Word]
<1>1. 0 \in Ways
  BY RtlL3SizesAssumption DEF Ways
<1>2. TargetWays(dec) # {} => Max(TargetWays(dec)) \in Ways
  BY TargetWaysIn
<1> DEFINE word == IF dec.valid THEN WriteWord(dec) ELSE NoWord
           idx == IF dec.valid /\ TargetWays(dec) # {} THEN Max(TargetWays(dec)) ELSE 0
<1>3. word \in Word /\ idx \in Ways
  BY <1>1, <1>2, NoWordTyped
<1>4. oid_hash_q \in Addrs /\ doutb_o \in Line
  BY DEF TypeOK
<1>5. RamWrite(dec) = [wea |-> dec.valid /\ TargetWays(dec) # {}, addra |-> oid_hash_q,
                       line |-> doutb_o, word_idx |-> idx, word |-> word]
  BY DEF RamWrite
<1> HIDE DEF word, idx
<1> QED BY <1>3, <1>4, <1>5

LEMMA ResetStepTyped ==
  ASSUME TypeOK, ResetStep
  PROVE  count_q' \in Addrs /\ rst_in_progress_q' \in BOOLEAN
<1>1. 0 \in Addrs /\ L3_ADDRS \in Nat
  BY RtlL3SizesAssumption DEF Addrs
<1>2. count_q \in Addrs
  BY DEF TypeOK
<1>3. rst_in_progress_q /\ count_q # 0 => count_q - 1 \in Addrs
  BY <1>1, <1>2 DEF Addrs
<1> QED BY <1>1, <1>3 DEF ResetStep

(* The types of the table's own registers. *)
RegsTyped ==
  /\ mem \in [Addrs -> Line]
  /\ write_q \in [wea : BOOLEAN, addra : Addrs, line : Line, word_idx : Ways, word : Word]
  /\ write_q2 \in [wea : BOOLEAN, addra : Addrs, dina : Line]
  /\ addrb_q \in Addrs /\ oid_hash_q \in Addrs /\ count_q \in Addrs
  /\ doutb \in Line /\ doutb_o \in Line
  /\ mem_arr_q \in [Slots -> Word]
  /\ l3_cam_d_in_q \in Word
  /\ rst_in_progress_q \in BOOLEAN /\ l3_cam_w_en_q \in BOOLEAN /\ prev_is_buy_q \in BOOLEAN

(* Every clock leaves its registers typed, given a typed word to write.    *)
LEMMA ClockTyped ==
  ASSUME TypeOK, NEW hash \in Addrs, NEW dec, dec.valid \in BOOLEAN,
         dec.valid => WriteWord(dec) \in Word,
         (dec.valid /\ dec.msg_type = "DELETE") => Lookup(dec).is_buy \in BOOLEAN,
         Clock(hash, dec)
  PROVE  RegsTyped'
<1>1. /\ Written \in [Addrs -> Line] /\ dina \in Line /\ Read \in Line
  BY WrittenTyped
<1>2. RamWrite(dec) \in [wea : BOOLEAN, addra : Addrs, line : Line, word_idx : Ways, word : Word]
  BY RamWriteTyped
<1>3. RamClock(RamWrite(dec), hash)
  BY DEF Clock
<1>4. mem' \in [Addrs -> Line] /\ doutb_o' \in Line /\ addrb_q' \in Addrs
  BY <1>1, <1>3 DEF RamClock
<1>5. doutb' \in Line
  BY <1>3 DEF RamClock, TypeOK
<1>6. write_q' \in [wea : BOOLEAN, addra : Addrs, line : Line, word_idx : Ways, word : Word]
  BY <1>2, <1>3 DEF RamClock
<1>7. write_q2' \in [wea : BOOLEAN, addra : Addrs, dina : Line]
  BY <1>1, <1>3 DEF RamClock, TypeOK
<1>8. count_q' \in Addrs /\ rst_in_progress_q' \in BOOLEAN
  BY <1>3, ResetStepTyped DEF RamClock
<1>9. mem_arr_q' \in [Slots -> Word]
  BY CamWrittenTyped DEF Clock
<1>10. l3_cam_d_in_q' \in Word /\ oid_hash_q' \in Addrs
  BY <1>2 DEF Clock
<1>11. l3_cam_w_en_q' \in BOOLEAN
  BY DEF Clock
<1>12. prev_is_buy_q' \in BOOLEAN
  BY DEF Clock, TypeOK
<1> QED BY <1>4, <1>5, <1>6, <1>7, <1>8, <1>9, <1>10, <1>11, <1>12 DEF RegsTyped

(* A clock without a message asks for no write; what is on its way         *)
(* arrives.                                                                *)
LEMMA QuietClock ==
  ASSUME TypeOK, NEW hash \in Addrs, Clock(hash, NoDec)
  PROVE  /\ mem' = Written
         /\ mem_arr_q' = CamWritten /\ CamWritten' = CamWritten
         /\ ~write_q'.wea /\ ~l3_cam_w_en_q' /\ ~l3_cam_error'
         /\ prev_is_buy_q' = prev_is_buy_q
         /\ addrb_q' = hash /\ oid_hash_q' = hash /\ doutb_o' = Read
         /\ ResetStep
<1>1. NoDec.valid = FALSE
  BY DEF NoDec
<1>2. RamWrite(NoDec).wea = FALSE
  BY <1>1 DEF RamWrite
<1>3. /\ mem' = Written /\ write_q' = RamWrite(NoDec) /\ addrb_q' = hash /\ doutb_o' = Read
      /\ ResetStep
  BY DEF Clock, RamClock
<1>4. mem_arr_q' = CamWritten /\ l3_cam_w_en_q' = FALSE /\ oid_hash_q' = hash
  BY <1>1 DEF Clock
<1>5. CamWritten' = CamWritten
  BY <1>4 DEF CamWritten
<1>6. ~l3_cam_error'
  BY <1>4 DEF l3_cam_error
<1>7. prev_is_buy_q' = prev_is_buy_q
  BY <1>1 DEF Clock
<1> QED BY <1>2, <1>3, <1>4, <1>5, <1>6, <1>7

(* Once the reset is over it leaves the contents as they are, and the line *)
(* at the address begins its way out.                                      *)
LEMMA QuietReady ==
  ASSUME TypeOK, NEW hash \in Addrs, Clock(hash, NoDec), rst_done, ~rst_in_progress_q'
  PROVE  Written' = Written /\ rst_done' /\ Read' = mem'[hash]
<1>1. mem' = Written /\ ~write_q'.wea /\ addrb_q' = hash
  BY QuietClock
<1>2. rst_done'
  BY DEF rst_done
<1>3. Written' = Written
  BY <1>1, <1>2 DEF Written, wea, rst_done
<1>4. doutb' = mem[hash] /\ write_q2' = [wea |-> write_q.wea, addra |-> write_q.addra, dina |-> dina]
  BY DEF Clock, RamClock
<1>5. Read' = IF hash = write_q.addra /\ write_q.wea THEN dina ELSE mem[hash]
  BY <1>1, <1>4 DEF Read
<1>6. Written = IF write_q.wea THEN [mem EXCEPT ![write_q.addra] = dina] ELSE mem
  BY DEF Written, wea, addra, rst_done
<1>7. mem \in [Addrs -> Line] /\ write_q.addra \in Addrs
  BY DEF TypeOK
<1> QED BY <1>1, <1>2, <1>3, <1>5, <1>6, <1>7

(* The count is not taken up again. *)
LEMMA StaysReady ==
  ASSUME ResetClears, ResetStep, rst_done
  PROVE  ~rst_in_progress_q' /\ rst_done' /\ count_q' = 0
BY DEF ResetClears, ResetStep, rst_done

----------------------------------------------------------------------------
(* Clocks without a message keep the invariant. *)

LEMMA QuietTyped ==
  ASSUME TypeOK, NEW hash \in Addrs, Clock(hash, NoDec),
         UNCHANGED <<live, half>>, failed' = l3_error(NoDec)
  PROVE  TypeOK'
<1>1. NoDec.valid = FALSE
  BY DEF NoDec
<1>0. /\ NoDec.valid \in BOOLEAN
      /\ NoDec.valid => WriteWord(NoDec) \in Word
      /\ (NoDec.valid /\ NoDec.msg_type = "DELETE") => Lookup(NoDec).is_buy \in BOOLEAN
  BY <1>1
<1>2. failed' \in BOOLEAN
  BY DEF l3_error
<1>3. half' \in BOOLEAN /\ T!IsDict(live', OrderIds, T!L3Entry)
  BY DEF TypeOK
<1>4. RegsTyped'
  BY <1>0, ClockTyped
<1> QED BY <1>2, <1>3, <1>4 DEF RegsTyped, TypeOK

(* The last clock of a reset leaves every line clear. *)
LEMMA LastLineCleared ==
  ASSUME TypeOK, ResetClears, rst_in_progress_q
  PROVE  \A a \in Addrs : (a >= count_q) => \A w \in Ways : ~Written[a][w].valid
<1>1. Written = [mem EXCEPT ![count_q] = EmptyLine]
  BY DEF Written, wea, addra, dina
<1>2. \A w \in Ways : ~EmptyLine[w].valid
  BY DEF EmptyLine, NoWord
<1>3. \A a \in Addrs : a \in Int
  BY DEF Addrs
<1>4. mem \in [Addrs -> Line] /\ count_q \in Addrs
  BY DEF TypeOK
<1> SUFFICES ASSUME NEW a \in Addrs, a >= count_q, NEW w \in Ways PROVE ~Written[a][w].valid
  OBVIOUS
<1>5. CASE a = count_q
  BY <1>1, <1>2, <1>4, <1>5
<1>6. CASE a # count_q
  <2>1. a > count_q
    BY <1>3, <1>4, <1>6
  <2> QED BY <2>1, <1>1, <1>4, <1>6 DEF ResetClears
<1> QED BY <1>5, <1>6

LEMMA QuietTables ==
  ASSUME TypeOK, ResetClears, TablesHold,
         NEW hash \in Addrs, Clock(hash, NoDec), UNCHANGED live
  PROVE  TablesHold'
<1>1. mem' = Written /\ CamWritten' = CamWritten /\ ~write_q'.wea /\ ResetStep
  BY QuietClock
<1>2. CASE rst_done
  <2>1. ~rst_in_progress_q'
    BY <1>1, <1>2, StaysReady
  <2>2. Written' = Written
    BY <1>2, <2>1, QuietReady
  <2> QED BY <1>1, <1>2, <2>2 DEF TablesHold
<1>3. CASE rst_in_progress_q /\ ~rst_in_progress_q'
  <2>1. count_q = 0
    BY <1>1, <1>3 DEF ResetStep
  <2>2. Written' = Written
    BY <1>1, <1>3 DEF Written, wea
  <2>3. \A a \in Addrs : \A w \in Ways : ~Written[a][w].valid
    <3>1. \A a \in Addrs : a >= 0
      BY DEF Addrs
    <3> QED BY <3>1, <1>3, <2>1, LastLineCleared
  <2>4. \A i \in Slots : ~CamWritten[i].valid
    BY <1>3 DEF ResetClears, CamWritten
  <2>5. Tables(Written, CamWritten, live)
    BY <2>3, <2>4 DEF Tables, LinesHold, CamHolds, OnceInLine, OnceInCam, LineOrCam, Shows
  <2> QED BY <1>1, <2>2, <2>5 DEF TablesHold
<1>4. CASE rst_in_progress_q'
  BY <1>4 DEF TablesHold, rst_done
<1> QED BY <1>2, <1>3, <1>4 DEF rst_done

LEMMA QuietResets ==
  ASSUME TypeOK, ResetClears, NEW hash \in Addrs, Clock(hash, NoDec), UNCHANGED live,
         rst_in_progress_q => coming' = NoMsg
  PROVE  ResetClears'
<1>1. mem' = Written /\ mem_arr_q' = CamWritten /\ ~write_q'.wea /\ ~l3_cam_w_en_q' /\ ResetStep
  BY QuietClock
<1>2. rst_done' => count_q' = 0
  BY <1>1 DEF ResetStep, rst_done, ResetClears
<1>3. ASSUME rst_in_progress_q' PROVE rst_in_progress_q
  BY <1>1, <1>3, StaysReady DEF rst_done
<1>4. ASSUME rst_in_progress_q', NEW a \in Addrs, a > count_q', NEW w \in Ways
      PROVE  ~mem'[a][w].valid
  <2>1. count_q \in Addrs /\ a \in Int /\ count_q \in Int
    BY DEF TypeOK, Addrs
  <2>2. count_q' = count_q - 1
    BY <1>1, <1>3, <1>4 DEF ResetStep
  <2>3. a >= count_q
    BY <1>4, <2>1, <2>2
  <2> QED BY <1>1, <1>3, <1>4, <2>3, LastLineCleared
<1>5. rst_in_progress_q' => \A i \in Slots : ~mem_arr_q'[i].valid
  BY <1>1, <1>3 DEF ResetClears, CamWritten
<1>6. rst_in_progress_q' => DOMAIN live' = {} /\ coming' = NoMsg
  BY <1>3 DEF ResetClears
<1> QED BY <1>1, <1>2, <1>4, <1>5, <1>6 DEF ResetClears

LEMMA QuietError == l3_error(NoDec) <=> l3_cam_error
<1>1. NoDec.valid = FALSE
  BY DEF NoDec
<1> QED BY <1>1 DEF l3_error

LEMMA QuietNoneMissing ==
  ASSUME TypeOK, ResetClears, NoneMissing, ~failed,
         NEW hash \in Addrs, Clock(hash, NoDec), UNCHANGED live, failed' = l3_error(NoDec)
  PROVE  NoneMissing'
<1> SUFFICES ASSUME ~failed', NEW id \in DOMAIN live
             PROVE  (InLines(Written, id) \/ InCam(CamWritten, id))'
  BY DEF NoneMissing
<1>1. ~l3_cam_error
  BY QuietError
<1>2. rst_done
  BY DEF ResetClears, rst_done
<1>3. ResetStep /\ CamWritten' = CamWritten
  BY QuietClock
<1>4. Written' = Written
  BY <1>2, <1>3, StaysReady, QuietReady
<1>5. InLines(Written, id) \/ InCam(CamWritten, id)
  BY <1>1 DEF NoneMissing
<1> QED BY <1>3, <1>4, <1>5

LEMMA QuietFull ==
  ASSUME TypeOK, NEW hash \in Addrs, Clock(hash, NoDec), failed' = l3_error(NoDec)
  PROVE  ErrorMeansFull'
<1>1. SUFFICES ASSUME failed', NEW i \in Slots PROVE mem_arr_q'[i].valid
  BY DEF ErrorMeansFull
<1>2. SameSlots = {} /\ EmptySlots = {}
  BY <1>1, QuietError DEF l3_cam_error
<1>3. mem_arr_q \in [Slots -> Word]
  BY DEF TypeOK
<1>4. CamWritten = mem_arr_q
  BY <1>2, <1>3 DEF CamWritten
<1>5. mem_arr_q' = CamWritten
  BY QuietClock
<1> QED BY <1>2, <1>4, <1>5 DEF EmptySlots

(* What every clock without a message keeps. *)
LEMMA QuietInv ==
  ASSUME IInv, ~failed, NEW hash \in Addrs, Clock(hash, NoDec),
         UNCHANGED <<live, last_side, half>>, failed' = l3_error(NoDec),
         rst_in_progress_q => coming' = NoMsg
  PROVE  /\ TypeOK' /\ ResetClears' /\ TablesHold' /\ NoneMissing' /\ ErrorMeansFull'
         /\ prev_is_buy_q' = prev_is_buy_q
<1>1. TypeOK'
  BY QuietTyped DEF IInv
<1>2. ResetClears'
  BY QuietResets DEF IInv
<1>3. TablesHold'
  BY QuietTables DEF IInv
<1>4. NoneMissing'
  BY QuietNoneMissing DEF IInv
<1>5. ErrorMeansFull'
  BY QuietFull DEF IInv
<1>6. prev_is_buy_q' = prev_is_buy_q
  BY QuietClock DEF IInv
<1> QED BY <1>1, <1>2, <1>3, <1>4, <1>5, <1>6

LEMMA IdleStep ==
  ASSUME IInv, Idle
  PROVE  IInv'
<1>1. PICK hash \in Addrs : Clock(hash, NoDec)
  BY DEF Idle
<1>2. coming' = NoMsg /\ coming = NoMsg
  BY DEF Idle
<1>3. /\ TypeOK' /\ ResetClears' /\ TablesHold' /\ NoneMissing' /\ ErrorMeansFull'
      /\ prev_is_buy_q' = prev_is_buy_q
  BY <1>1, <1>2, QuietInv DEF Idle
<1>4. FeedOK'
  BY <1>3 DEF Idle, IInv, FeedOK
<1>5. LineComes' /\ StillFits'
  BY <1>2 DEF LineComes, StillFits
<1> QED BY <1>3, <1>4, <1>5 DEF IInv

(* What a message asks of the exchange's orders and of the table. *)
LEMMA FitsAfter ==
  ASSUME NEW msg, Fits(msg), UNCHANGED <<live, half>>, coming' = msg
  PROVE  Fits(coming)'
BY Zenon DEF Fits

LEMMA UnusedAfter ==
  ASSUME NEW msg, Unused(msg.order_id), Written' = Written, CamWritten' = CamWritten, coming' = msg
  PROVE  Unused(coming.order_id)'
BY DEF Unused, HeldInRam

LEMMA AnnounceStep ==
  ASSUME IInv, NEW msg \in T!BookMsg, Announce(msg)
  PROVE  IInv'
<1> DEFINE hash == oid_hash(msg.order_id)
<1>1. hash \in Addrs
  BY NoMsgIsNone, IdsAreNat
<1>2. Clock(hash, NoDec) /\ coming' = msg /\ held' = 1 /\ rst_done
  BY DEF Announce
<1>3. UNCHANGED <<live, last_side, half, answer>> /\ ~failed /\ failed' = l3_error(NoDec)
  BY DEF Announce
<1>4. rst_in_progress_q => coming' = NoMsg
  BY <1>2 DEF rst_done
<1> HIDE DEF hash
<1>5. /\ TypeOK' /\ ResetClears' /\ TablesHold' /\ NoneMissing' /\ ErrorMeansFull'
      /\ prev_is_buy_q' = prev_is_buy_q
  BY <1>1, <1>2, <1>3, <1>4, QuietInv
<1>6. FeedOK'
  BY <1>2, <1>3, <1>5, NoMsgIsNone DEF FeedOK, IInv
<1>7. /\ mem' = Written /\ ~write_q'.wea /\ ~l3_cam_w_en_q' /\ CamWritten' = CamWritten
      /\ addrb_q' = hash /\ oid_hash_q' = hash /\ ResetStep
  BY <1>1, <1>2, QuietClock DEF IInv
<1>8. ~rst_in_progress_q'
  BY <1>2, <1>7, StaysReady DEF IInv
<1>9. Written' = Written /\ Read' = mem'[hash]
  BY <1>1, <1>2, <1>8, QuietReady DEF IInv
<1>10. LineComes'
  BY <1>2, <1>7, <1>9 DEF LineComes, hash
<1>11. StillFits'
  <2>1. Fits(coming)'
    BY <1>2, <1>3, FitsAfter DEF Announce
  <2>2. BringsShares(msg) => Unused(coming.order_id)'
    BY <1>2, <1>7, <1>9, UnusedAfter DEF Announce
  <2> QED BY <1>2, <2>1, <2>2 DEF StillFits, BringsShares
<1> QED BY <1>5, <1>6, <1>10, <1>11 DEF IInv

LEMMA HoldStep ==
  ASSUME IInv, Hold
  PROVE  IInv'
<1> DEFINE hash == oid_hash(coming.order_id)
<1>1. coming \in T!BookMsg /\ coming # NoMsg /\ coming' = coming /\ held' = 2
  BY DEF Hold, IInv, FeedOK
<1>2. hash \in Addrs
  BY <1>1, NoMsgIsNone, IdsAreNat
<1>3. Clock(hash, NoDec) /\ UNCHANGED <<live, last_side, half, answer>>
      /\ ~failed /\ failed' = l3_error(NoDec)
  BY DEF Hold
<1>4. rst_done
  BY <1>1 DEF IInv, ResetClears, rst_done
<1>5. LineComes
  BY DEF IInv
<1>6. /\ ~write_q.wea /\ ~l3_cam_w_en_q /\ addrb_q = hash /\ Read = mem[addrb_q]
  BY <1>1, <1>5 DEF LineComes
<1> HIDE DEF hash
<1>7. /\ TypeOK' /\ ResetClears' /\ TablesHold' /\ NoneMissing' /\ ErrorMeansFull'
      /\ prev_is_buy_q' = prev_is_buy_q
  BY <1>2, <1>3, <1>4, QuietInv DEF rst_done
<1>8. FeedOK'
  BY <1>1, <1>3, <1>7 DEF FeedOK, IInv
<1>9. /\ mem' = Written /\ ~write_q'.wea /\ ~l3_cam_w_en_q' /\ CamWritten' = CamWritten
      /\ addrb_q' = hash /\ oid_hash_q' = hash /\ doutb_o' = Read /\ ResetStep
  BY <1>2, <1>3, QuietClock DEF IInv
<1>10. ~rst_in_progress_q'
  BY <1>4, <1>9, StaysReady DEF IInv
<1>11. Written' = Written /\ Read' = mem'[hash]
  BY <1>2, <1>3, <1>4, <1>10, QuietReady DEF IInv
<1>12. mem' = mem
  BY <1>4, <1>6, <1>9, NothingOnItsWay DEF IInv
<1>13. LineComes'
  BY <1>1, <1>6, <1>9, <1>11, <1>12 DEF LineComes, hash
<1>14. StillFits'
  <2>1. Fits(coming) /\ (BringsShares(coming) => Unused(coming.order_id))
    BY <1>1 DEF IInv, StillFits
  <2>2. Fits(coming)'
    BY <1>1, <1>3, <2>1, FitsAfter
  <2>3. BringsShares(coming) => Unused(coming.order_id)'
    BY <1>1, <1>9, <1>11, <2>1, UnusedAfter
  <2> QED BY <1>1, <2>2, <2>3 DEF StillFits, BringsShares
<1> QED BY <1>7, <1>8, <1>13, <1>14 DEF IInv

----------------------------------------------------------------------------
(* The message itself.  Its line has been read, nothing is on its way, and *)
(* every live order is in the table.                                       *)

AtHand(id) ==
  /\ id \in OrderIds
  /\ mem \in [Addrs -> Line] /\ mem_arr_q \in [Slots -> Word]
  /\ oid_hash_q = oid_hash(id) /\ doutb_o = mem[oid_hash(id)]
  /\ Tables(mem, mem_arr_q, live)
  /\ DOMAIN live \subseteq OrderIds
  /\ \A x \in DOMAIN live : InLines(mem, x) \/ InCam(mem_arr_q, x)
  /\ ~l3_cam_error

(* No trace of an order. *)
NoTrace(id) == ~InLines(mem, id) /\ \A i \in Slots : mem_arr_q[i].order_id # id

LEMMA MessageAtHand ==
  ASSUME IInv, held = 2, ~failed
  PROVE  /\ coming \in T!BookMsg /\ rst_done /\ AtHand(coming.order_id)
         /\ Written = mem /\ CamWritten = mem_arr_q
         /\ Fits(coming) /\ (BringsShares(coming) => NoTrace(coming.order_id))
<1>1. coming \in T!BookMsg /\ coming # NoMsg
  BY DEF IInv, FeedOK
<1>2. coming.order_id \in OrderIds
  BY <1>1, NoMsgIsNone
<1>3. rst_done
  BY <1>1 DEF IInv, ResetClears, rst_done
<1>4. LineComes /\ StillFits
  BY DEF IInv
<1>5. /\ ~write_q.wea /\ ~l3_cam_w_en_q
      /\ oid_hash_q = oid_hash(coming.order_id) /\ doutb_o = mem[oid_hash(coming.order_id)]
  BY <1>1, <1>4 DEF LineComes
<1>6. Written = mem /\ CamWritten = mem_arr_q /\ ~l3_cam_error
  BY <1>3, <1>5, NothingOnItsWay DEF IInv
<1>7. Tables(mem, mem_arr_q, live)
  BY <1>3, <1>6 DEF IInv, TablesHold
<1>8. \A x \in DOMAIN live : InLines(mem, x) \/ InCam(mem_arr_q, x)
  BY <1>6 DEF IInv, NoneMissing
<1>9. DOMAIN live \subseteq OrderIds /\ mem \in [Addrs -> Line] /\ mem_arr_q \in [Slots -> Word]
  BY DEF IInv, TypeOK, T!IsDict
<1>10. Fits(coming) /\ (BringsShares(coming) => Unused(coming.order_id))
  BY <1>1, <1>4 DEF StillFits
<1>11. Unused(coming.order_id) => NoTrace(coming.order_id)
  BY <1>6 DEF Unused, NoTrace, HeldInRam, InLines, Shows
<1> QED BY <1>1, <1>2, <1>3, <1>5, <1>6, <1>7, <1>8, <1>9, <1>10, <1>11 DEF AtHand

(* A live order is found in its line, where one way has it and no slot ... *)
LEMMA FoundInLine ==
  ASSUME NEW id, AtHand(id), id \in DOMAIN live, NEW dec, dec.order_id = id, Matches(dec) # {}
  PROVE  /\ Max(Matches(dec)) \in Ways
         /\ Found(dec) = mem[oid_hash(id)][Max(Matches(dec))]
         /\ Shows(Found(dec), id) /\ Found(dec) \in Word /\ Stored(Found(dec)) = live[id]
         /\ \A v \in Ways \ {Max(Matches(dec))} : ~Shows(mem[oid_hash(id)][v], id)
         /\ \A i \in Slots : mem_arr_q[i].order_id # id
<1> DEFINE w == Max(Matches(dec))
           home == oid_hash(id)
<1>1. Matches(dec) \in SUBSET (0 .. L3_LINE_SIZE - 1) /\ L3_LINE_SIZE \in Nat
  BY RtlL3SizesAssumption DEF Matches, Ways
<1>2. w \in Matches(dec)
  <2> HIDE DEF Matches
  <2> QED BY <1>1, MaxIn
<1>3. w \in Ways /\ Shows(mem[home][w], id) /\ Found(dec) = mem[home][w]
  <2>1. \A v \in Matches(dec) : v \in Ways /\ doutb_o[v].valid /\ doutb_o[v].order_id = id
    BY DEF Matches
  <2>2. Found(dec) = doutb_o[w]
    BY DEF Found
  <2>3. doutb_o = mem[home]
    BY DEF AtHand
  <2> HIDE DEF w, home
  <2> QED BY <1>2, <2>1, <2>2, <2>3 DEF Shows
<1>4. home \in Addrs
  BY IdsAreNat DEF AtHand
<1> HIDE DEF w, home
<1>5. mem[home][w] \in Word /\ Stored(mem[home][w]) = live[id]
  <2>1. LinesHold(mem, live) /\ mem \in [Addrs -> Line]
    BY DEF AtHand, Tables
  <2> QED BY <1>3, <1>4, <2>1 DEF LinesHold, Shows, Line
<1>6. \A v \in Ways \ {w} : ~Shows(mem[home][v], id)
  <2>1. OnceInLine(mem)
    BY DEF AtHand, Tables
  <2> QED BY <1>3, <1>4, <2>1 DEF OnceInLine, Shows
<1>7. \A i \in Slots : mem_arr_q[i].order_id # id
  <2>1. LineOrCam(mem, mem_arr_q)
    BY DEF AtHand, Tables
  <2> QED BY <1>3, <1>4, <2>1 DEF LineOrCam
<1> QED BY <1>3, <1>5, <1>6, <1>7 DEF w, home

(* ... or in one slot, whose id no other has, and no line.                 *)
LEMMA FoundInCam ==
  ASSUME NEW id, AtHand(id), id \in DOMAIN live, NEW dec, dec.order_id = id, Matches(dec) = {}
  PROVE  \E slot \in Slots :
           /\ CamHits(id) = {slot}
           /\ Found(dec) = mem_arr_q[slot]
           /\ Shows(Found(dec), id) /\ Found(dec) \in Word /\ Stored(Found(dec)) = live[id]
           /\ \A i \in Slots \ {slot} : mem_arr_q[i].order_id # id
           /\ \A a \in Addrs : \A w \in Ways : ~Shows(mem[a][w], id)
<1>1. ~InLines(mem, id)
  BY DEF Matches, InLines, Shows, AtHand
<1>2. PICK slot \in Slots : Shows(mem_arr_q[slot], id)
  BY <1>1 DEF AtHand, InCam
<1>3. \A i \in Slots \ {slot} : mem_arr_q[i].order_id # id
  BY <1>2 DEF AtHand, Tables, OnceInCam, Shows
<1>4. CamHits(id) = {slot}
  BY <1>2, <1>3 DEF CamHits, Shows
<1>5. Max(CamHits(id)) = slot
  BY <1>4 DEF Max, Slots
<1>6. Found(dec) = mem_arr_q[slot]
  BY <1>4, <1>5 DEF Found, CamRead
<1>7. mem_arr_q[slot] \in Word /\ Stored(mem_arr_q[slot]) = live[id]
  BY <1>2 DEF AtHand, Tables, CamHolds, Shows
<1>8. \A a \in Addrs : \A w \in Ways : ~Shows(mem[a][w], id)
  BY <1>1 DEF AtHand, Tables, LinesHold, Shows, InLines
<1> QED BY <1>2, <1>3, <1>4, <1>6, <1>7, <1>8

LEMMA FoundEither ==
  ASSUME NEW id, AtHand(id), id \in DOMAIN live, NEW dec, dec.order_id = id
  PROVE  Shows(Found(dec), id) /\ Found(dec) \in Word /\ Stored(Found(dec)) = live[id]
BY FoundInLine, FoundInCam

(* A new one is not found. *)
LEMMA FoundNone ==
  ASSUME NEW id, AtHand(id), NoTrace(id), NEW dec, dec.order_id = id
  PROVE  Matches(dec) = {} /\ CamHits(id) = {} /\ Found(dec) = NoWord
<1>1. Matches(dec) = {}
  BY DEF Matches, NoTrace, AtHand, InLines, Shows
<1>2. CamHits(id) = {}
  BY DEF CamHits, NoTrace
<1> QED BY <1>1, <1>2 DEF Found, CamRead

(* The words and messages. *)
LEMMA DecFields ==
  ASSUME NEW msg
  PROVE  /\ Dec(msg).valid = TRUE /\ Dec(msg).msg_type = msg.msg_type
         /\ Dec(msg).order_id = msg.order_id
         /\ BringsShares(Dec(msg)) <=> BringsShares(msg)
         /\ BringsShares(msg) => Dec(msg).price = msg.price
         /\ msg.msg_type # "DELETE" => Dec(msg).shares = msg.shares
         /\ msg.msg_type = "DELETE" => Dec(msg).shares = 0
         /\ Dec(msg).is_buy = (msg.msg_type = "ADD" /\ msg.is_buy)
BY DEF Dec, BringsShares

LEMMA FitsNew ==
  ASSUME NEW msg, Fits(msg), half \in BOOLEAN, BringsShares(msg)
  PROVE  msg.order_id \notin DOMAIN live /\ (msg.msg_type = "REPLACE" => half)
<1>1. CASE half
  BY <1>1, Zenon DEF Fits
<1>2. CASE ~half
  <2>1. CASE msg.msg_type = "ADD"
    BY <1>2, <2>1, Zenon DEF Fits
  <2>2. CASE msg.msg_type = "REPLACE"
    <3>1. "REPLACE" # "ADD" /\ "REPLACE" # "REDUCE" /\ "REPLACE" # "DELETE"
      OBVIOUS
    <3> QED BY <1>2, <2>2, <3>1, Zenon DEF Fits
  <2> QED BY <2>1, <2>2 DEF BringsShares
<1> QED BY <1>1, <1>2

LEMMA FitsLive ==
  ASSUME NEW msg, Fits(msg), half \in BOOLEAN, msg.msg_type \in {"REDUCE", "DELETE"}
  PROVE  /\ msg.order_id \in DOMAIN live
         /\ msg.msg_type = "REDUCE" => live[msg.order_id].shares >= msg.shares
<1>1. "REPLACE" # "REDUCE" /\ "REPLACE" # "DELETE" /\ "ADD" # "REDUCE" /\ "ADD" # "DELETE"
      /\ "REDUCE" # "DELETE"
  OBVIOUS
<1>2. ~half
  BY <1>1, Zenon DEF Fits
<1>3. CASE msg.msg_type = "REDUCE"
  BY <1>1, <1>2, <1>3, Zenon DEF Fits
<1>4. CASE msg.msg_type = "DELETE"
  BY <1>1, <1>2, <1>4, Zenon DEF Fits
<1> QED BY <1>3, <1>4

(* Dictionaries. *)
LEMMA PutOrder ==
  ASSUME NEW orders, T!IsDict(orders, OrderIds, T!L3Entry),
         NEW id \in OrderIds, NEW order \in T!L3Entry
  PROVE  /\ T!IsDict(T!Put(orders, id, order), OrderIds, T!L3Entry)
         /\ SameBut(id, orders, T!Put(orders, id, order))
         /\ id \in DOMAIN T!Put(orders, id, order) /\ T!Put(orders, id, order)[id] = order
BY DEF T!IsDict, T!Put, SameBut

LEMMA DropOrder ==
  ASSUME NEW orders, T!IsDict(orders, OrderIds, T!L3Entry), NEW id \in OrderIds
  PROVE  /\ T!IsDict(T!Drop(orders, id), OrderIds, T!L3Entry)
         /\ SameBut(id, orders, T!Drop(orders, id))
         /\ id \notin DOMAIN T!Drop(orders, id)
BY DEF T!IsDict, T!Drop, SameBut

(* What a message does: the word it writes is what the exchange's order    *)
(* has become, and no other order changes.                                 *)
Effect(dec, id) ==
  /\ WriteWord(dec) \in Word
  /\ SameBut(id, live, LiveAfter(coming))
  /\ StandsFor(WriteWord(dec), id, LiveAfter(coming))
  /\ id \in DOMAIN LiveAfter(coming) => WriteWord(dec).valid
  /\ T!IsDict(LiveAfter(coming), OrderIds, T!L3Entry)
  /\ ~l3_error(dec)

(* The order of an ADD or a REPLACE, as the exchange has it. *)
NewOrder(msg) ==
  [is_buy |-> IF msg.msg_type = "ADD" THEN msg.is_buy ELSE last_side = "buy",
   shares |-> msg.shares, price |-> msg.price]

LEMMA WordOfNew ==
  ASSUME NEW dec, BringsShares(dec)
  PROVE  WriteWord(dec) = [valid |-> TRUE, order_id |-> dec.order_id, is_buy |-> IsBuy(dec),
                           shares |-> dec.shares, price |-> dec.price]
<1>1. dec.msg_type # "REDUCE" /\ dec.msg_type # "DELETE"
  BY DEF BringsShares
<1> QED BY <1>1, Zenon DEF WriteWord

LEMMA WordOfReduce ==
  ASSUME NEW dec, dec.msg_type = "REDUCE"
  PROVE  WriteWord(dec) = [Found(dec) EXCEPT !.valid = Found(dec).shares - dec.shares # 0,
                                             !.order_id = dec.order_id,
                                             !.shares = Found(dec).shares - dec.shares]
<1>1. ~BringsShares(dec) /\ dec.msg_type # "DELETE"
  BY DEF BringsShares
<1> QED BY <1>1, Zenon DEF WriteWord

LEMMA WordOfDelete ==
  ASSUME NEW dec, dec.msg_type = "DELETE"
  PROVE  WriteWord(dec) = NoWord
<1>1. ~BringsShares(dec) /\ dec.msg_type # "REDUCE"
  BY DEF BringsShares
<1> QED BY <1>1, Zenon DEF WriteWord

LEMMA NewWord ==
  ASSUME IInv, held = 2, ~failed, BringsShares(coming)
  PROVE  /\ WriteWord(Dec(coming)) = [valid |-> TRUE, order_id |-> coming.order_id,
                                      is_buy |-> NewOrder(coming).is_buy,
                                      shares |-> coming.shares, price |-> coming.price]
         /\ IsBuy(Dec(coming)) = NewOrder(coming).is_buy
         /\ NewOrder(coming) \in T!L3Entry /\ NewOrder(coming).is_buy \in BOOLEAN
         /\ LiveAfter(coming) = T!Put(live, coming.order_id, NewOrder(coming))
<1> DEFINE dec == Dec(coming)
<1>1. coming \in T!BookMsg /\ Fits(coming)
  BY MessageAtHand
<1>2. half \in BOOLEAN /\ prev_is_buy_q \in BOOLEAN
  BY DEF IInv, TypeOK
<1>3. coming.msg_type = "REPLACE" => prev_is_buy_q = (last_side = "buy")
  BY <1>1, <1>2, FitsNew DEF IInv, FeedOK
<1>4. /\ coming.shares \in ShareCounts /\ coming.price \in Prices
      /\ coming.msg_type = "ADD" => coming.is_buy \in BOOLEAN
      /\ coming.msg_type \in {"ADD", "REPLACE"}
  BY <1>1 DEF T!BookMsg, T!AddOrderMsg, T!ReduceOrderMsg, T!DeleteOrderMsg, T!ReplaceOrderMsg,
              BringsShares
<1>5. NewOrder(coming).is_buy \in BOOLEAN
  BY <1>4 DEF NewOrder
<1>6. NewOrder(coming) \in T!L3Entry
  BY <1>4, <1>5, FeedAssumption DEF NewOrder, T!L3Entry
<1>7. IsBuy(dec) = NewOrder(coming).is_buy
  <2>1. CASE coming.msg_type = "ADD"
    BY <1>4, <2>1, DecFields DEF IsBuy, NewOrder
  <2>2. CASE coming.msg_type = "REPLACE"
    BY <1>2, <1>3, <2>2, DecFields DEF IsBuy, NewOrder
  <2> QED BY <1>4, <2>1, <2>2
<1>8. /\ BringsShares(dec) /\ dec.order_id = coming.order_id
      /\ dec.shares = coming.shares /\ dec.price = coming.price
  BY <1>4, DecFields
<1> HIDE DEF dec
<1>9. WriteWord(dec) = [valid |-> TRUE, order_id |-> dec.order_id, is_buy |-> IsBuy(dec),
                        shares |-> dec.shares, price |-> dec.price]
  BY <1>8, WordOfNew
<1>10. LiveAfter(coming) = T!Put(live, coming.order_id, NewOrder(coming))
  <2>1. CASE coming.msg_type = "ADD"
    <3>1. NewOrder(coming) = [is_buy |-> coming.is_buy, shares |-> coming.shares, price |-> coming.price]
      BY <2>1 DEF NewOrder
    <3> QED BY <2>1, <3>1, Zenon DEF LiveAfter
  <2>2. CASE coming.msg_type = "REPLACE"
    <3>1. NewOrder(coming) = [is_buy |-> last_side = "buy", shares |-> coming.shares, price |-> coming.price]
      BY <2>2 DEF NewOrder
    <3>2. "REPLACE" # "ADD"
      OBVIOUS
    <3> QED BY <2>2, <3>1, <3>2, Zenon DEF LiveAfter
  <2> QED BY <1>4, <2>1, <2>2
<1> QED BY <1>5, <1>6, <1>7, <1>8, <1>9, <1>10 DEF dec

LEMMA NewEffect ==
  ASSUME IInv, held = 2, ~failed, BringsShares(coming)
  PROVE  Effect(Dec(coming), coming.order_id)
<1> DEFINE id == coming.order_id
           dec == Dec(coming)
           word == WriteWord(dec)
<1>1. coming \in T!BookMsg /\ AtHand(id) /\ NoTrace(id)
  BY MessageAtHand
<1>2. /\ word = [valid |-> TRUE, order_id |-> id, is_buy |-> NewOrder(coming).is_buy,
                 shares |-> coming.shares, price |-> coming.price]
      /\ NewOrder(coming) \in T!L3Entry /\ NewOrder(coming).is_buy \in BOOLEAN
      /\ LiveAfter(coming) = T!Put(live, id, NewOrder(coming))
  BY NewWord
<1>3. T!IsDict(live, OrderIds, T!L3Entry) /\ id \in OrderIds
  BY <1>1 DEF IInv, TypeOK, AtHand
<1>4. BringsShares(dec) /\ dec.order_id = id /\ dec.msg_type \in {"ADD", "REPLACE"}
  BY DecFields DEF BringsShares
<1> HIDE DEF id, dec, word
<1>5. /\ T!IsDict(LiveAfter(coming), OrderIds, T!L3Entry)
      /\ SameBut(id, live, LiveAfter(coming))
      /\ id \in DOMAIN LiveAfter(coming) /\ LiveAfter(coming)[id] = NewOrder(coming)
  BY <1>2, <1>3, PutOrder
<1>6. coming.shares \in Nat /\ coming.price \in Prices
  BY <1>2 DEF NewOrder, T!L3Entry
<1>7. word \in Word
  BY <1>2, <1>3, <1>6 DEF Word
<1>8. Stored(word) = NewOrder(coming)
  BY <1>2 DEF Stored, NewOrder
<1>9. Found(dec) = NoWord
  BY <1>1, <1>4, FoundNone
<1>10. ~l3_error(dec)
  BY <1>1, <1>4, <1>9 DEF l3_error, AtHand, NoWord
<1> QED BY <1>2, <1>5, <1>7, <1>8, <1>10 DEF Effect, StandsFor, word, id, dec

LEMMA ReduceEffect ==
  ASSUME IInv, held = 2, ~failed, coming.msg_type = "REDUCE"
  PROVE  /\ Effect(Dec(coming), coming.order_id)
         /\ WriteWord(Dec(coming)).order_id = coming.order_id
<1> DEFINE id == coming.order_id
           dec == Dec(coming)
           word == WriteWord(dec)
           left == live[id].shares - coming.shares
<1>1. coming \in T!BookMsg /\ AtHand(id) /\ Fits(coming)
  BY MessageAtHand
<1>2. id \in DOMAIN live /\ live[id].shares >= coming.shares
  BY <1>1, FitsLive DEF IInv, TypeOK
<1>3. T!IsDict(live, OrderIds, T!L3Entry) /\ id \in OrderIds
  BY <1>1 DEF IInv, TypeOK, AtHand
<1>4. live[id] \in T!L3Entry
  BY <1>2, <1>3 DEF T!IsDict
<1>5. coming.shares \in ShareCounts
  BY <1>1 DEF T!BookMsg, T!AddOrderMsg, T!ReduceOrderMsg, T!DeleteOrderMsg, T!ReplaceOrderMsg
<1>6. dec.msg_type = "REDUCE" /\ dec.order_id = id /\ dec.shares = coming.shares
  BY DecFields
<1>7. /\ LiveAfter(coming) =
           IF live[id].shares > coming.shares
           THEN T!Put(live, id, [live[id] EXCEPT !.shares = @ - coming.shares])
           ELSE T!Drop(live, id)
  <2>1. coming.msg_type # "ADD" /\ coming.msg_type # "REPLACE"
    OBVIOUS
  <2>2. CASE live[id].shares > coming.shares
    BY <2>1, <2>2, Zenon DEF LiveAfter
  <2>3. CASE ~(live[id].shares > coming.shares)
    BY <2>1, <2>3, Zenon DEF LiveAfter
  <2> QED BY <2>2, <2>3
<1> HIDE DEF id, dec, word
<1>8. Shows(Found(dec), id) /\ Found(dec) \in Word /\ Stored(Found(dec)) = live[id]
  BY <1>1, <1>2, <1>6, FoundEither
<1>9. Found(dec).shares = live[id].shares
  BY <1>8 DEF Stored
<1>10. left \in Nat /\ (left # 0 <=> live[id].shares > coming.shares)
  <2>1. live[id].shares \in Nat /\ coming.shares \in Nat
    BY <1>4, <1>5, FeedAssumption DEF T!L3Entry
  <2> QED BY <2>1, <1>2
<1>11. word = [Found(dec) EXCEPT !.valid = left # 0, !.order_id = id, !.shares = left]
  BY <1>6, <1>9, WordOfReduce DEF word
<1>12. /\ word \in Word /\ word.valid = (left # 0) /\ word.order_id = id
       /\ Stored(word) = [live[id] EXCEPT !.shares = left]
  <2>1. id \in OrderIds \cup {0, YesterdaysId}
    BY <1>3
  <2> HIDE DEF left
  <2>2. word \in Word
    BY <1>8, <1>10, <1>11, <2>1 DEF Word
  <2>3. word.valid = (left # 0) /\ word.order_id = id /\ word.shares = left
        /\ word.is_buy = Found(dec).is_buy /\ word.price = Found(dec).price
    BY <1>8, <1>11 DEF Word
  <2>4. Stored(word) = [live[id] EXCEPT !.shares = left]
    BY <1>8, <2>3 DEF Stored
  <2> QED BY <2>2, <2>3, <2>4
<1>13. ~l3_error(dec)
  <2>1. ~BringsShares(dec) /\ Found(dec).valid
    BY <1>6, <1>8 DEF BringsShares, Shows
  <2>2. ~(WriteWord(dec).shares < 0)
    BY <1>8, <1>10, <1>11 DEF word, Word
  <2> QED BY <1>1, <2>1, <2>2 DEF l3_error, AtHand
<1>14. CASE left # 0
  <2> DEFINE order == [live[id] EXCEPT !.shares = left]
  <2>1. order \in T!L3Entry
    BY <1>4, <1>10, <1>14 DEF T!L3Entry
  <2>2. LiveAfter(coming) = T!Put(live, id, order)
    BY <1>7, <1>10, <1>14
  <2> HIDE DEF order
  <2>3. /\ T!IsDict(LiveAfter(coming), OrderIds, T!L3Entry)
        /\ SameBut(id, live, LiveAfter(coming))
        /\ id \in DOMAIN LiveAfter(coming) /\ LiveAfter(coming)[id] = order
    BY <1>3, <2>1, <2>2, PutOrder
  <2> QED BY <1>12, <1>13, <1>14, <2>3 DEF Effect, StandsFor, word, order, dec, id
<1>15. CASE left = 0
  <2>1. LiveAfter(coming) = T!Drop(live, id)
    BY <1>7, <1>10, <1>15
  <2>2. /\ T!IsDict(LiveAfter(coming), OrderIds, T!L3Entry)
        /\ SameBut(id, live, LiveAfter(coming)) /\ id \notin DOMAIN LiveAfter(coming)
    BY <1>3, <2>1, DropOrder
  <2> QED BY <1>12, <1>13, <1>15, <2>2 DEF Effect, StandsFor, word, dec, id
<1> QED BY <1>14, <1>15

LEMMA DeleteEffect ==
  ASSUME IInv, held = 2, ~failed, coming.msg_type = "DELETE"
  PROVE  /\ Effect(Dec(coming), coming.order_id)
         /\ WriteWord(Dec(coming)) = NoWord
         /\ coming.order_id \notin DOMAIN LiveAfter(coming)
<1> DEFINE id == coming.order_id
           dec == Dec(coming)
<1>1. coming \in T!BookMsg /\ AtHand(id) /\ Fits(coming)
  BY MessageAtHand
<1>2. id \in DOMAIN live
  BY <1>1, FitsLive DEF IInv, TypeOK
<1>3. T!IsDict(live, OrderIds, T!L3Entry) /\ id \in OrderIds
  BY <1>1 DEF IInv, TypeOK, AtHand
<1>4. dec.msg_type = "DELETE" /\ dec.order_id = id
  BY DecFields
<1>5. LiveAfter(coming) = T!Drop(live, id)
  <2>1. coming.msg_type # "ADD" /\ coming.msg_type # "REPLACE" /\ coming.msg_type # "REDUCE"
    OBVIOUS
  <2> QED BY <2>1, Zenon DEF LiveAfter
<1> HIDE DEF id, dec
<1>6. Shows(Found(dec), id)
  BY <1>1, <1>2, <1>4, FoundEither
<1>7. ~l3_error(dec)
  BY <1>1, <1>4, <1>6 DEF l3_error, AtHand, BringsShares, Shows
<1>8. WriteWord(dec) = NoWord
  BY <1>4, WordOfDelete
<1>9. /\ T!IsDict(LiveAfter(coming), OrderIds, T!L3Entry)
      /\ SameBut(id, live, LiveAfter(coming)) /\ id \notin DOMAIN LiveAfter(coming)
  BY <1>3, <1>5, DropOrder
<1>10. NoWord \in Word /\ ~NoWord.valid
  BY NoWordTyped DEF NoWord
<1> QED BY <1>7, <1>8, <1>9, <1>10 DEF Effect, StandsFor, dec, id

(* A slot of the order is written, else the last empty one, else none. *)
CamWith(word) ==
  LET same  == {i \in Slots : mem_arr_q[i].order_id = word.order_id}
      slots == IF same # {} \/ EmptySlots = {} THEN same ELSE {Max(EmptySlots)}
  IN  [i \in Slots |-> IF i \in slots THEN word ELSE mem_arr_q[i]]

LineWith(id, way, word) ==
  [mem EXCEPT ![oid_hash(id)] = [mem[oid_hash(id)] EXCEPT ![way] = word]]

(* What the clock of a message puts on its way. *)
LEMMA MessageClock ==
  ASSUME IInv, held = 2, ~failed, NEW hash, Clock(hash, Dec(coming))
  PROVE  /\ TargetWays(Dec(coming)) # {} =>
              /\ Written' = LineWith(coming.order_id, Max(TargetWays(Dec(coming))), WriteWord(Dec(coming)))
              /\ CamWritten' = mem_arr_q
              /\ ~l3_cam_error'
         /\ TargetWays(Dec(coming)) = {} =>
              /\ Written' = mem
              /\ CamWritten' = CamWith(WriteWord(Dec(coming)))
              /\ l3_cam_d_in_q' = WriteWord(Dec(coming))
              /\ l3_cam_error' <=> /\ \A i \in Slots : mem_arr_q[i].order_id # WriteWord(Dec(coming)).order_id
                                   /\ EmptySlots = {}
         /\ rst_done' /\ count_q' = 0
<1> DEFINE id == coming.order_id
           dec == Dec(coming)
           word == WriteWord(dec)
           ways == TargetWays(dec)
<1>1. rst_done /\ AtHand(id) /\ Written = mem /\ CamWritten = mem_arr_q
  BY MessageAtHand
<1>2. dec.valid = TRUE
  BY DecFields
<1>3. ResetStep /\ mem' = mem /\ write_q' = RamWrite(dec)
  BY <1>1 DEF Clock, RamClock
<1>4. mem_arr_q' = mem_arr_q /\ l3_cam_w_en_q' = (ways = {}) /\ l3_cam_d_in_q' = RamWrite(dec).word
  BY <1>1, <1>2 DEF Clock
<1>5. rst_done' /\ ~rst_in_progress_q' /\ count_q' = 0
  BY <1>1, <1>3, StaysReady DEF IInv
<1> HIDE DEF ways, dec, id
<1>6. RamWrite(dec).word = word /\ RamWrite(dec).addra = oid_hash(id)
      /\ RamWrite(dec).line = mem[oid_hash(id)]
      /\ (RamWrite(dec).wea <=> ways # {})
      /\ (ways # {} => RamWrite(dec).word_idx = Max(ways))
  BY <1>1, <1>2 DEF RamWrite, AtHand, ways
<1> HIDE DEF word
<1>7. ASSUME ways # {}
      PROVE  Written' = LineWith(id, Max(ways), word) /\ CamWritten' = mem_arr_q /\ ~l3_cam_error'
  <2>1. Written' = LineWith(id, Max(ways), word)
    BY <1>3, <1>5, <1>6, <1>7 DEF Written, wea, addra, dina, LineWith
  <2>2. CamWritten' = mem_arr_q /\ ~l3_cam_error'
    BY <1>4, <1>7 DEF CamWritten, l3_cam_error
  <2> QED BY <2>1, <2>2
<1>8. ASSUME ways = {}
      PROVE  /\ Written' = mem /\ CamWritten' = CamWith(word) /\ l3_cam_d_in_q' = word
             /\ l3_cam_error' <=> /\ \A i \in Slots : mem_arr_q[i].order_id # word.order_id
                                  /\ EmptySlots = {}
  <2>1. Written' = mem
    BY <1>3, <1>5, <1>6, <1>8 DEF Written, wea
  <2>2. l3_cam_w_en_q' = TRUE /\ l3_cam_d_in_q' = word /\ mem_arr_q' = mem_arr_q
    BY <1>4, <1>6, <1>8
  <2>3. SameSlots' = {i \in Slots : mem_arr_q[i].order_id = word.order_id} /\ EmptySlots' = EmptySlots
    BY <2>2 DEF SameSlots, EmptySlots
  <2>4. CamWritten' = CamWith(word)
    BY <2>2, <2>3 DEF CamWritten, CamWith
  <2>5. l3_cam_error' <=> /\ \A i \in Slots : mem_arr_q[i].order_id # word.order_id
                          /\ EmptySlots = {}
    BY <2>2, <2>3 DEF l3_cam_error
  <2> QED BY <2>1, <2>2, <2>4, <2>5
<1> QED BY <1>5, <1>7, <1>8 DEF word, ways, dec, id

LEMMA MaxEmptySlot ==
  ASSUME EmptySlots # {}
  PROVE  Max(EmptySlots) \in Slots /\ ~mem_arr_q[Max(EmptySlots)].valid
<1>1. EmptySlots \in SUBSET (0 .. L3_CAM_SIZE - 1) /\ L3_CAM_SIZE \in Nat
  BY RtlL3SizesAssumption DEF EmptySlots, Slots
<1>2. Max(EmptySlots) \in EmptySlots
  <2> HIDE DEF EmptySlots
  <2> QED BY <1>1, MaxIn
<1> HIDE DEF Max
<1> QED BY <1>2 DEF EmptySlots

(* The tables and what they hold after a message, line and CAM apart. *)
HoldsAll(lines, cam, id, after) ==
  \A x \in DOMAIN after \ {id} : InLines(lines, x) \/ InCam(cam, x)

LEMMA LineEffect ==
  ASSUME IInv, held = 2, ~failed, Effect(Dec(coming), coming.order_id),
         TargetWays(Dec(coming)) # {},
         NEW lines, lines = LineWith(coming.order_id, Max(TargetWays(Dec(coming))), WriteWord(Dec(coming)))
  PROVE  /\ Tables(lines, mem_arr_q, LiveAfter(coming))
         /\ HoldsAll(lines, mem_arr_q, coming.order_id, LiveAfter(coming))
         /\ coming.order_id \in DOMAIN LiveAfter(coming) /\ WriteWord(Dec(coming)).valid
              => InLines(lines, coming.order_id)
<1> DEFINE id == coming.order_id
           dec == Dec(coming)
           word == WriteWord(dec)
           way == Max(TargetWays(dec))
           after == LiveAfter(coming)
<1>1. /\ coming \in T!BookMsg /\ AtHand(id) /\ Fits(coming)
      /\ (BringsShares(coming) => NoTrace(id))
  BY MessageAtHand
<1>2. way \in TargetWays(dec) /\ way \in Ways
  BY TargetWaysIn
<1>3. dec.order_id = id /\ (BringsShares(dec) <=> BringsShares(coming))
  BY DecFields
<1>4. coming.msg_type \in {"ADD", "REDUCE", "DELETE", "REPLACE"} /\ half \in BOOLEAN
  BY <1>1, NoMsgIsNone DEF IInv, TypeOK
<1>5. word \in Word /\ SameBut(id, live, after) /\ StandsFor(word, id, after)
  BY DEF Effect
<1> HIDE DEF id, dec, word, after
<1>6. /\ \A v \in Ways \ {way} : ~Shows(mem[oid_hash(id)][v], id)
      /\ mem[oid_hash(id)][way].valid => mem[oid_hash(id)][way].order_id = id
      /\ \A i \in Slots : mem_arr_q[i].order_id # id
  <2>1. CASE BringsShares(coming)
    <3>1. ~mem[oid_hash(id)][way].valid
      BY <1>1, <1>2, <1>3, <2>1 DEF TargetWays, EmptyWays, AtHand
    <3>2. NoTrace(id)
      BY <1>1, <2>1
    <3> QED BY <3>1, <3>2 DEF NoTrace, InLines
  <2>2. CASE ~BringsShares(coming)
    <3>1. id \in DOMAIN live
      BY <1>1, <1>4, <2>2, FitsLive DEF BringsShares, id
    <3>2. Matches(dec) # {} /\ way = Max(Matches(dec))
      BY <1>3, <2>2 DEF TargetWays, dec
    <3>3. /\ Found(dec) = mem[oid_hash(id)][way] /\ Shows(Found(dec), id)
          /\ \A v \in Ways \ {way} : ~Shows(mem[oid_hash(id)][v], id)
          /\ \A i \in Slots : mem_arr_q[i].order_id # id
      BY <1>1, <1>3, <3>1, <3>2, FoundInLine
    <3> QED BY <3>3 DEF Shows
  <2> QED BY <2>1, <2>2
<1> HIDE DEF way
<1>7. lines = [mem EXCEPT ![oid_hash(id)] = [mem[oid_hash(id)] EXCEPT ![way] = word]]
  BY DEF LineWith, id, way, word, dec
<1>8. mem \in [Addrs -> Line] /\ id \in OrderIds /\ Tables(mem, mem_arr_q, live)
      /\ DOMAIN live \subseteq OrderIds
  BY <1>1 DEF AtHand
<1>9. Tables(lines, mem_arr_q, after)
  <2>1. Tables([mem EXCEPT ![oid_hash(id)] = [mem[oid_hash(id)] EXCEPT ![way] = word]],
               mem_arr_q, after)
    BY ONLY <1>2, <1>5, <1>6, <1>8, LineWrite, Zenon
  <2> QED BY <1>7, <2>1
<1>10. HoldsAll(lines, mem_arr_q, id, after)
  <2> SUFFICES ASSUME NEW x \in DOMAIN after \ {id}
               PROVE  InLines(lines, x) \/ InCam(mem_arr_q, x)
    BY DEF HoldsAll
  <2>1. x \in DOMAIN live /\ x \in OrderIds /\ x # id
    BY <1>5, <1>8 DEF SameBut
  <2>2. InLines(mem, x) \/ InCam(mem_arr_q, x)
    BY <1>1, <2>1 DEF AtHand
  <2>3. InLines(mem, x) => InLines(lines, x)
    <3>1. InLines(mem, x) =>
            InLines([mem EXCEPT ![oid_hash(id)] = [mem[oid_hash(id)] EXCEPT ![way] = word]], x)
      BY ONLY <1>2, <1>6, <1>8, <2>1, LineWriteKeeps, Zenon
    <3> QED BY <1>7, <3>1
  <2> QED BY <2>2, <2>3
<1>11. word.valid => InLines(lines, id)
  <2> SUFFICES ASSUME word.valid PROVE InLines(lines, id)
    OBVIOUS
  <2>1. Shows(word, id)
    BY <1>5 DEF StandsFor, Shows
  <2>2. InLines([mem EXCEPT ![oid_hash(id)] = [mem[oid_hash(id)] EXCEPT ![way] = word]], id)
    BY ONLY <1>2, <1>8, <2>1, LineWriteShows, Zenon
  <2> QED BY <1>7, <2>2
<1> QED BY <1>9, <1>10, <1>11 DEF id, after, word, dec

(* No table shows the order: what it becomes is not seen. *)
LEMMA Unseen ==
  ASSUME NEW lines, NEW cam, NEW orders, NEW after, Tables(lines, cam, orders),
         NEW id, SameBut(id, orders, after),
         \A a \in Addrs : \A w \in Ways : ~Shows(lines[a][w], id),
         \A i \in Slots : cam[i].order_id # id
  PROVE  Tables(lines, cam, after)
<1>1. LinesHold(lines, after)
  BY DEF Tables, LinesHold, SameBut, Shows
<1>2. CamHolds(cam, after)
  BY DEF Tables, CamHolds, SameBut
<1> QED BY <1>1, <1>2 DEF Tables

LEMMA HomeOnly ==
  ASSUME NEW id, AtHand(id), ~InLines(mem, id)
  PROVE  \A a \in Addrs : \A w \in Ways : ~Shows(mem[a][w], id)
BY DEF AtHand, Tables, LinesHold, Shows, InLines

LEMMA CamWithTyped ==
  ASSUME NEW word \in Word, mem_arr_q \in [Slots -> Word]
  PROVE  CamWith(word) \in [Slots -> Word]
BY DEF CamWith

(* A word for one slot: every other order stays. *)
LEMMA SlotEffect ==
  ASSUME NEW id, AtHand(id), NEW after, NEW word, word \in Word,
         SameBut(id, live, after), StandsFor(word, id, after), word.order_id = id,
         NEW slot \in Slots, mem_arr_q[slot].valid => mem_arr_q[slot].order_id = id,
         CamWith(word)[slot] = word,
         \A i \in Slots \ {slot} : CamWith(word)[i] = mem_arr_q[i] /\ mem_arr_q[i].order_id # id,
         ~InLines(mem, id)
  PROVE  /\ Tables(mem, CamWith(word), after)
         /\ HoldsAll(mem, CamWith(word), id, after)
         /\ word.valid => InCam(CamWith(word), id)
<1> DEFINE new == CamWith(word)
<1>1. new \in [Slots -> Word]
  BY CamWithTyped DEF AtHand
<1>2. \A a \in Addrs : \A w \in Ways : ~Shows(mem[a][w], id)
  BY HomeOnly
<1>3. /\ id \in OrderIds /\ Tables(mem, mem_arr_q, live) /\ mem_arr_q \in [Slots -> Word]
      /\ DOMAIN live \subseteq OrderIds
  BY DEF AtHand
<1> HIDE DEF new
<1>4. new[slot] = word /\ \A i \in Slots \ {slot} : new[i] = mem_arr_q[i] /\ mem_arr_q[i].order_id # id
  BY DEF new
<1>5. Tables(mem, new, after)
  <2>1. /\ SameBut(id, live, after) /\ StandsFor(word, id, after) /\ word.order_id = id
        /\ slot \in Slots
    OBVIOUS
  <2> QED BY ONLY <1>1, <1>2, <1>3, <1>4, <2>1, CamWrite
<1>6. HoldsAll(mem, new, id, after)
  <2> SUFFICES ASSUME NEW x \in DOMAIN after \ {id}
               PROVE  InLines(mem, x) \/ InCam(new, x)
    BY DEF HoldsAll
  <2>1. x \in DOMAIN live
    BY DEF SameBut
  <2>2. CASE InLines(mem, x)
    BY <2>2
  <2>3. CASE InCam(mem_arr_q, x)
    <3>1. PICK i \in Slots : Shows(mem_arr_q[i], x)
      BY <2>3 DEF InCam
    <3>2. i # slot
      BY <3>1 DEF Shows
    <3> QED BY <1>4, <3>1, <3>2 DEF InCam
  <2> QED BY <2>1, <2>2, <2>3 DEF AtHand
<1>7. word.valid => InCam(new, id)
  BY <1>4 DEF InCam, Shows
<1> QED BY <1>5, <1>6, <1>7 DEF new

LEMMA CamEffectNew ==
  ASSUME IInv, held = 2, ~failed, BringsShares(coming), Effect(Dec(coming), coming.order_id),
         NEW cam, cam = CamWith(WriteWord(Dec(coming)))
  PROVE  /\ Tables(mem, cam, LiveAfter(coming))
         /\ HoldsAll(mem, cam, coming.order_id, LiveAfter(coming))
         /\ EmptySlots # {} => InCam(cam, coming.order_id)
         /\ EmptySlots = {} => cam = mem_arr_q
         /\ \A i \in Slots : mem_arr_q[i].order_id # WriteWord(Dec(coming)).order_id
<1> DEFINE id == coming.order_id
           word == WriteWord(Dec(coming))
           after == LiveAfter(coming)
           slot == Max(EmptySlots)
<1>1. AtHand(id) /\ NoTrace(id)
  BY MessageAtHand
<1>2. word.valid = TRUE /\ word.order_id = id
  BY NewWord
<1>3. word \in Word /\ SameBut(id, live, after) /\ StandsFor(word, id, after)
  BY DEF Effect
<1>4. ~InLines(mem, id) /\ \A i \in Slots : mem_arr_q[i].order_id # id
  BY <1>1 DEF NoTrace
<1> HIDE DEF id, word, after
<1>5. {i \in Slots : mem_arr_q[i].order_id = word.order_id} = {}
  BY <1>2, <1>4
<1>6. CASE EmptySlots # {}
  <2>1. slot \in Slots /\ ~mem_arr_q[slot].valid
    BY <1>6, MaxEmptySlot
  <2> HIDE DEF slot
  <2>2. CamWith(word) = [i \in Slots |-> IF i \in {slot} THEN word ELSE mem_arr_q[i]]
    BY <1>5, <1>6 DEF CamWith, slot
  <2>3. CamWith(word)[slot] = word
        /\ \A i \in Slots \ {slot} : CamWith(word)[i] = mem_arr_q[i] /\ mem_arr_q[i].order_id # id
    BY <1>4, <2>1, <2>2
  <2>4. /\ Tables(mem, CamWith(word), after) /\ HoldsAll(mem, CamWith(word), id, after)
        /\ word.valid => InCam(CamWith(word), id)
    BY <1>1, <1>2, <1>3, <1>4, <2>1, <2>3, SlotEffect
  <2> QED BY <1>2, <1>4, <1>6, <2>4 DEF id, word, after
<1>7. CASE EmptySlots = {}
  <2>1. CamWith(word) = mem_arr_q
    BY <1>1, <1>5, <1>7 DEF CamWith, AtHand
  <2>2. \A a \in Addrs : \A w \in Ways : ~Shows(mem[a][w], id)
    BY <1>1, <1>4, HomeOnly
  <2>3. Tables(mem, mem_arr_q, after)
    BY <1>1, <1>3, <1>4, <2>2, Unseen DEF AtHand
  <2>4. HoldsAll(mem, mem_arr_q, id, after)
    BY <1>1, <1>3 DEF HoldsAll, AtHand, SameBut
  <2> QED BY <1>2, <1>4, <1>7, <2>1, <2>3, <2>4 DEF id, word, after
<1> QED BY <1>6, <1>7

LEMMA CamEffectReduce ==
  ASSUME IInv, held = 2, ~failed, coming.msg_type = "REDUCE", Matches(Dec(coming)) = {},
         NEW cam, cam = CamWith(WriteWord(Dec(coming)))
  PROVE  /\ Tables(mem, cam, LiveAfter(coming))
         /\ HoldsAll(mem, cam, coming.order_id, LiveAfter(coming))
         /\ WriteWord(Dec(coming)).valid => InCam(cam, coming.order_id)
         /\ ~(\A i \in Slots : mem_arr_q[i].order_id # WriteWord(Dec(coming)).order_id)
<1> DEFINE id == coming.order_id
           dec == Dec(coming)
           word == WriteWord(dec)
           after == LiveAfter(coming)
<1>1. AtHand(id) /\ Fits(coming)
  BY MessageAtHand
<1>2. id \in DOMAIN live
  BY <1>1, FitsLive DEF IInv, TypeOK
<1>3. Effect(dec, id) /\ word.order_id = id
  BY ReduceEffect
<1>4. word \in Word /\ SameBut(id, live, after) /\ StandsFor(word, id, after)
  BY <1>3 DEF Effect
<1>5. dec.order_id = id /\ Matches(dec) = {}
  BY DecFields
<1> HIDE DEF id, dec, after
<1>6. PICK slot \in Slots :
        /\ CamHits(id) = {slot}
        /\ \A i \in Slots \ {slot} : mem_arr_q[i].order_id # id
        /\ \A a \in Addrs : \A w \in Ways : ~Shows(mem[a][w], id)
  BY <1>1, <1>2, <1>5, FoundInCam
<1> HIDE DEF word
<1>7. mem_arr_q[slot].order_id = id
  BY <1>6 DEF CamHits
<1>8. {i \in Slots : mem_arr_q[i].order_id = word.order_id} = {slot}
  BY <1>3, <1>6, <1>7
<1>9. CamWith(word) = [i \in Slots |-> IF i \in {slot} THEN word ELSE mem_arr_q[i]]
  BY <1>8 DEF CamWith
<1>10. CamWith(word)[slot] = word
       /\ \A i \in Slots \ {slot} : CamWith(word)[i] = mem_arr_q[i] /\ mem_arr_q[i].order_id # id
  BY <1>6, <1>9
<1>11. ~InLines(mem, id)
  BY <1>1, <1>6, IdsAreNat DEF InLines, AtHand
<1>12. /\ Tables(mem, CamWith(word), after) /\ HoldsAll(mem, CamWith(word), id, after)
       /\ word.valid => InCam(CamWith(word), id)
  BY <1>1, <1>3, <1>4, <1>7, <1>10, <1>11, SlotEffect
<1> QED BY <1>3, <1>7, <1>12 DEF id, word, dec, after

LEMMA CamEffectDelete ==
  ASSUME IInv, held = 2, ~failed, coming.msg_type = "DELETE", Matches(Dec(coming)) = {},
         NEW cam, cam = CamWith(WriteWord(Dec(coming)))
  PROVE  /\ Tables(mem, cam, LiveAfter(coming))
         /\ HoldsAll(mem, cam, coming.order_id, LiveAfter(coming))
<1> DEFINE id == coming.order_id
           dec == Dec(coming)
           after == LiveAfter(coming)
<1>1. AtHand(id) /\ Fits(coming)
  BY MessageAtHand
<1>2. id \in DOMAIN live
  BY <1>1, FitsLive DEF IInv, TypeOK
<1>3. Effect(dec, id) /\ WriteWord(dec) = NoWord /\ id \notin DOMAIN after
  BY DeleteEffect
<1>4. SameBut(id, live, after)
  BY <1>3 DEF Effect
<1>5. dec.order_id = id /\ Matches(dec) = {}
  BY DecFields
<1>6. cam = CamWith(NoWord)
  BY <1>3
<1> HIDE DEF id, dec, after
<1>7. PICK slot \in Slots :
        /\ CamHits(id) = {slot}
        /\ \A a \in Addrs : \A w \in Ways : ~Shows(mem[a][w], id)
  BY <1>1, <1>2, <1>5, FoundInCam
<1>8. /\ id \in OrderIds /\ Tables(mem, mem_arr_q, live) /\ mem_arr_q \in [Slots -> Word]
      /\ DOMAIN live \subseteq OrderIds
  BY <1>1 DEF AtHand
<1>9. cam \in [Slots -> Word]
  BY <1>6, <1>8, NoWordTyped, CamWithTyped
<1>10. \A i \in Slots : mem_arr_q[i].order_id = 0 => ~mem_arr_q[i].valid
  BY <1>8, FeedAssumption DEF Tables, CamHolds
<1>11. \A i \in Slots : cam[i] = mem_arr_q[i] \/ (~mem_arr_q[i].valid /\ cam[i] = NoWord)
  <2>1. NoWord.order_id = 0
    BY DEF NoWord
  <2>2. EmptySlots # {} => ~mem_arr_q[Max(EmptySlots)].valid
    BY MaxEmptySlot
  <2>3. \A i \in Slots :
          \/ cam[i] = mem_arr_q[i]
          \/ cam[i] = NoWord /\ (mem_arr_q[i].order_id = 0 \/ (EmptySlots # {} /\ i = Max(EmptySlots)))
    <3> HIDE DEF EmptySlots
    <3> QED BY <1>6, <2>1 DEF CamWith
  <2> QED BY <1>10, <2>2, <2>3
<1>12. Tables(mem, cam, after)
  BY <1>3, <1>4, <1>7, <1>8, <1>9, <1>11, CamClear
<1>13. HoldsAll(mem, cam, id, after)
  <2> SUFFICES ASSUME NEW x \in DOMAIN after \ {id}
               PROVE  InLines(mem, x) \/ InCam(cam, x)
    BY DEF HoldsAll
  <2>1. x \in DOMAIN live
    BY <1>4 DEF SameBut
  <2>2. InCam(mem_arr_q, x) => InCam(cam, x)
    BY <1>11 DEF InCam, Shows
  <2> QED BY <1>1, <2>1, <2>2 DEF AtHand
<1> QED BY <1>12, <1>13 DEF id, after

(* What a message leaves on its way: the tables of the orders then live,   *)
(* none missing but a new one that finds no slot.                          *)
LEMMA MessageTables ==
  ASSUME IInv, held = 2, ~failed, NEW hash, Clock(hash, Dec(coming))
  PROVE  /\ Tables(Written', CamWritten', LiveAfter(coming))
         /\ \A x \in DOMAIN LiveAfter(coming) :
              \/ InLines(Written', x) \/ InCam(CamWritten', x)
              \/ /\ l3_cam_error' /\ BringsShares(coming)
                 /\ x = coming.order_id /\ l3_cam_d_in_q'.order_id = x
         /\ (l3_cam_error' /\ BringsShares(coming)) => (Written' = mem /\ CamWritten' = mem_arr_q)
         /\ Effect(Dec(coming), coming.order_id)
<1> DEFINE id == coming.order_id
           dec == Dec(coming)
           word == WriteWord(dec)
           after == LiveAfter(coming)
<1>1. coming \in T!BookMsg /\ coming.msg_type \in {"ADD", "REDUCE", "DELETE", "REPLACE"}
  BY MessageAtHand, NoMsgIsNone
<1>2. Effect(dec, id)
  BY <1>1, NewEffect, ReduceEffect, DeleteEffect DEF BringsShares
<1>3. dec.order_id = id /\ (BringsShares(dec) <=> BringsShares(coming))
  BY DecFields
<1>4. id \in DOMAIN after => word.valid
  BY <1>2 DEF Effect
<1>5. CASE TargetWays(dec) # {}
  <2>1. /\ Written' = LineWith(id, Max(TargetWays(dec)), word)
        /\ CamWritten' = mem_arr_q /\ ~l3_cam_error'
    BY <1>5, MessageClock
  <2>2. /\ Tables(Written', mem_arr_q, after)
        /\ HoldsAll(Written', mem_arr_q, id, after)
        /\ id \in DOMAIN after /\ word.valid => InLines(Written', id)
    BY <1>2, <1>5, <2>1, LineEffect
  <2> HIDE DEF id, dec, word, after
  <2>3. \A x \in DOMAIN after : InLines(Written', x) \/ InCam(mem_arr_q, x)
    BY <1>4, <2>2 DEF HoldsAll
  <2> QED BY <1>2, <2>1, <2>2, <2>3 DEF id, dec, word, after
<1>6. CASE TargetWays(dec) = {}
  <2>1. /\ Written' = mem /\ CamWritten' = CamWith(word) /\ l3_cam_d_in_q' = word
        /\ l3_cam_error' <=> /\ \A i \in Slots : mem_arr_q[i].order_id # word.order_id
                             /\ EmptySlots = {}
    BY <1>6, MessageClock
  <2>2. CASE BringsShares(coming)
    <3>1. /\ Tables(mem, CamWritten', after) /\ HoldsAll(mem, CamWritten', id, after)
          /\ EmptySlots # {} => InCam(CamWritten', id)
          /\ EmptySlots = {} => CamWritten' = mem_arr_q
          /\ \A i \in Slots : mem_arr_q[i].order_id # word.order_id
      BY <1>2, <2>1, <2>2, CamEffectNew
    <3>2. word.order_id = id
      BY <2>2, NewWord
    <3> HIDE DEF id, dec, word, after
    <3>3. l3_cam_error' <=> EmptySlots = {}
      BY <2>1, <3>1
    <3>4. \A x \in DOMAIN after :
            \/ InLines(mem, x) \/ InCam(CamWritten', x)
            \/ l3_cam_error' /\ x = id /\ l3_cam_d_in_q'.order_id = x
      BY <2>1, <3>1, <3>2, <3>3 DEF HoldsAll
    <3> QED BY <1>2, <2>1, <2>2, <3>1, <3>3, <3>4 DEF id, dec, word, after
  <2>3. CASE coming.msg_type = "REDUCE"
    <3>1. ~BringsShares(coming)
      BY <2>3 DEF BringsShares
    <3>2. Matches(dec) = {}
      BY <1>3, <1>6, <3>1 DEF TargetWays
    <3>3. /\ Tables(mem, CamWritten', after) /\ HoldsAll(mem, CamWritten', id, after)
          /\ word.valid => InCam(CamWritten', id)
      BY <2>1, <2>3, <3>2, CamEffectReduce
    <3> HIDE DEF id, dec, word, after
    <3>4. \A x \in DOMAIN after : InLines(mem, x) \/ InCam(CamWritten', x)
      BY <1>4, <3>3 DEF HoldsAll
    <3> QED BY <1>2, <2>1, <3>1, <3>3, <3>4 DEF id, dec, word, after
  <2>4. CASE coming.msg_type = "DELETE"
    <3>1. ~BringsShares(coming)
      BY <2>4 DEF BringsShares
    <3>2. Matches(dec) = {}
      BY <1>3, <1>6, <3>1 DEF TargetWays
    <3>3. /\ Tables(mem, CamWritten', after) /\ HoldsAll(mem, CamWritten', id, after)
      BY <2>1, <2>4, <3>2, CamEffectDelete
    <3>4. id \notin DOMAIN after
      BY <2>4, DeleteEffect
    <3> HIDE DEF id, dec, word, after
    <3>5. \A x \in DOMAIN after : InLines(mem, x) \/ InCam(CamWritten', x)
      BY <3>3, <3>4 DEF HoldsAll
    <3> QED BY <1>2, <2>1, <3>1, <3>3, <3>5 DEF id, dec, word, after
  <2> QED BY <1>1, <2>2, <2>3, <2>4 DEF BringsShares
<1> QED BY <1>5, <1>6

(* What is handed on: the message, filled in from the order it is about. *)
LEMMA LookupNew ==
  ASSUME IInv, held = 2, ~failed, BringsShares(coming)
  PROVE  /\ Lookup(Dec(coming)).is_buy = NewOrder(coming).is_buy
         /\ Lookup(Dec(coming)).shares = coming.shares
         /\ Lookup(Dec(coming)).price = coming.price
<1> DEFINE dec == Dec(coming)
<1>1. dec.valid = TRUE /\ BringsShares(dec) /\ dec.shares = coming.shares /\ dec.price = coming.price
  BY DecFields DEF BringsShares
<1>2. IsBuy(dec) = NewOrder(coming).is_buy
  BY NewWord
<1>3. dec = [valid |-> dec.valid, msg_type |-> dec.msg_type, order_id |-> dec.order_id,
             is_buy |-> dec.is_buy, shares |-> dec.shares, price |-> dec.price]
  BY DEF Dec
<1>4. dec.msg_type # "REDUCE" /\ dec.msg_type # "DELETE"
  BY <1>1 DEF BringsShares
<1> HIDE DEF dec
<1>5. Lookup(dec) = [dec EXCEPT !.is_buy = IsBuy(dec)]
  BY <1>1, <1>4, Zenon DEF Lookup
<1> QED BY <1>1, <1>2, <1>3, <1>5 DEF dec

LEMMA LookupOld ==
  ASSUME IInv, held = 2, ~failed, coming.msg_type \in {"REDUCE", "DELETE"}
  PROVE  /\ Lookup(Dec(coming)).is_buy = live[coming.order_id].is_buy
         /\ Lookup(Dec(coming)).shares = IF coming.msg_type = "REDUCE" THEN coming.shares
                                         ELSE live[coming.order_id].shares
         /\ Lookup(Dec(coming)).price = live[coming.order_id].price
<1> DEFINE dec == Dec(coming)
           id == coming.order_id
<1>1. AtHand(id) /\ Fits(coming)
  BY MessageAtHand
<1>2. id \in DOMAIN live
  BY <1>1, FitsLive DEF IInv, TypeOK
<1>3. /\ dec.valid = TRUE /\ ~BringsShares(dec) /\ dec.order_id = id
      /\ dec.msg_type = coming.msg_type
      /\ coming.msg_type = "REDUCE" => dec.shares = coming.shares
      /\ coming.msg_type = "DELETE" => dec.shares = 0
  BY DecFields DEF BringsShares
<1>4. dec = [valid |-> dec.valid, msg_type |-> dec.msg_type, order_id |-> dec.order_id,
             is_buy |-> dec.is_buy, shares |-> dec.shares, price |-> dec.price]
  BY DEF Dec
<1> HIDE DEF dec, id
<1>5. Found(dec) \in Word /\ Stored(Found(dec)) = live[id]
  BY <1>1, <1>2, <1>3, FoundEither
<1>6. /\ Found(dec).is_buy = live[id].is_buy /\ Found(dec).shares = live[id].shares
      /\ Found(dec).price = live[id].price /\ Found(dec).shares \in Nat
  BY <1>5 DEF Stored, Word
<1>7. CASE coming.msg_type = "REDUCE"
  <2>1. "REDUCE" # "DELETE"
    OBVIOUS
  <2>2. Lookup(dec) = [dec EXCEPT !.is_buy = Found(dec).is_buy, !.price = Found(dec).price]
    BY <1>3, <1>7, <2>1, Zenon DEF Lookup
  <2> QED BY <1>3, <1>4, <1>6, <1>7, <2>2 DEF dec, id
<1>8. CASE coming.msg_type = "DELETE"
  <2>1. "REDUCE" # "DELETE"
    OBVIOUS
  <2>2. Lookup(dec) = [dec EXCEPT !.is_buy = Found(dec).is_buy, !.price = Found(dec).price,
                                  !.shares = Found(dec).shares - (IF Matches(dec) # {} THEN 0 ELSE @)]
    BY <1>3, <1>8, <2>1, Zenon DEF Lookup
  <2>3. Lookup(dec).shares = Found(dec).shares - (IF Matches(dec) # {} THEN 0 ELSE dec.shares)
    BY <1>4, <2>2
  <2>4. Lookup(dec).shares = Found(dec).shares
    BY <1>3, <1>6, <1>8, <2>3
  <2>5. Lookup(dec).is_buy = Found(dec).is_buy /\ Lookup(dec).price = Found(dec).price
    BY <1>4, <2>2
  <2> QED BY <1>6, <1>8, <2>4, <2>5 DEF dec, id
<1> QED BY <1>7, <1>8

LEMMA DecodeTyped ==
  ASSUME IInv, Decode
  PROVE  TypeOK'
<1> DEFINE dec == Dec(coming)
           hash == oid_hash(coming.order_id)
<1>1. /\ held = 2 /\ ~failed /\ Clock(hash, dec) /\ failed' = l3_error(dec)
      /\ live' = LiveAfter(coming)
  BY DEF Decode
<1>2. coming \in T!BookMsg /\ Effect(dec, coming.order_id)
  BY <1>1, MessageAtHand, MessageTables
<1>3. hash \in Addrs
  BY <1>2, NoMsgIsNone, IdsAreNat
<1>4. dec.valid = TRUE /\ dec.msg_type = coming.msg_type
  BY DecFields
<1>5. dec.valid => WriteWord(dec) \in Word
  BY <1>2 DEF Effect
<1>6. (dec.valid /\ dec.msg_type = "DELETE") => Lookup(dec).is_buy \in BOOLEAN
  <2> SUFFICES ASSUME coming.msg_type = "DELETE" PROVE Lookup(dec).is_buy \in BOOLEAN
    BY <1>4
  <2>1. coming.order_id \in DOMAIN live
    BY <1>1, MessageAtHand, FitsLive DEF IInv, TypeOK
  <2>2. live[coming.order_id].is_buy \in BOOLEAN
    BY <2>1 DEF IInv, TypeOK, T!IsDict, T!L3Entry
  <2> QED BY <1>1, <2>2, LookupOld
<1>7. T!IsDict(live', OrderIds, T!L3Entry)
  BY <1>1, <1>2 DEF Effect
<1>8. failed' \in BOOLEAN /\ failed' = l3_error(dec)
  BY <1>1, <1>2 DEF Effect, l3_error
<1>9. half' \in BOOLEAN
  BY DEF Decode
<1> HIDE DEF dec, hash
<1>10. dec.valid \in BOOLEAN
  BY <1>4
<1>11. RegsTyped'
  BY <1>1, <1>3, <1>5, <1>6, <1>10, ClockTyped DEF IInv
<1> QED BY <1>7, <1>8, <1>9, <1>11 DEF TypeOK, RegsTyped

LEMMA DecodeFeed ==
  ASSUME IInv, Decode
  PROVE  FeedOK'
<1> DEFINE dec == Dec(coming)
<1>1. held = 2 /\ ~failed /\ Clock(oid_hash(coming.order_id), dec) /\ coming' = NoMsg /\ held' = 0
  BY DEF Decode
<1>2. dec.valid = TRUE /\ dec.msg_type = coming.msg_type
  BY DecFields
<1>3. CASE coming.msg_type = "DELETE"
  <2>1. prev_is_buy_q' = Lookup(dec).is_buy
    BY <1>1, <1>2, <1>3 DEF Clock
  <2>2. Lookup(dec).is_buy = live[coming.order_id].is_buy
    BY <1>1, <1>3, LookupOld
  <2>3. coming.order_id \in DOMAIN live
    BY <1>1, <1>3, MessageAtHand, FitsLive DEF IInv, TypeOK
  <2>4. live[coming.order_id].is_buy \in BOOLEAN
    BY <2>3 DEF IInv, TypeOK, T!IsDict, T!L3Entry
  <2>5. last_side' = IF live[coming.order_id].is_buy THEN "buy" ELSE "sell"
    BY <1>3 DEF Decode
  <2>6. prev_is_buy_q' = (last_side' = "buy")
    BY <2>1, <2>2, <2>4, <2>5
  <2> QED BY <1>1, <2>5, <2>6 DEF FeedOK
<1>4. CASE coming.msg_type # "DELETE"
  <2>1. prev_is_buy_q' = prev_is_buy_q
    BY <1>1, <1>2, <1>4 DEF Clock
  <2>2. half' = FALSE /\ last_side' = last_side
    BY <1>4 DEF Decode
  <2> QED BY <1>1, <2>1, <2>2 DEF FeedOK, IInv
<1> QED BY <1>3, <1>4

LEMMA DecodeStep ==
  ASSUME IInv, Decode
  PROVE  IInv'
<1> DEFINE dec == Dec(coming)
<1>1. /\ held = 2 /\ ~failed /\ Clock(oid_hash(coming.order_id), dec) /\ failed' = l3_error(dec)
      /\ live' = LiveAfter(coming) /\ coming' = NoMsg
  BY DEF Decode
<1>2. TypeOK' /\ FeedOK'
  BY DecodeTyped, DecodeFeed
<1>3. rst_done' /\ count_q' = 0
  BY <1>1, MessageClock
<1>4. /\ Tables(Written', CamWritten', live')
      /\ \A x \in DOMAIN live' :
           \/ InLines(Written', x) \/ InCam(CamWritten', x)
           \/ l3_cam_error' /\ l3_cam_d_in_q'.order_id = x
      /\ Effect(dec, coming.order_id)
  BY <1>1, MessageTables
<1>5. ResetClears'
  BY <1>3 DEF ResetClears, rst_done
<1>6. TablesHold'
  BY <1>4 DEF TablesHold
<1>7. NoneMissing'
  BY <1>4 DEF NoneMissing
<1>8. LineComes' /\ StillFits'
  BY <1>1 DEF LineComes, StillFits
<1>9. ~failed'
  BY <1>1, <1>4 DEF Effect
<1>10. ErrorMeansFull'
  BY <1>9 DEF ErrorMeansFull
<1> QED BY <1>2, <1>5, <1>6, <1>7, <1>8, <1>10 DEF IInv

LEMMA InitInv ==
  ASSUME Init
  PROVE  IInv
<1>1. PICK old \in OrderIds, i0 \in {0, YesterdaysId} :
        InitRtlL3([a \in Addrs |-> [w \in Ways |-> OldWord(old)]], [i \in Slots |-> i0])
  BY DEF Init
<1>2. OldWord(old) \in Word
  <2>1. (CHOOSE p \in Prices : TRUE) \in Prices
    BY FeedAssumption
  <2> QED BY <2>1 DEF OldWord, Word
<1>3. 0 \in Addrs /\ 0 \in Ways /\ L3_ADDRS - 1 \in Addrs
  BY RtlL3SizesAssumption DEF Addrs, Ways
<1>4. EmptyLine \in Line /\ NoWord \in Word /\ [w \in Ways |-> OldWord(old)] \in Line
  BY <1>2, NoWordTyped DEF Line
<1>5. [NoWord EXCEPT !.order_id = i0] \in Word /\ ~[NoWord EXCEPT !.order_id = i0].valid
  BY DEF NoWord, Word
<1>6. /\ live = T!EmptyDict /\ last_side = "none" /\ half = FALSE /\ coming = NoMsg
      /\ held = 0 /\ failed = FALSE
  BY DEF Init
<1>7. T!IsDict(live, OrderIds, T!L3Entry) /\ DOMAIN live = {}
  BY <1>6 DEF T!IsDict, T!EmptyDict
<1>8. InitRam([a \in Addrs |-> [w \in Ways |-> OldWord(old)]])
  BY <1>1 DEF InitRtlL3
<1>9. /\ mem_arr_q \in [Slots -> Word] /\ \A i \in Slots : ~mem_arr_q[i].valid
      /\ l3_cam_w_en_q = FALSE /\ l3_cam_d_in_q \in Word /\ oid_hash_q \in Addrs
      /\ prev_is_buy_q = FALSE
  <2>1. mem_arr_q = [i \in Slots |-> [NoWord EXCEPT !.order_id = i0]]
    BY <1>1 DEF InitRtlL3
  <2>2. /\ l3_cam_w_en_q = FALSE /\ l3_cam_d_in_q = NoWord /\ oid_hash_q = 0
        /\ prev_is_buy_q = FALSE
    BY <1>1 DEF InitRtlL3
  <2> QED BY <1>3, <1>4, <1>5, <2>1, <2>2
<1>10. TypeOK
  BY <1>3, <1>4, <1>6, <1>7, <1>8, <1>9 DEF TypeOK, InitRam
<1>11. rst_in_progress_q /\ ~write_q.wea /\ count_q = L3_ADDRS - 1
  BY <1>8 DEF InitRam
<1>12. ResetClears
  <2>1. \A a \in Addrs : ~(a > L3_ADDRS - 1)
    BY RtlL3SizesAssumption DEF Addrs
  <2> QED BY <1>6, <1>7, <1>9, <1>11, <2>1 DEF ResetClears, rst_done
<1>13. FeedOK
  BY <1>6 DEF FeedOK
<1>14. TablesHold
  BY <1>11 DEF TablesHold, rst_done
<1>15. NoneMissing /\ LineComes /\ StillFits /\ ErrorMeansFull
  BY <1>6, <1>7 DEF NoneMissing, LineComes, StillFits, ErrorMeansFull
<1> QED BY <1>10, <1>12, <1>13, <1>14, <1>15 DEF IInv

LEMMA StutterStep ==
  ASSUME IInv, UNCHANGED vars
  PROVE  IInv'
<1>1. UNCHANGED <<mem, write_q, write_q2, addrb_q, doutb, doutb_o, rst_in_progress_q, count_q>>
  BY DEF vars, rtl_vars, ram_vars
<1>2. UNCHANGED <<mem_arr_q, l3_cam_w_en_q, l3_cam_d_in_q, oid_hash_q, prev_is_buy_q>>
  BY DEF vars, rtl_vars, cam_vars
<1>3. UNCHANGED <<live, last_side, half, coming, held, failed>>
  BY DEF vars, env_vars
<1>4. Written' = Written /\ Read' = Read
  BY <1>1 DEF Written, wea, addra, dina, Read
<1>5. CamWritten' = CamWritten /\ (l3_cam_error' <=> l3_cam_error)
  BY <1>2 DEF CamWritten, SameSlots, EmptySlots, l3_cam_error
<1>6. TypeOK' /\ FeedOK' /\ ResetClears' /\ ErrorMeansFull'
  BY <1>1, <1>2, <1>3 DEF IInv, TypeOK, FeedOK, ResetClears, ErrorMeansFull, rst_done
<1>7. TablesHold'
  BY <1>1, <1>3, <1>4, <1>5 DEF IInv, TablesHold, rst_done
<1>8. NoneMissing'
  BY <1>2, <1>3, <1>4, <1>5 DEF IInv, NoneMissing
<1>9. LineComes'
  BY <1>1, <1>2, <1>3, <1>4 DEF IInv, LineComes
<1>10. StillFits'
  BY <1>3, <1>4, <1>5, FitsAfter, UnusedAfter DEF IInv, StillFits, BringsShares
<1> QED BY <1>6, <1>7, <1>8, <1>9, <1>10 DEF IInv

LEMMA Invariance ==
  ASSUME IInv, [Next]_vars
  PROVE  IInv'
<1>1. CASE Idle
  BY <1>1, IdleStep
<1>2. ASSUME NEW msg \in T!BookMsg, Announce(msg) PROVE IInv'
  BY <1>2, AnnounceStep
<1>3. CASE Hold
  BY <1>3, HoldStep
<1>4. CASE Decode
  BY <1>4, DecodeStep
<1>5. CASE UNCHANGED vars
  BY <1>5, StutterStep
<1> QED BY <1>1, <1>2, <1>3, <1>4, <1>5 DEF Next

LEMMA InvHolds == Spec => []IInv
<1>1. Init => IInv
  BY InitInv
<1>2. IInv /\ [Next]_vars => IInv'
  BY Invariance
<1> QED BY <1>1, <1>2, PTL DEF Spec

----------------------------------------------------------------------------
(* The invariants of the run. *)

(* Every register keeps its type: the reset's count stays in the memory,   *)
(* a word never goes to a way the line does not have, and no order is left *)
(* with a negative number of shares.                                       *)
THEOREM TypeInvariant == Spec => []TypeOK
<1>1. IInv => TypeOK
  BY DEF IInv
<1> QED BY <1>1, InvHolds, PTL

(* Once the table says that it is ready its lines hold live orders only:   *)
(* nothing of the day before, nothing deleted, each at its own address     *)
(* with the side, price and shares it has left, whatever is still on its   *)
(* way through the write port.                                             *)
THEOREM LinesAreLive == Spec => []LinesHoldLive
<1>1. IInv => LinesHoldLive
  BY DEF IInv, TablesHold, Tables, LinesHold, LinesHoldLive, Stored
<1> QED BY <1>1, InvHolds, PTL

(* The lookup of the order a message is about: held for two clocks, its    *)
(* line is at hand, and no error was reported before.                      *)
LEMMA NotFailedWhenRead ==
  ASSUME IInv, held = 2
  PROVE  /\ coming \in T!BookMsg /\ rst_done
         /\ doutb_o = mem[oid_hash(coming.order_id)] /\ coming.order_id \in OrderIds
         /\ Tables(mem, mem_arr_q, live)
         /\ mem \in [Addrs -> Line] /\ mem_arr_q \in [Slots -> Word]
<1>1. coming \in T!BookMsg /\ coming # NoMsg
  BY DEF IInv, FeedOK
<1>2. rst_done
  BY <1>1 DEF IInv, ResetClears, rst_done
<1>3. LineComes
  BY DEF IInv
<1>4. /\ ~write_q.wea /\ ~l3_cam_w_en_q
      /\ doutb_o = mem[oid_hash(coming.order_id)]
  BY <1>1, <1>3 DEF LineComes
<1>5. Written = mem /\ CamWritten = mem_arr_q
  BY <1>2, <1>4, NothingOnItsWay DEF IInv
<1>6. Tables(mem, mem_arr_q, live)
  BY <1>2, <1>5 DEF IInv, TablesHold
<1>7. mem \in [Addrs -> Line] /\ mem_arr_q \in [Slots -> Word]
  BY DEF IInv, TypeOK
<1> QED BY <1>1, <1>2, <1>4, <1>6, <1>7, NoMsgIsNone

LEMMA AtMostOnce ==
  ASSUME NEW S, \A x, y \in S : x = y
  PROVE  IsFiniteSet(S) /\ Cardinality(S) \in {0, 1} /\ (S = {} <=> Cardinality(S) = 0)
<1>1. CASE S = {}
  BY <1>1, FS_EmptySet
<1>2. CASE S # {}
  <2>1. PICK x \in S : S = {x}
    BY <1>2
  <2>2. IsFiniteSet({x}) /\ Cardinality({x}) = 1
    BY FS_Singleton
  <2> QED BY <2>1, <2>2
<1> QED BY <1>1, <1>2

(* The three assertions of the table: no message finds its order twice, in *)
(* two ways of its line, in two slots of the CAM, or in both memories.     *)
THEOREM FoundAtMostOnce == Spec => []NeverFoundTwice
<1>1. ASSUME IInv PROVE NeverFoundTwice
  <2> SUFFICES ASSUME held = 2 PROVE FoundOnce(Dec(coming))
    BY DEF NeverFoundTwice
  <2> DEFINE id == coming.order_id
             home == oid_hash(id)
             M == Matches(Dec(coming))
             H == CamHits(Dec(coming).order_id)
  <2>1. /\ doutb_o = mem[home] /\ id \in OrderIds /\ Tables(mem, mem_arr_q, live)
    BY <1>1, NotFailedWhenRead
  <2>2. home \in Addrs
    BY <2>1, IdsAreNat
  <2>3. Dec(coming).order_id = id
    BY DecFields
  <2> HIDE DEF id, home
  <2>4. M = {w \in Ways : Shows(mem[home][w], id)}
    BY <2>1, <2>3 DEF Matches, Shows
  <2>5. H = {i \in Slots : Shows(mem_arr_q[i], id)}
    BY <2>3 DEF CamHits, Shows
  <2>6. \A v, w \in M : v = w
    BY <2>1, <2>2, <2>4 DEF Tables, OnceInLine, Shows
  <2>7. \A i, j \in H : i = j
    BY <2>1, <2>5 DEF Tables, OnceInCam, Shows
  <2>8. M = {} \/ H = {}
    BY <2>1, <2>2, <2>4, <2>5 DEF Tables, LineOrCam, Shows
  <2> HIDE DEF M, H
  <2>9. Cardinality(M) \in {0, 1} /\ Cardinality(H) \in {0, 1}
        /\ (Cardinality(M) = 0 \/ Cardinality(H) = 0)
    BY <2>6, <2>7, <2>8, AtMostOnce
  <2>10. Cardinality(M) + Cardinality(H) <= 1
    BY <2>9
  <2> QED BY <2>10 DEF FoundOnce, M, H
<1> QED BY <1>1, InvHolds, PTL

(* An error is reported only when the CAM is full: to messages that fit    *)
(* the live orders the table finds no contradiction.                       *)
THEOREM ErrorsMeanFull == Spec => []ErrorMeansFull
<1>1. IInv => ErrorMeansFull
  BY DEF IInv
<1> QED BY <1>1, InvHolds, PTL

----------------------------------------------------------------------------
(* The refinement.  Seen through the pipeline the table is a dictionary of *)
(* the live orders that found a place.                                     *)

StoreOrders == [id \in Held |-> HeldWord(id)]

StoreSide == IF last_side = "none" THEN "none" ELSE IF prev_is_buy_q THEN "buy" ELSE "sell"

(* What it holds of an order is what the exchange has. *)
AsInExchange ==
  /\ Held \subseteq DOMAIN live
  /\ StoreOrders = [id \in Held |-> live[id]]
  /\ StoreSide = last_side

LEMMA StoreIsLive == IInv => AsInExchange
<1> SUFFICES ASSUME IInv PROVE AsInExchange
  OBVIOUS
<1>1. Held \subseteq DOMAIN live
  BY DEF Held
<1>2. ASSUME NEW id \in Held PROVE HeldWord(id) = live[id]
  <2>1. id \in DOMAIN live /\ (HeldInRam(id) \/ HeldInCam(id))
    BY DEF Held
  <2>2. id \in OrderIds /\ oid_hash(id) \in Addrs /\ live[id] \in T!L3Entry
    BY <2>1, IdsAreNat DEF IInv, TypeOK, T!IsDict
  <2>3. rst_done
    BY <2>1 DEF IInv, ResetClears, rst_done
  <2>4. LinesHold(Written, live) /\ CamHolds(CamWritten, live)
    BY <2>3 DEF IInv, TablesHold, Tables
  <2> DEFINE words == {w \in {Written[oid_hash(id)][v] : v \in Ways} \cup {CamWritten[i] : i \in Slots} :
                         w.valid /\ w.order_id = id}
             word == CHOOSE w \in words : TRUE
  <2>5. ASSUME NEW w \in words PROVE live[id] = Stored(w)
    <3>1. CASE w \in {Written[oid_hash(id)][v] : v \in Ways}
      BY <2>2, <2>4, <3>1 DEF LinesHold
    <3>2. CASE w \in {CamWritten[i] : i \in Slots}
      BY <2>1, <2>4, <3>2 DEF CamHolds
    <3> QED BY <3>1, <3>2
  <2>6. words # {}
    BY <2>1 DEF HeldInRam, HeldInCam
  <2>7. HeldWord(id) = Stored(word)
    BY DEF HeldWord, Stored
  <2> HIDE DEF words
  <2> QED BY <2>5, <2>6, <2>7
<1>3. StoreSide = last_side
  BY DEF IInv, FeedOK, StoreSide
<1> QED BY <1>1, <1>2, <1>3 DEF StoreOrders, AsInExchange

LEMMA StoreStaysLive == (IInv => AsInExchange)'
BY StoreIsLive, PTL

(* At a message it holds every live order. *)
LEMMA AllHeld ==
  ASSUME IInv, held = 2, ~failed
  PROVE  StoreOrders = live
<1>1. Held = DOMAIN live
  <2>1. Written = mem /\ CamWritten = mem_arr_q /\ AtHand(coming.order_id)
    BY MessageAtHand
  <2> QED BY <2>1 DEF AtHand, Held, HeldInRam, HeldInCam, InLines, InCam, Shows
<1>2. live = [id \in DOMAIN live |-> live[id]]
  BY DEF IInv, TypeOK, T!IsDict
<1> QED BY <1>1, <1>2, StoreIsLive DEF AsInExchange

(* After it all that live, but for the new one when no slot was left.      *)
LEMMA HeldAfter ==
  ASSUME IInv, Decode
  PROVE  /\ (l3_cam_error' /\ BringsShares(coming)) => StoreOrders' = live
         /\ ~(l3_cam_error' /\ BringsShares(coming)) => StoreOrders' = live'
         /\ StoreSide' = last_side'
<1> DEFINE id == coming.order_id
<1>1. held = 2 /\ ~failed /\ Clock(oid_hash(id), Dec(coming)) /\ live' = LiveAfter(coming)
  BY DEF Decode
<1>2. IInv'
  BY DecodeStep
<1>3. /\ Held' \subseteq DOMAIN live'
      /\ StoreOrders' = [x \in Held' |-> live'[x]]
      /\ StoreSide' = last_side'
  BY <1>2, StoreStaysLive DEF AsInExchange
<1>4. Held' = {x \in DOMAIN live' : InLines(Written', x) \/ InCam(CamWritten', x)}
  BY DEF Held, HeldInRam, HeldInCam, InLines, InCam, Shows
<1>5. /\ \A x \in DOMAIN live' :
           \/ InLines(Written', x) \/ InCam(CamWritten', x)
           \/ l3_cam_error' /\ BringsShares(coming) /\ x = id
      /\ (l3_cam_error' /\ BringsShares(coming)) => (Written' = mem /\ CamWritten' = mem_arr_q)
      /\ SameBut(id, live, live')
  BY <1>1, MessageTables DEF Effect
<1>6. live' = [x \in DOMAIN live' |-> live'[x]]
  BY <1>2 DEF IInv, TypeOK, T!IsDict
<1>7. live = [x \in DOMAIN live |-> live[x]]
  BY DEF IInv, TypeOK, T!IsDict
<1>8. ASSUME ~(l3_cam_error' /\ BringsShares(coming))
      PROVE  StoreOrders' = live'
  <2>1. Held' = DOMAIN live'
    BY <1>4, <1>5, <1>8
  <2> QED BY <1>3, <1>6, <2>1
<1>9. ASSUME l3_cam_error', BringsShares(coming)
      PROVE  StoreOrders' = live
  <2>1. AtHand(id) /\ NoTrace(id)
    BY <1>1, <1>9, MessageAtHand
  <2>2. id \notin DOMAIN live
    BY <1>1, <1>9, MessageAtHand, FitsNew DEF IInv, TypeOK
  <2>3. Written' = mem /\ CamWritten' = mem_arr_q
    BY <1>5, <1>9
  <2>4. Held' = DOMAIN live
    <3>1. ASSUME NEW x \in DOMAIN live PROVE x \in Held'
      <4>1. InLines(mem, x) \/ InCam(mem_arr_q, x)
        BY <2>1 DEF AtHand
      <4>2. x \in DOMAIN live'
        BY <1>5, <2>2 DEF SameBut
      <4> QED BY <1>4, <2>3, <4>1, <4>2
    <3>2. id \notin Held'
      BY <1>4, <2>1, <2>3 DEF NoTrace, InCam, Shows
    <3>3. ASSUME NEW x \in Held' PROVE x \in DOMAIN live
      BY <1>4, <1>5, <3>2, <3>3 DEF SameBut
    <3> QED BY <3>1, <3>3
  <2>5. \A x \in DOMAIN live : live'[x] = live[x]
    BY <1>5, <2>2 DEF SameBut
  <2> QED BY <1>3, <1>7, <2>4, <2>5
<1> QED BY <1>3, <1>8, <1>9

(* The promises of the plain store, told of this one. *)
LEMMA PromisedNew ==
  ASSUME NEW msg, BringsShares(msg),
         msg.order_id \notin DOMAIN StoreOrders,
         msg.msg_type = "REPLACE" => StoreSide # "none",
         NEW order,
         order = [is_buy |-> IF msg.msg_type = "ADD" THEN msg.is_buy ELSE StoreSide = "buy",
                  shares |-> msg.shares, price |-> msg.price],
         StoreOrders' = T!Put(StoreOrders, msg.order_id, order),
         StoreSide' = StoreSide,
         answer' = Answer("ok", [msg_type |-> msg.msg_type, is_buy |-> order.is_buy,
                                 shares |-> order.shares, price |-> order.price])
  PROVE  Store!Add(msg) \/ Store!Replace(msg)
<1>1. Store!Enter(msg, order)
  BY DEF Store!Enter, Store!Live, Store!Put, T!Put, Store!Answer, Answer, Store!Lookup,
         StoreOrders, StoreSide
<1>2. CASE msg.msg_type = "ADD"
  <2>1. order = [is_buy |-> msg.is_buy, shares |-> msg.shares, price |-> msg.price]
    BY <1>2
  <2> QED BY <1>1, <1>2, <2>1 DEF Store!Add
<1>3. CASE msg.msg_type = "REPLACE"
  <2>1. order = [is_buy |-> StoreSide = "buy", shares |-> msg.shares, price |-> msg.price]
    BY <1>3
  <2> QED BY <1>1, <1>3, <2>1 DEF Store!Replace, StoreSide
<1> QED BY <1>2, <1>3 DEF BringsShares

LEMMA PromisedFull ==
  ASSUME NEW msg, BringsShares(msg),
         msg.order_id \notin DOMAIN StoreOrders,
         StoreOrders' = StoreOrders, StoreSide' = StoreSide,
         answer' = Answer("full", NoMsg)
  PROVE  Store!OutOfSlots(msg) /\ UNCHANGED <<StoreOrders, StoreSide>>
BY DEF Store!OutOfSlots, Store!BringsShares, BringsShares, Store!Live, Store!Answer, Answer,
       Store!NoLookup, NoMsg, StoreOrders

LEMMA PromisedReduce ==
  ASSUME NEW msg, msg.msg_type = "REDUCE",
         msg.order_id \in DOMAIN StoreOrders,
         NEW order, order = StoreOrders[msg.order_id],
         order.shares >= msg.shares,
         StoreOrders' = IF order.shares = msg.shares THEN T!Drop(StoreOrders, msg.order_id)
                        ELSE T!Put(StoreOrders, msg.order_id, [order EXCEPT !.shares = @ - msg.shares]),
         StoreSide' = StoreSide,
         answer' = Answer("ok", [msg_type |-> msg.msg_type, is_buy |-> order.is_buy,
                                 shares |-> msg.shares, price |-> order.price])
  PROVE  Store!Reduce(msg)
BY DEF Store!Reduce, Store!Live, Store!Drop, T!Drop, Store!Put, T!Put, Store!Answer, Answer,
       Store!Lookup, StoreOrders, StoreSide

LEMMA PromisedDelete ==
  ASSUME NEW msg, msg.msg_type = "DELETE",
         msg.order_id \in DOMAIN StoreOrders,
         NEW order, order = StoreOrders[msg.order_id],
         StoreOrders' = T!Drop(StoreOrders, msg.order_id),
         StoreSide' = IF order.is_buy THEN "buy" ELSE "sell",
         answer' = Answer("ok", [msg_type |-> msg.msg_type, is_buy |-> order.is_buy,
                                 shares |-> order.shares, price |-> order.price])
  PROVE  Store!Delete(msg)
BY DEF Store!Delete, Store!Live, Store!Drop, T!Drop, Store!Answer, Answer, Store!Lookup,
       StoreOrders, StoreSide

LEMMA AfterReduce ==
  ASSUME NEW msg, msg.msg_type = "REDUCE"
  PROVE  LiveAfter(msg) = IF live[msg.order_id].shares > msg.shares
                          THEN T!Put(live, msg.order_id,
                                     [live[msg.order_id] EXCEPT !.shares = @ - msg.shares])
                          ELSE T!Drop(live, msg.order_id)
<1>1. "REDUCE" # "ADD" /\ "REDUCE" # "REPLACE"
  OBVIOUS
<1> QED BY <1>1, Zenon DEF LiveAfter

LEMMA AfterDelete ==
  ASSUME NEW msg, msg.msg_type = "DELETE"
  PROVE  LiveAfter(msg) = T!Drop(live, msg.order_id)
<1>1. "DELETE" # "ADD" /\ "DELETE" # "REPLACE" /\ "DELETE" # "REDUCE"
  OBVIOUS
<1> QED BY <1>1, Zenon DEF LiveAfter

(* The message at hand is answered as the plain store answers it. *)
AnswerOf(msg) ==
  Answer("ok", [msg_type |-> msg.msg_type,
                is_buy |-> Lookup(Dec(msg)).is_buy,
                shares |-> Lookup(Dec(msg)).shares,
                price  |-> Lookup(Dec(msg)).price])

LEMMA DecodeAnswers ==
  ASSUME Decode
  PROVE  /\ held = 2 /\ ~failed /\ live' = LiveAfter(coming)
         /\ answer' = IF l3_cam_error' /\ BringsShares(coming) THEN Answer("full", NoMsg)
                      ELSE AnswerOf(coming)
         /\ coming.msg_type = "DELETE" =>
              last_side' = IF live[coming.order_id].is_buy THEN "buy" ELSE "sell"
         /\ coming.msg_type # "DELETE" => last_side' = last_side
<1>1. /\ held = 2 /\ ~failed /\ live' = LiveAfter(coming)
      /\ Clock(oid_hash(coming.order_id), Dec(coming))
      /\ coming.msg_type = "DELETE" =>
           last_side' = IF live[coming.order_id].is_buy THEN "buy" ELSE "sell"
      /\ coming.msg_type # "DELETE" => last_side' = last_side
  BY DEF Decode
<1>2. lookup_dec_book_o' = Lookup(Dec(coming))
  BY <1>1 DEF Clock
<1>3. Dec(coming).msg_type = coming.msg_type
      /\ (BringsShares(Dec(coming)) <=> BringsShares(coming))
  BY DecFields
<1>4. answer' = IF l3_cam_error' /\ BringsShares(Dec(coming)) THEN Answer("full", NoMsg)
                ELSE Answer("ok", [msg_type |-> Dec(coming).msg_type,
                                   is_buy |-> lookup_dec_book_o'.is_buy,
                                   shares |-> lookup_dec_book_o'.shares,
                                   price  |-> lookup_dec_book_o'.price])
  BY DEF Decode, NoSlot
<1> QED BY <1>1, <1>2, <1>3, <1>4 DEF AnswerOf

(* Each kind of message keeps its promise. *)
LEMMA NewKept ==
  ASSUME IInv, Decode, BringsShares(coming)
  PROVE  \/ Store!Add(coming) \/ Store!Replace(coming)
         \/ Store!OutOfSlots(coming) /\ UNCHANGED <<StoreOrders, StoreSide>>
<1> DEFINE order == NewOrder(coming)
<1>1. held = 2 /\ ~failed /\ live' = LiveAfter(coming) /\ last_side' = last_side
  BY DecodeAnswers DEF BringsShares
<1>2. StoreOrders = live /\ StoreSide = last_side
  BY <1>1, AllHeld, StoreIsLive DEF AsInExchange
<1>3. coming.order_id \notin DOMAIN live /\ (coming.msg_type = "REPLACE" => half)
  BY <1>1, MessageAtHand, FitsNew DEF IInv, TypeOK
<1>4. coming.msg_type = "REPLACE" => StoreSide # "none"
  BY <1>2, <1>3 DEF IInv, FeedOK
<1>5. StoreSide' = StoreSide
  BY <1>1, <1>2, HeldAfter
<1>6. CASE l3_cam_error'
  <2>1. StoreOrders' = StoreOrders
    BY <1>2, <1>6, HeldAfter
  <2>2. answer' = Answer("full", NoMsg)
    BY <1>6, DecodeAnswers
  <2> QED BY <1>2, <1>3, <1>5, <2>1, <2>2, PromisedFull
<1>7. CASE ~l3_cam_error'
  <2>1. LiveAfter(coming) = T!Put(live, coming.order_id, order)
    BY <1>1, NewWord
  <2>2. StoreOrders' = T!Put(StoreOrders, coming.order_id, order)
    BY <1>1, <1>2, <1>7, <2>1, HeldAfter
  <2>3. order = [is_buy |-> IF coming.msg_type = "ADD" THEN coming.is_buy ELSE StoreSide = "buy",
                 shares |-> coming.shares, price |-> coming.price]
    BY <1>2 DEF NewOrder
  <2>4. /\ Lookup(Dec(coming)).is_buy = order.is_buy
        /\ Lookup(Dec(coming)).shares = coming.shares
        /\ Lookup(Dec(coming)).price = coming.price
    BY <1>1, LookupNew
  <2>5. answer' = Answer("ok", [msg_type |-> coming.msg_type, is_buy |-> order.is_buy,
                                shares |-> order.shares, price |-> order.price])
    BY <1>7, <2>3, <2>4, DecodeAnswers DEF AnswerOf
  <2> HIDE DEF order
  <2> QED BY <1>2, <1>3, <1>4, <1>5, <2>2, <2>3, <2>5, PromisedNew
<1> QED BY <1>6, <1>7

LEMMA ReduceKept ==
  ASSUME IInv, Decode, coming.msg_type = "REDUCE"
  PROVE  Store!Reduce(coming)
<1> DEFINE id == coming.order_id
           order == live[id]
<1>1. held = 2 /\ ~failed /\ live' = LiveAfter(coming) /\ last_side' = last_side
  BY DecodeAnswers
<1>2. StoreOrders = live /\ StoreSide = last_side
  BY <1>1, AllHeld, StoreIsLive DEF AsInExchange
<1>3. coming \in T!BookMsg /\ id \in DOMAIN live /\ order.shares >= coming.shares
  BY <1>1, MessageAtHand, FitsLive DEF IInv, TypeOK
<1>4. ~BringsShares(coming)
  BY DEF BringsShares
<1>5. StoreSide' = StoreSide /\ StoreOrders' = live'
  BY <1>1, <1>2, <1>4, HeldAfter
<1>6. order.shares \in Nat /\ coming.shares \in Nat
  <2>1. order \in T!L3Entry
    BY <1>3 DEF IInv, TypeOK, T!IsDict
  <2>2. coming.shares \in ShareCounts
    BY <1>3 DEF T!BookMsg, T!AddOrderMsg, T!ReduceOrderMsg, T!DeleteOrderMsg, T!ReplaceOrderMsg
  <2> QED BY <2>1, <2>2, FeedAssumption DEF T!L3Entry
<1>7. live' = IF order.shares = coming.shares THEN T!Drop(live, id)
              ELSE T!Put(live, id, [order EXCEPT !.shares = @ - coming.shares])
  <2> HIDE DEF order, id
  <2>1. order.shares > coming.shares <=> order.shares # coming.shares
    BY <1>3, <1>6
  <2>2. LiveAfter(coming) = IF order.shares > coming.shares
                            THEN T!Put(live, id, [order EXCEPT !.shares = @ - coming.shares])
                            ELSE T!Drop(live, id)
    BY AfterReduce, Zenon DEF order, id
  <2> QED BY ONLY <1>1, <2>1, <2>2
<1>8. /\ Lookup(Dec(coming)).is_buy = order.is_buy
      /\ Lookup(Dec(coming)).shares = coming.shares
      /\ Lookup(Dec(coming)).price = order.price
  BY <1>1, LookupOld
<1>9. answer' = Answer("ok", [msg_type |-> coming.msg_type, is_buy |-> order.is_buy,
                              shares |-> coming.shares, price |-> order.price])
  BY <1>4, <1>8, DecodeAnswers DEF AnswerOf
<1>10. order = StoreOrders[id]
  BY <1>2
<1> HIDE DEF order
<1> QED BY <1>2, <1>3, <1>5, <1>7, <1>9, <1>10, PromisedReduce

LEMMA DeleteKept ==
  ASSUME IInv, Decode, coming.msg_type = "DELETE"
  PROVE  Store!Delete(coming)
<1> DEFINE id == coming.order_id
           order == live[id]
<1>1. held = 2 /\ ~failed /\ live' = LiveAfter(coming)
      /\ last_side' = IF order.is_buy THEN "buy" ELSE "sell"
  BY DecodeAnswers
<1>2. StoreOrders = live /\ StoreSide = last_side
  BY <1>1, AllHeld, StoreIsLive DEF AsInExchange
<1>3. id \in DOMAIN live
  BY <1>1, MessageAtHand, FitsLive DEF IInv, TypeOK
<1>4. ~BringsShares(coming)
  BY DEF BringsShares
<1>5. StoreSide' = last_side' /\ StoreOrders' = T!Drop(StoreOrders, id)
  BY <1>1, <1>2, <1>4, HeldAfter, AfterDelete
<1>6. /\ Lookup(Dec(coming)).is_buy = order.is_buy
      /\ Lookup(Dec(coming)).shares = order.shares
      /\ Lookup(Dec(coming)).price = order.price
  BY <1>1, LookupOld
<1>7. answer' = Answer("ok", [msg_type |-> coming.msg_type, is_buy |-> order.is_buy,
                              shares |-> order.shares, price |-> order.price])
  BY <1>4, <1>6, DecodeAnswers DEF AnswerOf
<1>8. order = StoreOrders[id]
  BY <1>2
<1> HIDE DEF order
<1> QED BY <1>1, <1>2, <1>3, <1>5, <1>7, <1>8, PromisedDelete

LEMMA DecodeKept ==
  ASSUME IInv, Decode
  PROVE  Store!StoreNext
<1>1. coming \in Store!BookMsg
  <2>1. coming \in T!BookMsg
    BY MessageAtHand, DecodeAnswers
  <2> QED BY <2>1
          DEF Store!BookMsg, Store!AddOrderMsg, Store!ReduceOrderMsg, Store!DeleteOrderMsg,
              Store!ReplaceOrderMsg,
              T!BookMsg, T!AddOrderMsg, T!ReduceOrderMsg, T!DeleteOrderMsg, T!ReplaceOrderMsg
<1>2. coming.msg_type \in {"ADD", "REDUCE", "DELETE", "REPLACE"}
  BY MessageAtHand, DecodeAnswers, NoMsgIsNone
<1>3. CASE BringsShares(coming)
  BY <1>1, <1>3, NewKept, Zenon DEF Store!StoreNext, StoreOrders, StoreSide
<1>4. CASE coming.msg_type = "REDUCE"
  BY <1>1, <1>4, ReduceKept, Zenon DEF Store!StoreNext
<1>5. CASE coming.msg_type = "DELETE"
  BY <1>1, <1>5, DeleteKept, Zenon DEF Store!StoreNext
<1> QED BY <1>2, <1>3, <1>4, <1>5 DEF BringsShares

(* Clocks without a message change nothing that the store shows. *)
LEMMA QuietKept ==
  ASSUME IInv, IInv', NEW hash \in Addrs, Clock(hash, NoDec), UNCHANGED <<live, last_side, answer>>
  PROVE  UNCHANGED Store!store_vars
<1>1. AsInExchange /\ AsInExchange'
  BY StoreIsLive, StoreStaysLive
<1>2. Held' = Held
  <2>1. CASE rst_done
    <3>1. ResetStep /\ CamWritten' = CamWritten
      BY QuietClock DEF IInv
    <3>2. ~rst_in_progress_q'
      BY <2>1, <3>1, StaysReady DEF IInv
    <3>3. Written' = Written
      BY <2>1, <3>2, QuietReady DEF IInv
    <3> QED BY <3>1, <3>3 DEF Held, HeldInRam, HeldInCam
  <2>2. CASE ~rst_done
    BY <2>2 DEF IInv, ResetClears, rst_done, Held
  <2> QED BY <2>1, <2>2
<1>3. StoreOrders' = StoreOrders /\ StoreSide' = StoreSide
  BY <1>1, <1>2 DEF AsInExchange
<1> QED BY <1>3 DEF Store!store_vars, StoreOrders, StoreSide

LEMMA StutterKept ==
  ASSUME IInv, IInv', UNCHANGED vars
  PROVE  UNCHANGED Store!store_vars
<1>1. AsInExchange /\ AsInExchange'
  BY StoreIsLive, StoreStaysLive
<1>2. /\ UNCHANGED <<mem, write_q, rst_in_progress_q, count_q>>
      /\ UNCHANGED <<mem_arr_q, l3_cam_w_en_q, l3_cam_d_in_q>>
      /\ UNCHANGED <<live, last_side, answer>>
  BY DEF vars, rtl_vars, ram_vars, cam_vars, env_vars
<1>3. Written' = Written /\ CamWritten' = CamWritten
  BY <1>2 DEF Written, wea, addra, dina, CamWritten, SameSlots, EmptySlots
<1>4. Held' = Held
  BY <1>2, <1>3 DEF Held, HeldInRam, HeldInCam
<1>5. StoreOrders' = StoreOrders /\ StoreSide' = StoreSide
  BY <1>1, <1>2, <1>4 DEF AsInExchange
<1> QED BY <1>2, <1>5 DEF Store!store_vars, StoreOrders, StoreSide

LEMMA InitKept ==
  ASSUME Init
  PROVE  Store!StoreInit
<1>1. live = T!EmptyDict /\ last_side = "none" /\ answer = Answer("none", NoMsg)
  BY DEF Init
<1>2. Held = {}
  BY <1>1 DEF Held, T!EmptyDict
<1>3. StoreOrders = Store!EmptyDict
  BY <1>2 DEF StoreOrders, Store!EmptyDict
<1> QED BY <1>1, <1>3 DEF Store!StoreInit, StoreOrders, Store!Answer, Answer, Store!NoLookup, NoMsg

LEMMA NextKept ==
  ASSUME IInv, IInv', [Next]_vars
  PROVE  [Store!StoreNext]_(Store!store_vars)
<1>1. ASSUME Idle PROVE UNCHANGED Store!store_vars
  <2>1. PICK hash \in Addrs : Clock(hash, NoDec)
    BY <1>1 DEF Idle
  <2>2. UNCHANGED <<live, last_side, answer>>
    BY <1>1 DEF Idle
  <2> QED BY <2>1, <2>2, QuietKept
<1>2. ASSUME NEW msg \in T!BookMsg, Announce(msg) PROVE UNCHANGED Store!store_vars
  <2>1. oid_hash(msg.order_id) \in Addrs
    BY NoMsgIsNone, IdsAreNat
  <2>2. Clock(oid_hash(msg.order_id), NoDec) /\ UNCHANGED <<live, last_side, answer>>
    BY <1>2 DEF Announce
  <2> QED BY <2>1, <2>2, QuietKept
<1>3. ASSUME Hold PROVE UNCHANGED Store!store_vars
  <2>1. coming \in T!BookMsg
    BY <1>3 DEF Hold, IInv, FeedOK
  <2>2. oid_hash(coming.order_id) \in Addrs
    BY <2>1, NoMsgIsNone, IdsAreNat
  <2>3. Clock(oid_hash(coming.order_id), NoDec) /\ UNCHANGED <<live, last_side, answer>>
    BY <1>3 DEF Hold
  <2> QED BY <2>2, <2>3, QuietKept
<1>4. CASE Decode
  BY <1>4, DecodeKept
<1>5. CASE UNCHANGED vars
  BY <1>5, StutterKept
<1> QED BY <1>1, <1>2, <1>3, <1>4, <1>5 DEF Next

(* Two memories, a bypass, a reset and a pipeline are one dictionary:      *)
(* every message is answered at its own clock, as a plain                  *)
(* dictionary answers it, whatever address is shown in between and         *)
(* however many clocks lie between two messages; a new order may find no   *)
(* slot, and then nothing changes.                                         *)
THEOREM TableIsStore == Spec => ImplementsStore
<1>1. Init => Store!StoreInit
  BY InitKept
<1>2. IInv /\ IInv' /\ [Next]_vars => [Store!StoreNext]_(Store!store_vars)
  BY NextKept
<1> QED BY <1>1, <1>2, InvHolds, PTL DEF Spec, ImplementsStore, Store!StoreSpec
=============================================================================
