---------------------------- MODULE RtlTopProofs ----------------------------
(***************************************************************************)
(* Proofs about the hardware behind the packet parser, beside the          *)
(* reference model: for every set of packets, however their messages lie   *)
(* in the words and wherever a word is late.                               *)
(***************************************************************************)
EXTENDS RtlTopFeed, FiniteSetTheorems, SequenceTheorems, TLAPS

----------------------------------------------------------------------------
(* Packets. *)

Wired(p) ==
  /\ Len(p) \in Nat /\ DOMAIN p = 1 .. Len(p)
  /\ \A i \in 1 .. Len(p) : /\ p[i].len \in 4 .. 254 /\ p[i].valid_code \in BOOLEAN
                            /\ p[i].body \in ITCHMsg /\ p[i].body.kind = KindOf(p[i].type)

LEMMA PacketsWired ==
  ASSUME NEW p, p \in Packets \cup OpenPackets \/ p = <<>>
  PROVE  Wired(p)
<1>1. CASE p = <<>>
  BY <1>1 DEF Wired
<1>2. CASE p \in Packets \cup OpenPackets
  <2>1. p \in Seq(WireMsg) /\ \A i \in DOMAIN p : p[i].body.kind = KindOf(p[i].type)
    BY <1>2, RtlTopAssumption
  <2>2. Len(p) \in Nat /\ DOMAIN p = 1 .. Len(p) /\ \A i \in 1 .. Len(p) : p[i] \in WireMsg
    BY <2>1
  <2>3. ASSUME NEW i \in 1 .. Len(p)
        PROVE  p[i].len \in 4 .. 254 /\ p[i].valid_code \in BOOLEAN /\ p[i].body \in ITCHMsg
    <3>1. p[i] \in WireMsg
      BY <2>2
    <3> QED BY ONLY <3>1 DEF WireMsg
  <2> QED BY <2>1, <2>2, <2>3 DEF Wired
<1> QED BY <1>1, <1>2

LEMMA MsgFacts ==
  ASSUME NEW p, Wired(p), NEW i \in 1 .. Len(p)
  PROVE  /\ Len(p) \in Nat /\ i \in Nat \ {0} /\ DOMAIN p = 1 .. Len(p)
         /\ p[i].len \in 4 .. 254 /\ p[i].len \in Nat /\ p[i].valid_code \in BOOLEAN
         /\ p[i].body \in ITCHMsg /\ p[i].body.kind = KindOf(p[i].type)
<1>1. Len(p) \in Nat /\ DOMAIN p = 1 .. Len(p)
  BY DEF Wired
<1>2. /\ p[i].len \in 4 .. 254 /\ p[i].valid_code \in BOOLEAN
      /\ p[i].body \in ITCHMsg /\ p[i].body.kind = KindOf(p[i].type)
  BY DEF Wired
<1>3. \A x \in 4 .. 254 : x \in Nat
  OBVIOUS
<1>4. \A n \in Nat : \A x \in 1 .. n : x \in Nat \ {0}
  OBVIOUS
<1> QED BY <1>1, <1>2, <1>3, <1>4

----------------------------------------------------------------------------
(* Where messages and their bytes lie in a packet.                         *)

LEMMA UpTo ==
  ASSUME NEW n \in Nat
  PROVE  IsFiniteSet(0 .. n) /\ Cardinality(0 .. n) = n + 1
<1>1. 0 \in Int /\ n \in Int /\ ~(0 > n) /\ n - 0 + 1 = n + 1
  OBVIOUS
<1> QED BY <1>1, FS_Interval

LEMMA InBytes ==
  ASSUME NEW p, NEW i, NEW b
  PROVE  b \in BytesBefore(p, i) <=> \E k \in 1 .. i - 1 : b \in {k} \X (0 .. p[k].len + 1)
<1> DEFINE K == 1 .. i - 1
           C(k) == {k} \X (0 .. p[k].len + 1)
<1>1. BytesBefore(p, i) = UNION {C(k) : k \in K}
  BY Zenon DEF BytesBefore
<1> HIDE DEF K, C
<1>2. b \in UNION {C(k) : k \in K} <=> \E k \in K : b \in C(k)
  OBVIOUS
<1> QED BY <1>1, <1>2, Zenon DEF K, C

LEMMA BytesFinite ==
  ASSUME NEW p, Wired(p), NEW i \in 1 .. Len(p) + 1
  PROVE  IsFiniteSet(BytesBefore(p, i)) /\ Start(p, i) \in Nat
<1> DEFINE n == Len(p)
<1>0. n \in Nat
  BY DEF Wired
<1>1. BytesBefore(p, i) \subseteq (0 .. n) \X (0 .. 255)
  <2> SUFFICES ASSUME NEW b \in BytesBefore(p, i)
               PROVE  b \in (0 .. n) \X (0 .. 255)
    BY Zenon
  <2>0. PICK k \in 1 .. i - 1 : b \in {k} \X (0 .. p[k].len + 1)
    BY InBytes, Zenon
  <2>1. k \in 1 .. n /\ k \in 0 .. n
    BY <1>0
  <2> DEFINE l == p[k].len
  <2>2. l \in 4 .. 254
    BY <2>1, MsgFacts
  <2> HIDE DEF n, l
  <2>3. \A x \in 0 .. l + 1 : x \in 0 .. 255
    BY ONLY <2>2
  <2>4. b \in {k} \X (0 .. l + 1)
    BY <2>0, Zenon DEF l
  <2>5. {k} \subseteq 0 .. n /\ 0 .. l + 1 \subseteq 0 .. 255
    BY <2>1, <2>3, Zenon
  <2> QED BY <2>4, <2>5
<1>2. IsFiniteSet(0 .. n) /\ IsFiniteSet(0 .. 255)
  <2> HIDE DEF n
  <2>1. IsFiniteSet(0 .. n)
    BY <1>0, UpTo
  <2>2. 255 \in Nat
    OBVIOUS
  <2>3. IsFiniteSet(0 .. 255)
    BY ONLY <2>2, UpTo
  <2> QED BY <2>1, <2>3
<1>3. IsFiniteSet((0 .. n) \X (0 .. 255))
  BY <1>2, FS_Product
<1>4. IsFiniteSet(BytesBefore(p, i))
  BY <1>1, <1>3, FS_Subset
<1> QED BY <1>4, FS_CardinalityType DEF Start

LEMMA StartFirst ==
  ASSUME NEW p
  PROVE  Start(p, 1) = 0
<1>1. BytesBefore(p, 1) = {}
  BY DEF BytesBefore
<1> QED BY <1>1, FS_EmptySet DEF Start

LEMMA StartNext ==
  ASSUME NEW p, Wired(p), NEW i \in 1 .. Len(p)
  PROVE  Start(p, i + 1) = Start(p, i) + p[i].len + 2
<1> DEFINE B == BytesBefore(p, i)
           n == p[i].len + 1
           C == {i} \X (0 .. n)
<1>0. Len(p) \in Nat /\ i \in Nat \ {0} /\ p[i].len \in Nat
  BY MsgFacts
<1>1. n \in Nat /\ n = p[i].len + 1
  BY <1>0
<1>2. BytesBefore(p, i + 1) = B \cup C
  <2>1. 1 .. (i + 1) - 1 = (1 .. i - 1) \cup {i}
    BY ONLY <1>0
  <2> QED BY <2>1 DEF BytesBefore
<1>3. B \cap C = {}
  <2> SUFFICES ASSUME NEW b, b \in B, b \in C
               PROVE  FALSE
    BY Zenon
  <2>0. PICK k \in 1 .. i - 1 : b \in {k} \X (0 .. p[k].len + 1)
    BY InBytes, Zenon
  <2>1. b[1] = k /\ b[1] = i
    BY <2>0
  <2> QED BY ONLY <1>0, <2>1
<1>4. IsFiniteSet(B)
  <2>1. i \in 1 .. Len(p) + 1
    BY ONLY <1>0
  <2> QED BY <2>1, BytesFinite
<1> HIDE DEF n
<1>5. IsFiniteSet(C) /\ Cardinality(C) = 1 * (n + 1)
  <2>1. IsFiniteSet({i}) /\ Cardinality({i}) = 1
    BY FS_Singleton
  <2>2. IsFiniteSet(0 .. n) /\ Cardinality(0 .. n) = n + 1
    BY <1>1, UpTo
  <2>3. Cardinality({i} \X (0 .. n)) = Cardinality({i}) * Cardinality(0 .. n)
        /\ IsFiniteSet({i} \X (0 .. n))
    BY ONLY <2>1, <2>2, FS_Product
  <2> QED BY <2>1, <2>2, <2>3, Zenon DEF C
<1> HIDE DEF B, C
<1>6. Cardinality(B \cup C) = Cardinality(B) + Cardinality(C) - 0
  <2>1. IsFiniteSet(C)
    BY <1>5, Zenon
  <2>2. Cardinality(B \cup C) = Cardinality(B) + Cardinality(C) - Cardinality(B \cap C)
    BY ONLY <1>4, <2>1, FS_Union, Zenon
  <2>3. Cardinality(B \cap C) = 0
    BY ONLY <1>3, FS_EmptySet, Zenon
  <2> QED BY <2>2, <2>3, Zenon
<1>7. Cardinality(B) \in Nat
  BY <1>4, FS_CardinalityType
<1>8. Start(p, i + 1) = Cardinality(B \cup C) /\ Start(p, i) = Cardinality(B)
  BY <1>2 DEF Start, B
<1> DEFINE l == p[i].len
<1>9. l \in Nat /\ n = l + 1
  BY <1>0, <1>1
<1> HIDE DEF l
<1>10. Start(p, i + 1) = Start(p, i) + l + 2
  BY ONLY <1>5, <1>6, <1>7, <1>8, <1>9
<1> QED BY <1>10 DEF l

LEMMA StartMonotone ==
  ASSUME NEW p, Wired(p), NEW j \in 1 .. Len(p) + 1, NEW i \in 1 .. j
  PROVE  Start(p, i) <= Start(p, j)
<1>1. Len(p) \in Nat
  BY DEF Wired
<1>2. BytesBefore(p, i) \subseteq BytesBefore(p, j)
  <2>1. 1 .. i - 1 \subseteq 1 .. j - 1
    BY ONLY <1>1
  <2> QED BY <2>1 DEF BytesBefore
<1>3. IsFiniteSet(BytesBefore(p, j))
  BY BytesFinite
<1> QED BY <1>2, <1>3, FS_Subset DEF Start

(* What byte a place of the payload holds. *)
LEMMA ByteOf ==
  ASSUME NEW p, Wired(p), NEW i \in 1 .. Len(p), NEW b \in 0 .. p[i].len + 1,
         NEW pos, pos = Start(p, i) + b
  PROVE  ByteAt(p, pos) = <<i, b>>
<1> DEFINE At(k) == Start(p, k) <= pos /\ pos < Start(p, k + 1)
           n == Len(p)
           l == p[i].len
<1>0. n \in Nat /\ i \in 1 .. n /\ l \in Nat /\ DOMAIN p = 1 .. n
  BY MsgFacts
<1>1. /\ \A k \in 1 .. n + 1 : Start(p, k) \in Nat
      /\ \A j \in 1 .. n + 1 : \A k \in 1 .. j : Start(p, k) <= Start(p, j)
  BY BytesFinite, StartMonotone
<1>2. Start(p, i + 1) = Start(p, i) + l + 2
  BY StartNext
<1>3. b \in 0 .. l + 1
  OBVIOUS
<1> HIDE DEF n, l
<1>4. Start(p, i) \in Nat
  BY ONLY <1>0, <1>1
<1>5. At(i) /\ b = pos - Start(p, i)
  BY <1>2, <1>3, <1>4, <1>0
<1>6. ASSUME NEW k \in 1 .. n, At(k) PROVE k = i
  <2>1. Start(p, k) \in Nat /\ Start(p, k + 1) \in Nat
    BY ONLY <1>0, <1>1
  <2>2. k < i => Start(p, k + 1) <= Start(p, i)
    BY ONLY <1>0, <1>1
  <2>3. i < k => Start(p, i + 1) <= Start(p, k)
    BY ONLY <1>0, <1>1
  <2>4. pos \in Int /\ i \in Int /\ k \in Int /\ Start(p, i + 1) \in Int
    BY <1>0, <1>2, <1>3, <1>4
  <2>5. /\ Start(p, k) <= pos /\ pos < Start(p, k + 1)
        /\ Start(p, i) <= pos /\ pos < Start(p, i + 1)
    BY <1>5, <1>6, Zenon DEF At
  <2> QED BY ONLY <1>4, <2>1, <2>2, <2>3, <2>4, <2>5
<1>7. {k \in DOMAIN p : At(k)} = {i}
  BY <1>0, <1>5, <1>6
<1> QED BY <1>5, <1>7 DEF ByteAt

LEMMA PayloadFacts ==
  ASSUME NEW p, Wired(p)
  PROVE  /\ Payload(p) \in Nat /\ WordsOf(p) \in Nat
         /\ Payload(p) = Start(p, Len(p) + 1)
         /\ Payload(p) <= 4 * WordsOf(p) /\ 4 * WordsOf(p) < Payload(p) + 4
<1>0. Len(p) \in Nat
  BY DEF Wired
<1>1. Start(p, Len(p) + 1) \in Nat
  BY <1>0, BytesFinite
<1> QED BY <1>1 DEF Payload, WordsOf

----------------------------------------------------------------------------
(* The word of a message that is in hand: the header of message i has been *)
(* read, and bytes of it are left.                                         *)

Good(msg) == msg.type \in DOMAIN msg_len /\ msg.len = msg_len[msg.type]

End(i) == Start(pkt, i + 1)

InMsg(i) ==
  /\ Wired(pkt) /\ at \in Nat
  /\ i \in 1 .. Len(pkt) /\ Good(pkt[i])
  /\ Start(pkt, i) + 4 <= 4 * at /\ 4 * at < End(i)
  /\ state_q = StateOf(pkt[i].type)
  /\ bytes_left_q = End(i) - 4 * at
  /\ msg_alt_q = (pkt[i].type \in {"F", "X"})

LEMMA InMsgFacts ==
  ASSUME NEW i, InMsg(i)
  PROVE  /\ Start(pkt, i) \in Nat /\ End(i) \in Nat /\ at \in Nat
         /\ pkt[i].len \in 12 .. 50 /\ End(i) = Start(pkt, i) + pkt[i].len + 2
         /\ bytes_left_q \in 1 .. 48 /\ words_left \in 1 .. 12
         /\ 4 * words_left >= bytes_left_q /\ bytes_left_q > 4 * words_left - 4
         /\ Shift = bytes_left_q - 4 * words_left + 4
<1> DEFINE s == Start(pkt, i)
           l == pkt[i].len
           e == End(i)
<1>1. i \in 1 .. Len(pkt) /\ Wired(pkt) /\ at \in Nat
  BY DEF InMsg
<1>2. e = s + l + 2
  BY <1>1, StartNext DEF End
<1>3. s \in Nat
  <2>1. i \in 1 .. Len(pkt) + 1
    BY <1>1 DEF Wired
  <2> QED BY <1>1, <2>1, BytesFinite
<1>4. l \in 12 .. 50
  <2>1. pkt[i].type \in DOMAIN msg_len /\ l = msg_len[pkt[i].type]
    BY DEF InMsg, Good
  <2>2. \A t \in DOMAIN msg_len : msg_len[t] \in 12 .. 50
    BY DEF msg_len
  <2> QED BY <2>1, <2>2
<1>5. bytes_left_q = e - 4 * at /\ s + 4 <= 4 * at /\ 4 * at < e
  BY DEF InMsg
<1> HIDE DEF s, l, e
<1>6. e \in Nat /\ bytes_left_q \in 1 .. 48
  BY ONLY <1>1, <1>2, <1>3, <1>4, <1>5
<1>7. /\ words_left \in 1 .. 12
      /\ 4 * words_left >= bytes_left_q /\ bytes_left_q > 4 * words_left - 4
  BY ONLY <1>6 DEF words_left
<1>8. Shift = bytes_left_q - 4 * words_left + 4
  BY ONLY <1>6 DEF Shift, words_left
<1> QED BY <1>1, <1>2, <1>3, <1>4, <1>6, <1>7, <1>8 DEF s, l, e

(* A byte of the line is a byte of the message, its place counted from the *)
(* words left, however the message lies in the words.                      *)
LEMMA LineAt ==
  ASSUME NEW i, InMsg(i), NEW place \in Nat, NEW b \in Nat, b <= pkt[i].len + 1,
         b + 4 * words_left + place = pkt[i].len + 9
  PROVE  line_shifted(pkt, at, place) = <<i, b>>
<1> DEFINE s == Start(pkt, i)
           l == pkt[i].len
           e == End(i)
           pos == 4 * at + 3 - place + Shift
<1>1. /\ s \in Nat /\ at \in Nat /\ l \in 12 .. 50 /\ e = s + l + 2
      /\ bytes_left_q \in 1 .. 48 /\ words_left \in 1 .. 12
      /\ Shift = bytes_left_q - 4 * words_left + 4
  BY InMsgFacts
<1>2. bytes_left_q = e - 4 * at /\ Wired(pkt) /\ i \in 1 .. Len(pkt)
  BY DEF InMsg
<1>3. b <= l + 1 /\ b + 4 * words_left + place = l + 9
  OBVIOUS
<1> HIDE DEF s, l, e
<1>4. pos = s + b /\ b \in 0 .. l + 1
  BY ONLY <1>1, <1>2, <1>3, place \in Nat, b \in Nat
<1> HIDE DEF pos
<1>5. ByteAt(pkt, pos) = <<i, b>>
  BY <1>2, <1>4, ByteOf DEF s, l
<1> QED BY <1>5 DEF line_shifted, pos

----------------------------------------------------------------------------
(* What each type of message does in which of its words.                   *)

(* No word of a message of this type. *)
NoOrderWords == LocateWord = 0 /\ BookWord = 0 /\ IdWords = {} /\ DelWord = 0

LEMMA TypeA ==
  ASSUME NEW i, InMsg(i), pkt[i].type = "A"
  PROVE  /\ state_q = "ADD" /\ pkt[i].len = 36
         /\ LocateWord = 2 /\ BookWord = 1 /\ IdWords = {2} /\ DelWord = 0 /\ CtrlWord = 0
         /\ LocatePlace = 34 /\ IdPlace = 24 /\ BookPlaces = <<20, 19, 7>> /\ BookType = "ADD"
<1>1. state_q = "ADD" /\ pkt[i].len = 36 /\ ~msg_alt_q
  <2>1. state_q = "ADD" /\ pkt[i].len = 36
    BY DEF InMsg, Good, msg_len, StateOf, After
  <2>2. ~msg_alt_q
    BY DEF InMsg
  <2> QED BY <2>1, <2>2
<1>2. Late = 0 /\ LocateWord = 2 + Late /\ BookWord = 1 + Late
  BY <1>1 DEF Late, LocateWord, BookWord
<1>3. LocateWord = 2 /\ BookWord = 1
  BY <1>2
<1>4. IdWords = {LocateWord} /\ DelWord = 0 /\ CtrlWord = 0
  BY <1>1 DEF IdWords, DelWord, CtrlWord
<1>5. LocatePlace = 34 /\ BookPlaces = <<20, 19, 7>> /\ BookType = "ADD"
  BY <1>1 DEF LocatePlace, BookPlaces, BookType
<1>6. IdPlace = 24
  BY <1>1 DEF IdPlace
<1> QED BY <1>1, <1>3, <1>4, <1>5, <1>6

LEMMA TypeF ==
  ASSUME NEW i, InMsg(i), pkt[i].type = "F"
  PROVE  /\ state_q = "ADD" /\ pkt[i].len = 40
         /\ LocateWord = 3 /\ BookWord = 2 /\ IdWords = {3} /\ DelWord = 0 /\ CtrlWord = 0
         /\ LocatePlace = 34 /\ IdPlace = 24 /\ BookPlaces = <<20, 19, 7>> /\ BookType = "ADD"
<1>1. state_q = "ADD" /\ pkt[i].len = 40 /\ msg_alt_q
  <2>1. state_q = "ADD" /\ pkt[i].len = 40
    BY DEF InMsg, Good, msg_len, StateOf, After
  <2>2. msg_alt_q
    BY DEF InMsg
  <2> QED BY <2>1, <2>2
<1>2. Late = 1 /\ LocateWord = 2 + Late /\ BookWord = 1 + Late
  BY <1>1 DEF Late, LocateWord, BookWord
<1>3. LocateWord = 3 /\ BookWord = 2
  BY <1>2
<1>4. IdWords = {LocateWord} /\ DelWord = 0 /\ CtrlWord = 0
  BY <1>1 DEF IdWords, DelWord, CtrlWord
<1>5. LocatePlace = 34 /\ BookPlaces = <<20, 19, 7>> /\ BookType = "ADD"
  BY <1>1 DEF LocatePlace, BookPlaces, BookType
<1>6. IdPlace = 24
  BY <1>1 DEF IdPlace
<1> QED BY <1>1, <1>3, <1>4, <1>5, <1>6

LEMMA TypeE ==
  ASSUME NEW i, InMsg(i), pkt[i].type = "E"
  PROVE  /\ state_q = "EXECUTE" /\ pkt[i].len = 31
         /\ LocateWord = 4 /\ BookWord = 3 /\ IdWords = {4} /\ DelWord = 0 /\ CtrlWord = 0
         /\ LocatePlace = 21 /\ IdPlace = 11 /\ BookPlaces = <<7>> /\ BookType = "REDUCE"
<1>1. state_q = "EXECUTE" /\ pkt[i].len = 31 /\ ~msg_alt_q
  <2>1. state_q = "EXECUTE" /\ pkt[i].len = 31
    BY DEF InMsg, Good, msg_len, StateOf, After
  <2>2. ~msg_alt_q
    BY DEF InMsg
  <2> QED BY <2>1, <2>2
<1>2. Late = 0 /\ LocateWord = 4 - 2 * Late /\ BookWord = 3 - 2 * Late
  BY <1>1 DEF Late, LocateWord, BookWord
<1>3. LocateWord = 4 /\ BookWord = 3
  BY <1>2
<1>4. IdWords = {LocateWord} /\ DelWord = 0 /\ CtrlWord = 0
  BY <1>1 DEF IdWords, DelWord, CtrlWord
<1>5. LocatePlace = 21 /\ BookPlaces = <<7>> /\ BookType = "REDUCE"
  BY <1>1 DEF LocatePlace, BookPlaces, BookType
<1>6. IdPlace = 11
  BY <1>1 DEF IdPlace
<1> QED BY <1>1, <1>3, <1>4, <1>5, <1>6

LEMMA TypeX ==
  ASSUME NEW i, InMsg(i), pkt[i].type = "X"
  PROVE  /\ state_q = "EXECUTE" /\ pkt[i].len = 23
         /\ LocateWord = 2 /\ BookWord = 1 /\ IdWords = {2} /\ DelWord = 0 /\ CtrlWord = 0
         /\ LocatePlace = 21 /\ IdPlace = 11 /\ BookPlaces = <<7>> /\ BookType = "REDUCE"
<1>1. state_q = "EXECUTE" /\ pkt[i].len = 23 /\ msg_alt_q
  <2>1. state_q = "EXECUTE" /\ pkt[i].len = 23
    BY DEF InMsg, Good, msg_len, StateOf, After
  <2>2. msg_alt_q
    BY DEF InMsg
  <2> QED BY <2>1, <2>2
<1>2. Late = 1 /\ LocateWord = 4 - 2 * Late /\ BookWord = 3 - 2 * Late
  BY <1>1 DEF Late, LocateWord, BookWord
<1>3. LocateWord = 2 /\ BookWord = 1
  BY <1>2
<1>4. IdWords = {LocateWord} /\ DelWord = 0 /\ CtrlWord = 0
  BY <1>1 DEF IdWords, DelWord, CtrlWord
<1>5. LocatePlace = 21 /\ BookPlaces = <<7>> /\ BookType = "REDUCE"
  BY <1>1 DEF LocatePlace, BookPlaces, BookType
<1>6. IdPlace = 11
  BY <1>1 DEF IdPlace
<1> QED BY <1>1, <1>3, <1>4, <1>5, <1>6

LEMMA TypeC ==
  ASSUME NEW i, InMsg(i), pkt[i].type = "C"
  PROVE  /\ state_q = "EXECUTE_P" /\ pkt[i].len = 36
         /\ LocateWord = 5 /\ BookWord = 4 /\ IdWords = {5} /\ DelWord = 0 /\ CtrlWord = 0
         /\ LocatePlace = 22 /\ IdPlace = 12 /\ BookPlaces = <<8>> /\ BookType = "REDUCE"
<1>1. state_q = "EXECUTE_P" /\ pkt[i].len = 36
  BY DEF InMsg, Good, msg_len, StateOf, After
<1>2. LocateWord = 5 /\ BookWord = 4
  BY <1>1 DEF LocateWord, BookWord
<1>3. IdWords = {LocateWord} /\ DelWord = 0 /\ CtrlWord = 0
  BY <1>1 DEF IdWords, DelWord, CtrlWord
<1>4. LocatePlace = 22 /\ IdPlace = 12 /\ BookPlaces = <<8>> /\ BookType = "REDUCE"
  BY <1>1 DEF LocatePlace, IdPlace, BookPlaces, BookType
<1> QED BY <1>1, <1>2, <1>3, <1>4

LEMMA TypeD ==
  ASSUME NEW i, InMsg(i), pkt[i].type = "D"
  PROVE  /\ state_q = "DELETE" /\ pkt[i].len = 19
         /\ LocateWord = 2 /\ BookWord = 0 /\ IdWords = {1} /\ DelWord = 1 /\ CtrlWord = 0
         /\ LocatePlace = 17 /\ IdPlace = 11
<1>1. state_q = "DELETE" /\ pkt[i].len = 19
  BY DEF InMsg, Good, msg_len, StateOf, After
<1>2. LocateWord = 2 /\ BookWord = 0 /\ IdWords = {1} /\ DelWord = 1 /\ CtrlWord = 0
  BY <1>1 DEF LocateWord, BookWord, IdWords, DelWord, CtrlWord
<1>3. LocatePlace = 17 /\ IdPlace = 11
  BY <1>1 DEF LocatePlace, IdPlace
<1> QED BY <1>1, <1>2, <1>3

LEMMA TypeU ==
  ASSUME NEW i, InMsg(i), pkt[i].type = "U"
  PROVE  /\ state_q = "REPLACE" /\ pkt[i].len = 35
         /\ LocateWord = 6 /\ BookWord = 1 /\ IdWords = {5, 2} /\ DelWord = 5 /\ CtrlWord = 0
         /\ LocatePlace = 17 /\ IdPlace = (IF words_left = 2 THEN 15 ELSE 11)
         /\ BookPlaces = <<11, 7>> /\ BookType = "REPLACE"
<1>1. state_q = "REPLACE" /\ pkt[i].len = 35
  BY DEF InMsg, Good, msg_len, StateOf, After
<1>2. LocateWord = 6 /\ BookWord = 1 /\ IdWords = {5, 2} /\ DelWord = 5 /\ CtrlWord = 0
  BY <1>1 DEF LocateWord, BookWord, IdWords, DelWord, CtrlWord
<1>3. LocatePlace = 17 /\ BookPlaces = <<11, 7>> /\ BookType = "REPLACE"
  BY <1>1 DEF LocatePlace, BookPlaces, BookType
<1>4. IdPlace = (IF words_left = 2 THEN 15 ELSE 11)
  BY <1>1 DEF IdPlace
<1> QED BY <1>1, <1>2, <1>3, <1>4

LEMMA ControlTypes ==
  ASSUME NEW i, InMsg(i), pkt[i].type \in {"S", "R", "H", "h"}
  PROVE  /\ NoOrderWords
         /\ pkt[i].type = "S" => /\ state_q = "SYS_EVENT" /\ pkt[i].len = 12
                                 /\ CtrlWord = 1 /\ CtrlPlaces = <<4>>
         /\ pkt[i].type = "R" => /\ state_q = "DIRECTORY" /\ pkt[i].len = 39
                                 /\ CtrlWord = 6 /\ CtrlPlaces = <<21, 11>>
         /\ pkt[i].type = "H" => /\ state_q = "TRADING_ACTION" /\ pkt[i].len = 25
                                 /\ CtrlWord = 2 /\ CtrlPlaces = <<23, 13, 5>>
         /\ pkt[i].type = "h" => /\ state_q = "OP_HALT" /\ pkt[i].len = 21
                                 /\ CtrlWord = 1 /\ CtrlPlaces = <<23, 13, 5, 4>>
<1>1. /\ pkt[i].type = "S" => state_q = "SYS_EVENT" /\ pkt[i].len = 12
      /\ pkt[i].type = "R" => state_q = "DIRECTORY" /\ pkt[i].len = 39
      /\ pkt[i].type = "H" => state_q = "TRADING_ACTION" /\ pkt[i].len = 25
      /\ pkt[i].type = "h" => state_q = "OP_HALT" /\ pkt[i].len = 21
  <2>1. state_q = StateOf(pkt[i].type) /\ pkt[i].len = msg_len[pkt[i].type]
    BY Zenon DEF InMsg, Good
  <2>2. /\ StateOf("S") = "SYS_EVENT" /\ StateOf("R") = "DIRECTORY"
        /\ StateOf("H") = "TRADING_ACTION" /\ StateOf("h") = "OP_HALT"
    BY DEF StateOf, After
  <2>3. msg_len["S"] = 12 /\ msg_len["R"] = 39 /\ msg_len["H"] = 25 /\ msg_len["h"] = 21
    BY DEF msg_len
  <2> QED BY ONLY <2>1, <2>2, <2>3
<1>2. /\ state_q = "SYS_EVENT" => CtrlWord = 1 /\ CtrlPlaces = <<4>>
      /\ state_q = "DIRECTORY" => CtrlWord = 6 /\ CtrlPlaces = <<21, 11>>
      /\ state_q = "TRADING_ACTION" => CtrlWord = 2 /\ CtrlPlaces = <<23, 13, 5>>
      /\ state_q = "OP_HALT" => CtrlWord = 1 /\ CtrlPlaces = <<23, 13, 5, 4>>
  BY DEF CtrlWord, CtrlPlaces
<1>3. state_q \in {"SYS_EVENT", "DIRECTORY", "TRADING_ACTION", "OP_HALT"} => NoOrderWords
  BY DEF NoOrderWords, LocateWord, BookWord, IdWords, DelWord
<1> QED BY <1>1, <1>2, <1>3

LEMMA IgnoredTypes ==
  ASSUME NEW i, InMsg(i), pkt[i].type \notin Orders \cup {"S", "R", "H", "h"}
  PROVE  state_q = "IGNORE" /\ NoOrderWords /\ CtrlWord = 0
<1>1. state_q = "IGNORE"
  BY DEF InMsg, Good, StateOf, After, Orders
<1> QED BY <1>1 DEF NoOrderWords, LocateWord, BookWord, IdWords, DelWord, CtrlWord

(* The words left when the locate is compared, when the message is passed  *)
(* on, and when its first half is.                                         *)
LocateAt == [A |-> 2, F |-> 3, E |-> 4, X |-> 2, C |-> 5, D |-> 2, U |-> 6]
BookAt   == [A |-> 1, F |-> 2, E |-> 3, X |-> 1, C |-> 4, D |-> 0, U |-> 1]
DelAt    == [A |-> 0, F |-> 0, E |-> 0, X |-> 0, C |-> 0, D |-> 1, U |-> 5]

TakesId(type) == IF type = "D" THEN {1} ELSE IF type = "U" THEN {5, 2} ELSE {LocateAt[type]}

(* The fields of a message passed on. *)
FieldsOf(i, msg_type, fields) ==
  LET type == pkt[i].type
  IN  CASE msg_type = "ADD" -> type \in {"A", "F"} /\ fields = << <<i, CODE>>, <<i, HALT>>, <<i, PRICE>> >>
        [] msg_type = "REDUCE" -> type \in {"E", "C", "X"} /\ fields = << <<i, CODE>> >>
        [] msg_type = "REPLACE" -> type = "U" /\ fields = << <<i, NEW_SHARES>>, <<i, NEW_PRICE>> >>

LEMMA Fields1 ==
  ASSUME NEW a PROVE Fields(pkt, at, <<a>>) = <<line_shifted(pkt, at, a)>>
BY DEF Fields

LEMMA Fields2 ==
  ASSUME NEW a, NEW b
  PROVE  Fields(pkt, at, <<a, b>>) = <<line_shifted(pkt, at, a), line_shifted(pkt, at, b)>>
BY DEF Fields

LEMMA Fields3 ==
  ASSUME NEW a, NEW b, NEW c
  PROVE  Fields(pkt, at, <<a, b, c>>) =
           <<line_shifted(pkt, at, a), line_shifted(pkt, at, b), line_shifted(pkt, at, c)>>
BY DEF Fields

LEMMA Fields4 ==
  ASSUME NEW a, NEW b, NEW c, NEW d
  PROVE  Fields(pkt, at, <<a, b, c, d>>) =
           <<line_shifted(pkt, at, a), line_shifted(pkt, at, b),
             line_shifted(pkt, at, c), line_shifted(pkt, at, d)>>
BY DEF Fields

(* What a word of an order message gives the parser.                       *)
Reads(i) ==
  LET type == pkt[i].type
  IN  /\ LocateWord = LocateAt[type] /\ BookWord = BookAt[type] /\ DelWord = DelAt[type]
      /\ IdWords = TakesId(type) /\ CtrlWord = 0
      /\ words_left = LocateAt[type] => line_shifted(pkt, at, LocatePlace) = <<i, LOCATE>>
      /\ words_left \in TakesId(type) =>
           line_shifted(pkt, at, IdPlace) =
             <<i, IF type = "U" /\ words_left = 2 THEN NEW_ID ELSE SYMBOL>>
      /\ words_left = BookAt[type] => FieldsOf(i, BookType, Fields(pkt, at, BookPlaces))

LEMMA ReadsA ==
  ASSUME NEW i, InMsg(i), pkt[i].type = "A"
  PROVE  Reads(i)
<1>0. pkt[i].len = 36
  BY TypeA
<1>1. /\ LocateWord = 2 /\ BookWord = 1 /\ DelWord = 0 /\ CtrlWord = 0
      /\ IdWords = {2}
  BY TypeA
<1>2. /\ LocateAt["A"] = 2 /\ BookAt["A"] = 1 /\ DelAt["A"] = 0
      /\ TakesId("A") = {2}
  BY DEF LocateAt, BookAt, DelAt, TakesId
<1>3. ASSUME words_left = 2 PROVE line_shifted(pkt, at, LocatePlace) = <<i, LOCATE>>
  <2>1. 34 \in Nat /\ 3 \in Nat /\ 3 <= pkt[i].len + 1 /\ 3 + 4 * words_left + 34 = pkt[i].len + 9
    BY <1>0, <1>3
  <2>2. line_shifted(pkt, at, 34) = <<i, 3>>
    BY ONLY <2>1, InMsg(i), LineAt
  <2> QED BY <2>2, TypeA DEF LOCATE
<1>4. ASSUME words_left = 2 PROVE line_shifted(pkt, at, IdPlace) = <<i, SYMBOL>>
  <2>1. 24 \in Nat /\ 13 \in Nat /\ 13 <= pkt[i].len + 1 /\ 13 + 4 * words_left + 24 = pkt[i].len + 9
    BY <1>0, <1>4
  <2>2. line_shifted(pkt, at, 24) = <<i, 13>>
    BY ONLY <2>1, InMsg(i), LineAt
  <2>3. IdPlace = 24
    BY <1>4, TypeA
  <2> QED BY <2>2, <2>3 DEF SYMBOL
<1>5. ASSUME words_left = 1 PROVE FieldsOf(i, BookType, Fields(pkt, at, BookPlaces))
  <2>1. line_shifted(pkt, at, 20) = <<i, 21>>
    <3>1. 20 \in Nat /\ 21 \in Nat /\ 21 <= pkt[i].len + 1 /\ 21 + 4 * words_left + 20 = pkt[i].len + 9
      BY <1>0, <1>5
    <3> QED BY ONLY <3>1, InMsg(i), LineAt
  <2>2. line_shifted(pkt, at, 19) = <<i, 22>>
    <3>1. 19 \in Nat /\ 22 \in Nat /\ 22 <= pkt[i].len + 1 /\ 22 + 4 * words_left + 19 = pkt[i].len + 9
      BY <1>0, <1>5
    <3> QED BY ONLY <3>1, InMsg(i), LineAt
  <2>3. line_shifted(pkt, at, 7) = <<i, 34>>
    <3>1. 7 \in Nat /\ 34 \in Nat /\ 34 <= pkt[i].len + 1 /\ 34 + 4 * words_left + 7 = pkt[i].len + 9
      BY <1>0, <1>5
    <3> QED BY ONLY <3>1, InMsg(i), LineAt
  <2>4. Fields(pkt, at, <<20, 19, 7>>) = << <<i, 21>>, <<i, 22>>, <<i, 34>> >>
    BY <2>1, <2>2, <2>3, Fields3
  <2>5. BookPlaces = <<20, 19, 7>> /\ BookType = "ADD"
    BY TypeA
  <2> QED BY <2>4, <2>5 DEF FieldsOf, CODE, HALT, PRICE, NEW_SHARES, NEW_PRICE
<1> QED BY <1>1, <1>2, <1>3, <1>4, <1>5 DEF Reads

LEMMA ReadsF ==
  ASSUME NEW i, InMsg(i), pkt[i].type = "F"
  PROVE  Reads(i)
<1>0. pkt[i].len = 40
  BY TypeF
<1>1. /\ LocateWord = 3 /\ BookWord = 2 /\ DelWord = 0 /\ CtrlWord = 0
      /\ IdWords = {3}
  BY TypeF
<1>2. /\ LocateAt["F"] = 3 /\ BookAt["F"] = 2 /\ DelAt["F"] = 0
      /\ TakesId("F") = {3}
  BY DEF LocateAt, BookAt, DelAt, TakesId
<1>3. ASSUME words_left = 3 PROVE line_shifted(pkt, at, LocatePlace) = <<i, LOCATE>>
  <2>1. 34 \in Nat /\ 3 \in Nat /\ 3 <= pkt[i].len + 1 /\ 3 + 4 * words_left + 34 = pkt[i].len + 9
    BY <1>0, <1>3
  <2>2. line_shifted(pkt, at, 34) = <<i, 3>>
    BY ONLY <2>1, InMsg(i), LineAt
  <2> QED BY <2>2, TypeF DEF LOCATE
<1>4. ASSUME words_left = 3 PROVE line_shifted(pkt, at, IdPlace) = <<i, SYMBOL>>
  <2>1. 24 \in Nat /\ 13 \in Nat /\ 13 <= pkt[i].len + 1 /\ 13 + 4 * words_left + 24 = pkt[i].len + 9
    BY <1>0, <1>4
  <2>2. line_shifted(pkt, at, 24) = <<i, 13>>
    BY ONLY <2>1, InMsg(i), LineAt
  <2>3. IdPlace = 24
    BY <1>4, TypeF
  <2> QED BY <2>2, <2>3 DEF SYMBOL
<1>5. ASSUME words_left = 2 PROVE FieldsOf(i, BookType, Fields(pkt, at, BookPlaces))
  <2>1. line_shifted(pkt, at, 20) = <<i, 21>>
    <3>1. 20 \in Nat /\ 21 \in Nat /\ 21 <= pkt[i].len + 1 /\ 21 + 4 * words_left + 20 = pkt[i].len + 9
      BY <1>0, <1>5
    <3> QED BY ONLY <3>1, InMsg(i), LineAt
  <2>2. line_shifted(pkt, at, 19) = <<i, 22>>
    <3>1. 19 \in Nat /\ 22 \in Nat /\ 22 <= pkt[i].len + 1 /\ 22 + 4 * words_left + 19 = pkt[i].len + 9
      BY <1>0, <1>5
    <3> QED BY ONLY <3>1, InMsg(i), LineAt
  <2>3. line_shifted(pkt, at, 7) = <<i, 34>>
    <3>1. 7 \in Nat /\ 34 \in Nat /\ 34 <= pkt[i].len + 1 /\ 34 + 4 * words_left + 7 = pkt[i].len + 9
      BY <1>0, <1>5
    <3> QED BY ONLY <3>1, InMsg(i), LineAt
  <2>4. Fields(pkt, at, <<20, 19, 7>>) = << <<i, 21>>, <<i, 22>>, <<i, 34>> >>
    BY <2>1, <2>2, <2>3, Fields3
  <2>5. BookPlaces = <<20, 19, 7>> /\ BookType = "ADD"
    BY TypeF
  <2> QED BY <2>4, <2>5 DEF FieldsOf, CODE, HALT, PRICE, NEW_SHARES, NEW_PRICE
<1> QED BY <1>1, <1>2, <1>3, <1>4, <1>5 DEF Reads

LEMMA ReadsE ==
  ASSUME NEW i, InMsg(i), pkt[i].type = "E"
  PROVE  Reads(i)
<1>0. pkt[i].len = 31
  BY TypeE
<1>1. /\ LocateWord = 4 /\ BookWord = 3 /\ DelWord = 0 /\ CtrlWord = 0
      /\ IdWords = {4}
  BY TypeE
<1>2. /\ LocateAt["E"] = 4 /\ BookAt["E"] = 3 /\ DelAt["E"] = 0
      /\ TakesId("E") = {4}
  BY DEF LocateAt, BookAt, DelAt, TakesId
<1>3. ASSUME words_left = 4 PROVE line_shifted(pkt, at, LocatePlace) = <<i, LOCATE>>
  <2>1. 21 \in Nat /\ 3 \in Nat /\ 3 <= pkt[i].len + 1 /\ 3 + 4 * words_left + 21 = pkt[i].len + 9
    BY <1>0, <1>3
  <2>2. line_shifted(pkt, at, 21) = <<i, 3>>
    BY ONLY <2>1, InMsg(i), LineAt
  <2> QED BY <2>2, TypeE DEF LOCATE
<1>4. ASSUME words_left = 4 PROVE line_shifted(pkt, at, IdPlace) = <<i, SYMBOL>>
  <2>1. 11 \in Nat /\ 13 \in Nat /\ 13 <= pkt[i].len + 1 /\ 13 + 4 * words_left + 11 = pkt[i].len + 9
    BY <1>0, <1>4
  <2>2. line_shifted(pkt, at, 11) = <<i, 13>>
    BY ONLY <2>1, InMsg(i), LineAt
  <2>3. IdPlace = 11
    BY <1>4, TypeE
  <2> QED BY <2>2, <2>3 DEF SYMBOL
<1>5. ASSUME words_left = 3 PROVE FieldsOf(i, BookType, Fields(pkt, at, BookPlaces))
  <2>1. line_shifted(pkt, at, 7) = <<i, 21>>
    <3>1. 7 \in Nat /\ 21 \in Nat /\ 21 <= pkt[i].len + 1 /\ 21 + 4 * words_left + 7 = pkt[i].len + 9
      BY <1>0, <1>5
    <3> QED BY ONLY <3>1, InMsg(i), LineAt
  <2>2. Fields(pkt, at, <<7>>) = << <<i, 21>> >>
    BY <2>1, Fields1
  <2>3. BookPlaces = <<7>> /\ BookType = "REDUCE"
    BY TypeE
  <2> QED BY <2>2, <2>3 DEF FieldsOf, CODE, HALT, PRICE, NEW_SHARES, NEW_PRICE
<1> QED BY <1>1, <1>2, <1>3, <1>4, <1>5 DEF Reads

LEMMA ReadsX ==
  ASSUME NEW i, InMsg(i), pkt[i].type = "X"
  PROVE  Reads(i)
<1>0. pkt[i].len = 23
  BY TypeX
<1>1. /\ LocateWord = 2 /\ BookWord = 1 /\ DelWord = 0 /\ CtrlWord = 0
      /\ IdWords = {2}
  BY TypeX
<1>2. /\ LocateAt["X"] = 2 /\ BookAt["X"] = 1 /\ DelAt["X"] = 0
      /\ TakesId("X") = {2}
  BY DEF LocateAt, BookAt, DelAt, TakesId
<1>3. ASSUME words_left = 2 PROVE line_shifted(pkt, at, LocatePlace) = <<i, LOCATE>>
  <2>1. 21 \in Nat /\ 3 \in Nat /\ 3 <= pkt[i].len + 1 /\ 3 + 4 * words_left + 21 = pkt[i].len + 9
    BY <1>0, <1>3
  <2>2. line_shifted(pkt, at, 21) = <<i, 3>>
    BY ONLY <2>1, InMsg(i), LineAt
  <2> QED BY <2>2, TypeX DEF LOCATE
<1>4. ASSUME words_left = 2 PROVE line_shifted(pkt, at, IdPlace) = <<i, SYMBOL>>
  <2>1. 11 \in Nat /\ 13 \in Nat /\ 13 <= pkt[i].len + 1 /\ 13 + 4 * words_left + 11 = pkt[i].len + 9
    BY <1>0, <1>4
  <2>2. line_shifted(pkt, at, 11) = <<i, 13>>
    BY ONLY <2>1, InMsg(i), LineAt
  <2>3. IdPlace = 11
    BY <1>4, TypeX
  <2> QED BY <2>2, <2>3 DEF SYMBOL
<1>5. ASSUME words_left = 1 PROVE FieldsOf(i, BookType, Fields(pkt, at, BookPlaces))
  <2>1. line_shifted(pkt, at, 7) = <<i, 21>>
    <3>1. 7 \in Nat /\ 21 \in Nat /\ 21 <= pkt[i].len + 1 /\ 21 + 4 * words_left + 7 = pkt[i].len + 9
      BY <1>0, <1>5
    <3> QED BY ONLY <3>1, InMsg(i), LineAt
  <2>2. Fields(pkt, at, <<7>>) = << <<i, 21>> >>
    BY <2>1, Fields1
  <2>3. BookPlaces = <<7>> /\ BookType = "REDUCE"
    BY TypeX
  <2> QED BY <2>2, <2>3 DEF FieldsOf, CODE, HALT, PRICE, NEW_SHARES, NEW_PRICE
<1> QED BY <1>1, <1>2, <1>3, <1>4, <1>5 DEF Reads

LEMMA ReadsC ==
  ASSUME NEW i, InMsg(i), pkt[i].type = "C"
  PROVE  Reads(i)
<1>0. pkt[i].len = 36
  BY TypeC
<1>1. /\ LocateWord = 5 /\ BookWord = 4 /\ DelWord = 0 /\ CtrlWord = 0
      /\ IdWords = {5}
  BY TypeC
<1>2. /\ LocateAt["C"] = 5 /\ BookAt["C"] = 4 /\ DelAt["C"] = 0
      /\ TakesId("C") = {5}
  BY DEF LocateAt, BookAt, DelAt, TakesId
<1>3. ASSUME words_left = 5 PROVE line_shifted(pkt, at, LocatePlace) = <<i, LOCATE>>
  <2>1. 22 \in Nat /\ 3 \in Nat /\ 3 <= pkt[i].len + 1 /\ 3 + 4 * words_left + 22 = pkt[i].len + 9
    BY <1>0, <1>3
  <2>2. line_shifted(pkt, at, 22) = <<i, 3>>
    BY ONLY <2>1, InMsg(i), LineAt
  <2> QED BY <2>2, TypeC DEF LOCATE
<1>4. ASSUME words_left = 5 PROVE line_shifted(pkt, at, IdPlace) = <<i, SYMBOL>>
  <2>1. 12 \in Nat /\ 13 \in Nat /\ 13 <= pkt[i].len + 1 /\ 13 + 4 * words_left + 12 = pkt[i].len + 9
    BY <1>0, <1>4
  <2>2. line_shifted(pkt, at, 12) = <<i, 13>>
    BY ONLY <2>1, InMsg(i), LineAt
  <2>3. IdPlace = 12
    BY <1>4, TypeC
  <2> QED BY <2>2, <2>3 DEF SYMBOL
<1>5. ASSUME words_left = 4 PROVE FieldsOf(i, BookType, Fields(pkt, at, BookPlaces))
  <2>1. line_shifted(pkt, at, 8) = <<i, 21>>
    <3>1. 8 \in Nat /\ 21 \in Nat /\ 21 <= pkt[i].len + 1 /\ 21 + 4 * words_left + 8 = pkt[i].len + 9
      BY <1>0, <1>5
    <3> QED BY ONLY <3>1, InMsg(i), LineAt
  <2>2. Fields(pkt, at, <<8>>) = << <<i, 21>> >>
    BY <2>1, Fields1
  <2>3. BookPlaces = <<8>> /\ BookType = "REDUCE"
    BY TypeC
  <2> QED BY <2>2, <2>3 DEF FieldsOf, CODE, HALT, PRICE, NEW_SHARES, NEW_PRICE
<1> QED BY <1>1, <1>2, <1>3, <1>4, <1>5 DEF Reads

LEMMA ReadsD ==
  ASSUME NEW i, InMsg(i), pkt[i].type = "D"
  PROVE  Reads(i)
<1>0. pkt[i].len = 19
  BY TypeD
<1>1. /\ LocateWord = 2 /\ BookWord = 0 /\ DelWord = 1 /\ CtrlWord = 0
      /\ IdWords = {1}
  BY TypeD
<1>2. /\ LocateAt["D"] = 2 /\ BookAt["D"] = 0 /\ DelAt["D"] = 1
      /\ TakesId("D") = {1}
  BY DEF LocateAt, BookAt, DelAt, TakesId
<1>3. ASSUME words_left = 2 PROVE line_shifted(pkt, at, LocatePlace) = <<i, LOCATE>>
  <2>1. 17 \in Nat /\ 3 \in Nat /\ 3 <= pkt[i].len + 1 /\ 3 + 4 * words_left + 17 = pkt[i].len + 9
    BY <1>0, <1>3
  <2>2. line_shifted(pkt, at, 17) = <<i, 3>>
    BY ONLY <2>1, InMsg(i), LineAt
  <2> QED BY <2>2, TypeD DEF LOCATE
<1>4. ASSUME words_left = 1 PROVE line_shifted(pkt, at, IdPlace) = <<i, SYMBOL>>
  <2>1. 11 \in Nat /\ 13 \in Nat /\ 13 <= pkt[i].len + 1 /\ 13 + 4 * words_left + 11 = pkt[i].len + 9
    BY <1>0, <1>4
  <2>2. line_shifted(pkt, at, 11) = <<i, 13>>
    BY ONLY <2>1, InMsg(i), LineAt
  <2>3. IdPlace = 11
    BY <1>4, TypeD
  <2> QED BY <2>2, <2>3 DEF SYMBOL
<1>5. words_left # 0
  BY InMsgFacts
<1> QED BY <1>1, <1>2, <1>3, <1>4, <1>5 DEF Reads

LEMMA ReadsU ==
  ASSUME NEW i, InMsg(i), pkt[i].type = "U"
  PROVE  Reads(i)
<1>0. pkt[i].len = 35
  BY TypeU
<1>1. /\ LocateWord = 6 /\ BookWord = 1 /\ DelWord = 5 /\ CtrlWord = 0
      /\ IdWords = {5, 2}
  BY TypeU
<1>2. /\ LocateAt["U"] = 6 /\ BookAt["U"] = 1 /\ DelAt["U"] = 5
      /\ TakesId("U") = {5, 2}
  BY DEF LocateAt, BookAt, DelAt, TakesId
<1>3. ASSUME words_left = 6 PROVE line_shifted(pkt, at, LocatePlace) = <<i, LOCATE>>
  <2>1. 17 \in Nat /\ 3 \in Nat /\ 3 <= pkt[i].len + 1 /\ 3 + 4 * words_left + 17 = pkt[i].len + 9
    BY <1>0, <1>3
  <2>2. line_shifted(pkt, at, 17) = <<i, 3>>
    BY ONLY <2>1, InMsg(i), LineAt
  <2> QED BY <2>2, TypeU DEF LOCATE
<1>4. ASSUME words_left = 5 PROVE line_shifted(pkt, at, IdPlace) = <<i, SYMBOL>>
  <2>1. 11 \in Nat /\ 13 \in Nat /\ 13 <= pkt[i].len + 1 /\ 13 + 4 * words_left + 11 = pkt[i].len + 9
    BY <1>0, <1>4
  <2>2. line_shifted(pkt, at, 11) = <<i, 13>>
    BY ONLY <2>1, InMsg(i), LineAt
  <2>3. IdPlace = 11
    BY <1>4, TypeU
  <2> QED BY <2>2, <2>3 DEF SYMBOL
<1>5. ASSUME words_left = 2 PROVE line_shifted(pkt, at, IdPlace) = <<i, NEW_ID>>
  <2>1. 15 \in Nat /\ 21 \in Nat /\ 21 <= pkt[i].len + 1 /\ 21 + 4 * words_left + 15 = pkt[i].len + 9
    BY <1>0, <1>5
  <2>2. line_shifted(pkt, at, 15) = <<i, 21>>
    BY ONLY <2>1, InMsg(i), LineAt
  <2>3. IdPlace = 15
    BY <1>5, TypeU
  <2> QED BY <2>2, <2>3 DEF NEW_ID
<1>6. ASSUME words_left = 1 PROVE FieldsOf(i, BookType, Fields(pkt, at, BookPlaces))
  <2>1. line_shifted(pkt, at, 11) = <<i, 29>>
    <3>1. 11 \in Nat /\ 29 \in Nat /\ 29 <= pkt[i].len + 1 /\ 29 + 4 * words_left + 11 = pkt[i].len + 9
      BY <1>0, <1>6
    <3> QED BY ONLY <3>1, InMsg(i), LineAt
  <2>2. line_shifted(pkt, at, 7) = <<i, 33>>
    <3>1. 7 \in Nat /\ 33 \in Nat /\ 33 <= pkt[i].len + 1 /\ 33 + 4 * words_left + 7 = pkt[i].len + 9
      BY <1>0, <1>6
    <3> QED BY ONLY <3>1, InMsg(i), LineAt
  <2>3. Fields(pkt, at, <<11, 7>>) = << <<i, 29>>, <<i, 33>> >>
    BY <2>1, <2>2, Fields2
  <2>4. BookPlaces = <<11, 7>> /\ BookType = "REPLACE"
    BY TypeU
  <2> QED BY <2>3, <2>4 DEF FieldsOf, CODE, HALT, PRICE, NEW_SHARES, NEW_PRICE
<1> QED BY <1>1, <1>2, <1>3, <1>4, <1>5, <1>6 DEF Reads

LEMMA OrderReads ==
  ASSUME NEW i, InMsg(i), pkt[i].type \in Orders
  PROVE  Reads(i)
BY ReadsA, ReadsF, ReadsE, ReadsX, ReadsC, ReadsD, ReadsU DEF Orders

(* The fields of a control message passed on. *)
CtrlFieldsOf(i) ==
  CASE pkt[i].type = "S" -> << <<i, SYMBOL>> >>
    [] pkt[i].type = "R" -> << <<i, LOCATE>>, <<i, SYMBOL>> >>
    [] pkt[i].type = "H" -> << <<i, LOCATE>>, <<i, SYMBOL>>, <<i, CODE>> >>
    [] pkt[i].type = "h" -> << <<i, LOCATE>>, <<i, SYMBOL>>, <<i, CODE>>, <<i, HALT>> >>

CtrlAt == [S |-> 1, R |-> 6, H |-> 2, h |-> 1]

LEMMA ControlReads ==
  ASSUME NEW i, InMsg(i), pkt[i].type \in {"S", "R", "H", "h"}
  PROVE  /\ CtrlWord = CtrlAt[pkt[i].type] /\ NoOrderWords
         /\ words_left = CtrlWord => Fields(pkt, at, CtrlPlaces) = CtrlFieldsOf(i)
<1>1. CASE pkt[i].type = "S"
  <2>1. pkt[i].len = 12 /\ CtrlWord = 1 /\ NoOrderWords
    BY <1>1, ControlTypes
  <2>2. CtrlPlaces = <<4>>
    BY <1>1, ControlTypes
  <2>3. CtrlAt["S"] = 1
    BY DEF CtrlAt
  <2>4. ASSUME words_left = 1 PROVE Fields(pkt, at, CtrlPlaces) = CtrlFieldsOf(i)
    <3>1. line_shifted(pkt, at, 4) = <<i, 13>>
      <4>1. 4 \in Nat /\ 13 \in Nat /\ 13 <= pkt[i].len + 1 /\ 13 + 4 * words_left + 4 = pkt[i].len + 9
        BY <2>1, <2>4
      <4> QED BY ONLY <4>1, InMsg(i), LineAt
    <3>2. Fields(pkt, at, <<4>>) = << <<i, 13>> >>
      BY <3>1, Fields1
    <3> QED BY <1>1, <2>2, <3>2 DEF CtrlFieldsOf, SYMBOL
  <2> QED BY <1>1, <2>1, <2>3, <2>4
<1>2. CASE pkt[i].type = "R"
  <2>1. pkt[i].len = 39 /\ CtrlWord = 6 /\ NoOrderWords
    BY <1>2, ControlTypes
  <2>2. CtrlPlaces = <<21, 11>>
    BY <1>2, ControlTypes
  <2>3. CtrlAt["R"] = 6
    BY DEF CtrlAt
  <2>4. ASSUME words_left = 6 PROVE Fields(pkt, at, CtrlPlaces) = CtrlFieldsOf(i)
    <3>1. line_shifted(pkt, at, 21) = <<i, 3>>
      <4>1. 21 \in Nat /\ 3 \in Nat /\ 3 <= pkt[i].len + 1 /\ 3 + 4 * words_left + 21 = pkt[i].len + 9
        BY <2>1, <2>4
      <4> QED BY ONLY <4>1, InMsg(i), LineAt
    <3>2. line_shifted(pkt, at, 11) = <<i, 13>>
      <4>1. 11 \in Nat /\ 13 \in Nat /\ 13 <= pkt[i].len + 1 /\ 13 + 4 * words_left + 11 = pkt[i].len + 9
        BY <2>1, <2>4
      <4> QED BY ONLY <4>1, InMsg(i), LineAt
    <3>3. Fields(pkt, at, <<21, 11>>) = << <<i, 3>>, <<i, 13>> >>
      BY <3>1, <3>2, Fields2
    <3> QED BY <1>2, <2>2, <3>3 DEF CtrlFieldsOf, LOCATE, SYMBOL
  <2> QED BY <1>2, <2>1, <2>3, <2>4
<1>3. CASE pkt[i].type = "H"
  <2>1. pkt[i].len = 25 /\ CtrlWord = 2 /\ NoOrderWords
    BY <1>3, ControlTypes
  <2>2. CtrlPlaces = <<23, 13, 5>>
    BY <1>3, ControlTypes
  <2>3. CtrlAt["H"] = 2
    BY DEF CtrlAt
  <2>4. ASSUME words_left = 2 PROVE Fields(pkt, at, CtrlPlaces) = CtrlFieldsOf(i)
    <3>1. line_shifted(pkt, at, 23) = <<i, 3>>
      <4>1. 23 \in Nat /\ 3 \in Nat /\ 3 <= pkt[i].len + 1 /\ 3 + 4 * words_left + 23 = pkt[i].len + 9
        BY <2>1, <2>4
      <4> QED BY ONLY <4>1, InMsg(i), LineAt
    <3>2. line_shifted(pkt, at, 13) = <<i, 13>>
      <4>1. 13 \in Nat /\ 13 \in Nat /\ 13 <= pkt[i].len + 1 /\ 13 + 4 * words_left + 13 = pkt[i].len + 9
        BY <2>1, <2>4
      <4> QED BY ONLY <4>1, InMsg(i), LineAt
    <3>3. line_shifted(pkt, at, 5) = <<i, 21>>
      <4>1. 5 \in Nat /\ 21 \in Nat /\ 21 <= pkt[i].len + 1 /\ 21 + 4 * words_left + 5 = pkt[i].len + 9
        BY <2>1, <2>4
      <4> QED BY ONLY <4>1, InMsg(i), LineAt
    <3>4. Fields(pkt, at, <<23, 13, 5>>) = << <<i, 3>>, <<i, 13>>, <<i, 21>> >>
      BY <3>1, <3>2, <3>3, Fields3
    <3> QED BY <1>3, <2>2, <3>4 DEF CtrlFieldsOf, CODE, LOCATE, SYMBOL
  <2> QED BY <1>3, <2>1, <2>3, <2>4
<1>4. CASE pkt[i].type = "h"
  <2>1. pkt[i].len = 21 /\ CtrlWord = 1 /\ NoOrderWords
    BY <1>4, ControlTypes
  <2>2. CtrlPlaces = <<23, 13, 5, 4>>
    BY <1>4, ControlTypes
  <2>3. CtrlAt["h"] = 1
    BY DEF CtrlAt
  <2>4. ASSUME words_left = 1 PROVE Fields(pkt, at, CtrlPlaces) = CtrlFieldsOf(i)
    <3>1. line_shifted(pkt, at, 23) = <<i, 3>>
      <4>1. 23 \in Nat /\ 3 \in Nat /\ 3 <= pkt[i].len + 1 /\ 3 + 4 * words_left + 23 = pkt[i].len + 9
        BY <2>1, <2>4
      <4> QED BY ONLY <4>1, InMsg(i), LineAt
    <3>2. line_shifted(pkt, at, 13) = <<i, 13>>
      <4>1. 13 \in Nat /\ 13 \in Nat /\ 13 <= pkt[i].len + 1 /\ 13 + 4 * words_left + 13 = pkt[i].len + 9
        BY <2>1, <2>4
      <4> QED BY ONLY <4>1, InMsg(i), LineAt
    <3>3. line_shifted(pkt, at, 5) = <<i, 21>>
      <4>1. 5 \in Nat /\ 21 \in Nat /\ 21 <= pkt[i].len + 1 /\ 21 + 4 * words_left + 5 = pkt[i].len + 9
        BY <2>1, <2>4
      <4> QED BY ONLY <4>1, InMsg(i), LineAt
    <3>4. line_shifted(pkt, at, 4) = <<i, 22>>
      <4>1. 4 \in Nat /\ 22 \in Nat /\ 22 <= pkt[i].len + 1 /\ 22 + 4 * words_left + 4 = pkt[i].len + 9
        BY <2>1, <2>4
      <4> QED BY ONLY <4>1, InMsg(i), LineAt
    <3>5. Fields(pkt, at, <<23, 13, 5, 4>>) = << <<i, 3>>, <<i, 13>>, <<i, 21>>, <<i, 22>> >>
      BY <3>1, <3>2, <3>3, <3>4, Fields4
    <3> QED BY <1>4, <2>2, <3>5 DEF CtrlFieldsOf, CODE, HALT, LOCATE, SYMBOL
  <2> QED BY <1>4, <2>1, <2>3, <2>4
<1> QED BY <1>1, <1>2, <1>3, <1>4

----------------------------------------------------------------------------
(* A header: nothing of message i is left, and message i + 1 begins.       *)

AtBorder(i) ==
  /\ Wired(pkt) /\ at \in Nat
  /\ i \in 0 .. Len(pkt)
  /\ End(i) <= 4 * at /\ 4 * at < End(i) + 4
  /\ state_q = "IDLE" /\ Shift = 4 + End(i) - 4 * at

(* Words come as long as bytes are left. *)
LEMMA BorderFacts ==
  ASSUME NEW i, AtBorder(i), at < WordsOf(pkt)
  PROVE  /\ i + 1 \in 1 .. Len(pkt) /\ End(i) \in Nat
         /\ Start(pkt, i + 1) = End(i) /\ End(i + 1) = End(i) + pkt[i + 1].len + 2
         /\ Shift \in 1 .. 4 /\ line_shifted(pkt, at, 5) = <<i + 1, TYPE>>
<1> DEFINE n == Len(pkt)
           e == End(i)
           p == Payload(pkt)
           w == WordsOf(pkt)
<1>1. Wired(pkt) /\ at \in Nat /\ n \in Nat /\ i \in 0 .. n
  BY DEF AtBorder, Wired
<1>2. e <= 4 * at /\ 4 * at < e + 4 /\ Shift = 4 + e - 4 * at
  BY DEF AtBorder
<1>3. p \in Nat /\ w \in Nat /\ p <= 4 * w /\ 4 * w < p + 4 /\ p = Start(pkt, n + 1)
  BY <1>1, PayloadFacts
<1>4. e = Start(pkt, i + 1) /\ e \in Nat
  <2>1. i + 1 \in 1 .. n + 1
    BY <1>1
  <2> QED BY <1>1, <2>1, BytesFinite DEF End
<1>5. at < w
  OBVIOUS
<1> HIDE DEF n, e, p, w
<1>6. i # n
  <2> SUFFICES ASSUME i = n PROVE FALSE
    OBVIOUS
  <2>1. e = p
    BY <1>3, <1>4
  <2> QED BY ONLY <1>1, <1>2, <1>3, <1>4, <1>5, <2>1
<1>7. i + 1 \in 1 .. n
  BY ONLY <1>1, <1>6
<1>8. Shift \in 1 .. 4
  BY ONLY <1>1, <1>2, <1>4
<1> DEFINE l == pkt[i + 1].len
<1>9. l \in 4 .. 254 /\ End(i + 1) = e + l + 2
  <2>1. End(i + 1) = Start(pkt, i + 1) + pkt[i + 1].len + 2
    BY <1>1, <1>7, StartNext DEF End, n
  <2> QED BY <1>1, <1>4, <1>7, <2>1, MsgFacts DEF n
<1> DEFINE pos == 4 * at + 3 - 5 + Shift
<1>10. ByteAt(pkt, pos) = <<i + 1, 2>>
  <2> HIDE DEF l
  <2>1. pos = e + 2 /\ 2 \in 0 .. l + 1
    BY ONLY <1>1, <1>2, <1>4, <1>9
  <2> HIDE DEF pos
  <2> QED BY <1>1, <1>4, <1>7, <2>1, ByteOf DEF l, n
<1>11. line_shifted(pkt, at, 5) = <<i + 1, TYPE>>
  BY <1>10 DEF line_shifted, TYPE
<1> QED BY <1>4, <1>7, <1>8, <1>9, <1>11 DEF e, n

(* The bytes of the header word that are not the message's.                *)
HeaderBytes == CASE Shift = 4 -> 2 [] Shift = 1 -> 5 [] Shift = 2 -> 4 [] Shift = 3 -> 3

LEMMA HeaderRead ==
  ASSUME NEW i, AtBorder(i), at < WordsOf(pkt), Header(pkt, at)
  PROVE  /\ ip_error' = ~Good(pkt[i + 1])
         /\ Good(pkt[i + 1]) =>
              /\ Start(pkt, i + 1) + 4 <= 4 * (at + 1)
              /\ 4 * (at + 1) < End(i + 1)
              /\ at + 1 < WordsOf(pkt)
              /\ state_q' = StateOf(pkt[i + 1].type)
              /\ bytes_left_q' = End(i + 1) - 4 * (at + 1)
              /\ msg_alt_q' = (pkt[i + 1].type \in {"F", "X"})
<1> DEFINE j == i + 1
           msg == pkt[j]
           first == line_shifted(pkt, at, 5)
           e == End(i)
           l == msg.len
<1>1. first = <<j, TYPE>>
  BY BorderFacts
<1>2. first[1] = j /\ first[2] = TYPE
  BY <1>1
<1>3. /\ bytes_left_q' = (msg.len - HeaderBytes) % 256
      /\ msg_alt_q' = ((msg.type \in DOMAIN msg_len) /\ msg.type \in {"F", "X"})
      /\ state_q' = IF msg.type \in DOMAIN msg_len THEN StateOf(msg.type) ELSE "IDLE"
      /\ ip_error' = ((msg.type \in DOMAIN msg_len) => msg.len # msg_len[msg.type])
  <2> HIDE DEF j
  <2> QED BY <1>2 DEF Header, HeaderBytes
<1>4. ip_error' = ~Good(msg)
  <2> HIDE DEF msg
  <2> QED BY <1>3 DEF Good
<1>5. ASSUME Good(msg)
      PROVE  /\ Start(pkt, j) + 4 <= 4 * (at + 1)
             /\ 4 * (at + 1) < End(j)
             /\ at + 1 < WordsOf(pkt)
             /\ state_q' = StateOf(msg.type)
             /\ bytes_left_q' = End(j) - 4 * (at + 1)
             /\ msg_alt_q' = (msg.type \in {"F", "X"})
  <2>1. msg.type \in DOMAIN msg_len /\ l = msg_len[msg.type]
    BY <1>5 DEF Good
  <2>2. l \in 12 .. 50
    <3>1. \A t \in DOMAIN msg_len : msg_len[t] \in 12 .. 50
      BY DEF msg_len
    <3> QED BY <2>1, <3>1
  <2>3. /\ at \in Nat /\ e \in Nat /\ j \in 1 .. Len(pkt) /\ Start(pkt, j) = e /\ End(j) = e + l + 2
        /\ e <= 4 * at /\ 4 * at < e + 4 /\ Shift = 4 + e - 4 * at /\ Shift \in 1 .. 4 /\ Wired(pkt)
    BY BorderFacts DEF AtBorder
  <2>4. HeaderBytes = IF Shift = 4 THEN 2 ELSE IF Shift = 1 THEN 5 ELSE IF Shift = 2 THEN 4 ELSE 3
    <3>1. Shift = 4 \/ Shift = 1 \/ Shift = 2 \/ Shift = 3
      BY <2>3
    <3> QED BY <3>1 DEF HeaderBytes
  <2> DEFINE hb == HeaderBytes
             W == WordsOf(pkt)
             P == Payload(pkt)
  <2>5. W \in Nat /\ P \in Nat /\ P <= 4 * W
    BY <2>3, PayloadFacts
  <2>6. End(j) <= P
    <3>1. j + 1 \in 1 .. Len(pkt) + 1 /\ Len(pkt) \in Nat /\ Len(pkt) + 1 \in 1 .. Len(pkt) + 1
      BY <2>3 DEF Wired
    <3>2. Start(pkt, j + 1) <= Start(pkt, Len(pkt) + 1)
      BY <2>3, <3>1, StartMonotone
    <3> QED BY <3>2 DEF End, Payload
  <2>7. bytes_left_q' = (l - hb) % 256
    BY <1>3
  <2> DEFINE f == End(j)
  <2>8. f = e + l + 2 /\ f <= P
    BY <2>3, <2>6
  <2>9. hb = IF Shift = 4 THEN 2 ELSE IF Shift = 1 THEN 5 ELSE IF Shift = 2 THEN 4 ELSE 3
    BY <2>4
  <2> HIDE DEF hb, W, P, l, e, f
  <2>10. e + 4 <= 4 * (at + 1) /\ 4 * (at + 1) < f
    BY ONLY <2>2, <2>3, <2>8
  <2>11. at + 1 < W
    BY ONLY <2>2, <2>3, <2>5, <2>8
  <2>12. bytes_left_q' = f - 4 * (at + 1)
    <3>1. l - hb = f - 4 * (at + 1)
      BY ONLY <2>2, <2>3, <2>8, <2>9
    <3>2. l - hb \in 0 .. 255
      BY ONLY <2>2, <2>3, <2>9
    <3>3. (l - hb) % 256 = l - hb
      BY ONLY <3>2
    <3> QED BY ONLY <2>7, <3>1, <3>3
  <2>13. state_q' = StateOf(msg.type) /\ msg_alt_q' = (msg.type \in {"F", "X"})
    BY <1>3, <2>1
  <2> QED BY <2>3, <2>10, <2>11, <2>12, <2>13 DEF e, f, W
<1> QED BY <1>4, <1>5

----------------------------------------------------------------------------
(* The invariant of the parser and of what it hands on.                    *)

(* Message i is the last whose header has been read. *)
Stands(i) ==
  \/ at < WordsOf(pkt) /\ (InMsg(i) \/ AtBorder(i))
  \/ at >= WordsOf(pkt) /\ i = Len(pkt) /\ state_q = "IDLE" /\ bytes_left_q = 0

(* Behind the last word everything leaves. *)
Drained ==
  /\ at > WordsOf(pkt) => ~dec_book_del_q.valid /\ ~dec_ctrl_o.valid
  /\ at > WordsOf(pkt) + 1 => ~dec_book_q.valid
  /\ at > WordsOf(pkt) + 2 => ~lookup.valid

OfType(i, types) == InMsg(i) /\ pkt[i].type \in types

(* An order message of the stock. *)
OwnBody(i) == pkt[i].body = [kind |-> "BOOK", stock_locate |-> stock_locate_q.stock_locate]

(* The address of an order has been shown for a clock. *)
IdShown(id) == ~dec_book_del_q.valid /\ dec_book_q.order_id = id /\ shown_ids[2] = id

IdKept(i) ==
  /\ OfType(i, {"A", "F", "E", "X", "C"}) /\ words_left = BookAt[pkt[i].type] =>
       IdShown(<<i, SYMBOL>>)
  /\ OfType(i, {"U"}) /\ words_left = 1 => IdShown(<<i, NEW_ID>>)

Matched(i) ==
  OfType(i, Orders) /\ words_left < LocateAt[pkt[i].type] /\ match_locate_q => OwnBody(i)

DelComes(i) ==
  dec_book_del_q.valid =>
    /\ i \in 1 .. Len(pkt) /\ OwnBody(i)
    /\ dec_book_del_q = [valid |-> TRUE, msg_type |-> "DELETE", has_rep |-> (pkt[i].type = "U"),
                         order_id |-> <<i, SYMBOL>>, fields |-> <<>>]
    /\ dec_book_q.order_id = <<i, SYMBOL>> /\ shown_ids[2] = <<i, SYMBOL>>
    /\ \/ OfType(i, {"U"}) /\ words_left = 4
       \/ pkt[i].type = "D" /\ state_q = "IDLE"
    /\ quiet >= 4 /\ ~dec_book_q.valid /\ ~lookup.valid

CtrlComes(i) ==
  dec_ctrl_o.valid =>
    /\ i \in 1 .. Len(pkt) /\ dec_ctrl_o.fields = CtrlFieldsOf(i)
    /\ \/ pkt[i].type \in {"S", "h"} /\ state_q = "IDLE"
       \/ OfType(i, {"R"}) /\ words_left = 5
       \/ OfType(i, {"H"}) /\ words_left = 1

(* Fewer than n words since message i began. *)
Within(i, n) == 4 * at - Start(pkt, i) < 4 * n

PassAt(type) == IF type \in {"D", "U"} THEN DelAt[type] ELSE BookAt[type]

(* Until message i is passed on, as many clocks have gone by since the     *)
(* message before it as words have come.                                   *)
Rests(i) ==
  OfType(i, Orders) /\ words_left >= PassAt(pkt[i].type) =>
    /\ ~dec_book_del_q.valid
    /\ dec_book_q.valid => dec_book_q.msg_type = "DELETE" /\ ~dec_book_q.has_rep /\ Within(i, 2)
    /\ lookup.valid => IF lookup.msg_type = "DELETE" THEN ~lookup.has_rep /\ Within(i, 3)
                       ELSE Within(i, 2)
    /\ ~dec_book_q.valid /\ ~lookup.valid => quiet = 9 \/ 4 * quiet + 7 >= 4 * at - Start(pkt, i)

(* The second half of a replacement comes three clocks behind the first.   *)
Halves(i) ==
  /\ dec_book_q.valid /\ dec_book_q.has_rep => OfType(i, {"U"}) /\ words_left \in 3 .. 4
  /\ lookup.valid /\ lookup.has_rep => OfType(i, {"U"}) /\ words_left \in 2 .. 4
  /\ OfType(i, {"U"}) /\ words_left < 5 =>
       /\ dec_book_del_q.valid => words_left = 4
       /\ dec_book_q.valid => words_left >= 3
       /\ lookup.valid => words_left >= 2
       /\ words_left = 1 => quiet >= 1

Paced ==
  /\ quiet \in 0 .. 9
  /\ dec_book_q.valid =>
       /\ ~lookup.valid /\ quiet + 1 >= Needed(dec_book_q.msg_type)
       /\ dec_book_q.msg_type # "DELETE" => ~dec_book_q.has_rep

(* What is read as true or false is. *)
Flags ==
  /\ dec_book_del_q.valid \in BOOLEAN /\ dec_book_q.valid \in BOOLEAN
  /\ dec_ctrl_o.valid \in BOOLEAN /\ lookup.valid \in BOOLEAN
  /\ match_locate_q \in BOOLEAN
  /\ "valid" \in DOMAIN dec_book_q /\ "valid" \in DOMAIN dec_book_del_q

Parsed(i) ==
  /\ i \in 0 .. Len(pkt) /\ Stands(i)
  /\ IdKept(i) /\ Matched(i) /\ DelComes(i) /\ CtrlComes(i) /\ Rests(i) /\ Halves(i)

HandsOn == KeepsPace /\ FieldsAligned /\ AddressInTime

Holds == Flags /\ Drained /\ Paced /\ \E i \in 0 .. Len(pkt) : Parsed(i)

IInv == Wired(pkt) /\ at \in Nat /\ HandsOn /\ (failed \/ Holds)

----------------------------------------------------------------------------
(* What a clock does to the parser's registers.                            *)

(* A clock in which nothing of a message is taken: no word, or a header.   *)
LEMMA NotTaken ==
  ASSUME Flags, NEW k, NEW v, NEW last, NEW locate, ItchClock(pkt, k, v, last, locate),
         ~(v /\ state_q # "IDLE")
  PROVE  /\ dec_ctrl_o' = NoCtrl /\ dec_book_del_q' = NoBook
         /\ order_id_d(pkt, k, v /\ state_q # "IDLE") = dec_book_q.order_id
         /\ dec_book_q' = IF dec_book_del_q.valid THEN dec_book_del_q
                          ELSE [NoBook EXCEPT !.order_id = dec_book_q.order_id]
         /\ match_locate_q' = match_locate_q
<1> DEFINE taken == v /\ state_q # "IDLE"
<1>0. ~taken
  OBVIOUS
<1>1. /\ DecCtrl(pkt, k, taken) /\ DecBook(pkt, k, taken)
      /\ MatchLocate(pkt, k, taken, locate)
  BY DEF ItchClock
<1> HIDE DEF taken
<1>2. dec_ctrl_o' = NoCtrl
  BY <1>0, <1>1 DEF DecCtrl, NoCtrl
<1>3. order_id_d(pkt, k, taken) = dec_book_q.order_id
  BY <1>0 DEF order_id_d
<1>4. match_locate_q' = match_locate_q
  BY <1>0, <1>1 DEF MatchLocate
<1>5. dec_book_del_q' = NoBook
  BY <1>0, <1>1 DEF DecBook
<1>6. dec_book_q' = IF dec_book_del_q.valid THEN dec_book_del_q
                    ELSE [NoBook EXCEPT !.order_id = dec_book_q.order_id]
  <2>1. dec_book_del_q.valid \in BOOLEAN
    BY DEF Flags
  <2> QED BY <1>0, <1>1, <1>3, <2>1, Zenon DEF DecBook
<1> QED BY <1>2, <1>3, <1>4, <1>5, <1>6 DEF taken

(* What a word of order message i says to read, and what it leaves.        *)
IdOf(i) ==
  IF words_left \in TakesId(pkt[i].type)
  THEN <<i, IF pkt[i].type = "U" /\ words_left = 2 THEN NEW_ID ELSE SYMBOL>>
  ELSE dec_book_q.order_id

Takes(i) ==
  /\ dec_book_del_q' = IF words_left = DelAt[pkt[i].type]
                       THEN [valid |-> match_locate_q, msg_type |-> "DELETE",
                             has_rep |-> pkt[i].type = "U",
                             order_id |-> IdOf(i), fields |-> <<>>]
                       ELSE NoBook
  /\ dec_book_q' = IF dec_book_del_q.valid THEN dec_book_del_q
                   ELSE IF words_left = BookAt[pkt[i].type]
                   THEN [valid |-> match_locate_q, msg_type |-> BookType, has_rep |-> FALSE,
                         order_id |-> IdOf(i), fields |-> Fields(pkt, at, BookPlaces)]
                   ELSE [NoBook EXCEPT !.order_id = IdOf(i)]
  /\ match_locate_q' =
       IF words_left = LocateAt[pkt[i].type]
       THEN stock_locate_q.valid /\ pkt[i].body.kind = "BOOK"
            /\ pkt[i].body.stock_locate = stock_locate_q.stock_locate
       ELSE match_locate_q

(* A word of an order message. *)
LEMMA OrderTaken ==
  ASSUME Flags, NEW i, OfType(i, Orders), NEW last,
         ItchClock(pkt, at, TRUE, last, stock_locate_q)
  PROVE  /\ dec_ctrl_o'.valid = FALSE
         /\ order_id_d(pkt, at, TRUE /\ state_q # "IDLE") = IdOf(i)
         /\ Takes(i)
<1> DEFINE type == pkt[i].type
           locate == stock_locate_q
           id == IdOf(i)
           taken == TRUE /\ state_q # "IDLE"
<1>1. InMsg(i) /\ type \in Orders
  BY DEF OfType
<1>2. state_q # "IDLE" /\ (state_q = "REPLACE" <=> type = "U")
  BY <1>1, TypeA, TypeF, TypeE, TypeX, TypeC, TypeD, TypeU DEF Orders
<1>3. Reads(i)
  BY <1>1, OrderReads
<1>4. words_left \in 1 .. 12
  BY <1>1, InMsgFacts
<1>5. taken
  BY <1>2
<1>6. /\ LocateWord = LocateAt[type] /\ BookWord = BookAt[type] /\ DelWord = DelAt[type]
      /\ IdWords = TakesId(type) /\ CtrlWord = 0
      /\ words_left = LocateAt[type] => line_shifted(pkt, at, LocatePlace) = <<i, LOCATE>>
      /\ words_left \in TakesId(type) =>
           line_shifted(pkt, at, IdPlace) = <<i, IF type = "U" /\ words_left = 2 THEN NEW_ID ELSE SYMBOL>>
  BY <1>3 DEF Reads
<1>7. /\ DecCtrl(pkt, at, taken) /\ DecBook(pkt, at, taken)
      /\ MatchLocate(pkt, at, taken, locate)
  BY DEF ItchClock
<1> HIDE DEF taken
<1>8. dec_ctrl_o'.valid = FALSE
  <2>1. dec_ctrl_o'.valid = (taken /\ words_left = CtrlWord /\ CtrlWord > 0)
    BY <1>7 DEF DecCtrl
  <2>2. ~(CtrlWord > 0)
    BY <1>6
  <2> QED BY ONLY <2>1, <2>2, Zenon
<1>9. order_id_d(pkt, at, taken) = id
  BY <1>5, <1>6 DEF order_id_d, IdOf
<1> HIDE DEF id
<1>10. /\ words_left = DelWord => DelWord > 0
       /\ words_left = BookWord => BookWord > 0
       /\ words_left = LocateWord => LocateWord > 0
  BY <1>4
<1>11. dec_book_del_q' = IF words_left = DelAt[type]
                         THEN [valid |-> match_locate_q, msg_type |-> "DELETE",
                               has_rep |-> type = "U", order_id |-> id, fields |-> <<>>]
                         ELSE NoBook
  <2>1. dec_book_del_q' = IF taken /\ words_left = DelWord /\ DelWord > 0
                          THEN [valid |-> match_locate_q, msg_type |-> "DELETE",
                                has_rep |-> state_q = "REPLACE", order_id |-> id, fields |-> <<>>]
                          ELSE NoBook
    BY <1>7, <1>9, Zenon DEF DecBook
  <2>2. (state_q = "REPLACE") = (type = "U")
    BY <1>2
  <2>3. (taken /\ words_left = DelWord /\ DelWord > 0) = (words_left = DelAt[type])
    BY <1>5, <1>6, <1>10
  <2> QED BY ONLY <2>1, <2>2, <2>3, Zenon
<1>12. dec_book_q' = IF dec_book_del_q.valid THEN dec_book_del_q
                     ELSE IF words_left = BookAt[type]
                     THEN [valid |-> match_locate_q, msg_type |-> BookType, has_rep |-> FALSE,
                           order_id |-> id, fields |-> Fields(pkt, at, BookPlaces)]
                     ELSE [NoBook EXCEPT !.order_id = id]
  <2>1. (taken /\ words_left = BookWord /\ BookWord > 0) = (words_left = BookAt[type])
    BY <1>5, <1>6, <1>10
  <2>2. dec_book_del_q.valid \in BOOLEAN
    BY DEF Flags
  <2>3. dec_book_q' =
          CASE dec_book_del_q.valid -> dec_book_del_q
            [] ~dec_book_del_q.valid /\ (taken /\ words_left = BookWord /\ BookWord > 0) ->
                 [valid |-> match_locate_q, msg_type |-> BookType, has_rep |-> FALSE,
                  order_id |-> id, fields |-> Fields(pkt, at, BookPlaces)]
            [] OTHER -> [NoBook EXCEPT !.order_id = id]
    BY <1>7, <1>9, Zenon DEF DecBook
  <2> QED BY ONLY <2>1, <2>2, <2>3, Zenon
<1>13. match_locate_q' = IF words_left = LocateAt[type]
                         THEN locate.valid /\ pkt[i].body.kind = "BOOK"
                              /\ pkt[i].body.stock_locate = locate.stock_locate
                         ELSE match_locate_q
  <2>1. (taken /\ words_left = LocateWord /\ LocateWord > 0) = (words_left = LocateAt[type])
    BY <1>5, <1>6, <1>10
  <2>2. CASE words_left = LocateAt[type]
    <3>1. line_shifted(pkt, at, LocatePlace)[1] = i /\ line_shifted(pkt, at, LocatePlace)[2] = LOCATE
      BY <1>6, <2>2
    <3> QED BY <1>7, <2>1, <2>2, <3>1 DEF MatchLocate
  <2>3. CASE ~(words_left = LocateAt[type])
    BY <1>7, <2>1, <2>3 DEF MatchLocate
  <2> QED BY <2>2, <2>3
<1>14. Takes(i)
  BY <1>11, <1>12, <1>13 DEF Takes, id
<1> QED BY <1>8, <1>9, <1>14 DEF taken, id

(* A word of any other message. *)
LEMMA OtherTaken ==
  ASSUME Flags, NEW i, InMsg(i), pkt[i].type \notin Orders, NEW last, NEW locate,
         ItchClock(pkt, at, TRUE, last, locate)
  PROVE  /\ dec_ctrl_o'.valid = (pkt[i].type \in {"S", "R", "H", "h"} /\ words_left = CtrlAt[pkt[i].type])
         /\ dec_ctrl_o'.valid => dec_ctrl_o'.fields = CtrlFieldsOf(i)
         /\ order_id_d(pkt, at, TRUE /\ state_q # "IDLE") = dec_book_q.order_id
         /\ dec_book_del_q' = NoBook
         /\ dec_book_q' = IF dec_book_del_q.valid THEN dec_book_del_q
                          ELSE [NoBook EXCEPT !.order_id = dec_book_q.order_id]
         /\ match_locate_q' = match_locate_q
<1> DEFINE type == pkt[i].type
           taken == TRUE /\ state_q # "IDLE"
           control == type \in {"S", "R", "H", "h"}
<1>0. state_q # "IDLE"
  BY ControlTypes, IgnoredTypes
<1>1. NoOrderWords
  BY ControlTypes, IgnoredTypes
<1>2. words_left \in 1 .. 12
  BY InMsgFacts
<1>3. taken
  BY <1>0
<1>4. /\ DecCtrl(pkt, at, taken) /\ DecBook(pkt, at, taken)
      /\ MatchLocate(pkt, at, taken, locate)
  BY DEF ItchClock
<1> HIDE DEF taken
<1>5. LocateWord = 0 /\ BookWord = 0 /\ IdWords = {} /\ DelWord = 0
  BY <1>1 DEF NoOrderWords
<1>6. /\ ~(taken /\ words_left = DelWord /\ DelWord > 0)
      /\ ~(taken /\ words_left = BookWord /\ BookWord > 0)
      /\ ~(taken /\ words_left = LocateWord /\ LocateWord > 0)
  BY <1>2, <1>5
<1>7. order_id_d(pkt, at, taken) = dec_book_q.order_id
  BY <1>5 DEF order_id_d
<1>8. dec_book_del_q' = NoBook /\ match_locate_q' = match_locate_q
  BY <1>4, <1>6, Zenon DEF DecBook, MatchLocate
<1>9. dec_book_q' = IF dec_book_del_q.valid THEN dec_book_del_q
                    ELSE [NoBook EXCEPT !.order_id = dec_book_q.order_id]
  <2>1. dec_book_del_q.valid \in BOOLEAN
    BY DEF Flags
  <2> QED BY <1>4, <1>6, <1>7, <2>1, Zenon DEF DecBook
<1>10. dec_ctrl_o'.valid = (taken /\ words_left = CtrlWord /\ CtrlWord > 0)
  BY <1>4 DEF DecCtrl
<1>11. CASE control
  <2>1. /\ CtrlWord = CtrlAt[type]
        /\ words_left = CtrlWord => Fields(pkt, at, CtrlPlaces) = CtrlFieldsOf(i)
    BY <1>11, ControlReads
  <2>2. dec_ctrl_o'.valid = (control /\ words_left = CtrlAt[type])
    BY <1>2, <1>3, <1>10, <1>11, <2>1
  <2>3. dec_ctrl_o'.valid => dec_ctrl_o'.fields = CtrlFieldsOf(i)
    BY <1>4, <1>10, <2>1 DEF DecCtrl
  <2> QED BY <1>7, <1>8, <1>9, <2>2, <2>3 DEF taken
<1>12. CASE ~control
  <2>1. CtrlWord = 0
    BY <1>12, IgnoredTypes
  <2>2. ~(CtrlWord > 0)
    BY <2>1
  <2>3. dec_ctrl_o'.valid = FALSE
    BY ONLY <1>10, <2>2, Zenon
  <2>4. dec_ctrl_o'.valid = (control /\ words_left = CtrlAt[type])
    BY ONLY <1>12, <2>3, Zenon
  <2> QED BY <1>7, <1>8, <1>9, <2>3, <2>4, Zenon DEF taken
<1> QED BY <1>11, <1>12

----------------------------------------------------------------------------
(* The same, for the invariant: what moves on in every clock, and the      *)
(* three kinds of clocks.                                                  *)

Pipe ==
  /\ lookup' = IF dec_book_q.valid
               THEN [valid |-> TRUE, msg_type |-> dec_book_q.msg_type,
                     has_rep |-> dec_book_q.has_rep, of |-> dec_book_q.order_id[1]]
               ELSE NoLookup
  /\ quiet' = IF lookup.valid
              THEN IF lookup.msg_type = "DELETE" /\ ~lookup.has_rep THEN 2 ELSE 1
              ELSE IF quiet < 9 THEN quiet + 1 ELSE 9

Keeps ==
  /\ dec_book_del_q' = NoBook
  /\ dec_book_q' = IF dec_book_del_q.valid THEN dec_book_del_q
                   ELSE [NoBook EXCEPT !.order_id = dec_book_q.order_id]
  /\ match_locate_q' = match_locate_q
  /\ shown_ids' = <<shown_ids[2], dec_book_q.order_id>>

TakesCtrl(i) ==
  /\ dec_ctrl_o'.valid = (pkt[i].type \in {"S", "R", "H", "h"} /\ words_left = CtrlAt[pkt[i].type])
  /\ dec_ctrl_o'.valid => dec_ctrl_o'.fields = CtrlFieldsOf(i)

LEMMA NotIdle ==
  ASSUME NEW i, InMsg(i)
  PROVE  /\ state_q # "IDLE"
         /\ state_q = "REPLACE" <=> pkt[i].type = "U"
<1> DEFINE type == pkt[i].type
<1>1. CASE type \in Orders
  BY <1>1, TypeA, TypeF, TypeE, TypeX, TypeC, TypeD, TypeU DEF Orders
<1>2. CASE type \notin Orders
  BY <1>2, ControlTypes, IgnoredTypes DEF Orders
<1> QED BY <1>1, <1>2

LEMMA PipeMoves ==
  ASSUME Flags, Paced, NEW v, NEW init_v, Clock(v, init_v)
  PROVE  /\ Pipe
         /\ shown_ids' = <<shown_ids[2], order_id_d(pkt, at, v /\ state_q # "IDLE")>>
         /\ ControlClock(init_v, dec_ctrl(pkt))
         /\ ItchClock(pkt, at, v, v /\ at + 1 = WordsOf(pkt), stock_locate_q)
         /\ ~failed /\ failed' = error_o(pkt)
<1>1. PICK refills \in {FALSE, TakesShares(bbo_dec_book)} :
        TopClock(pkt, at, v, v /\ at + 1 = WordsOf(pkt), init_v, refills)
  BY DEF Clock
<1>2. quiet' = QuietAfter(quiet, lookup)
  BY DEF Clock
<1>3. lookup.valid \in BOOLEAN /\ quiet \in 0 .. 9
  BY DEF Flags, Paced
<1>4. quiet' = IF lookup.valid
               THEN IF lookup.msg_type = "DELETE" /\ ~lookup.has_rep THEN 2 ELSE 1
               ELSE IF quiet < 9 THEN quiet + 1 ELSE 9
  <2>1. CASE lookup.valid /\ lookup.msg_type = "DELETE" /\ ~lookup.has_rep
    BY <1>2, <2>1 DEF QuietAfter
  <2>2. CASE lookup.valid /\ ~(lookup.msg_type = "DELETE" /\ ~lookup.has_rep)
    BY <1>2, <2>2 DEF QuietAfter
  <2>3. CASE ~lookup.valid
    <3>1. CASE quiet < 9
      BY <1>2, <2>3, <3>1 DEF QuietAfter, LongQuiet
    <3>2. CASE ~(quiet < 9)
      BY <1>2, <2>3, <3>2 DEF QuietAfter, LongQuiet
    <3> QED BY <2>3, <3>1, <3>2
  <2> QED BY <2>1, <2>2, <2>3
<1>5. lookup' = IF dec_book_q.valid
                THEN [valid |-> TRUE, msg_type |-> dec_book_q.msg_type,
                      has_rep |-> dec_book_q.has_rep, of |-> dec_book_q.order_id[1]]
                ELSE NoLookup
  BY <1>1 DEF TopClock, BookTime
<1> QED BY <1>1, <1>4, <1>5 DEF Pipe, Clock, TopClock

LEMMA ClockKinds ==
  ASSUME Flags, Paced, NEW i, Parsed(i), NEW v \in BOOLEAN, v => at < WordsOf(pkt),
         NEW init_v, Clock(v, init_v)
  PROVE  \/ ~(v /\ state_q # "IDLE") /\ Keeps /\ dec_ctrl_o' = NoCtrl
         \/ /\ v /\ OfType(i, Orders) /\ Takes(i) /\ dec_ctrl_o'.valid = FALSE
            /\ shown_ids' = <<shown_ids[2], IdOf(i)>>
         \/ v /\ InMsg(i) /\ pkt[i].type \notin Orders /\ Keeps /\ TakesCtrl(i)
<1> DEFINE last == v /\ at + 1 = WordsOf(pkt)
<1>1. /\ shown_ids' = <<shown_ids[2], order_id_d(pkt, at, v /\ state_q # "IDLE")>>
      /\ ItchClock(pkt, at, v, last, stock_locate_q)
  BY PipeMoves
<1> HIDE DEF last
<1>2. CASE ~(v /\ state_q # "IDLE")
  BY <1>1, <1>2, NotTaken DEF Keeps
<1>3. CASE v /\ state_q # "IDLE"
  <2>1. InMsg(i)
    <3>1. at < WordsOf(pkt)
      BY <1>3
    <3>2. at \in Nat /\ WordsOf(pkt) \in Nat => ~(at >= WordsOf(pkt))
      BY <3>1
    <3>3. Stands(i)
      BY DEF Parsed
    <3>4. ~AtBorder(i)
      BY <1>3 DEF AtBorder
    <3>5. ~(state_q = "IDLE")
      BY <1>3
    <3> QED BY ONLY <3>3, <3>4, <3>5 DEF Stands
  <2>2. v = TRUE
    BY <1>3
  <2>3. ItchClock(pkt, at, TRUE, last, stock_locate_q)
    BY <1>1, <2>2
  <2>4. shown_ids' = <<shown_ids[2], order_id_d(pkt, at, TRUE /\ state_q # "IDLE")>>
    BY <1>1, <2>2
  <2>5. CASE pkt[i].type \in Orders
    <3>1. OfType(i, Orders)
      BY <2>1, <2>5 DEF OfType
    <3>2. /\ dec_ctrl_o'.valid = FALSE
          /\ order_id_d(pkt, at, TRUE /\ state_q # "IDLE") = IdOf(i)
          /\ Takes(i)
      BY ONLY Flags, <2>3, <3>1, OrderTaken
    <3>3. shown_ids' = <<shown_ids[2], IdOf(i)>>
      BY <2>4, <3>2
    <3> QED BY <2>2, <3>1, <3>2, <3>3
  <2>6. CASE pkt[i].type \notin Orders
    <3>1. /\ TakesCtrl(i)
          /\ order_id_d(pkt, at, TRUE /\ state_q # "IDLE") = dec_book_q.order_id
          /\ dec_book_del_q' = NoBook
          /\ dec_book_q' = IF dec_book_del_q.valid THEN dec_book_del_q
                           ELSE [NoBook EXCEPT !.order_id = dec_book_q.order_id]
          /\ match_locate_q' = match_locate_q
      BY ONLY Flags, <2>1, <2>3, <2>6, OtherTaken DEF TakesCtrl
    <3> QED BY <1>3, <2>1, <2>4, <2>6, <3>1 DEF Keeps
  <2> QED BY <2>5, <2>6
<1> QED BY <1>2, <1>3

----------------------------------------------------------------------------
(* Where a clock leaves the parser.                                        *)

LEMMA EndInPayload ==
  ASSUME NEW p, Wired(p), NEW i \in 1 .. Len(p)
  PROVE  /\ Start(p, i + 1) \in Nat /\ Start(p, i + 1) <= Payload(p)
         /\ i # Len(p) => Start(p, i + 1) + 6 <= Payload(p)
<1>1. Len(p) \in Nat /\ i \in Nat /\ i + 1 \in 1 .. Len(p) + 1 /\ Len(p) + 1 \in 1 .. Len(p) + 1
  BY MsgFacts
<1>2. Start(p, i + 1) \in Nat
  BY <1>1, BytesFinite
<1>3. Start(p, i + 1) <= Payload(p)
  BY <1>1, StartMonotone DEF Payload
<1>4. ASSUME i # Len(p) PROVE Start(p, i + 1) + 6 <= Payload(p)
  <2>1. i + 1 \in 1 .. Len(p) /\ (i + 1) + 1 \in 1 .. Len(p) + 1
    BY ONLY <1>1, <1>4, i \in 1 .. Len(p)
  <2> DEFINE l == p[i + 1].len
             e == Start(p, (i + 1) + 1)
             s == Start(p, i + 1)
             P == Payload(p)
  <2>2. e = s + l + 2
    BY <2>1, StartNext
  <2>3. e <= P
    BY <1>1, <2>1, StartMonotone DEF Payload
  <2>4. l \in 4 .. 254
    BY <2>1, MsgFacts
  <2>5. P \in Nat /\ s \in Nat
    BY <1>2, PayloadFacts
  <2> HIDE DEF l, e, s, P
  <2>6. s + 6 <= P
    BY ONLY <2>2, <2>3, <2>4, <2>5
  <2> QED BY <2>6 DEF s, P
<1> QED BY <1>2, <1>3, <1>4

(* Bytes of message i that have come. *)
Since(i) == 4 * at - Start(pkt, i)

LEMMA SinceFacts ==
  ASSUME NEW i, InMsg(i)
  PROVE  /\ Since(i) \in 4 .. 51 /\ words_left \in 1 .. 12
         /\ Since(i) + 4 * words_left >= pkt[i].len + 2
         /\ Since(i) + 4 * words_left < pkt[i].len + 6
<1> DEFINE s == Start(pkt, i)
           l == pkt[i].len
<1>1. /\ s \in Nat /\ at \in Nat /\ l \in 12 .. 50 /\ End(i) = s + l + 2
      /\ bytes_left_q \in 1 .. 48 /\ words_left \in 1 .. 12
      /\ 4 * words_left >= bytes_left_q /\ bytes_left_q > 4 * words_left - 4
  BY InMsgFacts
<1>2. bytes_left_q = End(i) - 4 * at /\ s + 4 <= 4 * at
  BY DEF InMsg
<1>3. Since(i) = 4 * at - s
  BY DEF Since
<1> HIDE DEF s, l
<1>4. /\ Since(i) \in 4 .. 51
      /\ Since(i) + 4 * words_left >= l + 2 /\ Since(i) + 4 * words_left < l + 6
  BY ONLY <1>1, <1>2, <1>3
<1> QED BY <1>1, <1>4 DEF l

LEMMA Counted ==
  ASSUME NEW i, InMsg(i), at < WordsOf(pkt), Countdown(at + 1 = WordsOf(pkt)),
         msg_alt_q' = msg_alt_q, at' = at + 1, pkt' = pkt
  PROVE  /\ words_left > 1 => InMsg(i)' /\ words_left' = words_left - 1 /\ at' < WordsOf(pkt)'
         /\ words_left = 1 => state_q' = "IDLE" /\ Stands(i)'
<1> DEFINE e == End(i)
           s == Start(pkt, i)
           P == Payload(pkt)
           W == WordsOf(pkt)
           n == Len(pkt)
<1>1. /\ Wired(pkt) /\ i \in 1 .. n /\ Good(pkt[i])
      /\ s + 4 <= 4 * at /\ 4 * at < e
      /\ state_q = StateOf(pkt[i].type)
      /\ bytes_left_q = e - 4 * at
      /\ msg_alt_q = (pkt[i].type \in {"F", "X"})
  BY DEF InMsg
<1>2. /\ s \in Nat /\ e \in Nat /\ at \in Nat
      /\ bytes_left_q \in 1 .. 48 /\ words_left \in 1 .. 12
      /\ 4 * words_left >= bytes_left_q /\ bytes_left_q > 4 * words_left - 4
  BY InMsgFacts
<1>3. /\ P \in Nat /\ W \in Nat /\ P <= 4 * W /\ 4 * W < P + 4
      /\ e <= P /\ (i # n => e + 6 <= P)
  BY <1>1, PayloadFacts, EndInPayload DEF End
<1>4. /\ state_q' = IF bytes_left_q < 5 THEN "IDLE" ELSE state_q
      /\ bytes_left_q' = IF at + 1 = W THEN 0 ELSE (bytes_left_q - 4) % 256
  BY DEF Countdown
<1>5. at < W
  OBVIOUS
<1>6. End(i)' = e /\ Start(pkt, i)' = s /\ WordsOf(pkt)' = W /\ Len(pkt)' = n
  BY DEF End
<1>7. Wired(pkt)' /\ (i \in 1 .. Len(pkt))' /\ Good(pkt[i])' /\ at' \in Nat
  BY <1>1, <1>2 DEF Good, Wired
<1> HIDE DEF e, s, P, W, n
<1>8. ASSUME words_left > 1
      PROVE  InMsg(i)' /\ words_left' = words_left - 1 /\ at' < WordsOf(pkt)'
  <2>1. bytes_left_q \in 5 .. 48
    BY ONLY <1>2, <1>8
  <2>2. at + 1 < W
    BY ONLY <1>1, <1>2, <1>3, <2>1
  <2>3. bytes_left_q' = bytes_left_q - 4
    <3>1. bytes_left_q - 4 \in 0 .. 255
      BY ONLY <2>1
    <3>2. (bytes_left_q - 4) % 256 = bytes_left_q - 4
      BY ONLY <3>1
    <3>3. bytes_left_q' = (bytes_left_q - 4) % 256
      BY ONLY <1>2, <1>3, <1>4, <2>2
    <3> QED BY ONLY <3>2, <3>3
  <2>4. words_left' = words_left - 1
    <3>1. (bytes_left_q - 4 + 3) \div 4 = ((bytes_left_q + 3) \div 4) - 1
      BY ONLY <2>1
    <3> QED BY ONLY <2>3, <3>1 DEF words_left
  <2>5. state_q' = state_q
    BY ONLY <1>4, <2>1
  <2>6. /\ s + 4 <= 4 * (at + 1) /\ 4 * (at + 1) < e
        /\ bytes_left_q' = e - 4 * (at + 1)
    BY ONLY <1>1, <1>2, <2>1, <2>3
  <2>7. (Start(pkt, i) + 4 <= 4 * at /\ 4 * at < End(i) /\ bytes_left_q = End(i) - 4 * at)'
    BY <1>6, <2>6
  <2>8. (state_q = StateOf(pkt[i].type) /\ msg_alt_q = (pkt[i].type \in {"F", "X"}))'
    BY <1>1, <2>5
  <2>9. InMsg(i)'
    BY <1>7, <2>7, <2>8 DEF InMsg
  <2> QED BY <1>6, <2>2, <2>4, <2>9
<1>9. ASSUME words_left = 1 PROVE state_q' = "IDLE" /\ Stands(i)'
  <2>1. bytes_left_q \in 1 .. 4
    BY ONLY <1>2, <1>9
  <2>2. state_q' = "IDLE"
    BY ONLY <1>4, <2>1
  <2>3. CASE at + 1 < W
    <3>1. bytes_left_q' = (bytes_left_q - 4) % 256
      BY ONLY <1>2, <1>3, <1>4, <2>3
    <3>2. ((bytes_left_q - 4) % 256) % 4 = bytes_left_q % 4
      BY ONLY <2>1
    <3>3. Shift' = bytes_left_q
      <4>1. Shift' = IF bytes_left_q' % 4 = 0 THEN 4 ELSE bytes_left_q' % 4
        BY DEF Shift
      <4> QED BY ONLY <2>1, <3>1, <3>2, <4>1
    <3>4. /\ e <= 4 * (at + 1) /\ 4 * (at + 1) < e + 4
          /\ Shift' = 4 + e - 4 * (at + 1)
      BY ONLY <1>1, <1>2, <2>1, <3>3
    <3>5. (End(i) <= 4 * at /\ 4 * at < End(i) + 4 /\ Shift = 4 + End(i) - 4 * at)'
      BY <1>6, <3>4
    <3>6. (i \in 0 .. Len(pkt))'
      BY <1>7
    <3>7. AtBorder(i)'
      BY <1>7, <2>2, <3>5, <3>6 DEF AtBorder
    <3> QED BY <1>6, <2>2, <2>3, <3>7 DEF Stands
  <2>4. CASE ~(at + 1 < W)
    <3>1. at + 1 = W
      BY ONLY <1>2, <1>3, <1>5, <2>4
    <3>2. i = n
      <4>1. SUFFICES ASSUME i # n PROVE FALSE
        OBVIOUS
      <4> QED BY ONLY <1>1, <1>2, <1>3, <2>1, <3>1, <4>1
    <3>3. bytes_left_q' = 0 /\ at + 1 >= W
      BY <1>3, <1>4, <3>1
    <3>4. (at >= WordsOf(pkt) /\ i = Len(pkt) /\ bytes_left_q = 0)'
      BY <1>6, <3>2, <3>3
    <3> QED BY <2>2, <3>4 DEF Stands
  <2> QED BY <2>2, <2>3, <2>4
<1> QED BY <1>8, <1>9

(* Nothing moves. *)
LEMMA Stays ==
  ASSUME NEW i, pkt' = pkt, at' = at,
         state_q' = state_q, bytes_left_q' = bytes_left_q, msg_alt_q' = msg_alt_q
  PROVE  /\ InMsg(i)' = InMsg(i) /\ AtBorder(i)' = AtBorder(i) /\ Stands(i)' = Stands(i)
         /\ words_left' = words_left /\ Since(i)' = Since(i)
<1>1. /\ Wired(pkt)' = Wired(pkt) /\ End(i)' = End(i) /\ Shift' = Shift
      /\ Good(pkt[i])' = Good(pkt[i])
  BY DEF Wired, End, Shift, Good
<1>2. InMsg(i)' = InMsg(i)
  BY <1>1 DEF InMsg
<1>3. AtBorder(i)' = AtBorder(i)
  BY <1>1 DEF AtBorder
<1>4. Stands(i)' = Stands(i)
  BY <1>2, <1>3 DEF Stands
<1> QED BY <1>2, <1>3, <1>4 DEF words_left, Since

(* What a word of message i does to what is handed on. *)
Advances(i) ==
  \/ /\ OfType(i, Orders) /\ Takes(i) /\ dec_ctrl_o'.valid = FALSE
     /\ shown_ids' = <<shown_ids[2], IdOf(i)>>
  \/ InMsg(i) /\ pkt[i].type \notin Orders /\ Keeps /\ TakesCtrl(i)

Begins(i) ==
  /\ state_q = "IDLE" /\ i + 1 \in 1 .. Len(pkt)
  /\ InMsg(i + 1)' /\ Since(i + 1)' \in 4 .. 7
  /\ Keeps /\ dec_ctrl_o' = NoCtrl

NextWord(i) ==
  /\ InMsg(i) /\ InMsg(i)' /\ words_left > 1
  /\ words_left' = words_left - 1 /\ Since(i)' = Since(i) + 4
  /\ Advances(i)

LastWord(i) == InMsg(i) /\ words_left = 1 /\ state_q' = "IDLE" /\ Advances(i)

NoWord(i) ==
  /\ InMsg(i) /\ InMsg(i)'
  /\ words_left' = words_left /\ Since(i)' = Since(i)
  /\ Keeps /\ dec_ctrl_o' = NoCtrl

Idles == state_q = "IDLE" /\ state_q' = "IDLE" /\ Keeps /\ dec_ctrl_o' = NoCtrl

(* The header of message i + 1, or another clock of message i. *)
Moves(i) ==
  \/ Begins(i) /\ Stands(i + 1)'
  \/ Stands(i)' /\ (NextWord(i) \/ LastWord(i) \/ NoWord(i) \/ Idles)

LEMMA ParserMoves ==
  ASSUME Flags, Paced, Wired(pkt), at \in Nat, NEW i, Parsed(i),
         NEW v \in BOOLEAN, v => at < WordsOf(pkt) /\ at' = at + 1,
         at' = at \/ at' = at + 1, ~v /\ at < WordsOf(pkt) => at' = at,
         NEW init_v, Clock(v, init_v), pkt' = pkt, ~failed'
  PROVE  Moves(i)
<1> DEFINE W == WordsOf(pkt)
           last == v /\ at + 1 = W
<1>0. at \in Nat /\ W \in Nat
  BY PayloadFacts
<1>1. ItchClock(pkt, at, v, last, stock_locate_q)
  BY PipeMoves
<1>2. ~ip_error'
  <2>1. failed' = error_o(pkt)
    BY PipeMoves
  <2> QED BY <2>1 DEF error_o
<1>3. \/ ~(v /\ state_q # "IDLE") /\ Keeps /\ dec_ctrl_o' = NoCtrl
      \/ v /\ Advances(i)
  BY ClockKinds DEF Advances
<1>4. Stands(i) /\ i \in 0 .. Len(pkt)
  BY DEF Parsed
<1>5. WordsOf(pkt)' = W
  OBVIOUS
<1>6. CASE v /\ state_q = "IDLE"
  <2>1. Header(pkt, at)
    BY <1>1, <1>6 DEF ItchClock
  <2>2. at < W /\ at' = at + 1
    BY <1>6
  <2>3. AtBorder(i)
    <3>1. ~InMsg(i)
      BY <1>6, NotIdle
    <3>2. ~(at >= W)
      BY <1>0, <2>2
    <3> QED BY ONLY <1>4, <3>1, <3>2 DEF Stands
  <2>4. Good(pkt[i + 1])
    BY <1>2, <2>1, <2>2, <2>3, HeaderRead
  <2>5. /\ Start(pkt, i + 1) + 4 <= 4 * (at + 1) /\ 4 * (at + 1) < End(i + 1)
        /\ at + 1 < W
        /\ state_q' = StateOf(pkt[i + 1].type)
        /\ bytes_left_q' = End(i + 1) - 4 * (at + 1)
        /\ msg_alt_q' = (pkt[i + 1].type \in {"F", "X"})
    BY <2>1, <2>2, <2>3, <2>4, HeaderRead
  <2>6. i + 1 \in 1 .. Len(pkt) /\ Start(pkt, i + 1) = End(i) /\ End(i) \in Nat
    BY <2>2, <2>3, BorderFacts
  <2>7. InMsg(i + 1)'
    <3>1. Wired(pkt)' /\ at' \in Nat /\ (i + 1 \in 1 .. Len(pkt))' /\ Good(pkt[i + 1])'
      BY <1>0, <2>2, <2>4, <2>6 DEF Wired, Good
    <3>2. (Start(pkt, i + 1) + 4 <= 4 * at /\ 4 * at < End(i + 1))'
      BY <2>2, <2>5 DEF End
    <3>3. (/\ state_q = StateOf(pkt[i + 1].type) /\ bytes_left_q = End(i + 1) - 4 * at
           /\ msg_alt_q = (pkt[i + 1].type \in {"F", "X"}))'
      BY <2>2, <2>5 DEF End
    <3> QED BY <3>1, <3>2, <3>3 DEF InMsg
  <2>8. Since(i + 1)' \in 4 .. 7
    <3> DEFINE s == Start(pkt, i + 1)
    <3>1. s \in Nat /\ s <= 4 * at /\ 4 * at < s + 4
      BY <2>3, <2>6 DEF AtBorder
    <3>2. Since(i + 1)' = 4 * (at + 1) - s
      BY <2>2 DEF Since
    <3> HIDE DEF s
    <3> QED BY ONLY <1>0, <3>1, <3>2
  <2>9. Stands(i + 1)'
    BY <1>5, <2>2, <2>5, <2>7 DEF Stands
  <2>10. Keeps /\ dec_ctrl_o' = NoCtrl
    <3>1. ~OfType(i, Orders) /\ ~InMsg(i)
      BY <1>6, NotIdle DEF OfType
    <3> QED BY <1>3, <3>1 DEF Advances
  <2> QED BY <1>6, <2>6, <2>7, <2>8, <2>9, <2>10 DEF Moves, Begins
<1>7. CASE v /\ state_q # "IDLE"
  <2>1. at < W /\ at' = at + 1
    BY <1>7
  <2>2. InMsg(i)
    <3>1. ~AtBorder(i) /\ ~(state_q = "IDLE")
      BY <1>7 DEF AtBorder
    <3> QED BY ONLY <1>4, <3>1 DEF Stands
  <2>3. BodyWord(pkt, at, last, stock_locate_q)
    BY <1>1, <1>7 DEF ItchClock
  <2>4. Countdown(last) /\ msg_alt_q' = msg_alt_q
    BY <2>3 DEF BodyWord
  <2>5. last = (at + 1 = W)
    BY <1>7
  <2>6. Countdown(at + 1 = W)
    BY <2>4, <2>5 DEF Countdown
  <2>7. /\ words_left > 1 => InMsg(i)' /\ words_left' = words_left - 1 /\ at' < WordsOf(pkt)'
        /\ words_left = 1 => state_q' = "IDLE" /\ Stands(i)'
    BY <2>1, <2>2, <2>4, <2>6, Counted
  <2>8. words_left \in 1 .. 12 /\ Start(pkt, i) \in Nat
    BY <2>2, InMsgFacts
  <2>9. Advances(i)
    BY <1>3, <1>7
  <2>10. CASE words_left > 1
    <3>1. Since(i)' = Since(i) + 4
      <4>1. Since(i) = 4 * at - Start(pkt, i) /\ Since(i)' = 4 * (at + 1) - Start(pkt, i)
        BY <2>1 DEF Since
      <4> QED BY ONLY <1>0, <2>8, <4>1
    <3>2. Stands(i)'
      BY <2>7, <2>10 DEF Stands
    <3> QED BY <2>2, <2>7, <2>9, <2>10, <3>1, <3>2 DEF Moves, NextWord
  <2>11. CASE words_left = 1
    BY <2>2, <2>7, <2>9, <2>11 DEF Moves, LastWord
  <2> QED BY <2>8, <2>10, <2>11
<1>8. CASE ~v
  <2>1. Keeps /\ dec_ctrl_o' = NoCtrl
    BY <1>3, <1>8
  <2>2. state_q' = state_q /\ bytes_left_q' = bytes_left_q /\ msg_alt_q' = msg_alt_q
    BY <1>1, <1>8 DEF ItchClock
  <2>3. CASE at < W
    <3>1. at' = at
      BY <1>8, <2>3
    <3>2. /\ InMsg(i)' = InMsg(i) /\ AtBorder(i)' = AtBorder(i) /\ Stands(i)' = Stands(i)
          /\ words_left' = words_left /\ Since(i)' = Since(i)
      BY <2>2, <3>1, Stays
    <3>3. ~(at >= W)
      BY <1>0, <2>3
    <3>4. InMsg(i) \/ AtBorder(i)
      BY ONLY <1>4, <3>3 DEF Stands
    <3>5. CASE InMsg(i)
      BY <1>4, <2>1, <3>2, <3>5 DEF Moves, NoWord
    <3>6. CASE AtBorder(i)
      <4>1. state_q = "IDLE" /\ state_q' = "IDLE"
        BY <2>2, <3>6 DEF AtBorder
      <4> QED BY <1>4, <2>1, <3>2, <4>1 DEF Moves, Idles
    <3> QED BY <3>4, <3>5, <3>6
  <2>4. CASE ~(at < W)
    <3>1. at >= W /\ i = Len(pkt) /\ state_q = "IDLE" /\ bytes_left_q = 0
      BY <1>4, <2>4 DEF Stands
    <3>2. at' >= W
      BY <1>0, <3>1
    <3>3. (at >= WordsOf(pkt) /\ i = Len(pkt) /\ state_q = "IDLE" /\ bytes_left_q = 0)'
      BY <1>5, <2>2, <3>1, <3>2
    <3>4. Stands(i)'
      BY <3>3 DEF Stands
    <3> QED BY <2>1, <3>1, <3>3, <3>4 DEF Moves, Idles
  <2> QED BY <2>3, <2>4
<1> QED BY <1>6, <1>7, <1>8

----------------------------------------------------------------------------
(* A clock: what is read of messages as they are handed on, whether an     *)
(* error is reported with it or not.                                       *)

Taking(i) ==
  \/ Keeps /\ dec_ctrl_o' = NoCtrl
  \/ Advances(i)

LEMMA LocateKept ==
  ASSUME Flags, Wired(pkt), NEW i, Parsed(i), NEW init_v, ControlClock(init_v, dec_ctrl(pkt))
  PROVE  OfType(i, {"R"}) \/ stock_locate_q' = stock_locate_q
<1> DEFINE msg == dec_ctrl(pkt)
<1>1. stock_locate_q' = IF msg.kind = "DIRECTORY" /\ OfStock(msg)
                        THEN [valid |-> TRUE, stock_locate |-> msg.stock_locate]
                        ELSE stock_locate_q
  BY DEF ControlClock
<1>2. CASE ~dec_ctrl_o.valid
  <2>1. msg.kind = "NONE"
    BY <1>2 DEF dec_ctrl, NoMsg
  <2> HIDE DEF msg
  <2> QED BY <1>1, <2>1
<1>3. CASE dec_ctrl_o.valid
  <2>1. /\ i \in 1 .. Len(pkt) /\ dec_ctrl_o.fields = CtrlFieldsOf(i)
        /\ \/ pkt[i].type \in {"S", "h"}
           \/ OfType(i, {"R"})
           \/ pkt[i].type = "H"
    BY <1>3 DEF Parsed, CtrlComes, OfType
  <2>2. CASE OfType(i, {"R"})
    BY <2>2
  <2>3. CASE pkt[i].type \in {"S", "H", "h"}
    <3>1. CtrlFieldsOf(i)[1][1] = i
      BY <2>3 DEF CtrlFieldsOf
    <3>2. msg = pkt[i].body
      BY <1>3, <2>1, <3>1 DEF dec_ctrl
    <3>3. pkt[i].body.kind = KindOf(pkt[i].type)
      BY <2>1, MsgFacts
    <3>4. KindOf(pkt[i].type) # "DIRECTORY"
      BY <2>3 DEF KindOf
    <3>5. msg.kind # "DIRECTORY"
      BY <3>2, <3>3, <3>4
    <3> HIDE DEF msg
    <3> QED BY <1>1, <3>5
  <2> QED BY <2>1, <2>2, <2>3
<1> QED BY <1>2, <1>3 DEF Flags

LEMMA FlagsKept ==
  ASSUME Flags, Pipe, NEW i, Taking(i)
  PROVE  Flags'
<1>1. /\ dec_book_del_q.valid \in BOOLEAN /\ dec_book_q.valid \in BOOLEAN
      /\ match_locate_q \in BOOLEAN
      /\ "valid" \in DOMAIN dec_book_q /\ "valid" \in DOMAIN dec_book_del_q
  BY DEF Flags
<1>2. lookup'.valid \in BOOLEAN
  BY DEF Pipe, NoLookup
<1>3. NoBook.valid = FALSE /\ NoCtrl.valid = FALSE /\ "valid" \in DOMAIN NoBook
  BY DEF NoBook, NoCtrl
<1>4. ASSUME NEW id
      PROVE  /\ [NoBook EXCEPT !.order_id = id].valid = FALSE
             /\ "valid" \in DOMAIN [NoBook EXCEPT !.order_id = id]
  BY DEF NoBook
<1>5. CASE Keeps /\ (dec_ctrl_o' = NoCtrl \/ TakesCtrl(i))
  <2>1. /\ dec_book_del_q'.valid \in BOOLEAN /\ dec_book_q'.valid \in BOOLEAN
        /\ match_locate_q' \in BOOLEAN
        /\ "valid" \in DOMAIN dec_book_q' /\ "valid" \in DOMAIN dec_book_del_q'
    BY <1>1, <1>3, <1>4, <1>5 DEF Keeps
  <2>2. CASE dec_ctrl_o' = NoCtrl
    BY <1>2, <1>3, <2>1, <2>2 DEF Flags
  <2>3. CASE TakesCtrl(i)
    <3>1. dec_ctrl_o'.valid = (pkt[i].type \in {"S", "R", "H", "h"} /\ words_left = CtrlAt[pkt[i].type])
      BY <2>3 DEF TakesCtrl
    <3>2. dec_ctrl_o'.valid \in BOOLEAN
      BY ONLY <3>1, Zenon
    <3> QED BY <1>2, <2>1, <3>2 DEF Flags
  <2> QED BY <1>5, <2>2, <2>3
<1>6. CASE Takes(i) /\ dec_ctrl_o'.valid = FALSE /\ OfType(i, Orders)
  <2>1. dec_book_del_q'.valid \in BOOLEAN /\ "valid" \in DOMAIN dec_book_del_q'
    BY <1>1, <1>3, <1>6 DEF Takes
  <2>2. dec_book_q'.valid \in BOOLEAN /\ "valid" \in DOMAIN dec_book_q'
    BY <1>1, <1>4, <1>6 DEF Takes
  <2>3. match_locate_q' =
          IF words_left = LocateAt[pkt[i].type]
          THEN stock_locate_q.valid /\ pkt[i].body.kind = "BOOK"
               /\ pkt[i].body.stock_locate = stock_locate_q.stock_locate
          ELSE match_locate_q
    BY <1>6 DEF Takes
  <2>4. match_locate_q' \in BOOLEAN
    <3>1. CASE words_left = LocateAt[pkt[i].type]
      BY ONLY <2>3, <3>1, Zenon
    <3>2. CASE ~(words_left = LocateAt[pkt[i].type])
      BY ONLY <1>1, <2>3, <3>2, Zenon
    <3> QED BY <3>1, <3>2
  <2> QED BY <1>2, <1>6, <2>1, <2>2, <2>4 DEF Flags
<1> QED BY <1>5, <1>6 DEF Taking, Advances

(* What is passed on in the next clock. *)
Passes(i) ==
  /\ ~dec_book_del_q.valid /\ OfType(i, Orders) /\ match_locate_q
  /\ words_left = BookAt[pkt[i].type]
  /\ dec_book_q'.order_id = IdOf(i) /\ ~dec_book_q'.has_rep
  /\ dec_book_q'.msg_type \in {"ADD", "REDUCE", "REPLACE"}
  /\ FieldsOf(i, dec_book_q'.msg_type, dec_book_q'.fields)
  /\ shown_ids' = <<shown_ids[2], IdOf(i)>>

LEMMA Passed ==
  ASSUME Flags, NEW i, Taking(i), dec_book_q'.valid
  PROVE  \/ dec_book_del_q.valid /\ dec_book_q' = dec_book_del_q
         \/ Passes(i)
<1>1. ASSUME NEW id PROVE [NoBook EXCEPT !.order_id = id].valid = FALSE
  BY DEF NoBook
<1>2. CASE Keeps
  BY <1>1, <1>2 DEF Keeps
<1>3. CASE Takes(i) /\ OfType(i, Orders) /\ shown_ids' = <<shown_ids[2], IdOf(i)>>
  <2>1. CASE dec_book_del_q.valid
    BY <1>3, <2>1 DEF Takes
  <2>2. CASE ~dec_book_del_q.valid
    <3>1. words_left = BookAt[pkt[i].type]
      BY <1>1, <1>3, <2>2 DEF Takes
    <3>2. dec_book_q' = [valid |-> match_locate_q, msg_type |-> BookType, has_rep |-> FALSE,
                         order_id |-> IdOf(i), fields |-> Fields(pkt, at, BookPlaces)]
      BY <1>3, <2>2, <3>1 DEF Takes
    <3>3. FieldsOf(i, BookType, Fields(pkt, at, BookPlaces))
      <4>1. Reads(i)
        BY <1>3, OrderReads DEF OfType
      <4> QED BY <3>1, <4>1 DEF Reads
    <3>4. BookType \in {"ADD", "REDUCE", "REPLACE"}
      BY DEF BookType
    <3>5. /\ dec_book_q'.msg_type = BookType /\ dec_book_q'.order_id = IdOf(i)
          /\ dec_book_q'.has_rep = FALSE /\ dec_book_q'.fields = Fields(pkt, at, BookPlaces)
          /\ dec_book_q'.valid = match_locate_q
      BY <3>2
    <3>6. match_locate_q
      BY <3>5
    <3> QED BY <1>3, <2>2, <3>1, <3>3, <3>4, <3>5, <3>6 DEF Passes
  <2> QED BY <2>1, <2>2
<1> QED BY <1>2, <1>3 DEF Taking, Advances

(* The types of what is passed on. *)
LEMMA PassedTypes ==
  ASSUME NEW i, Passes(i)
  PROVE  /\ dec_book_q'.msg_type = "ADD" => pkt[i].type \in {"A", "F"}
         /\ dec_book_q'.msg_type = "REDUCE" => pkt[i].type \in {"E", "C", "X"}
         /\ dec_book_q'.msg_type = "REPLACE" => pkt[i].type = "U"
         /\ pkt[i].type \in {"A", "F", "E", "C", "X", "U"}
         /\ dec_book_q'.msg_type # "DELETE"
<1>1. /\ FieldsOf(i, dec_book_q'.msg_type, dec_book_q'.fields)
      /\ dec_book_q'.msg_type \in {"ADD", "REDUCE", "REPLACE"}
  BY DEF Passes
<1> DEFINE m == dec_book_q'.msg_type
<1>2. CASE m = "ADD"
  BY <1>1, <1>2 DEF FieldsOf
<1>3. CASE m = "REDUCE"
  BY <1>1, <1>3 DEF FieldsOf
<1>4. CASE m = "REPLACE"
  BY <1>1, <1>4 DEF FieldsOf
<1> QED BY <1>1, <1>2, <1>3, <1>4

(* When a message is passed on, most of its words have come.               *)
LEMMA Ripe ==
  ASSUME NEW i, OfType(i, Orders), words_left = PassAt(pkt[i].type)
  PROVE  /\ Since(i) \in 17 .. 51
         /\ pkt[i].type \in {"E", "C", "X"} => Since(i) >= 21
         /\ pkt[i].type \in {"A", "F"} => Since(i) >= 34
<1> DEFINE w == words_left
           b == Since(i)
           t == pkt[i].type
           l == pkt[i].len
<1>1. InMsg(i) /\ t \in Orders
  BY DEF OfType
<1>2. b \in 4 .. 51 /\ w \in 1 .. 12 /\ b + 4 * w >= l + 2
  BY <1>1, SinceFacts
<1>3. /\ t = "A" => l = 36 /\ w = 1
      /\ t = "F" => l = 40 /\ w = 2
      /\ t = "E" => l = 31 /\ w = 3
      /\ t = "X" => l = 23 /\ w = 1
      /\ t = "C" => l = 36 /\ w = 4
      /\ t = "D" => l = 19 /\ w = 1
      /\ t = "U" => l = 35 /\ w = 5
  <2>1. t \in DOMAIN msg_len /\ l = msg_len[t]
    BY <1>1 DEF InMsg, Good
  <2>2. w = PassAt(t)
    OBVIOUS
  <2> HIDE DEF w, l, t
  <2> QED BY ONLY <2>1, <2>2 DEF msg_len, PassAt, BookAt, DelAt
<1>4. t = "A" \/ t = "F" \/ t = "E" \/ t = "X" \/ t = "C" \/ t = "D" \/ t = "U"
  BY <1>1 DEF Orders
<1>5. /\ t \in {"E", "C", "X"} => t = "E" \/ t = "C" \/ t = "X"
      /\ t \in {"A", "F"} => t = "A" \/ t = "F"
  OBVIOUS
<1> HIDE DEF w, b, l, t
<1>6. /\ t = "A" => b >= 34
      /\ t = "F" => b >= 34
      /\ t = "E" => b >= 21
      /\ t = "X" => b >= 21
      /\ t = "C" => b >= 21
      /\ t = "D" => b >= 17
      /\ t = "U" => b >= 17
  BY ONLY <1>2, <1>3
<1>7. b >= 17
  BY ONLY <1>2, <1>4, <1>6
<1>8. b \in 17 .. 51
  BY ONLY <1>2, <1>7
<1> QED BY ONLY <1>5, <1>6, <1>8 DEF t, b

LEMMA Ready ==
  ASSUME Flags, Paced, NEW i, Parsed(i), OfType(i, Orders), words_left = PassAt(pkt[i].type)
  PROVE  /\ ~dec_book_del_q.valid /\ ~dec_book_q.valid /\ ~lookup.valid
         /\ quiet \in 3 .. 9
         /\ pkt[i].type \in {"E", "C", "X"} => quiet >= 4
         /\ pkt[i].type \in {"A", "F"} => quiet >= 7
<1> DEFINE b == Since(i)
           short == pkt[i].type \in {"E", "C", "X"}
           long == pkt[i].type \in {"A", "F"}
<1>1. b \in 17 .. 51 /\ (short => b >= 21) /\ (long => b >= 34)
  BY Ripe
<1>2. words_left \in 1 .. 12
  BY SinceFacts DEF OfType
<1>3. words_left >= PassAt(pkt[i].type)
  BY <1>2
<1>4. /\ ~dec_book_del_q.valid
      /\ dec_book_q.valid => Within(i, 2)
      /\ lookup.valid => Within(i, 2) \/ Within(i, 3)
      /\ ~dec_book_q.valid /\ ~lookup.valid => quiet = 9 \/ 4 * quiet + 7 >= b
  BY <1>3 DEF Parsed, Rests, Since
<1>5. (Within(i, 2) => b < 8) /\ (Within(i, 3) => b < 12)
  BY DEF Within, Since
<1>6. quiet \in 0 .. 9
  BY DEF Paced
<1> HIDE DEF b, short, long
<1>7. ~Within(i, 2) /\ ~Within(i, 3)
  BY ONLY <1>1, <1>5
<1>8. ~dec_book_q.valid /\ ~lookup.valid
  BY ONLY <1>4, <1>7
<1>9. quiet = 9 \/ 4 * quiet + 7 >= b
  BY ONLY <1>4, <1>8
<1>10. quiet \in 3 .. 9 /\ (short => quiet >= 4) /\ (long => quiet >= 7)
  BY ONLY <1>1, <1>6, <1>9
<1> QED BY <1>4, <1>8, <1>10 DEF short, long

LEMMA QuietGrows ==
  ASSUME Pipe, quiet \in 0 .. 9
  PROVE  /\ quiet' \in 1 .. 9
         /\ ~lookup.valid => quiet' = (IF quiet < 9 THEN quiet + 1 ELSE 9)
         /\ lookup.valid /\ lookup.msg_type = "DELETE" /\ ~lookup.has_rep => quiet' = 2
BY DEF Pipe

LEMMA PacedKept ==
  ASSUME Flags, Paced, Pipe, NEW i, Parsed(i), Taking(i)
  PROVE  Paced'
<1>1. quiet \in 0 .. 9
  BY DEF Paced
<1>2. quiet' \in 0 .. 9
  BY <1>1, QuietGrows
<1>3. ASSUME dec_book_q'.valid
      PROVE  /\ ~lookup'.valid /\ quiet' + 1 >= Needed(dec_book_q'.msg_type)
             /\ dec_book_q'.msg_type # "DELETE" => ~dec_book_q'.has_rep
  <2>1. CASE dec_book_del_q.valid /\ dec_book_q' = dec_book_del_q
    <3>1. dec_book_q'.msg_type = "DELETE" /\ quiet >= 4 /\ ~dec_book_q.valid /\ ~lookup.valid
      BY <2>1 DEF Parsed, DelComes
    <3>2. ~lookup'.valid
      BY <3>1 DEF Pipe, NoLookup
    <3>3. quiet' + 1 >= 6
      <4>1. quiet' = IF quiet < 9 THEN quiet + 1 ELSE 9
        BY <1>1, <3>1, QuietGrows
      <4> QED BY ONLY <1>1, <3>1, <4>1
    <3>4. Needed("DELETE") = 6
      BY DEF Needed
    <3> QED BY <3>1, <3>2, <3>3, <3>4
  <2>2. CASE Passes(i)
    <3> DEFINE m == dec_book_q'.msg_type
    <3>1. /\ ~dec_book_del_q.valid /\ OfType(i, Orders) /\ words_left = BookAt[pkt[i].type]
          /\ ~dec_book_q'.has_rep
          /\ m \in {"ADD", "REDUCE", "REPLACE"}
      BY <2>2 DEF Passes
    <3>2. /\ m = "ADD" => pkt[i].type \in {"A", "F"}
          /\ m = "REDUCE" => pkt[i].type \in {"E", "C", "X"}
          /\ m = "REPLACE" => pkt[i].type = "U"
          /\ pkt[i].type \in {"A", "F", "E", "C", "X", "U"}
      BY <2>2, PassedTypes
    <3>3. CASE pkt[i].type # "U"
      <4>1. words_left = PassAt(pkt[i].type)
        BY <3>1, <3>2, <3>3 DEF PassAt
      <4>2. /\ ~dec_book_q.valid /\ ~lookup.valid /\ quiet \in 3 .. 9
            /\ pkt[i].type \in {"E", "C", "X"} => quiet >= 4
            /\ pkt[i].type \in {"A", "F"} => quiet >= 7
        BY <3>1, <4>1, Ready
      <4>3. ~lookup'.valid
        BY <4>2 DEF Pipe, NoLookup
      <4>4. quiet' = IF quiet < 9 THEN quiet + 1 ELSE 9
        BY <1>1, <4>2, QuietGrows
      <4>5. Needed("ADD") = 9 /\ Needed("REDUCE") = 6
        BY DEF Needed
      <4>6. (m = "ADD" /\ quiet >= 7) \/ (m = "REDUCE" /\ quiet >= 4)
        BY <3>1, <3>2, <3>3, <4>2
      <4>7. quiet' + 1 >= Needed(m)
        <5>1. (quiet >= 7 => quiet' + 1 >= 9) /\ (quiet >= 4 => quiet' + 1 >= 6)
          BY ONLY <4>2, <4>4
        <5> HIDE DEF m
        <5> QED BY ONLY <4>5, <4>6, <5>1
      <4> QED BY <3>1, <4>3, <4>7
    <3>4. CASE pkt[i].type = "U"
      <4>1. words_left = 1
        BY <3>1, <3>4 DEF BookAt
      <4>2. m = "REPLACE"
        BY <3>1, <3>2, <3>4
      <4>3. OfType(i, {"U"})
        BY <3>1, <3>4 DEF OfType
      <4>4. ~dec_book_q.valid /\ ~lookup.valid /\ quiet >= 1
        BY <4>1, <4>3 DEF Parsed, Halves
      <4>5. ~lookup'.valid
        BY <4>4 DEF Pipe, NoLookup
      <4>6. quiet' = IF quiet < 9 THEN quiet + 1 ELSE 9
        BY <1>1, <4>4, QuietGrows
      <4>7. Needed("REPLACE") = 3
        BY DEF Needed
      <4>8. quiet' + 1 >= 3
        BY ONLY <1>1, <4>4, <4>6
      <4> QED BY <3>1, <4>2, <4>5, <4>7, <4>8
    <3> QED BY <3>3, <3>4
  <2> QED BY <1>3, <2>1, <2>2, Passed
<1> QED BY <1>2, <1>3 DEF Paced

LEMMA DrainedKept ==
  ASSUME Flags, Drained, Pipe, NEW i, Parsed(i), Taking(i), Wired(pkt), at \in Nat,
         at' = at \/ at' = at + 1, at < WordsOf(pkt) => at' <= WordsOf(pkt),
         ~(at < WordsOf(pkt)) => Keeps /\ dec_ctrl_o' = NoCtrl, pkt' = pkt
  PROVE  Drained'
<1> DEFINE W == WordsOf(pkt)
<1>1. at \in Nat /\ W \in Nat /\ WordsOf(pkt)' = W
  BY PayloadFacts
<1>2. NoBook.valid = FALSE /\ NoCtrl.valid = FALSE /\ NoLookup.valid = FALSE
  BY DEF NoBook, NoCtrl, NoLookup
<1>3. at > W => ~dec_book_del_q.valid
  BY DEF Drained
<1>4. at > W + 1 => ~dec_book_q.valid
  BY DEF Drained
<1> HIDE DEF W
<1>5. at' > W => ~(at < W)
  BY ONLY <1>1, at' = at \/ at' = at + 1, at < W => at' <= W DEF W
<1>6. at' > W => ~dec_book_del_q'.valid /\ ~dec_ctrl_o'.valid
  BY <1>2, <1>5 DEF Keeps, W
<1>7. ASSUME at' > W + 1 PROVE ~dec_book_q'.valid
  <2>1. at > W /\ ~(at < W)
    BY ONLY <1>1, <1>7, at' = at \/ at' = at + 1
  <2>2. Keeps
    BY <2>1 DEF W
  <2>3. [NoBook EXCEPT !.order_id = dec_book_q.order_id].valid = FALSE
    BY DEF NoBook
  <2> QED BY <1>3, <2>1, <2>2, <2>3 DEF Keeps
<1>8. ASSUME at' > W + 2 PROVE ~lookup'.valid
  <2>1. at > W + 1
    BY ONLY <1>1, <1>8, at' = at \/ at' = at + 1
  <2> QED BY <1>2, <1>4, <2>1 DEF Pipe
<1> QED BY <1>1, <1>6, <1>7, <1>8 DEF Drained

(* What is passed on is the message in hand, under the id shown before.    *)
LEMMA PassesOwn ==
  ASSUME NEW i, Parsed(i), Passes(i)
  PROVE  /\ OwnBody(i) /\ ~OfType(i, {"R"})
         /\ IdOf(i) = <<i, IF pkt[i].type = "U" THEN NEW_ID ELSE SYMBOL>>
         /\ shown_ids[2] = IdOf(i)
<1> DEFINE t == pkt[i].type
<1>1. /\ OfType(i, Orders) /\ words_left = BookAt[t] /\ match_locate_q
      /\ t \in {"A", "F", "E", "C", "X", "U"}
  BY PassedTypes DEF Passes
<1>2. BookAt[t] < LocateAt[t] /\ BookAt[t] \notin TakesId(t) /\ (t = "U" => BookAt[t] = 1)
  BY <1>1 DEF BookAt, LocateAt, TakesId
<1>3. OwnBody(i)
  BY <1>1, <1>2 DEF Parsed, Matched
<1>4. ~OfType(i, {"R"})
  BY <1>1 DEF OfType
<1>5. IdOf(i) = dec_book_q.order_id
  BY <1>1, <1>2 DEF IdOf
<1>6. CASE t = "U"
  <2>1. OfType(i, {"U"}) /\ words_left = 1
    BY <1>1, <1>2, <1>6 DEF OfType
  <2>2. dec_book_q.order_id = <<i, NEW_ID>> /\ shown_ids[2] = <<i, NEW_ID>>
    BY <2>1 DEF Parsed, IdKept, IdShown
  <2> QED BY <1>3, <1>4, <1>5, <1>6, <2>2
<1>7. CASE t # "U"
  <2>1. OfType(i, {"A", "F", "E", "X", "C"})
    BY <1>1, <1>7 DEF OfType
  <2>2. dec_book_q.order_id = <<i, SYMBOL>> /\ shown_ids[2] = <<i, SYMBOL>>
    BY <1>1, <2>1 DEF Parsed, IdKept, IdShown
  <2> QED BY <1>3, <1>4, <1>5, <1>7, <2>2
<1> QED BY <1>6, <1>7

(* A deletion is passed on under the id shown before.                      *)
LEMMA DelPasses ==
  ASSUME Flags, NEW i, Parsed(i), Taking(i), dec_book_del_q.valid
  PROVE  /\ i \in 1 .. Len(pkt) /\ OwnBody(i) /\ ~OfType(i, {"R"})
         /\ dec_book_q' = dec_book_del_q
         /\ dec_book_del_q = [valid |-> TRUE, msg_type |-> "DELETE", has_rep |-> (pkt[i].type = "U"),
                              order_id |-> <<i, SYMBOL>>, fields |-> <<>>]
         /\ pkt[i].type \in {"U", "D"}
         /\ shown_ids' = << <<i, SYMBOL>>, <<i, SYMBOL>> >>
         /\ Keeps \/ OfType(i, {"U"})
<1>1. /\ i \in 1 .. Len(pkt) /\ OwnBody(i)
      /\ dec_book_del_q = [valid |-> TRUE, msg_type |-> "DELETE", has_rep |-> (pkt[i].type = "U"),
                           order_id |-> <<i, SYMBOL>>, fields |-> <<>>]
      /\ dec_book_q.order_id = <<i, SYMBOL>> /\ shown_ids[2] = <<i, SYMBOL>>
      /\ \/ OfType(i, {"U"}) /\ words_left = 4
         \/ pkt[i].type = "D" /\ state_q = "IDLE"
  BY DEF Parsed, DelComes
<1>2. ~OfType(i, {"R"}) /\ pkt[i].type \in {"U", "D"}
  BY <1>1 DEF OfType
<1>3. CASE Keeps
  BY <1>1, <1>2, <1>3 DEF Keeps
<1>4. CASE /\ OfType(i, Orders) /\ Takes(i)
           /\ shown_ids' = <<shown_ids[2], IdOf(i)>>
  <2>1. OfType(i, {"U"}) /\ words_left = 4
    <3>1. state_q # "IDLE"
      BY <1>4, NotIdle DEF OfType
    <3> QED BY <1>1, <3>1
  <2>2. IdOf(i) = dec_book_q.order_id
    <3>1. TakesId(pkt[i].type) = {5, 2}
      BY <2>1 DEF TakesId, OfType
    <3> QED BY <2>1, <3>1 DEF IdOf
  <2>3. dec_book_q' = dec_book_del_q
    BY <1>4 DEF Takes
  <2> QED BY <1>1, <1>2, <1>4, <2>1, <2>2, <2>3
<1> QED BY <1>3, <1>4 DEF Taking, Advances

LEMMA HandsOnKept ==
  ASSUME Flags, Paced, Pipe, Wired(pkt), NEW i, Parsed(i), Taking(i), pkt' = pkt,
         OfType(i, {"R"}) \/ stock_locate_q' = stock_locate_q
  PROVE  HandsOn'
<1>1. KeepsPace'
  <2> SUFFICES ASSUME lookup'.valid PROVE quiet' >= Needed(lookup'.msg_type)
    BY DEF KeepsPace
  <2>1. dec_book_q.valid /\ lookup'.msg_type = dec_book_q.msg_type
    BY DEF Pipe, NoLookup
  <2>2. ~lookup.valid /\ quiet + 1 >= Needed(dec_book_q.msg_type) /\ quiet \in 0 .. 9
    BY <2>1 DEF Paced
  <2>3. quiet' = IF quiet < 9 THEN quiet + 1 ELSE 9
    BY <2>2, QuietGrows
  <2> DEFINE need == Needed(dec_book_q.msg_type)
  <2>4. need \in 3 .. 9
    BY DEF Needed
  <2> HIDE DEF need
  <2>5. quiet + 1 >= need
    BY <2>2 DEF need
  <2>6. quiet' >= need
    BY ONLY <2>2, <2>3, <2>4, <2>5
  <2> QED BY <2>1, <2>6 DEF need
<1>2. AddressInTime'
  <2> SUFFICES ASSUME dec_book_q'.valid
               PROVE  shown_ids' = <<dec_book_q'.order_id, dec_book_q'.order_id>>
    BY DEF AddressInTime
  <2>1. CASE dec_book_del_q.valid
    <3>1. dec_book_q'.order_id = <<i, SYMBOL>> /\ shown_ids' = << <<i, SYMBOL>>, <<i, SYMBOL>> >>
      BY <2>1, DelPasses
    <3> QED BY <3>1
  <2>2. CASE Passes(i)
    <3>1. shown_ids[2] = IdOf(i) /\ dec_book_q'.order_id = IdOf(i) /\ shown_ids' = <<shown_ids[2], IdOf(i)>>
      BY <2>2, PassesOwn DEF Passes
    <3> QED BY <3>1
  <2> QED BY <2>1, <2>2, Passed
<1>3. dec_book_q'.valid =>
        LET k == dec_book_q'.order_id[1]
            type == pkt'[k].type
            new == dec_book_q'.msg_type = "REPLACE"
        IN  /\ pkt'[k].body = [kind |-> "BOOK", stock_locate |-> stock_locate_q'.stock_locate]
            /\ dec_book_q'.order_id[2] = IF new THEN NEW_ID ELSE SYMBOL
            /\ CASE dec_book_q'.msg_type = "ADD" ->
                       type \in {"A", "F"} /\ dec_book_q'.fields = << <<k, CODE>>, <<k, HALT>>, <<k, PRICE>> >>
                 [] dec_book_q'.msg_type = "REDUCE" ->
                       type \in {"E", "C", "X"} /\ dec_book_q'.fields = << <<k, CODE>> >>
                 [] dec_book_q'.msg_type = "DELETE" ->
                       type = (IF dec_book_q'.has_rep THEN "U" ELSE "D")
                 [] dec_book_q'.msg_type = "REPLACE" ->
                       type = "U" /\ dec_book_q'.fields = << <<k, NEW_SHARES>>, <<k, NEW_PRICE>> >>
  <2> SUFFICES ASSUME dec_book_q'.valid
               PROVE  LET k == dec_book_q'.order_id[1]
                          type == pkt'[k].type
                          new == dec_book_q'.msg_type = "REPLACE"
                      IN  /\ pkt'[k].body = [kind |-> "BOOK", stock_locate |-> stock_locate_q'.stock_locate]
                          /\ dec_book_q'.order_id[2] = IF new THEN NEW_ID ELSE SYMBOL
                          /\ CASE dec_book_q'.msg_type = "ADD" ->
                                     type \in {"A", "F"} /\ dec_book_q'.fields = << <<k, CODE>>, <<k, HALT>>, <<k, PRICE>> >>
                               [] dec_book_q'.msg_type = "REDUCE" ->
                                     type \in {"E", "C", "X"} /\ dec_book_q'.fields = << <<k, CODE>> >>
                               [] dec_book_q'.msg_type = "DELETE" ->
                                     type = (IF dec_book_q'.has_rep THEN "U" ELSE "D")
                               [] dec_book_q'.msg_type = "REPLACE" ->
                                     type = "U" /\ dec_book_q'.fields = << <<k, NEW_SHARES>>, <<k, NEW_PRICE>> >>
    OBVIOUS
  <2>1. CASE dec_book_del_q.valid
    <3>1. /\ OwnBody(i) /\ stock_locate_q' = stock_locate_q
          /\ dec_book_q'.msg_type = "DELETE" /\ dec_book_q'.has_rep = (pkt[i].type = "U")
          /\ dec_book_q'.order_id = <<i, SYMBOL>> /\ pkt[i].type \in {"U", "D"}
      BY <2>1, DelPasses
    <3>2. dec_book_q'.order_id[1] = i /\ dec_book_q'.order_id[2] = SYMBOL
      BY <3>1
    <3> QED BY <3>1, <3>2 DEF OwnBody
  <2>2. CASE Passes(i)
    <3> DEFINE m == dec_book_q'.msg_type
    <3>1. /\ OwnBody(i) /\ stock_locate_q' = stock_locate_q
          /\ dec_book_q'.order_id = <<i, IF pkt[i].type = "U" THEN NEW_ID ELSE SYMBOL>>
      BY <2>2, PassesOwn DEF Passes
    <3>2. dec_book_q'.order_id[1] = i
      BY <3>1
    <3>3. dec_book_q'.order_id[2] = IF pkt[i].type = "U" THEN NEW_ID ELSE SYMBOL
      BY <3>1
    <3>4. /\ m \in {"ADD", "REDUCE", "REPLACE"}
          /\ FieldsOf(i, m, dec_book_q'.fields)
      BY <2>2 DEF Passes
    <3>5. /\ m = "ADD" => pkt[i].type \in {"A", "F"}
          /\ m = "REDUCE" => pkt[i].type \in {"E", "C", "X"}
          /\ m = "REPLACE" => pkt[i].type = "U"
      BY <2>2, PassedTypes
    <3>6. CASE m = "ADD"
      BY <3>1, <3>2, <3>3, <3>4, <3>5, <3>6 DEF FieldsOf, OwnBody
    <3>7. CASE m = "REDUCE"
      BY <3>1, <3>2, <3>3, <3>4, <3>5, <3>7 DEF FieldsOf, OwnBody
    <3>8. CASE m = "REPLACE"
      BY <3>1, <3>2, <3>3, <3>4, <3>5, <3>8 DEF FieldsOf, OwnBody
    <3> QED BY <3>4, <3>6, <3>7, <3>8
  <2> QED BY <2>1, <2>2, Passed
<1>4. ASSUME dec_ctrl_o'.valid
      PROVE  /\ pkt[i].type \in {"S", "R", "H", "h"}
             /\ dec_ctrl_o'.fields = CtrlFieldsOf(i)
  <2>1. dec_ctrl_o' # NoCtrl
    BY <1>4 DEF NoCtrl
  <2>2. TakesCtrl(i)
    BY <1>4, <2>1 DEF Taking, Advances
  <2>3. dec_ctrl_o'.valid = (pkt[i].type \in {"S", "R", "H", "h"} /\ words_left = CtrlAt[pkt[i].type])
    BY <2>2 DEF TakesCtrl
  <2>4. pkt[i].type \in {"S", "R", "H", "h"}
    BY ONLY <1>4, <2>3, Zenon
  <2> QED BY <1>4, <2>2, <2>4 DEF TakesCtrl
<1>5. dec_ctrl_o'.valid =>
        LET k == dec_ctrl_o'.fields[1][1]
        IN  dec_ctrl_o'.fields =
              CASE pkt'[k].type = "S" -> << <<k, SYMBOL>> >>
                [] pkt'[k].type = "R" -> << <<k, LOCATE>>, <<k, SYMBOL>> >>
                [] pkt'[k].type = "H" -> << <<k, LOCATE>>, <<k, SYMBOL>>, <<k, CODE>> >>
                [] pkt'[k].type = "h" -> << <<k, LOCATE>>, <<k, SYMBOL>>, <<k, CODE>>, <<k, HALT>> >>
  <2> SUFFICES ASSUME dec_ctrl_o'.valid
               PROVE  dec_ctrl_o'.fields[1][1] = i /\ dec_ctrl_o'.fields = CtrlFieldsOf(i)
    BY Zenon DEF CtrlFieldsOf
  <2>1. CtrlFieldsOf(i)[1][1] = i
    BY <1>4 DEF CtrlFieldsOf
  <2> QED BY <1>4, <2>1
<1>6. FieldsAligned'
  BY <1>3, <1>5 DEF FieldsAligned
<1> QED BY <1>1, <1>2, <1>6 DEF HandsOn

----------------------------------------------------------------------------
(* A clock with no error keeps the invariant.                              *)

(* The first words of an order message are too early for all of it.        *)
LEMMA Early ==
  \A j : InMsg(j) /\ Since(j) \in 4 .. 7 /\ pkt[j].type \in Orders =>
           words_left > LocateAt[pkt[j].type] /\ words_left > BookAt[pkt[j].type]
<1> SUFFICES ASSUME NEW j, InMsg(j), Since(j) \in 4 .. 7, pkt[j].type \in Orders
             PROVE  words_left > LocateAt[pkt[j].type] /\ words_left > BookAt[pkt[j].type]
  OBVIOUS
<1> DEFINE w == words_left
           b == Since(j)
           t == pkt[j].type
           l == pkt[j].len
<1>1. b \in 4 .. 7 /\ w \in 1 .. 12 /\ b + 4 * w >= l + 2
  BY SinceFacts
<1>2. t \in Orders /\ t \in DOMAIN msg_len /\ l = msg_len[t]
  BY DEF InMsg, Good
<1> HIDE DEF w, b, t, l
<1>3. /\ l \in 19 .. 40 /\ LocateAt[t] \in 2 .. 6 /\ BookAt[t] \in 0 .. 4
      /\ 4 * LocateAt[t] + 5 < l /\ 4 * BookAt[t] + 5 < l
  BY ONLY <1>2 DEF Orders, msg_len, LocateAt, BookAt
<1>4. w > LocateAt[t] /\ w > BookAt[t]
  BY ONLY <1>1, <1>3
<1> QED BY <1>4 DEF w, t

LEMMA EarlyNext ==
  (\A j : InMsg(j) /\ Since(j) \in 4 .. 7 /\ pkt[j].type \in Orders =>
            words_left > LocateAt[pkt[j].type] /\ words_left > BookAt[pkt[j].type])'
BY Early, PTL

LEMMA NextWords ==
  (\A j : InMsg(j) => words_left \in 1 .. 12)'
<1>1. \A j : InMsg(j) => words_left \in 1 .. 12
  BY InMsgFacts
<1> QED BY <1>1, PTL

(* Without a word read of a message, only a deletion is passed on. *)
LEMMA KeepsPasses ==
  ASSUME Flags, Pipe, Keeps
  PROVE  /\ ~dec_book_del_q'.valid
         /\ dec_book_q'.valid => dec_book_del_q.valid /\ dec_book_q' = dec_book_del_q
         /\ ~dec_book_del_q.valid => dec_book_q'.order_id = dec_book_q.order_id
         /\ lookup'.valid => /\ dec_book_q.valid /\ lookup'.msg_type = dec_book_q.msg_type
                             /\ lookup'.has_rep = dec_book_q.has_rep
         /\ ~lookup'.valid => ~dec_book_q.valid
<1>1. NoBook.valid = FALSE /\ NoLookup.valid = FALSE
  BY DEF NoBook, NoLookup
<1>2. /\ [NoBook EXCEPT !.order_id = dec_book_q.order_id].valid = FALSE
      /\ [NoBook EXCEPT !.order_id = dec_book_q.order_id].order_id = dec_book_q.order_id
  BY DEF NoBook
<1>3. ~dec_book_del_q'.valid
  BY <1>1 DEF Keeps
<1>4. dec_book_q'.valid => dec_book_del_q.valid /\ dec_book_q' = dec_book_del_q
  BY <1>2 DEF Keeps
<1>5. ~dec_book_del_q.valid => dec_book_q'.order_id = dec_book_q.order_id
  BY <1>2 DEF Keeps
<1>6. /\ lookup'.valid => /\ dec_book_q.valid /\ lookup'.msg_type = dec_book_q.msg_type
                          /\ lookup'.has_rep = dec_book_q.has_rep
      /\ ~lookup'.valid => ~dec_book_q.valid
  BY <1>1 DEF Pipe
<1> QED BY <1>3, <1>4, <1>5, <1>6

LEMMA BeginsKept ==
  ASSUME Flags, Paced, Pipe, Wired(pkt), NEW i, Parsed(i), Begins(i), Stands(i + 1)', pkt' = pkt
  PROVE  Parsed(i + 1)'
<1> DEFINE j == i + 1
<1>1. /\ state_q = "IDLE" /\ j \in 1 .. Len(pkt)
      /\ InMsg(j)' /\ Since(j)' \in 4 .. 7
      /\ Keeps /\ dec_ctrl_o' = NoCtrl
  BY DEF Begins
<1>2. ~InMsg(i) /\ (\A types : ~OfType(i, types))
  BY <1>1, NotIdle DEF OfType
<1>3. (pkt[j].type \in Orders => words_left > LocateAt[pkt[j].type] /\ words_left > BookAt[pkt[j].type])'
  BY <1>1, EarlyNext
<1> HIDE DEF j
<1>4. (words_left \in 1 .. 12)'
  BY <1>1, NextWords
<1>5. /\ ~dec_book_del_q'.valid
      /\ dec_book_q'.valid => dec_book_del_q.valid /\ dec_book_q' = dec_book_del_q
      /\ lookup'.valid => /\ dec_book_q.valid /\ lookup'.msg_type = dec_book_q.msg_type
                          /\ lookup'.has_rep = dec_book_q.has_rep
  BY <1>1, KeepsPasses
<1>6. ~dec_ctrl_o'.valid
  BY <1>1 DEF NoCtrl
<1>7. DelComes(j)' /\ CtrlComes(j)'
  BY <1>5, <1>6 DEF DelComes, CtrlComes
<1>8. Matched(j)'
  <2> SUFFICES ASSUME (OfType(j, Orders) /\ words_left < LocateAt[pkt[j].type])' PROVE FALSE
    BY DEF Matched
  <2>1. (pkt[j].type \in Orders)'
    BY DEF OfType
  <2> DEFINE w == words_left'
             u == LocateAt[pkt'[j].type]
  <2>2. w > u /\ w < u /\ w \in 1 .. 12 /\ u \in 2 .. 6
    <3>1. u \in 2 .. 6
      BY <2>1 DEF Orders, LocateAt
    <3> QED BY <1>3, <1>4, <2>1, <3>1
  <2> HIDE DEF w, u
  <2> QED BY ONLY <2>2
<1>9. IdKept(j)'
  <2>1. ASSUME (OfType(j, {"A", "F", "E", "X", "C"}) /\ words_left = BookAt[pkt[j].type])' PROVE FALSE
    <3>1. (pkt[j].type \in Orders)'
      BY <2>1 DEF OfType, Orders
    <3> DEFINE w == words_left'
               u == BookAt[pkt'[j].type]
    <3>2. w > u /\ w = u /\ w \in 1 .. 12
      BY <1>3, <1>4, <2>1, <3>1
    <3> HIDE DEF w, u
    <3> QED BY ONLY <3>2
  <2>2. ASSUME (OfType(j, {"U"}) /\ words_left = 1)' PROVE FALSE
    <3>1. (pkt[j].type \in Orders)' /\ BookAt[pkt'[j].type] = 1
      BY <2>2 DEF OfType, Orders, BookAt
    <3> DEFINE w == words_left'
    <3>2. w > 1 /\ w = 1
      BY <1>3, <2>2, <3>1
    <3> HIDE DEF w
    <3> QED BY ONLY <3>2
  <2> QED BY <2>1, <2>2 DEF IdKept
<1>10. Within(j, 2)' /\ Within(j, 3)'
  BY <1>1 DEF Within, Since
<1>11. dec_book_q'.valid => dec_book_q'.msg_type = "DELETE" /\ ~dec_book_q'.has_rep
  <2> SUFFICES ASSUME dec_book_del_q.valid
               PROVE  dec_book_del_q.msg_type = "DELETE" /\ ~dec_book_del_q.has_rep
    BY <1>5
  <2>1. /\ dec_book_del_q = [valid |-> TRUE, msg_type |-> "DELETE", has_rep |-> (pkt[i].type = "U"),
                             order_id |-> <<i, SYMBOL>>, fields |-> <<>>]
        /\ pkt[i].type = "D"
    BY <1>2 DEF Parsed, DelComes
  <2>2. (pkt[i].type = "U") = FALSE
    BY <2>1
  <2> QED BY <2>1, <2>2
<1>12. lookup'.valid => ~lookup'.has_rep
  <2>1. dec_book_q.valid => ~dec_book_q.has_rep
    BY <1>2 DEF Parsed, Halves
  <2> QED BY <1>5, <2>1
<1>13. Rests(j)'
  <2>1. quiet' \in 1 .. 9
    BY QuietGrows DEF Paced
  <2>2. 4 * quiet' + 7 >= Since(j)'
    <3>1. \A q \in 1 .. 9, b \in 4 .. 7 : 4 * q + 7 >= b
      OBVIOUS
    <3> QED BY <1>1, <2>1, <3>1
  <2>3. (4 * quiet + 7 >= 4 * at - Start(pkt, j))'
    BY <2>2 DEF Since
  <2> QED BY <1>5, <1>10, <1>11, <1>12, <2>3 DEF Rests
<1>14. Halves(j)'
  <2>1. ASSUME (OfType(j, {"U"}) /\ words_left < 5)' PROVE FALSE
    <3>1. (pkt[j].type \in Orders)' /\ LocateAt[pkt'[j].type] = 6
      BY <2>1 DEF OfType, Orders, LocateAt
    <3> DEFINE w == words_left'
    <3>2. w > 6 /\ w < 5 /\ w \in 1 .. 12
      BY <1>3, <1>4, <2>1, <3>1
    <3> HIDE DEF w
    <3> QED BY ONLY <3>2
  <2>2. ~(dec_book_q'.valid /\ dec_book_q'.has_rep) /\ ~(lookup'.valid /\ lookup'.has_rep)
    BY <1>11, <1>12
  <2> QED BY <2>1, <2>2 DEF Halves
<1>15. (j \in 0 .. Len(pkt))' /\ Stands(j)'
  BY <1>1 DEF j
<1>16. Parsed(j)'
  BY <1>7, <1>8, <1>9, <1>13, <1>14, <1>15 DEF Parsed
<1> QED BY <1>16 DEF j

LEMMA RestsGoOn ==
  ASSUME Flags, Paced, Pipe, NEW i, Parsed(i), OfType(i, Orders), words_left >= PassAt(pkt[i].type),
         Since(i)' = Since(i) \/ Since(i)' = Since(i) + 4,
         ~dec_book_del_q'.valid, ~dec_book_q'.valid
  PROVE  Rests(i)'
<1>1. /\ dec_book_q.valid => dec_book_q.msg_type = "DELETE" /\ ~dec_book_q.has_rep /\ Within(i, 2)
      /\ lookup.valid => IF lookup.msg_type = "DELETE" THEN ~lookup.has_rep /\ Within(i, 3)
                         ELSE Within(i, 2)
      /\ ~dec_book_q.valid /\ ~lookup.valid => quiet = 9 \/ 4 * quiet + 7 >= 4 * at - Start(pkt, i)
  BY DEF Parsed, Rests
<1>2. /\ lookup'.valid => /\ dec_book_q.valid /\ lookup'.msg_type = dec_book_q.msg_type
                          /\ lookup'.has_rep = dec_book_q.has_rep
      /\ ~lookup'.valid => ~dec_book_q.valid
  BY DEF Pipe, NoLookup
<1>3. Since(i) \in 4 .. 51
  BY SinceFacts DEF OfType
<1>4. /\ quiet \in 0 .. 9 /\ quiet' \in 1 .. 9
      /\ ~lookup.valid => quiet' = (IF quiet < 9 THEN quiet + 1 ELSE 9)
      /\ lookup.valid /\ lookup.msg_type = "DELETE" /\ ~lookup.has_rep => quiet' = 2
  BY QuietGrows DEF Paced
<1>5. \A n : (Within(i, n) <=> Since(i) < 4 * n) /\ (Within(i, n)' <=> Since(i)' < 4 * n)
  BY DEF Within, Since
<1>6. ASSUME lookup'.valid
      PROVE  lookup'.msg_type = "DELETE" /\ ~lookup'.has_rep /\ Within(i, 3)'
  <2>1. Since(i) < 8
    BY <1>1, <1>2, <1>5, <1>6
  <2>2. \A b \in 4 .. 51 : b < 8 => b < 12 /\ b + 4 < 12
    OBVIOUS
  <2>3. Since(i)' < 12
    BY <1>3, <2>1, <2>2
  <2> QED BY <1>1, <1>2, <1>5, <1>6, <2>3
<1>7. ASSUME ~lookup'.valid PROVE quiet' = 9 \/ 4 * quiet' + 7 >= Since(i)'
  <2>1. CASE lookup.valid /\ lookup.msg_type = "DELETE"
    <3>1. quiet' = 2 /\ Since(i) < 12
      BY <1>1, <1>4, <1>5, <2>1
    <3>2. \A b \in 4 .. 51 : b < 12 => 4 * 2 + 7 >= b /\ 4 * 2 + 7 >= b + 4
      OBVIOUS
    <3> QED BY <1>3, <3>1, <3>2
  <2>2. CASE lookup.valid /\ lookup.msg_type # "DELETE"
    <3>1. Since(i) < 8
      BY <1>1, <1>5, <2>2
    <3>2. \A q \in 1 .. 9, b \in 4 .. 51 : b < 8 => 4 * q + 7 >= b /\ 4 * q + 7 >= b + 4
      OBVIOUS
    <3> QED BY <1>3, <1>4, <3>1, <3>2
  <2>3. CASE ~lookup.valid
    <3>1. quiet = 9 \/ 4 * quiet + 7 >= Since(i)
      BY <1>1, <1>2, <1>7, <2>3 DEF Since
    <3>2. \A q \in 0 .. 9, b \in 4 .. 51 :
            (4 * q + 7 >= b) => 4 * (q + 1) + 7 >= b /\ 4 * (q + 1) + 7 >= b + 4
      OBVIOUS
    <3>3. quiet' = IF quiet < 9 THEN quiet + 1 ELSE 9
      BY <1>4, <2>3
    <3>4. quiet = 9 => quiet' = 9
      BY <3>3
    <3>5. quiet # 9 => quiet' = quiet + 1
      BY <1>4, <3>3
    <3> QED BY <1>3, <1>4, <3>1, <3>2, <3>4, <3>5
  <2> QED BY <2>1, <2>2, <2>3, <1>4
<1>8. ~lookup'.valid => quiet' = 9 \/ 4 * quiet' + 7 >= 4 * at' - Start(pkt', i)
  BY <1>7 DEF Since
<1> QED BY <1>6, <1>8 DEF Rests

LEMMA NotIdleNext ==
  (\A i : InMsg(i) => state_q # "IDLE")'
<1>1. \A i : InMsg(i) => state_q # "IDLE"
  BY NotIdle
<1> QED BY <1>1, PTL

(* The locate is that of the message in hand. *)
LEMMA OwnKept ==
  ASSUME NEW i, OwnBody(i), pkt' = pkt, stock_locate_q' = stock_locate_q
  PROVE  OwnBody(i)'
BY DEF OwnBody

LEMMA NoWordKept ==
  ASSUME Flags, Paced, Pipe, NEW i, Parsed(i), NoWord(i), Stands(i)', pkt' = pkt,
         OfType(i, {"R"}) \/ stock_locate_q' = stock_locate_q
  PROVE  Parsed(i)'
<1>1. /\ InMsg(i) /\ InMsg(i)' /\ words_left' = words_left /\ Since(i)' = Since(i)
      /\ Keeps /\ dec_ctrl_o' = NoCtrl
  BY DEF NoWord
<1>2. /\ ~dec_book_del_q'.valid
      /\ dec_book_q'.valid => dec_book_del_q.valid /\ dec_book_q' = dec_book_del_q
      /\ ~dec_book_del_q.valid => dec_book_q'.order_id = dec_book_q.order_id
      /\ lookup'.valid => /\ dec_book_q.valid /\ lookup'.msg_type = dec_book_q.msg_type
                          /\ lookup'.has_rep = dec_book_q.has_rep
      /\ ~lookup'.valid => ~dec_book_q.valid
  BY <1>1, KeepsPasses
<1>3. \A types : OfType(i, types)' = OfType(i, types)
  BY <1>1 DEF OfType
<1>4. match_locate_q' = match_locate_q /\ shown_ids' = <<shown_ids[2], dec_book_q.order_id>>
  BY <1>1 DEF Keeps
<1>5. words_left \in 1 .. 12
  BY <1>1, InMsgFacts
<1>6. DelComes(i)' /\ CtrlComes(i)'
  BY <1>1, <1>2 DEF DelComes, CtrlComes, NoCtrl
<1>7. IdKept(i)'
  <2>1. ASSUME NEW id, IdShown(id) PROVE IdShown(id)'
    BY <1>2, <1>4, <2>1 DEF IdShown
  <2>2. /\ OfType(i, {"A", "F", "E", "X", "C"}) /\ words_left = BookAt[pkt[i].type] =>
             IdShown(<<i, SYMBOL>>)
        /\ OfType(i, {"U"}) /\ words_left = 1 => IdShown(<<i, NEW_ID>>)
    BY DEF Parsed, IdKept
  <2>3. OfType(i, {"A", "F", "E", "X", "C"})' /\ words_left' = BookAt[pkt'[i].type] =>
             IdShown(<<i, SYMBOL>>)'
    BY <1>1, <1>3, <2>1, <2>2
  <2>4. OfType(i, {"U"})' /\ words_left' = 1 => IdShown(<<i, NEW_ID>>)'
    BY <1>1, <1>3, <2>1, <2>2
  <2> QED BY <2>3, <2>4 DEF IdKept
<1>8. Matched(i)'
  <2> SUFFICES ASSUME OfType(i, Orders), words_left < LocateAt[pkt[i].type], match_locate_q
               PROVE  OwnBody(i)'
    BY <1>1, <1>3, <1>4 DEF Matched
  <2>1. OwnBody(i)
    BY DEF Parsed, Matched
  <2>2. ~OfType(i, {"R"})
    BY DEF OfType, Orders
  <2> QED BY <2>1, <2>2, OwnKept
<1>9. Rests(i)'
  <2>1. CASE OfType(i, Orders) /\ words_left >= PassAt(pkt[i].type)
    <3>1. ~dec_book_del_q.valid
      BY <2>1 DEF Parsed, Rests
    <3> QED BY <1>1, <1>2, <2>1, <3>1, RestsGoOn
  <2>2. CASE ~(OfType(i, Orders) /\ words_left >= PassAt(pkt[i].type))
    <3>1. PassAt(pkt[i].type)' = PassAt(pkt[i].type)
      BY DEF PassAt
    <3> QED BY <1>1, <1>3, <2>2, <3>1 DEF Rests
  <2> QED BY <2>1, <2>2
<1>10. Halves(i)'
  <2>1. /\ dec_book_q.valid /\ dec_book_q.has_rep => OfType(i, {"U"}) /\ words_left \in 3 .. 4
        /\ OfType(i, {"U"}) /\ words_left < 5 =>
             /\ dec_book_del_q.valid => words_left = 4
             /\ dec_book_q.valid => words_left >= 3
    BY DEF Parsed, Halves
  <2>2. dec_book_del_q.valid => /\ dec_book_del_q.has_rep = (pkt[i].type = "U")
                                /\ OfType(i, {"U"}) /\ words_left = 4
    <3>1. state_q # "IDLE"
      BY <1>1, NotIdle
    <3> QED BY <3>1 DEF Parsed, DelComes
  <2>3. quiet' \in 1 .. 9
    BY QuietGrows DEF Paced
  <2>4. dec_book_q'.valid => OfType(i, {"U"}) /\ words_left = 4
    BY <1>2, <2>2
  <2>5. /\ words_left \in 3 .. 4 => words_left \in 2 .. 4
        /\ words_left >= 3 => words_left >= 2
        /\ words_left = 4 => words_left \in 3 .. 4 /\ words_left >= 3
    BY <1>5
  <2>6. lookup'.valid /\ lookup'.has_rep => OfType(i, {"U"}) /\ words_left \in 2 .. 4
    BY <1>2, <2>1, <2>5
  <2>7. lookup'.valid /\ OfType(i, {"U"}) /\ words_left < 5 => words_left >= 2
    BY <1>2, <2>1, <2>5
  <2>8. quiet' >= 1
    BY <2>3
  <2> QED BY <1>1, <1>2, <1>3, <2>4, <2>5, <2>6, <2>7, <2>8 DEF Halves
<1>11. (i \in 0 .. Len(pkt))'
  BY DEF Parsed
<1> QED BY <1>6, <1>7, <1>8, <1>9, <1>10, <1>11 DEF Parsed

LEMMA IdlesKept ==
  ASSUME Flags, Paced, Pipe, NEW i, Parsed(i), Idles, Stands(i)', pkt' = pkt
  PROVE  Parsed(i)'
<1>1. /\ state_q = "IDLE" /\ state_q' = "IDLE" /\ Keeps /\ dec_ctrl_o' = NoCtrl
  BY DEF Idles
<1>2. \A types : ~OfType(i, types) /\ ~OfType(i, types)'
  BY <1>1, NotIdle, NotIdleNext DEF OfType
<1>3. /\ ~dec_book_del_q'.valid
      /\ dec_book_q'.valid => dec_book_del_q.valid /\ dec_book_q' = dec_book_del_q
      /\ lookup'.valid => dec_book_q.valid /\ lookup'.has_rep = dec_book_q.has_rep
  BY <1>1, KeepsPasses
<1>4. DelComes(i)' /\ CtrlComes(i)'
  BY <1>1, <1>3 DEF DelComes, CtrlComes, NoCtrl
<1>5. IdKept(i)' /\ Matched(i)' /\ Rests(i)'
  BY <1>2 DEF IdKept, Matched, Rests
<1>6. Halves(i)'
  <2>1. dec_book_q.valid => ~dec_book_q.has_rep
    BY <1>2 DEF Parsed, Halves
  <2>2. dec_book_del_q.valid => ~dec_book_del_q.has_rep
    <3> SUFFICES ASSUME dec_book_del_q.valid PROVE ~dec_book_del_q.has_rep
      OBVIOUS
    <3>1. pkt[i].type = "D" /\ dec_book_del_q.has_rep = (pkt[i].type = "U")
      BY <1>2 DEF Parsed, DelComes
    <3> QED BY <3>1
  <2> QED BY <1>2, <1>3, <2>1, <2>2 DEF Halves
<1>7. (i \in 0 .. Len(pkt))'
  BY DEF Parsed
<1> QED BY <1>4, <1>5, <1>6, <1>7 DEF Parsed

(* With a word of an order message. *)
LEMMA TakesPasses ==
  ASSUME Flags, Pipe, NEW i, OfType(i, Orders), Takes(i)
  PROVE  /\ dec_book_del_q'.valid =>
              /\ words_left = DelAt[pkt[i].type] /\ match_locate_q
              /\ dec_book_del_q' = [valid |-> TRUE, msg_type |-> "DELETE",
                                    has_rep |-> (pkt[i].type = "U"),
                                    order_id |-> IdOf(i), fields |-> <<>>]
         /\ ~dec_book_del_q.valid => dec_book_q'.order_id = IdOf(i)
         /\ ~dec_book_del_q.valid /\ words_left # BookAt[pkt[i].type] => ~dec_book_q'.valid
         /\ lookup'.valid => /\ dec_book_q.valid /\ lookup'.msg_type = dec_book_q.msg_type
                             /\ lookup'.has_rep = dec_book_q.has_rep
<1>1. lookup'.valid => /\ dec_book_q.valid /\ lookup'.msg_type = dec_book_q.msg_type
                       /\ lookup'.has_rep = dec_book_q.has_rep
  BY DEF Pipe, NoLookup
<1>2. ASSUME NEW id
      PROVE  [NoBook EXCEPT !.order_id = id].valid = FALSE /\ [NoBook EXCEPT !.order_id = id].order_id = id
  BY DEF NoBook
<1>3. ~dec_book_del_q.valid => dec_book_q'.order_id = IdOf(i)
  BY <1>2 DEF Takes
<1>4. ~dec_book_del_q.valid /\ words_left # BookAt[pkt[i].type] => ~dec_book_q'.valid
  BY <1>2 DEF Takes
<1>5. ASSUME dec_book_del_q'.valid
      PROVE  /\ words_left = DelAt[pkt[i].type] /\ match_locate_q
             /\ dec_book_del_q' = [valid |-> TRUE, msg_type |-> "DELETE",
                                   has_rep |-> (pkt[i].type = "U"),
                                   order_id |-> IdOf(i), fields |-> <<>>]
  <2>1. words_left = DelAt[pkt[i].type]
    BY <1>5 DEF Takes, NoBook
  <2>2. dec_book_del_q' = [valid |-> match_locate_q, msg_type |-> "DELETE",
                           has_rep |-> (pkt[i].type = "U"), order_id |-> IdOf(i), fields |-> <<>>]
    BY <2>1 DEF Takes
  <2>3. match_locate_q = TRUE
    BY <1>5, <2>2 DEF Flags
  <2> QED BY <2>1, <2>2, <2>3
<1> QED BY <1>1, <1>3, <1>4, <1>5

(* The word with which a deletion is known. *)
LEMMA DelBegins ==
  ASSUME Flags, Paced, Pipe, NEW i, Parsed(i), OfType(i, Orders), Takes(i), pkt' = pkt,
         shown_ids' = <<shown_ids[2], IdOf(i)>>, dec_book_del_q'.valid,
         stock_locate_q' = stock_locate_q
  PROVE  /\ i \in 1 .. Len(pkt') /\ OwnBody(i)'
         /\ (dec_book_del_q = [valid |-> TRUE, msg_type |-> "DELETE", has_rep |-> (pkt[i].type = "U"),
                               order_id |-> <<i, SYMBOL>>, fields |-> <<>>])'
         /\ dec_book_q'.order_id = <<i, SYMBOL>> /\ shown_ids'[2] = <<i, SYMBOL>>
         /\ quiet' >= 4 /\ ~dec_book_q'.valid /\ ~lookup'.valid
         /\ (pkt[i].type = "U" /\ words_left = 5) \/ (pkt[i].type = "D" /\ words_left = 1)
<1> DEFINE t == pkt[i].type
<1>1. /\ words_left = DelAt[t] /\ match_locate_q
      /\ dec_book_del_q' = [valid |-> TRUE, msg_type |-> "DELETE", has_rep |-> (t = "U"),
                            order_id |-> IdOf(i), fields |-> <<>>]
  BY TakesPasses
<1>2. words_left \in 1 .. 12 /\ t \in Orders /\ i \in 1 .. Len(pkt)
  BY InMsgFacts DEF OfType, InMsg
<1>3. (t = "U" /\ words_left = 5) \/ (t = "D" /\ words_left = 1)
  BY <1>1, <1>2 DEF Orders, DelAt
<1>4. /\ PassAt(t) = words_left /\ words_left < LocateAt[t] /\ words_left \in TakesId(t)
      /\ words_left # BookAt[t]
  BY <1>3 DEF PassAt, DelAt, LocateAt, TakesId, BookAt
<1>5. ~dec_book_del_q.valid /\ ~dec_book_q.valid /\ ~lookup.valid /\ quiet \in 3 .. 9
  BY <1>4, Ready
<1>6. OwnBody(i)'
  <2>1. OwnBody(i)
    BY <1>1, <1>4 DEF Parsed, Matched
  <2> QED BY <2>1, OwnKept
<1>7. IdOf(i) = <<i, SYMBOL>>
  BY <1>3, <1>4 DEF IdOf
<1>8. dec_book_q'.order_id = <<i, SYMBOL>> /\ ~dec_book_q'.valid
  BY <1>4, <1>5, <1>7, TakesPasses
<1>9. ~lookup'.valid
  BY <1>5 DEF Pipe, NoLookup
<1>10. quiet' >= 4
  <2>1. quiet' = IF quiet < 9 THEN quiet + 1 ELSE 9
    BY <1>5, QuietGrows DEF Paced
  <2> QED BY ONLY <1>5, <2>1
<1> QED BY <1>1, <1>2, <1>3, <1>6, <1>7, <1>8, <1>9, <1>10

LEMMA NextWordKept ==
  ASSUME Flags, Paced, Pipe, NEW i, Parsed(i), NextWord(i), Stands(i)', pkt' = pkt,
         OfType(i, {"R"}) \/ stock_locate_q' = stock_locate_q
  PROVE  Parsed(i)'
<1> DEFINE t == pkt[i].type
<1>1. /\ InMsg(i) /\ InMsg(i)' /\ words_left > 1
      /\ words_left' = words_left - 1 /\ Since(i)' = Since(i) + 4
      /\ Advances(i)
  BY DEF NextWord
<1>2. words_left \in 2 .. 12
  BY <1>1, InMsgFacts
<1>3. \A types : OfType(i, types)' = OfType(i, types)
  BY <1>1 DEF OfType
<1>4. quiet' \in 1 .. 9
  BY QuietGrows DEF Paced
<1>5. state_q # "IDLE"
  BY <1>1, NotIdle
<1>6. dec_book_del_q.valid => OfType(i, {"U"}) /\ words_left = 4
  BY <1>5 DEF Parsed, DelComes
<1>7. dec_book_q.valid /\ dec_book_q.has_rep => OfType(i, {"U"}) /\ words_left \in 3 .. 4
  BY DEF Parsed, Halves
<1>8. (i \in 0 .. Len(pkt))'
  BY DEF Parsed
<1>9. CASE /\ OfType(i, Orders) /\ Takes(i) /\ dec_ctrl_o'.valid = FALSE
           /\ shown_ids' = <<shown_ids[2], IdOf(i)>>
  <2>1. stock_locate_q' = stock_locate_q
    BY <1>9 DEF OfType, Orders
  <2>2. t \in Orders
    BY <1>9 DEF OfType
  <2>3. CtrlComes(i)'
    BY <1>9 DEF CtrlComes
  <2>4. DelComes(i)'
    <3> SUFFICES ASSUME dec_book_del_q'.valid PROVE DelComes(i)'
      BY DEF DelComes
    <3>1. /\ i \in 1 .. Len(pkt') /\ OwnBody(i)'
          /\ (dec_book_del_q = [valid |-> TRUE, msg_type |-> "DELETE", has_rep |-> (pkt[i].type = "U"),
                                order_id |-> <<i, SYMBOL>>, fields |-> <<>>])'
          /\ dec_book_q'.order_id = <<i, SYMBOL>> /\ shown_ids'[2] = <<i, SYMBOL>>
          /\ quiet' >= 4 /\ ~dec_book_q'.valid /\ ~lookup'.valid
          /\ (t = "U" /\ words_left = 5) \/ (t = "D" /\ words_left = 1)
      BY <1>9, <2>1, DelBegins
    <3>2. t = "U" /\ words_left = 5
      BY <1>1, <3>1
    <3>3. OfType(i, {"U"})' /\ words_left' = 4
      BY <1>1, <3>2 DEF OfType
    <3> QED BY <3>1, <3>3 DEF DelComes
  <2>5. IdKept(i)'
    <3>1. ASSUME NEW id, ~dec_book_del_q.valid, IdOf(i) = id, words_left # DelAt[t]
          PROVE  IdShown(id)'
      <4>1. dec_book_q'.order_id = id /\ ~dec_book_del_q'.valid
        BY <1>9, <3>1, TakesPasses
      <4> QED BY <1>9, <3>1, <4>1 DEF IdShown
    <3>2. ASSUME OfType(i, {"A", "F", "E", "X", "C"}), words_left' = BookAt[t]
          PROVE  IdShown(<<i, SYMBOL>>)'
      <4>1. t \in {"A", "F", "E", "X", "C"}
        BY <3>2 DEF OfType
      <4>2. words_left = BookAt[t] + 1
        <5>1. BookAt[t] \in Nat
          BY <4>1 DEF BookAt
        <5> DEFINE u == BookAt[t]
        <5>2. u \in Nat /\ words_left - 1 = u
          BY <1>1, <3>2, <5>1
        <5> HIDE DEF u
        <5>3. words_left = u + 1
          BY ONLY <1>2, <5>2
        <5> QED BY <5>3 DEF u
      <4>3. /\ BookAt[t] + 1 \in TakesId(t) /\ BookAt[t] + 1 # DelAt[t] /\ t # "U"
            /\ PassAt(t) = BookAt[t] /\ BookAt[t] + 1 >= BookAt[t]
        BY <4>1 DEF TakesId, LocateAt, BookAt, DelAt, PassAt
      <4>4. IdOf(i) = <<i, SYMBOL>>
        BY <4>2, <4>3 DEF IdOf
      <4>5. words_left >= PassAt(t)
        BY <4>2, <4>3
      <4>6. ~dec_book_del_q.valid
        BY <1>9, <4>5 DEF Parsed, Rests
      <4> QED BY <3>1, <4>2, <4>3, <4>4, <4>6
    <3>3. ASSUME OfType(i, {"U"}), words_left' = 1
          PROVE  IdShown(<<i, NEW_ID>>)'
      <4>1. words_left = 2
        BY ONLY <1>1, <1>2, <3>3
      <4>2. t = "U"
        BY <3>3 DEF OfType
      <4>3. IdOf(i) = <<i, NEW_ID>>
        BY <4>1, <4>2 DEF IdOf, TakesId
      <4>4. ~dec_book_del_q.valid
        BY <1>6, <4>1
      <4>5. words_left # DelAt[t]
        BY <4>1, <4>2 DEF DelAt
      <4> QED BY <3>1, <4>3, <4>4, <4>5
    <3> QED BY <1>3, <3>2, <3>3 DEF IdKept
  <2>6. Matched(i)'
    <3> SUFFICES ASSUME words_left' < LocateAt[t], match_locate_q' PROVE OwnBody(i)
      BY <2>1, OwnKept DEF Matched
    <3> DEFINE u == LocateAt[t]
    <3>1. u \in 2 .. 6
      BY <2>2 DEF Orders, LocateAt
    <3>2. words_left' < u
      OBVIOUS
    <3> HIDE DEF u
    <3>3. words_left <= u
      BY ONLY <1>1, <1>2, <3>1, <3>2
    <3>4. words_left = u \/ words_left < u
      BY ONLY <1>2, <3>1, <3>3
    <3>5. CASE words_left = u
      <4>1. pkt[i].body.kind = "BOOK" /\ pkt[i].body.stock_locate = stock_locate_q.stock_locate
        BY <1>9, <3>5 DEF Takes, u
      <4>2. pkt[i].body \in ITCHMsg
        BY <1>1, MsgFacts DEF InMsg
      <4>3. pkt[i].body \in ITCHBookMsg
        BY <4>1, <4>2 DEF ITCHMsg, SystemEventMsg, DirectoryMsg, TradeActionMsg, OpHaltMsg, IgnoreMsg
      <4>4. pkt[i].body = [kind |-> "BOOK", stock_locate |-> pkt[i].body.stock_locate]
        BY <4>3 DEF ITCHBookMsg
      <4> QED BY <4>1, <4>4 DEF OwnBody
    <3>6. CASE words_left < u /\ words_left # u
      <4>1. match_locate_q
        BY <1>9, <3>6 DEF Takes, u
      <4> QED BY <1>9, <3>6, <4>1 DEF Parsed, Matched, u
    <3> QED BY <3>4, <3>5, <3>6
  <2>7. Rests(i)'
    <3> SUFFICES ASSUME words_left' >= PassAt(t) PROVE Rests(i)'
      <4>1. PassAt(pkt[i].type)' = PassAt(t)
        BY DEF PassAt
      <4> QED BY <4>1 DEF Rests
    <3> DEFINE u == PassAt(t)
    <3>1. u \in 1 .. 5 /\ (u = BookAt[t] \/ BookAt[t] < u) /\ (DelAt[t] = 0 \/ DelAt[t] = u)
      BY <2>2 DEF Orders, PassAt, BookAt, DelAt
    <3>2. BookAt[t] \in 0 .. 5 /\ DelAt[t] \in 0 .. 5
      BY <2>2 DEF Orders, BookAt, DelAt
    <3>3. words_left' >= u
      OBVIOUS
    <3> HIDE DEF u, t
    <3>4. words_left > u
      BY ONLY <1>1, <1>2, <3>1, <3>3
    <3>5. words_left # BookAt[t] /\ words_left # DelAt[t] /\ words_left >= u
      BY ONLY <1>2, <3>1, <3>2, <3>4
    <3>6. ~dec_book_del_q.valid
      BY <1>9, <3>5 DEF Parsed, Rests, t, u
    <3>7. ~dec_book_del_q'.valid /\ ~dec_book_q'.valid
      BY <1>9, <3>5, <3>6, TakesPasses DEF t
    <3> QED BY <1>1, <1>9, <3>5, <3>7, RestsGoOn DEF t, u
  <2>8. Halves(i)'
    <3>1. ASSUME dec_book_q'.valid
          PROVE  /\ dec_book_q'.has_rep => OfType(i, {"U"}) /\ words_left = 4
                 /\ OfType(i, {"U"}) => words_left = 4
      <4>1. CASE dec_book_del_q.valid
        BY <1>6, <4>1
      <4>2. CASE Passes(i)
        <5>1. ~dec_book_q'.has_rep /\ words_left = BookAt[t]
          BY <4>2 DEF Passes
        <5>2. ~OfType(i, {"U"})
          BY <1>1, <5>1 DEF OfType, BookAt
        <5> QED BY <5>1, <5>2
      <4>3. Taking(i)
        BY <1>1 DEF Taking
      <4> QED BY <3>1, <4>1, <4>2, <4>3, Passed
    <3>2. lookup'.valid => dec_book_q.valid /\ lookup'.has_rep = dec_book_q.has_rep
      BY <1>9, TakesPasses
    <3>3. dec_book_del_q'.valid /\ OfType(i, {"U"}) => words_left = 5
      <4>1. dec_book_del_q'.valid => words_left = DelAt[t]
        BY <1>9, TakesPasses
      <4> QED BY <4>1 DEF OfType, DelAt
    <3>4. OfType(i, {"U"}) /\ words_left < 5 /\ dec_book_q.valid => words_left >= 3
      BY DEF Parsed, Halves
    <3>5. /\ words_left = 4 => words_left' \in 3 .. 4 /\ words_left' >= 3
          /\ words_left \in 3 .. 4 => words_left' \in 2 .. 4
          /\ words_left >= 3 => words_left' >= 2
          /\ words_left = 5 => words_left' = 4
          /\ ~(words_left < 5) => words_left' >= 2
      BY ONLY <1>1, <1>2
    <3>6. (lookup'.valid /\ lookup'.has_rep) => (OfType(i, {"U"}) /\ words_left' \in 2 .. 4)
      BY <1>7, <3>2, <3>5
    <3>7. (OfType(i, {"U"}) /\ lookup'.valid) => words_left' >= 2
      BY <3>2, <3>4, <3>5
    <3>8. quiet' >= 1
      BY <1>4
    <3>9. dec_book_q'.valid => /\ dec_book_q'.has_rep => OfType(i, {"U"}) /\ words_left' \in 3 .. 4
                               /\ OfType(i, {"U"}) => words_left' >= 3
      BY <3>1, <3>5
    <3>10. (dec_book_del_q'.valid /\ OfType(i, {"U"})) => words_left' = 4
      BY <3>3, <3>5
    <3> QED BY <1>3, <3>6, <3>7, <3>8, <3>9, <3>10 DEF Halves
  <2> QED BY <1>8, <2>3, <2>4, <2>5, <2>6, <2>7, <2>8 DEF Parsed
<1>10. CASE t \notin Orders /\ Keeps /\ TakesCtrl(i)
  <2>1. /\ ~OfType(i, Orders) /\ ~OfType(i, {"A", "F", "E", "X", "C"}) /\ ~OfType(i, {"U"})
    BY <1>10 DEF OfType, Orders
  <2>2. /\ ~dec_book_del_q'.valid /\ ~dec_book_q'.valid
        /\ lookup'.valid => dec_book_q.valid /\ lookup'.has_rep = dec_book_q.has_rep
    BY <1>6, <1>10, <2>1, KeepsPasses
  <2>3. IdKept(i)' /\ Matched(i)' /\ DelComes(i)' /\ Rests(i)'
    BY <1>3, <2>1, <2>2 DEF IdKept, Matched, DelComes, Rests
  <2>4. Halves(i)'
    BY <1>3, <1>7, <2>1, <2>2 DEF Halves
  <2>5. CtrlComes(i)'
    <3> SUFFICES ASSUME dec_ctrl_o'.valid PROVE CtrlComes(i)'
      BY DEF CtrlComes
    <3>1. /\ dec_ctrl_o'.valid = (t \in {"S", "R", "H", "h"} /\ words_left = CtrlAt[t])
          /\ dec_ctrl_o'.fields = CtrlFieldsOf(i)
      BY <1>10 DEF TakesCtrl
    <3>2. t \in {"S", "R", "H", "h"} /\ words_left = CtrlAt[t]
      BY ONLY <3>1, dec_ctrl_o'.valid, Zenon
    <3>3. (t = "R" /\ words_left = 6) \/ (t = "H" /\ words_left = 2)
      BY <1>1, <3>2 DEF CtrlAt
    <3>4. (OfType(i, {"R"}) /\ words_left = 5)' \/ (OfType(i, {"H"}) /\ words_left = 1)'
      BY <1>1, <3>3 DEF OfType
    <3>5. CtrlFieldsOf(i)' = CtrlFieldsOf(i)
      BY DEF CtrlFieldsOf
    <3>6. i \in 1 .. Len(pkt')
      BY <1>1 DEF InMsg
    <3> QED BY <3>1, <3>4, <3>5, <3>6 DEF CtrlComes
  <2> QED BY <1>8, <2>3, <2>4, <2>5 DEF Parsed
<1> QED BY <1>1, <1>9, <1>10 DEF Advances

LEMMA LastWordKept ==
  ASSUME Flags, Paced, Pipe, NEW i, Parsed(i), LastWord(i), Stands(i)', pkt' = pkt,
         OfType(i, {"R"}) \/ stock_locate_q' = stock_locate_q
  PROVE  Parsed(i)'
<1> DEFINE t == pkt[i].type
<1>1. InMsg(i) /\ words_left = 1 /\ state_q' = "IDLE" /\ Advances(i)
  BY DEF LastWord
<1>2. \A types : ~OfType(i, types)'
  BY <1>1, NotIdleNext DEF OfType
<1>3. IdKept(i)' /\ Matched(i)' /\ Rests(i)'
  BY <1>2 DEF IdKept, Matched, Rests
<1>4. i \in 1 .. Len(pkt') /\ (i \in 0 .. Len(pkt))'
  BY <1>1 DEF InMsg, Parsed
<1>5. ~dec_book_del_q.valid
  BY <1>1, NotIdle DEF Parsed, DelComes
<1>6. ~(dec_book_q'.valid /\ dec_book_q'.has_rep)
  <2> SUFFICES ASSUME dec_book_q'.valid PROVE ~dec_book_q'.has_rep
    OBVIOUS
  <2>1. Taking(i)
    BY <1>1 DEF Taking
  <2> QED BY <1>5, <2>1, Passed DEF Passes
<1>7. dec_book_q.valid => ~dec_book_q.has_rep
  BY <1>1 DEF Parsed, Halves
<1>8. lookup'.valid => ~lookup'.has_rep
  BY <1>7 DEF Pipe, NoLookup
<1>9. Halves(i)'
  BY <1>2, <1>6, <1>8 DEF Halves
<1>10. CASE /\ OfType(i, Orders) /\ Takes(i) /\ dec_ctrl_o'.valid = FALSE
            /\ shown_ids' = <<shown_ids[2], IdOf(i)>>
  <2>1. CtrlComes(i)'
    BY <1>10 DEF CtrlComes
  <2>2. DelComes(i)'
    <3> SUFFICES ASSUME dec_book_del_q'.valid PROVE DelComes(i)'
      BY DEF DelComes
    <3>1. stock_locate_q' = stock_locate_q
      BY <1>10 DEF OfType, Orders
    <3>2. /\ i \in 1 .. Len(pkt') /\ OwnBody(i)'
          /\ (dec_book_del_q = [valid |-> TRUE, msg_type |-> "DELETE", has_rep |-> (pkt[i].type = "U"),
                                order_id |-> <<i, SYMBOL>>, fields |-> <<>>])'
          /\ dec_book_q'.order_id = <<i, SYMBOL>> /\ shown_ids'[2] = <<i, SYMBOL>>
          /\ quiet' >= 4 /\ ~dec_book_q'.valid /\ ~lookup'.valid
          /\ (t = "U" /\ words_left = 5) \/ (t = "D" /\ words_left = 1)
      BY <1>10, <3>1, DelBegins
    <3>3. t = "D"
      BY <1>1, <3>2
    <3>4. pkt'[i].type = "D" /\ state_q' = "IDLE"
      BY <1>1, <3>3
    <3> QED BY <3>2, <3>4 DEF DelComes
  <2> QED BY <1>3, <1>4, <1>9, <2>1, <2>2 DEF Parsed
<1>11. CASE t \notin Orders /\ Keeps /\ TakesCtrl(i)
  <2>1. DelComes(i)'
    BY <1>11, KeepsPasses DEF DelComes
  <2>2. CtrlComes(i)'
    <3> SUFFICES ASSUME dec_ctrl_o'.valid PROVE CtrlComes(i)'
      BY DEF CtrlComes
    <3>1. /\ dec_ctrl_o'.valid = (t \in {"S", "R", "H", "h"} /\ words_left = CtrlAt[t])
          /\ dec_ctrl_o'.fields = CtrlFieldsOf(i)
      BY <1>11 DEF TakesCtrl
    <3>2. t \in {"S", "R", "H", "h"} /\ words_left = CtrlAt[t]
      BY ONLY <3>1, dec_ctrl_o'.valid, Zenon
    <3>3. t \in {"S", "h"}
      BY <1>1, <3>2 DEF CtrlAt
    <3>4. CtrlFieldsOf(i)' = CtrlFieldsOf(i)
      BY DEF CtrlFieldsOf
    <3> QED BY <1>1, <1>4, <3>1, <3>3, <3>4 DEF CtrlComes
  <2> QED BY <1>3, <1>4, <1>9, <2>1, <2>2 DEF Parsed
<1> QED BY <1>1, <1>10, <1>11 DEF Advances

----------------------------------------------------------------------------
(* The steps.                                                              *)

(* A clock of a packet. *)
LEMMA ClockKept ==
  ASSUME IInv, NEW v \in BOOLEAN, NEW init_v, Clock(v, init_v), pkt' = pkt,
         v => at < WordsOf(pkt) /\ at' = at + 1,
         at' = at \/ at' = at + 1, ~v /\ at < WordsOf(pkt) => at' = at
  PROVE  IInv'
<1>1. ~failed
  BY DEF Clock
<1>2. Wired(pkt) /\ at \in Nat /\ Flags /\ Drained /\ Paced
  BY <1>1 DEF IInv, Holds
<1>3. PICK i \in 0 .. Len(pkt) : Parsed(i)
  BY <1>1 DEF IInv, Holds
<1>4. Pipe /\ ControlClock(init_v, dec_ctrl(pkt))
  BY <1>2, PipeMoves
<1>5. \/ ~(v /\ state_q # "IDLE") /\ Keeps /\ dec_ctrl_o' = NoCtrl
      \/ v /\ Advances(i)
  BY <1>2, <1>3, ClockKinds DEF Advances
<1>6. Taking(i)
  BY <1>5 DEF Taking
<1>7. OfType(i, {"R"}) \/ stock_locate_q' = stock_locate_q
  BY <1>2, <1>3, <1>4, LocateKept
<1>8. HandsOn'
  BY <1>2, <1>3, <1>4, <1>6, <1>7, HandsOnKept
<1>9. Wired(pkt)' /\ (at \in Nat)'
  BY <1>2 DEF Wired
<1>10. ASSUME ~failed' PROVE Holds'
  <2>1. Flags' /\ Paced'
    BY <1>2, <1>3, <1>4, <1>6, FlagsKept, PacedKept
  <2>2. Drained'
    <3> DEFINE W == WordsOf(pkt)
    <3>1. W \in Nat
      BY <1>2, PayloadFacts
    <3>2. at < W => at' <= W
      BY <1>2, <3>1
    <3>3. ~(at < W) => Keeps /\ dec_ctrl_o' = NoCtrl
      BY <1>5
    <3> QED BY <1>2, <1>3, <1>4, <1>6, <3>2, <3>3, DrainedKept
  <2>3. Moves(i)
    BY <1>2, <1>3, <1>10, ParserMoves
  <2>4. \E j : Parsed(j)'
    <3>1. CASE Begins(i) /\ Stands(i + 1)'
      BY <1>2, <1>3, <1>4, <3>1, BeginsKept
    <3>2. CASE Stands(i)' /\ NextWord(i)
      BY <1>2, <1>3, <1>4, <1>7, <3>2, NextWordKept
    <3>3. CASE Stands(i)' /\ LastWord(i)
      BY <1>2, <1>3, <1>4, <1>7, <3>3, LastWordKept
    <3>4. CASE Stands(i)' /\ NoWord(i)
      BY <1>2, <1>3, <1>4, <1>7, <3>4, NoWordKept
    <3>5. CASE Stands(i)' /\ Idles
      BY <1>2, <1>3, <1>4, <3>5, IdlesKept
    <3> QED BY <2>3, <3>1, <3>2, <3>3, <3>4, <3>5 DEF Moves
  <2>5. PICK j : Parsed(j)'
    BY <2>4
  <2>6. j \in 0 .. Len(pkt')
    BY <2>5 DEF Parsed
  <2> QED BY <2>1, <2>2, <2>5, <2>6 DEF Holds
<1> QED BY <1>8, <1>9, <1>10 DEF IInv

LEMMA EmptyPayload ==
  ASSUME NEW p, Wired(p), WordsOf(p) = 0
  PROVE  Len(p) = 0
<1>1. Payload(p) \in Nat /\ Payload(p) <= 4 * 0 /\ Len(p) \in Nat
  BY PayloadFacts DEF Wired
<1> SUFFICES ASSUME Len(p) # 0 PROVE FALSE
  OBVIOUS
<1>2. 1 \in 1 .. Len(p) /\ 1 \in 1 .. Len(p) + 1
  BY <1>1
<1> DEFINE s == Start(p, 1)
           e == Start(p, 1 + 1)
           l == p[1].len
           P == Payload(p)
<1>3. s \in Nat /\ e = s + l + 2 /\ l \in 4 .. 254 /\ e <= P /\ P \in Nat /\ P <= 4 * 0
  BY <1>1, <1>2, BytesFinite, StartNext, MsgFacts, EndInPayload
<1> HIDE DEF s, e, l, P
<1> QED BY ONLY <1>3

(* A packet begins when the bytes of the one before have left.             *)
LEMMA SendKept ==
  ASSUME IInv, Send
  PROVE  IInv'
<1>1. /\ pkt = <<>> /\ at = 4 /\ at' = 0 /\ pkt' \in Sent /\ Clock(FALSE, FALSE)
  BY DEF Send, Between, DRAIN
<1>2. ~failed
  BY <1>1 DEF Clock
<1>3. Wired(pkt) /\ Flags /\ Drained /\ Paced
  BY <1>2 DEF IInv, Holds
<1>4. PICK i \in 0 .. Len(pkt) : Parsed(i)
  BY <1>2 DEF IInv, Holds
<1>5. WordsOf(pkt) = 0
  <2>1. Len(pkt) = 0
    BY <1>1
  <2>2. Start(pkt, Len(pkt) + 1) = 0
    BY <2>1, StartFirst
  <2> QED BY <2>2 DEF WordsOf, Payload
<1>6. ~dec_book_del_q.valid /\ ~dec_ctrl_o.valid /\ ~dec_book_q.valid /\ ~lookup.valid
  BY <1>1, <1>3, <1>5 DEF Drained
<1>7. Pipe /\ ItchClock(pkt, at, FALSE, FALSE /\ at + 1 = WordsOf(pkt), stock_locate_q)
  BY <1>1, <1>3, PipeMoves
<1>8. Keeps /\ dec_ctrl_o' = NoCtrl
  <2>1. FALSE \in BOOLEAN
    OBVIOUS
  <2> QED BY <1>1, <1>3, <1>4, <2>1, ClockKinds
<1>9. ~dec_book_del_q'.valid /\ ~dec_book_q'.valid /\ ~lookup'.valid /\ ~dec_ctrl_o'.valid
  BY <1>3, <1>6, <1>7, <1>8, KeepsPasses DEF NoCtrl
<1>10. HandsOn'
  BY <1>9 DEF HandsOn, KeepsPace, FieldsAligned, AddressInTime
<1>11. Wired(pkt')
  BY <1>1, PacketsWired DEF Sent
<1>12. Taking(i)
  BY <1>8 DEF Taking
<1>13. Flags' /\ Paced'
  BY <1>3, <1>4, <1>7, <1>12, FlagsKept, PacedKept
<1>14. Drained'
  BY <1>9 DEF Drained
<1>15. state_q' = "IDLE" /\ bytes_left_q' = 0
  <2>1. state_q' = state_q /\ bytes_left_q' = bytes_left_q
    BY <1>7 DEF ItchClock
  <2>2. Stands(i) /\ ~(at < WordsOf(pkt))
    BY <1>1, <1>4, <1>5 DEF Parsed
  <2> QED BY <2>1, <2>2 DEF Stands
<1>16. \A types : ~OfType(0, types)'
  BY <1>15, NotIdleNext DEF OfType
<1>17. IdKept(0)' /\ Matched(0)' /\ DelComes(0)' /\ CtrlComes(0)' /\ Rests(0)' /\ Halves(0)'
  BY <1>9, <1>16 DEF IdKept, Matched, DelComes, CtrlComes, Rests, Halves
<1>18. Stands(0)'
  <2>1. CASE 0 < WordsOf(pkt')
    <3>1. End(0)' = 0
      <4>1. End(0)' = Start(pkt', 1)
        BY DEF End
      <4> QED BY <4>1, StartFirst
    <3>2. Shift' = 4
      BY <1>15 DEF Shift
    <3>3. Len(pkt') \in Nat
      BY <1>11 DEF Wired
    <3>4. AtBorder(0)'
      BY <1>1, <1>11, <1>15, <3>1, <3>2, <3>3 DEF AtBorder
    <3> QED BY <1>1, <2>1, <3>4 DEF Stands
  <2>2. CASE ~(0 < WordsOf(pkt'))
    <3>1. WordsOf(pkt') = 0
      BY <1>11, <2>2, PayloadFacts
    <3>2. Len(pkt') = 0
      BY <1>11, <3>1, EmptyPayload
    <3> QED BY <1>1, <1>15, <3>1, <3>2 DEF Stands
  <2> QED BY <2>1, <2>2
<1>19. 0 \in 0 .. Len(pkt')
  BY <1>11 DEF Wired
<1>20. Parsed(0)'
  BY <1>17, <1>18, <1>19 DEF Parsed
<1>21. Holds'
  BY <1>13, <1>14, <1>19, <1>20 DEF Holds
<1>22. Wired(pkt)' /\ (at \in Nat)'
  BY <1>1, <1>11 DEF Wired
<1> QED BY <1>10, <1>21, <1>22 DEF IInv

(* Between packets nothing is left to be forgotten but an id.              *)
LEMMA ForgetKept ==
  ASSUME IInv, Forget
  PROVE  IInv'
<1>1. /\ ~failed /\ at = WordsOf(pkt) + 4 /\ pkt' = <<>> /\ at' = 4
      /\ dec_book_q' = [dec_book_q EXCEPT !.order_id = NoByte]
      /\ state_q' = state_q /\ bytes_left_q' = bytes_left_q
      /\ match_locate_q' = match_locate_q /\ dec_ctrl_o' = dec_ctrl_o
      /\ dec_book_del_q' = dec_book_del_q /\ lookup' = lookup /\ quiet' = quiet
  BY DEF Forget, book_time, DRAIN
<1>2. Wired(pkt) /\ at \in Nat /\ Flags /\ Drained /\ Paced
  BY <1>1 DEF IInv, Holds
<1>3. PICK i \in 0 .. Len(pkt) : Parsed(i)
  BY <1>1 DEF IInv, Holds
<1>4. /\ at > WordsOf(pkt) /\ at > WordsOf(pkt) + 1 /\ at > WordsOf(pkt) + 2
      /\ ~(at < WordsOf(pkt))
  <2> DEFINE W == WordsOf(pkt)
  <2>1. W \in Nat /\ at = W + 4
    BY <1>1, <1>2, PayloadFacts
  <2> HIDE DEF W
  <2>2. at > W /\ at > W + 1 /\ at > W + 2 /\ ~(at < W)
    BY ONLY <2>1
  <2> QED BY <2>2 DEF W
<1>5. ~dec_book_del_q.valid /\ ~dec_ctrl_o.valid /\ ~dec_book_q.valid /\ ~lookup.valid
  BY <1>2, <1>4 DEF Drained
<1>6. dec_book_q'.valid = dec_book_q.valid /\ "valid" \in DOMAIN dec_book_q'
  BY <1>1, <1>2 DEF Flags
<1>7. Wired(pkt')
  BY <1>1, PacketsWired
<1>8. HandsOn'
  BY <1>1, <1>5, <1>6 DEF HandsOn, KeepsPace, FieldsAligned, AddressInTime
<1>9. Flags' /\ Drained' /\ Paced'
  <2>1. Flags'
    BY <1>1, <1>2, <1>6 DEF Flags
  <2>2. Drained'
    BY <1>1, <1>5, <1>6 DEF Drained
  <2>3. Paced'
    BY <1>1, <1>2, <1>5, <1>6 DEF Paced
  <2> QED BY <2>1, <2>2, <2>3
<1>10. state_q' = "IDLE" /\ bytes_left_q' = 0
  BY <1>1, <1>3, <1>4 DEF Parsed, Stands
<1>11. \A types : ~OfType(0, types)'
  BY <1>10, NotIdleNext DEF OfType
<1>12. IdKept(0)' /\ Matched(0)' /\ DelComes(0)' /\ CtrlComes(0)' /\ Rests(0)' /\ Halves(0)'
  BY <1>1, <1>5, <1>6, <1>11 DEF IdKept, Matched, DelComes, CtrlComes, Rests, Halves
<1>13. Stands(0)'
  <2>1. Len(pkt') = 0
    BY <1>1
  <2>2. WordsOf(pkt') = 0
    <3>1. Start(pkt', Len(pkt') + 1) = 0
      BY <2>1, StartFirst
    <3> QED BY <3>1 DEF WordsOf, Payload
  <2> QED BY <1>1, <1>10, <2>1, <2>2 DEF Stands
<1>14. 0 \in 0 .. Len(pkt')
  BY <1>7 DEF Wired
<1>15. Parsed(0)'
  BY <1>12, <1>13, <1>14 DEF Parsed
<1>16. Holds'
  BY <1>9, <1>14, <1>15 DEF Holds
<1>17. Wired(pkt)' /\ (at \in Nat)'
  BY <1>1, <1>7 DEF Wired
<1> QED BY <1>8, <1>16, <1>17 DEF IInv

LEMMA InitHolds ==
  ASSUME Init
  PROVE  IInv
<1>1. /\ pkt = <<>> /\ at = 4 /\ quiet = 9
      /\ state_q = "IDLE" /\ bytes_left_q = 0 /\ match_locate_q = FALSE
      /\ dec_ctrl_o = NoCtrl /\ dec_book_del_q = NoBook /\ dec_book_q = NoBook
      /\ lookup = NoLookup
  BY DEF Init, InitRtlTop, InitRtlItch, DRAIN, LongQuiet
<1>2. /\ dec_ctrl_o.valid = FALSE /\ dec_book_del_q.valid = FALSE /\ dec_book_q.valid = FALSE
      /\ lookup.valid = FALSE
      /\ "valid" \in DOMAIN dec_book_q /\ "valid" \in DOMAIN dec_book_del_q
  BY <1>1 DEF NoCtrl, NoBook, NoLookup
<1>3. Wired(pkt) /\ at \in Nat
  BY <1>1, PacketsWired
<1>4. HandsOn
  BY <1>2 DEF HandsOn, KeepsPace, FieldsAligned, AddressInTime
<1>5. Flags /\ Drained /\ Paced
  <2>1. Flags
    BY <1>1, <1>2 DEF Flags
  <2>2. Drained
    BY <1>2 DEF Drained
  <2>3. Paced
    BY <1>1, <1>2 DEF Paced
  <2> QED BY <2>1, <2>2, <2>3
<1>6. \A types : ~OfType(0, types)
  BY <1>1, NotIdle DEF OfType
<1>7. IdKept(0) /\ Matched(0) /\ DelComes(0) /\ CtrlComes(0) /\ Rests(0) /\ Halves(0)
  BY <1>2, <1>6 DEF IdKept, Matched, DelComes, CtrlComes, Rests, Halves
<1>8. Len(pkt) = 0 /\ 0 \in 0 .. Len(pkt)
  BY <1>1
<1>9. Stands(0)
  <2>1. Start(pkt, Len(pkt) + 1) = 0
    BY <1>8, StartFirst
  <2>2. WordsOf(pkt) = 0
    BY <2>1 DEF WordsOf, Payload
  <2> QED BY <1>1, <1>8, <2>2 DEF Stands
<1>10. Parsed(0)
  BY <1>7, <1>8, <1>9 DEF Parsed
<1>11. Holds
  BY <1>5, <1>8, <1>10 DEF Holds
<1> QED BY <1>3, <1>4, <1>11 DEF IInv

LEMMA ParsedStays ==
  ASSUME NEW i, Parsed(i), UNCHANGED vars
  PROVE  Parsed(i)'
<1>1. /\ pkt' = pkt /\ at' = at /\ quiet' = quiet /\ shown_ids' = shown_ids
      /\ state_q' = state_q /\ bytes_left_q' = bytes_left_q /\ msg_alt_q' = msg_alt_q
      /\ match_locate_q' = match_locate_q /\ dec_ctrl_o' = dec_ctrl_o
      /\ dec_book_del_q' = dec_book_del_q /\ dec_book_q' = dec_book_q
      /\ lookup' = lookup /\ stock_locate_q' = stock_locate_q
  BY DEF vars, top_regs, itch_regs, ctrl_regs, book_time
<1>2. /\ InMsg(i)' = InMsg(i) /\ Stands(i)' = Stands(i)
      /\ words_left' = words_left /\ Since(i)' = Since(i)
  BY <1>1, Stays
<1>3. (\A types : OfType(i, types)' = OfType(i, types)) /\ OwnBody(i)' = OwnBody(i)
  BY <1>1, <1>2 DEF OfType, OwnBody
<1>4. \A n : Within(i, n)' = Within(i, n)
  BY <1>1 DEF Within
<1>5. \A id : IdShown(id)' = IdShown(id)
  BY <1>1 DEF IdShown
<1>6. CtrlFieldsOf(i)' = CtrlFieldsOf(i)
  BY <1>1 DEF CtrlFieldsOf
<1>7. IdKept(i)'
  BY <1>1, <1>2, <1>3, <1>5 DEF Parsed, IdKept
<1>8. Matched(i)'
  BY <1>1, <1>2, <1>3 DEF Parsed, Matched
<1>9. DelComes(i)'
  BY <1>1, <1>2, <1>3 DEF Parsed, DelComes
<1>10. CtrlComes(i)'
  BY <1>1, <1>2, <1>3, <1>6 DEF Parsed, CtrlComes
<1>11. Rests(i)'
  BY <1>1, <1>2, <1>3, <1>4 DEF Parsed, Rests, PassAt
<1>12. Halves(i)'
  BY <1>1, <1>2, <1>3 DEF Parsed, Halves
<1> QED BY <1>1, <1>2, <1>7, <1>8, <1>9, <1>10, <1>11, <1>12 DEF Parsed

LEMMA StutterKept ==
  ASSUME IInv, UNCHANGED vars
  PROVE  IInv'
<1>1. /\ pkt' = pkt /\ at' = at /\ quiet' = quiet /\ shown_ids' = shown_ids /\ failed' = failed
      /\ match_locate_q' = match_locate_q /\ dec_ctrl_o' = dec_ctrl_o
      /\ dec_book_del_q' = dec_book_del_q /\ dec_book_q' = dec_book_q
      /\ lookup' = lookup /\ stock_locate_q' = stock_locate_q
  BY DEF vars, top_regs, itch_regs, ctrl_regs, book_time
<1>2. Wired(pkt)' /\ (at \in Nat)'
  BY <1>1 DEF IInv, Wired
<1>3. HandsOn'
  <2>1. KeepsPace'
    BY <1>1 DEF IInv, HandsOn, KeepsPace
  <2>2. FieldsAligned'
    BY <1>1 DEF IInv, HandsOn, FieldsAligned
  <2>3. AddressInTime'
    BY <1>1 DEF IInv, HandsOn, AddressInTime
  <2> QED BY <2>1, <2>2, <2>3 DEF HandsOn
<1>4. ASSUME ~failed PROVE Holds'
  <2>1. Flags' /\ Drained' /\ Paced'
    BY <1>1, <1>4 DEF IInv, Holds, Flags, Drained, Paced
  <2>2. PICK i \in 0 .. Len(pkt) : Parsed(i)
    BY <1>4 DEF IInv, Holds
  <2>3. Parsed(i)' /\ i \in 0 .. Len(pkt')
    BY <1>1, <2>2, ParsedStays
  <2> QED BY <2>1, <2>3 DEF Holds
<1> QED BY <1>1, <1>2, <1>3, <1>4 DEF IInv

LEMMA NextHolds ==
  ASSUME IInv, [Next]_vars
  PROVE  IInv'
<1>0. TRUE \in BOOLEAN /\ FALSE \in BOOLEAN
  OBVIOUS
<1>1. CASE Initialize
  <2>1. Clock(FALSE, TRUE) /\ pkt' = pkt /\ at' = at
    BY <1>1 DEF Initialize
  <2> QED BY <1>0, <2>1, ClockKept
<1>2. CASE Send
  BY <1>2, SendKept
<1>3. CASE Arrive
  <2>1. Clock(TRUE, FALSE) /\ pkt' = pkt /\ at' = at + 1 /\ at < WordsOf(pkt)
    BY <1>3 DEF Arrive
  <2> QED BY <1>0, <2>1, ClockKept
<1>4. CASE Gap
  <2>1. Clock(FALSE, FALSE) /\ pkt' = pkt /\ at' = at
    BY <1>4 DEF Gap
  <2> QED BY <1>0, <2>1, ClockKept
<1>5. CASE Rest
  <2>1. Clock(FALSE, FALSE) /\ pkt' = pkt /\ (at' = at \/ at' = at + 1) /\ at >= WordsOf(pkt)
    BY <1>5 DEF Rest
  <2>2. ~(at < WordsOf(pkt))
    <3>1. at \in Nat /\ WordsOf(pkt) \in Nat
      BY PayloadFacts DEF IInv
    <3> QED BY <2>1, <3>1
  <2> QED BY <1>0, <2>1, <2>2, ClockKept
<1>6. CASE Forget
  BY <1>6, ForgetKept
<1>7. CASE UNCHANGED vars
  BY <1>7, StutterKept
<1> QED BY <1>1, <1>2, <1>3, <1>4, <1>5, <1>6, <1>7 DEF Next

LEMMA Invariance ==
  Spec => []IInv
<1>1. Init => IInv
  BY InitHolds
<1>2. IInv /\ [Next]_vars => IInv'
  BY NextHolds
<1> QED BY <1>1, <1>2, PTL DEF Spec

(* Whatever the messages of the packets are and however they lie behind    *)
(* each other, with however many gaps, lookups are as far apart as the     *)
(* order table and the book need (l3_order_table.sv, book.sv).             *)
THEOREM PaceTheorem ==
  Spec => []KeepsPace
<1>1. IInv => KeepsPace
  BY DEF IInv, HandsOn
<1> QED BY <1>1, Invariance, PTL

(* Whatever its place in the words, a message is passed on as it was sent: *)
(* each field from its own bytes, and an order of the stock only           *)
(* (itch_parser.sv).                                                       *)
THEOREM FieldsTheorem ==
  Spec => []FieldsAligned
<1>1. IInv => FieldsAligned
  BY DEF IInv, HandsOn
<1> QED BY <1>1, Invariance, PTL

(* The memory of the order table has had the address for two clocks when   *)
(* the message comes (README.md:62).                                       *)
THEOREM AddressTheorem ==
  Spec => []AddressInTime
<1>1. IInv => AddressInTime
  BY DEF IInv, HandsOn
<1> QED BY <1>1, Invariance, PTL

(***************************************************************************)
(* The hardware beside the reference.                                      *)
(*                                                                         *)
(* The reference answers a message with its first byte; the hardware hands *)
(* it on with one of its last words, Control gets it a clock later, and    *)
(* the result leaves up to five clocks behind that.  The invariant says    *)
(* what lies between the two: Due, what Control will hold when what is in  *)
(* hand has been handed on, is what the reference holds already; Owed, an  *)
(* error the reference has found is still to be reported; and Flow, the    *)
(* results expected are those on their way, and of at most one message     *)
(* more that the reference has answered and the hardware not handed on.    *)
(***************************************************************************)
----------------------------------------------------------------------------
(* What Control holds, in the hardware and in the reference, and what a    *)
(* message makes of it.                                                    *)

Held == [init |-> initialized_q, msg |-> msg_hours_q, sys |-> system_hours_q, mkt |-> market_hours_q,
         halt |-> stock_halt_q, market |-> market_halt_q, locate |-> stock_locate_q.stock_locate]

Model == [init |-> initialized, msg |-> msg_hours, sys |-> sys_hours, mkt |-> mkt_hours,
          halt |-> stock_halt, market |-> market_halt, locate |-> ctrl_locate]

Switch(msg, flag, on, off) ==
  CASE Says(msg, on) -> TRUE [] Says(msg, off) -> FALSE [] OTHER -> flag

Applied(h, msg) ==
  [init   |-> h.init,
   msg    |-> Switch(msg, h.msg, "MSG_BEGIN", "MSG_END"),
   sys    |-> Switch(msg, h.sys, "SYS_BEGIN", "SYS_END"),
   mkt    |-> Switch(msg, h.mkt, "MKT_BEGIN", "MKT_END"),
   halt   |-> IF msg.kind = "ACTION" /\ OfStock(msg) THEN msg.trade_action = "HALT" ELSE h.halt,
   market |-> IF msg.kind = "HALT" /\ OfStock(msg) /\ msg.market_code = init_market
              THEN msg.is_halt ELSE h.market,
   locate |-> IF msg.kind = "DIRECTORY" /\ OfStock(msg) THEN msg.stock_locate ELSE h.locate]

Active(h) == h.init /\ h.msg /\ h.sys /\ ~h.halt /\ ~h.market

Listening(h) == h.init /\ h.msg

(* Control refuses the message, and the hardware does too. *)
Trouble(h, msg) ==
  CASE msg.kind = "BOOK" -> h.locate = NoLocate \/ (msg.stock_locate = h.locate /\ ~Listening(h))
    [] msg.kind \in {"EVENT", "DIRECTORY", "ACTION", "HALT"} ->
         \/ ~h.init
         \/ ~h.msg /\ ~Says(msg, "MSG_BEGIN")
         \/ msg.kind = "DIRECTORY" /\ OfStock(msg) /\ h.locate \notin {NoLocate, msg.stock_locate}
    [] OTHER -> FALSE

Refusable(h, m) == Malformed(m) \/ Trouble(h, m.body)

(* Message i + 1 has begun, and its header has not been read.              *)
Begun(i) == state_q = "IDLE" /\ i + 1 \in 1 .. Len(pkt) /\ Start(pkt, i + 1) < 4 * at

(* The words left when a message is passed on, or what is left of it.      *)
LastAt == [A |-> 1, F |-> 2, E |-> 3, X |-> 1, C |-> 4, D |-> 1, U |-> 1,
           S |-> 1, R |-> 6, H |-> 2, h |-> 1]

Unpassed(i) == InMsg(i) /\ pkt[i].type \in DOMAIN LastAt /\ words_left >= LastAt[pkt[i].type]

Ahead == Applied(Held, dec_ctrl(pkt))

(* What Control will hold when what has begun is handed on.                *)
Due(i) ==
  IF Begun(i) THEN Applied(Ahead, pkt[i + 1].body)
  ELSE IF Unpassed(i) THEN Applied(Ahead, pkt[i].body) ELSE Ahead

Agree(i) ==
  /\ Model = Due(i)
  /\ InMsg(i) => ~Malformed(pkt[i])
  /\ Begun(i) => ~Refusable(Ahead, pkt[i + 1])
  /\ Unpassed(i) => ~Trouble(Held, pkt[i].body)
  /\ dec_ctrl_o.valid => ~Trouble(Held, dec_ctrl(pkt))
  /\ dec_book_del_q.valid \/ dec_book_q.valid => Listening(Held)

Owed(i) ==
  \/ Begun(i) /\ Refusable(Ahead, pkt[i + 1])
  \/ Unpassed(i) /\ Refusable(Held, pkt[i])
  \/ dec_ctrl_o.valid /\ Trouble(Held, dec_ctrl(pkt))
  \/ (dec_book_del_q.valid \/ dec_book_q.valid) /\ ~Listening(Held)

(* The locate is compared as it should be. *)
Located(i) ==
  OfType(i, Orders) /\ words_left < LocateAt[pkt[i].type] =>
    stock_locate_q.valid /\ (OwnBody(i) => match_locate_q)

(* Results on their way. *)
InDel == dec_book_del_q.valid /\ ~dec_book_del_q.has_rep
InBook == dec_book_q.valid /\ ~dec_book_q.has_rep
InLookup == lookup.valid /\ ~lookup.has_rep

Piped == InDel \/ InBook \/ InLookup \/ dec_book_updt_q.valid \/ book_res_q.valid \/ bbo_res_o.valid

Alone ==
  /\ bbo_res_o.valid => ~book_res_q.valid /\ ~dec_book_updt_q.valid /\ ~InLookup /\ ~InBook /\ ~InDel
  /\ book_res_q.valid => ~dec_book_updt_q.valid /\ ~InLookup /\ ~InBook /\ ~InDel
  /\ dec_book_updt_q.valid => ~InLookup /\ ~InBook /\ ~InDel
  /\ InLookup => ~InBook /\ ~InDel
  /\ InBook => ~InDel

PipedOf ==
  CASE bbo_res_o.valid -> bbo_res_o.of
    [] book_res_q.valid -> book_res_q.of
    [] dec_book_updt_q.valid -> dec_book_updt_q.of
    [] InLookup -> lookup.of
    [] InBook -> dec_book_q.order_id[1]
    [] InDel -> dec_book_del_q.order_id[1]
    [] OTHER -> 0

PipedRes == [of |-> PipedOf, shown |-> IF bbo_res_o.valid THEN bbo_res_o.shown ELSE stock_active_o]

OwnOf(h, msg) == msg.kind = "BOOK" /\ msg.stock_locate = h.locate

AwaitsNext(i) == Begun(i) /\ OwnOf(Ahead, pkt[i + 1].body)
AwaitsThis(i) == Unpassed(i) /\ OwnOf(Held, pkt[i].body)

Awaits(i) == AwaitsNext(i) \/ AwaitsThis(i)

AwaitedRes(i) ==
  IF Begun(i) THEN [of |-> i + 1, shown |-> Active(Ahead)] ELSE [of |-> i, shown |-> Active(Held)]

(* The results expected: of what is on its way, and of what is not yet     *)
(* passed on; free, they need not be expected.                             *)
FlowOf(piped, first, awaited, second, free, queue) ==
  \/ piped /\ awaited /\ queue = <<first, second>>
  \/ piped /\ queue = <<first>> /\ (~awaited \/ free)
  \/ ~piped /\ awaited /\ queue = <<second>>
  \/ queue = <<>> /\ ((~piped /\ ~awaited) \/ free)

Flow(i) == FlowOf(Piped, PipedRes, Awaits(i), AwaitedRes(i), refused # "no", expected)

(* The book's clocks. *)
Booked ==
  /\ updt_left \in 0 .. 3
  /\ updt_left > 0 => quiet + updt_left <= 5
  /\ dec_book_updt_q.valid => /\ dec_book_updt_q.msg_type = "REPLACE" /\ ~dec_book_updt_q.has_rep
                              /\ ~lookup.valid /\ updt_left = 0 /\ quiet <= 1
  /\ lookup.valid => /\ IF lookup.msg_type = "REPLACE" THEN updt_left <= 1 ELSE updt_left = 0
                     /\ lookup.has_rep => lookup.msg_type = "DELETE"
  /\ dec_book_q.valid /\ dec_book_q.msg_type = "REPLACE" => updt_left <= 2
  /\ book_res_q.valid => quiet <= 2
  /\ book_res_q.valid \in BOOLEAN /\ bbo_res_o.valid \in BOOLEAN /\ dec_book_updt_q.valid \in BOOLEAN

Slow == dec_book_q.valid /\ dec_book_q.msg_type = "REPLACE" /\ updt_left = 2

DrainedBook ==
  /\ at > WordsOf(pkt) => ~Slow
  /\ at > WordsOf(pkt) + 1 => ~(lookup.valid /\ updt_left = 1)
  /\ at > WordsOf(pkt) + 2 => ~dec_book_updt_q.valid
  /\ at > WordsOf(pkt) + 3 => ~book_res_q.valid

(* Before the second half of a replacement no result is under way. *)
HalfOnly(i) ==
  OfType(i, {"U"}) /\ words_left < 5 =>
    /\ ~InDel /\ ~InBook /\ ~InLookup /\ ~dec_book_updt_q.valid /\ ~book_res_q.valid

(* What came before a message that is no order has left soon. *)
Cleared(i) ==
  i \in 1 .. Len(pkt) /\ pkt[i].type \notin Orders =>
    /\ ~dec_book_del_q.valid /\ ~Slow
    /\ dec_book_q.valid => Within(i, 2)
    /\ lookup.valid => Within(i, 3) /\ (updt_left = 1 => Within(i, 2))
    /\ dec_book_updt_q.valid => Within(i, 3)
    /\ book_res_q.valid => Within(i, 4)

Shaped ==
  /\ initialized_q \in BOOLEAN
  /\ stock_locate_q = [valid |-> stock_locate_q.stock_locate # NoLocate,
                       stock_locate |-> stock_locate_q.stock_locate]

Right(i) == i \in 1 .. Len(pkt) => Good(pkt[i])

Follows(i) ==
  /\ Right(i) /\ Located(i) /\ HalfOnly(i) /\ Cleared(i) /\ Flow(i)
  /\ refused = "no" => Agree(i)
  /\ refused = "error" => Owed(i)

Settled == Shaped /\ Booked /\ DrainedBook /\ Alone /\ (at = 0 => expected = <<>>)

FollowInv ==
  /\ failed => refused # "no"
  /\ failed \/ (Settled /\ \E i \in 0 .. Len(pkt) : Parsed(i) /\ Follows(i))
----------------------------------------------------------------------------
LEMMA BodyKinds ==
  ASSUME NEW msg \in ITCHMsg
  PROVE  /\ msg.kind \in {"EVENT", "DIRECTORY", "ACTION", "HALT", "BOOK", "IGNORE"}
         /\ msg.kind \in {"DIRECTORY", "BOOK"} => msg.stock_locate \in Locates
BY DEF ITCHMsg, SystemEventMsg, DirectoryMsg, TradeActionMsg, OpHaltMsg, ITCHBookMsg, IgnoreMsg

(* A message's kind is its type's. *)
LEMMA TypeKinds ==
  ASSUME NEW i \in 1 .. Len(pkt), Wired(pkt)
  PROVE  /\ pkt[i].body.kind = "BOOK" <=> pkt[i].type \in Orders
         /\ pkt[i].body.kind = "EVENT" <=> pkt[i].type = "S"
         /\ pkt[i].body.kind = "DIRECTORY" <=> pkt[i].type = "R"
         /\ pkt[i].body.kind = "ACTION" <=> pkt[i].type = "H"
         /\ pkt[i].body.kind = "HALT" <=> pkt[i].type = "h"
         /\ pkt[i].body.kind = "IGNORE" <=> pkt[i].type \notin DOMAIN LastAt
         /\ pkt[i].body \in ITCHMsg
<1> DEFINE t == pkt[i].type
<1>1. pkt[i].body.kind = KindOf(t) /\ pkt[i].body \in ITCHMsg
  BY MsgFacts
<1>2. DOMAIN LastAt = Orders \cup {"S", "R", "H", "h"}
  BY DEF LastAt, Orders
<1>3. /\ KindOf(t) = "BOOK" <=> t \in Orders
      /\ KindOf(t) = "EVENT" <=> t = "S"
      /\ KindOf(t) = "DIRECTORY" <=> t = "R"
      /\ KindOf(t) = "ACTION" <=> t = "H"
      /\ KindOf(t) = "HALT" <=> t = "h"
      /\ KindOf(t) = "IGNORE" <=> t \notin Orders \cup {"S", "R", "H", "h"}
  <2> HIDE DEF t
  <2>1. CASE t \in Orders
    BY <2>1 DEF KindOf, Orders
  <2>2. CASE t = "S"
    BY <2>2 DEF KindOf, Orders
  <2>3. CASE t = "R"
    BY <2>3 DEF KindOf, Orders
  <2>4. CASE t = "H"
    BY <2>4 DEF KindOf, Orders
  <2>5. CASE t = "h"
    BY <2>5 DEF KindOf, Orders
  <2>6. CASE t \notin Orders \cup {"S", "R", "H", "h"}
    BY <2>6 DEF KindOf
  <2> QED BY <2>1, <2>2, <2>3, <2>4, <2>5, <2>6
<1> QED BY <1>1, <1>2, <1>3

----------------------------------------------------------------------------
(* Control. *)

IsHeld(h) == h = [init |-> h.init, msg |-> h.msg, sys |-> h.sys, mkt |-> h.mkt,
                  halt |-> h.halt, market |-> h.market, locate |-> h.locate]

LEMMA HeldIs ==
  /\ IsHeld(Held)
  /\ \A h, msg : IsHeld(Applied(h, msg)) /\ Applied(h, msg).init = h.init
BY DEF IsHeld, Held, Applied

(* Messages that Control only looks at. *)
LEMMA Unmoved ==
  ASSUME NEW h, IsHeld(h), NEW msg, msg.kind \in {"BOOK", "IGNORE", "NONE"}
  PROVE  Applied(h, msg) = h
<1>1. /\ Switch(msg, h.msg, "MSG_BEGIN", "MSG_END") = h.msg
      /\ Switch(msg, h.sys, "SYS_BEGIN", "SYS_END") = h.sys
      /\ Switch(msg, h.mkt, "MKT_BEGIN", "MKT_END") = h.mkt
  BY DEF Switch, Says
<1>2. msg.kind # "ACTION" /\ msg.kind # "HALT" /\ msg.kind # "DIRECTORY"
  OBVIOUS
<1> QED BY <1>1, <1>2 DEF IsHeld, Applied

(* What the hardware's Control does with what is decoded for it.           *)
LEMMA HeldMoves ==
  ASSUME Shaped, NEW msg, msg = NoMsg \/ msg \in ITCHMsg, NEW init_v \in BOOLEAN, ControlClock(init_v, msg)
  PROVE  /\ Held' = [Applied(Held, msg) EXCEPT !.init = Held.init \/ init_v]
         /\ ~init_v => Held' = Applied(Held, msg)
         /\ Shaped'
<1>1. /\ msg_hours_q' = Switch(msg, msg_hours_q, "MSG_BEGIN", "MSG_END")
      /\ system_hours_q' = Switch(msg, system_hours_q, "SYS_BEGIN", "SYS_END")
      /\ market_hours_q' = Switch(msg, market_hours_q, "MKT_BEGIN", "MKT_END")
  BY Zenon DEF ControlClock, Hours, Switch
<1>2. /\ stock_halt_q' = IF msg.kind = "ACTION" /\ OfStock(msg)
                         THEN msg.trade_action = "HALT" ELSE stock_halt_q
      /\ market_halt_q' = IF msg.kind = "HALT" /\ OfStock(msg) /\ msg.market_code = init_market
                          THEN msg.is_halt ELSE market_halt_q
  BY DEF ControlClock, Halts
<1>3. stock_locate_q' = IF msg.kind = "DIRECTORY" /\ OfStock(msg)
                        THEN [valid |-> TRUE, stock_locate |-> msg.stock_locate]
                        ELSE stock_locate_q
  BY DEF ControlClock
<1>4. stock_locate_q'.stock_locate = IF msg.kind = "DIRECTORY" /\ OfStock(msg)
                                     THEN msg.stock_locate ELSE stock_locate_q.stock_locate
  BY <1>3
<1>5. initialized_q' = (initialized_q \/ init_v)
  BY DEF ControlClock
<1>6. Held' = [Applied(Held, msg) EXCEPT !.init = Held.init \/ init_v]
  BY <1>1, <1>2, <1>4, <1>5 DEF Held, Applied
<1>7. ASSUME ~init_v PROVE Held' = Applied(Held, msg)
  <2>1. initialized_q' = initialized_q
    BY ONLY <1>5, <1>7, Shaped DEF Shaped
  <2> QED BY <1>1, <1>2, <1>4, <2>1 DEF Held, Applied
<1>8. Shaped'
  <2>1. initialized_q' \in BOOLEAN
    BY <1>5 DEF Shaped
  <2>2. CASE msg.kind = "DIRECTORY" /\ OfStock(msg)
    <3>1. msg # NoMsg
      BY <2>2 DEF NoMsg
    <3>2. msg.stock_locate # NoLocate
      BY <2>2, <3>1, BodyKinds, NoLocateAssumption
    <3> QED BY <1>3, <2>1, <2>2, <3>2 DEF Shaped
  <2>3. CASE ~(msg.kind = "DIRECTORY" /\ OfStock(msg))
    BY <1>3, <2>1, <2>3 DEF Shaped
  <2> QED BY <2>2, <2>3
<1> QED BY <1>6, <1>7, <1>8

LEMMA BookBody ==
  ASSUME NEW msg \in ITCHMsg, msg.kind = "BOOK"
  PROVE  msg = [kind |-> "BOOK", stock_locate |-> msg.stock_locate] /\ msg.stock_locate # NoLocate
<1>1. msg \in ITCHBookMsg
  BY DEF ITCHMsg, SystemEventMsg, DirectoryMsg, TradeActionMsg, OpHaltMsg, ITCHBookMsg, IgnoreMsg
<1>2. msg = [kind |-> "BOOK", stock_locate |-> msg.stock_locate]
  BY <1>1 DEF ITCHBookMsg
<1>3. msg.stock_locate \in Locates
  BY <1>1 DEF ITCHBookMsg
<1> QED BY <1>2, <1>3, NoLocateAssumption

(* What the reference answers is what Control of the hardware would.       *)
LEMMA Answered ==
  ASSUME NEW k \in 1 .. Len(pkt), Wired(pkt), Take(k)
  PROVE  /\ refused' \in {"no", "error", "unwatched"}
         /\ refused' = "no" => /\ ~Refusable(Model, pkt[k])
                               /\ Model' = Applied(Model, pkt[k].body)
         /\ refused' = "error" => Refusable(Model, pkt[k])
         /\ expected' = IF refused' = "no" /\ OwnOf(Model, pkt[k].body)
                        THEN Append(Left, [of |-> k, shown |-> Active(Model)]) ELSE Left
<1> DEFINE m == pkt[k]
           msg == m.body
           out == Ctrl!Outcome(msg)
           begin == Says(msg, "MSG_BEGIN")
           moves == msg.kind = "DIRECTORY" /\ OfStock(msg) /\ ctrl_locate \notin {NoLocate, msg.stock_locate}
<1>1. msg \in ITCHMsg
  BY MsgFacts
<1>2. /\ Ctrl!IsEvent(msg, "MSG_BEGIN") = begin /\ Ctrl!MovesStock(msg) = moves
      /\ Ctrl!ForStock(msg) = OfStock(msg)
  BY DEF Ctrl!IsEvent, Ctrl!MovesStock, Ctrl!ForStock, Says, OfStock, NoLocate, Ctrl!NoLocate
<1>3. /\ out = "ok" => initialized /\ ~moves /\ (msg_hours \/ begin)
      /\ out = "uninitialized" => ~initialized
      /\ out = "locate_mismatch" => moves
      /\ out = "not_msg_hours" => ~msg_hours /\ ~begin
      /\ out \in {"ok", "uninitialized", "assert", "locate_mismatch", "not_msg_hours"}
  <2>1. out = CASE ~initialized -> "uninitialized"
                [] initialized /\ Ctrl!Redundant(msg) -> "assert"
                [] initialized /\ moves -> "locate_mismatch"
                [] initialized /\ ~Ctrl!Redundant(msg) /\ ~moves /\ ~msg_hours /\ ~begin -> "not_msg_hours"
                [] OTHER -> "ok"
    BY <1>2 DEF Ctrl!Outcome
  <2> DEFINE red == Ctrl!Redundant(msg)
  <2> HIDE DEF red, moves, begin, out
  <2>2. CASE ~initialized
    BY <2>1, <2>2 DEF red
  <2>3. CASE initialized /\ moves /\ ~red
    BY <2>1, <2>3 DEF red
  <2>4. CASE initialized /\ red
    BY <2>1, <2>4 DEF red
  <2>5. CASE initialized /\ ~moves /\ ~red
    BY <2>1, <2>5 DEF red
  <2> QED BY <2>2, <2>3, <2>4, <2>5
<1> HIDE DEF out, moves, begin
<1>4. Trouble(Model, msg) =
        CASE msg.kind = "BOOK" -> ctrl_locate = NoLocate
                                  \/ (msg.stock_locate = ctrl_locate /\ ~(initialized /\ msg_hours))
          [] msg.kind \in {"EVENT", "DIRECTORY", "ACTION", "HALT"} -> ~initialized \/ (~msg_hours /\ ~begin) \/ moves
          [] OTHER -> FALSE
  BY DEF Trouble, Model, Listening, begin, moves
<1>5. refused' = CASE Malformed(m) -> "error"
                   [] ~Malformed(m) /\ out # "ok" -> IF Unwatched(msg) THEN "unwatched" ELSE "error"
                   [] ~Malformed(m) /\ out = "ok" /\ msg.kind = "BOOK" /\ ctrl_locate = NoLocate -> "error"
                   [] OTHER -> "no"
  BY DEF Take, Verdict, out
<1>6. /\ refused' \in {"no", "error", "unwatched"}
      /\ refused' = "no" => ~Malformed(m) /\ out = "ok" /\ ~(msg.kind = "BOOK" /\ ctrl_locate = NoLocate)
      /\ refused' = "error" => \/ Malformed(m)
                               \/ out # "ok" /\ ~Unwatched(msg)
                               \/ msg.kind = "BOOK" /\ ctrl_locate = NoLocate
  <2> HIDE DEF m
  <2>1. CASE Malformed(m)
    BY <1>5, <2>1
  <2>2. CASE ~Malformed(m) /\ out # "ok"
    BY <1>5, <2>2
  <2>3. CASE ~Malformed(m) /\ out = "ok" /\ msg.kind = "BOOK" /\ ctrl_locate = NoLocate
    BY <1>5, <2>3
  <2>4. CASE ~Malformed(m) /\ out = "ok" /\ ~(msg.kind = "BOOK" /\ ctrl_locate = NoLocate)
    BY <1>5, <2>4
  <2> QED BY <2>1, <2>2, <2>3, <2>4
<1>7. msg.kind \in {"EVENT", "DIRECTORY", "ACTION", "HALT", "BOOK", "IGNORE"}
  BY <1>1, BodyKinds
<1>8. ASSUME refused' = "no"
      PROVE  ~Refusable(Model, m) /\ Model' = Applied(Model, msg)
  <2>1. ~Malformed(m) /\ out = "ok" /\ ~(msg.kind = "BOOK" /\ ctrl_locate = NoLocate)
    BY <1>6, <1>8
  <2>2. begin => msg.kind # "BOOK"
    BY DEF begin, Says
  <2>3. ~Trouble(Model, msg)
    BY <1>3, <1>4, <1>7, <2>1, <2>2
  <2>4. Ctrl!ProcessMsg(msg)
    BY <2>1 DEF Take
  <2>5. /\ Ctrl!Event(msg) /\ Ctrl!Directory(msg) /\ Ctrl!TradeAction(msg) /\ Ctrl!OpHalt(msg)
        /\ initialized' = initialized
    BY <2>1, <2>4 DEF Ctrl!ProcessMsg, out
  <2>6. /\ msg_hours' = Switch(msg, msg_hours, "MSG_BEGIN", "MSG_END")
        /\ sys_hours' = Switch(msg, sys_hours, "SYS_BEGIN", "SYS_END")
        /\ mkt_hours' = Switch(msg, mkt_hours, "MKT_BEGIN", "MKT_END")
    BY <2>5, Zenon DEF Ctrl!Event, Ctrl!IsEvent, Switch, Says
  <2>7. /\ stock_halt' = IF msg.kind = "ACTION" /\ OfStock(msg) THEN msg.trade_action = "HALT" ELSE stock_halt
        /\ market_halt' = IF msg.kind = "HALT" /\ OfStock(msg) /\ msg.market_code = init_market
                          THEN msg.is_halt ELSE market_halt
    BY <2>5 DEF Ctrl!TradeAction, Ctrl!OpHalt, Ctrl!ForStock, Ctrl!ForMarket, OfStock
  <2>8. ctrl_locate' = IF msg.kind = "DIRECTORY" /\ OfStock(msg) THEN msg.stock_locate ELSE ctrl_locate
    <3>1. msg.kind = "DIRECTORY" => msg.stock_locate # NoLocate
      BY <1>1, BodyKinds, NoLocateAssumption
    <3> QED BY <1>2, <2>5, <3>1 DEF Ctrl!Directory, Ctrl!LocateResult, NoLocate, Ctrl!NoLocate
  <2>9. Model' = Applied(Model, msg)
    BY <2>5, <2>6, <2>7, <2>8 DEF Model, Applied
  <2> QED BY <2>1, <2>3, <2>9 DEF Refusable
<1>9. ASSUME refused' = "error"
      PROVE  Refusable(Model, m)
  <2>1. CASE Malformed(m)
    BY <2>1 DEF Refusable
  <2>2. CASE out # "ok" /\ ~Unwatched(msg)
    <3>1. out # "assert" /\ msg.kind # "IGNORE"
          /\ (msg.kind = "BOOK" => ctrl_locate = NoLocate \/ msg.stock_locate = ctrl_locate)
      BY <2>2 DEF Unwatched, OwnOrder, out
    <3>2. moves => msg.kind = "DIRECTORY"
      BY DEF moves
    <3>3. Trouble(Model, msg)
      BY <1>3, <1>4, <1>7, <2>2, <3>1, <3>2
    <3> QED BY <3>3 DEF Refusable
  <2>3. CASE msg.kind = "BOOK" /\ ctrl_locate = NoLocate
    BY <1>4, <2>3 DEF Refusable
  <2> QED BY <1>6, <1>9, <2>1, <2>2, <2>3
<1>10. expected' = IF refused' = "no" /\ OwnOf(Model, msg)
                   THEN Append(Left, [of |-> k, shown |-> Active(Model)]) ELSE Left
  <2>1. OwnOrder(msg) = OwnOf(Model, msg)
    BY DEF OwnOrder, OwnOf, Model
  <2>2. expected' = IF refused' = "no" /\ OwnOrder(msg)
                    THEN Append(Left, [of |-> k, shown |-> Ctrl!StockActive]) ELSE Left
    BY DEF Take
  <2>3. refused' = "no" => Ctrl!StockActive = Active(Model)
    <3>1. refused' = "no" => initialized
      BY <1>3, <1>6
    <3>2. Active(Model) = (initialized /\ msg_hours /\ sys_hours /\ ~stock_halt /\ ~market_halt)
      BY DEF Active, Model
    <3>3. Ctrl!StockActive = (msg_hours /\ sys_hours /\ ~stock_halt /\ ~market_halt)
      BY DEF Ctrl!StockActive
    <3> QED BY <3>1, <3>2, <3>3, Zenon
  <2> QED BY <2>1, <2>2, <2>3
<1> QED BY <1>6, <1>8, <1>9, <1>10

----------------------------------------------------------------------------
(* The book: what it does in a clock. *)

Frees ==
  /\ dec_book_updt_q.valid /\ ~lookup.valid
  /\ book_res_q' = [valid |-> TRUE, of |-> dec_book_updt_q.of]
  /\ dec_book_updt_q' = NoLookup /\ updt_left' = 0

Looks ==
  /\ lookup.valid /\ ~dec_book_updt_q.valid /\ updt_left = 0
  /\ book_res_q' = IF lookup.has_rep THEN NoRes ELSE [valid |-> TRUE, of |-> lookup.of]
  /\ dec_book_updt_q' = NoLookup /\ updt_left' \in {0, 3}

Waits ==
  /\ lookup.valid /\ ~dec_book_updt_q.valid /\ updt_left = 1
  /\ lookup.msg_type = "REPLACE" /\ ~lookup.has_rep
  /\ book_res_q' = NoRes
  /\ dec_book_updt_q' = lookup /\ updt_left' = 0

Still ==
  /\ ~lookup.valid /\ ~dec_book_updt_q.valid
  /\ book_res_q' = NoRes
  /\ dec_book_updt_q'.valid = FALSE /\ updt_left' = IF updt_left > 0 THEN updt_left - 1 ELSE 0

(* What the book does in a clock, out of the refill, the message it looks  *)
(* up and the one it holds back.                                           *)
LEMMA BookMoves ==
  ASSUME Flags, Booked, NEW refills \in {FALSE, TakesShares(bbo_dec_book)}, BookTime(refills)
  PROVE  Frees \/ Looks \/ Waits \/ Still
<1>0. /\ lookup.valid \in BOOLEAN /\ dec_book_updt_q.valid \in BOOLEAN /\ updt_left \in 0 .. 3
      /\ NoLookup.valid = FALSE
  BY DEF Flags, Booked, NoLookup
<1>1. /\ book_res_q' = IF bbo_dec_book.valid /\ ~bbo_dec_book.has_rep
                       THEN [valid |-> TRUE, of |-> bbo_dec_book.of] ELSE NoRes
      /\ dec_book_updt_q' = IF updt_ing_q THEN lookup ELSE NoLookup
      /\ updt_left' = CASE refills -> 3
                        [] ~refills /\ updt_left > 0 -> updt_left - 1
                        [] OTHER -> 0
  BY DEF BookTime
<1>2. /\ refills \in BOOLEAN
      /\ refills => bbo_dec_book.valid /\ bbo_dec_book.msg_type \in {"REDUCE", "DELETE"}
  BY DEF TakesShares
<1>3. /\ refills => updt_left' = 3
      /\ ~refills => updt_left' = IF updt_left > 0 THEN updt_left - 1 ELSE 0
  <2>1. CASE refills
    BY <1>1, <2>1
  <2>2. CASE ~refills /\ updt_left > 0
    BY <1>1, <2>2
  <2>3. CASE ~refills /\ ~(updt_left > 0)
    BY <1>1, <2>3
  <2> QED BY <1>2, <2>1, <2>2, <2>3
<1>4. updt_ing_q <=> updt_left \in {1, 2}
  BY DEF updt_ing_q
<1>5. /\ Releases => bbo_dec_book = dec_book_updt_q
      /\ ~Releases /\ updt_ing_q => bbo_dec_book = NoLookup
      /\ ~Releases /\ ~updt_ing_q => bbo_dec_book = lookup
  BY DEF bbo_dec_book
<1>6. CASE dec_book_updt_q.valid
  <2>1. /\ dec_book_updt_q.msg_type = "REPLACE" /\ ~dec_book_updt_q.has_rep
        /\ ~lookup.valid /\ updt_left = 0
    BY <1>6 DEF Booked
  <2>2. ~updt_ing_q /\ Releases
    BY <1>4, <1>6, <2>1 DEF Releases
  <2>3. bbo_dec_book = dec_book_updt_q
    BY <1>5, <2>2
  <2>4. ~refills
    BY <1>2, <2>1, <2>3
  <2>5. updt_left' = 0
    BY <1>3, <2>1, <2>4
  <2> QED BY <1>1, <1>6, <2>1, <2>2, <2>3, <2>5 DEF Frees
<1>7. CASE ~dec_book_updt_q.valid /\ lookup.valid
  <2>0. ~Releases
    BY <1>7 DEF Releases
  <2>1. IF lookup.msg_type = "REPLACE" THEN updt_left <= 1 ELSE updt_left = 0
    BY <1>7 DEF Booked
  <2>2. CASE updt_left = 0
    <3>1. ~updt_ing_q
      BY <1>4, <2>2
    <3>2. bbo_dec_book = lookup
      BY <1>5, <2>0, <3>1
    <3>3. updt_left' \in {0, 3}
      BY <1>2, <1>3, <2>2
    <3>4. book_res_q' = IF lookup.has_rep THEN NoRes ELSE [valid |-> TRUE, of |-> lookup.of]
      BY <1>1, <1>7, <3>2
    <3> QED BY <1>1, <1>7, <2>2, <3>1, <3>3, <3>4 DEF Looks
  <2>3. CASE updt_left = 1
    <3>1. updt_ing_q
      BY <1>4, <2>3
    <3>2. bbo_dec_book = NoLookup
      BY <1>5, <2>0, <3>1
    <3>3. ~refills
      BY <1>0, <1>2, <3>2
    <3>4. updt_left' = 0
      BY <1>3, <2>3, <3>3
    <3>5. lookup.msg_type = "REPLACE"
      BY <2>1, <2>3
    <3>6. ~lookup.has_rep
      BY <1>7, <3>5 DEF Booked
    <3> QED BY <1>0, <1>1, <1>7, <2>3, <3>1, <3>2, <3>4, <3>5, <3>6 DEF Waits
  <2> QED BY <1>0, <2>1, <2>2, <2>3
<1>8. CASE ~dec_book_updt_q.valid /\ ~lookup.valid
  <2>0. ~Releases
    BY <1>8 DEF Releases
  <2>1. ~bbo_dec_book.valid
    BY <1>0, <1>5, <1>8, <2>0
  <2>2. ~refills
    BY <1>2, <2>1
  <2>3. dec_book_updt_q'.valid = FALSE
    BY <1>0, <1>1, <1>8
  <2> QED BY <1>1, <1>3, <1>8, <2>1, <2>2, <2>3 DEF Still
<1> QED BY <1>6, <1>7, <1>8

(* What is looked up next, and when. *)
BookSteps == Frees \/ Looks \/ Waits \/ Still

LEMMA ResFacts ==
  /\ NoRes.valid = FALSE /\ NoLookup.valid = FALSE
  /\ BookSteps /\ Flags =>
       /\ Frees => book_res_q'.valid = TRUE /\ book_res_q'.of = dec_book_updt_q.of /\ dec_book_updt_q'.valid = FALSE
       /\ Looks => /\ book_res_q'.valid <=> ~lookup.has_rep
                   /\ ~lookup.has_rep => book_res_q'.of = lookup.of
                   /\ dec_book_updt_q'.valid = FALSE
       /\ Waits => /\ book_res_q'.valid = FALSE /\ dec_book_updt_q'.valid = TRUE
                   /\ dec_book_updt_q'.of = lookup.of
       /\ Still => book_res_q'.valid = FALSE /\ ~dec_book_updt_q'.valid
<1>1. NoRes.valid = FALSE /\ NoLookup.valid = FALSE
  BY DEF NoRes, NoLookup
<1>2. Frees => book_res_q'.valid = TRUE /\ book_res_q'.of = dec_book_updt_q.of /\ dec_book_updt_q'.valid = FALSE
  BY <1>1 DEF Frees
<1>3. Looks => /\ book_res_q'.valid <=> ~lookup.has_rep
               /\ ~lookup.has_rep => book_res_q'.of = lookup.of
               /\ dec_book_updt_q'.valid = FALSE
  BY <1>1 DEF Looks
<1>4. Flags /\ Waits => /\ book_res_q'.valid = FALSE /\ dec_book_updt_q'.valid = TRUE
                        /\ dec_book_updt_q'.of = lookup.of
  BY <1>1 DEF Waits, Flags
<1>5. Still => book_res_q'.valid = FALSE /\ ~dec_book_updt_q'.valid
  BY <1>1 DEF Still
<1> QED BY <1>1, <1>2, <1>3, <1>4, <1>5

----------------------------------------------------------------------------
(* The clocks in which a result is promised: an order message of the stock *)
(* is passed on, a replacement with its second half.                       *)

Promises(i) ==
  OfType(i, Orders) /\ Takes(i) /\ words_left = LastAt[pkt[i].type] /\ match_locate_q

LEMMA LastPlaces ==
  /\ \A t \in Orders : /\ t \in DOMAIN LastAt
                       /\ LastAt[t] = IF t = "D" THEN 1 ELSE BookAt[t]
                       /\ LastAt[t] < LocateAt[t] /\ LastAt[t] <= PassAt(t)
                       /\ t # "U" => LastAt[t] = PassAt(t)
                       /\ LastAt[t] \in 1 .. 4 /\ LocateAt[t] \in 2 .. 6
                       /\ DelAt[t] = (IF t = "D" THEN 1 ELSE IF t = "U" THEN 5 ELSE 0)
  /\ \A t \in DOMAIN LastAt : t \in Orders \/ (t \in {"S", "R", "H", "h"} /\ LastAt[t] = CtrlAt[t] /\ LastAt[t] \in 1 .. 6)
  /\ \A t \in {"S", "R", "H", "h"} : t \in DOMAIN LastAt /\ t \notin Orders
<1>1. ASSUME NEW t \in Orders
      PROVE  /\ t \in DOMAIN LastAt
             /\ LastAt[t] = IF t = "D" THEN 1 ELSE BookAt[t]
             /\ LastAt[t] < LocateAt[t] /\ LastAt[t] <= PassAt(t)
             /\ t # "U" => LastAt[t] = PassAt(t)
             /\ LastAt[t] \in 1 .. 4 /\ LocateAt[t] \in 2 .. 6
             /\ DelAt[t] = (IF t = "D" THEN 1 ELSE IF t = "U" THEN 5 ELSE 0)
  BY DEF Orders, LastAt, BookAt, LocateAt, PassAt, DelAt
<1>2. ASSUME NEW t \in DOMAIN LastAt
      PROVE  t \in Orders \/ (t \in {"S", "R", "H", "h"} /\ LastAt[t] = CtrlAt[t] /\ LastAt[t] \in 1 .. 6)
  BY DEF Orders, LastAt, CtrlAt
<1>3. ASSUME NEW t \in {"S", "R", "H", "h"}
      PROVE  t \in DOMAIN LastAt /\ t \notin Orders
  BY DEF Orders, LastAt
<1> QED BY <1>1, <1>2, <1>3

(* It finds the way free. *)
LEMMA WayFree ==
  ASSUME Flags, Paced, Booked, NEW i, Parsed(i), HalfOnly(i), OfType(i, Orders),
         words_left = LastAt[pkt[i].type]
  PROVE  /\ ~dec_book_del_q.valid /\ ~dec_book_q.valid /\ ~lookup.valid
         /\ ~dec_book_updt_q.valid /\ ~book_res_q.valid
<1> DEFINE t == pkt[i].type
<1>1. t \in Orders /\ InMsg(i)
  BY DEF OfType
<1>2. CASE t # "U"
  <2>1. words_left = PassAt(t)
    BY <1>1, <1>2, LastPlaces
  <2>2. ~dec_book_del_q.valid /\ ~dec_book_q.valid /\ ~lookup.valid /\ quiet \in 3 .. 9
    BY <2>1, Ready
  <2>3. ~(quiet <= 1) /\ ~(quiet <= 2)
    BY ONLY <2>2
  <2> QED BY <2>2, <2>3 DEF Booked
<1>3. CASE t = "U"
  <2>1. words_left = 1 /\ OfType(i, {"U"})
    <3>1. LastAt["U"] = 1
      BY DEF LastAt
    <3> QED BY <1>1, <1>3, <3>1 DEF OfType
  <2>2. words_left < 5 /\ ~(words_left = 4) /\ ~(words_left >= 3) /\ ~(words_left >= 2)
    BY ONLY <2>1
  <2>3. ~dec_book_del_q.valid /\ ~dec_book_q.valid /\ ~lookup.valid
    BY <2>1, <2>2 DEF Parsed, Halves
  <2> QED BY <2>1, <2>2, <2>3 DEF HalfOnly
<1> QED BY <1>2, <1>3

(* The word with which a result is promised: nothing else is under way,    *)
(* and the message is passed on under its own number.                      *)
LEMMA Promised ==
  ASSUME Flags, Paced, Booked, Pipe, NEW i, Parsed(i), HalfOnly(i), Promises(i)
  PROVE  /\ ~lookup'.valid
         /\ \/ InDel' /\ ~dec_book_q'.valid /\ dec_book_del_q'.order_id[1] = i
            \/ InBook' /\ ~dec_book_del_q'.valid /\ dec_book_q'.order_id[1] = i
<1> DEFINE t == pkt[i].type
<1>1. t \in Orders /\ InMsg(i) /\ OfType(i, Orders) /\ words_left = LastAt[t] /\ match_locate_q /\ Takes(i)
  BY DEF OfType, Promises
<1>2. ~dec_book_del_q.valid /\ ~dec_book_q.valid /\ ~lookup.valid
  BY <1>1, WayFree
<1>3. ~lookup'.valid
  BY <1>2, ResFacts DEF Pipe
<1>4. CASE t = "D"
  <2>1. words_left = 1 /\ DelAt[t] = 1 /\ BookAt[t] = 0 /\ TakesId(t) = {1}
    BY <1>1, <1>4 DEF LastAt, DelAt, BookAt, TakesId
  <2>2. dec_book_del_q' = [valid |-> match_locate_q, msg_type |-> "DELETE", has_rep |-> t = "U",
                           order_id |-> IdOf(i), fields |-> <<>>]
    BY <1>1, <2>1 DEF Takes
  <2>3. IdOf(i) = <<i, SYMBOL>>
    BY <1>4, <2>1 DEF IdOf
  <2>4. dec_book_del_q'.valid = match_locate_q /\ ~dec_book_del_q'.has_rep /\ dec_book_del_q'.order_id = <<i, SYMBOL>>
    BY <1>4, <2>2, <2>3
  <2>5. dec_book_q' = [NoBook EXCEPT !.order_id = IdOf(i)]
    BY <1>1, <1>2, <2>1 DEF Takes
  <2>6. ~dec_book_q'.valid
    BY <2>5 DEF NoBook
  <2> QED BY <1>1, <1>3, <2>4, <2>6 DEF InDel
<1>5. CASE t # "D"
  <2>1. words_left = BookAt[t] /\ words_left # DelAt[t]
    <3>1. LastAt[t] = BookAt[t] /\ LastAt[t] \in 1 .. 4 /\ DelAt[t] \in {0, 5}
      BY <1>1, <1>5, LastPlaces
    <3> QED BY <1>1, <3>1
  <2>2. dec_book_q' = [valid |-> match_locate_q, msg_type |-> BookType, has_rep |-> FALSE,
                       order_id |-> IdOf(i), fields |-> Fields(pkt, at, BookPlaces)]
    BY <1>1, <1>2, <2>1 DEF Takes
  <2>3. dec_book_q'.valid = match_locate_q /\ dec_book_q'.has_rep = FALSE
    BY <2>2
  <2>4. dec_book_del_q' = NoBook
    BY <1>1, <2>1 DEF Takes
  <2>5. ~dec_book_del_q'.valid
    BY <2>4 DEF NoBook
  <2>6. dec_book_q'.order_id = IdOf(i)
    BY <2>2
  <2>7. IdOf(i) = dec_book_q.order_id
    <3>1. words_left \notin TakesId(t)
      BY <1>1, <1>5, <2>1 DEF Orders, TakesId, BookAt, LocateAt
    <3> QED BY <3>1 DEF IdOf
  <2>8. dec_book_q.order_id[1] = i
    <3>1. CASE t = "U"
      <4>1. words_left = 1 /\ OfType(i, {"U"})
        BY <1>1, <2>1, <3>1 DEF BookAt, OfType
      <4>2. dec_book_q.order_id = <<i, NEW_ID>>
        BY <4>1 DEF Parsed, IdKept, IdShown
      <4> QED BY <4>2
    <3>2. CASE t # "U"
      <4>1. OfType(i, {"A", "F", "E", "X", "C"})
        BY <1>1, <1>5, <3>2 DEF Orders, OfType
      <4>2. dec_book_q.order_id = <<i, SYMBOL>>
        BY <2>1, <4>1 DEF Parsed, IdKept, IdShown
      <4> QED BY <4>2
    <3> QED BY <3>1, <3>2
  <2> QED BY <1>1, <1>3, <2>3, <2>5, <2>6, <2>7, <2>8 DEF InBook
<1> QED BY <1>4, <1>5

(* Any other word promises nothing, and moves on what was promised. *)
LEMMA Unpromised ==
  ASSUME Flags, NEW i, Parsed(i), Taking(i), ~Promises(i)
  PROVE  /\ ~InDel'
         /\ InBook' <=> InDel
         /\ InDel => dec_book_q'.order_id = dec_book_del_q.order_id
<1> DEFINE t == pkt[i].type
<1>1. CASE Keeps
  <2>1. ~dec_book_del_q'.valid /\ dec_book_q' = IF dec_book_del_q.valid THEN dec_book_del_q
                   ELSE [NoBook EXCEPT !.order_id = dec_book_q.order_id]
    BY <1>1 DEF Keeps, NoBook
  <2>2. ~[NoBook EXCEPT !.order_id = dec_book_q.order_id].valid
    BY DEF NoBook
  <2> QED BY <2>1, <2>2 DEF InDel, InBook
<1>2. CASE OfType(i, Orders) /\ Takes(i)
  <2>1. t \in Orders /\ words_left \in 1 .. 12
    BY <1>2, InMsgFacts DEF OfType
  <2>2. ~InDel'
    <3>1. CASE words_left = DelAt[t]
      <4>1. dec_book_del_q' = [valid |-> match_locate_q, msg_type |-> "DELETE", has_rep |-> t = "U",
                               order_id |-> IdOf(i), fields |-> <<>>]
        BY <1>2, <3>1 DEF Takes
      <4>2. dec_book_del_q'.valid = match_locate_q /\ dec_book_del_q'.has_rep = (t = "U")
        BY <4>1
      <4>3. CASE t = "D"
        <5>1. words_left = LastAt[t]
          BY <2>1, <3>1, <4>3, LastPlaces
        <5>2. ~match_locate_q
          BY <1>2, <5>1 DEF Promises
        <5> QED BY <4>2, <5>2 DEF InDel
      <4>4. CASE t = "U"
        BY <4>2, <4>4 DEF InDel
      <4>5. CASE t # "D" /\ t # "U"
        <5>1. DelAt[t] = 0
          BY <2>1, <4>5, LastPlaces
        <5> QED BY <2>1, <3>1, <5>1
      <4> QED BY <4>3, <4>4, <4>5
    <3>2. CASE words_left # DelAt[t]
      <4>1. dec_book_del_q' = NoBook
        BY <1>2, <3>2 DEF Takes
      <4> QED BY <4>1 DEF InDel, NoBook
    <3> QED BY <3>1, <3>2
  <2>3. CASE dec_book_del_q.valid
    <3>1. dec_book_q' = dec_book_del_q
      BY <1>2, <2>3 DEF Takes
    <3> QED BY <2>2, <2>3, <3>1 DEF InDel, InBook
  <2>4. CASE ~dec_book_del_q.valid
    <3>1. CASE words_left = BookAt[t]
      <4>1. dec_book_q'.valid = match_locate_q
        BY <1>2, <2>4, <3>1 DEF Takes
      <4>2. words_left = LastAt[t]
        <5>1. BookAt["D"] = 0
          BY DEF BookAt
        <5>2. t # "D"
          BY <2>1, <3>1, <5>1
        <5> QED BY <2>1, <3>1, <5>2, LastPlaces
      <4>3. ~match_locate_q
        BY <1>2, <4>2 DEF Promises
      <4> QED BY <2>2, <2>4, <4>1, <4>3 DEF InDel, InBook
    <3>2. CASE words_left # BookAt[t]
      <4>1. dec_book_q' = [NoBook EXCEPT !.order_id = IdOf(i)]
        BY <1>2, <2>4, <3>2 DEF Takes
      <4>2. ~dec_book_q'.valid
        BY <4>1 DEF NoBook
      <4> QED BY <2>2, <2>4, <4>2 DEF InDel, InBook
    <3> QED BY <3>1, <3>2
  <2> QED BY <2>3, <2>4
<1> QED BY <1>1, <1>2 DEF Taking, Advances

LEMMA SlowReplaces ==
  ASSUME Flags, Booked, BookSteps, NEW i, Parsed(i), Taking(i), dec_book_q'.valid, dec_book_q'.msg_type = "REPLACE"
  PROVE  OfType(i, {"U"}) /\ words_left = 1 /\ match_locate_q /\ ~dec_book_del_q.valid /\ updt_left' <= 2
<1>1. ~(dec_book_del_q.valid /\ dec_book_q' = dec_book_del_q)
  <2> SUFFICES ASSUME dec_book_del_q.valid, dec_book_q' = dec_book_del_q PROVE FALSE
    OBVIOUS
  <2>1. dec_book_del_q.msg_type = "DELETE"
    BY DelPasses
  <2> QED BY <2>1
<1>2. Passes(i)
  BY <1>1, Passed
<1>3. pkt[i].type = "U"
  BY <1>2, PassedTypes
<1>4. OfType(i, {"U"}) /\ words_left = BookAt["U"] /\ match_locate_q /\ ~dec_book_del_q.valid
  BY <1>2, <1>3 DEF Passes, OfType
<1>5. words_left = 1 /\ words_left < 5 /\ ~(words_left >= 2)
  BY <1>4 DEF BookAt
<1>6. ~lookup.valid
  BY <1>4, <1>5 DEF Parsed, Halves
<1>7. updt_left' <= 2
  <2>1. updt_left \in 0 .. 3
    BY DEF Booked
  <2>2. updt_left' = 0 \/ updt_left' = IF updt_left > 0 THEN updt_left - 1 ELSE 0
    BY <1>6 DEF BookSteps, Frees, Looks, Waits, Still
  <2> QED BY ONLY <2>1, <2>2
<1> QED BY <1>4, <1>5, <1>7

(* The book is never so late that a message finds it holding one back. *)
LEMMA BookedKept ==
  ASSUME Flags, Paced, Booked, Pipe, BookSteps, bbo_res_o'.valid = book_res_q.valid,
         NEW i, Parsed(i), Taking(i)
  PROVE  Booked'
<1>0. /\ quiet \in 0 .. 9 /\ updt_left \in 0 .. 3 /\ lookup.valid \in BOOLEAN
      /\ updt_left > 0 => quiet + updt_left <= 5
  BY DEF Booked, Paced, Flags
<1>1. /\ quiet' \in 1 .. 9
      /\ ~lookup.valid => quiet' = (IF quiet < 9 THEN quiet + 1 ELSE 9)
      /\ lookup.valid => quiet' \in 1 .. 2
      /\ lookup.valid /\ lookup.msg_type = "REPLACE" => quiet' = 1
  BY <1>0 DEF Pipe
<1>2. \/ updt_left' = 0
      \/ lookup.valid /\ updt_left' = 3
      \/ ~lookup.valid /\ updt_left' = IF updt_left > 0 THEN updt_left - 1 ELSE 0
  BY DEF BookSteps, Frees, Looks, Waits, Still
<1>3. updt_left' \in 0 .. 3
  BY ONLY <1>0, <1>2
<1>4. updt_left' > 0 => quiet' + updt_left' <= 5
  BY ONLY <1>0, <1>1, <1>2
<1>5. lookup'.valid => dec_book_q.valid /\ lookup'.msg_type = dec_book_q.msg_type /\ lookup'.has_rep = dec_book_q.has_rep
  BY ResFacts DEF Pipe
<1>6. dec_book_q.valid => ~lookup.valid /\ quiet + 1 >= Needed(dec_book_q.msg_type)
                          /\ (dec_book_q.msg_type # "DELETE" => ~dec_book_q.has_rep)
  BY DEF Paced
<1>7. dec_book_updt_q'.valid => /\ dec_book_updt_q'.msg_type = "REPLACE" /\ ~dec_book_updt_q'.has_rep
                                /\ ~lookup'.valid /\ updt_left' = 0 /\ quiet' <= 1
  <2> SUFFICES ASSUME dec_book_updt_q'.valid
               PROVE  /\ dec_book_updt_q'.msg_type = "REPLACE" /\ ~dec_book_updt_q'.has_rep
                      /\ ~lookup'.valid /\ updt_left' = 0 /\ quiet' <= 1
    OBVIOUS
  <2>1. Waits
    BY ResFacts DEF BookSteps
  <2>2. lookup.valid /\ lookup.msg_type = "REPLACE" /\ ~lookup.has_rep /\ dec_book_updt_q' = lookup /\ updt_left' = 0
    BY <2>1 DEF Waits
  <2>3. ~lookup'.valid
    BY <1>5, <1>6, <2>2
  <2>4. quiet' <= 1
    BY <1>1, <2>2
  <2> QED BY <2>2, <2>3, <2>4
<1>8. lookup'.valid => /\ IF lookup'.msg_type = "REPLACE" THEN updt_left' <= 1 ELSE updt_left' = 0
                       /\ lookup'.has_rep => lookup'.msg_type = "DELETE"
  <2> SUFFICES ASSUME lookup'.valid
               PROVE  /\ IF lookup'.msg_type = "REPLACE" THEN updt_left' <= 1 ELSE updt_left' = 0
                      /\ lookup'.has_rep => lookup'.msg_type = "DELETE"
    OBVIOUS
  <2>1. dec_book_q.valid /\ ~lookup.valid
    BY <1>5, <1>6
  <2>2. updt_left' = 0 \/ updt_left' = IF updt_left > 0 THEN updt_left - 1 ELSE 0
    BY <1>2, <2>1
  <2>3. CASE dec_book_q.msg_type = "REPLACE"
    <3>1. updt_left <= 2
      BY <2>1, <2>3 DEF Booked
    <3>2. updt_left' <= 1
      BY ONLY <1>0, <2>2, <3>1
    <3> QED BY <1>5, <1>6, <2>1, <2>3, <3>2
  <2>4. CASE dec_book_q.msg_type # "REPLACE"
    <3>1. Needed(dec_book_q.msg_type) >= 6
      BY <2>4 DEF Needed
    <3>2. Needed(dec_book_q.msg_type) \in {3, 6, 9}
      BY DEF Needed
    <3>3. quiet + 1 >= Needed(dec_book_q.msg_type)
      BY <1>6, <2>1
    <3>4. updt_left = 0
      BY ONLY <1>0, <3>1, <3>2, <3>3
    <3>5. updt_left' = 0
      BY ONLY <2>2, <3>4
    <3> QED BY <1>5, <1>6, <2>1, <2>4, <3>5
  <2> QED BY <2>3, <2>4
<1>9. dec_book_q'.valid /\ dec_book_q'.msg_type = "REPLACE" => updt_left' <= 2
  BY SlowReplaces
<1>10. book_res_q'.valid => quiet' <= 2
  <2>1. CASE Frees
    <3>1. quiet <= 1 /\ ~lookup.valid
      BY <2>1 DEF Frees, Booked
    <3> QED BY <1>0, <1>1, <3>1
  <2>2. CASE Looks
    <3>1. lookup.valid
      BY <2>2 DEF Looks
    <3> QED BY <1>1, <3>1
  <2>3. CASE Waits \/ Still
    BY <2>3, ResFacts DEF BookSteps
  <2> QED BY <2>1, <2>2, <2>3 DEF BookSteps
<1>11. book_res_q'.valid \in BOOLEAN /\ bbo_res_o'.valid \in BOOLEAN /\ dec_book_updt_q'.valid \in BOOLEAN
  <2>1. bbo_res_o'.valid \in BOOLEAN
    BY DEF Booked
  <2>2. book_res_q'.valid \in BOOLEAN /\ dec_book_updt_q'.valid \in BOOLEAN
    <3>1. CASE Frees
      BY <3>1, ResFacts DEF BookSteps
    <3>2. CASE Looks
      <4>1. NoRes.valid = FALSE /\ [valid |-> TRUE, of |-> lookup.of].valid = TRUE /\ NoLookup.valid = FALSE
        BY ResFacts
      <4> QED BY <3>2, <4>1 DEF Looks
    <3>3. CASE Waits
      BY <3>3, ResFacts DEF BookSteps
    <3>4. CASE Still
      <4>1. dec_book_updt_q'.valid \in BOOLEAN
        BY <1>0, <3>4 DEF Still
      <4> QED BY <3>4, <4>1, ResFacts DEF BookSteps
    <3> QED BY <3>1, <3>2, <3>3, <3>4 DEF BookSteps
  <2> QED BY <2>1, <2>2
<1> QED BY <1>3, <1>4, <1>7, <1>8, <1>9, <1>10, <1>11 DEF Booked

(* Behind the last word the book is empty, stage after stage. *)
LEMMA DrainedBookKept ==
  ASSUME Flags, Paced, Booked, Drained, DrainedBook, Pipe, BookSteps, NEW i, Parsed(i), Taking(i),
         Wired(pkt), at \in Nat, at' = at \/ at' = at + 1, at < WordsOf(pkt) => at' <= WordsOf(pkt),
         ~(at < WordsOf(pkt)) => Keeps /\ dec_ctrl_o' = NoCtrl, pkt' = pkt
  PROVE  DrainedBook'
<1> DEFINE W == WordsOf(pkt)
<1>0. W \in Nat /\ at \in Nat /\ W' = W
  BY PayloadFacts
<1>1. at' > W => ~(at < W)
  BY <1>0
<1>2. /\ at' > W + 1 => at > W
      /\ at' > W + 2 => at > W + 1
      /\ at' > W + 3 => at > W + 2
  <2> HIDE DEF W
  <2> QED BY ONLY <1>0, at' = at \/ at' = at + 1
<1>3. at' > W => ~Slow'
  <2> SUFFICES ASSUME at' > W, Slow' PROVE FALSE
    OBVIOUS
  <2>1. Keeps
    BY <1>1
  <2>2. ~(words_left = 1 /\ OfType(i, {"U"}))
    <3>1. ~(at < W)
      BY <1>1
    <3>2. Stands(i) => state_q = "IDLE"
      BY <3>1 DEF Stands
    <3> QED BY <3>2, NotIdle DEF Parsed, OfType
  <2> QED BY <2>2, SlowReplaces DEF Slow
<1>4. at' > W + 1 => ~(lookup'.valid /\ updt_left' = 1)
  <2> SUFFICES ASSUME at' > W + 1, lookup'.valid, updt_left' = 1 PROVE FALSE
    OBVIOUS
  <2>1. dec_book_q.valid /\ ~Slow /\ ~lookup.valid
    BY <1>2, ResFacts DEF Pipe, DrainedBook, Paced
  <2>2. updt_left' = 0 \/ updt_left' = IF updt_left > 0 THEN updt_left - 1 ELSE 0
    BY <2>1 DEF BookSteps, Frees, Looks, Waits, Still
  <2>3. updt_left = 2
    <3>1. updt_left \in 0 .. 3
      BY DEF Booked
    <3> QED BY ONLY <2>2, <3>1, updt_left' = 1
  <2>4. dec_book_q.msg_type # "REPLACE"
    BY <2>1, <2>3 DEF Slow
  <2>5. Needed(dec_book_q.msg_type) \in {6, 9} /\ quiet + 1 >= Needed(dec_book_q.msg_type)
    BY <2>1, <2>4 DEF Needed, Paced
  <2>6. quiet \in 0 .. 9 /\ quiet + updt_left <= 5
    BY <2>3 DEF Paced, Booked
  <2> QED BY ONLY <2>3, <2>5, <2>6
<1>5. at' > W + 2 => ~dec_book_updt_q'.valid
  BY <1>2, ResFacts DEF BookSteps, DrainedBook, Waits
<1>6. at' > W + 3 => ~book_res_q'.valid
  BY <1>2, ResFacts DEF BookSteps, Drained, DrainedBook, Frees, Looks
<1> QED BY <1>0, <1>3, <1>4, <1>5, <1>6 DEF DrainedBook

----------------------------------------------------------------------------
(* What is on its way moves on.                                            *)

LEMMA AheadIs ==
  /\ ~dec_ctrl_o.valid => Ahead = Held
  /\ Active(Held) = stock_active_o
<1>1. ASSUME ~dec_ctrl_o.valid PROVE Ahead = Held
  <2>1. dec_ctrl(pkt) = NoMsg /\ NoMsg.kind = "NONE"
    BY <1>1 DEF dec_ctrl, NoMsg
  <2> QED BY <2>1, HeldIs, Unmoved DEF Ahead
<1>2. Active(Held) = stock_active_o
  BY DEF Active, Held, stock_active_o
<1> QED BY <1>1, <1>2

(* A control message has been read when its predecessors have left.        *)
LEMMA CtrlLate ==
  ASSUME Wired(pkt), at \in Nat, NEW i, Parsed(i), Right(i), dec_ctrl_o.valid
  PROVE  i \in 1 .. Len(pkt) /\ pkt[i].type \in {"S", "R", "H", "h"} /\ Since(i) >= 12 /\ ~Within(i, 2) /\ ~Within(i, 3)
<1> DEFINE t == pkt[i].type
           l == pkt[i].len
           s == Start(pkt, i)
           e == End(i)
<1>1. /\ i \in 1 .. Len(pkt)
      /\ \/ t \in {"S", "h"} /\ state_q = "IDLE"
         \/ OfType(i, {"R"}) /\ words_left = 5
         \/ OfType(i, {"H"}) /\ words_left = 1
  BY DEF Parsed, CtrlComes
<1>2. t \in {"S", "R", "H", "h"}
  BY <1>1 DEF OfType
<1>3. l = msg_len[t]
  BY <1>1 DEF Right, Good
<1>4. Since(i) = 4 * at - s /\ s \in Nat /\ at \in Nat
  <2>1. i \in 1 .. Len(pkt) + 1
    BY <1>1, MsgFacts
  <2> QED BY <2>1, BytesFinite DEF Since
<1>5. ASSUME t \in {"S", "h"}, state_q = "IDLE" PROVE Since(i) >= 12
  <2>1. l >= 12 /\ l \in 12 .. 50
    BY <1>3, <1>5 DEF msg_len
  <2>2. e = s + l + 2
    BY <1>1, StartNext DEF End
  <2>3. e <= 4 * at
    <3>1. CASE InMsg(i)
      BY <1>5, <3>1, NotIdle
    <3>2. CASE AtBorder(i)
      BY <3>2 DEF AtBorder
    <3>3. CASE at >= WordsOf(pkt) /\ i = Len(pkt)
      <4> DEFINE W == WordsOf(pkt)
                 P == Payload(pkt)
      <4>1. W \in Nat /\ P \in Nat /\ P <= 4 * W /\ P = e
        BY <3>3, PayloadFacts DEF End
      <4> HIDE DEF W, P, e
      <4>2. at >= W
        BY <3>3 DEF W
      <4> QED BY ONLY <1>4, <4>1, <4>2
    <3> QED BY <3>1, <3>2, <3>3 DEF Parsed, Stands
  <2> HIDE DEF s, l, e
  <2> QED BY ONLY <1>4, <2>1, <2>2, <2>3
<1>6. ASSUME OfType(i, {"R"}), words_left = 5 PROVE Since(i) >= 12
  <2>1. l = 39
    BY <1>3, <1>6 DEF OfType, msg_len
  <2>2. Since(i) + 4 * words_left >= l + 2 /\ Since(i) \in 4 .. 51
    BY <1>6, SinceFacts DEF OfType
  <2> HIDE DEF l
  <2> QED BY ONLY <1>6, <2>1, <2>2
<1>7. ASSUME OfType(i, {"H"}), words_left = 1 PROVE Since(i) >= 12
  <2>1. l = 25
    BY <1>3, <1>7 DEF OfType, msg_len
  <2>2. Since(i) + 4 * words_left >= l + 2 /\ Since(i) \in 4 .. 51
    BY <1>7, SinceFacts DEF OfType
  <2> HIDE DEF l
  <2> QED BY ONLY <1>7, <2>1, <2>2
<1>8. Since(i) >= 12
  BY <1>1, <1>5, <1>6, <1>7
<1>9. ~Within(i, 2) /\ ~Within(i, 3)
  <2> HIDE DEF s
  <2>1. ~(4 * at - s < 4 * 2) /\ ~(4 * at - s < 4 * 3)
    BY ONLY <1>4, <1>8
  <2> QED BY <2>1 DEF Within, s
<1> QED BY <1>1, <1>2, <1>8, <1>9

LEMMA CtrlClear ==
  ASSUME Wired(pkt), at \in Nat, NEW i, Parsed(i), Right(i), Cleared(i), dec_ctrl_o.valid
  PROVE  ~dec_book_del_q.valid /\ ~dec_book_q.valid /\ ~lookup.valid /\ ~dec_book_updt_q.valid
<1>1. i \in 1 .. Len(pkt) /\ pkt[i].type \notin Orders /\ ~Within(i, 2) /\ ~Within(i, 3)
  BY CtrlLate DEF Orders
<1> QED BY <1>1 DEF Cleared

LEMMA PipedOfIs ==
  Alone => /\ bbo_res_o.valid => PipedOf = bbo_res_o.of
           /\ book_res_q.valid => PipedOf = book_res_q.of
           /\ dec_book_updt_q.valid => PipedOf = dec_book_updt_q.of
           /\ InLookup => PipedOf = lookup.of
           /\ InBook => PipedOf = dec_book_q.order_id[1]
           /\ InDel => PipedOf = dec_book_del_q.order_id[1]
<1> SUFFICES ASSUME Alone
             PROVE  /\ bbo_res_o.valid => PipedOf = bbo_res_o.of
                    /\ book_res_q.valid => PipedOf = book_res_q.of
                    /\ dec_book_updt_q.valid => PipedOf = dec_book_updt_q.of
                    /\ InLookup => PipedOf = lookup.of
                    /\ InBook => PipedOf = dec_book_q.order_id[1]
                    /\ InDel => PipedOf = dec_book_del_q.order_id[1]
  OBVIOUS
<1>1. bbo_res_o.valid => PipedOf = bbo_res_o.of
  BY DEF Alone, PipedOf
<1>2. book_res_q.valid => PipedOf = book_res_q.of
  BY DEF Alone, PipedOf
<1>3. dec_book_updt_q.valid => PipedOf = dec_book_updt_q.of
  BY DEF Alone, PipedOf
<1>4. InLookup => PipedOf = lookup.of
  BY DEF Alone, PipedOf
<1>5. InBook => PipedOf = dec_book_q.order_id[1]
  BY DEF Alone, PipedOf
<1>6. InDel => PipedOf = dec_book_del_q.order_id[1]
  BY DEF Alone, PipedOf
<1> QED BY <1>1, <1>2, <1>3, <1>4, <1>5, <1>6

LEMMA PipedOfNext ==
  ( Alone => /\ bbo_res_o.valid => PipedOf = bbo_res_o.of
             /\ book_res_q.valid => PipedOf = book_res_q.of
             /\ dec_book_updt_q.valid => PipedOf = dec_book_updt_q.of
             /\ InLookup => PipedOf = lookup.of
             /\ InBook => PipedOf = dec_book_q.order_id[1]
             /\ InDel => PipedOf = dec_book_del_q.order_id[1] )'
BY PipedOfIs, PTL

(* A clock that promises nothing: what is on its way stays alone and the   *)
(* same, until it leaves.                                                  *)
LEMMA PipeShift ==
  ASSUME Wired(pkt), at \in Nat, Flags, Paced, Booked, Alone, Pipe, BookSteps, Output, Held' = Ahead,
         NEW i, Parsed(i), Taking(i), Right(i), Cleared(i), ~Promises(i)
  PROVE  /\ Alone'
         /\ Piped' <=> (Piped /\ ~bbo_res_o.valid)
         /\ Piped' => PipedRes' = PipedRes
<1> DEFINE d == InDel
           b == InBook
           l == InLookup
           u == dec_book_updt_q.valid
           r == book_res_q.valid
           o == bbo_res_o.valid
<1>1. /\ ~InDel' /\ (InBook' <=> d)
      /\ d => dec_book_q'.order_id = dec_book_del_q.order_id
  BY Unpromised
<1>2. (InLookup' <=> b) /\ (b => lookup'.of = dec_book_q.order_id[1])
  BY ResFacts DEF Pipe, InLookup, InBook
<1>3. bbo_res_o'.valid = r /\ bbo_res_o'.of = book_res_q.of /\ bbo_res_o'.shown = (r /\ stock_active_o)
  BY DEF Output
<1>4. /\ dec_book_updt_q'.valid => l /\ dec_book_updt_q'.of = lookup.of /\ ~u
      /\ book_res_q'.valid => /\ u \/ l
                              /\ u => book_res_q'.of = dec_book_updt_q.of
                              /\ l => book_res_q'.of = lookup.of /\ ~u
      /\ ~(dec_book_updt_q'.valid /\ book_res_q'.valid)
      /\ u \/ l => dec_book_updt_q'.valid \/ book_res_q'.valid
  <2>1. CASE Frees
    BY <2>1, ResFacts DEF Frees, BookSteps, InLookup
  <2>2. CASE Looks
    BY <2>2, ResFacts DEF Looks, BookSteps, InLookup
  <2>3. CASE Waits
    BY <2>3, ResFacts DEF Waits, BookSteps, InLookup
  <2>4. CASE Still
    BY <2>4, ResFacts DEF Still, BookSteps, InLookup
  <2> QED BY <2>1, <2>2, <2>3, <2>4 DEF BookSteps
<1>5. /\ o => ~r /\ ~u /\ ~l /\ ~b /\ ~d
      /\ r => ~u /\ ~l /\ ~b /\ ~d
      /\ u => ~l /\ ~b /\ ~d
      /\ l => ~b /\ ~d
      /\ b => ~d
  BY DEF Alone
<1>6. Alone'
  BY <1>1, <1>2, <1>3, <1>4, <1>5 DEF Alone
<1>7. Piped' <=> (Piped /\ ~o)
  BY <1>1, <1>2, <1>3, <1>4, <1>5 DEF Piped
<1>8. Piped' => PipedOf' = PipedOf
  <2>1. CASE r
    <3>1. ~o /\ PipedOf = book_res_q.of
      BY <1>5, <2>1, PipedOfIs
    <3>2. PipedOf' = bbo_res_o'.of
      BY <1>3, <2>1, <1>6, PipedOfNext
    <3> QED BY <1>3, <3>1, <3>2
  <2>2. CASE u
    <3>1. ~r /\ ~o /\ ~l /\ ~b /\ ~d
      BY <1>5, <2>2
    <3>2. PipedOf = dec_book_updt_q.of
      BY <2>2, <3>1, PipedOfIs
    <3>3. book_res_q'.valid /\ book_res_q'.of = dec_book_updt_q.of /\ ~bbo_res_o'.valid
      BY <1>3, <1>4, <2>2, <3>1
    <3>4. PipedOf' = book_res_q'.of
      BY <3>3, <1>6, PipedOfNext
    <3> QED BY <3>2, <3>3, <3>4
  <2>3. CASE l
    <3>1. ~r /\ ~o /\ ~u /\ ~b /\ ~d
      BY <1>5, <2>3
    <3>2. PipedOf = lookup.of
      BY <2>3, <3>1, PipedOfIs
    <3>3. CASE book_res_q'.valid
      <4>1. book_res_q'.of = lookup.of /\ ~bbo_res_o'.valid
        BY <1>3, <1>4, <2>3, <3>1, <3>3
      <4>2. PipedOf' = book_res_q'.of
        BY <3>3, <4>1, <1>6, PipedOfNext
      <4> QED BY <3>2, <4>1, <4>2
    <3>4. CASE ~book_res_q'.valid
      <4>1. dec_book_updt_q'.valid /\ dec_book_updt_q'.of = lookup.of /\ ~bbo_res_o'.valid
        BY <1>3, <1>4, <2>3, <3>1, <3>4
      <4>2. PipedOf' = dec_book_updt_q'.of
        BY <3>4, <4>1, <1>6, PipedOfNext
      <4> QED BY <3>2, <4>1, <4>2
    <3> QED BY <3>3, <3>4
  <2>4. CASE b
    <3>1. ~r /\ ~o /\ ~u /\ ~l /\ ~d
      BY <1>5, <2>4
    <3>2. PipedOf = dec_book_q.order_id[1]
      BY <2>4, <3>1, PipedOfIs
    <3>3. ~bbo_res_o'.valid /\ ~book_res_q'.valid /\ ~dec_book_updt_q'.valid /\ InLookup' /\ lookup'.of = dec_book_q.order_id[1]
      BY <1>2, <1>3, <1>4, <2>4, <3>1
    <3>4. PipedOf' = lookup'.of
      BY <3>3, <1>6, PipedOfNext
    <3> QED BY <3>2, <3>3, <3>4
  <2>5. CASE d
    <3>1. ~r /\ ~o /\ ~u /\ ~l /\ ~b
      BY <1>5, <2>5
    <3>2. PipedOf = dec_book_del_q.order_id[1]
      BY <2>5, <3>1, PipedOfIs
    <3>3. /\ ~bbo_res_o'.valid /\ ~book_res_q'.valid /\ ~dec_book_updt_q'.valid /\ ~InLookup'
          /\ InBook' /\ dec_book_q'.order_id = dec_book_del_q.order_id
      BY <1>1, <1>2, <1>3, <1>4, <2>5, <3>1
    <3>4. PipedOf' = dec_book_q'.order_id[1]
      BY <3>3, <1>6, PipedOfNext
    <3> QED BY <3>2, <3>3, <3>4
  <2> QED BY <1>7, <2>1, <2>2, <2>3, <2>4, <2>5 DEF Piped
<1>9. Piped' => PipedRes'.shown = PipedRes.shown
  <2> SUFFICES ASSUME Piped' PROVE PipedRes'.shown = PipedRes.shown
    OBVIOUS
  <2>1. ~o
    BY <1>7
  <2>2. PipedRes.shown = stock_active_o
    BY <2>1 DEF PipedRes
  <2>3. PipedRes'.shown = IF bbo_res_o'.valid THEN bbo_res_o'.shown ELSE stock_active_o'
    BY DEF PipedRes
  <2>4. CASE r
    <3>1. (r /\ stock_active_o) = stock_active_o
      BY <2>4 DEF stock_active_o
    <3> QED BY <1>3, <2>2, <2>3, <2>4, <3>1
  <2>5. CASE ~r
    <3>1. d \/ b \/ l \/ u
      BY <1>7, <2>1, <2>5 DEF Piped
    <3>2. ~dec_ctrl_o.valid
      BY <3>1, CtrlClear DEF InDel, InBook, InLookup
    <3>3. Held' = Held
      BY <3>2, AheadIs
    <3>4. Active(Held') = Active(Held)
      BY <3>3
    <3>5. stock_active_o' = Active(Held')
      BY DEF Active, Held, stock_active_o
    <3> QED BY <1>3, <2>2, <2>3, <2>5, <3>4, <3>5, AheadIs
  <2> QED BY <2>4, <2>5
<1>10. Piped' => PipedRes' = PipedRes
  BY <1>8, <1>9 DEF PipedRes
<1> QED BY <1>6, <1>7, <1>10

(* A clock that promises a result: it is the only one on its way. *)
LEMMA PipePromised ==
  ASSUME Flags, Paced, Booked, Alone, Pipe, BookSteps, Output, NEW i, Parsed(i), HalfOnly(i), Promises(i)
  PROVE  /\ Alone' /\ Piped' /\ ~(Piped /\ ~bbo_res_o.valid)
         /\ PipedRes' = [of |-> i, shown |-> stock_active_o']
<1>1. /\ ~dec_book_del_q.valid /\ ~dec_book_q.valid /\ ~lookup.valid
      /\ ~dec_book_updt_q.valid /\ ~book_res_q.valid
  BY WayFree DEF Promises
<1>2. /\ ~lookup'.valid
      /\ \/ InDel' /\ ~dec_book_q'.valid /\ dec_book_del_q'.order_id[1] = i
         \/ InBook' /\ ~dec_book_del_q'.valid /\ dec_book_q'.order_id[1] = i
  BY Promised
<1>3. ~book_res_q'.valid /\ ~dec_book_updt_q'.valid
  BY <1>1, ResFacts DEF BookSteps, Frees, Looks, Waits
<1>4. ~bbo_res_o'.valid
  BY <1>1 DEF Output
<1>5. ~InLookup' /\ ~(InDel' /\ InBook')
  BY <1>2 DEF InLookup, InDel, InBook
<1>6. Alone'
  BY <1>3, <1>4, <1>5 DEF Alone
<1>7. Piped' /\ ~(Piped /\ ~bbo_res_o.valid)
  BY <1>1, <1>2 DEF Piped, InDel, InBook, InLookup
<1>8. PipedOf' = i
  BY <1>2, <1>6, PipedOfNext
<1>9. PipedRes' = [of |-> i, shown |-> stock_active_o']
  BY <1>4, <1>8 DEF PipedRes
<1> QED BY <1>6, <1>7, <1>9

----------------------------------------------------------------------------
(* The queue of the results expected.                                      *)

(* The result that leaves is the first of the queue. *)
LEMMA FlowLeaves ==
  ASSUME NEW awaited \in BOOLEAN, NEW second, NEW free \in BOOLEAN,
         FlowOf(Piped, PipedRes, awaited, second, free, expected)
  PROVE  FlowOf(Piped /\ ~bbo_res_o.valid, PipedRes, awaited, second, free, Left)
<1>1. bbo_res_o.valid => Piped
  BY DEF Piped
<1>2. CASE ~bbo_res_o.valid
  <2>1. Left = expected
    BY <1>2 DEF Left
  <2> QED BY <1>2, <2>1 DEF FlowOf
<1>3. CASE bbo_res_o.valid
  <2>1. CASE expected = <<>>
    <3>1. Left = <<>>
      BY <2>1 DEF Left
    <3>2. free
      BY <1>1, <1>3, <2>1 DEF FlowOf
    <3> QED BY <3>1, <3>2 DEF FlowOf
  <2>2. CASE expected = <<PipedRes>> /\ (~awaited \/ free)
    <3>1. Left = <<>>
      BY <1>3, <2>2 DEF Left
    <3> QED BY <1>3, <2>2, <3>1 DEF FlowOf
  <2>3. CASE expected = <<PipedRes, second>> /\ awaited
    <3>1. Left = <<second>>
      BY <1>3, <2>3 DEF Left
    <3> QED BY <1>3, <2>3, <3>1 DEF FlowOf
  <2> QED BY <1>1, <1>3, <2>1, <2>2, <2>3 DEF FlowOf
<1> QED BY <1>2, <1>3

LEMMA SecondOf ==
  ASSUME NEW x, NEW y
  PROVE  Append(<<x>>, y) = <<x, y>>
<1> DEFINE S == {x, y}
           q == Append(<<x>>, y)
<1>1. <<x>> \in Seq(S) /\ <<x, y>> \in Seq(S) /\ y \in S
  OBVIOUS
<1>2. /\ q \in Seq(S) /\ Len(q) = Len(<<x>>) + 1
      /\ \A i \in 1 .. Len(<<x>>) : q[i] = <<x>>[i]
      /\ q[Len(<<x>>) + 1] = y
  BY <1>1, AppendProperties
<1>3. Len(<<x>>) = 1 /\ <<x>>[1] = x
  OBVIOUS
<1>4. Len(<<x, y>>) = 2 /\ <<x, y>>[1] = x /\ <<x, y>>[2] = y
  OBVIOUS
<1> HIDE DEF q
<1>5. \A i \in 1 .. 2 : q[i] = <<x, y>>[i]
  BY <1>2, <1>3
<1>6. Len(q) = 2
  BY <1>2, <1>3
<1>7. q = <<x, y>>
  BY <1>1, <1>2, <1>4, <1>5, <1>6, SeqEqual
<1> QED BY <1>7 DEF q

(* The queue when what was awaited is on its way, and when something more  *)
(* is awaited.                                                             *)
LEMMA FlowMoves ==
  ASSUME NEW piped \in BOOLEAN, NEW awaited \in BOOLEAN, NEW free \in BOOLEAN, NEW first, NEW second, NEW queue,
         FlowOf(piped, first, awaited, second, free, queue)
  PROVE  /\ ~piped /\ awaited => \A other : FlowOf(TRUE, second, FALSE, other, free, queue)
         /\ ~awaited => \A other : FlowOf(piped, first, FALSE, other, free, queue)
         /\ ~awaited => \A other : FlowOf(piped, first, TRUE, other, FALSE, Append(queue, other)) \/ free
         /\ \A a \in BOOLEAN : ~awaited => \A other : FlowOf(piped, first, a, other, TRUE, queue)
         /\ \A f \in BOOLEAN : (free => f) => FlowOf(piped, first, awaited, second, f, queue)
<1>1. ~piped /\ awaited => \A other : FlowOf(TRUE, second, FALSE, other, free, queue)
  BY DEF FlowOf
<1>2. ~awaited => \A other : FlowOf(piped, first, FALSE, other, free, queue)
  BY DEF FlowOf
<1>3. ~awaited => \A other : FlowOf(piped, first, TRUE, other, FALSE, Append(queue, other)) \/ free
  <2> SUFFICES ASSUME ~awaited, NEW other, ~free
               PROVE  FlowOf(piped, first, TRUE, other, FALSE, Append(queue, other))
    OBVIOUS
  <2>1. queue = IF piped THEN <<first>> ELSE <<>>
    BY DEF FlowOf
  <2>2. Append(<<>>, other) = <<other>> /\ Append(<<first>>, other) = <<first, other>>
    BY SecondOf
  <2>3. Append(queue, other) = IF piped THEN <<first, other>> ELSE <<other>>
    BY <2>1, <2>2
  <2> QED BY <2>3 DEF FlowOf
<1>4. \A a \in BOOLEAN : ~awaited => \A other : FlowOf(piped, first, a, other, TRUE, queue)
  BY DEF FlowOf
<1>5. \A f \in BOOLEAN : (free => f) => FlowOf(piped, first, awaited, second, f, queue)
  BY DEF FlowOf
<1> QED BY <1>1, <1>2, <1>3, <1>4, <1>5

----------------------------------------------------------------------------
(* What begins with a word. *)

Starts(i) ==
  i + 1 \in 1 .. Len(pkt) /\ 4 * at <= Start(pkt, i + 1) /\ Start(pkt, i + 1) < 4 * at + 4

LEMMA LenRange ==
  \A t \in DOMAIN msg_len : msg_len[t] \in 12 .. 50
BY DEF msg_len

(* A message begins with a word exactly when its first byte lies in it. *)
LEMMA BeginningIs ==
  ASSUME Wired(pkt), at \in Nat, at < WordsOf(pkt), NEW i, Parsed(i),
         Begun(i) => Good(pkt[i + 1])
  PROVE  Beginning = IF Starts(i) THEN {i + 1} ELSE {}
<1> DEFINE n == Len(pkt)
           S(k) == Start(pkt, k)
<1>1. n \in Nat /\ DOMAIN pkt = 1 .. n /\ i \in 0 .. n
  BY DEF Wired, Parsed
<1>2. \A k \in 1 .. n + 1 : S(k) \in Nat
  BY BytesFinite
<1>3. \A k \in 1 .. n : S(k) + 6 <= S(k + 1)
  <2> SUFFICES ASSUME NEW k \in 1 .. n PROVE S(k) + 6 <= S(k + 1)
    OBVIOUS
  <2> DEFINE l == pkt[k].len
             s == S(k)
             e == S(k + 1)
  <2>1. e = s + l + 2 /\ l \in 4 .. 254
    BY StartNext, MsgFacts
  <2>2. s \in Nat
    <3>1. k \in 1 .. n + 1
      BY <1>1
    <3> QED BY <1>2, <3>1
  <2> HIDE DEF l, s, e
  <2>3. s + 6 <= e
    BY ONLY <2>1, <2>2
  <2> QED BY <2>3 DEF s, e
<1>4. \A j \in 1 .. n + 1 : \A k \in 1 .. j : S(k) <= S(j)
  BY StartMonotone
<1>5. /\ ~(at >= WordsOf(pkt))
      /\ InMsg(i) \/ AtBorder(i)
  <2>1. ~(at >= WordsOf(pkt))
    BY PayloadFacts
  <2> QED BY <2>1 DEF Parsed, Stands
<1>6. \A k \in 1 .. n : k <= i => S(k) < 4 * at
  <2>1. CASE InMsg(i)
    <3>1. i \in 1 .. n /\ S(i) + 4 <= 4 * at
      BY <2>1 DEF InMsg
    <3>2. i \in 1 .. n + 1
      BY ONLY <1>1, <3>1
    <3> SUFFICES ASSUME NEW k \in 1 .. n, k <= i PROVE S(k) < 4 * at
      OBVIOUS
    <3>3. k \in 1 .. i /\ k \in 1 .. n + 1
      BY ONLY <1>1, <3>1, k \in 1 .. n, k <= i
    <3>4. S(k) <= S(i) /\ S(k) \in Nat /\ S(i) \in Nat
      BY <1>2, <1>4, <3>2, <3>3
    <3> HIDE DEF S
    <3> QED BY ONLY <3>1, <3>4, at \in Nat
  <2>2. CASE AtBorder(i)
    <3>1. S(i + 1) <= 4 * at
      BY <2>2 DEF AtBorder, End
    <3> SUFFICES ASSUME NEW k \in 1 .. n, k <= i PROVE S(k) < 4 * at
      OBVIOUS
    <3>2. k + 1 \in 1 .. i + 1 /\ i + 1 \in 1 .. n + 1 /\ k + 1 \in 1 .. n + 1 /\ k \in 1 .. n + 1
      BY ONLY <1>1, k \in 1 .. n, k <= i
    <3>3. S(k + 1) <= S(i + 1) /\ S(k) + 6 <= S(k + 1) /\ S(k) \in Nat /\ S(k + 1) \in Nat /\ S(i + 1) \in Nat
      BY <1>2, <1>3, <1>4, <3>2
    <3> HIDE DEF S
    <3> QED BY ONLY <3>1, <3>3, at \in Nat
  <2> QED BY <1>5, <2>1, <2>2
<1>7. \A k \in 1 .. n : k > i + 1 => S(k) >= 4 * at + 4
  <2> SUFFICES ASSUME NEW k \in 1 .. n, k > i + 1 PROVE S(k) >= 4 * at + 4
    OBVIOUS
  <2>1. i + 1 \in 1 .. n /\ (i + 1) + 1 \in 1 .. k /\ k \in 1 .. n + 1 /\ (i + 1) + 1 \in 1 .. n + 1 /\ i + 1 \in 1 .. n + 1
    BY ONLY <1>1, k \in 1 .. n, k > i + 1
  <2> DEFINE s == S(i + 1)
             e == S((i + 1) + 1)
             f == S(k)
             l == pkt[i + 1].len
  <2>2. e <= f /\ s + 6 <= e /\ s \in Nat /\ e \in Nat /\ f \in Nat
    BY <1>2, <1>3, <1>4, <2>1
  <2>3. CASE InMsg(i)
    <3>1. s > 4 * at
      BY <2>3, InMsgFacts DEF InMsg, End
    <3> HIDE DEF s, e, f
    <3>2. f >= 4 * at + 4
      BY ONLY <2>2, <3>1, at \in Nat
    <3> QED BY <3>2 DEF f
  <2>4. CASE AtBorder(i)
    <3>1. s <= 4 * at /\ 4 * at < s + 4 /\ state_q = "IDLE"
      BY <2>4 DEF AtBorder, End
    <3>2. s < 4 * at => l \in 12 .. 50
      <4> SUFFICES ASSUME s < 4 * at PROVE l \in 12 .. 50
        OBVIOUS
      <4>1. Good(pkt[i + 1])
        BY <2>1, <3>1 DEF Begun
      <4> QED BY <4>1, LenRange DEF Good
    <3>3. e = s + l + 2 /\ l \in 4 .. 254
      BY <2>1, StartNext, MsgFacts
    <3> HIDE DEF s, e, f, l
    <3>4. f >= 4 * at + 4
      BY ONLY <2>2, <3>1, <3>2, <3>3, at \in Nat
    <3> QED BY <3>4 DEF f
  <2> QED BY <1>5, <2>3, <2>4
<1>8. ASSUME NEW k \in 1 .. n
      PROVE  Start(pkt, k) \div 4 = at <=> (k = i + 1 /\ 4 * at <= S(k) /\ S(k) < 4 * at + 4)
  <2> DEFINE s == S(k)
  <2>1. s \in Nat
    <3>1. k \in 1 .. n + 1
      BY <1>1
    <3> QED BY <1>2, <3>1
  <2>2. (k <= i => s < 4 * at) /\ (k > i + 1 => s >= 4 * at + 4)
    BY <1>6, <1>7
  <2>3. k <= i \/ k = i + 1 \/ k > i + 1
    BY <1>1
  <2> HIDE DEF s
  <2>4. s \div 4 = at <=> (4 * at <= s /\ s < 4 * at + 4)
    BY ONLY <2>1, at \in Nat
  <2>5. ~(s < 4 * at /\ 4 * at <= s) /\ ~(s >= 4 * at + 4 /\ s < 4 * at + 4)
    BY ONLY <2>1, at \in Nat
  <2> QED BY <2>2, <2>3, <2>4, <2>5 DEF s
<1> QED BY <1>1, <1>8 DEF Beginning, Starts

(* What the reference does with a word, and without.                       *)
Answers(i) == IF refused = "no" /\ Starts(i) THEN Take(i + 1) ELSE TakeNone

LEMMA ArriveReads ==
  ASSUME Arrive, Wired(pkt), at \in Nat, NEW i, Parsed(i), Begun(i) => Good(pkt[i + 1])
  PROVE  Answers(i)
<1>1. Beginning = IF Starts(i) THEN {i + 1} ELSE {}
  <2>1. at < WordsOf(pkt)
    BY DEF Arrive
  <2> QED BY <2>1, BeginningIs
<1>2. IF refused = "no" /\ Beginning # {} THEN \E k \in Beginning : Take(k) ELSE TakeNone
  BY DEF Arrive
<1>3. CASE refused = "no" /\ Starts(i)
  <2>1. PICK k \in Beginning : Take(k)
    BY <1>1, <1>2, <1>3
  <2>2. k = i + 1
    BY <1>1, <1>3, <2>1
  <2> QED BY <1>3, <2>1, <2>2 DEF Answers
<1>4. CASE ~(refused = "no" /\ Starts(i))
  BY <1>1, <1>2, <1>4 DEF Answers
<1> QED BY <1>3, <1>4

(* A word, to the parser and to the reference: which of them knows of the  *)
(* next message.                                                           *)
LEMMA WordMoves ==
  ASSUME Flags, Paced, Wired(pkt), at \in Nat, NEW i, Parsed(i), at < WordsOf(pkt), at' = at + 1,
         NEW init_v, Clock(TRUE, init_v), pkt' = pkt, ~failed'
  PROVE  \/ Begins(i) /\ Stands(i + 1)' /\ (Starts(i) <=> ~Begun(i))
         \/ NextWord(i) /\ Stands(i)' /\ ~Starts(i)
         \/ LastWord(i) /\ Stands(i)' /\ (Starts(i) <=> Begun(i)')
<1> DEFINE e == Start(pkt, i + 1)
<1>1. Moves(i)
  <2>1. TRUE \in BOOLEAN
    OBVIOUS
  <2> QED BY <2>1, ParserMoves
<1>2. InMsg(i) \/ AtBorder(i)
  <2>1. ~(at >= WordsOf(pkt))
    BY PayloadFacts
  <2> QED BY <2>1 DEF Parsed, Stands
<1>3. ~NoWord(i)
  <2> SUFFICES ASSUME NoWord(i) PROVE FALSE
    OBVIOUS
  <2>1. Since(i)' = Since(i) /\ Start(pkt, i) \in Nat
    BY InMsgFacts DEF NoWord
  <2> DEFINE s == Start(pkt, i)
  <2>2. Since(i)' = 4 * (at + 1) - s /\ Since(i) = 4 * at - s /\ s \in Nat
    BY <2>1 DEF Since
  <2>3. 4 * (at + 1) - s = 4 * at - s /\ s \in Nat
    BY ONLY <2>1, <2>2, Zenon
  <2> HIDE DEF s
  <2> QED BY ONLY <2>3, at \in Nat
<1>4. ~Idles
  <2> SUFFICES ASSUME Idles PROVE FALSE
    OBVIOUS
  <2>1. AtBorder(i)
    BY <1>2, NotIdle DEF Idles
  <2>2. ItchClock(pkt, at, TRUE, TRUE /\ at + 1 = WordsOf(pkt), stock_locate_q) /\ failed' = error_o(pkt)
    BY PipeMoves
  <2>3. Header(pkt, at)
    BY <2>2 DEF ItchClock, Idles
  <2>4. ~ip_error'
    BY <2>2 DEF error_o
  <2>5. Good(pkt[i + 1]) /\ state_q' = StateOf(pkt[i + 1].type)
    BY <2>1, <2>3, <2>4, HeaderRead
  <2>6. \A t : StateOf(t) # "IDLE"
    BY DEF StateOf, After
  <2> QED BY <2>5, <2>6 DEF Idles
<1>5. CASE Begins(i) /\ Stands(i + 1)'
  <2>1. AtBorder(i)
    BY <1>2, <1>5, NotIdle DEF Begins
  <2>2. e <= 4 * at /\ 4 * at < e + 4 /\ i + 1 \in 1 .. Len(pkt) /\ state_q = "IDLE"
    BY <1>5, <2>1 DEF AtBorder, End, Begins
  <2>3. e \in Nat
    <3>1. i + 1 \in 1 .. Len(pkt) + 1
      BY <2>2, MsgFacts
    <3> QED BY <3>1, BytesFinite
  <2>4. Starts(i) <=> 4 * at <= e /\ e < 4 * at + 4
    BY <2>2 DEF Starts
  <2>5. Begun(i) <=> e < 4 * at
    BY <2>2 DEF Begun
  <2> HIDE DEF e
  <2>6. Starts(i) <=> ~Begun(i)
    BY ONLY <2>2, <2>3, <2>4, <2>5, at \in Nat
  <2> QED BY <1>5, <2>6
<1>6. CASE NextWord(i) /\ Stands(i)'
  <2>1. /\ e \in Nat /\ words_left > 1 /\ words_left \in 1 .. 12 /\ bytes_left_q \in 1 .. 48
        /\ bytes_left_q > 4 * words_left - 4 /\ bytes_left_q = e - 4 * at
    BY <1>6, InMsgFacts DEF NextWord, InMsg, End
  <2> HIDE DEF e
  <2>2. ~(e < 4 * at + 4)
    BY ONLY <2>1, at \in Nat
  <2> QED BY <1>6, <2>2 DEF Starts, e
<1>7. CASE LastWord(i) /\ Stands(i)'
  <2>1. e \in Nat /\ 4 * at < e /\ state_q' = "IDLE"
    BY <1>7, InMsgFacts DEF LastWord, InMsg, End
  <2>2. Starts(i) <=> i + 1 \in 1 .. Len(pkt) /\ 4 * at <= e /\ e < 4 * at + 4
    BY DEF Starts
  <2>3. Begun(i)' <=> i + 1 \in 1 .. Len(pkt) /\ e < 4 * (at + 1)
    BY <2>1 DEF Begun
  <2> HIDE DEF e
  <2>4. 4 * at <= e /\ (e < 4 * at + 4 <=> e < 4 * (at + 1))
    BY ONLY <2>1, at \in Nat
  <2>5. Starts(i) <=> Begun(i)'
    BY ONLY <2>2, <2>3, <2>4
  <2> QED BY <1>7, <2>5
<1> QED BY <1>1, <1>3, <1>4, <1>5, <1>6, <1>7 DEF Moves

(* A clock without a word. *)
LEMMA Pauses ==
  ASSUME Flags, Paced, Wired(pkt), at \in Nat, NEW i, Parsed(i), pkt' = pkt,
         at' = at \/ at' = at + 1, at < WordsOf(pkt) => at' = at,
         NEW init_v, Clock(FALSE, init_v)
  PROVE  /\ Keeps /\ dec_ctrl_o' = NoCtrl /\ ip_error' = FALSE
         /\ NoWord(i) \/ (Idles /\ (Begun(i)' <=> Begun(i)))
<1>1. ItchClock(pkt, at, FALSE, FALSE /\ at + 1 = WordsOf(pkt), stock_locate_q)
  BY PipeMoves
<1>2. ip_error' = FALSE /\ state_q' = state_q /\ bytes_left_q' = bytes_left_q /\ msg_alt_q' = msg_alt_q
  BY <1>1 DEF ItchClock
<1>3. Keeps /\ dec_ctrl_o' = NoCtrl
  <2>1. FALSE \in BOOLEAN
    OBVIOUS
  <2> QED BY <2>1, ClockKinds
<1>4. CASE at < WordsOf(pkt)
  <2>1. at' = at
    BY <1>4
  <2>2. /\ InMsg(i)' = InMsg(i) /\ words_left' = words_left /\ Since(i)' = Since(i)
    BY <1>2, <2>1, Stays
  <2>3. CASE InMsg(i)
    BY <1>2, <1>3, <2>2, <2>3 DEF NoWord
  <2>4. CASE ~InMsg(i)
    <3>1. state_q = "IDLE"
      <4>1. ~(at >= WordsOf(pkt))
        BY <1>4, PayloadFacts
      <4> QED BY <2>4, <4>1 DEF Parsed, Stands, AtBorder
    <3>2. Begun(i)' <=> Begun(i)
      BY <1>2, <2>1 DEF Begun
    <3> QED BY <1>2, <1>3, <3>1, <3>2 DEF Idles
  <2> QED BY <2>3, <2>4
<1>5. CASE ~(at < WordsOf(pkt))
  <2>1. i = Len(pkt) /\ state_q = "IDLE"
    BY <1>5 DEF Parsed, Stands
  <2>2. i + 1 \notin 1 .. Len(pkt)
    BY <2>1 DEF Wired
  <2>3. ~Begun(i) /\ ~Begun(i)'
    BY <2>2 DEF Begun
  <2> QED BY <1>2, <1>3, <2>1, <2>3 DEF Idles
<1> QED BY <1>2, <1>3, <1>4, <1>5

----------------------------------------------------------------------------
(* The errors reported.                                                    *)

LEMMA DecCtrlIs ==
  \A i : Wired(pkt) /\ Parsed(i) /\ dec_ctrl_o.valid =>
           /\ i \in 1 .. Len(pkt) /\ pkt[i].type \in {"S", "R", "H", "h"}
           /\ dec_ctrl(pkt) = pkt[i].body
           /\ pkt[i].body.kind \in {"EVENT", "DIRECTORY", "ACTION", "HALT"}
<1> SUFFICES ASSUME NEW i, Wired(pkt), Parsed(i), dec_ctrl_o.valid
             PROVE  /\ i \in 1 .. Len(pkt) /\ pkt[i].type \in {"S", "R", "H", "h"}
                    /\ dec_ctrl(pkt) = pkt[i].body
                    /\ pkt[i].body.kind \in {"EVENT", "DIRECTORY", "ACTION", "HALT"}
  OBVIOUS
<1>1. i \in 1 .. Len(pkt) /\ pkt[i].type \in {"S", "R", "H", "h"} /\ dec_ctrl_o.fields = CtrlFieldsOf(i)
  BY DEF Parsed, CtrlComes, OfType
<1>2. CtrlFieldsOf(i)[1][1] = i
  BY <1>1 DEF CtrlFieldsOf
<1>3. dec_ctrl(pkt) = pkt[i].body
  BY <1>1, <1>2 DEF dec_ctrl
<1>4. pkt[i].body.kind \in {"EVENT", "DIRECTORY", "ACTION", "HALT"}
  BY <1>1, TypeKinds
<1> QED BY <1>1, <1>3, <1>4

(* A message that Control is still to get comes after the one it has. *)
LEMMA UnpassedAlone ==
  ASSUME NEW i, Parsed(i), Unpassed(i)
  PROVE  ~dec_ctrl_o.valid /\ Ahead = Held
<1>1. ~dec_ctrl_o.valid
  <2>1. InMsg(i) /\ words_left >= LastAt[pkt[i].type] /\ state_q # "IDLE"
    BY NotIdle DEF Unpassed
  <2>2. ~(OfType(i, {"R"}) /\ words_left = 5)
    <3>1. ~(5 >= LastAt["R"])
      BY DEF LastAt
    <3> QED BY <2>1, <3>1 DEF OfType
  <2>3. ~(OfType(i, {"H"}) /\ words_left = 1)
    <3>1. ~(1 >= LastAt["H"])
      BY DEF LastAt
    <3> QED BY <2>1, <3>1 DEF OfType
  <2> QED BY <2>1, <2>2, <2>3 DEF Parsed, CtrlComes
<1> QED BY <1>1, AheadIs

(* Control reports what is troublesome when it gets it.                    *)
Blamed ==
  \/ dec_ctrl_o.valid /\ Trouble(Held, dec_ctrl(pkt))
  \/ dec_book_q.valid /\ ~Listening(Held)

LEMMA Blames ==
  ASSUME Flags, Wired(pkt), at \in Nat, Shaped, Booked, NEW i, Parsed(i), Right(i), Cleared(i)
  PROVE  error_o(pkt) <=> ip_error' \/ Blamed
<1> DEFINE msg == dec_ctrl(pkt)
<1>1. ~book_error
  BY DEF book_error, Releases, Booked
<1>2. ctrl_error(msg, dec_book_q.valid) <=> Blamed
  <2>1. CASE dec_ctrl_o.valid
    <3>1. ~dec_book_q.valid
      BY <2>1, CtrlClear
    <3>2. msg.kind \in {"EVENT", "DIRECTORY", "ACTION", "HALT"} /\ msg # NoMsg
      <4>1. msg.kind \in {"EVENT", "DIRECTORY", "ACTION", "HALT"}
        BY <2>1, DecCtrlIs
      <4>2. NoMsg.kind = "NONE"
        BY DEF NoMsg
      <4> QED BY <4>1, <4>2
    <3>3. Blamed <=> Trouble(Held, msg)
      BY <2>1, <3>1 DEF Blamed
    <3> HIDE DEF msg
    <3>4. Trouble(Held, msg) <=>
            \/ ~initialized_q
            \/ ~msg_hours_q /\ ~Says(msg, "MSG_BEGIN")
            \/ msg.kind = "DIRECTORY" /\ OfStock(msg) /\ stock_locate_q.stock_locate \notin {NoLocate, msg.stock_locate}
      BY <3>2 DEF Trouble, Held
    <3>5. stock_locate_q.stock_locate \notin {NoLocate, msg.stock_locate} <=>
            stock_locate_q.valid /\ stock_locate_q.stock_locate # msg.stock_locate
      <4>1. stock_locate_q.valid = (stock_locate_q.stock_locate # NoLocate)
        BY DEF Shaped
      <4> QED BY <4>1
    <3> QED BY <3>1, <3>2, <3>3, <3>4, <3>5 DEF ctrl_error, error_msg_hours, error_stock_locate
  <2>2. CASE ~dec_ctrl_o.valid
    <3>1. msg = NoMsg /\ NoMsg.kind = "NONE"
      BY <2>2 DEF dec_ctrl, NoMsg
    <3>2. ~error_stock_locate(msg) /\ ~Says(msg, "MSG_BEGIN")
      BY <3>1 DEF error_stock_locate, Says
    <3>3. Listening(Held) <=> initialized_q /\ msg_hours_q
      BY DEF Listening, Held
    <3> QED BY <2>2, <3>1, <3>2, <3>3 DEF Blamed, ctrl_error, error_msg_hours
  <2> QED BY <2>1, <2>2
<1> QED BY <1>1, <1>2 DEF error_o

(* What the parser reports with a word of a message.                       *)
WordWrong(i) ==
  LET type == pkt[i].type
  IN  \/ type \in Orders /\ words_left = LocateAt[type] /\ ~stock_locate_q.valid
      \/ type \in {"S", "H", "h"} /\ words_left = CtrlAt[type] /\ ~pkt[i].valid_code
      \/ type \in {"A", "F"} /\ words_left = BookAt[type] /\ ~pkt[i].valid_code

LEMMA CtrlCodes ==
  ASSUME NEW i \in 1 .. Len(pkt), pkt[i].type \in {"S", "R", "H", "h"}
  PROVE  BadCode(pkt, CtrlFieldsOf(i)) <=> ~pkt[i].valid_code
<1> DEFINE f == CtrlFieldsOf(i)
<1>1. i # 0
  OBVIOUS
<1>2. CASE pkt[i].type = "S"
  <2>1. f = << <<i, SYMBOL>> >>
    BY <1>2 DEF CtrlFieldsOf
  <2>2. DOMAIN f = {1} /\ f[1][1] = i /\ f[1] # NoByte
    BY <1>1, <2>1 DEF NoByte
  <2> QED BY <2>2 DEF BadCode
<1>3. CASE pkt[i].type = "R"
  <2>1. f = << <<i, LOCATE>>, <<i, SYMBOL>> >>
    BY <1>3 DEF CtrlFieldsOf
  <2>2. DOMAIN f = {1, 2} /\ \A j \in {1, 2} : f[j][1] = i /\ f[j] # NoByte
    BY <1>1, <2>1 DEF NoByte
  <2> QED BY <2>2 DEF BadCode
<1>4. CASE pkt[i].type = "H"
  <2>1. f = << <<i, LOCATE>>, <<i, SYMBOL>>, <<i, CODE>> >>
    BY <1>4 DEF CtrlFieldsOf
  <2>2. DOMAIN f = {1, 2, 3} /\ \A j \in {1, 2, 3} : f[j][1] = i /\ f[j] # NoByte
    BY <1>1, <2>1 DEF NoByte
  <2> QED BY <2>2 DEF BadCode
<1>5. CASE pkt[i].type = "h"
  <2>1. f = << <<i, LOCATE>>, <<i, SYMBOL>>, <<i, CODE>>, <<i, HALT>> >>
    BY <1>5 DEF CtrlFieldsOf
  <2>2. DOMAIN f = {1, 2, 3, 4} /\ \A j \in {1, 2, 3, 4} : f[j][1] = i /\ f[j] # NoByte
    BY <1>1, <2>1 DEF NoByte
  <2> QED BY <2>2 DEF BadCode
<1> QED BY <1>2, <1>3, <1>4, <1>5

LEMMA WordErrors ==
  ASSUME NEW i, InMsg(i), NEW last, BodyWord(pkt, at, last, stock_locate_q)
  PROVE  ip_error' <=> WordWrong(i)
<1> DEFINE t == pkt[i].type
           ctrl == state_q \in {"SYS_EVENT", "TRADING_ACTION", "OP_HALT"}
                   /\ words_left = CtrlWord /\ BadCode(pkt, Fields(pkt, at, CtrlPlaces))
           book == state_q = "ADD" /\ words_left = BookWord /\ BadCode(pkt, Fields(pkt, at, BookPlaces))
           loc == words_left = LocateWord /\ LocateWord > 0 /\ ~stock_locate_q.valid
<1>1. ip_error' = (loc \/ ctrl \/ book)
  BY DEF BodyWord
<1>2. words_left \in 1 .. 12 /\ i \in 1 .. Len(pkt)
  BY InMsgFacts DEF InMsg
<1>3. CASE t \in Orders
  <2>1. Reads(i) /\ LocateWord = LocateAt[t] /\ BookWord = BookAt[t] /\ CtrlWord = 0
    BY <1>3, OrderReads DEF Reads
  <2>2. ~ctrl
    BY <1>2, <2>1
  <2>3. loc <=> words_left = LocateAt[t] /\ ~stock_locate_q.valid
    BY <1>2, <2>1
  <2>4. book <=> t \in {"A", "F"} /\ words_left = BookAt[t] /\ ~pkt[i].valid_code
    <3>1. state_q = "ADD" <=> t \in {"A", "F"}
      BY <1>3, TypeA, TypeF, TypeE, TypeX, TypeC, TypeD, TypeU DEF Orders
    <3>2. ASSUME t \in {"A", "F"}, words_left = BookAt[t]
          PROVE  BadCode(pkt, Fields(pkt, at, BookPlaces)) <=> ~pkt[i].valid_code
      <4> DEFINE f == Fields(pkt, at, BookPlaces)
      <4>1. BookType = "ADD"
        BY <3>2, TypeA, TypeF
      <4>2. f = << <<i, CODE>>, <<i, HALT>>, <<i, PRICE>> >>
        BY <2>1, <3>2, <4>1 DEF Reads, FieldsOf
      <4> HIDE DEF f
      <4>3. i # 0
        BY <1>2
      <4>4. DOMAIN f = {1, 2, 3} /\ \A j \in {1, 2, 3} : f[j][1] = i /\ f[j] # NoByte
        BY <4>2, <4>3 DEF NoByte
      <4>5. BadCode(pkt, f) <=> ~pkt[i].valid_code
        BY <4>4 DEF BadCode
      <4> QED BY <4>5 DEF f
    <3> QED BY <2>1, <3>1, <3>2
  <2>5. t \notin {"S", "H", "h"}
    BY <1>3 DEF Orders
  <2> QED BY <1>1, <1>3, <2>2, <2>3, <2>4, <2>5 DEF WordWrong
<1>4. CASE t \in {"S", "R", "H", "h"}
  <2>1. /\ CtrlWord = CtrlAt[t] /\ BookWord = 0 /\ LocateWord = 0
        /\ words_left = CtrlWord => Fields(pkt, at, CtrlPlaces) = CtrlFieldsOf(i)
    BY <1>4, ControlReads DEF NoOrderWords
  <2>2. ~book /\ ~loc
    BY <1>2, <2>1
  <2>3. state_q \in {"SYS_EVENT", "TRADING_ACTION", "OP_HALT"} <=> t \in {"S", "H", "h"}
    BY <1>4, ControlTypes
  <2>4. ctrl <=> t \in {"S", "H", "h"} /\ words_left = CtrlAt[t] /\ ~pkt[i].valid_code
    BY <1>2, <1>4, <2>1, <2>3, CtrlCodes
  <2>5. t \notin Orders /\ t \notin {"A", "F"}
    BY <1>4 DEF Orders
  <2> QED BY <1>1, <2>2, <2>4, <2>5 DEF WordWrong
<1>5. CASE t \notin Orders \cup {"S", "R", "H", "h"}
  <2>1. LocateWord = 0 /\ BookWord = 0 /\ CtrlWord = 0
    BY <1>5, IgnoredTypes DEF NoOrderWords
  <2>2. ~ctrl /\ ~book /\ ~loc
    BY <1>2, <2>1
  <2>3. t \notin {"A", "F"}
    BY <1>5 DEF Orders
  <2> QED BY <1>1, <1>5, <2>2, <2>3 DEF WordWrong
<1> QED BY <1>3, <1>4, <1>5

(* When an error is reported: by Control of what it was handed, by the     *)
(* parser of the word it has.                                              *)
LEMMA Reports ==
  ASSUME Flags, Paced, Wired(pkt), at \in Nat, Shaped, Booked, NEW i, Parsed(i), Right(i), Cleared(i),
         NEW v \in BOOLEAN, v => at < WordsOf(pkt), NEW init_v, Clock(v, init_v)
  PROVE  failed' <=> \/ Blamed
                     \/ v /\ InMsg(i) /\ WordWrong(i)
                     \/ v /\ AtBorder(i) /\ ~Good(pkt[i + 1])
<1>1. /\ ItchClock(pkt, at, v, v /\ at + 1 = WordsOf(pkt), stock_locate_q)
      /\ failed' = error_o(pkt)
  BY PipeMoves
<1>2. error_o(pkt) <=> ip_error' \/ Blamed
  BY Blames
<1>3. CASE ~v
  <2>1. ip_error' = FALSE
    BY <1>1, <1>3 DEF ItchClock
  <2> QED BY <1>1, <1>2, <1>3, <2>1
<1>4. CASE v
  <2>1. InMsg(i) \/ AtBorder(i)
    <3>1. ~(at >= WordsOf(pkt))
      BY <1>4, PayloadFacts
    <3> QED BY <3>1 DEF Parsed, Stands
  <2>2. CASE InMsg(i)
    <3>1. state_q # "IDLE" /\ ~AtBorder(i)
      BY <2>2, NotIdle DEF AtBorder
    <3>2. BodyWord(pkt, at, v /\ at + 1 = WordsOf(pkt), stock_locate_q)
      BY <1>1, <1>4, <3>1 DEF ItchClock
    <3>3. ip_error' <=> WordWrong(i)
      BY <2>2, <3>2, WordErrors
    <3> QED BY <1>1, <1>2, <1>4, <2>2, <3>1, <3>3
  <2>3. CASE AtBorder(i)
    <3>1. state_q = "IDLE" /\ ~InMsg(i)
      BY <2>3, NotIdle DEF AtBorder
    <3>2. Header(pkt, at)
      BY <1>1, <1>4, <3>1 DEF ItchClock
    <3>3. ip_error' = ~Good(pkt[i + 1])
      BY <1>4, <2>3, <3>2, HeaderRead
    <3> QED BY <1>1, <1>2, <1>4, <2>3, <3>1, <3>3
  <2> QED BY <2>1, <2>2, <2>3
<1> QED BY <1>3, <1>4

(* A clock with a word and one without, to the reference. *)
Hears(v, i) == IF v THEN Answers(i) ELSE TakeNone

Hearing(v, i) == v /\ Starts(i)

LEMMA HearsFacts ==
  ASSUME Wired(pkt), NEW i, NEW v \in BOOLEAN, Hears(v, i)
  PROVE  /\ refused # "no" => refused' # "no"
         /\ refused' = "no" => /\ refused = "no"
                               /\ Hearing(v, i) => /\ ~Refusable(Model, pkt[i + 1])
                                                   /\ Model' = Applied(Model, pkt[i + 1].body)
                               /\ ~Hearing(v, i) => Model' = Model
         /\ refused' = "error" => \/ refused = "error"
                                  \/ refused = "no" /\ Hearing(v, i) /\ Refusable(Model, pkt[i + 1])
         /\ expected' = IF refused' = "no" /\ Hearing(v, i) /\ OwnOf(Model, pkt[i + 1].body)
                        THEN Append(Left, [of |-> i + 1, shown |-> Active(Model)]) ELSE Left
<1>1. CASE refused = "no" /\ Hearing(v, i)
  <2>1. i + 1 \in 1 .. Len(pkt) /\ Take(i + 1)
    BY <1>1 DEF Hears, Hearing, Answers, Starts
  <2>2. /\ refused' = "no" => /\ ~Refusable(Model, pkt[i + 1])
                              /\ Model' = Applied(Model, pkt[i + 1].body)
        /\ refused' = "error" => Refusable(Model, pkt[i + 1])
        /\ expected' = IF refused' = "no" /\ OwnOf(Model, pkt[i + 1].body)
                       THEN Append(Left, [of |-> i + 1, shown |-> Active(Model)]) ELSE Left
    BY <2>1, Answered
  <2> QED BY <1>1, <2>2
<1>2. CASE ~(refused = "no" /\ Hearing(v, i))
  <2>1. TakeNone
    BY <1>2 DEF Hears, Hearing, Answers
  <2>2. refused' = refused /\ expected' = Left /\ Model' = Model
    BY <2>1 DEF TakeNone, model_vars, Model
  <2> QED BY <1>2, <2>2
<1> QED BY <1>1, <1>2

(* The hardware has nothing to report of what the reference accepts.       *)
LEMMA Faultless ==
  ASSUME Flags, Paced, Wired(pkt), at \in Nat, Shaped, Booked, NEW i, Parsed(i), Follows(i),
         NEW v \in BOOLEAN, v => at < WordsOf(pkt), NEW init_v, Clock(v, init_v),
         Hears(v, i), refused' = "no"
  PROVE  ~failed'
<1>1. refused = "no" /\ Agree(i) /\ Right(i) /\ Cleared(i)
  BY HearsFacts DEF Follows
<1>2. ~Blamed
  BY <1>1 DEF Agree, Blamed
<1>3. ~(v /\ InMsg(i) /\ WordWrong(i))
  <2> SUFFICES ASSUME InMsg(i), WordWrong(i) PROVE FALSE
    OBVIOUS
  <2> DEFINE t == pkt[i].type
  <2>1. ~Malformed(pkt[i])
    BY <1>1 DEF Agree
  <2>2. i \in 1 .. Len(pkt)
    BY DEF InMsg
  <2>3. t \in {"S", "H", "h", "A", "F"} => pkt[i].valid_code
    BY <2>1 DEF Malformed
  <2>4. t \in Orders /\ words_left = LocateAt[t] /\ ~stock_locate_q.valid
    BY <2>3 DEF WordWrong
  <2>5. Unpassed(i)
    <3>1. t \in DOMAIN LastAt /\ LastAt[t] < LocateAt[t] /\ LastAt[t] \in 1 .. 4 /\ LocateAt[t] \in 2 .. 6
      BY <2>4, LastPlaces
    <3>2. LocateAt[t] >= LastAt[t]
      BY <3>1
    <3> QED BY <2>4, <3>1, <3>2 DEF Unpassed
  <2>6. pkt[i].body.kind = "BOOK"
    BY <2>2, <2>4, TypeKinds
  <2>7. Held.locate # NoLocate
    BY <1>1, <2>5, <2>6 DEF Agree, Trouble
  <2>8. stock_locate_q.valid = (stock_locate_q.stock_locate # NoLocate)
    BY DEF Shaped
  <2> QED BY <2>4, <2>7, <2>8 DEF Held
<1>4. ~(v /\ AtBorder(i) /\ ~Good(pkt[i + 1]))
  <2> SUFFICES ASSUME v, AtBorder(i) PROVE Good(pkt[i + 1])
    OBVIOUS
  <2>1. i + 1 \in 1 .. Len(pkt)
    BY BorderFacts
  <2> DEFINE s == Start(pkt, i + 1)
  <2>2. s <= 4 * at /\ 4 * at < s + 4 /\ state_q = "IDLE"
    BY DEF AtBorder, End
  <2>3. s \in Nat
    <3>1. i + 1 \in 1 .. Len(pkt) + 1
      BY <2>1, MsgFacts
    <3> QED BY <3>1, BytesFinite
  <2>4. Begun(i) \/ Starts(i)
    <3>1. Begun(i) <=> s < 4 * at
      BY <2>1, <2>2 DEF Begun
    <3>2. Starts(i) <=> 4 * at <= s /\ s < 4 * at + 4
      BY <2>1 DEF Starts
    <3> HIDE DEF s
    <3>3. s < 4 * at \/ (4 * at <= s /\ s < 4 * at + 4)
      BY ONLY <2>2, <2>3, at \in Nat
    <3> QED BY <3>1, <3>2, <3>3
  <2>5. ~Malformed(pkt[i + 1])
    <3>1. CASE Begun(i)
      BY <1>1, <3>1 DEF Agree, Refusable
    <3>2. CASE Starts(i)
      BY <3>2, HearsFacts DEF Hearing, Refusable
    <3> QED BY <2>4, <3>1, <3>2
  <2> QED BY <2>5 DEF Malformed, Good
<1> QED BY <1>1, <1>2, <1>3, <1>4, Reports

----------------------------------------------------------------------------
(* What Control will hold, as messages are handed on.                      *)

(* Message i is handed on with this word, or what is left of it.           *)
Passing(i) == Unpassed(i) /\ words_left = LastAt[pkt[i].type]

LEMMA EarlyLast ==
  \A j : InMsg(j) /\ Since(j) \in 4 .. 7 /\ pkt[j].type \in DOMAIN LastAt => Unpassed(j)
<1> SUFFICES ASSUME NEW j, InMsg(j), Since(j) \in 4 .. 7, pkt[j].type \in DOMAIN LastAt
             PROVE  words_left >= LastAt[pkt[j].type]
  BY DEF Unpassed
<1> DEFINE t == pkt[j].type
           w == words_left
           l == pkt[j].len
<1>1. CASE t \in Orders
  <2>1. w > LocateAt[t] /\ w \in 1 .. 12
    BY <1>1, Early, SinceFacts
  <2>2. LastAt[t] < LocateAt[t] /\ LastAt[t] \in 1 .. 4 /\ LocateAt[t] \in 2 .. 6
    BY <1>1, LastPlaces
  <2> DEFINE a == LastAt[t]
             b == LocateAt[t]
  <2> HIDE DEF w, a, b
  <2>3. w >= a
    <3>1. w > b /\ w \in 1 .. 12 /\ a < b /\ a \in 1 .. 4 /\ b \in 2 .. 6
      BY <2>1, <2>2 DEF w, a, b
    <3> QED BY ONLY <3>1
  <2> QED BY <2>3 DEF w, a
<1>2. CASE t \in {"S", "R", "H", "h"}
  <2>1. l = msg_len[t] /\ Since(j) + 4 * w >= l + 2 /\ w \in 1 .. 12
    BY SinceFacts DEF InMsg, Good
  <2>2. l + 2 >= 4 * LastAt[t] + 7 /\ LastAt[t] \in 1 .. 6 /\ l \in 12 .. 39
    BY <1>2, <2>1 DEF msg_len, LastAt
  <2> DEFINE a == LastAt[t]
             s == Since(j)
  <2> HIDE DEF w, a, l, s
  <2>3. w >= a
    <3>1. s + 4 * w >= l + 2 /\ w \in 1 .. 12 /\ l + 2 >= 4 * a + 7 /\ a \in 1 .. 6 /\ l \in 12 .. 39 /\ s \in 4 .. 7
      BY <2>1, <2>2 DEF w, a, l, s
    <3> QED BY ONLY <3>1
  <2> QED BY <2>3 DEF w, a
<1> QED BY <1>1, <1>2, LastPlaces

LEMMA EarlyLastNext ==
  (\A j : InMsg(j) /\ Since(j) \in 4 .. 7 /\ pkt[j].type \in DOMAIN LastAt => Unpassed(j))'
BY EarlyLast, PTL

LEMMA AheadNext ==
  (~dec_ctrl_o.valid => Ahead = Held)'
BY AheadIs, PTL

LEMMA DueBegins ==
  ASSUME Wired(pkt), NEW i, Begins(i), Held' = Ahead, pkt' = pkt
  PROVE  /\ Ahead' = Ahead /\ ~Begun(i + 1)' /\ ~Unpassed(i)
         /\ Unpassed(i + 1)' <=> pkt[i + 1].type \in DOMAIN LastAt
         /\ Due(i + 1)' = Applied(Ahead, pkt[i + 1].body)
<1>1. /\ state_q = "IDLE" /\ i + 1 \in 1 .. Len(pkt) /\ InMsg(i + 1)' /\ Since(i + 1)' \in 4 .. 7
      /\ dec_ctrl_o' = NoCtrl
  BY DEF Begins
<1>2. Ahead' = Ahead
  <2>1. ~dec_ctrl_o'.valid
    BY <1>1 DEF NoCtrl
  <2> QED BY <2>1, AheadNext
<1>3. ~Begun(i + 1)'
  <2>1. state_q' # "IDLE"
    BY <1>1, NotIdleNext
  <2> QED BY <2>1 DEF Begun
<1>4. ~Unpassed(i)
  BY <1>1, NotIdle DEF Unpassed
<1>5. Unpassed(i + 1)' <=> pkt[i + 1].type \in DOMAIN LastAt
  <2>1. Unpassed(i + 1)' => pkt'[i + 1].type \in DOMAIN LastAt
    BY DEF Unpassed
  <2>2. pkt'[i + 1].type \in DOMAIN LastAt => Unpassed(i + 1)'
    BY <1>1, EarlyLastNext
  <2> QED BY <2>1, <2>2
<1>6. Due(i + 1)' = IF Unpassed(i + 1)' THEN Applied(Ahead', pkt'[i + 1].body) ELSE Ahead'
  BY <1>3 DEF Due
<1>7. pkt[i + 1].type \notin DOMAIN LastAt => Applied(Ahead, pkt[i + 1].body) = Ahead
  <2>1. pkt[i + 1].type \notin DOMAIN LastAt => pkt[i + 1].body.kind = "IGNORE"
    BY <1>1, TypeKinds
  <2>2. IsHeld(Ahead)
    BY HeldIs DEF Ahead
  <2> QED BY <2>1, <2>2, Unmoved
<1> QED BY <1>2, <1>3, <1>4, <1>5, <1>6, <1>7

LEMMA DueKept ==
  ASSUME NEW i, NoWord(i) \/ (Idles /\ (Begun(i)' <=> Begun(i))), Held' = Ahead, pkt' = pkt
  PROVE  /\ Ahead' = Ahead /\ Due(i)' = Due(i)
         /\ Unpassed(i)' <=> Unpassed(i)
         /\ Begun(i)' <=> Begun(i)
<1>1. dec_ctrl_o' = NoCtrl
  BY DEF NoWord, Idles
<1>2. Ahead' = Ahead
  <2>1. ~dec_ctrl_o'.valid
    BY <1>1 DEF NoCtrl
  <2> QED BY <2>1, AheadNext
<1>3. (Unpassed(i)' <=> Unpassed(i)) /\ (Begun(i)' <=> Begun(i))
  <2>1. CASE NoWord(i)
    <3>1. InMsg(i) /\ InMsg(i)' /\ words_left' = words_left
      BY <2>1 DEF NoWord
    <3>2. state_q # "IDLE" /\ state_q' # "IDLE"
      BY <3>1, NotIdle, NotIdleNext
    <3> QED BY <3>1, <3>2 DEF Unpassed, Begun
  <2>2. CASE Idles /\ (Begun(i)' <=> Begun(i))
    <3>1. ~InMsg(i) /\ ~InMsg(i)'
      BY <2>2, NotIdle, NotIdleNext DEF Idles
    <3> QED BY <2>2, <3>1 DEF Unpassed
  <2> QED BY <2>1, <2>2
<1>4. Due(i)' = Due(i)
  BY <1>2, <1>3 DEF Due
<1> QED BY <1>2, <1>3, <1>4

(* With a word of message i. *)
LEMMA DueAdvances ==
  ASSUME Wired(pkt), NEW i, InMsg(i), Advances(i), Held' = Ahead, pkt' = pkt
  PROVE  /\ ~Begun(i)
         /\ dec_ctrl_o'.valid <=> Passing(i) /\ pkt[i].type \notin Orders
         /\ dec_ctrl_o'.valid => dec_ctrl(pkt)' = pkt[i].body
         /\ Ahead' = IF Passing(i) THEN Applied(Ahead, pkt[i].body) ELSE Ahead
<1> DEFINE t == pkt[i].type
<1>0. i \in 1 .. Len(pkt) /\ words_left \in 1 .. 12
  BY InMsgFacts DEF InMsg
<1>1. ~Begun(i)
  BY NotIdle DEF Begun
<1>2. IsHeld(Ahead)
  BY HeldIs DEF Ahead
<1>3. CASE t \in Orders
  <2>1. dec_ctrl_o'.valid = FALSE
    BY <1>3 DEF Advances
  <2>2. Ahead' = Ahead
    BY <2>1, AheadNext
  <2>3. pkt[i].body.kind = "BOOK"
    BY <1>0, <1>3, TypeKinds
  <2>4. Applied(Ahead, pkt[i].body) = Ahead
    BY <1>2, <2>3, Unmoved
  <2> QED BY <1>1, <1>3, <2>1, <2>2, <2>4
<1>4. CASE t \notin Orders
  <2>1. TakesCtrl(i)
    BY <1>4 DEF Advances, OfType
  <2>2. dec_ctrl_o'.valid <=> Passing(i)
    <3>1. dec_ctrl_o'.valid <=> t \in {"S", "R", "H", "h"} /\ words_left = CtrlAt[t]
      BY <2>1 DEF TakesCtrl
    <3>2. CASE t \in {"S", "R", "H", "h"}
      <4>1. t \in DOMAIN LastAt /\ LastAt[t] = CtrlAt[t] /\ LastAt[t] \in 1 .. 6
        BY <1>4, <3>2, LastPlaces
      <4>2. words_left = LastAt[t] => words_left >= LastAt[t]
        BY <1>0
      <4> QED BY <3>1, <3>2, <4>1, <4>2 DEF Passing, Unpassed
    <3>3. CASE t \notin {"S", "R", "H", "h"}
      <4>1. t \notin DOMAIN LastAt
        BY <1>4, <3>3, LastPlaces
      <4> QED BY <3>1, <3>3, <4>1 DEF Passing, Unpassed
    <3> QED BY <3>2, <3>3
  <2>3. dec_ctrl_o'.valid => dec_ctrl(pkt)' = pkt[i].body
    <3> SUFFICES ASSUME dec_ctrl_o'.valid PROVE dec_ctrl(pkt)' = pkt[i].body
      OBVIOUS
    <3>1. dec_ctrl_o'.fields = CtrlFieldsOf(i) /\ t \in {"S", "R", "H", "h"}
      BY <2>1 DEF TakesCtrl
    <3>2. CtrlFieldsOf(i)[1][1] = i
      BY <3>1 DEF CtrlFieldsOf
    <3>3. dec_ctrl_o'.fields[1][1] = i
      BY <3>1, <3>2
    <3> QED BY <3>3 DEF dec_ctrl
  <2>4. CASE dec_ctrl_o'.valid
    <3>1. Ahead' = Applied(Held', dec_ctrl(pkt)')
      BY DEF Ahead
    <3> QED BY <1>1, <1>4, <2>2, <2>3, <2>4, <3>1
  <2>5. CASE ~dec_ctrl_o'.valid
    BY <1>1, <1>4, <2>2, <2>5, AheadNext
  <2> QED BY <2>4, <2>5
<1> QED BY <1>3, <1>4

LEMMA DueNext ==
  ASSUME Wired(pkt), NEW i, NextWord(i), Held' = Ahead, pkt' = pkt
  PROVE  /\ Due(i)' = Due(i) /\ ~Begun(i)'
         /\ Unpassed(i)' <=> Unpassed(i) /\ ~Passing(i)
<1> DEFINE t == pkt[i].type
<1>1. InMsg(i) /\ InMsg(i)' /\ words_left' = words_left - 1 /\ Advances(i)
  BY DEF NextWord
<1>2. words_left \in 1 .. 12 /\ state_q' # "IDLE"
  BY <1>1, InMsgFacts, NotIdleNext
<1>3. ~Begun(i)'
  BY <1>2 DEF Begun
<1>4. t \in DOMAIN LastAt => LastAt[t] \in 1 .. 6
  BY DEF LastAt
<1>5. Unpassed(i)' <=> Unpassed(i) /\ ~Passing(i)
  <2> DEFINE w == words_left
             a == LastAt[t]
  <2>1. Unpassed(i)' <=> t \in DOMAIN LastAt /\ words_left' >= LastAt[t]
    BY <1>1 DEF Unpassed
  <2>2. Unpassed(i) /\ ~Passing(i) <=> t \in DOMAIN LastAt /\ w >= a /\ w # a
    BY <1>1 DEF Unpassed, Passing
  <2>3. t \in DOMAIN LastAt => (words_left' >= a <=> w >= a /\ w # a)
    <3> SUFFICES ASSUME t \in DOMAIN LastAt PROVE words_left' >= a <=> w >= a /\ w # a
      OBVIOUS
    <3>1. words_left' = w - 1 /\ w \in 1 .. 12 /\ a \in 1 .. 6
      BY <1>1, <1>2, <1>4
    <3> HIDE DEF w, a
    <3>2. w - 1 >= a <=> w >= a /\ w # a
      BY ONLY <3>1
    <3> QED BY <3>1, <3>2
  <2> QED BY <2>1, <2>2, <2>3
<1>6. Ahead' = IF Passing(i) THEN Applied(Ahead, pkt[i].body) ELSE Ahead
  BY <1>1, DueAdvances
<1>7. ~Begun(i)
  BY <1>1, DueAdvances
<1>8. Due(i) = IF Unpassed(i) THEN Applied(Ahead, pkt[i].body) ELSE Ahead
  BY <1>7 DEF Due
<1>9. Due(i)' = IF Unpassed(i)' THEN Applied(Ahead', pkt[i].body) ELSE Ahead'
  BY <1>3 DEF Due
<1>10. Passing(i) => Unpassed(i)
  BY DEF Passing
<1> QED BY <1>3, <1>5, <1>6, <1>8, <1>9, <1>10

LEMMA DueLast ==
  ASSUME Wired(pkt), NEW i, LastWord(i), Held' = Ahead, pkt' = pkt
  PROVE  /\ Unpassed(i) <=> Passing(i)
         /\ ~Unpassed(i)' /\ Ahead' = Due(i)
         /\ Due(i)' = IF Begun(i)' THEN Applied(Due(i), pkt[i + 1].body) ELSE Due(i)
<1> DEFINE t == pkt[i].type
<1>1. InMsg(i) /\ words_left = 1 /\ state_q' = "IDLE" /\ Advances(i)
  BY DEF LastWord
<1>2. ~InMsg(i)'
  BY <1>1, NotIdleNext
<1>3. ~Unpassed(i)'
  BY <1>2 DEF Unpassed
<1>4. Unpassed(i) <=> Passing(i)
  <2>1. t \in DOMAIN LastAt => LastAt[t] \in 1 .. 6
    BY DEF LastAt
  <2>2. t \in DOMAIN LastAt /\ words_left >= LastAt[t] => words_left = LastAt[t]
    BY <1>1, <2>1
  <2> QED BY <2>2 DEF Unpassed, Passing
<1>5. Ahead' = Due(i)
  <2>1. ~Begun(i) /\ Ahead' = IF Passing(i) THEN Applied(Ahead, pkt[i].body) ELSE Ahead
    BY <1>1, DueAdvances
  <2> QED BY <1>4, <2>1 DEF Due
<1>6. Due(i)' = IF Begun(i)' THEN Applied(Due(i), pkt[i + 1].body) ELSE Due(i)
  <2>1. Due(i)' = IF Begun(i)' THEN Applied(Ahead', pkt[i + 1].body) ELSE Ahead'
    BY <1>3 DEF Due
  <2> QED BY <1>5, <2>1
<1> QED BY <1>3, <1>4, <1>5, <1>6

----------------------------------------------------------------------------
(* A clock of a packet, with what is known before it.                      *)

Ticks(v, i) ==
  /\ Flags /\ Paced /\ Drained /\ Wired(pkt) /\ at \in Nat /\ Settled
  /\ Parsed(i) /\ Follows(i)
  /\ v \in BOOLEAN /\ (v => at < WordsOf(pkt) /\ at' = at + 1)
  /\ at' = at \/ at' = at + 1
  /\ ~v /\ at < WordsOf(pkt) => at' = at
  /\ pkt' = pkt /\ Clock(v, FALSE) /\ Hears(v, i)

LEMMA TickFacts ==
  ASSUME NEW v, NEW i, Ticks(v, i)
  PROVE  /\ Pipe /\ BookSteps /\ Output /\ Taking(i)
         /\ Held' = Ahead /\ Shaped'
         /\ i \in 0 .. Len(pkt) /\ Right(i) /\ Located(i) /\ HalfOnly(i) /\ Cleared(i) /\ Flow(i)
         /\ Shaped /\ Booked /\ DrainedBook /\ Alone
         /\ OfType(i, {"R"}) \/ stock_locate_q' = stock_locate_q
         /\ ~(at < WordsOf(pkt)) => Keeps /\ dec_ctrl_o' = NoCtrl
         /\ at < WordsOf(pkt) => at' <= WordsOf(pkt)
<1>1. /\ Flags /\ Paced /\ Drained /\ Wired(pkt) /\ at \in Nat /\ Settled
      /\ Parsed(i) /\ Follows(i)
      /\ v \in BOOLEAN /\ (v => at < WordsOf(pkt))
      /\ pkt' = pkt /\ Clock(v, FALSE)
  BY DEF Ticks
<1>2. Pipe /\ ControlClock(FALSE, dec_ctrl(pkt))
  BY <1>1, PipeMoves
<1>3. Shaped /\ Booked /\ DrainedBook /\ Alone
  BY <1>1 DEF Settled
<1>4. PICK refills \in {FALSE, TakesShares(bbo_dec_book)} : BookTime(refills) /\ Output
  BY <1>1 DEF Clock, TopClock
<1>5. BookSteps
  BY <1>1, <1>3, <1>4, BookMoves DEF BookSteps
<1>6. \/ ~(v /\ state_q # "IDLE") /\ Keeps /\ dec_ctrl_o' = NoCtrl
      \/ v /\ Advances(i)
  BY <1>1, ClockKinds DEF Advances
<1>7. Taking(i) /\ (~(at < WordsOf(pkt)) => Keeps /\ dec_ctrl_o' = NoCtrl)
  BY <1>1, <1>6 DEF Taking
<1>8. Held' = Ahead /\ Shaped'
  <2>1. dec_ctrl(pkt) = NoMsg \/ dec_ctrl(pkt) \in ITCHMsg
    <3>1. CASE dec_ctrl_o.valid
      <4>1. i \in 1 .. Len(pkt) /\ dec_ctrl(pkt) = pkt[i].body
        BY <1>1, <3>1, DecCtrlIs
      <4> QED BY <1>1, <4>1, MsgFacts
    <3>2. CASE ~dec_ctrl_o.valid
      BY <3>2 DEF dec_ctrl
    <3> QED BY <3>1, <3>2
  <2>2. FALSE \in BOOLEAN
    OBVIOUS
  <2> QED BY <1>2, <1>3, <2>1, <2>2, HeldMoves DEF Ahead
<1>9. OfType(i, {"R"}) \/ stock_locate_q' = stock_locate_q
  BY <1>1, <1>2, LocateKept
<1>10. at < WordsOf(pkt) => at' <= WordsOf(pkt)
  <2> DEFINE W == WordsOf(pkt)
  <2>1. W \in Nat /\ at \in Nat /\ (at' = at \/ at' = at + 1)
    BY <1>1, PayloadFacts DEF Ticks
  <2> HIDE DEF W
  <2>2. at < W => at' <= W
    BY ONLY <2>1
  <2> QED BY <2>2 DEF W
<1> QED BY <1>1, <1>2, <1>3, <1>4, <1>5, <1>7, <1>8, <1>9, <1>10 DEF Follows, Parsed

(* Where it leaves the parser. *)
Turns(v, i, j) ==
  /\ Parsed(j)'
  /\ \/ v /\ j = i + 1 /\ Begins(i) /\ (Hearing(v, i) <=> ~Begun(i))
     \/ v /\ j = i /\ NextWord(i) /\ ~Hearing(v, i)
     \/ v /\ j = i /\ LastWord(i) /\ (Hearing(v, i) <=> Begun(i)')
     \/ ~v /\ j = i /\ (NoWord(i) \/ (Idles /\ (Begun(i)' <=> Begun(i)))) /\ ~Hearing(v, i)

(* It leaves the parser with the message it had or with the next. *)
LEMMA TickTurns ==
  ASSUME NEW v, NEW i, Ticks(v, i), ~failed'
  PROVE  \E j : Turns(v, i, j)
<1>1. /\ Flags /\ Paced /\ Wired(pkt) /\ at \in Nat /\ Parsed(i)
      /\ v \in BOOLEAN /\ (v => at < WordsOf(pkt) /\ at' = at + 1)
      /\ (at' = at \/ at' = at + 1) /\ (~v /\ at < WordsOf(pkt) => at' = at)
      /\ pkt' = pkt /\ Clock(v, FALSE)
  BY DEF Ticks
<1>2. Pipe /\ (OfType(i, {"R"}) \/ stock_locate_q' = stock_locate_q)
  BY TickFacts
<1>3. CASE v
  <2>1. Clock(TRUE, FALSE) /\ at < WordsOf(pkt) /\ at' = at + 1
    BY <1>1, <1>3
  <2>2. \/ Begins(i) /\ Stands(i + 1)' /\ (Starts(i) <=> ~Begun(i))
        \/ NextWord(i) /\ Stands(i)' /\ ~Starts(i)
        \/ LastWord(i) /\ Stands(i)' /\ (Starts(i) <=> Begun(i)')
    BY <1>1, <2>1, WordMoves
  <2>3. Hearing(v, i) <=> Starts(i)
    BY <1>3 DEF Hearing
  <2>4. CASE Begins(i) /\ Stands(i + 1)' /\ (Starts(i) <=> ~Begun(i))
    <3>1. Parsed(i + 1)'
      BY <1>1, <1>2, <2>4, BeginsKept
    <3> QED BY <1>3, <2>3, <2>4, <3>1 DEF Turns
  <2>5. CASE NextWord(i) /\ Stands(i)' /\ ~Starts(i)
    <3>1. Parsed(i)'
      BY <1>1, <1>2, <2>5, NextWordKept
    <3> QED BY <1>3, <2>3, <2>5, <3>1 DEF Turns
  <2>6. CASE LastWord(i) /\ Stands(i)' /\ (Starts(i) <=> Begun(i)')
    <3>1. Parsed(i)'
      BY <1>1, <1>2, <2>6, LastWordKept
    <3> QED BY <1>3, <2>3, <2>6, <3>1 DEF Turns
  <2> QED BY <2>2, <2>4, <2>5, <2>6
<1>4. CASE ~v
  <2>1. Clock(FALSE, FALSE) /\ (at < WordsOf(pkt) => at' = at)
    BY <1>1, <1>4
  <2>2. NoWord(i) \/ (Idles /\ (Begun(i)' <=> Begun(i)))
    BY <1>1, <2>1, Pauses
  <2>3. Moves(i)
    BY <1>1, <1>4, ParserMoves
  <2>4. Stands(i)'
    <3>1. ~(Begins(i) /\ Stands(i + 1)')
      <4>1. state_q' # "IDLE" => ~Idles
        BY DEF Idles
      <4>2. Begins(i) => state_q = "IDLE" /\ state_q' # "IDLE"
        BY NotIdleNext DEF Begins
      <4>3. NoWord(i) => state_q # "IDLE"
        BY NotIdle DEF NoWord
      <4> QED BY <2>2, <4>1, <4>2, <4>3
    <3> QED BY <2>3, <3>1 DEF Moves
  <2>5. Parsed(i)'
    BY <1>1, <1>2, <2>2, <2>4, NoWordKept, IdlesKept
  <2>6. ~Hearing(v, i)
    BY <1>4 DEF Hearing
  <2> QED BY <1>4, <2>2, <2>5, <2>6 DEF Turns
<1> QED BY <1>1, <1>3, <1>4

----------------------------------------------------------------------------
(* While neither has refused anything, Control agrees.                     *)

(* While an order message is passed on, Control changes nothing.           *)
LEMMA HeldStays ==
  ASSUME NEW v, NEW i, Ticks(v, i), dec_book_del_q.valid \/ dec_book_q.valid \/ Unpassed(i)
  PROVE  Held' = Held
<1>1. Wired(pkt) /\ at \in Nat /\ Parsed(i)
  BY DEF Ticks
<1>2. Right(i) /\ Cleared(i) /\ Held' = Ahead
  BY TickFacts
<1>3. ~dec_ctrl_o.valid
  BY <1>1, <1>2, CtrlClear, UnpassedAlone
<1> QED BY <1>2, <1>3, AheadIs

(* What is passed on is what was, or a message of the stock. *)
LEMMA PassedOn ==
  ASSUME NEW v, NEW i, Ticks(v, i), dec_book_del_q'.valid \/ dec_book_q'.valid
  PROVE  \/ dec_book_del_q.valid
         \/ OfType(i, Orders) /\ Unpassed(i) /\ OwnBody(i)
<1> DEFINE t == pkt[i].type
<1>1. Flags /\ Wired(pkt) /\ at \in Nat /\ Parsed(i)
  BY DEF Ticks
<1>2. Pipe /\ Taking(i)
  BY TickFacts
<1>3. CASE dec_book_q'.valid /\ ~(dec_book_del_q.valid /\ dec_book_q' = dec_book_del_q)
  <2>1. Passes(i)
    BY <1>1, <1>2, <1>3, Passed
  <2>2. OwnBody(i) /\ OfType(i, Orders) /\ words_left = BookAt[t] /\ t # "D"
    BY <1>1, <2>1, PassesOwn, PassedTypes DEF Passes
  <2>3. t \in Orders /\ InMsg(i) /\ words_left \in 1 .. 12
    BY <2>2, InMsgFacts DEF OfType
  <2>4. t \in DOMAIN LastAt /\ words_left = LastAt[t]
    BY <2>2, <2>3, LastPlaces
  <2>5. words_left >= LastAt[t]
    BY <2>3, <2>4
  <2> QED BY <2>2, <2>3, <2>4, <2>5 DEF Unpassed
<1>4. CASE dec_book_del_q'.valid /\ ~dec_book_del_q.valid
  <2>1. OfType(i, Orders) /\ Takes(i)
    <3>1. ~Keeps
      BY <1>4 DEF Keeps, NoBook
    <3> QED BY <1>2, <3>1 DEF Taking, Advances
  <2>2. words_left = DelAt[t] /\ match_locate_q
    BY <1>1, <1>2, <1>4, <2>1, TakesPasses
  <2>3. t \in Orders /\ InMsg(i) /\ words_left \in 1 .. 12
    BY <2>1, InMsgFacts DEF OfType
  <2>4. t \in {"D", "U"}
    BY <2>2, <2>3, LastPlaces
  <2>5. words_left >= LastAt[t] /\ words_left < LocateAt[t] /\ t \in DOMAIN LastAt
    <3>1. CASE t = "D"
      BY <2>2, <3>1 DEF DelAt, LastAt, LocateAt
    <3>2. CASE t = "U"
      BY <2>2, <3>2 DEF DelAt, LastAt, LocateAt
    <3> QED BY <2>4, <3>1, <3>2
  <2>6. OwnBody(i)
    BY <1>1, <2>1, <2>2, <2>5 DEF Parsed, Matched
  <2> QED BY <2>1, <2>3, <2>5, <2>6 DEF Unpassed
<1> QED BY <1>3, <1>4

(* Control listens to what is passed on. *)
LEMMA ListeningKept ==
  ASSUME NEW v, NEW i, Ticks(v, i), Agree(i), dec_book_del_q'.valid \/ dec_book_q'.valid
  PROVE  Listening(Held')
<1>1. CASE dec_book_del_q.valid
  <2>1. Listening(Held)
    BY <1>1 DEF Agree
  <2>2. Held' = Held
    BY <1>1, HeldStays
  <2> QED BY <2>1, <2>2
<1>2. CASE OfType(i, Orders) /\ Unpassed(i) /\ OwnBody(i)
  <2>1. Held' = Held
    BY <1>2, HeldStays
  <2>2. ~Trouble(Held, pkt[i].body)
    BY <1>2 DEF Agree
  <2>3. pkt[i].body.kind = "BOOK" /\ pkt[i].body.stock_locate = Held.locate
    BY <1>2 DEF OwnBody, Held
  <2>4. Listening(Held)
    BY <2>2, <2>3 DEF Trouble
  <2> QED BY <2>1, <2>4
<1> QED BY <1>1, <1>2, PassedOn

(* What Control will hold stays what the reference holds: it answers a     *)
(* message when the first byte comes, and Due counts it from then on.      *)
LEMMA AgreeKept ==
  ASSUME NEW v, NEW i, Ticks(v, i), NEW j, Turns(v, i, j), refused' = "no"
  PROVE  Agree(j)'
<1>1. Wired(pkt) /\ pkt' = pkt /\ v \in BOOLEAN /\ Hears(v, i) /\ Flags /\ Parsed(i)
  BY DEF Ticks
<1>2. Held' = Ahead
  BY TickFacts
<1>3. refused = "no" /\ Agree(i)
  <2>1. refused = "no"
    BY <1>1, HearsFacts
  <2> QED BY <2>1 DEF Ticks, Follows
<1>4. /\ Hearing(v, i) => /\ ~Refusable(Due(i), pkt[i + 1])
                          /\ Model' = Applied(Due(i), pkt[i + 1].body)
      /\ ~Hearing(v, i) => Model' = Due(i)
  BY <1>1, <1>3, HearsFacts DEF Agree
<1>5. dec_book_del_q'.valid \/ dec_book_q'.valid => Listening(Held')
  BY <1>3, ListeningKept
<1>6. CASE v /\ j = i + 1 /\ Begins(i) /\ (Hearing(v, i) <=> ~Begun(i))
  <2>1. /\ Ahead' = Ahead /\ ~Begun(i + 1)' /\ ~Unpassed(i)
        /\ Due(i + 1)' = Applied(Ahead, pkt[i + 1].body)
    BY <1>1, <1>2, <1>6, DueBegins
  <2>2. Model' = Due(i + 1)' /\ ~Refusable(Ahead, pkt[i + 1])
    <3>1. CASE Begun(i)
      <4>1. ~Refusable(Ahead, pkt[i + 1])
        BY <1>3, <3>1 DEF Agree
      <4>2. Due(i) = Applied(Ahead, pkt[i + 1].body)
        BY <3>1 DEF Due
      <4> QED BY <1>4, <1>6, <2>1, <3>1, <4>1, <4>2
    <3>2. CASE ~Begun(i)
      <4>1. Due(i) = Ahead
        BY <2>1, <3>2 DEF Due
      <4> QED BY <1>4, <1>6, <2>1, <3>2, <4>1
    <3> QED BY <3>1, <3>2
  <2>3. ~Malformed(pkt[i + 1]) /\ ~Trouble(Ahead, pkt[i + 1].body)
    BY <2>2 DEF Refusable
  <2>4. ~dec_ctrl_o'.valid
    BY <1>6 DEF Begins, NoCtrl
  <2> QED BY <1>1, <1>2, <1>5, <1>6, <2>1, <2>2, <2>3, <2>4 DEF Agree
<1>7. CASE v /\ j = i /\ NextWord(i) /\ ~Hearing(v, i)
  <2>1. Due(i)' = Due(i) /\ ~Begun(i)' /\ (Unpassed(i)' <=> Unpassed(i) /\ ~Passing(i))
    BY <1>1, <1>2, <1>7, DueNext
  <2>2. InMsg(i) /\ Advances(i) /\ ~Malformed(pkt[i])
    BY <1>3, <1>7 DEF NextWord, Agree
  <2>3. Unpassed(i)' => ~Trouble(Held', pkt[i].body)
    <3>1. Unpassed(i)' => ~Trouble(Held, pkt[i].body) /\ Held' = Held
      BY <1>3, <2>1, HeldStays DEF Agree
    <3> QED BY <3>1
  <2>4. dec_ctrl_o'.valid => ~Trouble(Held', dec_ctrl(pkt)')
    <3> SUFFICES ASSUME dec_ctrl_o'.valid PROVE ~Trouble(Held', dec_ctrl(pkt)')
      OBVIOUS
    <3>1. Passing(i) /\ dec_ctrl(pkt)' = pkt[i].body
      BY <1>1, <1>2, <2>2, DueAdvances
    <3>2. Unpassed(i)
      BY <3>1 DEF Passing
    <3>3. ~Trouble(Held, pkt[i].body) /\ Held' = Held
      BY <1>3, <3>2, HeldStays DEF Agree
    <3> QED BY <3>1, <3>3
  <2> QED BY <1>1, <1>4, <1>5, <1>7, <2>1, <2>2, <2>3, <2>4 DEF Agree
<1>8. CASE v /\ j = i /\ LastWord(i) /\ (Hearing(v, i) <=> Begun(i)')
  <2>1. /\ ~Unpassed(i)' /\ Ahead' = Due(i)
        /\ Due(i)' = IF Begun(i)' THEN Applied(Due(i), pkt[i + 1].body) ELSE Due(i)
    BY <1>1, <1>2, <1>8, DueLast
  <2>2. InMsg(i) /\ Advances(i) /\ ~InMsg(i)'
    BY <1>8, NotIdleNext DEF LastWord
  <2>3. Model' = Due(i)'
    <3>1. CASE Begun(i)'
      BY <1>4, <1>8, <2>1, <3>1
    <3>2. CASE ~Begun(i)'
      BY <1>4, <1>8, <2>1, <3>2
    <3> QED BY <3>1, <3>2
  <2>4. Begun(i)' => ~Refusable(Ahead', pkt[i + 1])
    BY <1>4, <1>8, <2>1
  <2>5. dec_ctrl_o'.valid => ~Trouble(Held', dec_ctrl(pkt)')
    <3> SUFFICES ASSUME dec_ctrl_o'.valid PROVE ~Trouble(Held', dec_ctrl(pkt)')
      OBVIOUS
    <3>1. Passing(i) /\ dec_ctrl(pkt)' = pkt[i].body
      BY <1>1, <1>2, <2>2, DueAdvances
    <3>2. Unpassed(i)
      BY <3>1 DEF Passing
    <3>3. ~Trouble(Held, pkt[i].body) /\ Held' = Held
      BY <1>3, <3>2, HeldStays DEF Agree
    <3> QED BY <3>1, <3>3
  <2> QED BY <1>1, <1>5, <1>8, <2>1, <2>2, <2>3, <2>4, <2>5 DEF Agree
<1>9. CASE ~v /\ j = i /\ (NoWord(i) \/ (Idles /\ (Begun(i)' <=> Begun(i)))) /\ ~Hearing(v, i)
  <2>1. /\ Ahead' = Ahead /\ Due(i)' = Due(i)
        /\ (Unpassed(i)' <=> Unpassed(i)) /\ (Begun(i)' <=> Begun(i))
    BY <1>1, <1>2, <1>9, DueKept
  <2>2. InMsg(i)' => InMsg(i)
    BY <1>9, NotIdleNext DEF NoWord, Idles
  <2>3. ~dec_ctrl_o'.valid
    BY <1>9 DEF NoWord, Idles, NoCtrl
  <2>4. Unpassed(i)' => ~Trouble(Held', pkt[i].body)
    <3>1. Unpassed(i)' => ~Trouble(Held, pkt[i].body) /\ Held' = Held
      BY <1>3, <2>1, HeldStays DEF Agree
    <3> QED BY <3>1
  <2>5. Begun(i)' => ~Refusable(Ahead', pkt[i + 1])
    BY <1>3, <2>1 DEF Agree
  <2>6. InMsg(i)' => ~Malformed(pkt[i])
    BY <1>3, <2>2 DEF Agree
  <2> QED BY <1>1, <1>4, <1>5, <1>9, <2>1, <2>3, <2>4, <2>5, <2>6 DEF Agree
<1> QED BY <1>6, <1>7, <1>8, <1>9 DEF Turns

----------------------------------------------------------------------------
(* What the reference refuses and the hardware has not reported is still   *)
(* to be handed on.                                                        *)

LEMMA RefusableTypes ==
  ASSUME Wired(pkt), NEW i \in 1 .. Len(pkt), Good(pkt[i]), NEW h, Refusable(h, pkt[i])
  PROVE  pkt[i].type \in DOMAIN LastAt
<1>1. Malformed(pkt[i]) => pkt[i].type \in {"S", "H", "h", "A", "F"}
  BY DEF Malformed, Good
<1>2. {"S", "H", "h", "A", "F"} \subseteq DOMAIN LastAt
  BY DEF LastAt
<1>3. Trouble(h, pkt[i].body) => pkt[i].type \in DOMAIN LastAt
  <2> SUFFICES ASSUME Trouble(h, pkt[i].body), pkt[i].type \notin DOMAIN LastAt PROVE FALSE
    OBVIOUS
  <2>1. pkt[i].body.kind = "IGNORE"
    BY TypeKinds
  <2> QED BY <2>1 DEF Trouble
<1> QED BY <1>1, <1>2, <1>3 DEF Refusable

(* A message handed on with trouble is one Control gets.                   *)
LEMMA TroublePasses ==
  ASSUME NEW v, NEW i, Ticks(v, i), v, ~failed', InMsg(i), Advances(i), Passing(i), Refusable(Held, pkt[i])
  PROVE  \/ dec_ctrl_o'.valid /\ Trouble(Held', dec_ctrl(pkt)')
         \/ (dec_book_del_q'.valid \/ dec_book_q'.valid) /\ ~Listening(Held')
<1> DEFINE t == pkt[i].type
           m == pkt[i]
<1>1. /\ Flags /\ Paced /\ Wired(pkt) /\ at \in Nat /\ Parsed(i) /\ Follows(i)
      /\ v \in BOOLEAN /\ at < WordsOf(pkt) /\ Clock(v, FALSE) /\ pkt' = pkt
  BY DEF Ticks
<1>2. Pipe /\ Shaped /\ Booked /\ Right(i) /\ Cleared(i) /\ Located(i) /\ HalfOnly(i) /\ Held' = Ahead
  BY TickFacts
<1>3. i \in 1 .. Len(pkt) /\ Good(m) /\ words_left \in 1 .. 12
  BY InMsgFacts DEF InMsg
<1>4. ~WordWrong(i)
  BY <1>1, <1>2, Reports
<1>5. Unpassed(i) /\ words_left = LastAt[t] /\ t \in DOMAIN LastAt
  BY DEF Passing, Unpassed
<1>6. Held' = Held
  BY <1>5, HeldStays
<1>7. ~Malformed(m)
  <2> SUFFICES ASSUME t \in {"S", "H", "h", "A", "F"}, ~m.valid_code PROVE FALSE
    BY <1>3 DEF Malformed, Good
  <2>1. CASE t \in {"S", "H", "h"}
    <3>1. words_left = CtrlAt[t]
      BY <1>5, <2>1 DEF LastAt, CtrlAt
    <3> QED BY <1>4, <2>1, <3>1 DEF WordWrong
  <2>2. CASE t \in {"A", "F"}
    <3>1. words_left = BookAt[t]
      BY <1>5, <2>2 DEF LastAt, BookAt
    <3> QED BY <1>4, <2>2, <3>1 DEF WordWrong
  <2> QED BY <2>1, <2>2
<1>8. Trouble(Held, m.body)
  BY <1>7 DEF Refusable
<1>9. CASE t \in Orders
  <2>1. m.body.kind = "BOOK" /\ m.body \in ITCHMsg
    BY <1>1, <1>3, <1>9, TypeKinds
  <2>2. OfType(i, Orders) /\ words_left < LocateAt[t]
    BY <1>5, <1>9, LastPlaces DEF OfType
  <2>3. stock_locate_q.valid /\ (OwnBody(i) => match_locate_q)
    BY <1>2, <2>2 DEF Located
  <2>4. Held.locate # NoLocate
    <3>1. stock_locate_q.valid = (stock_locate_q.stock_locate # NoLocate)
      BY <1>2 DEF Shaped
    <3> QED BY <2>3, <3>1 DEF Held
  <2>5. m.body.stock_locate = Held.locate /\ ~Listening(Held)
    BY <1>8, <2>1, <2>4 DEF Trouble
  <2>6. OwnBody(i)
    <3>1. m.body = [kind |-> "BOOK", stock_locate |-> m.body.stock_locate]
      BY <2>1, BookBody
    <3> QED BY <2>5, <3>1 DEF OwnBody, Held
  <2>7. Takes(i)
    BY <1>9 DEF Advances
  <2>8. Promises(i)
    BY <1>5, <2>2, <2>3, <2>6, <2>7 DEF Promises
  <2>9. dec_book_del_q'.valid \/ dec_book_q'.valid
    BY <1>1, <1>2, <2>8, Promised DEF InDel, InBook
  <2> QED BY <1>6, <2>5, <2>9
<1>10. CASE t \notin Orders
  <2>1. dec_ctrl_o'.valid /\ dec_ctrl(pkt)' = m.body
    BY <1>1, <1>2, <1>10, DueAdvances
  <2> QED BY <1>6, <1>8, <2>1
<1> QED BY <1>9, <1>10

(* An error the reference has found is reported, or still to come. *)
LEMMA OwedKept ==
  ASSUME NEW v, NEW i, Ticks(v, i), ~failed', NEW j, Turns(v, i, j), refused' = "error"
  PROVE  Owed(j)'
<1>1. /\ Flags /\ Paced /\ Wired(pkt) /\ at \in Nat /\ Parsed(i) /\ Follows(i)
      /\ v \in BOOLEAN /\ (v => at < WordsOf(pkt)) /\ Clock(v, FALSE) /\ pkt' = pkt /\ Hears(v, i)
  BY DEF Ticks
<1>2. /\ Pipe /\ Shaped /\ Booked /\ Right(i) /\ Cleared(i) /\ Taking(i) /\ Held' = Ahead
  BY TickFacts
<1>3. ~Blamed
  BY <1>1, <1>2, Reports
<1>4. \/ Owed(i)
      \/ Hearing(v, i) /\ Refusable(Due(i), pkt[i + 1])
  BY <1>1, HearsFacts DEF Follows, Agree
<1>5. ASSUME Begins(i), v, j = i + 1, Refusable(Ahead, pkt[i + 1])
      PROVE  Owed(j)'
  <2>1. i + 1 \in 1 .. Len(pkt) /\ Good(pkt[i + 1])
    <3>1. i + 1 \in 1 .. Len(pkt) /\ InMsg(i + 1)'
      BY <1>5 DEF Begins
    <3> QED BY <1>1, <3>1 DEF InMsg
  <2>2. pkt[i + 1].type \in DOMAIN LastAt
    BY <1>1, <1>5, <2>1, RefusableTypes
  <2>3. Unpassed(i + 1)'
    BY <1>1, <1>2, <1>5, <2>2, DueBegins
  <2> QED BY <1>1, <1>2, <1>5, <2>3 DEF Owed
<1>6. CASE Hearing(v, i) /\ Refusable(Due(i), pkt[i + 1])
  <2>1. CASE v /\ j = i + 1 /\ Begins(i) /\ ~Begun(i)
    <3>1. ~Unpassed(i)
      BY <1>1, <1>2, <2>1, DueBegins
    <3>2. Due(i) = Ahead
      BY <2>1, <3>1 DEF Due
    <3> QED BY <1>5, <1>6, <2>1, <3>2
  <2>2. CASE v /\ j = i /\ LastWord(i) /\ Begun(i)'
    <3>1. Ahead' = Due(i)
      BY <1>1, <1>2, <2>2, DueLast
    <3> QED BY <1>1, <1>6, <2>2, <3>1 DEF Owed
  <2> QED BY <1>6, <2>1, <2>2 DEF Turns
<1>7. CASE Begun(i) /\ Refusable(Ahead, pkt[i + 1])
  <2>0. ~InMsg(i)
    BY <1>7, NotIdle DEF Begun
  <2>1. CASE v /\ j = i + 1 /\ Begins(i)
    BY <1>5, <1>7, <2>1
  <2>2. CASE j = i /\ Idles /\ (Begun(i)' <=> Begun(i))
    <3>1. Ahead' = Ahead
      BY <1>1, <1>2, <2>2, DueKept
    <3> QED BY <1>1, <1>7, <2>2, <3>1 DEF Owed
  <2> QED BY <2>0, <2>1, <2>2 DEF Turns, NextWord, LastWord, NoWord
<1>8. CASE Unpassed(i) /\ Refusable(Held, pkt[i])
  <2>0. InMsg(i) /\ state_q # "IDLE" /\ Held' = Held
    BY <1>8, NotIdle, HeldStays DEF Unpassed
  <2>1. CASE v /\ j = i /\ NextWord(i)
    <3>1. CASE Passing(i)
      BY <1>1, <1>8, <2>0, <2>1, <3>1, TroublePasses DEF Owed, NextWord
    <3>2. CASE ~Passing(i)
      <4>1. Unpassed(i)'
        BY <1>1, <1>2, <1>8, <2>1, <3>2, DueNext
      <4> QED BY <1>1, <1>8, <2>0, <2>1, <4>1 DEF Owed
    <3> QED BY <3>1, <3>2
  <2>2. CASE v /\ j = i /\ LastWord(i)
    <3>1. Passing(i)
      BY <1>1, <1>2, <1>8, <2>2, DueLast
    <3> QED BY <1>1, <1>8, <2>0, <2>2, <3>1, TroublePasses DEF Owed, LastWord
  <2>3. CASE j = i /\ NoWord(i)
    <3>1. Unpassed(i)'
      BY <1>1, <1>2, <1>8, <2>3, DueKept
    <3> QED BY <1>1, <1>8, <2>0, <2>3, <3>1 DEF Owed
  <2> QED BY <2>0, <2>1, <2>2, <2>3 DEF Turns, Begins, Idles
<1>9. CASE (dec_book_del_q.valid \/ dec_book_q.valid) /\ ~Listening(Held)
  <2>1. dec_book_del_q.valid /\ ~dec_book_q.valid
    BY <1>3, <1>9 DEF Blamed
  <2>2. Held' = Held
    BY <1>9, HeldStays
  <2>3. dec_book_q'.valid
    <3>1. dec_book_q' = dec_book_del_q
      BY <1>1, <1>2, <2>1, DelPasses
    <3> QED BY <2>1, <3>1
  <2> QED BY <1>9, <2>2, <2>3 DEF Owed
<1>10. ~(dec_ctrl_o.valid /\ Trouble(Held, dec_ctrl(pkt)))
  BY <1>3 DEF Blamed
<1> QED BY <1>4, <1>6, <1>7, <1>8, <1>9, <1>10 DEF Owed

----------------------------------------------------------------------------
(* The rest of what is kept. *)

(* A message whose header has been read without an error is well formed. *)
LEMMA RightKept ==
  ASSUME NEW v, NEW i, Ticks(v, i), NEW j, Turns(v, i, j)
  PROVE  Right(j)'
<1>1. Right(i) /\ pkt' = pkt /\ Wired(pkt)
  BY TickFacts DEF Ticks
<1>2. CASE j = i
  BY <1>1, <1>2 DEF Right, Good
<1>3. CASE j = i + 1 /\ Begins(i)
  <2>1. InMsg(i + 1)'
    BY <1>3 DEF Begins
  <2>2. Good(pkt'[i + 1])
    BY <2>1 DEF InMsg
  <2> QED BY <1>3, <2>2 DEF Right
<1> QED BY <1>2, <1>3 DEF Turns

(* An order message before the directory is an error already. *)
LEMMA LocatedKept ==
  ASSUME NEW v, NEW i, Ticks(v, i), ~failed', NEW j, Turns(v, i, j)
  PROVE  Located(j)'
<1>1. /\ Flags /\ Paced /\ Wired(pkt) /\ at \in Nat /\ Parsed(i) /\ v \in BOOLEAN
      /\ (v => at < WordsOf(pkt)) /\ Clock(v, FALSE) /\ pkt' = pkt
  BY DEF Ticks
<1>2. /\ Pipe /\ Shaped /\ Booked /\ Right(i) /\ Cleared(i) /\ Taking(i) /\ Located(i)
      /\ (OfType(i, {"R"}) \/ stock_locate_q' = stock_locate_q)
  BY TickFacts
<1>3. CASE j = i + 1 /\ Begins(i)
  <2>1. InMsg(i + 1)' /\ Since(i + 1)' \in 4 .. 7
    BY <1>3 DEF Begins
  <2>2. pkt'[i + 1].type \in Orders => words_left' > LocateAt[pkt'[i + 1].type]
    BY <2>1, EarlyNext
  <2>3. pkt'[i + 1].type \in Orders => LocateAt[pkt'[i + 1].type] \in 2 .. 6
    BY LastPlaces
  <2>4. words_left' \in 1 .. 12
    BY <2>1, NextWords
  <2>5. pkt'[i + 1].type \in Orders => ~(words_left' < LocateAt[pkt'[i + 1].type])
    BY <2>2, <2>3, <2>4
  <2> QED BY <1>3, <2>5 DEF Located, OfType
<1>4. CASE ~InMsg(j)'
  BY <1>4 DEF Located, OfType
<1>5. CASE j = i /\ NextWord(i) /\ v
  <2> DEFINE t == pkt[i].type
  <2> SUFFICES ASSUME t \in Orders, words_left' < LocateAt[t]
               PROVE  stock_locate_q'.valid /\ (OwnBody(i)' => match_locate_q')
    BY <1>1, <1>5 DEF Located, OfType
  <2>1. InMsg(i) /\ words_left' = words_left - 1 /\ OfType(i, Orders) /\ Takes(i) /\ words_left \in 1 .. 12
    BY <1>5, InMsgFacts DEF NextWord, Advances, OfType
  <2>2. stock_locate_q' = stock_locate_q
    BY <1>2 DEF OfType, Orders
  <2>3. OwnBody(i)' <=> OwnBody(i)
    BY <1>1, <2>2 DEF OwnBody
  <2>4. CASE words_left = LocateAt[t]
    <3>1. ~WordWrong(i)
      BY <1>1, <1>2, <1>5, <2>1, Reports
    <3>2. stock_locate_q.valid
      BY <2>4, <3>1 DEF WordWrong
    <3>3. match_locate_q' = (stock_locate_q.valid /\ pkt[i].body.kind = "BOOK"
                             /\ pkt[i].body.stock_locate = stock_locate_q.stock_locate)
      BY <2>1, <2>4 DEF Takes
    <3>4. OwnBody(i) => pkt[i].body.kind = "BOOK" /\ pkt[i].body.stock_locate = stock_locate_q.stock_locate
      BY DEF OwnBody
    <3> QED BY <2>2, <2>3, <3>2, <3>3, <3>4
  <2>5. CASE words_left # LocateAt[t]
    <3>1. words_left < LocateAt[t]
      <4>1. LocateAt[t] \in 2 .. 6
        BY LastPlaces
      <4> QED BY <2>1, <2>5, <4>1
    <3>2. stock_locate_q.valid /\ (OwnBody(i) => match_locate_q)
      BY <1>2, <2>1, <3>1 DEF Located
    <3>3. match_locate_q' = match_locate_q
      BY <2>1, <2>5 DEF Takes
    <3> QED BY <2>2, <2>3, <3>2, <3>3
  <2> QED BY <2>4, <2>5
<1>6. CASE j = i /\ NoWord(i)
  <2> DEFINE t == pkt[i].type
  <2> SUFFICES ASSUME t \in Orders, words_left' < LocateAt[t]
               PROVE  stock_locate_q'.valid /\ (OwnBody(i)' => match_locate_q')
    BY <1>1, <1>6 DEF Located, OfType
  <2>1. InMsg(i) /\ words_left' = words_left /\ OfType(i, Orders) /\ match_locate_q' = match_locate_q
    BY <1>6 DEF NoWord, Keeps, OfType
  <2>2. stock_locate_q' = stock_locate_q
    BY <1>2 DEF OfType, Orders
  <2>3. OwnBody(i)' <=> OwnBody(i)
    BY <1>1, <2>2 DEF OwnBody
  <2>4. stock_locate_q.valid /\ (OwnBody(i) => match_locate_q)
    BY <1>2, <2>1 DEF Located
  <2> QED BY <2>1, <2>2, <2>3, <2>4
<1>7. LastWord(i) \/ Idles => ~InMsg(i)'
  BY NotIdleNext DEF LastWord, Idles
<1> QED BY <1>3, <1>4, <1>5, <1>6, <1>7 DEF Turns

(* A replacement has left nothing of others when its first half goes. *)
LEMMA HalfOnlyKept ==
  ASSUME NEW v, NEW i, Ticks(v, i), NEW j, Turns(v, i, j)
  PROVE  HalfOnly(j)'
<1>1. /\ Flags /\ Paced /\ Wired(pkt) /\ at \in Nat /\ Parsed(i) /\ pkt' = pkt
  BY DEF Ticks
<1>2. Pipe /\ BookSteps /\ Booked /\ Taking(i) /\ HalfOnly(i)
  BY TickFacts
<1>3. CASE j = i + 1 /\ Begins(i)
  <2>1. InMsg(i + 1)' /\ Since(i + 1)' \in 4 .. 7 /\ words_left' \in 1 .. 12
    BY <1>3, NextWords DEF Begins
  <2>2. pkt'[i + 1].type = "U" => words_left' > 6
    <3>1. "U" \in Orders /\ LocateAt["U"] = 6
      BY DEF Orders, LocateAt
    <3> QED BY <2>1, <3>1, EarlyNext
  <2>3. pkt'[i + 1].type = "U" => ~(words_left' < 5)
    BY <2>1, <2>2
  <2> QED BY <1>3, <2>3 DEF HalfOnly, OfType
<1>4. CASE ~InMsg(j)'
  BY <1>4 DEF HalfOnly, OfType
<1>5. ASSUME j = i, InMsg(i), words_left \in 1 .. 12, words_left' = words_left \/ words_left' = words_left - 1,
             ~Promises(i)
      PROVE  HalfOnly(j)'
  <2> SUFFICES ASSUME pkt[i].type = "U", words_left' < 5
               PROVE  /\ ~InDel' /\ ~InBook' /\ ~InLookup' /\ ~dec_book_updt_q'.valid /\ ~book_res_q'.valid
    BY <1>1, <1>5 DEF HalfOnly, OfType
  <2>0. OfType(i, {"U"}) /\ OfType(i, Orders)
    BY <1>5 DEF OfType, Orders
  <2>1. ~InDel /\ ~InBook /\ ~InLookup /\ ~dec_book_updt_q.valid
    <3>1. CASE words_left < 5
      BY <1>2, <2>0, <3>1 DEF HalfOnly
    <3>2. CASE ~(words_left < 5)
      <4>1. words_left = 5
        BY ONLY <1>5, <3>2, words_left' < 5
      <4>2. words_left = PassAt(pkt[i].type)
        BY <4>1 DEF PassAt, DelAt
      <4>3. ~dec_book_del_q.valid /\ ~dec_book_q.valid /\ ~lookup.valid /\ quiet \in 3 .. 9
        BY <1>1, <2>0, <4>2, Ready
      <4>4. ~(quiet <= 1)
        BY <4>3
      <4> QED BY <1>2, <4>3, <4>4 DEF Booked, InDel, InBook, InLookup
    <3> QED BY <3>1, <3>2
  <2>2. ~InDel' /\ ~InBook'
    BY <1>1, <1>2, <1>5, <2>1, Unpromised
  <2>3. ~InLookup'
    BY <1>2, <2>1, ResFacts DEF Pipe, InLookup, InBook
  <2>4. ~dec_book_updt_q'.valid
    BY <1>1, <1>2, <2>1, ResFacts DEF BookSteps, Waits, InLookup
  <2>5. ~book_res_q'.valid
    BY <1>1, <1>2, <2>1, ResFacts DEF BookSteps, Looks, Frees, InLookup
  <2> QED BY <2>2, <2>3, <2>4, <2>5
<1>6. CASE j = i /\ NextWord(i)
  <2>1. InMsg(i) /\ words_left > 1 /\ words_left \in 1 .. 12 /\ words_left' = words_left - 1
    BY <1>6, InMsgFacts DEF NextWord
  <2>2. CASE pkt[i].type = "U"
    <3>1. ~Promises(i)
      <4>1. LastAt["U"] = 1
        BY DEF LastAt
      <4> QED BY <2>1, <2>2, <4>1 DEF Promises
    <3> QED BY <1>5, <1>6, <2>1, <3>1
  <2>3. CASE pkt[i].type # "U"
    BY <1>1, <1>6, <2>3 DEF HalfOnly, OfType
  <2> QED BY <2>2, <2>3
<1>7. CASE j = i /\ NoWord(i)
  <2>1. InMsg(i) /\ words_left \in 1 .. 12 /\ words_left' = words_left
    BY <1>7, InMsgFacts DEF NoWord
  <2>2. CASE ~Promises(i)
    BY <1>5, <1>7, <2>1, <2>2
  <2>3. CASE Promises(i)
    <3>1. dec_book_del_q' = NoBook /\ OfType(i, Orders) /\ Takes(i)
      BY <1>7, <2>3 DEF NoWord, Keeps, Promises
    <3>2. pkt[i].type = "U" => FALSE
      <4> SUFFICES ASSUME pkt[i].type = "U" PROVE FALSE
        OBVIOUS
      <4>1. words_left = 1
        BY <2>3 DEF Promises, LastAt
      <4>2. InBook' /\ dec_book_q' = IF dec_book_del_q.valid THEN dec_book_del_q
                        ELSE [NoBook EXCEPT !.order_id = dec_book_q.order_id]
        <5>1. ~InDel'
          BY <3>1 DEF InDel, NoBook
        <5> QED BY <1>1, <1>2, <1>7, <2>3, <5>1, Promised DEF NoWord, Keeps
      <4>3. ~dec_book_del_q.valid
        BY <1>1, <1>2, <2>3, <3>1, WayFree DEF Promises
      <4> QED BY <4>2, <4>3 DEF InBook, NoBook
    <3> QED BY <1>1, <1>7, <3>2 DEF HalfOnly, OfType
  <2> QED BY <2>2, <2>3
<1>8. LastWord(i) \/ Idles => ~InMsg(i)'
  BY NotIdleNext DEF LastWord, Idles
<1> QED BY <1>3, <1>4, <1>6, <1>7, <1>8 DEF Turns

(* What came before a message for Control is gone before Control gets it. *)
LEMMA ClearedKept ==
  ASSUME NEW v, NEW i, Ticks(v, i), NEW j, Turns(v, i, j)
  PROVE  Cleared(j)'
<1>1. /\ Flags /\ Paced /\ Wired(pkt) /\ at \in Nat /\ Parsed(i) /\ pkt' = pkt
      /\ (at' = at \/ at' = at + 1)
  BY DEF Ticks
<1>2. /\ Pipe /\ BookSteps /\ Booked /\ Taking(i) /\ Cleared(i)
  BY TickFacts
<1>3. ~OfType(i, {"U"}) => ~Slow'
  BY <1>1, <1>2, SlowReplaces DEF Slow
<1>4. CASE j = i + 1 /\ Begins(i)
  <2>1. state_q = "IDLE" /\ Since(i + 1)' \in 4 .. 7 /\ Keeps
    BY <1>4 DEF Begins
  <2>2. ~Slow'
    BY <1>3, <2>1, NotIdle DEF OfType
  <2>3. ~dec_book_del_q'.valid
    BY <2>1 DEF Keeps, NoBook
  <2>4. Within(i + 1, 2)' /\ Within(i + 1, 3)' /\ Within(i + 1, 4)'
    <3> DEFINE s == Since(i + 1)'
    <3>1. /\ Within(i + 1, 2)' <=> s < 4 * 2
          /\ Within(i + 1, 3)' <=> s < 4 * 3
          /\ Within(i + 1, 4)' <=> s < 4 * 4
      BY DEF Within, Since
    <3>2. s \in 4 .. 7
      BY <2>1
    <3> HIDE DEF s
    <3>3. s < 4 * 2 /\ s < 4 * 3 /\ s < 4 * 4
      BY ONLY <3>2
    <3> QED BY <3>1, <3>3
  <2> QED BY <1>4, <2>2, <2>3, <2>4 DEF Cleared
<1>5. CASE j = i
  <2> SUFFICES ASSUME i \in 1 .. Len(pkt), pkt[i].type \notin Orders
               PROVE  /\ ~dec_book_del_q'.valid /\ ~Slow'
                      /\ dec_book_q'.valid => Within(i, 2)'
                      /\ lookup'.valid => Within(i, 3)' /\ (updt_left' = 1 => Within(i, 2)')
                      /\ dec_book_updt_q'.valid => Within(i, 3)'
                      /\ book_res_q'.valid => Within(i, 4)'
    BY <1>1, <1>5 DEF Cleared
  <2>1. /\ ~dec_book_del_q.valid /\ ~Slow
        /\ dec_book_q.valid => Within(i, 2)
        /\ lookup.valid => Within(i, 3) /\ (updt_left = 1 => Within(i, 2))
        /\ dec_book_updt_q.valid => Within(i, 3)
    BY <1>2 DEF Cleared
  <2>2. (Within(i, 2) => Within(i, 3)') /\ (Within(i, 3) => Within(i, 4)')
    <3> DEFINE s == Start(pkt, i)
    <3>1. s \in Nat
      <4>1. i \in 1 .. Len(pkt) + 1
        BY <1>1, MsgFacts
      <4> QED BY <1>1, <4>1, BytesFinite
    <3>2. /\ Within(i, 2) <=> 4 * at - s < 4 * 2
          /\ Within(i, 3) <=> 4 * at - s < 4 * 3
          /\ Within(i, 3)' <=> 4 * at' - s < 4 * 3
          /\ Within(i, 4)' <=> 4 * at' - s < 4 * 4
      BY <1>1 DEF Within
    <3> HIDE DEF s
    <3>3. /\ 4 * at - s < 4 * 2 => 4 * at' - s < 4 * 3
          /\ 4 * at - s < 4 * 3 => 4 * at' - s < 4 * 4
      <4>1. at \in Nat /\ (at' = at \/ at' = at + 1)
        BY <1>1
      <4> QED BY ONLY <3>1, <4>1
    <3> QED BY <3>2, <3>3
  <2>3. Keeps
    BY <1>2 DEF Taking, Advances, OfType
  <2>4. ~dec_book_del_q'.valid /\ ~dec_book_q'.valid
    BY <1>1, <1>2, <2>1, <2>3, KeepsPasses
  <2>5. ~Slow'
    BY <2>4 DEF Slow
  <2>6. lookup'.valid => Within(i, 3)' /\ updt_left' # 1
    <3> SUFFICES ASSUME lookup'.valid PROVE Within(i, 3)' /\ updt_left' # 1
      OBVIOUS
    <3>1. dec_book_q.valid /\ ~lookup.valid
      BY <1>1, <1>2, <2>3, KeepsPasses DEF Paced
    <3>2. updt_left' = 0 \/ updt_left' = IF updt_left > 0 THEN updt_left - 1 ELSE 0
      BY <1>2, <3>1 DEF BookSteps, Frees, Looks, Waits, Still
    <3>3. updt_left' # 1
      <4> SUFFICES ASSUME updt_left' = 1 PROVE FALSE
        OBVIOUS
      <4>1. updt_left = 2
        <5>1. updt_left \in 0 .. 3
          BY <1>2 DEF Booked
        <5> QED BY ONLY <3>2, <5>1, updt_left' = 1
      <4>2. dec_book_q.msg_type # "REPLACE"
        BY <2>1, <3>1, <4>1 DEF Slow
      <4>3. Needed(dec_book_q.msg_type) \in {6, 9} /\ quiet + 1 >= Needed(dec_book_q.msg_type)
        BY <1>1, <3>1, <4>2 DEF Needed, Paced
      <4>4. quiet \in 0 .. 9 /\ quiet + updt_left <= 5
        BY <1>1, <1>2, <4>1 DEF Paced, Booked
      <4> QED BY ONLY <4>1, <4>3, <4>4
    <3> QED BY <2>1, <2>2, <3>1, <3>3
  <2>7. dec_book_updt_q'.valid => Within(i, 3)'
    BY <1>1, <1>2, <2>1, <2>2, ResFacts DEF BookSteps, Waits
  <2>8. book_res_q'.valid => Within(i, 4)'
    BY <1>1, <1>2, <2>1, <2>2, ResFacts DEF BookSteps, Frees, Looks
  <2> QED BY <2>4, <2>5, <2>6, <2>7, <2>8
<1> QED BY <1>4, <1>5 DEF Turns

----------------------------------------------------------------------------
(* The results expected are those on their way, and those to come.         *)

(* The reference answers: one result more is expected, at the end. *)
LEMMA FlowHears ==
  ASSUME NEW v, NEW i, Ticks(v, i), Hearing(v, i),
         NEW piped \in BOOLEAN, NEW first,
         \A other : FlowOf(piped, first, FALSE, other, refused # "no", Left),
         NEW M, refused = "no" => Model = M,
         NEW awaited \in BOOLEAN, awaited <=> OwnOf(M, pkt[i + 1].body)
  PROVE  FlowOf(piped, first, awaited, [of |-> i + 1, shown |-> Active(M)], refused' # "no", expected')
<1> DEFINE res == [of |-> i + 1, shown |-> Active(M)]
           free == refused # "no"
<1>1. Wired(pkt) /\ v \in BOOLEAN /\ Hears(v, i)
  BY DEF Ticks
<1>2. FlowOf(piped, first, FALSE, res, free, Left)
  OBVIOUS
<1>3. FALSE \in BOOLEAN /\ free \in BOOLEAN
  OBVIOUS
<1> HIDE DEF free
<1>4. /\ \A other : FlowOf(piped, first, TRUE, other, FALSE, Append(Left, other)) \/ free
      /\ \A a \in BOOLEAN : \A other : FlowOf(piped, first, a, other, TRUE, Left)
  BY <1>2, <1>3, FlowMoves
<1>5. CASE refused' = "no"
  <2>1. ~free /\ refused = "no" /\ Model = M
    BY <1>1, <1>5, HearsFacts DEF free
  <2>2. expected' = IF awaited THEN Append(Left, res) ELSE Left
    BY <1>1, <1>5, <2>1, HearsFacts
  <2>3. (refused' # "no") = FALSE
    BY <1>5
  <2>4. CASE awaited
    <3>1. FlowOf(piped, first, TRUE, res, FALSE, Append(Left, res))
      BY <1>4, <2>1
    <3>2. expected' = Append(Left, res) /\ awaited = TRUE
      BY <2>2, <2>4
    <3> QED BY ONLY <2>3, <3>1, <3>2
  <2>5. CASE ~awaited
    <3>1. FlowOf(piped, first, FALSE, res, FALSE, Left)
      <4>1. free = FALSE
        BY <1>3, <2>1
      <4> QED BY ONLY <1>2, <4>1 DEF free
    <3>2. expected' = Left /\ awaited = FALSE
      BY <2>2, <2>5
    <3> QED BY ONLY <2>3, <3>1, <3>2
  <2> QED BY <2>4, <2>5
<1>6. CASE refused' # "no"
  <2>1. expected' = Left
    BY <1>1, <1>6, HearsFacts
  <2>2. (refused' # "no") = TRUE
    BY <1>6
  <2>3. FlowOf(piped, first, awaited, res, TRUE, Left)
    BY <1>4
  <2> QED BY ONLY <2>1, <2>2, <2>3
<1> QED BY <1>5, <1>6

(* Without a word nothing is promised. *)
LEMMA NotPromised ==
  ASSUME NEW v, NEW i, Ticks(v, i), Keeps
  PROVE  ~Promises(i)
<1> SUFFICES ASSUME Promises(i) PROVE FALSE
  OBVIOUS
<1>1. Flags /\ Paced /\ Booked /\ Pipe /\ Parsed(i) /\ HalfOnly(i)
  BY TickFacts DEF Ticks
<1>2. InDel' \/ InBook'
  BY <1>1, Promised
<1>3. ~dec_book_del_q.valid
  BY <1>1, WayFree DEF Promises
<1>4. dec_book_del_q' = NoBook /\ dec_book_q' = [NoBook EXCEPT !.order_id = dec_book_q.order_id]
  BY <1>3 DEF Keeps
<1>5. dec_book_del_q'.valid = FALSE /\ dec_book_q'.valid = FALSE
  BY <1>4 DEF NoBook
<1> QED BY <1>2, <1>5 DEF InDel, InBook

LEMMA OwnOfIs ==
  ASSUME Wired(pkt), NEW i \in 1 .. Len(pkt), NEW h, OwnOf(h, pkt[i].body)
  PROVE  /\ pkt[i].type \in Orders /\ pkt[i].type \in DOMAIN LastAt
         /\ pkt[i].body = [kind |-> "BOOK", stock_locate |-> h.locate]
<1>1. pkt[i].body.kind = "BOOK" /\ pkt[i].body.stock_locate = h.locate
  BY DEF OwnOf
<1>2. pkt[i].type \in Orders /\ pkt[i].body \in ITCHMsg
  BY <1>1, TypeKinds
<1> QED BY <1>1, <1>2, BookBody, LastPlaces

(* What is awaited of the message in hand is promised when it is passed on.*)
LEMMA PromisedIs ==
  ASSUME NEW v, NEW i, Ticks(v, i), InMsg(i), Advances(i)
  PROVE  Promises(i) <=> Passing(i) /\ AwaitsThis(i)
<1> DEFINE t == pkt[i].type
<1>0. Wired(pkt) /\ Parsed(i) /\ Located(i)
  BY TickFacts DEF Ticks
<1>1. i \in 1 .. Len(pkt) /\ words_left \in 1 .. 12
  BY InMsgFacts DEF InMsg
<1>2. ASSUME Promises(i) PROVE Passing(i) /\ AwaitsThis(i)
  <2>1. OfType(i, Orders) /\ words_left = LastAt[t] /\ match_locate_q /\ t \in Orders
    BY <1>2 DEF Promises, OfType
  <2>2. t \in DOMAIN LastAt /\ words_left < LocateAt[t] /\ words_left >= LastAt[t]
    BY <1>1, <2>1, LastPlaces
  <2>3. OwnBody(i)
    BY <1>0, <2>1, <2>2 DEF Parsed, Matched
  <2>4. OwnOf(Held, pkt[i].body)
    BY <2>3 DEF OwnBody, OwnOf, Held
  <2> QED BY <2>1, <2>2, <2>4 DEF Passing, Unpassed, AwaitsThis
<1>3. ASSUME Passing(i), AwaitsThis(i) PROVE Promises(i)
  <2>1. t \in Orders /\ pkt[i].body = [kind |-> "BOOK", stock_locate |-> Held.locate]
    BY <1>0, <1>1, <1>3, OwnOfIs DEF AwaitsThis
  <2>2. OwnBody(i)
    BY <2>1 DEF OwnBody, Held
  <2>3. OfType(i, Orders) /\ Takes(i)
    BY <2>1 DEF OfType, Advances
  <2>4. words_left = LastAt[t] /\ words_left < LocateAt[t]
    BY <1>3, <2>1, LastPlaces DEF Passing
  <2>5. match_locate_q
    BY <1>0, <2>2, <2>3, <2>4 DEF Located
  <2> QED BY <2>3, <2>4, <2>5 DEF Promises
<1> QED BY <1>2, <1>3

(* The queue, and what is on its way, before anything is added. *)
Behind(i, awaited, second) == FlowOf(Piped', PipedRes', awaited, second, refused # "no", Left)

LEMMA FlowPipe ==
  ASSUME NEW v, NEW i, Ticks(v, i)
  PROVE  /\ Alone'
         /\ Promises(i) => \A other : Behind(i, FALSE, other)
         /\ ~Promises(i) => Behind(i, Awaits(i), AwaitedRes(i))
<1> DEFINE P == Piped /\ ~bbo_res_o.valid
           free == refused # "no"
<1>1. Flags /\ Paced /\ Wired(pkt) /\ at \in Nat /\ Parsed(i)
  BY DEF Ticks
<1>2. /\ Pipe /\ BookSteps /\ Output /\ Taking(i) /\ Held' = Ahead
      /\ Right(i) /\ HalfOnly(i) /\ Cleared(i) /\ Flow(i) /\ Booked /\ Alone
  BY TickFacts
<1>3. P \in BOOLEAN /\ free \in BOOLEAN /\ Awaits(i) \in BOOLEAN /\ Piped' \in BOOLEAN
  BY DEF Awaits, Piped
<1>4. FlowOf(P, PipedRes, Awaits(i), AwaitedRes(i), free, Left)
  BY <1>2, <1>3, FlowLeaves DEF Flow
<1> HIDE DEF free
<1>5. CASE Promises(i)
  <2>1. Alone' /\ Piped' /\ ~P /\ PipedRes' = [of |-> i, shown |-> stock_active_o']
    BY <1>1, <1>2, <1>5, PipePromised
  <2>2. AwaitsThis(i) /\ ~Begun(i) /\ Unpassed(i)
    <3>1. (InMsg(i) /\ Advances(i)) \/ Keeps
      BY <1>2, <1>5 DEF Taking, Promises, OfType
    <3>2. InMsg(i) /\ Advances(i)
      BY <1>5, <3>1, NotPromised
    <3> QED BY <1>5, <3>2, PromisedIs, NotIdle DEF Begun, Passing
  <2>3. Held' = Held
    BY <2>2, HeldStays
  <2>4. (Active(Held) = stock_active_o)'
    BY AheadIs, PTL
  <2>5. stock_active_o' = Active(Held)
    <3>1. Active(Held)' = Active(Held')
      BY DEF Active
    <3> QED BY <2>3, <2>4, <3>1
  <2>6. AwaitedRes(i) = PipedRes'
    BY <2>1, <2>2, <2>5 DEF AwaitedRes
  <2>7. Awaits(i)
    BY <2>2 DEF Awaits
  <2>8. \A other : FlowOf(TRUE, AwaitedRes(i), FALSE, other, free, Left)
    BY <1>3, <1>4, <2>1, <2>7, FlowMoves
  <2>9. Piped' = TRUE
    BY <1>3, <2>1
  <2>10. \A other : Behind(i, FALSE, other)
    BY ONLY <2>6, <2>8, <2>9 DEF Behind, free
  <2> QED BY <1>5, <2>1, <2>10
<1>6. CASE ~Promises(i)
  <2>1. Alone' /\ (Piped' <=> P) /\ (Piped' => PipedRes' = PipedRes)
    BY <1>1, <1>2, <1>6, PipeShift
  <2>2. Piped' = P
    BY <1>3, <2>1
  <2>3. Behind(i, Awaits(i), AwaitedRes(i))
    <3>1. CASE Piped'
      BY <1>4, <2>1, <2>2, <3>1 DEF Behind, free
    <3>2. CASE ~Piped'
      <4>1. ~P
        BY <2>2, <3>2
      <4>2. \A first : FlowOf(P, first, Awaits(i), AwaitedRes(i), free, Left)
        BY <1>4, <4>1 DEF FlowOf
      <4> QED BY <2>2, <4>2 DEF Behind, free
    <3> QED BY <3>1, <3>2
  <2> QED BY <1>6, <2>1, <2>3
<1> QED BY <1>5, <1>6

(* Nothing begins: the queue is what it was but for what has left. *)
LEMMA FlowStays ==
  ASSUME NEW v, NEW i, Ticks(v, i), ~Hearing(v, i), NEW a \in BOOLEAN, NEW s, Behind(i, a, s),
         NEW b \in BOOLEAN, b <=> a, NEW t, a => s = t
  PROVE  FlowOf(Piped', PipedRes', b, t, refused' # "no", expected')
<1>1. Wired(pkt) /\ v \in BOOLEAN /\ Hears(v, i)
  BY DEF Ticks
<1>2. expected' = Left /\ (refused # "no" => refused' # "no")
  BY <1>1, HearsFacts
<1> DEFINE free == refused # "no"
           f == refused' # "no"
           P == Piped'
           R == PipedRes'
<1>3. P \in BOOLEAN /\ free \in BOOLEAN /\ f \in BOOLEAN /\ (free => f)
  BY <1>2 DEF Piped
<1>4. FlowOf(P, R, a, s, free, Left)
  BY DEF Behind
<1> HIDE DEF free, f, P, R
<1>5. FlowOf(P, R, a, s, f, Left)
  BY <1>3, <1>4 DEF FlowOf
<1>6. FlowOf(P, R, b, t, f, Left)
  <2>1. b = a
    OBVIOUS
  <2>2. CASE a
    BY <1>5, <2>1, <2>2
  <2>3. CASE ~a
    BY <1>5, <2>1, <2>3 DEF FlowOf
  <2> QED BY <2>2, <2>3
<1> QED BY <1>2, <1>6 DEF P, R, f

(* What is not awaited is nobody's. *)
LEMMA NoneBehind ==
  ASSUME NEW v, NEW i, Ticks(v, i), ~Awaits(i) \/ Promises(i)
  PROVE  \A other : Behind(i, FALSE, other)
<1> DEFINE free == refused # "no"
           P == Piped'
           R == PipedRes'
<1>1. P \in BOOLEAN /\ free \in BOOLEAN /\ Awaits(i) \in BOOLEAN
  BY DEF Piped, Awaits
<1>2. CASE Promises(i)
  BY <1>2, FlowPipe
<1>3. CASE ~Awaits(i) /\ ~Promises(i)
  <2>1. FlowOf(P, R, Awaits(i), AwaitedRes(i), free, Left)
    BY <1>3, FlowPipe DEF Behind
  <2> HIDE DEF free, P, R
  <2>2. \A other : FlowOf(P, R, FALSE, other, free, Left)
    BY <1>1, <1>3, <2>1, FlowMoves
  <2> QED BY <2>2 DEF Behind, free, P, R
<1> QED BY <1>2, <1>3

LEMMA FlowBegins ==
  ASSUME NEW v, NEW i, Ticks(v, i), v, Begins(i), Hearing(v, i) <=> ~Begun(i)
  PROVE  Flow(i + 1)'
<1>1. Wired(pkt) /\ pkt' = pkt /\ v \in BOOLEAN /\ at \in Nat
  BY DEF Ticks
<1>2. Held' = Ahead
  BY TickFacts
<1>3. /\ Ahead' = Ahead /\ ~Begun(i + 1)' /\ ~Unpassed(i)
      /\ Unpassed(i + 1)' <=> pkt[i + 1].type \in DOMAIN LastAt
  BY <1>1, <1>2, DueBegins
<1>4. Keeps /\ i + 1 \in 1 .. Len(pkt)
  BY DEF Begins
<1>5. ~Promises(i)
  BY <1>4, NotPromised
<1>6. Awaits(i + 1)' <=> OwnOf(Ahead, pkt[i + 1].body)
  <2>1. Awaits(i + 1)' <=> Unpassed(i + 1)' /\ OwnOf(Held', pkt'[i + 1].body)
    BY <1>3 DEF Awaits, AwaitsNext, AwaitsThis, OwnOf
  <2>2. OwnOf(Ahead, pkt[i + 1].body) => pkt[i + 1].type \in DOMAIN LastAt
    BY <1>1, <1>4, OwnOfIs
  <2> QED BY <1>1, <1>2, <1>3, <2>1, <2>2
<1>7. AwaitedRes(i + 1)' = [of |-> i + 1, shown |-> Active(Ahead)]
  <2>1. Active(Held)' = Active(Held')
    BY DEF Active
  <2> QED BY <1>2, <1>3, <2>1 DEF AwaitedRes
<1>8. Awaits(i + 1)' \in BOOLEAN
  BY DEF Awaits
<1>9. CASE Begun(i)
  <2>1. Awaits(i) <=> OwnOf(Ahead, pkt[i + 1].body)
    BY <1>3, <1>9 DEF Awaits, AwaitsNext, AwaitsThis
  <2>2. AwaitedRes(i) = [of |-> i + 1, shown |-> Active(Ahead)]
    BY <1>9 DEF AwaitedRes
  <2>3. Awaits(i) \in BOOLEAN
    BY DEF Awaits
  <2>4. Behind(i, Awaits(i), AwaitedRes(i))
    BY <1>5, FlowPipe
  <2>5. FlowOf(Piped', PipedRes', Awaits(i + 1)', AwaitedRes(i + 1)', refused' # "no", expected')
    BY <1>6, <1>7, <1>8, <1>9, <2>1, <2>2, <2>3, <2>4, FlowStays
  <2> QED BY <2>5 DEF Flow
<1>10. CASE ~Begun(i)
  <2>1. ~Awaits(i)
    BY <1>3, <1>10 DEF Awaits, AwaitsNext, AwaitsThis
  <2>2. \A other : FlowOf(Piped', PipedRes', FALSE, other, refused # "no", Left)
    BY <2>1, NoneBehind DEF Behind
  <2>3. refused = "no" => Model = Ahead
    <3>1. refused = "no" => Model = Due(i)
      BY DEF Ticks, Follows, Agree
    <3> QED BY <1>3, <1>10, <3>1 DEF Due
  <2>4. Piped' \in BOOLEAN
    BY DEF Piped
  <2>5. Awaits(i + 1)' = OwnOf(Ahead, pkt[i + 1].body) /\ OwnOf(Ahead, pkt[i + 1].body) \in BOOLEAN
    BY <1>6, <1>8 DEF OwnOf
  <2>6. FlowOf(Piped', PipedRes', Awaits(i + 1)', [of |-> i + 1, shown |-> Active(Ahead)],
               refused' # "no", expected')
    BY <1>6, <1>8, <1>10, <2>2, <2>3, <2>4, FlowHears
  <2> QED BY <1>7, <2>6 DEF Flow
<1> QED BY <1>9, <1>10

LEMMA FlowNext ==
  ASSUME NEW v, NEW i, Ticks(v, i), v, NextWord(i), ~Hearing(v, i)
  PROVE  Flow(i)'
<1>1. Wired(pkt) /\ pkt' = pkt /\ v \in BOOLEAN /\ at \in Nat
  BY DEF Ticks
<1>2. Held' = Ahead
  BY TickFacts
<1>3. ~Begun(i)' /\ (Unpassed(i)' <=> Unpassed(i) /\ ~Passing(i))
  BY <1>1, <1>2, DueNext
<1>4. InMsg(i) /\ Advances(i)
  BY DEF NextWord
<1>5. ~Begun(i)
  BY <1>4, NotIdle DEF Begun
<1>6. Awaits(i)' \in BOOLEAN /\ Awaits(i) \in BOOLEAN /\ FALSE \in BOOLEAN
  BY DEF Awaits
<1>7. Awaits(i)' <=> Unpassed(i)' /\ OwnOf(Held', pkt[i].body)
  BY <1>1, <1>3 DEF Awaits, AwaitsNext, AwaitsThis, OwnOf
<1>8. Awaits(i) <=> Unpassed(i) /\ OwnOf(Held, pkt[i].body)
  BY <1>5 DEF Awaits, AwaitsNext, AwaitsThis
<1>9. CASE Passing(i) \/ ~Unpassed(i)
  <2>1. ~Awaits(i)'
    BY <1>3, <1>7, <1>9
  <2>2. ~Awaits(i) \/ Promises(i)
    BY <1>4, <1>8, <1>9, PromisedIs DEF AwaitsThis
  <2>3. Behind(i, FALSE, AwaitedRes(i)')
    BY <2>2, NoneBehind
  <2>4. FlowOf(Piped', PipedRes', Awaits(i)', AwaitedRes(i)', refused' # "no", expected')
    BY <1>6, <2>1, <2>3, FlowStays
  <2> QED BY <2>4 DEF Flow
<1>10. CASE Unpassed(i) /\ ~Passing(i)
  <2>1. Held' = Held
    BY <1>10, HeldStays
  <2>2. Awaits(i)' <=> Awaits(i)
    BY <1>3, <1>7, <1>8, <1>10, <2>1
  <2>3. AwaitedRes(i)' = AwaitedRes(i)
    <3>1. Active(Held)' = Active(Held')
      BY DEF Active
    <3> QED BY <1>3, <1>5, <2>1, <3>1 DEF AwaitedRes
  <2>4. ~Promises(i)
    BY <1>4, <1>10, PromisedIs
  <2>5. Behind(i, Awaits(i), AwaitedRes(i))
    BY <2>4, FlowPipe
  <2>6. FlowOf(Piped', PipedRes', Awaits(i)', AwaitedRes(i)', refused' # "no", expected')
    BY <1>6, <2>2, <2>3, <2>5, FlowStays
  <2> QED BY <2>6 DEF Flow
<1> QED BY <1>9, <1>10

LEMMA FlowLast ==
  ASSUME NEW v, NEW i, Ticks(v, i), v, LastWord(i), Hearing(v, i) <=> Begun(i)'
  PROVE  Flow(i)'
<1>1. Wired(pkt) /\ pkt' = pkt /\ v \in BOOLEAN /\ at \in Nat
  BY DEF Ticks
<1>2. Held' = Ahead
  BY TickFacts
<1>3. /\ Unpassed(i) <=> Passing(i)
      /\ ~Unpassed(i)' /\ Ahead' = Due(i)
  BY <1>1, <1>2, DueLast
<1>4. InMsg(i) /\ Advances(i)
  BY DEF LastWord
<1>5. ~Begun(i)
  BY <1>4, NotIdle DEF Begun
<1>6. Awaits(i)' \in BOOLEAN /\ FALSE \in BOOLEAN
  BY DEF Awaits
<1>7. ~Awaits(i) \/ Promises(i)
  BY <1>3, <1>4, <1>5, PromisedIs DEF Awaits, AwaitsNext, AwaitsThis
<1>8. \A other : Behind(i, FALSE, other)
  BY <1>7, NoneBehind
<1>9. Awaits(i)' <=> Begun(i)' /\ OwnOf(Due(i), pkt[i + 1].body)
  BY <1>1, <1>3 DEF Awaits, AwaitsNext, AwaitsThis, OwnOf
<1>10. CASE ~Begun(i)'
  <2>1. ~Awaits(i)' /\ ~Hearing(v, i)
    BY <1>9, <1>10
  <2>2. Behind(i, FALSE, AwaitedRes(i)')
    BY <1>8
  <2>3. FlowOf(Piped', PipedRes', Awaits(i)', AwaitedRes(i)', refused' # "no", expected')
    BY <1>6, <2>1, <2>2, FlowStays
  <2> QED BY <2>3 DEF Flow
<1>11. CASE Begun(i)'
  <2>1. AwaitedRes(i)' = [of |-> i + 1, shown |-> Active(Due(i))]
    <3>1. Active(Ahead)' = Active(Ahead')
      BY DEF Active
    <3> QED BY <1>3, <1>11, <3>1 DEF AwaitedRes
  <2>2. refused = "no" => Model = Due(i)
    BY DEF Ticks, Follows, Agree
  <2>3. \A other : FlowOf(Piped', PipedRes', FALSE, other, refused # "no", Left)
    BY <1>8 DEF Behind
  <2>4. Piped' \in BOOLEAN
    BY DEF Piped
  <2>5. Awaits(i)' <=> OwnOf(Due(i), pkt[i + 1].body)
    BY <1>9, <1>11
  <2>6. FlowOf(Piped', PipedRes', Awaits(i)', [of |-> i + 1, shown |-> Active(Due(i))],
               refused' # "no", expected')
    BY <1>6, <1>11, <2>2, <2>3, <2>4, <2>5, FlowHears
  <2> QED BY <2>1, <2>6 DEF Flow
<1> QED BY <1>10, <1>11

LEMMA FlowRests ==
  ASSUME NEW v, NEW i, Ticks(v, i), ~v, NoWord(i) \/ (Idles /\ (Begun(i)' <=> Begun(i))), ~Hearing(v, i)
  PROVE  Flow(i)'
<1>1. Wired(pkt) /\ pkt' = pkt /\ v \in BOOLEAN /\ at \in Nat
  BY DEF Ticks
<1>2. Held' = Ahead
  BY TickFacts
<1>3. /\ Ahead' = Ahead /\ (Unpassed(i)' <=> Unpassed(i)) /\ (Begun(i)' <=> Begun(i))
  BY <1>1, <1>2, DueKept
<1>4. ~Promises(i)
  <2>1. Keeps
    BY DEF NoWord, Idles
  <2> QED BY <2>1, NotPromised
<1>5. Behind(i, Awaits(i), AwaitedRes(i))
  BY <1>4, FlowPipe
<1>6. Awaits(i)' \in BOOLEAN /\ Awaits(i) \in BOOLEAN
  BY DEF Awaits
<1>7. /\ Awaits(i)' <=> \/ Begun(i) /\ OwnOf(Ahead, pkt[i + 1].body)
                        \/ Unpassed(i) /\ OwnOf(Held', pkt[i].body)
      /\ Awaits(i) <=> \/ Begun(i) /\ OwnOf(Ahead, pkt[i + 1].body)
                       \/ Unpassed(i) /\ OwnOf(Held, pkt[i].body)
  BY <1>1, <1>3 DEF Awaits, AwaitsNext, AwaitsThis, OwnOf
<1>8. Awaits(i)' <=> Awaits(i)
  <2>1. CASE Unpassed(i)
    BY <1>7, <2>1, HeldStays
  <2>2. CASE ~Unpassed(i)
    BY <1>7, <2>2
  <2> QED BY <2>1, <2>2
<1>9. Awaits(i) => AwaitedRes(i) = AwaitedRes(i)'
  <2> SUFFICES ASSUME Awaits(i) PROVE AwaitedRes(i) = AwaitedRes(i)'
    OBVIOUS
  <2>1. Active(Ahead)' = Active(Ahead') /\ Active(Held)' = Active(Held')
    BY DEF Active
  <2>2. CASE Begun(i)
    BY <1>3, <2>1, <2>2 DEF AwaitedRes
  <2>3. CASE ~Begun(i)
    <3>1. Held' = Held
      BY <1>7, <2>3, HeldStays
    <3> QED BY <1>3, <2>1, <2>3, <3>1 DEF AwaitedRes
  <2> QED BY <2>2, <2>3
<1>10. FlowOf(Piped', PipedRes', Awaits(i)', AwaitedRes(i)', refused' # "no", expected')
  BY <1>5, <1>6, <1>8, <1>9, FlowStays
<1> QED BY <1>10 DEF Flow

(* The queue is what is on its way and what is awaited. *)
LEMMA FlowKept ==
  ASSUME NEW v, NEW i, Ticks(v, i), NEW j, Turns(v, i, j)
  PROVE  Flow(j)'
BY FlowBegins, FlowNext, FlowLast, FlowRests DEF Turns

----------------------------------------------------------------------------
(* A clock of a packet keeps the invariant.                                *)
LEMMA SettledKept ==
  ASSUME NEW v, NEW i, Ticks(v, i)
  PROVE  Settled'
<1>1. /\ Flags /\ Paced /\ Drained /\ Wired(pkt) /\ at \in Nat /\ Settled /\ Parsed(i)
      /\ v \in BOOLEAN /\ (v => at' = at + 1) /\ (at' = at \/ at' = at + 1)
      /\ pkt' = pkt /\ Hears(v, i)
  BY DEF Ticks
<1>2. /\ Pipe /\ BookSteps /\ Output /\ Taking(i) /\ Shaped'
      /\ Booked /\ DrainedBook
      /\ ~(at < WordsOf(pkt)) => Keeps /\ dec_ctrl_o' = NoCtrl
      /\ at < WordsOf(pkt) => at' <= WordsOf(pkt)
  BY TickFacts
<1>3. bbo_res_o'.valid = book_res_q.valid
  BY <1>2 DEF Output
<1>4. Booked'
  BY <1>1, <1>2, <1>3, BookedKept
<1>5. DrainedBook'
  BY <1>1, <1>2, DrainedBookKept
<1>6. Alone'
  BY FlowPipe
<1>7. ASSUME at' = 0 PROVE expected' = <<>>
  <2>1. at = 0 /\ ~v
    BY <1>1, <1>7
  <2>2. expected = <<>>
    BY <1>1, <2>1 DEF Settled
  <2>3. Left = <<>>
    BY <2>2 DEF Left
  <2> QED BY <1>1, <2>1, <2>3 DEF Hears, TakeNone
<1> QED BY <1>2, <1>4, <1>5, <1>6, <1>7 DEF Settled

LEMMA TickKept ==
  ASSUME NEW v, NEW i, Ticks(v, i)
  PROVE  FollowInv'
<1>1. /\ Flags /\ Paced /\ Wired(pkt) /\ at \in Nat /\ Parsed(i) /\ Follows(i)
      /\ v \in BOOLEAN /\ (v => at < WordsOf(pkt))
      /\ Clock(v, FALSE) /\ Hears(v, i)
  BY DEF Ticks
<1>2. failed' => refused' # "no"
  <2>1. Shaped /\ Booked
    BY TickFacts
  <2> QED BY <1>1, <2>1, Faultless
<1>3. ASSUME ~failed' PROVE \E j \in 0 .. Len(pkt') : Parsed(j)' /\ Follows(j)'
  <2>1. PICK j : Turns(v, i, j)
    BY <1>3, TickTurns
  <2>2. Parsed(j)'
    BY <2>1 DEF Turns
  <2>3. j \in 0 .. Len(pkt')
    BY <2>2 DEF Parsed
  <2>4. Right(j)' /\ Located(j)' /\ HalfOnly(j)' /\ Cleared(j)' /\ Flow(j)'
    BY <1>3, <2>1, RightKept, LocatedKept, HalfOnlyKept, ClearedKept, FlowKept
  <2>5. refused' = "no" => Agree(j)'
    BY <2>1, AgreeKept
  <2>6. refused' = "error" => Owed(j)'
    BY <1>3, <2>1, OwedKept
  <2>7. Follows(j)'
    BY <2>4, <2>5, <2>6 DEF Follows
  <2> QED BY <2>2, <2>3, <2>7
<1>4. Settled'
  BY SettledKept
<1> QED BY <1>2, <1>3, <1>4 DEF FollowInv

(* The clocks of a packet are such clocks. *)
LEMMA PacketTicks ==
  ASSUME IInv, FollowInv, Arrive \/ Gap \/ Rest
  PROVE  \E v, i : Ticks(v, i)
<1>1. ~failed
  BY DEF Arrive, Gap, Rest, Clock
<1>2. /\ Wired(pkt) /\ at \in Nat /\ Flags /\ Paced /\ Drained
  BY <1>1 DEF IInv, Holds
<1>3. PICK i \in 0 .. Len(pkt) : Settled /\ Parsed(i) /\ Follows(i)
  BY <1>1 DEF FollowInv
<1> DEFINE W == WordsOf(pkt)
<1>4. W \in Nat
  BY <1>2, PayloadFacts
<1>5. TRUE \in BOOLEAN /\ FALSE \in BOOLEAN
  OBVIOUS
<1>6. CASE Arrive
  <2>1. /\ at < W /\ Clock(TRUE, FALSE) /\ at' = at + 1 /\ pkt' = pkt
    BY <1>6 DEF Arrive
  <2>2. Answers(i)
    <3>1. CASE refused = "no"
      <4>1. Agree(i)
        BY <1>3, <3>1 DEF Follows
      <4>2. Begun(i) => Good(pkt[i + 1])
        BY <4>1 DEF Agree, Refusable, Malformed, Good
      <4> QED BY <1>2, <1>3, <1>6, <4>2, ArriveReads
    <3>2. CASE refused # "no"
      BY <1>6, <3>2 DEF Arrive, Answers
    <3> QED BY <3>1, <3>2
  <2>3. Hears(TRUE, i)
    BY <2>2 DEF Hears
  <2>4. Ticks(TRUE, i)
    BY <1>2, <1>3, <1>5, <2>1, <2>3 DEF Ticks
  <2> QED BY <2>4
<1>7. CASE Gap
  <2>1. Clock(FALSE, FALSE) /\ at' = at /\ pkt' = pkt /\ TakeNone
    BY <1>7 DEF Gap
  <2>2. Hears(FALSE, i)
    BY <2>1 DEF Hears
  <2>3. Ticks(FALSE, i)
    BY <1>2, <1>3, <1>5, <2>1, <2>2 DEF Ticks
  <2> QED BY <2>3
<1>8. CASE Rest
  <2>1. /\ Clock(FALSE, FALSE) /\ pkt' = pkt /\ TakeNone /\ at >= W
        /\ at' = at \/ at' = at + 1
    BY <1>8 DEF Rest
  <2>2. Hears(FALSE, i)
    BY <2>1 DEF Hears
  <2> HIDE DEF W
  <2>3. ~(at < W)
    BY <1>2, <1>4, <2>1
  <2>4. Ticks(FALSE, i)
    BY <1>2, <1>3, <1>5, <2>1, <2>2, <2>3 DEF Ticks, W
  <2> QED BY <2>4
<1> QED BY <1>6, <1>7, <1>8

----------------------------------------------------------------------------
(* Between packets.                                                        *)

Empty ==
  /\ ~dec_book_del_q.valid /\ ~dec_book_q.valid /\ ~dec_ctrl_o.valid
  /\ ~lookup.valid /\ ~dec_book_updt_q.valid /\ ~book_res_q.valid

(* Nothing but a result that leaves is on its way, and nothing has begun.  *)
Resting ==
  /\ ~failed /\ Empty /\ Shaped /\ Booked
  /\ refused # "error" /\ (refused = "no" => Model = Held)
  /\ Parsed(0) /\ ~Begun(0)
  /\ FlowOf(bbo_res_o.valid, PipedRes, FALSE, <<>>, refused # "no", expected)
  /\ at = 0 => expected = <<>>

LEMMA RestingFollows ==
  Resting => FollowInv
<1> SUFFICES ASSUME Resting PROVE FollowInv
  OBVIOUS
<1>1. Parsed(0) /\ ~Begun(0) /\ Empty /\ Shaped /\ Booked /\ ~failed
  BY DEF Resting
<1>2. 0 \in 0 .. Len(pkt) /\ ~(0 \in 1 .. Len(pkt))
  BY <1>1 DEF Parsed
<1>3. ~InMsg(0) /\ ~Unpassed(0) /\ \A types : ~OfType(0, types)
  BY <1>2 DEF InMsg, Unpassed, OfType
<1>4. DrainedBook /\ Alone
  BY <1>1 DEF Empty, DrainedBook, Slow, Alone, InLookup, InBook, InDel
<1>5. Settled
  BY <1>1, <1>4 DEF Settled, Resting
<1>6. Right(0) /\ Located(0) /\ HalfOnly(0) /\ Cleared(0)
  BY <1>2, <1>3 DEF Right, Located, HalfOnly, Cleared
<1>7. Flow(0)
  <2>1. Piped = bbo_res_o.valid
    BY <1>1 DEF Piped, InDel, InBook, InLookup, Empty, Booked
  <2>2. Awaits(0) = FALSE
    BY <1>1, <1>3 DEF Awaits, AwaitsNext, AwaitsThis
  <2>3. FlowOf(bbo_res_o.valid, PipedRes, FALSE, <<>>, refused # "no", expected)
    BY DEF Resting
  <2>4. FlowOf(bbo_res_o.valid, PipedRes, FALSE, AwaitedRes(0), refused # "no", expected)
    BY <2>3 DEF FlowOf
  <2> QED BY <2>1, <2>2, <2>4 DEF Flow
<1>8. refused = "no" => Agree(0)
  <2> SUFFICES ASSUME refused = "no" PROVE Agree(0)
    OBVIOUS
  <2>1. Ahead = Held
    BY <1>1, AheadIs DEF Empty
  <2>2. Model = Due(0)
    BY <1>1, <1>3, <2>1 DEF Due, Resting
  <2> QED BY <1>1, <1>3, <2>2 DEF Agree, Empty
<1>9. Follows(0)
  BY <1>6, <1>7, <1>8 DEF Follows, Resting
<1> QED BY <1>1, <1>2, <1>5, <1>9 DEF FollowInv

(* A packet's last bytes have left. *)
LEMMA Over ==
  ASSUME IInv, FollowInv, ~failed, at = WordsOf(pkt) + 4
  PROVE  /\ Flags /\ Paced /\ Wired(pkt) /\ at \in Nat /\ at >= WordsOf(pkt) /\ WordsOf(pkt) \in Nat
         /\ Empty /\ Shaped /\ Booked /\ state_q = "IDLE" /\ bytes_left_q = 0
         /\ refused # "error" /\ (refused = "no" => Model = Held)
         /\ FlowOf(bbo_res_o.valid, PipedRes, FALSE, <<>>, refused # "no", expected)
         /\ \E i \in 0 .. Len(pkt) : Parsed(i) /\ Right(i) /\ Cleared(i)
<1> DEFINE W == WordsOf(pkt)
<1>1. Flags /\ Drained /\ Paced /\ Wired(pkt) /\ at \in Nat
  BY DEF IInv, Holds
<1>2. PICK i \in 0 .. Len(pkt) : Settled /\ Parsed(i) /\ Follows(i)
  BY DEF FollowInv
<1>3. W \in Nat
  BY <1>1, PayloadFacts
<1>4. at > W /\ at > W + 1 /\ at > W + 2 /\ at > W + 3 /\ at >= W /\ ~(at < W)
  <2>1. at = W + 4
    OBVIOUS
  <2> HIDE DEF W
  <2> QED BY ONLY <1>3, <2>1
<1>5. Empty
  BY <1>1, <1>2, <1>4 DEF Drained, DrainedBook, Settled, Empty
<1>6. i = Len(pkt) /\ state_q = "IDLE" /\ bytes_left_q = 0
  BY <1>2, <1>4 DEF Parsed, Stands
<1>7. ~Begun(i) /\ ~Unpassed(i)
  <2>1. i + 1 \notin 1 .. Len(pkt)
    BY <1>1, <1>6 DEF Wired
  <2>2. ~InMsg(i)
    BY <1>6, NotIdle
  <2> QED BY <2>1, <2>2 DEF Begun, Unpassed
<1>8. Ahead = Held
  BY <1>5, AheadIs DEF Empty
<1>9. refused = "no" => Model = Held
  <2>1. Due(i) = Held
    BY <1>7, <1>8 DEF Due
  <2> QED BY <1>2, <2>1 DEF Follows, Agree
<1>10. refused # "error"
  BY <1>2, <1>5, <1>7 DEF Follows, Owed, Empty
<1>11. FlowOf(bbo_res_o.valid, PipedRes, FALSE, <<>>, refused # "no", expected)
  <2>1. Piped = bbo_res_o.valid
    BY <1>2, <1>5 DEF Piped, InDel, InBook, InLookup, Empty, Settled, Booked
  <2>2. Awaits(i) = FALSE
    BY <1>7 DEF Awaits, AwaitsNext, AwaitsThis
  <2>3. FlowOf(bbo_res_o.valid, PipedRes, FALSE, AwaitedRes(i), refused # "no", expected)
    BY <1>2, <2>1, <2>2 DEF Follows, Flow
  <2> QED BY <2>3 DEF FlowOf
<1> QED BY <1>1, <1>2, <1>3, <1>4, <1>5, <1>6, <1>9, <1>10, <1>11 DEF Settled, Follows

LEMMA BetweenOver ==
  ASSUME Between
  PROVE  pkt = <<>> /\ Len(pkt) = 0 /\ WordsOf(pkt) = 0 /\ at = WordsOf(pkt) + 4
<1>1. pkt = <<>> /\ Len(pkt) = 0 /\ at = 4
  BY DEF Between, DRAIN
<1>2. Start(pkt, Len(pkt) + 1) = 0
  BY <1>1, StartFirst
<1>3. WordsOf(pkt) = 0
  BY <1>2 DEF WordsOf, Payload
<1> QED BY <1>1, <1>3

(* A clock between packets: nothing comes, and nothing is left.            *)
LEMMA ClockBetween ==
  ASSUME IInv, FollowInv, Between, NEW init_v \in BOOLEAN, Clock(FALSE, init_v)
  PROVE  /\ Empty' /\ bbo_res_o'.valid = FALSE /\ Shaped' /\ Booked' /\ ~failed' /\ state_q' = "IDLE"
         /\ Held' = [Held EXCEPT !.init = Held.init \/ init_v]
         /\ Left = <<>>
<1>0. ~failed /\ at = WordsOf(pkt) + 4
  BY BetweenOver DEF Clock
<1>1. /\ Flags /\ Paced /\ Wired(pkt) /\ at \in Nat /\ Empty /\ Shaped /\ Booked /\ state_q = "IDLE"
      /\ FlowOf(bbo_res_o.valid, PipedRes, FALSE, <<>>, refused # "no", expected)
  BY <1>0, Over
<1>2. PICK i \in 0 .. Len(pkt) : Parsed(i) /\ Right(i) /\ Cleared(i)
  BY <1>0, Over
<1>3. /\ Pipe /\ ControlClock(init_v, dec_ctrl(pkt)) /\ failed' = error_o(pkt)
      /\ ItchClock(pkt, at, FALSE, FALSE /\ at + 1 = WordsOf(pkt), stock_locate_q)
  BY <1>1, PipeMoves
<1>4. Keeps /\ dec_ctrl_o' = NoCtrl
  <2>1. FALSE \in BOOLEAN
    OBVIOUS
  <2> QED BY <1>1, <1>2, <2>1, ClockKinds
<1>5. Taking(i)
  BY <1>4 DEF Taking
<1>6. PICK refills \in {FALSE, TakesShares(bbo_dec_book)} : BookTime(refills) /\ Output
  BY DEF Clock, TopClock
<1>7. BookSteps /\ Still
  <2>1. BookSteps
    BY <1>1, <1>6, BookMoves DEF BookSteps
  <2> QED BY <1>1, <2>1 DEF BookSteps, Frees, Looks, Waits, Empty
<1>8. bbo_res_o'.valid = book_res_q.valid
  BY <1>6 DEF Output
<1>9. Booked'
  BY <1>1, <1>2, <1>3, <1>5, <1>7, <1>8, BookedKept
<1>10. Empty'
  <2>1. ~dec_book_del_q'.valid /\ ~dec_book_q'.valid /\ ~lookup'.valid /\ ~dec_ctrl_o'.valid
    BY <1>1, <1>3, <1>4, KeepsPasses DEF NoCtrl, Empty
  <2>2. ~dec_book_updt_q'.valid /\ ~book_res_q'.valid
    BY <1>1, <1>7, ResFacts
  <2> QED BY <2>1, <2>2 DEF Empty
<1>11. bbo_res_o'.valid = FALSE
  BY <1>1, <1>8 DEF Empty, Booked
<1>12. dec_ctrl(pkt) = NoMsg /\ NoMsg.kind = "NONE"
  BY <1>1 DEF dec_ctrl, NoMsg, Empty
<1>13. Held' = [Held EXCEPT !.init = Held.init \/ init_v] /\ Shaped'
  <2>1. Applied(Held, NoMsg) = Held
    BY <1>12, HeldIs, Unmoved
  <2> QED BY <1>1, <1>3, <1>12, <2>1, HeldMoves
<1>14. state_q' = "IDLE" /\ ip_error' = FALSE
  BY <1>1, <1>3 DEF ItchClock
<1>15. ~failed'
  <2>1. error_o(pkt) <=> ip_error' \/ Blamed
    BY <1>1, <1>2, Blames
  <2>2. ~Blamed
    BY <1>1 DEF Blamed, Empty
  <2> QED BY <1>3, <1>14, <2>1, <2>2
<1>16. Left = <<>>
  <2>1. CASE bbo_res_o.valid
    <3>1. expected = <<PipedRes>> \/ expected = <<>>
      BY <1>1, <2>1 DEF FlowOf
    <3>2. Tail(<<PipedRes>>) = <<>>
      OBVIOUS
    <3> QED BY <2>1, <3>1, <3>2 DEF Left
  <2>2. CASE ~bbo_res_o.valid
    <3>1. expected = <<>>
      BY <1>1, <2>2 DEF FlowOf
    <3> QED BY <3>1 DEF Left
  <2> QED BY <2>1, <2>2
<1> QED BY <1>9, <1>10, <1>11, <1>13, <1>14, <1>15, <1>16

LEMMA FirstWord ==
  \A i : at = 0 /\ Wired(pkt) /\ Parsed(i) => i = 0
<1> SUFFICES ASSUME NEW i, at = 0, Wired(pkt), Parsed(i) PROVE i = 0
  OBVIOUS
<1>1. i \in 0 .. Len(pkt) /\ Stands(i) /\ Len(pkt) \in Nat
  BY DEF Parsed, Wired
<1>2. CASE at < WordsOf(pkt) /\ InMsg(i)
  <2> DEFINE s == Start(pkt, i)
  <2>1. s \in Nat /\ s + 4 <= 4 * 0
    BY <1>2, InMsgFacts DEF InMsg
  <2> HIDE DEF s
  <2> QED BY ONLY <2>1
<1>3. CASE at < WordsOf(pkt) /\ AtBorder(i)
  <2>1. End(i) <= 4 * 0
    BY <1>3 DEF AtBorder
  <2> SUFFICES ASSUME i # 0 PROVE FALSE
    OBVIOUS
  <2>2. i \in 1 .. Len(pkt) /\ i \in 1 .. Len(pkt) + 1
    BY <1>1
  <2> DEFINE s == Start(pkt, i)
             l == pkt[i].len
             e == End(i)
  <2>3. s \in Nat /\ l \in Nat /\ e = s + l + 2 /\ e <= 4 * 0
    BY <2>1, <2>2, BytesFinite, MsgFacts, StartNext DEF End
  <2> HIDE DEF s, l, e
  <2> QED BY ONLY <2>3
<1>4. CASE at >= WordsOf(pkt) /\ i = Len(pkt)
  <2> DEFINE W == WordsOf(pkt)
  <2>1. W \in Nat /\ 0 >= W
    BY <1>4, PayloadFacts
  <2> HIDE DEF W
  <2>2. W = 0
    BY ONLY <2>1
  <2> QED BY <1>4, <2>2, EmptyPayload DEF W
<1> QED BY <1>1, <1>2, <1>3, <1>4 DEF Stands

LEMMA FirstWordNext ==
  (\A i : at = 0 /\ Wired(pkt) /\ Parsed(i) => i = 0)'
BY FirstWord, PTL

LEMMA RestingNext ==
  Resting' => FollowInv'
BY RestingFollows, PTL

LEMMA NextParsed ==
  ASSUME IInv, [Next]_vars, ~failed'
  PROVE  Wired(pkt)' /\ \E i \in 0 .. Len(pkt') : Parsed(i)'
BY NextHolds DEF IInv, Holds

LEMMA EmptyFlow ==
  \A first, free : FlowOf(FALSE, first, FALSE, <<>>, free, <<>>)
BY DEF FlowOf

LEMMA InitSet ==
  ASSUME NEW h, IsHeld(h), NEW x
  PROVE  [h EXCEPT !.init = x] = [init |-> x, msg |-> h.msg, sys |-> h.sys, mkt |-> h.mkt,
                                  halt |-> h.halt, market |-> h.market, locate |-> h.locate]
BY DEF IsHeld

(* The steps between packets. *)
LEMMA InitializeFollows ==
  ASSUME IInv, FollowInv, Initialize
  PROVE  FollowInv'
<1>1. /\ Between /\ Clock(FALSE, TRUE) /\ Ctrl!InitParams /\ expected' = Left
      /\ pkt' = pkt /\ at' = at /\ refused' = refused /\ pkt = <<>> /\ at = 4
  BY DEF Initialize, Between, DRAIN
<1>2. TRUE \in BOOLEAN
  OBVIOUS
<1>3. /\ Empty' /\ bbo_res_o'.valid = FALSE /\ Shaped' /\ Booked' /\ ~failed' /\ state_q' = "IDLE"
      /\ Held' = [Held EXCEPT !.init = Held.init \/ TRUE]
      /\ Left = <<>>
  BY <1>1, <1>2, ClockBetween
<1>4. refused # "error" /\ (refused = "no" => Model = Held)
  BY <1>1, BetweenOver, Over DEF Clock
<1>5. Model' = [Model EXCEPT !.init = TRUE]
  <2>1. /\ initialized' = TRUE /\ msg_hours' = msg_hours /\ sys_hours' = sys_hours /\ mkt_hours' = mkt_hours
        /\ stock_halt' = stock_halt /\ market_halt' = market_halt /\ ctrl_locate' = ctrl_locate
    BY <1>1 DEF Ctrl!InitParams
  <2>2. IsHeld(Model)
    BY DEF IsHeld, Model
  <2>3. [Model EXCEPT !.init = TRUE] =
          [init |-> TRUE, msg |-> Model.msg, sys |-> Model.sys, mkt |-> Model.mkt,
           halt |-> Model.halt, market |-> Model.market, locate |-> Model.locate]
    BY <2>2, InitSet
  <2> QED BY <2>1, <2>3 DEF Model
<1>6. refused' = "no" => Model' = Held'
  <2>1. Held' = [Held EXCEPT !.init = TRUE]
    BY <1>3
  <2> QED BY <1>1, <1>4, <1>5, <2>1
<1>7. Parsed(0)'
  <2>1. PICK i \in 0 .. Len(pkt') : Parsed(i)'
    BY <1>3, NextParsed DEF Next
  <2>2. i = 0
    BY <1>1, <2>1
  <2> QED BY <2>1, <2>2
<1>8. ~Begun(0)'
  <2>1. Len(pkt') = 0
    BY <1>1
  <2> QED BY <2>1 DEF Begun
<1>9. FlowOf(bbo_res_o'.valid, PipedRes', FALSE, <<>>, refused' # "no", expected')
  BY <1>1, <1>3, EmptyFlow
<1>10. Resting'
  BY <1>1, <1>3, <1>4, <1>6, <1>7, <1>8, <1>9 DEF Resting
<1> QED BY <1>10, RestingNext

LEMMA SendFollows ==
  ASSUME IInv, FollowInv, Send
  PROVE  FollowInv'
<1>1. /\ Between /\ Clock(FALSE, FALSE) /\ expected' = Left /\ refused' = refused /\ Model' = Model
      /\ at' = 0
  BY DEF Send, TakeNone, Model, model_vars
<1>2. FALSE \in BOOLEAN
  OBVIOUS
<1>3. /\ Empty' /\ bbo_res_o'.valid = FALSE /\ Shaped' /\ Booked' /\ ~failed' /\ state_q' = "IDLE"
      /\ Held' = [Held EXCEPT !.init = Held.init \/ FALSE]
      /\ Left = <<>>
  BY <1>1, <1>2, ClockBetween
<1>4. refused # "error" /\ (refused = "no" => Model = Held) /\ Shaped
  BY <1>1, BetweenOver, Over DEF Clock
<1>5. Held' = Held
  <2>1. Held.init \in BOOLEAN
    BY <1>4 DEF Held, Shaped
  <2>2. [Held EXCEPT !.init = Held.init] = Held
    BY HeldIs DEF Held
  <2> QED BY <1>3, <2>1, <2>2
<1>6. Parsed(0)'
  <2>1. PICK i \in 0 .. Len(pkt') : Parsed(i)'
    BY <1>3, NextParsed DEF Next
  <2>2. Wired(pkt)'
    BY <1>3, NextParsed DEF Next
  <2>3. i = 0
    BY <1>1, <2>1, <2>2, FirstWordNext
  <2> QED BY <2>1, <2>3
<1>7. ~Begun(0)'
  <2>1. Start(pkt', 0 + 1) = 0
    BY StartFirst
  <2>2. ~(Start(pkt', 0 + 1) < 4 * at')
    BY <1>1, <2>1
  <2> QED BY <2>2 DEF Begun
<1>8. FlowOf(bbo_res_o'.valid, PipedRes', FALSE, <<>>, refused' # "no", expected')
  BY <1>1, <1>3, EmptyFlow
<1>9. Resting'
  BY <1>1, <1>3, <1>4, <1>5, <1>6, <1>7, <1>8 DEF Resting
<1> QED BY <1>9, RestingNext

LEMMA ForgetFollows ==
  ASSUME IInv, FollowInv, Forget
  PROVE  FollowInv'
<1>1. /\ ~failed /\ at = WordsOf(pkt) + 4 /\ pkt' = <<>> /\ at' = 4
      /\ dec_book_q' = [dec_book_q EXCEPT !.order_id = NoByte]
      /\ dec_ctrl_o' = dec_ctrl_o /\ dec_book_del_q' = dec_book_del_q
      /\ lookup' = lookup /\ updt_left' = updt_left /\ dec_book_updt_q' = dec_book_updt_q
      /\ book_res_q' = book_res_q /\ bbo_res_o' = bbo_res_o
      /\ quiet' = quiet /\ failed' = failed /\ refused' = refused /\ expected' = expected
      /\ Held' = Held /\ Model' = Model
      /\ initialized_q' = initialized_q /\ stock_locate_q' = stock_locate_q
      /\ stock_active_o' = stock_active_o
  BY DEF Forget, book_time, DRAIN, ctrl_regs, Held, model_vars, Model, stock_active_o
<1>2. /\ Flags /\ Empty /\ Shaped /\ Booked
      /\ refused # "error" /\ (refused = "no" => Model = Held)
      /\ FlowOf(bbo_res_o.valid, PipedRes, FALSE, <<>>, refused # "no", expected)
  BY <1>1, Over
<1>3. dec_book_q'.valid = dec_book_q.valid
  BY <1>1, <1>2 DEF Flags
<1>4. Empty' /\ Shaped'
  BY <1>1, <1>2, <1>3 DEF Empty, Shaped
<1>5. Booked'
  BY <1>1, <1>2, <1>3 DEF Booked, Empty
<1>6. Parsed(0)'
  <2>1. PICK i \in 0 .. Len(pkt') : Parsed(i)'
    BY <1>1, NextParsed DEF Next
  <2>2. i = 0
    BY <1>1, <2>1
  <2> QED BY <2>1, <2>2
<1>7. ~Begun(0)'
  <2>1. Len(pkt') = 0
    BY <1>1
  <2> QED BY <2>1 DEF Begun
<1>8. FlowOf(bbo_res_o'.valid, PipedRes', FALSE, <<>>, refused' # "no", expected')
  <2>1. CASE bbo_res_o.valid
    <3>1. PipedOf = bbo_res_o.of /\ PipedOf' = bbo_res_o'.of
      <4>1. Alone /\ Alone'
        BY <1>2, <1>4 DEF Alone, Empty, InLookup, InBook, InDel
      <4> QED BY <1>1, <2>1, <4>1, PipedOfIs, PipedOfNext
    <3>2. PipedRes' = PipedRes
      BY <1>1, <2>1, <3>1 DEF PipedRes
    <3> QED BY <1>1, <1>2, <3>2
  <2>2. CASE ~bbo_res_o.valid
    <3>1. expected = <<>>
      BY <1>2, <2>2 DEF FlowOf
    <3>2. bbo_res_o'.valid = FALSE
      BY <1>1, <1>2, <2>2 DEF Booked
    <3> QED BY <1>1, <3>1, <3>2, EmptyFlow
  <2> QED BY <2>1, <2>2
<1>9. ~failed' /\ refused' # "error" /\ (refused' = "no" => Model' = Held') /\ at' # 0
  BY <1>1, <1>2
<1>10. Resting'
  BY ONLY <1>4, <1>5, <1>6, <1>7, <1>8, <1>9 DEF Resting
<1> QED BY <1>10, RestingNext

LEMMA InitFollows ==
  ASSUME Init
  PROVE  FollowInv
<1>1. /\ dec_ctrl_o = NoCtrl /\ dec_book_del_q = NoBook /\ dec_book_q = NoBook
      /\ lookup = NoLookup /\ updt_left = 0 /\ dec_book_updt_q = NoLookup /\ book_res_q = NoRes
      /\ bbo_res_o.valid = FALSE /\ state_q = "IDLE"
      /\ pkt = <<>> /\ at = 4 /\ refused = "no" /\ expected = <<>> /\ failed = FALSE
  BY DEF Init, InitRtlTop, InitRtlItch, DRAIN
<1>2. /\ Held = [init |-> FALSE, msg |-> FALSE, sys |-> FALSE, mkt |-> FALSE,
                 halt |-> TRUE, market |-> FALSE, locate |-> NoLocate]
      /\ Shaped
  BY DEF Init, InitRtlTop, InitRtlControl, Held, Shaped
<1>3. Model = Held
  BY <1>2 DEF Init, Ctrl!InitControl, Model, NoLocate, Ctrl!NoLocate
<1>4. Empty
  BY <1>1 DEF Empty, NoCtrl, NoBook, NoLookup, NoRes
<1>5. Booked
  <2>1. NoLookup.valid = FALSE /\ NoRes.valid = FALSE /\ NoBook.valid = FALSE
    BY DEF NoLookup, NoRes, NoBook
  <2>2. /\ updt_left = 0 /\ dec_book_updt_q.valid = FALSE /\ lookup.valid = FALSE
        /\ dec_book_q.valid = FALSE /\ book_res_q.valid = FALSE /\ bbo_res_o.valid = FALSE
    BY <1>1, <2>1
  <2>3. updt_left \in 0 .. 3 /\ ~(updt_left > 0)
    BY <2>2
  <2>4. /\ book_res_q.valid \in BOOLEAN /\ bbo_res_o.valid \in BOOLEAN
        /\ dec_book_updt_q.valid \in BOOLEAN
    BY <2>2
  <2> QED BY ONLY <2>2, <2>3, <2>4 DEF Booked
<1>6. Len(pkt) = 0
  BY <1>1
<1>7. Parsed(0)
  <2>1. PICK i \in 0 .. Len(pkt) : Parsed(i)
    BY <1>1, InitHolds DEF IInv, Holds
  <2>2. i = 0
    BY <1>6, <2>1
  <2> QED BY <2>1, <2>2
<1>8. ~Begun(0)
  BY <1>6 DEF Begun
<1>9. FlowOf(bbo_res_o.valid, PipedRes, FALSE, <<>>, refused # "no", expected)
  BY <1>1, EmptyFlow
<1>10. Resting
  BY <1>1, <1>2, <1>3, <1>4, <1>5, <1>7, <1>8, <1>9 DEF Resting
<1> QED BY <1>10, RestingFollows

LEMMA StutterFollows ==
  ASSUME FollowInv, UNCHANGED vars
  PROVE  FollowInv'
<1>1. /\ pkt' = pkt /\ at' = at /\ quiet' = quiet /\ failed' = failed
      /\ refused' = refused /\ expected' = expected
      /\ state_q' = state_q /\ bytes_left_q' = bytes_left_q /\ msg_alt_q' = msg_alt_q
      /\ match_locate_q' = match_locate_q /\ dec_ctrl_o' = dec_ctrl_o
      /\ dec_book_del_q' = dec_book_del_q /\ dec_book_q' = dec_book_q
      /\ lookup' = lookup /\ updt_left' = updt_left /\ dec_book_updt_q' = dec_book_updt_q
      /\ book_res_q' = book_res_q /\ bbo_res_o' = bbo_res_o
      /\ initialized_q' = initialized_q /\ stock_locate_q' = stock_locate_q
      /\ Held' = Held /\ Model' = Model /\ stock_active_o' = stock_active_o
  BY DEF vars, top_regs, itch_regs, ctrl_regs, book_time, model_vars, Held, Model, stock_active_o
<1>2. CASE failed
  BY <1>1, <1>2 DEF FollowInv
<1>3. CASE ~failed
  <2>1. PICK i \in 0 .. Len(pkt) : Settled /\ Parsed(i) /\ Follows(i)
    BY <1>3 DEF FollowInv
  <2>2. Parsed(i)' /\ i \in 0 .. Len(pkt')
    BY <1>1, <2>1, ParsedStays
  <2>3. /\ InMsg(i)' = InMsg(i) /\ words_left' = words_left
        /\ (\A types : OfType(i, types)' = OfType(i, types)) /\ OwnBody(i)' = OwnBody(i)
        /\ (\A n : Within(i, n)' = Within(i, n))
    <3>1. InMsg(i)' = InMsg(i) /\ words_left' = words_left
      BY <1>1, Stays
    <3> QED BY <1>1, <3>1 DEF OfType, OwnBody, Within
  <2>4. Begun(i)' = Begun(i) /\ Unpassed(i)' = Unpassed(i)
    BY <1>1, <2>3 DEF Begun, Unpassed
  <2>5. dec_ctrl(pkt)' = dec_ctrl(pkt)
    BY <1>1 DEF dec_ctrl
  <2>6. Ahead' = Ahead
    BY <1>1, <2>5 DEF Ahead
  <2>7. Due(i)' = Due(i)
    BY <1>1, <2>4, <2>6 DEF Due
  <2>8. /\ InDel' = InDel /\ InBook' = InBook /\ InLookup' = InLookup
        /\ PipedOf' = PipedOf
    <3>1. InDel' = InDel /\ InBook' = InBook /\ InLookup' = InLookup
      BY <1>1 DEF InDel, InBook, InLookup
    <3> QED BY <1>1, <3>1 DEF PipedOf
  <2>9. Piped' = Piped /\ PipedRes' = PipedRes
    BY <1>1, <2>8 DEF Piped, PipedRes
  <2>10. Awaits(i)' = Awaits(i) /\ AwaitedRes(i)' = AwaitedRes(i)
    <3>1. Active(Ahead)' = Active(Ahead') /\ Active(Held)' = Active(Held')
      BY DEF Active
    <3>2. AwaitedRes(i)' = AwaitedRes(i)
      BY <1>1, <2>4, <2>6, <3>1 DEF AwaitedRes
    <3>3. Awaits(i)' = Awaits(i)
      BY <1>1, <2>4, <2>6 DEF Awaits, AwaitsNext, AwaitsThis, OwnOf
    <3> QED BY <3>2, <3>3
  <2>11. Flow(i)'
    BY <1>1, <2>1, <2>9, <2>10 DEF Follows, Flow
  <2>12. Right(i)' /\ Located(i)' /\ HalfOnly(i)' /\ Cleared(i)'
    <3>1. Slow' = Slow
      BY <1>1 DEF Slow
    <3> QED BY <1>1, <2>1, <2>3, <2>8, <3>1 DEF Follows, Right, Located, HalfOnly, Cleared
  <2>13. refused' = "no" => Agree(i)'
    BY <1>1, <2>1, <2>3, <2>4, <2>5, <2>6, <2>7 DEF Follows, Agree
  <2>14. refused' = "error" => Owed(i)'
    BY <1>1, <2>1, <2>4, <2>5, <2>6 DEF Follows, Owed
  <2>15. Follows(i)'
    BY <2>11, <2>12, <2>13, <2>14 DEF Follows
  <2>16. Settled'
    <3>1. Shaped' /\ Booked'
      BY <1>1, <2>1 DEF Settled, Shaped, Booked
    <3>2. DrainedBook'
      BY <1>1, <2>1 DEF Settled, DrainedBook, Slow
    <3>3. Alone'
      BY <1>1, <2>1, <2>8 DEF Settled, Alone
    <3> QED BY <1>1, <2>1, <3>1, <3>2, <3>3 DEF Settled
  <2> QED BY <1>1, <1>3, <2>2, <2>15, <2>16 DEF FollowInv
<1> QED BY <1>2, <1>3

(* Every step keeps the hardware and the reference together. *)
LEMMA NextFollows ==
  ASSUME IInv, FollowInv, [Next]_vars
  PROVE  FollowInv'
<1>1. CASE Initialize
  BY <1>1, InitializeFollows
<1>2. CASE Send
  BY <1>2, SendFollows
<1>3. CASE Arrive \/ Gap \/ Rest
  <2>1. PICK v, i : Ticks(v, i)
    BY <1>3, PacketTicks
  <2> QED BY <2>1, TickKept
<1>4. CASE Forget
  BY <1>4, ForgetFollows
<1>5. CASE UNCHANGED vars
  BY <1>5, StutterFollows
<1> QED BY <1>1, <1>2, <1>3, <1>4, <1>5 DEF Next

LEMMA Following ==
  Spec => [](IInv /\ FollowInv)
<1>1. Init => IInv /\ FollowInv
  BY InitHolds, InitFollows
<1>2. IInv /\ FollowInv /\ [Next]_vars => (IInv /\ FollowInv)'
  BY NextHolds, NextFollows
<1> QED BY <1>1, <1>2, PTL DEF Spec

(* The hardware reports an error in a packet the reference refuses, and in *)
(* no other: what the parser and Control find wrong with a message         *)
(* (itch_parser.sv, control.sv), and the order they find it in, is what    *)
(* the reference finds wrong with it.                                      *)
THEOREM NoFalseAlarmTheorem ==
  Spec => []NoFalseAlarm
<1>1. FollowInv => NoFalseAlarm
  BY DEF FollowInv, NoFalseAlarm
<1> QED BY <1>1, Following, PTL

(* It never keeps an error to itself: a packet the reference refuses, for  *)
(* what the hardware looks at too, is not over without one, even when the  *)
(* message at fault is the last and its bytes have left the parser.        *)
THEOREM NoErrorMissedTheorem ==
  Spec => []NoErrorMissed
<1>1. IInv /\ FollowInv => NoErrorMissed
  <2> SUFFICES ASSUME IInv, FollowInv, Between, ~failed PROVE refused # "error"
    BY DEF NoErrorMissed
  <2> QED BY BetweenOver, Over
<1> QED BY <1>1, Following, PTL

(* Between packets Control of the hardware, which gets each message some   *)
(* clocks after its last field, holds what Control of the reference does,  *)
(* which got it with its first byte (control.sv, control.py).              *)
THEOREM ControlTheorem ==
  Spec => []ControlAgrees
<1>1. IInv /\ FollowInv => ControlAgrees
  <2> SUFFICES ASSUME IInv, FollowInv, Between, refused = "no", ~failed
               PROVE  /\ initialized_q = initialized
                      /\ <<msg_hours_q, system_hours_q, market_hours_q>> = <<msg_hours, sys_hours, mkt_hours>>
                      /\ <<stock_halt_q, market_halt_q>> = <<stock_halt, market_halt>>
                      /\ stock_locate_q = [valid |-> ctrl_locate # NoLocate, stock_locate |-> ctrl_locate]
    BY DEF ControlAgrees
  <2>1. Model = Held /\ Shaped
    BY BetweenOver, Over
  <2>2. /\ initialized_q = initialized
        /\ msg_hours_q = msg_hours /\ system_hours_q = sys_hours /\ market_hours_q = mkt_hours
        /\ stock_halt_q = stock_halt /\ market_halt_q = market_halt
        /\ stock_locate_q.stock_locate = ctrl_locate
    BY <2>1 DEF Model, Held
  <2>3. stock_locate_q = [valid |-> stock_locate_q.stock_locate # NoLocate,
                          stock_locate |-> stock_locate_q.stock_locate]
    BY <2>1 DEF Shaped
  <2> QED BY <2>2, <2>3
<1> QED BY <1>1, Following, PTL

(* However long the book takes for a message and whatever comes behind it, *)
(* each result leaves in its turn, is shown or hidden as the reference     *)
(* shows or hides it, and has left before the next packet's first word     *)
(* (book.sv, top.sv; TopMonitor._process_cycle compares them).             *)
THEOREM ResultsTheorem ==
  Spec => []ResultsMatch
<1>1. FollowInv => ResultsMatch
  <2> SUFFICES ASSUME FollowInv, ~failed
               PROVE  /\ bbo_res_o.valid /\ refused = "no" => expected # <<>>
                      /\ bbo_res_o.valid /\ expected # <<>> =>
                           bbo_res_o.of = Head(expected).of /\ bbo_res_o.shown = Head(expected).shown
                      /\ at = 0 => expected = <<>>
    BY DEF ResultsMatch
  <2>1. PICK i : Settled /\ Flow(i)
    BY DEF FollowInv, Follows
  <2>2. ASSUME bbo_res_o.valid
        PROVE  /\ refused = "no" => expected # <<>>
               /\ expected # <<>> =>
                    bbo_res_o.of = Head(expected).of /\ bbo_res_o.shown = Head(expected).shown
    <3>1. Piped
      BY <2>2 DEF Piped
    <3>2. PipedRes = [of |-> bbo_res_o.of, shown |-> bbo_res_o.shown]
      <4>1. PipedOf = bbo_res_o.of
        BY <2>1, <2>2, PipedOfIs DEF Settled
      <4> QED BY <2>2, <4>1 DEF PipedRes
    <3> DEFINE first == PipedRes
               second == AwaitedRes(i)
    <3>3. \/ expected = <<first, second>>
          \/ expected = <<first>>
          \/ expected = <<>> /\ refused # "no"
      BY <2>1, <3>1 DEF Flow, FlowOf
    <3>4. first.of = bbo_res_o.of /\ first.shown = bbo_res_o.shown
      BY <3>2
    <3> HIDE DEF first, second
    <3>5. /\ <<first, second>> # <<>> /\ Head(<<first, second>>) = first
          /\ <<first>> # <<>> /\ Head(<<first>>) = first
      OBVIOUS
    <3> QED BY <3>3, <3>4, <3>5
  <2> QED BY <2>1, <2>2 DEF Settled
<1> QED BY <1>1, Following, PTL
=============================================================================
