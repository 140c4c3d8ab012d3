------------------------------ MODULE RtlMold ------------------------------
(***************************************************************************)
(* The hardware MoldUDP64 parser (rtl/module/moldudp64_parser.sv), word by *)
(* word.  It compares the five header words with what it expects as they   *)
(* arrive, reads the length of each message to find the next one, and      *)
(* passes every payload word on.  It only reports errors: it never drops a *)
(* word because of one.                                                    *)
(*                                                                         *)
(* A header word is two halves, a payload word four bytes.  A sequence     *)
(* number is spread over three words: its low 16, its middle 32 and its    *)
(* top 16 bits, of which SEQ_LOW and SEQ_MID here are the ranges.          *)
(***************************************************************************)
EXTENDS Integers, Sequences

CONSTANTS SEQ_LOW,  \* numbers before the low part of a sequence number is zero again
          SEQ_MID   \* the same for its middle part

ASSUME SeqPartsAssumption == SEQ_LOW \in Nat \ {0, 1} /\ SEQ_MID \in Nat \ {0}

VARIABLES state_q,
          session_id_q,      \* five halves
          compare_q,         \* the word the next header word must be
          seq_expect_q,
          msg_left_q,        \* messages of the packet whose length is unread
          bytes_left_q,      \* bytes left of the message, plus one
          first_pkt_flag_q,
          ip_data_v_o,       \* a payload word is passed on
          np_error           \* an error was reported with the last word

mold_regs == <<state_q, session_id_q, compare_q, seq_expect_q, msg_left_q,
               bytes_left_q, first_pkt_flag_q, ip_data_v_o, np_error>>

States == {"IDLE", "SESSION_1", "SESSION_2", "SEQ_NUM_1", "SEQ_NUM_2", "MSG"}

SeqLow(seq) == seq % SEQ_LOW
SeqMid(seq) == (seq \div SEQ_LOW) % SEQ_MID
SeqTop(seq) == seq \div (SEQ_LOW * SEQ_MID)

Halves(word) == <<word.hi, word.lo>>

InSession == state_q \in {"IDLE", "SESSION_1", "SESSION_2"}

(* What the header word after the next one must be. *)
NextCompare ==
  CASE state_q = "IDLE"      -> <<session_id_q[3], session_id_q[4]>>
    [] state_q = "SESSION_1" -> <<session_id_q[5], SeqTop(seq_expect_q)>>
    [] state_q = "SESSION_2" -> <<SeqMid(seq_expect_q), 0>>
    [] state_q = "SEQ_NUM_1" -> <<SeqLow(seq_expect_q), 0>>

After == [IDLE |-> "SESSION_1", SESSION_1 |-> "SESSION_2", SESSION_2 |-> "SEQ_NUM_1",
          SEQ_NUM_1 |-> "SEQ_NUM_2"]

(* Mutant: only the first half of a word is compared. *)
ExpectedFirstHalf(word) ==
  \/ InSession /\ first_pkt_flag_q
  \/ compare_q[1] = word.hi

(* The first packet's session is learned, and nothing it shares a word     *)
(* with is compared.                                                       *)
Expected(word) ==
  IF InSession /\ first_pkt_flag_q THEN TRUE
  ELSE IF state_q = "SEQ_NUM_2" THEN compare_q[1] = word.hi
  ELSE compare_q = Halves(word)

(* Mutant: the last half of the session is left as it was. *)
LearnedShort(word) ==
  CASE state_q = "IDLE"      -> [session_id_q EXCEPT ![1] = word.hi, ![2] = word.lo]
    [] state_q = "SESSION_1" -> [session_id_q EXCEPT ![3] = word.hi, ![4] = word.lo]
    [] state_q = "SESSION_2" -> session_id_q

Learned(word) ==
  CASE state_q = "IDLE"      -> [session_id_q EXCEPT ![1] = word.hi, ![2] = word.lo]
    [] state_q = "SESSION_1" -> [session_id_q EXCEPT ![3] = word.hi, ![4] = word.lo]
    [] state_q = "SESSION_2" -> [session_id_q EXCEPT ![5] = word.hi]

(* Every word: whether it is the last of its packet and how many of its    *)
(* bytes are kept are compared with what the parser expects.               *)
Check(error, word, last, kept) ==
  np_error' = (error \/ word.tlast # last \/ word.tkeep # kept)

(* A word of another session: what follows is taken for a new packet, and  *)
(* compare_q stays where it is.                                            *)
GiveUp(word) ==
  /\ InSession /\ ~Expected(word)
  /\ state_q' = "IDLE"
  /\ ip_data_v_o' = FALSE
  /\ Check(TRUE, word, FALSE, 4)
  /\ UNCHANGED <<session_id_q, compare_q, seq_expect_q, msg_left_q, bytes_left_q, first_pkt_flag_q>>

(* One of the first four header words.  A wrong middle part of the         *)
(* sequence number is reported and otherwise ignored.                      *)
HeaderWord(word) ==
  /\ state_q \in DOMAIN After
  /\ InSession => Expected(word)
  /\ state_q' = After[state_q]
  /\ session_id_q' = IF InSession /\ first_pkt_flag_q THEN Learned(word) ELSE session_id_q
  /\ compare_q' = IF first_pkt_flag_q /\ state_q \in {"IDLE", "SESSION_1"}
                  THEN compare_q ELSE NextCompare
  /\ first_pkt_flag_q' = (first_pkt_flag_q /\ state_q # "SEQ_NUM_1")
  /\ ip_data_v_o' = FALSE
  /\ Check(~Expected(word), word, FALSE, 4)
  /\ UNCHANGED <<seq_expect_q, msg_left_q, bytes_left_q>>

(* The last header word: low part of the sequence number, message count.   *)
CountWord(word) ==
  /\ state_q = "SEQ_NUM_2"
  /\ compare_q' = <<session_id_q[1], session_id_q[2]>>
  /\ msg_left_q' = word.lo
  /\ seq_expect_q' = seq_expect_q + word.lo
  /\ IF word.lo = 0
     THEN state_q' = "IDLE" /\ UNCHANGED bytes_left_q
     ELSE state_q' = "MSG" /\ bytes_left_q' = 1
  /\ ip_data_v_o' = FALSE
  /\ Check(~Expected(word), word, word.lo = 0, 4)
  /\ UNCHANGED <<session_id_q, first_pkt_flag_q>>

LastWord == bytes_left_q < 6 /\ msg_left_q = 0

(* Mutant: a length is read behind the last message too. *)
LengthWordAlways == bytes_left_q < 4

(* The second byte of a length field lies in this word (of the two, the    *)
(* first is never read).                                                   *)
LengthWord == bytes_left_q < 4 /\ msg_left_q > 0

(* Mutant: the byte of the field is one place off. *)
BytesLeftShifted(word) ==
  CASE LastWord   -> 1
    [] LengthWord -> (word.byte[bytes_left_q % 4] + bytes_left_q - 1) % 256
    [] OTHER      -> (bytes_left_q - 4) % 256

(* bytes_left after this word; the position of the length byte is the      *)
(* number of bytes left of the message before, less the one counted extra. *)
BytesLeft(word) ==
  CASE LastWord   -> 1
    [] LengthWord -> (word.byte[bytes_left_q % 4] + bytes_left_q - 2) % 256
    [] OTHER      -> (bytes_left_q - 4) % 256

PayloadWord(word) ==
  /\ state_q = "MSG"
  /\ ip_data_v_o' = TRUE
  /\ bytes_left_q' = BytesLeft(word)
  /\ msg_left_q' = IF LengthWord THEN msg_left_q - 1 ELSE msg_left_q
  /\ state_q' = IF LastWord THEN "IDLE" ELSE "MSG"
  /\ Check(FALSE, word, LastWord, IF LastWord /\ bytes_left_q > 0 THEN bytes_left_q - 1
                                  ELSE IF LastWord THEN 0 ELSE 4)
  /\ UNCHANGED <<session_id_q, compare_q, seq_expect_q, first_pkt_flag_q>>

TakeWord(word) == GiveUp(word) \/ HeaderWord(word) \/ CountWord(word) \/ PayloadWord(word)

InitRtlMold ==
  /\ state_q = "IDLE"
  /\ session_id_q = <<0, 0, 0, 0, 0>>
  /\ compare_q = <<0, 0>>
  /\ seq_expect_q = 1
  /\ msg_left_q = 0
  /\ bytes_left_q = 0
  /\ first_pkt_flag_q = TRUE
  /\ ip_data_v_o = FALSE
  /\ np_error = FALSE
=============================================================================
