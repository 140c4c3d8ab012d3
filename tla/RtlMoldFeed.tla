---------------------------- MODULE RtlMoldFeed ----------------------------
(***************************************************************************)
(* The hardware MoldUDP64 parser and the reference model side by side, as  *)
(* the simulation runs them: packets go word by word to the parser and     *)
(* whole to MoldUDP64!ProcessPkt.  A packet can be the next one, or of     *)
(* another session, or out of order, or cut short or too long.             *)
(***************************************************************************)
EXTENDS RtlMold, SequencesExt

CONSTANTS Sessions,  \* session ids, of five halves
          Lengths,   \* message lengths in bytes
          MaxSeq, MaxCount, MaxExtra

(* The parser takes every message to be shorter than 255 bytes             *)
(* (moldudp64_parser.sv:58).  It would lose its place behind one that ends *)
(* in the word of its own length field.                                    *)
ASSUME FeedAssumption ==
  /\ Sessions \subseteq [1 .. 5 -> Nat]
  /\ Lengths \subseteq 4 .. 254
  /\ MaxSeq \in Nat \ {0} /\ MaxCount \in Nat /\ MaxExtra \in Nat

VARIABLES pkt,       \* the packet on its way, or none
          at,        \* words of it sent, kept until the next
          passed,    \* payload words passed on of it
          answer,    \* the model's answer to the last packet
          failed,    \* the parser has reported an error
          seq_expected, session_id, first_pkt_received  \* the model

M == INSTANCE MoldUDP64

model_vars == <<seq_expected, session_id, first_pkt_received>>
vars == <<mold_regs, pkt, at, passed, answer, failed, model_vars>>

NoPkt == [total |-> 0]

MsgBytes(lens) == FoldLeft(LAMBDA sum, len : sum + len + 2, 0, lens)

HEADER == 20

Words(total) == (total + 3) \div 4

(* The packet as the model sees it. *)
AsModel(p) ==
  [session_id |-> p.session_id, seq |-> p.seq, msg_count |-> Len(p.lens),
   shape |-> IF p.total < HEADER THEN "short"
             ELSE IF p.total = HEADER + MsgBytes(p.lens) THEN "whole" ELSE "cut"]

(* A byte of the payload: the low byte of a length field, or anything,     *)
(* which the parser must not look at.                                      *)
LengthAt(lens, pos) ==
  LET starts == [i \in DOMAIN lens |-> MsgBytes(SubSeq(lens, 1, i - 1))]
  IN  IF \E i \in DOMAIN lens : starts[i] + 1 = pos
      THEN lens[CHOOSE i \in DOMAIN lens : starts[i] + 1 = pos]
      ELSE 0

(* The k-th word of a packet, counted from 0. *)
Word(p, k) ==
  LET last == k = Words(p.total) - 1
      halves == CASE k = 0 -> <<p.session_id[1], p.session_id[2]>>
                  [] k = 1 -> <<p.session_id[3], p.session_id[4]>>
                  [] k = 2 -> <<p.session_id[5], SeqTop(p.seq)>>
                  [] k = 3 -> <<SeqMid(p.seq), 0>>
                  [] k = 4 -> <<SeqLow(p.seq), Len(p.lens)>>
                  [] OTHER -> <<0, 0>>
  IN  [hi    |-> halves[1],
       lo    |-> halves[2],
       byte  |-> [i \in 0 .. 3 |-> LengthAt(p.lens, 4 * (k - 5) + i)],
       tlast |-> last,
       tkeep |-> IF last THEN p.total - 4 * k ELSE 4]

(* Packets on the wire. *)
Lens == UNION {[1 .. n -> Lengths] : n \in 0 .. MaxCount}

Totals(lens) == {4, 12, 16, 18} \cup
                {HEADER + MsgBytes(lens) + d : d \in -MaxExtra .. MaxExtra}

(* A packet begins: the model takes it in whole.  The tests reset the      *)
(* parser after an error, so the run ends with the first.  Of the first    *)
(* packet's number the hardware never compares the top bits                *)
(* (moldudp64_parser.sv:161): here they are zero.                          *)
Send(session, seq, lens, total) ==
  /\ ~failed
  /\ pkt = NoPkt
  /\ seq + Len(lens) <= MaxSeq
  /\ first_pkt_received \/ SeqTop(seq) = 0
  /\ total > 0
  /\ pkt' = [session_id |-> session, seq |-> seq, lens |-> lens, total |-> total]
  /\ at' = 0
  /\ passed' = 0
  /\ answer' = M!Outcome(AsModel(pkt'))
  /\ M!ProcessPkt(AsModel(pkt'))
  /\ UNCHANGED <<mold_regs, failed>>

Whole(lens) == HEADER + MsgBytes(lens)

OurSession == IF first_pkt_received THEN {session_id} ELSE Sessions

(* At most one thing is wrong with a packet: its session, its number or    *)
(* its length.                                                             *)
SendInSession(session) == \E lens \in Lens : Send(session, seq_expected, lens, Whole(lens))

SendNumbered(session) ==
  \E lens \in Lens, seq \in 0 .. MaxSeq : Send(session, seq, lens, Whole(lens))

SendCut(session) ==
  \E lens \in Lens : \E total \in Totals(lens) : Send(session, seq_expected, lens, total)

(* Its next word arrives. *)
Arrive ==
  /\ ~failed
  /\ pkt # NoPkt
  /\ TakeWord(Word(pkt, at))
  /\ failed' = np_error'
  /\ passed' = IF ip_data_v_o' THEN passed + 1 ELSE passed
  /\ at' = at + 1
  /\ pkt' = IF at' = Words(pkt.total) THEN NoPkt ELSE pkt
  /\ UNCHANGED <<answer, model_vars>>

Init ==
  /\ InitRtlMold
  /\ M!InitMold
  /\ pkt = NoPkt
  /\ at = 0
  /\ passed = 0
  /\ answer = "ok"
  /\ failed = FALSE

Next ==
  \/ \E session \in Sessions : SendInSession(session)
  \/ \E session \in OurSession : SendNumbered(session)
  \/ \E session \in OurSession : SendCut(session)
  \/ Arrive

Spec == Init /\ [][Next]_vars

----------------------------------------------------------------------------
(* Registers keep their types and widths. *)
TypeOK ==
  /\ state_q \in States
  /\ seq_expect_q \in 1 .. MaxSeq + MaxCount
  /\ msg_left_q \in 0 .. MaxCount
  /\ bytes_left_q \in 0 .. 255
  /\ {first_pkt_flag_q, ip_data_v_o, np_error, failed} \subseteq BOOLEAN
  /\ passed <= at

(* The parser reports an error with some word of a packet only if the      *)
(* model refuses the packet (sim_moldudp64_parser.py expects none          *)
(* elsewhere).                                                             *)
NoFalseAlarm == failed => answer # "ok"

(* A packet the model refuses never reaches its end without an error: no   *)
(* message is missing or handled twice unnoticed (README.md:54-55).        *)
NoErrorMissed == pkt = NoPkt /\ ~failed => answer = "ok"

(* Between packets the registers hold what the model holds, and every      *)
(* payload word of the packet has been passed on.                          *)
AgreesBetweenPackets ==
  pkt = NoPkt /\ ~failed =>
    /\ seq_expect_q = seq_expected
    /\ first_pkt_flag_q = ~first_pkt_received
    /\ first_pkt_received => /\ session_id_q = session_id
                             /\ compare_q = <<session_id[1], session_id[2]>>
    /\ state_q = "IDLE"
    /\ at > 0 => passed = at - 5
=============================================================================
