----------------------------- MODULE MoldUDP64 -----------------------------
(***************************************************************************)
(* The MoldUDP64 parser of the reference model                             *)
(* (src/ref_model/moldudp64_parser.py): accepts the packets of one session *)
(* in the order of their sequence numbers and hands on their messages.     *)
(***************************************************************************)
EXTENDS Integers

VARIABLES seq_expected, session_id, first_pkt_received

mold_vars == <<seq_expected, session_id, first_pkt_received>>

NoSession == "none"

(* A packet: its header, and whether its bytes hold a header at all        *)
(* ("short") and exactly the messages the header announces ("whole").      *)
Packet(Sessions, Seqs, Counts) ==
  [session_id : Sessions, seq : Seqs, msg_count : Counts, shape : {"whole", "cut", "short"}]

(* The session the parser follows, once it has read this packet's header.  *)
Session(pkt) == IF first_pkt_received THEN session_id ELSE pkt.session_id

(* Mutant: a repeated packet is not told from the next. *)
OutcomeOfRepeats(pkt) ==
  CASE pkt.shape = "short" -> "too_short"
    [] pkt.shape # "short" /\ pkt.session_id # Session(pkt) -> "session_mismatch"
    [] pkt.shape # "short" /\ pkt.session_id = Session(pkt)
         /\ pkt.seq > seq_expected -> "seq_mismatch"
    [] pkt.shape = "cut" /\ pkt.session_id = Session(pkt)
         /\ pkt.seq <= seq_expected -> "bad_length"
    [] OTHER -> "ok"

(* process_pkt's checks, in the order it makes them. *)
Outcome(pkt) ==
  CASE pkt.shape = "short" -> "too_short"
    [] pkt.shape # "short" /\ pkt.session_id # Session(pkt) -> "session_mismatch"
    [] pkt.shape # "short" /\ pkt.session_id = Session(pkt)
         /\ pkt.seq # seq_expected -> "seq_mismatch"
    [] pkt.shape = "cut" /\ pkt.session_id = Session(pkt)
         /\ pkt.seq = seq_expected -> "bad_length"
    [] OTHER -> "ok"

(* The first header read fixes the session, whatever else is wrong with    *)
(* the packet.                                                             *)
FollowSession(pkt) ==
  /\ session_id' = Session(pkt)
  /\ first_pkt_received' = TRUE

(* Mutant: a heartbeat takes a number. *)
ProcessPktCountsHeartbeats(pkt) ==
  /\ Outcome(pkt) \in {"bad_length", "ok"}
  /\ FollowSession(pkt)
  /\ seq_expected' = seq_expected + (IF pkt.msg_count = 0 THEN 1 ELSE pkt.msg_count)

(* process_pkt.  The expected number moves past the packet before its      *)
(* payload is looked at.                                                   *)
ProcessPkt(pkt) ==
  \/ /\ Outcome(pkt) = "too_short"
     /\ UNCHANGED mold_vars
  \/ /\ Outcome(pkt) \in {"session_mismatch", "seq_mismatch"}
     /\ FollowSession(pkt)
     /\ UNCHANGED seq_expected
  \/ /\ Outcome(pkt) \in {"bad_length", "ok"}
     /\ FollowSession(pkt)
     /\ seq_expected' = seq_expected + pkt.msg_count

InitMold ==
  /\ seq_expected = 1
  /\ session_id = NoSession
  /\ first_pkt_received = FALSE
=============================================================================
