------------------------------ MODULE RtlPace ------------------------------
(***************************************************************************)
(* How close together the messages of the hardware ITCH parser can come.   *)
(* A message takes a word per clock at most, and each type is passed on at *)
(* its own place near the last word (itch_parser.sv).  Counted here in     *)
(* clocks since the last message, a deletion counting one more, for it is  *)
(* passed on a word later than any other.                                  *)
(***************************************************************************)
EXTENDS Naturals

(* An order of 38 bytes is the shortest 'A'; the shortest messages else    *)
(* have 25 and, late as it comes, 21; a replacement is three words behind  *)
(* the deletion of its message.                                            *)
Needed(msg_type) ==
  CASE msg_type = "REPLACE" -> 3
    [] msg_type = "ADD" -> 9
    [] OTHER -> 6

LongQuiet == 9

QuietAfter(quiet, dec) ==
  CASE dec.valid /\ dec.msg_type = "DELETE" /\ ~dec.has_rep -> 2
    [] dec.valid /\ (dec.msg_type # "DELETE" \/ dec.has_rep) -> 1
    [] ~dec.valid /\ quiet < LongQuiet -> quiet + 1
    [] OTHER -> LongQuiet
=============================================================================
