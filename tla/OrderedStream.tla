--------------------------- MODULE OrderedStream ---------------------------
(***************************************************************************)
(* What the stages before the order book promise of the message stream:    *)
(* messages are handled in the order of their numbers, each at most once,  *)
(* and none is left out before an error has been answered.                 *)
(***************************************************************************)
EXTENDS Integers

VARIABLES position,  \* number of the last message handled
          told,      \* an error has told that messages may be missing
          answer     \* kind of the last answer

stream_vars == <<position, told, answer>>

StreamInit == position = 0 /\ told = FALSE /\ answer = "none"

(* The next message is handled. *)
Handle ==
  /\ position' = position + 1
  /\ told' = told

(* An error is answered, for the next message or for a whole packet. *)
Tell ==
  /\ position' \in {position, position + 1}
  /\ answer' = "error"
  /\ told' = TRUE

(* Once that is told, messages may be left out, never handled again. *)
SkipAhead ==
  /\ told
  /\ position' > position
  /\ told' = told

(* Anything else answers without touching the stream. *)
Other == UNCHANGED <<position, told>>

StreamNext == Handle \/ Tell \/ SkipAhead \/ Other

StreamSpec == StreamInit /\ [][StreamNext]_stream_vars
=============================================================================
