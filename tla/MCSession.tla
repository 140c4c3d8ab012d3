----------------------------- MODULE MCSession -----------------------------
(* Two stocks and two markets, those init_params asks for and another of   *)
(* each, and packets of at most two messages.                              *)
EXTENDS Session, TLC

CONSTANTS own, other, here, there

MCLocates == (own :> "1") @@ (other :> "2")

(* Of two messages sent in a row one concerns the configured stock. *)
Concerns(msg) ==
  \/ msg.kind = "EVENT"
  \/ msg.kind = "BOOK" /\ msg.stock_locate = locate_of[own]
  \/ msg.kind \in {"DIRECTORY", "ACTION"} /\ msg.stock_symbol = own
  \/ msg.kind = "HALT" /\ msg.stock_symbol = own /\ msg.market_code = here

EveryOtherConcerns ==
  Len(sent) >= 2 => \E n \in {Len(sent) - 1, Len(sent)} : Concerns(sent[n].msg)

(* Past a loss the exchange and Top may drift apart in any way: follow one *)
(* more message, before market hours.                                      *)
ShortAfterLoss ==
  lossy => /\ seq_expected - 1 - Len(payload) - taken <= 1
           /\ Len(sent) <= taken + 1
           /\ said <= 2

(* Message numbers and order counts matter only relative to those of the   *)
(* message handled last: what was sent before it is never read again, and  *)
(* of what was true after a message only whether the stock was open.       *)
Relative ==
  LET from == IF taken = 0 THEN 1 ELSE taken
  IN  <<[i \in 1 .. Len(sent) - from + 1 |->
           [msg    |-> sent[from + i - 1].msg,
            open   |-> sent[from + i - 1].open,
            orders |-> IF lossy THEN 0 ELSE sent[from + i - 1].orders - applied]],
        said, listed, trading, halted,
        taken = 0, seq_expected - taken, session_id, first_pkt_received,
        control_vars, top_vars,
        [i \in DOMAIN payload |-> [payload[i] EXCEPT !.number = @ - taken]],
        answer, lossy>>
=============================================================================
