-------------------------------- MODULE BBO --------------------------------
(***************************************************************************)
(* The best-bid-and-offer registers of the reference model                 *)
(* (src/ref_model/bbo.py): each half keeps the best BBO_DEPTH levels of    *)
(* one side in registers, and counts the shares outside them to know       *)
(* whether L2 can supply the next level when one runs out.                 *)
(***************************************************************************)
EXTENDS BookTypes, Sequences, SequencesExt

CONSTANTS BBO_DEPTH,   \* levels in the registers
          bid_bound,   \* price_bound of the bid half: the lowest price L2 keeps
          off_bound    \* price_bound of the offer half: the highest price L2 keeps

VARIABLES bid_module,  \* BBOHalf(True): entries, outside_shares, outside_shares_in_range
          off_module,  \* BBOHalf(False)
          bid_entry,   \* best bid of the last bid message that was not an error
          off_entry

bbo_vars == <<bid_module, off_module, bid_entry, off_entry>>

NoEntry == [shares |-> 0, price |-> 0]  \* None

Level(shares, price) == [shares |-> shares, price |-> price]

EmptyHalf == [entries |-> <<>>, outside |-> 0, in_range |-> 0]

Half(is_buy) == IF is_buy THEN bid_module ELSE off_module

Improves(is_buy, a, b) == IF is_buy THEN a > b ELSE a < b

(* Mutant: shares out of L2's window count as shares L2 can supply. *)
WithinAnyBound(is_buy, price) == TRUE

WithinBound(is_buy, price) == IF is_buy THEN price >= bid_bound ELSE price <= off_bound

----------------------------------------------------------------------------
(* BBOHalf.process_msg scans the registers from the best level down and    *)
(* stops at the first that the price equals or improves on.                *)
Hits(h, msg) ==
  {i \in DOMAIN h.entries :
     \/ h.entries[i].price = msg.price
     \/ Improves(msg.is_buy, msg.price, h.entries[i].price)}

FirstHit(h, msg) == CHOOSE i \in Hits(h, msg) : \A j \in Hits(h, msg) : i <= j

(* What the scan decides; "assert" where one of its assertions fails. *)
Effect(h, msg) ==
  LET at == h.entries[FirstHit(h, msg)]
  IN  CASE Hits(h, msg) = {} -> "outside"
        [] Hits(h, msg) # {} /\ at.price = msg.price
             /\ (BringsShares(msg) \/ at.shares > msg.shares) -> "modify"
        [] Hits(h, msg) # {} /\ at.price = msg.price
             /\ ~BringsShares(msg) /\ at.shares = msg.shares -> "depletion"
        [] Hits(h, msg) # {} /\ at.price # msg.price /\ BringsShares(msg) -> "insertion"
        [] OTHER -> "assert"

Modified(h, msg) ==
  LET i == FirstHit(h, msg)
  IN  [h EXCEPT !.entries[i].shares = IF BringsShares(msg) THEN @ + msg.shares
                                                          ELSE @ - msg.shares]

Depleted(h, msg) == [h EXCEPT !.entries = RemoveAt(@, FirstHit(h, msg))]

(* shares (negative: fewer) at a price outside the registers. *)
CountOutside(h, is_buy, shares, price) ==
  [h EXCEPT !.outside  = @ + shares,
            !.in_range = IF WithinBound(is_buy, price) THEN @ + shares ELSE @]

(* A new level pushes the last one out when the registers are full. *)
Inserted(h, msg) ==
  LET entries == InsertAt(h.entries, FirstHit(h, msg), Level(msg.shares, msg.price))
      last    == entries[Len(entries)]
  IN  IF Len(entries) <= BBO_DEPTH
      THEN [h EXCEPT !.entries = entries]
      ELSE CountOutside([h EXCEPT !.entries = Front(entries)],
                        msg.is_buy, last.shares, last.price)

(* Mutant: full registers take one level more. *)
PutOutsideOfMore(h, msg) ==
  IF Len(h.entries) <= BBO_DEPTH
  THEN [h EXCEPT !.entries = Append(@, Level(msg.shares, msg.price))]
  ELSE CountOutside(h, msg.is_buy,
                    IF BringsShares(msg) THEN msg.shares ELSE -msg.shares, msg.price)

(* Registers with room take the price whatever the message says of it. *)
PutOutside(h, msg) ==
  IF Len(h.entries) < BBO_DEPTH
  THEN [h EXCEPT !.entries = Append(@, Level(msg.shares, msg.price))]
  ELSE CountOutside(h, msg.is_buy,
                    IF BringsShares(msg) THEN msg.shares ELSE -msg.shares, msg.price)

(* BBOHalf.process_msg: the half it leaves, and what it returns: "ok",     *)
(* "updt_req" (ok, and L2 must supply a level), "no_shares_in_range" (an   *)
(* error, with the depleted level already gone) or "assert".               *)
ProcessHalf(h, msg) ==
  LET effect == Effect(h, msg)
      gone   == Depleted(h, msg)
      Done(half, outcome) == [half |-> half, outcome |-> outcome]
  IN  CASE effect = "modify"    -> Done(Modified(h, msg), "ok")
        [] effect = "insertion" -> Done(Inserted(h, msg), "ok")
        [] effect = "outside"   -> Done(PutOutside(h, msg), "ok")
        [] effect = "assert"    -> Done(h, "assert")
        [] effect = "depletion" ->
             Done(gone, CASE h.in_range > 0 /\ Len(gone.entries) = BBO_DEPTH - 1 -> "updt_req"
                          [] h.in_range > 0 /\ Len(gone.entries) # BBO_DEPTH - 1 -> "assert"
                          [] h.in_range <= 0 /\ h.outside > 0 -> "no_shares_in_range"
                          [] OTHER -> "ok")

(* Mutant: the refilled level still counts as outside the registers. *)
UpdatedWithoutCounts(h, level) == [h EXCEPT !.entries = Append(@, level)]

(* BBOHalf.process_updt: the level L2 supplies takes the free register. *)
Updated(h, level) ==
  [entries  |-> Append(h.entries, level),
   outside  |-> h.outside - level.shares,
   in_range |-> h.in_range - level.shares]

Best(h) == IF h.entries = <<>> THEN NoEntry ELSE h.entries[1]

----------------------------------------------------------------------------
(* BBO.process_msg.  One half handles the message; step is what it answers. *)

HalfStep(msg) == ProcessHalf(Half(msg.is_buy), msg)

(* Mutant: only a message that brings shares renews the best bid. *)
BestBidOfAdds(msg, step) ==
  IF msg.is_buy /\ BringsShares(msg) THEN Best(step.half) ELSE bid_entry

(* self.bid_entry and self.off_entry as process_msg leaves them. *)
BestBid(msg, step) == IF msg.is_buy THEN Best(step.half) ELSE bid_entry
BestOff(msg, step) == IF msg.is_buy THEN off_entry ELSE Best(step.half)

SpreadPositive(bid, off) == bid # NoEntry /\ off # NoEntry => off.price - bid.price > 0

(* The half's outcome, "spread" where the assertion on the spread fails.  *)
Outcome(msg, step) ==
  IF /\ step.outcome \in {"ok", "updt_req"}
     /\ ~SpreadPositive(BestBid(msg, step), BestOff(msg, step))
  THEN "spread"
  ELSE step.outcome

SetHalf(is_buy, half) ==
  /\ bid_module' = IF is_buy THEN half ELSE bid_module
  /\ off_module' = IF is_buy THEN off_module ELSE half

(* process_msg, and process_updt with the level L2 supplies if it asked.  *)
Renew(msg, step, half) ==
  /\ SetHalf(msg.is_buy, half)
  /\ bid_entry' = BestBid(msg, step)
  /\ off_entry' = BestOff(msg, step)

(* An error returns before bid_entry or off_entry is brought up to date.  *)
Lose(msg, step) ==
  /\ SetHalf(msg.is_buy, step.half)
  /\ UNCHANGED <<bid_entry, off_entry>>

InitBBO ==
  /\ bid_module = EmptyHalf /\ off_module = EmptyHalf
  /\ bid_entry = NoEntry /\ off_entry = NoEntry
=============================================================================
