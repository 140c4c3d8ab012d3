-------------------------------- MODULE Book --------------------------------
(***************************************************************************)
(* The order book of the reference model (src/ref_model/book.py): every    *)
(* message goes through L3, then L2, then BBO, and a BBO level that runs   *)
(* out is refilled from L2.  One call of process_msg runs to its end       *)
(* before the next begins, so each disjunct of ProcessMsg is one way the   *)
(* whole call can go.                                                      *)
(***************************************************************************)
EXTENDS BookTypes, Sequences

CONSTANTS L3_ADDRS, L3_LINE_SIZE, L3_CAM_SIZE, SpillLogRaises,  \* see L3Memory
          L2_MEM_SIZE, BBO_DEPTH, price_base                    \* see L2

ASSUME L3SizesAssumption ==
  /\ L3_ADDRS \in Nat \ {0}
  /\ L3_LINE_SIZE \in Nat \ {0}
  /\ L3_CAM_SIZE \in Nat
  /\ SpillLogRaises \in BOOLEAN

ASSUME L2SizesAssumption ==
  /\ L2_MEM_SIZE \in Nat /\ L2_MEM_SIZE % 5 # 0  \* as of every power of two
  /\ BBO_DEPTH \in Nat /\ BBO_DEPTH >= 2
  /\ price_base \in Nat /\ price_base % 50 = 0

VARIABLES ram, cam, last_del_is_buy,                       \* L3
          arr, bids, offs,                                 \* L2
          bid_module, off_module, bid_entry, off_entry,    \* BBO
          result                                           \* the last BookResult

L3  == INSTANCE L3
L2  == INSTANCE L2
BBO == INSTANCE BBO WITH bid_bound <- price_base, off_bound <- L2!price_max

l2_vars  == <<arr, bids, offs>>
bbo_vars == <<bid_module, off_module, bid_entry, off_entry>>

book_vars == <<ram, cam, last_del_is_buy, arr, bids, offs,
               bid_module, off_module, bid_entry, off_entry, result>>

(* A result is "ok" with the best levels, an "error" with its origin, or   *)
(* the exception that ended the run.                                       *)
Result(kind, why, bid, off) == [kind |-> kind, why |-> why, bid |-> bid, off |-> off]

Error(why) == Result("error", why, BBO!NoEntry, BBO!NoEntry)

Exception(where) == Result("exception", where, BBO!NoEntry, BBO!NoEntry)

Stopped == result.kind = "exception"

(* L3 answers with an error: L2 and BBO never see the message. *)
L3Error(msg) ==
  /\ ~L3!Raises(L3!Status(msg))
  /\ L3!Refuse(msg)
  /\ UNCHANGED <<l2_vars, bbo_vars>>
  /\ result' = Error(L3!Status(msg))

(* L2 answers with an error: L3 has already taken the message in. *)
L2Error(msg) ==
  /\ L3!Accept(msg)
  /\ L2!Status(L3!LookupMsg(msg)) = "off_tick"
  /\ L2!ProcessMsg(L3!LookupMsg(msg))
  /\ UNCHANGED bbo_vars
  /\ result' = Error("off_tick")

(* L3 and L2 take the message in. *)
Stored(msg) ==
  /\ L3!Accept(msg)
  /\ L2!Status(L3!LookupMsg(msg)) \in {"ok", "ignored"}
  /\ L2!ProcessMsg(L3!LookupMsg(msg))

(* BBO answers with an error: L3 and L2 have already taken the message in, *)
(* and the half that answers has dropped its depleted level.               *)
BBOError(lookup, step) ==
  /\ BBO!Outcome(lookup, step) = "no_shares_in_range"
  /\ BBO!Lose(lookup, step)
  /\ result' = Error("no_shares_in_range")

Best(lookup, step) ==
  Result("ok", "", BBO!BestBid(lookup, step), BBO!BestOff(lookup, step))

(* The message is processed without asking L2 for a level. *)
Processed(lookup, step) ==
  /\ BBO!Outcome(lookup, step) = "ok"
  /\ BBO!Renew(lookup, step, step.half)
  /\ result' = Best(lookup, step)

(* A level ran out, and L2, which has taken the message in by now,         *)
(* supplies the next one.                                                  *)
Refilled(lookup, step) ==
  /\ BBO!Outcome(lookup, step) = "updt_req"
  /\ L2!CanUpdt(lookup.is_buy)'
  /\ BBO!Renew(lookup, step, BBO!Updated(step.half, L2!GetUpdt(lookup.is_buy)'))
  /\ result' = Best(lookup, step)

(* An exception leaves process_msg in L3, in L2 or in BBO: what the        *)
(* modules before it did stays done.  What the raising module itself had   *)
(* already changed is left out: nothing catches the exception, so nothing  *)
(* ever reads it.                                                          *)
L3Raised(msg) ==
  /\ L3!Raises(L3!Status(msg))
  /\ L3!Refuse(msg)
  /\ UNCHANGED <<l2_vars, bbo_vars>>
  /\ result' = Exception("L3")

L2Raised(msg) ==
  /\ L3!Accept(msg)
  /\ L2!Status(L3!LookupMsg(msg)) = "assert"
  /\ UNCHANGED <<l2_vars, bbo_vars>>
  /\ result' = Exception("L2")

BBORaised(lookup, step) ==
  /\ UNCHANGED bbo_vars
  /\ \/ BBO!Outcome(lookup, step) = "assert" /\ result' = Exception("BBO")
     \/ BBO!Outcome(lookup, step) = "spread" /\ result' = Exception("spread")
     \/ /\ BBO!Outcome(lookup, step) = "updt_req"
        /\ ~L2!CanUpdt(lookup.is_buy)'
        /\ result' = Exception("updt")

(* L3 and L2 have taken the message in: BBO handles what L3 looked up.     *)
(* (lookup and step are bound variables, so a prime reaches L2's state and *)
(* leaves the message alone.)                                              *)
ReachesBBO(msg) ==
  /\ Stored(msg)
  /\ \E lookup \in {L3!LookupMsg(msg)} : \E step \in {BBO!HalfStep(lookup)} :
       \/ BBOError(lookup, step)
       \/ Processed(lookup, step)
       \/ Refilled(lookup, step)
       \/ BBORaised(lookup, step)

ProcessMsg(msg) ==
  /\ ~Stopped
  /\ \/ L3Error(msg) \/ L3Raised(msg)
     \/ L2Error(msg) \/ L2Raised(msg)
     \/ ReachesBBO(msg)

InitBook ==
  /\ L3!InitL3
  /\ L2!InitL2
  /\ BBO!InitBBO
  /\ result = Result("ok", "", BBO!NoEntry, BBO!NoEntry)
=============================================================================
