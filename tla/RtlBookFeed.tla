---------------------------- MODULE RtlBookFeed ----------------------------
(***************************************************************************)
(* The hardware book from its reset on (src/utils/rst_init.py), and then   *)
(* under the messages the order table can look up, as close together as    *)
(* the parser can send them.  Of the orders only the levels they add up to *)
(* matter here: the shares on each side at each price.  A book is not      *)
(* crossed, bids do not lie above the window nor offers below it (see the  *)
(* README), and prices are on ticks.                                       *)
(***************************************************************************)
EXTENDS RtlBook, RtlPace, FiniteSets, Functions

CONSTANTS PriceBase, Bids, Offers,   \* prices, in and outside the window
          ShareCounts, MaxShares,    \* shares of a message, and of all levels
          InitDelay,                 \* clocks from the reset to the initialization
          CountsAtReset,             \* what the reset can find in the counter of the tables
          OldContents                \* ... and in the memories

(* Prices 25 addresses apart are told apart by a power of two of them.      *)
ASSUME QuotesAssumption ==
  /\ L2_MEM_SIZE % 5 # 0
  /\ IsFiniteSet(Bids) /\ IsFiniteSet(Offers)
  /\ ShareCounts \subseteq Nat \ {0} /\ MaxShares \in Nat
  /\ PriceBase \in Nat /\ PriceBase % 50 = 0
  /\ \A price \in Bids \cup Offers : price \in Nat /\ price % 50 = 0
  /\ \A price \in Bids : price <= PriceBase + 50 * (L2_MEM_SIZE - 1)
  /\ \A price \in Offers : price >= PriceBase

(* The counter must not pass the last place before the initialization: see *)
(* LutStep.                                                                *)
ASSUME ResetAssumption ==
  /\ OldContents \subseteq Nat /\ InitDelay \in Nat
  /\ \A count \in CountsAtReset : count \in Nat /\ count + InitDelay < L2_MEM_SIZE - 1

VARIABLES levels,   \* shares by side and price
          owed,     \* the side whose replacement is to follow, if one is
          quiet,    \* clocks since the last message, see RtlPace
          due,      \* the last message's result is to come
          phase, delay,
          failed    \* book_error_o has been high

env_vars == <<levels, owed, quiet, due, phase, delay, failed>>
vars == <<book_regs, env_vars>>

NoInit == [valid |-> FALSE, price_base |-> 0]

Quotes(is_buy) == IF is_buy THEN Bids ELSE Offers

Better(is_buy, price, than) == IF is_buy THEN price > than ELSE price < than

Traded(is_buy) == {price \in Quotes(is_buy) : levels[is_buy][price] > 0}

SharesAt(is_buy, prices) == SumFunctionOnSet(levels[is_buy], prices)

Uncrossed == \A bid \in Traded(TRUE), offer \in Traded(FALSE) : bid < offer

Dec(msg_type, is_buy, price, shares) ==
  [valid |-> TRUE, msg_type |-> msg_type, has_rep |-> FALSE,
   is_buy |-> is_buy, shares |-> shares, price |-> price]

----------------------------------------------------------------------------
(* A clock of the book, with what the surroundings give it.  Nothing       *)
(* recovers from an error: no message follows the first.                   *)
Clock(init, dec) ==
  /\ BookClock(init, dec)
  /\ failed' = (failed \/ book_error(dec))
  /\ quiet' = QuietAfter(quiet, dec)
  /\ due' = CASE dec.valid /\ ~dec.has_rep -> TRUE
              [] ~dec.valid /\ bbo_res_v_last_q -> FALSE
              [] OTHER -> due

(* The reset is over; the initialization comes InitDelay clocks later.     *)
AfterReset ==
  /\ phase = "reset" /\ delay > 0
  /\ Clock(NoInit, NoDec)
  /\ delay' = delay - 1
  /\ UNCHANGED <<levels, owed, phase>>

Initialize ==
  /\ phase = "reset" /\ delay = 0
  /\ Clock([valid |-> TRUE, price_base |-> PriceBase], NoDec)
  /\ phase' = "waiting"
  /\ UNCHANGED <<levels, owed, delay>>

(* Messages may come from the clock on in which book_ready_o is seen.      *)
AwaitReady ==
  /\ phase = "waiting"
  /\ Clock(NoInit, NoDec)
  /\ phase' = IF l2_ready_o THEN "running" ELSE "waiting"
  /\ UNCHANGED <<levels, owed, delay>>

Idle ==
  /\ phase = "running"
  /\ Clock(NoInit, NoDec)
  /\ UNCHANGED <<levels, owed, phase, delay>>

MayCome(msg_type) ==
  /\ phase = "running" /\ ~failed
  /\ quiet >= Needed(msg_type)

(* A new order, or the new one of a replacement.                           *)
Bring(msg_type, is_buy, price, shares) ==
  /\ MayCome(msg_type)
  /\ levels' = [levels EXCEPT ![is_buy][price] = @ + shares]
  /\ Uncrossed'
  /\ SharesAt(TRUE, Bids)' + SharesAt(FALSE, Offers)' <= MaxShares
  /\ Clock(NoInit, Dec(msg_type, is_buy, price, shares))
  /\ owed' = {}
  /\ UNCHANGED <<phase, delay>>

AddOrder ==
  /\ owed = {}
  /\ \E is_buy \in BOOLEAN, shares \in ShareCounts :
       \E price \in Quotes(is_buy) : Bring("ADD", is_buy, price, shares)

(* Part or all of an order goes; of a replaced one, all.                   *)
Take(msg_type, has_rep) ==
  /\ MayCome(msg_type)
  /\ owed = {}
  /\ \E is_buy \in BOOLEAN, shares \in ShareCounts : \E price \in Traded(is_buy) :
       /\ levels[is_buy][price] >= shares
       /\ levels' = [levels EXCEPT ![is_buy][price] = @ - shares]
       /\ owed' = IF has_rep THEN {is_buy} ELSE {}
       /\ Clock(NoInit, [Dec(msg_type, is_buy, price, shares) EXCEPT !.has_rep = has_rep])
  /\ UNCHANGED <<phase, delay>>

ReduceOrder  == Take("REDUCE", FALSE)
DeleteOrder  == Take("DELETE", FALSE)
DeleteReplaced == Take("DELETE", TRUE)

ReplaceOrder ==
  \E is_buy \in owed, shares \in ShareCounts :
    \E price \in Quotes(is_buy) : Bring("REPLACE", is_buy, price, shares)

Init ==
  /\ \E old \in OldContents, count \in CountsAtReset :
       InitRtlBook([a \in Places |-> old], [a \in Places |-> old], [a \in Places |-> old], count)
  /\ levels = [is_buy \in BOOLEAN |-> [price \in Quotes(is_buy) |-> 0]]
  /\ owed = {}
  /\ quiet = LongQuiet
  /\ due = FALSE
  /\ phase = "reset" /\ delay = InitDelay
  /\ failed = FALSE

Next ==
  \/ AfterReset \/ Initialize \/ AwaitReady \/ Idle
  \/ AddOrder \/ ReduceOrder \/ DeleteOrder \/ DeleteReplaced \/ ReplaceOrder

(* The clock never stops; whether a message comes is up to the exchange.   *)
Spec == Init /\ [][Next]_vars /\ WF_vars(Next)

----------------------------------------------------------------------------
(* Registers keep their types and widths. *)
TypeOK ==
  /\ pa_ram \in [Places -> Nat] /\ od_ram \in [Places -> Nat]
  /\ exist_arr_q \subseteq Places
  /\ \A is_buy \in BOOLEAN : updt_q[is_buy].local \subseteq Places /\ updt_q[is_buy].enc \in Places
  /\ \A is_buy \in BOOLEAN :
       {half[is_buy].out_size, half[is_buy].out_size_in_range, half[is_buy].arr[1].shares,
        half[is_buy].arr[2].shares} \subseteq 0 .. MaxShares
  /\ quiet \in 1 .. LongQuiet

PriceOf(place) == PriceBase + 50 * place

SharesFor(price) ==
  SumFunctionOnSet([is_buy \in BOOLEAN |-> IF price \in Quotes(is_buy) THEN levels[is_buy][price] ELSE 0],
                   BOOLEAN)

(* Ready means that the tables are filled: every price of the window has   *)
(* its place and every place its price ("init actually done",              *)
(* l2_price_table.sv:511).                                                 *)
TablesFilled ==
  phase = "running" =>
    \A i \in Places : /\ lut_ordering[price_addr(PriceOf(i))] = i
                      /\ lut_price[i] = PriceOf(i)

(* Whatever the memories held before the reset, once ready both hold the   *)
(* shares of every price as soon as the last message is written; the marks *)
(* of the levels that exist follow a clock later                           *)
(* (l2_price_table.sv:185-218).                                            *)
L2Holds ==
  phase = "running" =>
    /\ TablesFilled
    /\ ~dec_book_q.valid =>
         \A i \in Places : /\ pa_ram[price_addr(PriceOf(i))] = SharesFor(PriceOf(i))
                           /\ od_ram[i] = SharesFor(PriceOf(i))
    /\ ~dec_book_q.valid /\ ~exist_q.wen =>
         exist_arr_q = {i \in Places : SharesFor(PriceOf(i)) > 0}

(* The n-th best level of a side, an invalid word if it has fewer. *)
NthBest(is_buy, n) ==
  LET ranks == {price \in Traded(is_buy) :
                  n = 1 + Cardinality({p \in Traded(is_buy) : Better(is_buy, p, price)})}
  IN  IF ranks = {} THEN NoBBOWord
      ELSE LET price == CHOOSE p \in ranks : TRUE
           IN  [valid |-> TRUE, price |-> price, shares |-> levels[is_buy][price]]

(* The price of an empty word is whatever it was. *)
Shows(word, level) == word.valid = level.valid /\ (level.valid => word = level)

Refilling(is_buy) == half[is_buy].updt_ing \/ updt_ing_q \/ dec_book_updt_q.valid

(* When no level is on its way and no message is kept, the registers are   *)
(* the two best levels of their side, and the two counts the shares of all *)
(* others and of those in the window: the level prefetched was the right   *)
(* one, with its shares of the moment (bbo.sv:398-515, book.sv:118-133).   *)
BBOExact ==
  ~failed => \A is_buy \in BOOLEAN : ~Refilling(is_buy) =>
    LET h == half[is_buy]
        others == {price \in Traded(is_buy) :
                     \A n \in 1 .. 2 : h.arr[n].valid => h.arr[n].price # price}
    IN  /\ \A n \in 1 .. 2 : Shows(h.arr[n], NthBest(is_buy, n))
        /\ h.out_size = SharesAt(is_buy, others)
        /\ h.out_size_in_range = SharesAt(is_buy, {price \in others : InWindow(price)})

(* Each message that is not the first half of a replacement is answered    *)
(* once, within three clocks, with the best bid and offer as of it, though *)
(* a refill may be under way (book.sv:96, 135-136).                        *)
ResultExact ==
  /\ due /\ ~failed => quiet <= 3
  /\ bbo_res_v_last_q /\ ~failed =>
       due /\ \A is_buy \in BOOLEAN : Shows(bbo_res(is_buy), NthBest(is_buy, 1))

(* The book reports an error only when a level it must show lies outside   *)
(* the window: the pace of the messages never makes one arrive during a    *)
(* refill (bbo.sv:413-417, 480; book.sv:126-130).                          *)
NoFalseError ==
  failed => \E is_buy \in BOOLEAN : \E price \in Traded(is_buy) :
              /\ ~InWindow(price)
              /\ Cardinality({p \in Traded(is_buy) : Better(is_buy, p, price)}) < 2

(* Shares are taken only from a level that is marked as existing           *)
(* (l2_price_table.sv:199).                                                *)
PriceKnown == ~failed => PriceExists

(* Every message is answered in the end. *)
EveryMessageAnswered == due ~> ~due

(* After a reset and an initialization the book becomes ready              *)
(* (rst_init.py:25-30).                                                    *)
BecomesReady == <>(phase = "running")
=============================================================================
