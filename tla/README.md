# Verification of the ITCH order book

The repository builds an order book for one stock from Nasdaq's ITCH feed, twice: as
SystemVerilog (`rtl/`) and as a Python reference model (`src/ref_model/`) the hardware is compared
with in simulation. This directory holds TLA+ models of both, what TLC checks of them on small
instances, and what TLAPS proves of them for every instance. Paths below are the repository's.

## 1. The system

A MoldUDP64 packet carries a session id, the number of its first message and a count of messages.
Data flows in one direction, with one answer per message:

    packet -> MoldUDP64 parser -> ITCH parser -> Control -------------> is the stock trading?
                                            \--> Book: L3 -> L2 -> BBO -> best bid and offer
                                                        L2 <-- refill -- BBO

| Part | State it keeps | Operations | Hard about it |
|---|---|---|---|
| MoldUDP64 parser (`moldudp64_parser.py`, `.sv`) | expected number, session, whether a packet has come; in hardware also the word position and bytes left of the message | `process_pkt`; one 32-bit word per clock | lost, repeated, reordered, damaged packets; fields across words |
| ITCH parser (`itch_parser.py`, `.sv`) | none in the model; in hardware the bytes left of the message and the last 44 bytes | `parse_msg`; one 32-bit word per clock | fields at any place of a word; the pace and the addresses it gives the book behind it |
| Control (`control.py`, `.sv`) | hours, halts, locate code | event, directory, trading action, operational halt, book message | messages refused after the state has changed; assertions on repetition |
| L3 (`l3_order_table.py`, `.sv`) | live orders in hashed lines, a small CAM for lines that are full, side of the last deletion | add, reduce, delete, replace | spill, order of the two memories, a `U` message in two halves; in hardware a two-clock read with a bypass |
| L2 (`l2_price_table.py`, `.sv`) | shares per price in a window, the prices of each side; in hardware the shares twice, which levels exist, tables from price to place and back | `process_msg`, `get_updt`; in hardware a pipeline that works out the next level ahead of being asked | window edges, prices off the tick; a message that changes the level worked out |
| BBO (`bbo.py`, `.sv`) | the best levels of each side, shares outside them, shares outside them but in the window | `process_msg`, `process_updt` | push-out and refill at the limit, errors half way; in hardware no message may reach a half that waits for its refill |
| Book (`book.py`, `.sv`) | none of its own; in hardware a place for the second half of a replace | L3, then L2, then BBO, then the refill from L2 | modules that disagree after an error; in hardware a message and a refill at once |
| Top (`top.py`, `top.sv`) | Control's last verdict, the locate code, messages of the packet in hand; in hardware the output register | `init_params`, `process_pkt`, a generator that yields between messages | errors that drop the rest of a packet; in hardware a message that closes the stock while the result before it is under way |
| AXI interpreter, parameters, simulation, tests | | | in part, section 7 |

The Python code runs in one thread; nothing in it is concurrent. What makes it hard is long
sequences of messages, errors returned half way, and the network. The hardware is one clock domain;
its hazards are pipelines: data read clocks before it is used.

What makes each part correct: the packet parser hands on every message once and in order or says
that it does not; Top shows the book exactly while the stock trades; L3 holds the exchange's live
orders and behaves as a dictionary; L2 is the sum of L3; BBO's registers are the best levels and its
two counters are right, since they choose between a refill and an error; no assertion fails; the
hardware does what the reference model does. `PROJECT.json` lists the hazards with their lines.

## 2. The modules

| Module | Models | Correspondence |
|---|---|---|
| `BookTypes` | message and order records, dictionaries | `structs.py`; `Put`, `Drop` are Python's `d[k] = v`, `del d[k]` |
| `L3Memory` | the hashed lines and the CAM | `ram`, `cam`; `SetItem`, `DelItem`, `GetItem`, `Contains` are the dunder methods |
| `L3` | `L3.process_msg` | `Status` is its checks in order; `Accept` what it does, `Refuse` when it returns an error or raises |
| `L3Table` | the table by itself, any messages | the component's specification, invariants and refinement |
| `OrderStore` | **abstract**: a dictionary of orders that can run out of slots | also what `ideal=True` memory does |
| `L3Proofs`, `L3TableProofs` | lemmas about `L3Memory` and `L3`; theorems about `L3Table` | section 6 |
| `L2` | `process_msg`, `get_updt` | `arr` is the array, `bids` and `offs` the side sets |
| `BBO` | the two halves and `BBO.process_msg` | `Effect`, `Modified`, `Inserted`, `PutOutside` follow the stages of `BBOHalf.process_msg` |
| `Book` | composes L3, L2, BBO | one action per way `Book.process_msg` ends |
| `OrderSums` | the orders of a side, their prices, the sum of their shares | `assert_consistent_state` of `book.py` adds up the same |
| `OrderBook` | **abstract**: a set of orders and the best bid and offer of it | |
| `Feed` | an exchange with an uncrossed market drives `Book` | also the two halves of a `U` message as Top hands them on: `pending` is the half still to come with the order it brings, `missed` the orders whose message Top dropped or for which L3 had no place |
| `BookProofs` | theorems about `Feed`: L3, sums of shares and L2; then one half of BBO and the whole book | section 6 |
| `SessionTypes` | messages Control and Top tell apart | `itch_parser.py` |
| `MoldUDP64` | `MoldUDP64Parser.process_pkt` | `Outcome` is its checks in order |
| `Control` | `Control.process_msg`, `init_params` | one action per message kind |
| `Session` | composes MoldUDP64, Control and Top with an exchange and a network | one action per way a message is answered; how the book answers is left open; `Send` keeps with each message what was true once it was sent, which the properties compare Control and Top with |
| `SessionProofs` | theorems about `Session` | section 6 |
| `OrderedStream` | **abstract**: messages in order, at most once, none left out silently | |
| `RtlL3Ram`, `RtlL3` | `l3_order_table.sv`, one clock per step: read pipeline, bypass, reset, CAM, table | registers keep their names; `Clock` is every register at a clock edge |
| `RtlL3Feed` | drives it at the pace of `itch_parser.sv`, implements `OrderStore` | an address is shown at least two clocks before the message |
| `RtlL3Proofs` | theorems about `RtlL3Feed` | section 6 |
| `RtlMold` | `moldudp64_parser.sv`, one word per step | `state_q` and the other registers keep their names |
| `RtlMoldFeed` | runs it beside `MoldUDP64`, as the simulation does | |
| `RtlMoldProofs` | theorems about `RtlMoldFeed` | section 6 |
| `RtlL2` | `l2_price_table.sv`, one clock per step: both share memories and their reset, the filling of the lookup tables, order processing, the next-level pipeline | a side's pipeline is one record; the encoder of 2048 levels is the best of the bests of blocks |
| `RtlBBO` | `bbo_half` of `bbo.sv` | a half is a record of its registers, `HalfClock` the record after a clock |
| `RtlBook` | `book.sv` and `bbo.sv`: composes `RtlL2` and two halves | the refill handshake, the message kept, results and errors |
| `RtlBookFeed` | resets and initializes it (`rst_init.py`), then sends what the order table can look up | of the orders only the sums at each price matter |
| `RtlBookProofs` | theorems about `RtlBookFeed` | section 6 |
| `ItchWire` | messages as bytes, what `ITCHParser.parse_msg` checks of them | a byte is a pair of a message and a place in it, a field its first byte |
| `RtlItch` | `itch_parser.sv`, one word per step | fields are taken from the line at fixed counts of bytes left, shifted by the count modulo four |
| `RtlControl` | `control.sv` | one clock takes the initialization, a control message, an order message |
| `RtlTop` | composes `RtlItch`, `RtlControl` and the output register of `top.sv` | of the book only the clocks it takes |
| `RtlTopFeed` | runs it beside `ItchWire` and `Control`, as `sim_top.py` does | words with gaps; the results expected wait in a queue (`monitors.py`) |
| `RtlTopProofs` | theorems about `RtlTopFeed` | section 6 |
| `RtlPace` | how close together messages can come | what `RtlTopFeed` shows and `RtlBookFeed` assumes |
| `MC*` | small instances, symmetry reductions, bounds | |

Compositions: `Book` = `L3` + `L2` + `BBO`; `Feed` = exchange + `Book`; `Session` = exchange +
network + `MoldUDP64` + `Control` + Top; `RtlBook` = `RtlL2` + `RtlBBO`; `RtlTop` = `RtlItch` +
`RtlControl` + the gate; `RtlTopFeed` = `RtlTop` + `ItchWire` + `Control`; `RtlL3Feed` and `L3Table` implement the same `OrderStore`,
so that the hardware and the reference table answer alike.

`Feed` and `Session` stay apart: `Session` shows which messages reach the book and in
which order, `Feed` what the book makes of them. Joined they would be too large to check and would
show nothing new, since Control and the book share no state.

The hardware is cut in the same way, and the cuts are checked from both sides. `RtlTopFeed` follows
messages from the word to the gate; its `KeepsPace` and `AddressInTime` are what `RtlL3Feed` and
`RtlBookFeed` assume of the messages that reach the order table and the book. `RtlBookFeed` shows that
each of them is answered within three clocks (`ResultExact`), which is what `RtlTop` assumes of the
book when it lets results out. The order table lies between the two: `RtlL3Feed` shows that it answers
as the dictionary does, and `RtlBookFeed` sends what a dictionary would look up.

Some definitions have a variant whose comment begins with "Mutant": a plausible mistake in that
code, which no specification uses. Putting it in place of the definition after it violates a
property, which shows that the property depends on the code. `PROJECT.json` pairs them.

## 3. The runs

| Run (`.cfg`) | What it asks | Instance |
|---|---|---|
| `MCL3` | The table, its spill repaired, keeps one copy of an order, its capacity, and implements `OrderStore` | 2 lines of 1 order, CAM of 1: an order can be in its line, in the CAM or nowhere |
| `MCFeed` | L3 follows the exchange, L2 is the sum of L3, BBO is exact until it reports a loss, no assertion fails, the book implements `OrderBook` | 4 orders, a window of 4 ticks with prices below, above and between; 2 registers, so that there are levels in registers, in L2 only and nowhere |
| `MCSession` | Stream order, the gate, order messages that reach the book, Top against Control, no assertion fails | 2 stocks, 2 markets, packets of at most 2 messages, 2 ahead, repeats from 1 back |
| `MCRtlL3` | The hardware table answers as `OrderStore`, clears all memory in reset, finds no order twice, reports an error only if the CAM is taken | 2 lines of 1 order, CAM of 2, as close messages as the parser sends |
| `MCRtlMold` | The hardware parser reports errors in exactly the packets the reference model refuses, and learns the same session and number | sessions that differ in one half each, lengths of every residue modulo 4, sequence numbers with carries into every part, packets up to 5 bytes too short or long |
| `MCRtlBook` | The hardware book is ready only with its tables filled and its memories clear, keeps the two best levels and both counts exact through refills, answers every message once and in time, and reports an error only for a level out of the window | a window of 4 ticks in 2 blocks, one bid price below it and one offer price above; messages of 1 or 2 shares, 4 in all, so that each side can have up to four levels, two of them beyond the registers |
| `MCRtlTop` | The hardware behind the packet parser shows, hides and refuses what the reference does, holds the same hours and halts, takes each field from its own bytes, and keeps the pace and the addresses the book needs | 2 stocks, 2 markets; every message alone, an order with any message behind it, two messages behind an ignored one of each length modulo 4; one clock without a word anywhere in a packet |
| `MCL3Spill`, `MCFeedSpread`, `MCSessionDirectory`, `MCSessionMissing`, `MCRtlL3Cam` | each violates one promise of a comment, test or document | as above |

**Bounds.** `MaxAhead`, `MaxCount` and `MaxLate` bound a session, `MaxSeq`, `MaxCount` and
`MaxExtra` the packets of the hardware parser; each is in a guard. In `MCSession` the numbers
themselves are unbounded: `VIEW Relative` takes states that differ by a shift of the numbers for one,
since no guard reads more than their difference. `MCFeed`'s `VIEW UpToIds` does the same for order
ids in one line, and `LeastFreeId` (also in `MCRtlL3`) makes the exchange use the least free id.
With one L3 line all four ids are interchangeable; the line has room for all of them, so that no order
of `MCFeed` spills: spilling is `MCL3`'s question. `MCRtlL3`'s `VIEW Used` drops registers whose
contents nothing reads before they are written again, and so does `MCRtlTop`'s `VIEW Live`. There the
packets are of two lists, one for a closed and one for an open stock: orders that are hidden need not
be sent in every company. In `MCRtlBook` the memories hold one of two contents before the reset
(`OldContents`), and `InitDelay` clocks may pass between the reset and the initialization.

**Constraints.** `ExpandOnce` does not follow a refused message, which leaves everything but the
result as it was. `ShortAfterLoss` follows runs a little way past the point where a component has
said that it lost track: what still holds there, L2's sums and the order of the stream, does not
depend on how long ago that was. `EveryOtherConcerns` sends at most one message in two that is for
another stock or market. `TwoShares` starts orders of the hardware table with two shares, so that a
reduction in part and one in full both occur; it also keeps at most one order an offer.

**Deadlock** is checked in `MCL3` and `MCRtlBook`. Elsewhere the run really may stop: after an exception nobody
catches (the model and its run end), after the first error of the hardware, which the tests
follow with a reset, or when the numbers the bounds allow are used up.

**Fairness and liveness.** `RtlBookFeed` states `WF_vars(Next)`: the clock never stops. Nothing is
assumed of the messages; the exchange may be silent for ever, and an order whose replacement is due
may wait for it. Under this fairness every message is answered (`EveryMessageAnswered`: no refill waits
for a level that never comes) and the book becomes ready after its reset (`BecomesReady`: the counters
that clear the memories and fill the tables come to their ends, whatever the order in which they
start). The other specifications state no fairness. The reference model is called and returns. The
one thing that should eventually happen there, that messages go on being handled after a lost packet,
does not happen in this code: there is no recovery, as `README.md:140-144` lists under its limitations.

## 4. What the runs found

Each is a property of a run that ends in a violation, with the line it contradicts in `PROJECT.json`.

1. `SpillNeverRaises`: an order that hashes to a full line raises `ValueError` from the format
   code of a log message (`l3_order_table.py:163`). `MCL3` checks the table with
   that statement repaired (`SpillLogRaises = FALSE`), the proofs hold with and without it: the line
   is the table's only fault.
2. `SpreadStaysPositive`: after "No shares in range for updt." the best bid that `BBO` keeps is stale;
   a later legal offer fails the assertion at `bbo.py:53`.
3. `DirectoryMayRepeat`: Control answers the locate on every directory message, Top asserts that it
   is set once (`top.py:78`).
4. `NoMessageMissing`: a packet refused for its length has used up its numbers
   (`moldudp64_parser.py:38`), so the next is accepted with messages missing between.
5. `CamFullOfLive`: in hardware an order deleted from the CAM is not cleared, since the slot is
   looked for by the id of the cleared word (`l3_order_table.sv:197`, `:324`).

Met on the way, without a run of their own:

* After the same loss as in 2 the registers of `BBO` are stale too: a reduction at a level they lost
  fails the assertion at `bbo.py:142`.
* The hardware takes the top 16 bits of the first packet's number unseen (`moldudp64_parser.sv:161`);
  `RtlMoldFeed` sends only first packets in which they are zero.
* The counter that fills the hardware's lookup tables has no reset (`l2_price_table.sv:680`). If it
  does not start at zero, or if the initialization comes more clocks after the reset than the
  window has ticks, the book says that it is ready with tables it has not filled. `MCRtlBook` has
  `CountsAtReset = {0}`, the power-up value of an FPGA's registers, and a short `InitDelay`. In general
  count and delay together must stay below the last place (`ResetAssumption`); where they do not,
  `TablesFilled` fails.
* A broken trade message ('B') must have 17 bytes in the reference (`itch_parser.py:288`) and 19 in
  the hardware (`itch_parser.sv:273`), the length of the ITCH specification. `ItchWire` leaves it out.
* `Control` answers some messages with an error, or fails an assertion, that the hardware lets pass: a
  repeated event, a halt of a stock that is halted, out of hours a message that is ignored or for
  another stock. `RtlTopFeed!Unwatched` says which; they are sent, and the comparison of errors leaves
  them out.

## 5. What is assumed of the surroundings

* The exchange (`Feed`, `Session`, `RtlL3Feed`): bids and offers of the live orders never meet;
  shares are positive; an id in use is not used again, but for the messages of `BadMsg`, which
  contradict what was sent and must be refused; events come in the order of the ITCH specification;
  a halt ends before it begins again. None of it is code of the repository, and the map marks it as
  external where it stands for messages.
* The network (`Session!Receivable`): any packet cut out of the stream sent so far, as often as it
  likes, whole or damaged, and empty packets of another session.
* The ITCH parser's timing (`RtlL3Feed`, `RtlBookFeed`): `oid_hash_o` is stable for two clocks before
  the message, and messages do not follow each other faster than their bytes can arrive. Both are
  properties of `MCRtlTop`.
* The packets of the hardware parser (`RtlMoldFeed!FeedAssumption`): a session is ten bytes, five halves of a
  word; a message has at least 4 bytes, so that no word holds two lengths, and at most 254, as
  `moldudp64_parser.sv:58` has it, which reads one byte of the length.
  The low parts of a sequence number take at least two values (`RtlMold!SeqPartsAssumption`).
* Ids, shares and prices are not zero (`RtlL3Feed!FeedAssumption`): zero is what a cleared line holds.
* The memory primitive (`RtlL3Ram!Read`): read latency of two clocks, as configured.
* The hardware book (`RtlBookFeed`): the market is not crossed, so that bids do not lie above the
  window nor offers below it; prices are on ticks and there are finitely many of them; shares are
  positive and do not overflow their registers (`QuotesAssumption`). The window's size is not a multiple
  of five, being a power of two (`params.py:27`), and so keeps two ticks from sharing an address. The
  initialization comes before the counter of the lookup tables passes its last place
  (`ResetAssumption`, section 4). After the first error nothing more is asked of it.
* The hardware top (`RtlTopFeed`): packets are ones the packet parser accepts, whole messages, and
  the result of one packet has left before the next begins, which the header words in front of
  its payload give it the time for. A message has 4 to 254 bytes, as for the packet parser, and its type
  says which kind it is (`RtlTopAssumption`). The book takes a fixed number of clocks (`RtlTop`).
* `RtlL3Feed` sends only messages that fit the live orders, with ids that are not zero, and holds
  the reset long enough for the tables it clears; it follows the table up to its first error.

## 6. What is proved

The reference model is proved as far as it is modelled: the order table, the session around the book,
and the book from L3 to the best levels, each for every value of the constants. So is each part of the
hardware: the order table, the packet parser, the book from its reset to its results, and ITCH parser,
Control and the gated results beside the reference. Every invariant and every refinement that a passing
run checks is a theorem.
Where nothing else is said a theorem assumes only what the modules declare next to their constants;
TLC evaluates these assumptions in every run.

| Module, theorem | Statement |
|---|---|
| `L3TableProofs!TypesHold` | `[]TypeOK`; with it, the assertion at `l3_order_table.py:92` never fails |
| `L3TableProofs!OneHomeHolds` | `[]OneHome`: no order is in its line and in the CAM |
| `L3TableProofs!CapacityHolds` | `[]WithinCapacity` |
| `L3TableProofs!Refinement` | `ImplementsStore`: the table implements the dictionary |
| `SessionProofs!TypesHold` | `[]TypeOK` |
| `SessionProofs!TopAlwaysFollowsControl` | `[]TopFollowsControl`, whatever was lost or refused |
| `SessionProofs!GateHolds` | `[]GateFollowsExchange` |
| `SessionProofs!BookHolds` | `[]BookFollowsStream` |
| `SessionProofs!NoAssertionHolds` | `[]NoAssertionFails`, if `DirectoryRepeats = FALSE` |
| `SessionProofs!StreamRefined` | `ImplementsStream`: the session implements `OrderedStream` |
| `BookProofs!L3Follows` | `[]L3FollowsExchange`, also for tables that overflow |
| `BookProofs!L2Aggregates` | `[]L2AggregatesL3`, whatever BBO answered |
| `BookProofs!FeedTypes` | `[]TypeOK` of the driven book |
| `BookProofs!BBOExactHolds` | `[]BBOExact` |
| `BookProofs!NoAssertionHolds` | `[]NoAssertionFails`, if `QuotesInMarket` and `NoSpillRaises` |
| `BookProofs!BookImplements` | `ImplementsOrderBook`, if `QuotesInMarket` and `NoSpillRaises` |
| `RtlL3Proofs!TypeInvariant` | `[]TypeOK` of the hardware order table and what drives it |
| `RtlL3Proofs!LinesAreLive` | `[]LinesHoldLive`: no line survives the reset, and none holds an order that is not live |
| `RtlL3Proofs!FoundAtMostOnce` | `[]NeverFoundTwice` |
| `RtlL3Proofs!ErrorsMeanFull` | `[]ErrorMeansFull` |
| `RtlL3Proofs!TableIsStore` | `ImplementsStore`: the hardware table implements the dictionary |
| `RtlMoldProofs!TypeInvariant` | `[]TypeOK` of the hardware packet parser and its reference |
| `RtlMoldProofs!ErrorsAreDue` | `[]NoFalseAlarm` |
| `RtlMoldProofs!ErrorsAreReported` | `[]NoErrorMissed` |
| `RtlMoldProofs!HardwareAgrees` | `[]AgreesBetweenPackets` |
| `RtlBookProofs!RtlBookTypes` | `[]TypeOK` of the hardware book |
| `RtlBookProofs!RtlBookLevels` | `[]L2Holds`: once ready and at rest both memories hold the shares of every price, and the marks are those of the levels that exist |
| `RtlBookProofs!RtlBookBest` | `[]BBOExact`: between refills the registers are the two best levels of their side and the counts those of all others |
| `RtlBookProofs!RtlBookResults` | `[]ResultExact`: each answer is the best bid and offer as of its message, also during a refill |
| `RtlBookProofs!RtlBookAlarm` | `[]NoFalseError`: no message comes too early for a refill; an error means a level out of the window |
| `RtlBookProofs!RtlBookPrices` | `[]PriceKnown`: shares are only taken from a level that is marked |
| `RtlTopProofs!PaceTheorem` | `[]KeepsPace`: lookups are as far apart as order table and book need them |
| `RtlTopProofs!FieldsTheorem` | `[]FieldsAligned`: every field handed on is the message's own |
| `RtlTopProofs!AddressTheorem` | `[]AddressInTime`: an order's address is shown the two clocks before its message |
| `RtlTopProofs!NoFalseAlarmTheorem` | `[]NoFalseAlarm` of the hardware top: it reports no error the reference does not find |
| `RtlTopProofs!NoErrorMissedTheorem` | `[]NoErrorMissed` of the hardware top: none it looks for is kept back |
| `RtlTopProofs!ControlTheorem` | `[]ControlAgrees`: between packets both hold the same hours, halts and locate |
| `RtlTopProofs!ResultsTheorem` | `[]ResultsMatch`: each result in its turn, shown or hidden as by the reference, and in time |

**The order table.** `L3TableProofs!IInv` joins the types of the two memories with `OneHome` and
`WithinCapacity`: none of the three is inductive alone, since whether an order is stored in a line or
in the CAM depends on where it is, and removing it from one memory removes it only if it is in no
other. `DeleteNotesSide` is what `TypeOK` lacks: after an accepted deletion `last_del_is_buy` is a side,
and `REPLACE` arrives only then. The lemmas of `L3Proofs` say what `SetItem`, `DelItem` and each message
do to `Contents`, seen as a dictionary; the table's own proofs and those of the book cite the same
lemmas.

**The session.** `SessionProofs!IInv` has six parts. `StreamInv` says that each message of the day
continues what its predecessor left: `Send` keeps with a message the exchange's state after it, so that
"what was true after message n" is a field and not a fold over the stream. `ExchangeInv` is the
exchange's present state, the last of those. `PositionInv` says where in the stream the parser, the
payload in hand and Control are: the payload's items have consecutive numbers, and until something is
lost Control has handled exactly what came before them. `TopInv` are the types of Control and Top.
`TopFollowsControl` holds of itself. `Synced`, until something is lost, says that hours, halts, locate
codes and the count of orders are those of the message handled last; from it the gate and the book's
share of the stream follow, and every assertion of Control and Top. `NoAssertionHolds` needs that no
directory message is sent twice: with a repetition the assertion at `top.py:78` does fail, as
`MCSessionDirectory` shows.

**L3 behind the exchange.** `FollowInv` is `L3FollowsExchange` with the table's invariant and with what
is known of the half of a `U` message still to come (`PendingInv`): its id is free, its order's side is
the one `last_del_is_buy` holds. Without the latter the second half could enter on the wrong side.

**L2.** `LevelInv` adds to it that the exchange's orders are not crossed, also with the half to come
(`MarketInv`), and `Exact`: the side sets name the prices with orders, the array holds at each of their
slots the sum of their shares, and every other slot is empty. Two facts carry it. Bids and offers share
an array slot by price, and no price is on both sides of an uncrossed book, so that a level's total is
one side's (`ApartFacts`). And two ticks of the window never share a slot (`HashApart`): the hash takes
consecutive ticks 25 slots apart, and 25 and the window's size have no common factor. That is what
`L2SizesAssumption` says with `L2_MEM_SIZE % 5 # 0`; the code's size is a power of two
(`params.py:27`). Sums are over any finite set of orders. The library's
fold is a recursive function whose existence has to be proved; `BookProofs` does so, and shows that one
order more or less adds or takes away its shares, by well-founded induction over the subsets of a set.

**BBO.** `BBOInv` adds to `LevelInv`: both halves have their types; the half of a `U` message still to
come is a quote; until an exception no order lies beyond the end of L2's window at which its side is best
(`RightSide`, what L2 asserts of `price_base`); and until BBO has answered that it lost track
`HalvesFollow`. The last says of each half that its registers are in order of price, that each has its
level's exact shares, that every level they leave out is worse than all of them and there is none as
long as a register is free (`RankedTo`), and that the counters are the sums of the shares left out, all
of them and those in the window (`Counted`); and that the two entries kept for the report are the first
registers. `BBOExact` states ranks and numbers of levels instead, which follow; `HalvesFollow` is the
form in which a step keeps it. `BookProofs` has one lemma for each outcome of the scan (`ModifiedFollows`,
`DepletedFollows`, `InsertedFollows`, `PutOutsideFollows`), one for the level pushed out (`PushedOut`)
and two for the refill: a positive counter of shares in the window means that L2 has a level to
supply (`SupplyFollows`), and the one it supplies is the best of those outside (`RefillFollows`). With
them no assertion of BBO fails: the scan finds the level of every order that shrinks or leaves
(`ScanFinds`), and an uncrossed book has a positive spread.

`QuotesInMarket` says of the exchange's quotes at ticks what the code asserts at
`l2_price_table.py:49-51` of `price_base`: no bid above the window and no offer below it. `NoSpillRaises`
excludes the exception of the log statement (section 4, item 1): either it is repaired or no line has
more ids that hash to it than places. Both are statements about constants, both hold in `MCFeed`, and
without them the assertion and the exception do occur. `BBOExactHolds` and `L2Aggregates` need neither: they
speak of what holds until an exception.

`BookImplements` maps the book to `OrderBook` with `orders <- Priced`, the orders L3 holds at a tick, and
the last answer as the report. Every step is one of its four: a message takes effect and the report is
exact; it is refused, by L3 or, off the tick, by L2, and changes nothing; track is lost, and then the order
does leave, because the shares that ran out are the whole of its level (`LosingLeaves`); or track has
been lost before, and the orders are still followed.

**The hardware order table.** What is stored depends on registers several clocks deep. `TablesHold` and
`NoneMissing` therefore look at the memories as they are with the write that is on its way already done
(`Written`, `CamWritten`). Seen so, every word of a line is a live order at home, as the exchange has it;
the CAM holds orders that live, as they are, and some that were deleted (section 4, item 5); an order
has one word in all; and no live order is without one, but the one whose error is about to be
reported. `LineComes` follows the read: while an address is shown nothing is written, and the line behind
it is on its way out of the memory, bypass included, as it stands. That is what makes messages safe that
come as close as the ITCH parser sends them. `ResetClears` says that the lines behind the count of the reset
are clear and that until the reset ends nothing is on its way to a line or to the CAM. `StillFits` keeps
with the message in hand that it fits the live orders, which was checked when its address was first
shown. With `TypeOK`, `FeedOK` and `ErrorMeansFull` these are inductive; `LinesHoldLive` and
`NeverFoundTwice` follow. For `TableIsStore` the dictionary holds the orders that the memories hold seen
in that way, and each of them is the exchange's (`StoreIsLive`): a clock in which a message is answered
is the dictionary's own step, accepted or for want of room refused, and every other clock is a stutter.

**The packet parser.** Hardware and reference agree between packets (`Between`); in a packet the
hardware is a few words into it while the reference has answered for the whole. `Follows` joins the
two. In the header (`InHeader`) the parser stands at the word of its state (`Place`); the halves of
the session and the parts of the number seen so far agree with what is kept (`Seen`), or the parser
learns them because it has none (`Compared`); and the reference accepts exactly if what is still to
come agrees too (`AcceptedInHeader`). Behind it (`InPayload`) the bytes left count to one byte behind
the last message whose length was read: four times the payload words so far and `bytes_left_q` make
up its `Start` and one. So the word in which the count runs out holds the next length at the place the
count says, whatever the residue (`LengthByte`); the count never wraps, with messages of 4 to 254 bytes; and
the word marked last is the one in which the last message ends exactly if the packet's length is right
(`LastIsLast`). That the sequence number is right part by part exactly if it is right (`SameSeq`) is
uniqueness of division with remainder, twice. Sums of lengths are again a fold of the library, whose
recursive function is shown to exist first (`AddsExists`).

**The ITCH parser.** `PaceTheorem`, `FieldsTheorem` and `AddressTheorem` hold for every set of packets of well-formed lengths, wherever a
word is late, up to and in the clock of the first error. Where a message begins is a number of bytes
(`Start`), here the cardinality of a set and not a fold, so that its laws (`StartNext`, `ByteOf`) are
those of finite sets. `InMsg` says that in a message `bytes_left_q` counts to the message's end. From it
`LineAt`: the place in the line and the words left give the byte of the message, whatever the
alignment; each type reads its fields from its own bytes (`OrderReads`, `ControlReads`), and the word
behind a message holds the next one's header (`HeaderRead`). Between messages the parser stands at a
border (`AtBorder`). The spacing is an argument about bytes: a message takes no more than four per
clock, so the quiet clocks bound the bytes of the message in hand (`Rests`: 4 * quiet + 7 is at least
what has come of it), and a message is passed on when at least 34, 21 or 17 of its bytes have come,
according to its type, which gives what `Needed` asks for (`Ripe`); the second half of a replacement
counts from its own first half (`Halves`). For the fields the invariant keeps what was read some words
before it is passed on: the locate's match (`Matched`), the id (`IdKept`), a deletion on its way
(`DelComes`), a control message (`CtrlComes`); for the locate, that no directory message comes between
the comparison and the passing on (`LocateKept`); for the address, that the id stays shown from the
clock it was read in until the message's.

**The hardware top.** The reference answers a message in the clock its first byte arrives; the hardware
hands it on with one of its last words, Control gets it a clock later, the book's result leaves three to
five clocks behind that. Up to two messages are thus answered and not done, one in the book and one in
the parser or just behind it. `Follows` bridges the two, message by message. `Due` is what Control of
the hardware holds, with what has been decoded for it and what has begun applied (`Applied`); it
is what the reference holds (`Agree`). `Owed` names where an error the reference has found is still to be
met: in the message in hand, in the one that has begun, with Control, or in an order passed on while
no messages should come. `Flow` says that the queue of expected results is the one on its way, if any,
and the one awaited, if any; the one awaited is an order of the stock as Control will see it then.
`Settled` is what makes this an invariant: no two results are on their way at once (`Alone`); the
book, with a refill of three clocks after any message that takes shares, never holds back a message
when the next comes (`Booked`, on the distances of `PaceTheorem`); what came before a control
message has left before Control acts on it (`Cleared`), so that neither an order's error nor the
result's gate sees the later state; and the stages are empty one after another behind the last word
(`DrainedBook`, `Drained`). A clock is split into what it does to the message in hand (`Turns`: the next
begins, a word, the last word, no word) and each part of the invariant is kept in each case. After a
refusal the order of errors no longer matters, only that one is still `Owed`; what the hardware does
not look at (`Unwatched`) leaves the queue's answers free and no more than that. The theorems hold for every
set of packets, every number of gaps, and every choice of which messages begin a refill.

**The hardware book.** `BookInv` follows a message through five clocks of two pipelines. The levels in
memory (`StoredInv`) lag the exchange's by the message in hand: each place holds the shares it had
`Before`, the word read in the message's own clock is among them, and the sum or difference about to be
written is the new level; the marks lag one clock more. Messages come far enough apart that there is one
in the pipeline at most, which `quiet`, the clocks since the last, bounds for each stage. The registers
know the levels without a message kept during a refill (`View`, `KeptInv`): only the second half of a
replacement comes that early, and for one clock. Of each half `HalvesInv` says that it is `Full` or
`Short`. In both its words show levels with their exact shares (`Right`), every level not shown is worse
(`Behind`), and the counts are the sums of the shares of those not shown, of all and of the window's
(`Beyond`). It is `Full` if a free word means that no level is left out, and `Short`, with the second
word missing but for its old price, which the levels left out stay behind, while a level is on its way. The form is the reference's (`HalvesFollow`), with a word
missing for three clocks instead of none. `RefillsInv` says which clock it is: the half asks, its
request is in `updt_q` with the place, then with the level; no other half is filled meanwhile, so that
the shared memory ports serve one side (`Alone`). `FoundInv` says what has been found: the bests of the
blocks of the levels not shown, the best of them, its price and its shares. That takes two facts from
before the refill: the pipeline never stops, and five clocks after a message it looks behind the second
word (`FollowsInv`), and whichever word the next message empties, what lies there are the levels not
shown; and the marks do not change in between (`StoredInv`). Since the half asks only when its count in
the window is not zero, there is a level to find. `BootInv` says the same of the time before the book is
ready: the places behind the count of the reset are cleared, those before the count of the tables are
filled, and no message comes; from it `StoredInv` begins.

A step is a clock with a message or without one (`Message`, `Passing`). What a message does to a half is
one of a few cases (`EffectCases`): its level takes the first word or the second, a level shown has
other shares or is gone, or the level is not shown. Each keeps `Full`, or makes it `Short`. Sums over
sets of prices are the library's fold again, over functions here. Two addresses of the window differ
(`WindowApart`) for the reason given for L2. `ResultExact` and `BBOExact` speak of the n-th best level
as the one with n - 1 better ones, and follow from `Full` and `Short` by counting them. `NoFalseError`
is part of the invariant: in the clock that raises an error a level is missing, the count of the window
is zero and the other is not, so that every level left out lies outside the window and the best of them
has fewer than two better (`BestOfSome` picks it).

Only model-checked: liveness (`EveryMessageAnswered`, `BecomesReady`), which is out of the prover's
reach, and the properties whose runs end in a violation. The induction theorems of the library take an operator as a
parameter, which the provers cannot instantiate; the induction over finite subsets (`FiniteInduction`) is
built from its well-foundedness theorem, whose parameters are sets, instead.

## 7. What is not modelled

* `L2` and `L3` with `ideal=True`: `OrderStore` stands for the ideal L3; L2's is left out.
* Messages of zero shares: they fail an assertion of L2, and an exchange sends none.
* Layout: the values of ITCH fields (a field is where it is read from), the order of bytes in a word,
  the text of the generated parameter package. The AXI interpreter of the model is there only as the
  whole packet it hands on, with the bytes of the last word counted.
* Message type 'B', on whose length the two sides differ (section 4).
* What follows the first error of a hardware module. The packet parser keeps `compare_q` after a
  mismatch in the second or third word and recognises no session until a reset; no document says
  what it should do.
* Overflow of the hardware's share registers, and a window of 2048 ticks: `RtlL2` is checked with 4.
* The entry points of `top.py` for tests, the `*_interface` and `*_synth` wrappers of the hardware, and
  the stimuli and random generators of simulation and tests. What drives the hardware there (reset and
  initialization, words and gaps, the queue of expected results) is in the feeds; what the tests
  expect is quoted by properties.

## 8. Plan

Done: the reference model from packet to best levels; the hardware module by module (order table,
packet parser, price table, BBO and book, ITCH parser, Control and top), each against the reference or
the abstract specification; the proofs of all of it (section 6).

Next, in this order:

1. `RtlL3` in front of `RtlBook`, the two composed instead of each with its own feed.
2. The hardware after an error, once its documents say what it should do.
