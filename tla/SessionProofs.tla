--------------------------- MODULE SessionProofs ---------------------------
(***************************************************************************)
(* Proofs about the reference model around its book: for every set of      *)
(* stocks and markets, however long the day, whatever the packets hold and *)
(* in whatever order the network brings them.                              *)
(***************************************************************************)
EXTENDS Session, SequenceTheorems, TLAPS

----------------------------------------------------------------------------
(* The exchange's stream: each message with what was true once it was sent *)
(* continues the day its predecessor left.                                 *)

Entry == [msg : ITCHMsg, said : 0 .. 6, listed : SUBSET Symbols,
          trading : BOOLEAN, halted : BOOLEAN, open : BOOLEAN, orders : Nat]

DayBegins == [said |-> 0, listed |-> {}, trading |-> FALSE, halted |-> FALSE,
              open |-> FALSE, orders |-> 0]

(* What was true once message n was sent. *)
AsOf(n) == IF n = 0 THEN DayBegins ELSE sent[n]

IsOrder(msg) == msg.kind = "BOOK" /\ msg.stock_locate = locate_of[stock_symbol]

EventFollows(d, e) ==
  /\ d.said < 6 /\ e.said = d.said + 1
  /\ e.msg = [kind |-> "EVENT", event_code |-> EventCodes[e.said]]
  /\ e.listed = d.listed /\ e.trading = d.trading /\ e.halted = d.halted

DirectoryFollows(d, e) ==
  /\ e.msg.kind = "DIRECTORY"
  /\ e.msg.stock_symbol \in d.listed => DirectoryRepeats
  /\ e.msg.stock_locate = locate_of[e.msg.stock_symbol]
  /\ e.listed = d.listed \cup {e.msg.stock_symbol}
  /\ e.trading = d.trading /\ e.halted = d.halted

ActionFollows(d, e) ==
  /\ e.msg.kind = "ACTION"
  /\ e.trading = IF e.msg.stock_symbol = stock_symbol THEN e.msg.trade_action = "TRADE"
                 ELSE d.trading
  /\ e.listed = d.listed /\ e.halted = d.halted

HaltFollows(d, e) ==
  /\ e.msg.kind = "HALT"
  /\ IF e.msg.stock_symbol = stock_symbol /\ e.msg.market_code = market_code
     THEN e.msg.is_halt = ~d.halted /\ e.halted = e.msg.is_halt
     ELSE e.halted = d.halted
  /\ e.listed = d.listed /\ e.trading = d.trading

QuietFollows(d, e) ==
  /\ e.msg.kind \in {"BOOK", "IGNORE"}
  /\ e.listed = d.listed /\ e.trading = d.trading /\ e.halted = d.halted

Follows(d, e) ==
  /\ e.open = (e.said \in 2 .. 4 /\ e.trading /\ ~e.halted)
  /\ e.orders = IF IsOrder(e.msg) THEN d.orders + 1 ELSE d.orders
  /\ \/ EventFollows(d, e)
     \/ /\ d.said \in 1 .. 5 /\ e.said = d.said
        /\ \/ DirectoryFollows(d, e) \/ ActionFollows(d, e)
           \/ HaltFollows(d, e) \/ QuietFollows(d, e)

StreamInv ==
  /\ sent \in Seq(Entry)
  /\ \A n \in DOMAIN sent : Follows(AsOf(n - 1), sent[n])

(* The exchange's own state is what was true after its last message. *)
ExchangeInv ==
  LET now == AsOf(Len(sent))
  IN  /\ said = now.said /\ listed = now.listed
      /\ trading = now.trading /\ halted = now.halted

----------------------------------------------------------------------------
(* The parser, Control and Top. *)

(* Number of the message before the first in the payload. *)
Before == seq_expected - 1 - Len(payload)

Items == [number : Nat \ {0}, parses : BOOLEAN]

(* The payload's messages end right before the number expected next, and   *)
(* begin behind those handled; right behind them as long as nothing was    *)
(* left out.                                                               *)
PositionInv ==
  /\ seq_expected \in 1 .. Len(sent) + 1
  /\ session_id \in Sessions \cup {Mold!NoSession}
  /\ first_pkt_received \in BOOLEAN
  /\ payload \in Seq(Items)
  /\ \A i \in DOMAIN payload : payload[i].number = Before + i
  /\ Before >= 0
  /\ taken \in Nat /\ taken < seq_expected
  /\ ~Stopped => taken <= Before
  /\ ~Stopped /\ ~lossy => taken = Before

TopInv ==
  /\ {initialized, msg_hours, sys_hours, mkt_hours, stock_halt, market_halt,
      stock_active, lossy} \subseteq BOOLEAN
  /\ ctrl_locate \in Locates \cup {NoLocate} /\ stock_locate \in Locates \cup {NoLocate}
  /\ answer \in [kind : {"none", "quiet", "best", "error", "exception"}, shown : BOOLEAN]
  /\ applied \in Nat /\ applied <= taken

(* What Control, Top and the book hold is what was true after the message  *)
(* handled last.                                                           *)
Synced ==
  LET then == AsOf(taken)
  IN  /\ msg_hours = (then.said \in 1 .. 5)
      /\ sys_hours = (then.said \in 2 .. 4)
      /\ mkt_hours = (then.said = 3)
      /\ stock_halt = ~then.trading
      /\ market_halt = then.halted
      /\ ctrl_locate = (IF stock_symbol \in then.listed THEN locate_of[stock_symbol] ELSE NoLocate)
      /\ stock_locate = ctrl_locate
      /\ applied = then.orders

IInv ==
  /\ StreamInv /\ ExchangeInv
  /\ PositionInv /\ TopInv /\ TopFollowsControl
  /\ ~lossy /\ ~Stopped => Synced

----------------------------------------------------------------------------
(* The exchange's steps. *)

(* What the fields of a message range over, by its kind.                   *)
LEMMA MsgFacts ==
  ASSUME NEW msg \in ITCHMsg
  PROVE  /\ msg.kind \in {"EVENT", "DIRECTORY", "ACTION", "HALT", "BOOK", "IGNORE"}
         /\ msg.kind = "EVENT" => msg \in SystemEventMsg
         /\ msg.kind = "DIRECTORY" => msg \in DirectoryMsg
         /\ msg.kind = "ACTION" => msg \in TradeActionMsg
         /\ msg.kind = "HALT" => msg \in OpHaltMsg
         /\ msg.kind = "BOOK" => msg \in ITCHBookMsg
BY DEF ITCHMsg, SystemEventMsg, DirectoryMsg, TradeActionMsg, OpHaltMsg, ITCHBookMsg, IgnoreMsg

(* What was true after a message is an entry's, also before the first.     *)
LEMMA AsOfType ==
  ASSUME StreamInv, NEW n \in 0 .. Len(sent)
  PROVE  /\ AsOf(n).said \in 0 .. 6 /\ AsOf(n).listed \subseteq Symbols
         /\ AsOf(n).trading \in BOOLEAN /\ AsOf(n).halted \in BOOLEAN
         /\ AsOf(n).open \in BOOLEAN /\ AsOf(n).orders \in Nat
<1>1. CASE n = 0
  BY <1>1 DEF AsOf, DayBegins
<1>2. CASE n # 0
  <2>1. sent[n] \in Entry
    BY <1>2 DEF StreamInv
  <2> QED BY <1>2, <2>1 DEF AsOf, Entry
<1> QED BY <1>1, <1>2

(* A message that follows what was sent extends the stream, and leaves     *)
(* what was true before it as it was.                                      *)
LEMMA AppendStep ==
  ASSUME StreamInv, NEW e \in Entry, Follows(AsOf(Len(sent)), e), sent' = Append(sent, e)
  PROVE  /\ StreamInv'
         /\ Len(sent') = Len(sent) + 1
         /\ \A n \in DOMAIN sent : sent'[n] = sent[n]
         /\ sent'[Len(sent')] = e
<1>1. sent \in Seq(Entry) /\ Len(sent) \in Nat /\ DOMAIN sent = 1 .. Len(sent)
  BY DEF StreamInv
<1>2. /\ sent' \in Seq(Entry)
      /\ Len(sent') = Len(sent) + 1
      /\ \A n \in 1 .. Len(sent) : sent'[n] = sent[n]
      /\ sent'[Len(sent) + 1] = e
  BY <1>1, AppendProperties
<1>3. DOMAIN sent' = 1 .. Len(sent) + 1
  BY <1>2
<1>4. ASSUME NEW n \in DOMAIN sent' PROVE Follows(AsOf(n - 1)', sent'[n])
  <2>1. n \in 1 .. Len(sent) + 1
    BY <1>3
  <2>2. AsOf(n - 1)' = AsOf(n - 1)
    BY <1>1, <1>2, <2>1 DEF AsOf
  <2>3. CASE n = Len(sent) + 1
    BY <1>1, <1>2, <2>2, <2>3
  <2>4. CASE n \in 1 .. Len(sent)
    BY <1>1, <1>2, <2>2, <2>4 DEF StreamInv
  <2> QED BY <1>1, <2>1, <2>3, <2>4
<1>5. StreamInv'
  BY <1>2, <1>4 DEF StreamInv, Follows
<1> QED BY <1>1, <1>2, <1>5

(* The entry Send appends. *)
NewEntry(msg) ==
  [msg     |-> msg,
   said    |-> said', listed |-> listed', trading |-> trading', halted |-> halted',
   open    |-> Open',
   orders  |-> IF IsOrder(msg) THEN SentSoFar + 1 ELSE SentSoFar]

(* The orders counted so far are those counted after the last message. *)
LEMMA SentSoFarFacts ==
  ASSUME StreamInv
  PROVE  SentSoFar = AsOf(Len(sent)).orders
<1>1. sent = <<>> <=> Len(sent) = 0
  BY EmptySeq DEF StreamInv
<1> QED BY <1>1 DEF SentSoFar, AsOf, DayBegins

(* The exchange's own state has the type of an entry's fields. *)
LEMMA ExchangeType ==
  ASSUME StreamInv, ExchangeInv
  PROVE  /\ said \in 0 .. 6 /\ listed \subseteq Symbols
         /\ trading \in BOOLEAN /\ halted \in BOOLEAN
<1>1. Len(sent) \in 0 .. Len(sent)
  BY DEF StreamInv
<1> QED BY <1>1, AsOfType DEF ExchangeInv

(* Sending a message after a legal change of the day extends the stream.   *)
LEMMA SendStep ==
  ASSUME StreamInv, ExchangeInv, NEW msg \in ITCHMsg, Send(msg),
         said' \in 0 .. 6, listed' \subseteq Symbols, trading' \in BOOLEAN, halted' \in BOOLEAN,
         LET d == AsOf(Len(sent)) e == NewEntry(msg)
         IN  EventFollows(d, e)
             \/ (d.said \in 1 .. 5 /\ e.said = d.said
                 /\ (DirectoryFollows(d, e) \/ ActionFollows(d, e)
                     \/ HaltFollows(d, e) \/ QuietFollows(d, e)))
  PROVE  StreamInv' /\ ExchangeInv' /\ Len(sent') = Len(sent) + 1
         /\ \A n \in DOMAIN sent : sent'[n] = sent[n]
<1> DEFINE e == NewEntry(msg)
<1>0. Len(sent) \in 0 .. Len(sent) /\ Len(sent) \in Nat
  BY DEF StreamInv
<1>1. SentSoFar \in Nat /\ SentSoFar = AsOf(Len(sent)).orders
  BY <1>0, SentSoFarFacts, AsOfType
<1>2. e \in Entry
  BY <1>1 DEF NewEntry, Entry, Open
<1>3. sent' = Append(sent, e)
  BY DEF Send, NewEntry, IsOrder
<1>4. Follows(AsOf(Len(sent)), e)
  <2>1. e.open = (e.said \in 2 .. 4 /\ e.trading /\ ~e.halted)
    BY DEF NewEntry, Open
  <2>2. e.orders = IF IsOrder(e.msg) THEN AsOf(Len(sent)).orders + 1 ELSE AsOf(Len(sent)).orders
    BY <1>1 DEF NewEntry
  <2> QED BY <2>1, <2>2 DEF Follows
<1> HIDE DEF e
<1>5. /\ StreamInv' /\ Len(sent') = Len(sent) + 1
      /\ \A n \in DOMAIN sent : sent'[n] = sent[n]
      /\ sent'[Len(sent')] = e
  BY <1>2, <1>3, <1>4, AppendStep
<1>6. AsOf(Len(sent))' = e
  BY <1>0, <1>5 DEF AsOf
<1>7. ExchangeInv'
  BY <1>6 DEF ExchangeInv, e, NewEntry
<1> QED BY <1>5, <1>7

(* Whatever the exchange publishes continues its stream. *)
LEMMA PublishStep ==
  ASSUME StreamInv, ExchangeInv, Publish
  PROVE  StreamInv' /\ ExchangeInv' /\ Len(sent') = Len(sent) + 1
         /\ \A n \in DOMAIN sent : sent'[n] = sent[n]
<1> DEFINE d == AsOf(Len(sent))
<1>0. /\ said \in 0 .. 6 /\ listed \subseteq Symbols /\ trading \in BOOLEAN /\ halted \in BOOLEAN
      /\ d.said = said /\ d.listed = listed /\ d.trading = trading /\ d.halted = halted
  BY ExchangeType DEF ExchangeInv
<1> HIDE DEF d
<1>1. CASE PublishEvent
  <2> DEFINE msg == [kind |-> "EVENT", event_code |-> EventCodes[said + 1]]
  <2>1. said < 6 /\ said' = said + 1 /\ UNCHANGED <<listed, trading, halted>> /\ Send(msg)
    BY <1>1 DEF PublishEvent, EventCodes
  <2>2. msg \in ITCHMsg
    BY <1>0, <2>1 DEF ITCHMsg, SystemEventMsg, EventCodes
  <2>3. EventFollows(d, NewEntry(msg))
    BY <1>0, <2>1 DEF EventFollows, NewEntry
  <2> QED BY <1>0, <2>1, <2>2, <2>3, SendStep DEF d
<1>2. CASE PublishDirectory
  <2>1. PICK s \in Symbols :
          /\ OpenForMessages
          /\ s \in listed => DirectoryRepeats
          /\ listed' = listed \cup {s}
          /\ UNCHANGED <<said, trading, halted>>
          /\ Send([kind |-> "DIRECTORY", stock_symbol |-> s, stock_locate |-> locate_of[s]])
    BY <1>2 DEF PublishDirectory
  <2> DEFINE msg == [kind |-> "DIRECTORY", stock_symbol |-> s, stock_locate |-> locate_of[s]]
  <2>2. msg \in ITCHMsg
    BY DEF ITCHMsg, DirectoryMsg, Locates
  <2>3. DirectoryFollows(d, NewEntry(msg))
    BY <1>0, <2>1 DEF DirectoryFollows, NewEntry
  <2>4. d.said \in 1 .. 5 /\ NewEntry(msg).said = d.said
    BY <1>0, <2>1 DEF OpenForMessages, NewEntry
  <2> QED BY <1>0, <2>1, <2>2, <2>3, <2>4, SendStep DEF d
<1>3. CASE PublishTradeAction
  <2>1. PICK s \in listed, action \in {"HALT", "TRADE"} :
          /\ OpenForMessages
          /\ trading' = IF s = stock_symbol THEN action = "TRADE" ELSE trading
          /\ UNCHANGED <<said, listed, halted>>
          /\ Send([kind |-> "ACTION", stock_symbol |-> s, trade_action |-> action])
    BY <1>3 DEF PublishTradeAction
  <2> DEFINE msg == [kind |-> "ACTION", stock_symbol |-> s, trade_action |-> action]
  <2>2. msg \in ITCHMsg
    BY <1>0 DEF ITCHMsg, TradeActionMsg
  <2>3. ActionFollows(d, NewEntry(msg))
    BY <1>0, <2>1 DEF ActionFollows, NewEntry
  <2>4. d.said \in 1 .. 5 /\ NewEntry(msg).said = d.said
    BY <1>0, <2>1 DEF OpenForMessages, NewEntry
  <2>5. trading' \in BOOLEAN
    BY <1>0, <2>1
  <2> QED BY <1>0, <2>1, <2>2, <2>3, <2>4, <2>5, SendStep DEF d
<1>4. CASE PublishOpHalt
  <2>1. PICK s \in listed, m \in MarketCodes, is_halt \in BOOLEAN :
          /\ OpenForMessages
          /\ IF s = stock_symbol /\ m = market_code
             THEN is_halt = ~halted /\ halted' = is_halt
             ELSE UNCHANGED halted
          /\ UNCHANGED <<said, listed, trading>>
          /\ Send([kind |-> "HALT", stock_symbol |-> s, market_code |-> m, is_halt |-> is_halt])
    BY <1>4 DEF PublishOpHalt
  <2> DEFINE msg == [kind |-> "HALT", stock_symbol |-> s, market_code |-> m, is_halt |-> is_halt]
  <2>2. msg \in ITCHMsg
    BY <1>0 DEF ITCHMsg, OpHaltMsg
  <2>3. HaltFollows(d, NewEntry(msg))
    BY <1>0, <2>1 DEF HaltFollows, NewEntry
  <2>4. d.said \in 1 .. 5 /\ NewEntry(msg).said = d.said
    BY <1>0, <2>1 DEF OpenForMessages, NewEntry
  <2>5. halted' \in BOOLEAN
    BY <1>0, <2>1
  <2> QED BY <1>0, <2>1, <2>2, <2>3, <2>4, <2>5, SendStep DEF d
<1>5. CASE PublishOrder
  <2>1. PICK s \in listed :
          /\ OpenForMessages
          /\ UNCHANGED <<said, listed, trading, halted>>
          /\ Send([kind |-> "BOOK", stock_locate |-> locate_of[s]])
    BY <1>5 DEF PublishOrder
  <2> DEFINE msg == [kind |-> "BOOK", stock_locate |-> locate_of[s]]
  <2>2. msg \in ITCHMsg
    BY <1>0 DEF ITCHMsg, ITCHBookMsg, Locates
  <2>3. QuietFollows(d, NewEntry(msg))
    BY <1>0, <2>1 DEF QuietFollows, NewEntry
  <2>4. d.said \in 1 .. 5 /\ NewEntry(msg).said = d.said
    BY <1>0, <2>1 DEF OpenForMessages, NewEntry
  <2> QED BY <1>0, <2>1, <2>2, <2>3, <2>4, SendStep DEF d
<1>6. CASE PublishIgnored
  <2> DEFINE msg == [kind |-> "IGNORE"]
  <2>1. OpenForMessages /\ UNCHANGED <<said, listed, trading, halted>> /\ Send(msg)
    BY <1>6 DEF PublishIgnored
  <2>2. msg \in ITCHMsg
    BY DEF ITCHMsg, IgnoreMsg
  <2>3. QuietFollows(d, NewEntry(msg))
    BY <1>0, <2>1 DEF QuietFollows, NewEntry
  <2>4. d.said \in 1 .. 5 /\ NewEntry(msg).said = d.said
    BY <1>0, <2>1 DEF OpenForMessages, NewEntry
  <2> QED BY <1>0, <2>1, <2>2, <2>3, <2>4, SendStep DEF d
<1> QED BY <1>1, <1>2, <1>3, <1>4, <1>5, <1>6 DEF Publish

(* The whole invariant survives what the exchange publishes.               *)
LEMMA PublishInv ==
  ASSUME IInv, Publish
  PROVE  IInv'
<1>0. StreamInv /\ ExchangeInv /\ PositionInv
  BY DEF IInv
<1>1. /\ StreamInv' /\ ExchangeInv' /\ Len(sent') = Len(sent) + 1
      /\ \A n \in DOMAIN sent : sent'[n] = sent[n]
  BY <1>0, PublishStep
<1>2. UNCHANGED <<mold_vars, control_vars, top_vars, payload, answer, ghost_vars>>
  BY DEF Publish
<1>3. Len(sent) \in Nat /\ DOMAIN sent = 1 .. Len(sent) /\ taken \in 0 .. Len(sent)
  BY <1>0 DEF StreamInv, PositionInv
<1>4. PositionInv'
  BY <1>0, <1>1, <1>2, <1>3 DEF PositionInv, Before, Stopped, mold_vars, ghost_vars
<1>5. TopInv' /\ TopFollowsControl'
  BY <1>2 DEF IInv, TopInv, TopFollowsControl, Ctrl!StockActive, Stopped,
              control_vars, top_vars, ghost_vars
<1>6. AsOf(taken)' = AsOf(taken)
  BY <1>1, <1>2, <1>3 DEF AsOf, ghost_vars
<1>7. Synced => Synced'
  BY <1>2, <1>6 DEF Synced, control_vars, top_vars, ghost_vars
<1>8. ~lossy' /\ ~Stopped' => Synced'
  BY <1>2, <1>7 DEF IInv, Stopped, ghost_vars
<1> QED BY <1>1, <1>4, <1>5, <1>8 DEF IInv

(* As long as the exchange is silent, its part of the invariant stays.     *)
LEMMA SilentStep ==
  ASSUME StreamInv, ExchangeInv, UNCHANGED exchange_vars
  PROVE  /\ StreamInv' /\ ExchangeInv'
         /\ \A n : AsOf(n)' = AsOf(n)
BY DEF StreamInv, ExchangeInv, exchange_vars, AsOf, Follows

----------------------------------------------------------------------------
(* Packets and parameters. *)

(* init_params touches nothing the invariant relates. *)
LEMMA InitParamsInv ==
  ASSUME IInv, InitParams
  PROVE  IInv'
<1>1. /\ UNCHANGED <<exchange_vars, mold_vars, top_vars, payload, answer, ghost_vars>>
      /\ initialized' = TRUE
      /\ UNCHANGED <<msg_hours, sys_hours, mkt_hours, stock_halt, market_halt, ctrl_locate>>
  BY DEF InitParams, Ctrl!InitParams
<1>2. StreamInv' /\ ExchangeInv' /\ AsOf(taken)' = AsOf(taken)
  BY <1>1, SilentStep DEF IInv, ghost_vars, AsOf, exchange_vars
<1>3. PositionInv'
  BY <1>1 DEF IInv, PositionInv, Before, Stopped, mold_vars, ghost_vars, exchange_vars
<1>4. TopInv' /\ TopFollowsControl'
  BY <1>1 DEF IInv, TopInv, TopFollowsControl, Ctrl!StockActive, Stopped, top_vars, ghost_vars
<1>5. ~lossy' /\ ~Stopped' => Synced'
  BY <1>1, <1>2 DEF IInv, Synced, Stopped, top_vars, ghost_vars
<1> QED BY <1>2, <1>3, <1>4, <1>5 DEF IInv

(* A packet, accepted or refused: numbers are used up only together with   *)
(* messages to hand on, or with the loss of a packet cut short.            *)
LEMMA ReceiveInv ==
  ASSUME IInv, ReceivePacket
  PROVE  IInv'
<1>0. StreamInv /\ ExchangeInv /\ PositionInv
  BY DEF IInv
<1>1. PICK pkt \in Mold!Packet(Sessions, 1 .. Len(sent) + 1, 0 .. MaxCount), bad \in 0 .. MaxCount :
        /\ Receivable(pkt)
        /\ Mold!ProcessPkt(pkt)
        /\ IF Mold!Outcome(pkt) = "ok"
           THEN payload' = Messages(pkt, bad) /\ UNCHANGED <<answer, lossy>>
           ELSE /\ UNCHANGED payload
                /\ answer' = Error
                /\ lossy' = (lossy \/ Mold!Outcome(pkt) = "bad_length")
  BY DEF ReceivePacket
<1>2. ~Stopped /\ payload = <<>> /\ UNCHANGED <<exchange_vars, control_vars, top_vars, taken, applied>>
  BY DEF ReceivePacket
<1>3. /\ pkt.session_id \in Sessions /\ pkt.seq \in 1 .. Len(sent) + 1
      /\ pkt.msg_count \in Nat /\ pkt.shape \in {"whole", "cut", "short"}
      /\ Len(sent) \in Nat
  BY <1>0, SessionAssumption DEF Mold!Packet, StreamInv
<1>4. Before = seq_expected - 1 /\ taken <= Before /\ (~lossy => taken = Before)
  BY <1>0, <1>2 DEF PositionInv, Before
<1>5. StreamInv' /\ ExchangeInv' /\ AsOf(taken)' = AsOf(taken)
  BY <1>0, <1>2, SilentStep DEF exchange_vars, AsOf
<1>6. session_id' \in Sessions \cup {Mold!NoSession} /\ first_pkt_received' \in BOOLEAN
  BY <1>0, <1>1, <1>3
  DEF Mold!ProcessPkt, Mold!FollowSession, Mold!Session, Mold!mold_vars, PositionInv
<1>7. Mold!Outcome(pkt) \in {"too_short", "session_mismatch", "seq_mismatch", "bad_length", "ok"}
  BY DEF Mold!Outcome
<1>8. Mold!Outcome(pkt) \in {"bad_length", "ok"} =>
        pkt.seq = seq_expected /\ seq_expected' = seq_expected + pkt.msg_count
        /\ seq_expected + pkt.msg_count - 1 <= Len(sent)
  BY <1>1, <1>3 DEF Mold!Outcome, Mold!ProcessPkt, Receivable
<1>9. Mold!Outcome(pkt) \notin {"bad_length", "ok"} => seq_expected' = seq_expected
  BY <1>1 DEF Mold!ProcessPkt, Mold!mold_vars
<1>10. CASE Mold!Outcome(pkt) = "ok"
  <2>1. payload' = Messages(pkt, bad) /\ UNCHANGED <<answer, lossy>>
    BY <1>1, <1>10
  <2>2. /\ payload' \in Seq(Items) /\ Len(payload') = pkt.msg_count
        /\ DOMAIN payload' = 1 .. pkt.msg_count
        /\ \A i \in 1 .. pkt.msg_count : payload'[i].number = pkt.seq + i - 1
    <3>1. \A i \in 1 .. pkt.msg_count :
            [number |-> pkt.seq + i - 1, parses |-> i # bad] \in Items
      BY <1>3 DEF Items
    <3>2. payload' \in [1 .. pkt.msg_count -> Items]
      BY <2>1, <3>1 DEF Messages
    <3>3. payload' \in Seq(Items)
      BY <1>3, <3>2, SeqDef
    <3>4. DOMAIN payload' = 1 .. pkt.msg_count /\ Len(payload') = pkt.msg_count
      BY <1>3, <3>2, <3>3, LenProperties
    <3> QED BY <2>1, <3>3, <3>4 DEF Messages
  <2>3. Before' = seq_expected - 1
    BY <1>0, <1>3, <1>8, <1>10, <2>2 DEF Before, PositionInv
  <2>4. PositionInv'
    <3>1. seq_expected' \in 1 .. Len(sent') + 1
      BY <1>0, <1>2, <1>3, <1>8, <1>10 DEF exchange_vars, PositionInv
    <3>2. ASSUME NEW i \in DOMAIN payload' PROVE payload'[i].number = Before' + i
      <4>1. i \in Nat /\ payload'[i].number = pkt.seq + i - 1
        BY <1>3, <2>2
      <4>2. seq_expected \in Nat /\ pkt.seq = seq_expected
        BY <1>0, <1>3, <1>8, <1>10 DEF PositionInv
      <4> QED BY <2>3, <4>1, <4>2
    <3>3. taken' \in Nat /\ taken' < seq_expected' /\ taken' <= Before'
      BY <1>0, <1>2, <1>3, <1>4, <1>8, <1>10, <2>3 DEF PositionInv
    <3> QED BY <1>0, <1>2, <1>4, <1>6, <2>1, <2>2, <2>3, <3>1, <3>2, <3>3 DEF PositionInv, Stopped
  <2> QED
    BY <1>2, <1>5, <2>1, <2>4
    DEF IInv, TopInv, TopFollowsControl, Ctrl!StockActive, Stopped, Synced, control_vars, top_vars
<1>11. CASE Mold!Outcome(pkt) # "ok"
  <2>1. /\ payload' = <<>> /\ answer' = Error
        /\ lossy' = (lossy \/ Mold!Outcome(pkt) = "bad_length")
    BY <1>1, <1>2, <1>11
  <2>2. ~Stopped' /\ lossy \in BOOLEAN /\ lossy' \in BOOLEAN
    BY <1>7, <2>1 DEF Stopped, Error, Answer, IInv, TopInv
  <2>0. /\ seq_expected \in Nat \ {0} /\ seq_expected <= Len(sent) + 1 /\ taken \in Nat
        /\ Len(sent) \in Nat /\ UNCHANGED <<sent, taken>>
    BY <1>0, <1>2, <1>3 DEF PositionInv, exchange_vars
  <2>3. PICK k \in Nat :
          /\ seq_expected' = seq_expected + k
          /\ seq_expected + k - 1 <= Len(sent)
          /\ ~lossy' => (k = 0 /\ ~lossy)
    <3>1. CASE Mold!Outcome(pkt) = "bad_length"
      BY <1>3, <1>8, <2>1, <3>1
    <3>2. CASE Mold!Outcome(pkt) # "bad_length"
      <4>1. seq_expected' = seq_expected + 0 /\ seq_expected + 0 - 1 <= Len(sent)
        BY <1>0, <1>3, <1>9, <1>11, <3>2 DEF PositionInv
      <4> QED BY <2>1, <4>1
    <3> QED BY <3>1, <3>2
  <2>4. PositionInv'
    <3>1. seq_expected' \in 1 .. Len(sent') + 1
      BY <2>0, <2>3
    <3>2. Before' = seq_expected + k - 1
      BY <2>0, <2>1, <2>3 DEF Before
    <3>3. taken' \in Nat /\ taken' < seq_expected' /\ taken' <= Before' /\ (~lossy' => taken' = Before')
      BY <1>4, <2>0, <2>3, <3>2
    <3>4. payload' \in Seq(Items) /\ DOMAIN payload' = {}
      BY <2>1
    <3>5. Before' >= 0
      BY <2>0, <2>3, <3>2
    <3> QED BY <1>6, <3>1, <3>3, <3>4, <3>5 DEF PositionInv
  <2>5. ~lossy' => ~lossy
    BY <2>1
  <2> QED
    BY <1>2, <1>5, <2>1, <2>2, <2>4, <2>5
    DEF IInv, TopInv, TopFollowsControl, Ctrl!StockActive, Stopped, Synced, Error, Answer,
        control_vars, top_vars
<1> QED BY <1>10, <1>11

----------------------------------------------------------------------------
(* Messages. *)

(* The message in hand is the one after those handled or dropped before.   *)
LEMMA TakingFacts ==
  ASSUME IInv, Taking
  PROVE  /\ Len(payload) \in Nat \ {0} /\ Before \in Nat /\ Before + 1 \in 1 .. Len(sent)
         /\ Before = seq_expected - 1 - Len(payload)
         /\ ~Stopped /\ taken <= Before /\ taken' = Before + 1
         /\ Msg = sent[Before + 1].msg /\ Msg \in ITCHMsg
         /\ Follows(AsOf(Before), sent[Before + 1])
         /\ AsOf(taken)' = sent[Before + 1]
         /\ ~lossy => taken = Before /\ Synced
<1>0. StreamInv /\ PositionInv
  BY DEF IInv
<1>1. ~Stopped /\ payload # <<>> /\ taken' = Item.number /\ UNCHANGED <<exchange_vars, mold_vars>>
  BY DEF Taking
<1>2. payload \in Seq(Items) /\ Len(payload) \in Nat \ {0} /\ DOMAIN payload = 1 .. Len(payload)
  BY <1>0, <1>1, EmptySeq DEF PositionInv
<1>3. Item = payload[1]
  BY <1>1, <1>2, HeadTailProperties DEF Item
<1>4. Item.number = Before + 1
  BY <1>0, <1>2, <1>3 DEF PositionInv
<1>5. /\ Before \in Nat /\ Before = seq_expected - 1 - Len(payload) /\ Len(sent) \in Nat
      /\ Before + 1 \in 1 .. Len(sent)
  BY <1>0, <1>2 DEF PositionInv, Before, StreamInv
<1>6. DOMAIN sent = 1 .. Len(sent) /\ sent[Before + 1] \in Entry
  BY <1>0, <1>5 DEF StreamInv
<1>7. Msg = sent[Before + 1].msg /\ Msg \in ITCHMsg
  BY <1>4, <1>6 DEF Msg, Entry
<1>8. Follows(AsOf(Before), sent[Before + 1])
  <2>1. Follows(AsOf(Before + 1 - 1), sent[Before + 1])
    BY <1>0, <1>5, <1>6 DEF StreamInv
  <2>2. Before + 1 - 1 = Before
    BY <1>5
  <2> QED BY <2>1, <2>2
<1>9. AsOf(taken)' = sent[Before + 1]
  BY <1>1, <1>4, <1>5 DEF AsOf, exchange_vars
<1> QED BY <1>0, <1>1, <1>2, <1>4, <1>5, <1>7, <1>8, <1>9 DEF IInv, PositionInv

(* Handling the message, dropping it with the rest of its packet, or       *)
(* stopping at it leaves the payload where the invariant wants it.         *)
LEMMA PositionStep ==
  ASSUME IInv, Taking,
         \/ Fail
         \/ payload' = Tail(payload) /\ lossy' = lossy
         \/ payload' = payload /\ Stopped'
  PROVE  PositionInv'
<1>0. PositionInv /\ StreamInv
  BY DEF IInv
<1>1. /\ Len(payload) \in Nat \ {0} /\ Before \in Nat /\ Before + 1 \in 1 .. Len(sent)
      /\ Before = seq_expected - 1 - Len(payload) /\ taken' = Before + 1
  BY TakingFacts
<1>2. UNCHANGED <<sent, seq_expected, session_id, first_pkt_received>>
  BY DEF Taking, exchange_vars, mold_vars
<1>3. /\ seq_expected \in Nat \ {0} /\ seq_expected <= Len(sent) + 1
      /\ payload \in Seq(Items) /\ DOMAIN payload = 1 .. Len(payload)
      /\ \A i \in DOMAIN payload : payload[i].number = Before + i
  BY <1>0 DEF PositionInv
<1>4. CASE Fail
  <2>1. payload' = <<>> /\ lossy' = TRUE
    BY <1>4 DEF Fail
  <2>2. Before' = seq_expected - 1
    BY <1>2, <1>3, <2>1 DEF Before
  <2>3. payload' \in Seq(Items) /\ DOMAIN payload' = {}
    BY <2>1
  <2>4. Before + 1 \in Nat /\ Before + 1 < seq_expected /\ Before + 1 <= seq_expected - 1
    BY <1>1, <1>3
  <2> QED BY <1>0, <1>1, <1>2, <1>3, <2>1, <2>2, <2>3, <2>4 DEF PositionInv
<1>5. CASE payload' = Tail(payload) /\ lossy' = lossy
  <2>1. /\ Tail(payload) \in Seq(Items) /\ Len(Tail(payload)) = Len(payload) - 1
        /\ \A i \in 1 .. Len(Tail(payload)) : Tail(payload)[i] = payload[i + 1]
        /\ DOMAIN Tail(payload) = 1 .. Len(payload) - 1
    <3>1. payload # <<>>
      BY <1>1
    <3> QED BY <1>1, <1>3, <3>1, HeadTailProperties
  <2>2. Before' = Before + 1
    BY <1>1, <1>2, <1>3, <1>5, <2>1 DEF Before
  <2>3. ASSUME NEW i \in DOMAIN payload' PROVE payload'[i].number = Before' + i
    <3>1. i \in 1 .. Len(payload) - 1 /\ payload'[i] = payload[i + 1] /\ i + 1 \in DOMAIN payload
      <4>1. payload' = Tail(payload) /\ i \in 1 .. Len(payload) - 1 /\ Len(payload) \in Nat
        BY <1>1, <1>5, <2>1
      <4>2. payload'[i] = payload[i + 1]
        BY ONLY <2>1, <4>1
      <4>3. i + 1 \in 1 .. Len(payload)
        BY ONLY <4>1
      <4> QED BY <1>3, <4>1, <4>2, <4>3, Zenon
    <3>2. payload[i + 1].number = Before + (i + 1)
      BY <1>3, <3>1, Zenon
    <3>3. Before + (i + 1) = (Before + 1) + i
      BY ONLY <1>1, <3>1
    <3> QED BY <2>2, <3>1, <3>2, <3>3, Zenon
  <2>4. /\ Before + 1 \in Nat /\ Before + 1 < seq_expected
    BY <1>1, <1>3
  <2> QED BY <1>0, <1>1, <1>2, <1>3, <1>5, <2>1, <2>2, <2>3, <2>4 DEF PositionInv
<1>6. CASE payload' = payload /\ Stopped'
  <2>1. Before' = Before /\ Before + 1 < seq_expected
    BY <1>1, <1>2, <1>3, <1>6 DEF Before
  <2> QED BY <1>0, <1>1, <1>2, <1>3, <1>6, <2>1 DEF PositionInv
<1> QED BY <1>4, <1>5, <1>6

(* Control's handler keeps its state typed, whatever the message.          *)
LEMMA ControlType ==
  ASSUME TopInv, NEW msg \in ITCHMsg, Ctrl!ProcessMsg(msg)
  PROVE  /\ {initialized, msg_hours, sys_hours, mkt_hours, stock_halt, market_halt}' \subseteq BOOLEAN
         /\ ctrl_locate' \in Locates \cup {NoLocate}
         /\ Ctrl!LocateResult(msg) \in Locates \cup {NoLocate}
<1>1. Ctrl!LocateResult(msg) \in Locates \cup {NoLocate}
  BY MsgFacts DEF Ctrl!LocateResult, DirectoryMsg, Ctrl!NoLocate, NoLocate
<1>2. CASE UNCHANGED Ctrl!control_vars
  BY <1>1, <1>2 DEF Ctrl!control_vars, TopInv
<1>3. CASE /\ Ctrl!Event(msg) /\ Ctrl!Directory(msg) /\ Ctrl!TradeAction(msg) /\ Ctrl!OpHalt(msg)
           /\ UNCHANGED initialized
  <2>1. msg_hours' \in BOOLEAN /\ sys_hours' \in BOOLEAN /\ mkt_hours' \in BOOLEAN
    BY <1>3 DEF Ctrl!Event, TopInv
  <2>2. ctrl_locate' \in Locates \cup {NoLocate}
    BY <1>1, <1>3 DEF Ctrl!Directory, TopInv
  <2>3. stock_halt' \in BOOLEAN
    BY <1>3 DEF Ctrl!TradeAction, TopInv
  <2>4. market_halt' \in BOOLEAN
    BY <1>3, MsgFacts DEF Ctrl!OpHalt, TopInv, OpHaltMsg
  <2> QED BY <1>1, <1>3, <2>1, <2>2, <2>3, <2>4 DEF TopInv
<1> QED BY <1>2, <1>3 DEF Ctrl!ProcessMsg

(* When process_msg answers with ok, or only after changing the state.     *)
LEMMA OutcomeFacts ==
  ASSUME NEW msg
  PROVE  /\ Ctrl!Outcome(msg) = "ok" =>
              /\ initialized /\ ~Ctrl!Redundant(msg) /\ ~Ctrl!MovesStock(msg)
              /\ msg_hours \/ Ctrl!IsEvent(msg, "MSG_BEGIN")
         /\ Ctrl!Outcome(msg) = "not_msg_hours" =>
              /\ ~Ctrl!MovesStock(msg) /\ ~msg_hours /\ ~Ctrl!IsEvent(msg, "MSG_BEGIN")
         /\ Ctrl!Outcome(msg) = "assert" => Ctrl!Redundant(msg)
<1>1. CASE ~initialized
  BY <1>1, Zenon DEF Ctrl!Outcome
<1>2. CASE initialized /\ Ctrl!Redundant(msg)
  BY <1>2, Zenon DEF Ctrl!Outcome
<1>3. CASE initialized /\ ~Ctrl!Redundant(msg) /\ Ctrl!MovesStock(msg)
  BY <1>3, Zenon DEF Ctrl!Outcome
<1>4. CASE /\ initialized /\ ~Ctrl!Redundant(msg) /\ ~Ctrl!MovesStock(msg)
           /\ ~msg_hours /\ ~Ctrl!IsEvent(msg, "MSG_BEGIN")
  BY <1>4, Zenon DEF Ctrl!Outcome
<1>5. CASE /\ initialized /\ ~Ctrl!Redundant(msg) /\ ~Ctrl!MovesStock(msg)
           /\ msg_hours \/ Ctrl!IsEvent(msg, "MSG_BEGIN")
  BY <1>5, Zenon DEF Ctrl!Outcome
<1> QED BY <1>1, <1>2, <1>3, <1>4, <1>5

(* What an event, and any other message, makes of the hours.               *)
LEMMA EventFacts ==
  ASSUME NEW msg, Ctrl!Event(msg)
  PROVE  /\ msg_hours' = IF Ctrl!IsEvent(msg, "MSG_BEGIN") THEN TRUE
                         ELSE IF Ctrl!IsEvent(msg, "MSG_END") THEN FALSE ELSE msg_hours
         /\ sys_hours' = IF Ctrl!IsEvent(msg, "SYS_BEGIN") THEN TRUE
                         ELSE IF Ctrl!IsEvent(msg, "SYS_END") THEN FALSE ELSE sys_hours
         /\ mkt_hours' = IF Ctrl!IsEvent(msg, "MKT_BEGIN") THEN TRUE
                         ELSE IF Ctrl!IsEvent(msg, "MKT_END") THEN FALSE ELSE mkt_hours
<1>2. ~(Ctrl!IsEvent(msg, "MSG_BEGIN") /\ Ctrl!IsEvent(msg, "MSG_END"))
  BY DEF Ctrl!IsEvent
<1>3. ~(Ctrl!IsEvent(msg, "SYS_BEGIN") /\ Ctrl!IsEvent(msg, "SYS_END"))
  BY DEF Ctrl!IsEvent
<1>4. ~(Ctrl!IsEvent(msg, "MKT_BEGIN") /\ Ctrl!IsEvent(msg, "MKT_END"))
  BY DEF Ctrl!IsEvent
<1>5. msg_hours' = IF Ctrl!IsEvent(msg, "MSG_BEGIN") THEN TRUE
                   ELSE IF Ctrl!IsEvent(msg, "MSG_END") THEN FALSE ELSE msg_hours
  BY <1>2, Zenon DEF Ctrl!Event
<1>6. sys_hours' = IF Ctrl!IsEvent(msg, "SYS_BEGIN") THEN TRUE
                   ELSE IF Ctrl!IsEvent(msg, "SYS_END") THEN FALSE ELSE sys_hours
  BY <1>3, Zenon DEF Ctrl!Event
<1>7. mkt_hours' = IF Ctrl!IsEvent(msg, "MKT_BEGIN") THEN TRUE
                   ELSE IF Ctrl!IsEvent(msg, "MKT_END") THEN FALSE ELSE mkt_hours
  BY <1>4, Zenon DEF Ctrl!Event
<1> QED BY <1>5, <1>6, <1>7

(* A message that is not taken in because the day is closed changes        *)
(* nothing that Top shows or has noted.                                    *)
LEMMA ClosedDay ==
  ASSUME TopInv, NEW msg \in ITCHMsg, Ctrl!ProcessMsg(msg), Ctrl!Outcome(msg) = "not_msg_hours"
  PROVE  /\ Ctrl!StockActive = FALSE /\ Ctrl!StockActive' = FALSE
         /\ ctrl_locate # NoLocate => ctrl_locate' = ctrl_locate
<1>1. ~Ctrl!MovesStock(msg) /\ ~msg_hours /\ ~Ctrl!IsEvent(msg, "MSG_BEGIN")
  BY OutcomeFacts
<1>2. Ctrl!Event(msg) /\ Ctrl!Directory(msg)
  BY DEF Ctrl!ProcessMsg
<1>3. msg_hours' = FALSE
  BY <1>1, <1>2, EventFacts DEF TopInv
<1>4. ctrl_locate # NoLocate => ctrl_locate' = ctrl_locate
  BY <1>1, <1>2 DEF Ctrl!Directory, Ctrl!LocateResult, Ctrl!MovesStock, Ctrl!NoLocate, NoLocate
<1> QED BY <1>1, <1>3, <1>4 DEF Ctrl!StockActive

(* What an error leaves behind: the packet's rest is lost, and what Top    *)
(* holds is still Control's.                                               *)
LEMMA FailInv ==
  ASSUME IInv, Taking, Fail, TopFollowsControl',
         {initialized, msg_hours, sys_hours, mkt_hours, stock_halt, market_halt}' \subseteq BOOLEAN,
         ctrl_locate' \in Locates \cup {NoLocate},
         stock_active' \in BOOLEAN, stock_locate' = stock_locate, applied' = applied
  PROVE  IInv'
<1>1. StreamInv' /\ ExchangeInv'
  BY SilentStep DEF IInv, Taking
<1>2. PositionInv'
  BY PositionStep
<1>3. applied' \in Nat /\ applied' <= taken'
  BY TakingFacts DEF IInv, TopInv, PositionInv
<1>4. TopInv'
  BY <1>3 DEF IInv, TopInv, Fail, Error, Answer
<1> QED BY <1>1, <1>2, <1>4 DEF IInv, Fail

(* An error before Top's own state is touched. *)
LEMMA ErrorInv ==
  ASSUME IInv, ParserError \/ ControlError
  PROVE  IInv'
<1>1. Taking /\ Fail /\ UNCHANGED <<top_vars, applied>>
  BY DEF ParserError, ControlError
<1>2. TopInv /\ TopFollowsControl /\ ~Stopped
  BY <1>1 DEF IInv, Taking
<1>3. CASE UNCHANGED control_vars
  <2>1. TopFollowsControl'
    BY <1>1, <1>2, <1>3 DEF TopFollowsControl, Ctrl!StockActive, control_vars, top_vars
  <2> QED BY <1>1, <1>2, <1>3, <2>1, FailInv DEF TopInv, control_vars, top_vars
<1>4. CASE ControlError /\ Ctrl!Outcome(Msg) = "not_msg_hours"
  <2>1. Ctrl!ProcessMsg(Msg) /\ Msg \in ITCHMsg
    BY <1>1, <1>4, TakingFacts DEF ControlError, Controlled
  <2>2. TopFollowsControl'
    BY <1>1, <1>2, <1>4, <2>1, ClosedDay DEF TopFollowsControl, top_vars
  <2> QED BY <1>1, <1>2, <2>1, <2>2, ControlType, FailInv DEF TopInv, top_vars
<1>5. UNCHANGED control_vars \/ (ControlError /\ Ctrl!Outcome(Msg) = "not_msg_hours")
  BY DEF ParserError, ControlError, Controlled, Ctrl!ProcessMsg, Ctrl!control_vars, control_vars
<1> QED BY <1>3, <1>4, <1>5

(* A message Control takes in: Top's verdict on trading is Control's, and  *)
(* a locate Control had stays.                                             *)
LEMMA AllowedFacts ==
  ASSUME IInv, Allowed
  PROVE  /\ Taking /\ Msg \in ITCHMsg /\ ~Stopped /\ TopInv /\ TopFollowsControl
         /\ Ctrl!Event(Msg) /\ Ctrl!Directory(Msg) /\ Ctrl!TradeAction(Msg) /\ Ctrl!OpHalt(Msg)
         /\ ~Ctrl!Redundant(Msg) /\ ~Ctrl!MovesStock(Msg)
         /\ {initialized, msg_hours, sys_hours, mkt_hours, stock_halt, market_halt}' \subseteq BOOLEAN
         /\ ctrl_locate' \in Locates \cup {NoLocate}
         /\ Ctrl!LocateResult(Msg) \in Locates \cup {NoLocate}
         /\ stock_active' = Ctrl!StockActive' /\ stock_active' \in BOOLEAN
         /\ Msg.kind # "DIRECTORY" => Ctrl!LocateResult(Msg) = NoLocate
         /\ ctrl_locate' = IF Ctrl!LocateResult(Msg) = NoLocate THEN ctrl_locate
                           ELSE Ctrl!LocateResult(Msg)
<1>1. /\ Taking /\ Ctrl!ProcessMsg(Msg) /\ Ctrl!Outcome(Msg) = "ok"
      /\ stock_active' = Ctrl!StockActive'
  BY DEF Allowed, Controlled
<1>2. Msg \in ITCHMsg /\ ~Stopped /\ TopInv /\ TopFollowsControl
  BY <1>1, TakingFacts DEF IInv
<1>3. /\ {initialized, msg_hours, sys_hours, mkt_hours, stock_halt, market_halt}' \subseteq BOOLEAN
      /\ ctrl_locate' \in Locates \cup {NoLocate}
      /\ Ctrl!LocateResult(Msg) \in Locates \cup {NoLocate}
  BY <1>1, <1>2, ControlType
<1>4. ~Ctrl!Redundant(Msg) /\ ~Ctrl!MovesStock(Msg)
  BY <1>1, OutcomeFacts
<1>5. Ctrl!Event(Msg) /\ Ctrl!Directory(Msg) /\ Ctrl!TradeAction(Msg) /\ Ctrl!OpHalt(Msg)
  BY <1>1 DEF Ctrl!ProcessMsg
<1>6. stock_active' \in BOOLEAN
  BY <1>1, <1>3 DEF Ctrl!StockActive
<1>7. Msg.kind # "DIRECTORY" => Ctrl!LocateResult(Msg) = NoLocate
  BY DEF Ctrl!LocateResult, Ctrl!NoLocate, NoLocate
<1>8. ctrl_locate' = IF Ctrl!LocateResult(Msg) = NoLocate THEN ctrl_locate
                     ELSE Ctrl!LocateResult(Msg)
  BY <1>5 DEF Ctrl!Directory, Ctrl!NoLocate, NoLocate
<1> QED BY <1>1, <1>2, <1>3, <1>4, <1>5, <1>6, <1>7, <1>8

(* The hours after an event are those of the day it opens or closes.       *)
LEMMA HoursStep ==
  ASSUME NEW n \in 0 .. 5, NEW msg, Ctrl!Event(msg),
         msg = [kind |-> "EVENT", event_code |-> EventCodes[n + 1]],
         msg_hours = (n \in 1 .. 5), sys_hours = (n \in 2 .. 4), mkt_hours = (n = 3)
  PROVE  /\ msg_hours' = (n + 1 \in 1 .. 5)
         /\ sys_hours' = (n + 1 \in 2 .. 4)
         /\ mkt_hours' = (n + 1 = 3)
<1>1. msg.kind = "EVENT" /\ msg.event_code = EventCodes[n + 1]
  OBVIOUS
<1>2. /\ n = 0 => msg.event_code = "MSG_BEGIN"
      /\ n = 1 => msg.event_code = "SYS_BEGIN"
      /\ n = 2 => msg.event_code = "MKT_BEGIN"
      /\ n = 3 => msg.event_code = "MKT_END"
      /\ n = 4 => msg.event_code = "SYS_END"
      /\ n = 5 => msg.event_code = "MSG_END"
  BY <1>1 DEF EventCodes
<1>3. n = 0 \/ n = 1 \/ n = 2 \/ n = 3 \/ n = 4 \/ n = 5
  OBVIOUS
<1>4. \A code : Ctrl!IsEvent(msg, code) <=> code = msg.event_code
  BY <1>1 DEF Ctrl!IsEvent
<1>5. CASE n = 0
  <2>1. msg_hours' = TRUE /\ sys_hours' = sys_hours /\ mkt_hours' = mkt_hours
    BY <1>2, <1>4, <1>5, EventFacts
  <2>2. (n + 1 \in 1 .. 5) = TRUE /\ (n + 1 \in 2 .. 4) = (n \in 2 .. 4) /\ (n + 1 = 3) = (n = 3)
    BY <1>5
  <2> QED BY <2>1, <2>2, Zenon
<1>6. CASE n = 1
  <2>1. msg_hours' = msg_hours /\ sys_hours' = TRUE /\ mkt_hours' = mkt_hours
    BY <1>2, <1>4, <1>6, EventFacts
  <2>2. (n + 1 \in 1 .. 5) = (n \in 1 .. 5) /\ (n + 1 \in 2 .. 4) = TRUE /\ (n + 1 = 3) = (n = 3)
    BY <1>6
  <2> QED BY <2>1, <2>2, Zenon
<1>7. CASE n = 2
  <2>1. msg_hours' = msg_hours /\ sys_hours' = sys_hours /\ mkt_hours' = TRUE
    BY <1>2, <1>4, <1>7, EventFacts
  <2>2. (n + 1 \in 1 .. 5) = (n \in 1 .. 5) /\ (n + 1 \in 2 .. 4) = (n \in 2 .. 4) /\ (n + 1 = 3) = TRUE
    BY <1>7
  <2> QED BY <2>1, <2>2, Zenon
<1>8. CASE n = 3
  <2>1. msg_hours' = msg_hours /\ sys_hours' = sys_hours /\ mkt_hours' = FALSE
    BY <1>2, <1>4, <1>8, EventFacts
  <2>2. (n + 1 \in 1 .. 5) = (n \in 1 .. 5) /\ (n + 1 \in 2 .. 4) = (n \in 2 .. 4) /\ (n + 1 = 3) = FALSE
    BY <1>8
  <2> QED BY <2>1, <2>2, Zenon
<1>9. CASE n = 4
  <2>1. msg_hours' = msg_hours /\ sys_hours' = FALSE /\ mkt_hours' = mkt_hours
    BY <1>2, <1>4, <1>9, EventFacts
  <2>2. (n + 1 \in 1 .. 5) = (n \in 1 .. 5) /\ (n + 1 \in 2 .. 4) = FALSE /\ (n + 1 = 3) = (n = 3)
    BY <1>9
  <2> QED BY <2>1, <2>2, Zenon
<1>10. CASE n = 5
  <2>1. msg_hours' = FALSE /\ sys_hours' = sys_hours /\ mkt_hours' = mkt_hours
    BY <1>2, <1>4, <1>10, EventFacts
  <2>2. (n + 1 \in 1 .. 5) = FALSE /\ (n + 1 \in 2 .. 4) = (n \in 2 .. 4) /\ (n + 1 = 3) = (n = 3)
    BY <1>10
  <2> QED BY <2>1, <2>2, Zenon
<1> QED BY <1>3, <1>5, <1>6, <1>7, <1>8, <1>9, <1>10

(* The event that comes next is never one that is over or in force.        *)
LEMMA EventOnTime ==
  ASSUME NEW n \in 0 .. 5, NEW msg,
         msg = [kind |-> "EVENT", event_code |-> EventCodes[n + 1]],
         msg_hours <=> n \in 1 .. 5, sys_hours <=> n \in 2 .. 4, mkt_hours <=> n = 3
  PROVE  ~Ctrl!Redundant(msg)
<1>1. msg.kind = "EVENT" /\ msg.event_code = EventCodes[n + 1]
  OBVIOUS
<1>2. /\ n = 0 => msg.event_code = "MSG_BEGIN"
      /\ n = 1 => msg.event_code = "SYS_BEGIN"
      /\ n = 2 => msg.event_code = "MKT_BEGIN"
      /\ n = 3 => msg.event_code = "MKT_END"
      /\ n = 4 => msg.event_code = "SYS_END"
      /\ n = 5 => msg.event_code = "MSG_END"
  BY <1>1 DEF EventCodes
<1>3. n = 0 \/ n = 1 \/ n = 2 \/ n = 3 \/ n = 4 \/ n = 5
  OBVIOUS
<1>4. \A code : Ctrl!IsEvent(msg, code) <=> code = msg.event_code
  BY <1>1 DEF Ctrl!IsEvent
<1> QED BY <1>1, <1>2, <1>3, <1>4 DEF Ctrl!Redundant

(* Control, once in step with the exchange, stays so with the next message *)
(* it takes in.                                                            *)
LEMMA ControlStep ==
  ASSUME IInv, Allowed, ~lossy,
         NEW d, d = AsOf(taken), NEW e, e = sent[taken + 1]
  PROVE  /\ msg_hours' = (e.said \in 1 .. 5)
         /\ sys_hours' = (e.said \in 2 .. 4)
         /\ mkt_hours' = (e.said = 3)
         /\ stock_halt' = ~e.trading
         /\ market_halt' = e.halted
         /\ ctrl_locate' = (IF stock_symbol \in e.listed THEN locate_of[stock_symbol] ELSE NoLocate)
<1>1. /\ Ctrl!Event(Msg) /\ Ctrl!Directory(Msg) /\ Ctrl!TradeAction(Msg) /\ Ctrl!OpHalt(Msg)
      /\ Taking /\ Msg \in ITCHMsg
      /\ ctrl_locate' = IF Ctrl!LocateResult(Msg) = NoLocate THEN ctrl_locate
                        ELSE Ctrl!LocateResult(Msg)
  BY AllowedFacts
<1>2. taken = Before /\ Synced /\ Msg = e.msg /\ Follows(d, e) /\ taken \in 0 .. Len(sent)
  BY <1>1, TakingFacts
<1>3. /\ d.said \in 0 .. 6 /\ d.listed \subseteq Symbols
      /\ d.trading \in BOOLEAN /\ d.halted \in BOOLEAN
  BY <1>2, AsOfType DEF IInv
<1>4. /\ msg_hours = (d.said \in 1 .. 5) /\ sys_hours = (d.said \in 2 .. 4) /\ mkt_hours = (d.said = 3)
      /\ stock_halt = ~d.trading /\ market_halt = d.halted
      /\ ctrl_locate = (IF stock_symbol \in d.listed THEN locate_of[stock_symbol] ELSE NoLocate)
  BY <1>2 DEF Synced
<1>5. /\ msg_hours' = (e.said \in 1 .. 5)
      /\ sys_hours' = (e.said \in 2 .. 4)
      /\ mkt_hours' = (e.said = 3)
  <2>1. CASE EventFollows(d, e)
    <3>1. /\ d.said \in 0 .. 5 /\ e.said = d.said + 1
          /\ Msg = [kind |-> "EVENT", event_code |-> EventCodes[d.said + 1]]
      BY <1>2, <1>3, <2>1 DEF EventFollows
    <3> QED BY <1>1, <1>4, <3>1, HoursStep
  <2>2. CASE ~EventFollows(d, e)
    <3>1. e.said = d.said /\ Msg.kind # "EVENT"
      BY <1>2, <2>2 DEF Follows, DirectoryFollows, ActionFollows, HaltFollows, QuietFollows
    <3>2. msg_hours' = msg_hours /\ sys_hours' = sys_hours /\ mkt_hours' = mkt_hours
      BY <1>1, <3>1, EventFacts DEF Ctrl!IsEvent
    <3> QED BY <1>4, <3>1, <3>2
  <2> QED BY <2>1, <2>2
<1>6. stock_halt' = ~e.trading
  <2>1. CASE ActionFollows(d, e)
    <3>1. Msg.kind = "ACTION" /\ Msg.trade_action \in {"HALT", "TRADE"}
      BY <1>1, <1>2, <2>1, MsgFacts DEF ActionFollows, TradeActionMsg
    <3> QED BY <1>1, <1>2, <1>4, <2>1, <3>1 DEF ActionFollows, Ctrl!TradeAction, Ctrl!ForStock
  <2>2. CASE ~ActionFollows(d, e)
    <3>1. e.trading = d.trading /\ Msg.kind # "ACTION"
      BY <1>2, <2>2
      DEF Follows, EventFollows, DirectoryFollows, ActionFollows, HaltFollows, QuietFollows
    <3> QED BY <1>1, <1>4, <3>1 DEF Ctrl!TradeAction
  <2> QED BY <2>1, <2>2
<1>7. market_halt' = e.halted
  <2>1. CASE HaltFollows(d, e)
    BY <1>1, <1>2, <1>4, <2>1 DEF HaltFollows, Ctrl!OpHalt, Ctrl!ForMarket, Ctrl!ForStock
  <2>2. CASE ~HaltFollows(d, e)
    <3>1. e.halted = d.halted /\ Msg.kind # "HALT"
      BY <1>2, <2>2
      DEF Follows, EventFollows, DirectoryFollows, ActionFollows, HaltFollows, QuietFollows
    <3> QED BY <1>1, <1>4, <3>1 DEF Ctrl!OpHalt
  <2> QED BY <2>1, <2>2
<1>8. ctrl_locate' = (IF stock_symbol \in e.listed THEN locate_of[stock_symbol] ELSE NoLocate)
  <2>1. CASE DirectoryFollows(d, e)
    <3>1. locate_of[stock_symbol] # NoLocate
      BY SessionAssumption, NoLocateAssumption DEF Locates
    <3> QED
      BY <1>1, <1>2, <1>4, <2>1, <3>1
      DEF DirectoryFollows, Ctrl!LocateResult, Ctrl!ForStock, Ctrl!NoLocate, NoLocate
  <2>2. CASE ~DirectoryFollows(d, e)
    <3>1. e.listed = d.listed /\ Msg.kind # "DIRECTORY"
      BY <1>2, <2>2
      DEF Follows, EventFollows, DirectoryFollows, ActionFollows, HaltFollows, QuietFollows
    <3> QED BY <1>1, <1>4, <3>1, AllowedFacts
  <2> QED BY <2>1, <2>2
<1> QED BY <1>5, <1>6, <1>7, <1>8

(* A message for Control alone, or for another stock's book.               *)
LEMMA ControlMsgInv ==
  ASSUME IInv, ControlMsg
  PROVE  IInv'
<1>0. /\ Allowed /\ applied' = applied /\ lossy' = lossy /\ payload' = Tail(payload)
      /\ answer' = Answer("quiet", FALSE)
      /\ Msg.kind = "BOOK" => stock_locate \notin {NoLocate, Msg.stock_locate}
      /\ Ctrl!LocateResult(Msg) # NoLocate => stock_locate = NoLocate
      /\ stock_locate' = IF Ctrl!LocateResult(Msg) = NoLocate THEN stock_locate
                         ELSE Ctrl!LocateResult(Msg)
  BY DEF ControlMsg, Continue
<1>1. /\ Taking /\ TopInv /\ TopFollowsControl /\ ~Stopped
      /\ {initialized, msg_hours, sys_hours, mkt_hours, stock_halt, market_halt}' \subseteq BOOLEAN
      /\ ctrl_locate' \in Locates \cup {NoLocate}
      /\ Ctrl!LocateResult(Msg) \in Locates \cup {NoLocate}
      /\ stock_active' = Ctrl!StockActive' /\ stock_active' \in BOOLEAN
      /\ ctrl_locate' = IF Ctrl!LocateResult(Msg) = NoLocate THEN ctrl_locate
                        ELSE Ctrl!LocateResult(Msg)
  BY <1>0, AllowedFacts
<1>2. StreamInv' /\ ExchangeInv'
  BY <1>1, SilentStep DEF IInv, Taking
<1>3. PositionInv'
  BY <1>0, <1>1, PositionStep
<1>4. TopInv'
  <2>1. applied' \in Nat /\ applied' <= taken'
    BY <1>0, <1>1, TakingFacts DEF IInv, TopInv, PositionInv
  <2> QED BY <1>0, <1>1, <2>1 DEF TopInv, Answer
<1>5. TopFollowsControl'
  BY <1>0, <1>1 DEF TopFollowsControl
<1>6. ASSUME ~lossy' PROVE Synced'
  <2> DEFINE d == AsOf(taken)
             e == sent[taken + 1]
  <2>1. ~lossy /\ taken = Before /\ Synced /\ Msg = e.msg /\ Follows(d, e) /\ AsOf(taken)' = e
    BY <1>0, <1>1, <1>6, TakingFacts
  <2>2. /\ msg_hours' = (e.said \in 1 .. 5)
        /\ sys_hours' = (e.said \in 2 .. 4)
        /\ mkt_hours' = (e.said = 3)
        /\ stock_halt' = ~e.trading
        /\ market_halt' = e.halted
        /\ ctrl_locate' = (IF stock_symbol \in e.listed THEN locate_of[stock_symbol] ELSE NoLocate)
    BY <1>0, <2>1, ControlStep
  <2>3. stock_locate = ctrl_locate /\ applied = d.orders
        /\ ctrl_locate = (IF stock_symbol \in d.listed THEN locate_of[stock_symbol] ELSE NoLocate)
    BY <2>1 DEF Synced
  <2>4. stock_locate' = ctrl_locate'
    BY <1>0, <1>1, <2>3
  <2>5. ~IsOrder(Msg)
    BY <1>0, <2>3 DEF IsOrder
  <2>6. applied' = e.orders
    BY <1>0, <2>1, <2>3, <2>5 DEF Follows
  <2> QED BY <2>1, <2>2, <2>4, <2>6 DEF Synced
<1> QED BY <1>2, <1>3, <1>4, <1>5, <1>6 DEF IInv

(* An order message for the stock, taken in, refused, or too early.        *)
LEMMA BookMsgInv ==
  ASSUME IInv, LocateUnknown \/ BookMsg
  PROVE  IInv'
<1>0. Allowed /\ Msg.kind = "BOOK" /\ stock_locate' = stock_locate
  BY DEF LocateUnknown, BookMsg
<1>1. /\ Taking /\ TopInv /\ TopFollowsControl /\ ~Stopped /\ Msg \in ITCHMsg
      /\ {initialized, msg_hours, sys_hours, mkt_hours, stock_halt, market_halt}' \subseteq BOOLEAN
      /\ ctrl_locate' \in Locates \cup {NoLocate}
      /\ stock_active' = Ctrl!StockActive' /\ stock_active' \in BOOLEAN
      /\ ctrl_locate' = ctrl_locate
  BY <1>0, AllowedFacts
<1>2. TopFollowsControl'
  BY <1>0, <1>1 DEF TopFollowsControl
<1>3. CASE Fail /\ UNCHANGED applied
  BY <1>0, <1>1, <1>2, <1>3, FailInv
<1>4. CASE BookMsg /\ Continue(Answer("best", stock_active')) /\ applied' = applied + 1
  <2>0. /\ lossy' = lossy /\ payload' = Tail(payload) /\ answer' = Answer("best", stock_active')
        /\ stock_locate = Msg.stock_locate
    BY <1>4 DEF Continue, BookMsg
  <2>1. StreamInv' /\ ExchangeInv'
    BY <1>1, SilentStep DEF IInv, Taking
  <2>2. PositionInv'
    BY <1>1, <2>0, PositionStep
  <2>3. TopInv'
    <3>1. applied' \in Nat /\ applied' <= taken'
      BY <1>1, <1>4, TakingFacts DEF IInv, TopInv, PositionInv
    <3> QED BY <1>0, <1>1, <2>0, <3>1 DEF TopInv, Answer
  <2>4. ASSUME ~lossy' PROVE Synced'
    <3> DEFINE d == AsOf(taken)
               e == sent[taken + 1]
    <3>1. ~lossy /\ taken = Before /\ Synced /\ Msg = e.msg /\ Follows(d, e) /\ AsOf(taken)' = e
      BY <1>1, <2>0, <2>4, TakingFacts
    <3>2. /\ msg_hours' = (e.said \in 1 .. 5)
          /\ sys_hours' = (e.said \in 2 .. 4)
          /\ mkt_hours' = (e.said = 3)
          /\ stock_halt' = ~e.trading
          /\ market_halt' = e.halted
          /\ ctrl_locate' = (IF stock_symbol \in e.listed THEN locate_of[stock_symbol] ELSE NoLocate)
      BY <1>0, <3>1, ControlStep
    <3>3. stock_locate = ctrl_locate /\ applied = d.orders
          /\ ctrl_locate = (IF stock_symbol \in d.listed THEN locate_of[stock_symbol] ELSE NoLocate)
      BY <3>1 DEF Synced
    <3>4. Msg.stock_locate \in Locates
      BY <1>0, <1>1, MsgFacts DEF ITCHBookMsg
    <3>5. IsOrder(Msg)
      BY <1>0, <2>0, <3>3, <3>4, NoLocateAssumption DEF IsOrder
    <3>6. applied' = e.orders
      BY <1>4, <3>1, <3>3, <3>5 DEF Follows
    <3> QED BY <1>0, <1>1, <3>1, <3>2, <3>3, <3>6 DEF Synced
  <2> QED BY <1>2, <2>1, <2>2, <2>3, <2>4 DEF IInv
<1> QED BY <1>3, <1>4 DEF LocateUnknown, BookMsg

(* An assertion that fails stops Top where it is.                          *)
LEMMA RaisedInv ==
  ASSUME IInv, Raised
  PROVE  IInv'
<1>0. /\ Taking /\ Ctrl!ProcessMsg(Msg) /\ answer' = Answer("exception", FALSE)
      /\ UNCHANGED <<stock_locate, payload, applied, lossy>>
      /\ stock_active' = stock_active \/ stock_active' = Ctrl!StockActive'
  BY DEF Raised, Controlled
<1>1. Stopped' /\ TopInv /\ Msg \in ITCHMsg
  BY <1>0, TakingFacts DEF Stopped, Answer, IInv
<1>2. StreamInv' /\ ExchangeInv'
  BY <1>0, SilentStep DEF IInv, Taking
<1>3. PositionInv'
  BY <1>0, <1>1, PositionStep
<1>4. TopInv'
  <2>1. applied' \in Nat /\ applied' <= taken'
    BY <1>0, TakingFacts DEF IInv, TopInv, PositionInv
  <2>2. /\ {initialized, msg_hours, sys_hours, mkt_hours, stock_halt, market_halt}' \subseteq BOOLEAN
        /\ ctrl_locate' \in Locates \cup {NoLocate}
    BY <1>0, <1>1, ControlType
  <2>3. stock_active' \in BOOLEAN
    BY <1>0, <1>1, <2>2 DEF TopInv, Ctrl!StockActive
  <2> QED BY <1>0, <1>1, <2>1, <2>2, <2>3 DEF TopInv, Answer
<1> QED BY <1>1, <1>2, <1>3, <1>4 DEF IInv, TopFollowsControl

----------------------------------------------------------------------------
(* The theorems. *)

LEMMA InitIInv == Init => IInv
<1> SUFFICES ASSUME Init PROVE IInv
  OBVIOUS
<1>1. /\ sent = <<>> /\ said = 0 /\ listed = {} /\ trading = FALSE /\ halted = FALSE
  BY DEF Init
<1>2. /\ seq_expected = 1 /\ payload = <<>> /\ taken = 0
      /\ session_id = Mold!NoSession /\ first_pkt_received = FALSE
  BY DEF Init, Mold!InitMold
<1>3. /\ initialized = FALSE /\ msg_hours = FALSE /\ sys_hours = FALSE /\ mkt_hours = FALSE
      /\ stock_halt = TRUE /\ market_halt = FALSE /\ ctrl_locate = NoLocate
      /\ stock_active = FALSE /\ stock_locate = NoLocate /\ lossy = FALSE
  BY DEF Init, Ctrl!InitControl, Ctrl!NoLocate, NoLocate
<1>4. applied = 0 /\ taken = 0 /\ answer = [kind |-> "none", shown |-> FALSE]
  BY DEF Init, Answer
<1>5. /\ sent \in Seq(Entry) /\ Len(sent) = 0 /\ DOMAIN sent = {}
  BY <1>1
<1>6. /\ payload \in Seq(Items) /\ Len(payload) = 0 /\ DOMAIN payload = {}
  BY <1>2
<1>7. /\ AsOf(0).said = 0 /\ AsOf(0).listed = {} /\ AsOf(0).trading = FALSE
      /\ AsOf(0).halted = FALSE /\ AsOf(0).open = FALSE /\ AsOf(0).orders = 0
  BY DEF AsOf, DayBegins
<1>8. StreamInv
  BY <1>5 DEF StreamInv
<1>9. ExchangeInv
  BY <1>1, <1>5, <1>7 DEF ExchangeInv
<1>10. PositionInv
  <2>1. Before = 0 /\ seq_expected \in 1 .. Len(sent) + 1
    <3>1. seq_expected = 1 /\ Len(payload) = 0 /\ Len(sent) = 0
      BY <1>2, <1>5, <1>6
    <3> QED BY <3>1 DEF Before
  <2>2. taken \in Nat /\ taken < seq_expected /\ taken = Before
    BY <1>2, <2>1
  <2>3. session_id \in Sessions \cup {Mold!NoSession} /\ first_pkt_received \in BOOLEAN
    BY <1>2
  <2> QED BY <1>6, <2>1, <2>2, <2>3 DEF PositionInv
<1>11. TopInv
  <2>1. answer \in [kind : {"none", "quiet", "best", "error", "exception"}, shown : BOOLEAN]
    BY <1>4
  <2>2. {initialized, msg_hours, sys_hours, mkt_hours, stock_halt, market_halt,
         stock_active, lossy} \subseteq BOOLEAN
    BY <1>3
  <2> QED BY <1>3, <1>4, <2>1, <2>2 DEF TopInv
<1>12. TopFollowsControl
  BY <1>3 DEF TopFollowsControl, Ctrl!StockActive
<1>13. Synced
  <2>1. (AsOf(0).said \in 1 .. 5) = FALSE /\ (AsOf(0).said \in 2 .. 4) = FALSE
        /\ (AsOf(0).said = 3) = FALSE
    BY <1>7
  <2>2. /\ msg_hours = (AsOf(0).said \in 1 .. 5)
        /\ sys_hours = (AsOf(0).said \in 2 .. 4)
        /\ mkt_hours = (AsOf(0).said = 3)
    BY <1>3, <2>1, Zenon
  <2>3. stock_halt = ~AsOf(0).trading /\ market_halt = AsOf(0).halted
    BY <1>3, <1>7
  <2>4. ctrl_locate = (IF stock_symbol \in AsOf(0).listed THEN locate_of[stock_symbol] ELSE NoLocate)
        /\ stock_locate = ctrl_locate /\ applied = AsOf(0).orders
    BY <1>3, <1>4, <1>7
  <2> QED BY <1>4, <2>2, <2>3, <2>4 DEF Synced
<1> QED BY <1>8, <1>9, <1>10, <1>11, <1>12, <1>13 DEF IInv

LEMMA NextIInv == IInv /\ [Next]_vars => IInv'
<1> SUFFICES ASSUME IInv, [Next]_vars PROVE IInv'
  OBVIOUS
<1>1. CASE Publish
  BY <1>1, PublishInv
<1>2. CASE InitParams
  BY <1>2, InitParamsInv
<1>3. CASE ReceivePacket
  BY <1>3, ReceiveInv
<1>4. CASE ParserError \/ ControlError
  BY <1>4, ErrorInv
<1>5. CASE ControlMsg
  BY <1>5, ControlMsgInv
<1>6. CASE LocateUnknown \/ BookMsg
  BY <1>6, BookMsgInv
<1>7. CASE Raised
  BY <1>7, RaisedInv
<1>8. CASE UNCHANGED vars
  <2>1. UNCHANGED <<exchange_vars, mold_vars, control_vars, top_vars, payload, answer, ghost_vars>>
    BY <1>8 DEF vars
  <2>2. StreamInv' /\ ExchangeInv' /\ AsOf(taken)' = AsOf(taken)
    BY <2>1, SilentStep DEF IInv, ghost_vars, AsOf, exchange_vars
  <2>3. PositionInv'
    BY <2>1 DEF IInv, PositionInv, Before, Stopped, mold_vars, ghost_vars, exchange_vars
  <2>4. TopInv' /\ TopFollowsControl'
    BY <2>1
    DEF IInv, TopInv, TopFollowsControl, Ctrl!StockActive, Stopped, control_vars, top_vars, ghost_vars
  <2>5. ~lossy' /\ ~Stopped' => Synced'
    BY <2>1, <2>2 DEF IInv, Synced, Stopped, control_vars, top_vars, ghost_vars
  <2> QED BY <2>2, <2>3, <2>4, <2>5 DEF IInv
<1> QED BY <1>1, <1>2, <1>3, <1>4, <1>5, <1>6, <1>7, <1>8 DEF Next

(* The invariant holds throughout every day and every way it is delivered. *)
THEOREM InvariantHolds == Spec => []IInv
BY InitIInv, NextIInv, PTL DEF Spec

(* Every variable has its type: in particular what process_pkt still has   *)
(* to yield are messages that were sent, and no number is handled before   *)
(* the MoldUDP64 parser has used it up.                                    *)
THEOREM TypesHold == Spec => []TypeOK
<1>1. IInv => TypeOK
  <2> SUFFICES ASSUME IInv PROVE TypeOK
    OBVIOUS
  <2>1. StreamInv /\ ExchangeInv /\ PositionInv /\ TopInv
    BY DEF IInv
  <2>2. \A n \in DOMAIN sent : sent[n].msg \in ITCHMsg
    <3>1. sent \in [1 .. Len(sent) -> Entry]
      BY <2>1, LenProperties DEF StreamInv
    <3> QED BY <3>1 DEF Entry
  <2>3. /\ said \in 0 .. Len(EventCodes) /\ listed \subseteq Symbols
        /\ trading \in BOOLEAN /\ halted \in BOOLEAN
    BY <2>1, ExchangeType DEF EventCodes
  <2>4. payload \in Seq([number : 1 .. Len(sent), parses : BOOLEAN])
    <3>0. Len(payload) \in Nat /\ payload \in [1 .. Len(payload) -> Items]
      BY <2>1, LenProperties DEF PositionInv
    <3>1. /\ Before = seq_expected - 1 - Len(payload) /\ Before >= 0
          /\ seq_expected \in 1 .. Len(sent) + 1 /\ Len(sent) \in Nat
          /\ \A i \in 1 .. Len(payload) : payload[i].number = Before + i
      <4>1. Len(sent) \in Nat /\ DOMAIN payload = 1 .. Len(payload)
        BY <2>1, <3>0 DEF StreamInv
      <4>2. Before = seq_expected - 1 - Len(payload)
        BY DEF Before
      <4> QED BY <2>1, <4>1, <4>2 DEF PositionInv
    <3>2. \A i \in 1 .. Len(payload) : payload[i] \in [number : 1 .. Len(sent), parses : BOOLEAN]
      BY <3>0, <3>1 DEF Items
    <3>3. payload \in [1 .. Len(payload) -> [number : 1 .. Len(sent), parses : BOOLEAN]]
      BY <3>0, <3>2
    <3> DEFINE Yielded == [number : 1 .. Len(sent), parses : BOOLEAN]
    <3>4. payload \in [1 .. Len(payload) -> Yielded]
      BY <3>3
    <3> HIDE DEF Yielded
    <3>5. payload \in Seq(Yielded)
      BY <3>0, <3>4, SeqDef
    <3> QED BY <3>5 DEF Yielded
  <2>5. taken < seq_expected /\ applied <= taken
    BY <2>1 DEF PositionInv, TopInv
  <2>6. /\ seq_expected \in 1 .. Len(sent) + 1 /\ session_id \in Sessions \cup {Mold!NoSession}
        /\ first_pkt_received \in BOOLEAN
    BY <2>1, Zenon DEF PositionInv
  <2>7. {initialized, msg_hours, sys_hours, mkt_hours, stock_halt, market_halt,
         stock_active, lossy} \subseteq BOOLEAN
    BY <2>1, Zenon DEF TopInv
  <2>8. {initialized, msg_hours, sys_hours, mkt_hours, stock_halt, market_halt,
         first_pkt_received, stock_active, lossy, trading, halted} \subseteq BOOLEAN
    BY <2>3, <2>6, <2>7
  <2>9. /\ {ctrl_locate, stock_locate} \subseteq Locates \cup {NoLocate}
        /\ answer \in [kind : {"none", "quiet", "best", "error", "exception"}, shown : BOOLEAN]
    BY <2>1, Zenon DEF TopInv
  <2> QED BY <2>2, <2>3, <2>4, <2>5, <2>6, <2>8, <2>9, Zenon DEF TypeOK
<1> QED BY <1>1, InvariantHolds, PTL

(* Even past an error the verdict on trading that Top holds is Control's,  *)
(* and so is the locate code (top.py:70-74).                               *)
THEOREM TopAlwaysFollowsControl == Spec => []TopFollowsControl
<1>1. IInv => TopFollowsControl
  BY DEF IInv
<1> QED BY <1>1, InvariantHolds, PTL

(* As long as nothing was refused or left out, Top shows best levels       *)
(* exactly when the stock was open as of the message handled last.         *)
THEOREM GateHolds == Spec => []GateFollowsExchange
<1>1. IInv => GateFollowsExchange
  <2> SUFFICES ASSUME IInv, ~lossy, ~Stopped
               PROVE  stock_active = (taken > 0 /\ sent[taken].open)
    BY DEF GateFollowsExchange
  <2> DEFINE then == AsOf(taken)
  <2>1. stock_active = Ctrl!StockActive /\ Synced /\ StreamInv /\ PositionInv
    BY DEF IInv, TopFollowsControl
  <2>2. taken \in 0 .. Len(sent)
    BY <2>1 DEF PositionInv, StreamInv
  <2>3. Ctrl!StockActive = (then.said \in 2 .. 4 /\ then.trading /\ ~then.halted)
    <3>1. then.said \in 0 .. 6 /\ then.trading \in BOOLEAN /\ then.halted \in BOOLEAN
      BY <2>1, <2>2, AsOfType
    <3> QED BY <2>1, <3>1 DEF Synced, Ctrl!StockActive
  <2>4. CASE taken = 0
    BY <2>1, <2>3, <2>4 DEF AsOf, DayBegins
  <2>5. CASE taken > 0
    <3>1. taken \in DOMAIN sent /\ then = sent[taken]
      BY <2>1, <2>2, <2>5 DEF StreamInv, AsOf
    <3>2. sent[taken].open = (then.said \in 2 .. 4 /\ then.trading /\ ~then.halted)
      BY <2>1, <3>1 DEF StreamInv, Follows
    <3> QED BY <2>1, <2>3, <2>5, <3>1, <3>2
  <2> QED BY <2>2, <2>4, <2>5
<1> QED BY <1>1, InvariantHolds, PTL

(* As long as nothing was refused or left out, the book has taken in every *)
(* order message of the stock up to the message handled last, and none of  *)
(* another stock.                                                          *)
THEOREM BookHolds == Spec => []BookFollowsStream
<1>1. IInv => BookFollowsStream
  BY DEF IInv, Synced, AsOf, DayBegins, BookFollowsStream
<1> QED BY <1>1, InvariantHolds, PTL

(* An assertion of Control or Top fails on no message of a legal day that  *)
(* has arrived complete so far, unless it lists a stock a second time.     *)
LEMMA LegalDayRaisesNothing ==
  ASSUME DirectoryRepeats = FALSE, IInv, ~lossy
  PROVE  ~Raised
<1> SUFFICES ASSUME Raised PROVE FALSE
  OBVIOUS
<1> DEFINE d == AsOf(taken)
           e == sent[taken + 1]
<1>1. Taking /\ ( \/ Ctrl!Outcome(Msg) = "assert"
                  \/ Ctrl!LocateResult(Msg) # NoLocate /\ stock_locate # NoLocate )
  BY DEF Raised
<1>2. Synced /\ Msg = e.msg /\ Follows(d, e) /\ taken \in 0 .. Len(sent) /\ Msg \in ITCHMsg
  BY <1>1, TakingFacts
<1>3. d.said \in 0 .. 6 /\ d.halted \in BOOLEAN
  BY <1>2, AsOfType DEF IInv
<1>4. CASE Ctrl!Outcome(Msg) = "assert"
  <2>1. Ctrl!Redundant(Msg)
    BY <1>4, OutcomeFacts
  <2>2. CASE Msg.kind = "EVENT"
    <3>1. /\ d.said \in 0 .. 5
          /\ Msg = [kind |-> "EVENT", event_code |-> EventCodes[d.said + 1]]
      BY <1>2, <1>3, <2>2
      DEF Follows, EventFollows, DirectoryFollows, ActionFollows, HaltFollows, QuietFollows
    <3>2. /\ msg_hours <=> d.said \in 1 .. 5
          /\ sys_hours <=> d.said \in 2 .. 4
          /\ mkt_hours <=> d.said = 3
      BY <1>2 DEF Synced
    <3> QED BY <2>1, <3>1, <3>2, EventOnTime
  <2>3. CASE Msg.kind = "HALT" /\ Ctrl!ForMarket(Msg) /\ market_halt = Msg.is_halt
    <3>1. HaltFollows(d, e)
      BY <1>2, <2>3 DEF Follows, EventFollows, DirectoryFollows, ActionFollows, QuietFollows
    <3>2. Msg.is_halt = ~d.halted
      BY <1>2, <2>3, <3>1 DEF HaltFollows, Ctrl!ForMarket, Ctrl!ForStock
    <3> QED BY <1>2, <1>3, <2>3, <3>2 DEF Synced
  <2> QED BY <2>1, <2>2, <2>3 DEF Ctrl!Redundant, Ctrl!IsEvent
<1>5. CASE Ctrl!LocateResult(Msg) # NoLocate /\ stock_locate # NoLocate
  <2>1. Msg.kind = "DIRECTORY" /\ Msg.stock_symbol = stock_symbol
    BY <1>5 DEF Ctrl!LocateResult, Ctrl!ForStock, Ctrl!NoLocate, NoLocate
  <2>2. stock_symbol \notin d.listed
    BY <1>2, <2>1
    DEF Follows, EventFollows, DirectoryFollows, ActionFollows, HaltFollows, QuietFollows
  <2> QED BY <1>2, <1>5, <2>2 DEF Synced
<1> QED BY <1>1, <1>4, <1>5

(* A legal day that arrives without a refused or missing message runs into *)
(* no assertion of Control or Top, as long as no stock is listed twice     *)
(* (the run MCSessionDirectory shows what happens if one is).              *)
THEOREM NoAssertionHolds ==
  ASSUME DirectoryRepeats = FALSE
  PROVE  Spec => []NoAssertionFails
<1>1. Init => NoAssertionFails
  BY DEF Init, NoAssertionFails, Stopped, Answer
<1>2. IInv /\ NoAssertionFails /\ [Next]_vars => NoAssertionFails'
  <2> SUFFICES ASSUME IInv, NoAssertionFails, [Next]_vars, ~lossy' PROVE ~Stopped'
    BY DEF NoAssertionFails
  <2>1. CASE Publish \/ InitParams \/ UNCHANGED vars
    BY <2>1 DEF Publish, InitParams, vars, ghost_vars, NoAssertionFails, Stopped
  <2>2. CASE ReceivePacket
    BY <2>2 DEF ReceivePacket, Stopped, Error, Answer
  <2>3. CASE ParserError \/ ControlError \/ LocateUnknown
    BY <2>3 DEF ParserError, ControlError, LocateUnknown, Fail
  <2>4. CASE ControlMsg \/ BookMsg
    BY <2>4 DEF ControlMsg, BookMsg, Continue, Fail, Stopped, Answer
  <2>5. CASE Raised
    <3>1. ~lossy
      BY <2>5 DEF Raised
    <3> QED BY <2>5, <3>1, LegalDayRaisesNothing
  <2> QED BY <2>1, <2>2, <2>3, <2>4, <2>5 DEF Next
<1> QED BY <1>1, <1>2, InvariantHolds, PTL DEF Spec

(* Handling a message is handling the next one, until an error has told    *)
(* that messages may be missing; it may skip some from then on, but never  *)
(* goes back.                                                              *)
LEMMA HandleStep ==
  ASSUME IInv, Taking, lossy' = lossy \/ Fail
  PROVE  Stream!StreamNext
<1>1. taken' = Before + 1 /\ taken \in Nat /\ Before \in Nat /\ taken <= Before
      /\ (~lossy => taken' = taken + 1) /\ lossy \in BOOLEAN
  BY TakingFacts DEF IInv, PositionInv, TopInv
<1>2. CASE lossy
  <2>1. lossy' = TRUE /\ lossy = TRUE
    BY <1>1, <1>2 DEF Fail
  <2> QED BY <1>1, <2>1 DEF Stream!StreamNext, Stream!SkipAhead
<1>3. CASE ~lossy /\ Fail
  BY <1>1, <1>3 DEF Stream!StreamNext, Stream!Tell, Fail, Error, Answer
<1>4. CASE ~lossy /\ lossy' = lossy
  BY <1>1, <1>4 DEF Stream!StreamNext, Stream!Handle
<1> QED BY <1>2, <1>3, <1>4

(* Whatever the network does, messages are handled in order, at most once, *)
(* and none is left out before an error has been answered                  *)
(* (moldudp64_parser.py, top.py process_pkt).                              *)
THEOREM StreamRefined == Spec => ImplementsStream
<1>1. Init => Stream!StreamInit
  BY DEF Init, Stream!StreamInit, Answer
<1>2. IInv /\ [Next]_vars => [Stream!StreamNext]_(Stream!stream_vars)
  <2> SUFFICES ASSUME IInv, [Next]_vars
               PROVE  [Stream!StreamNext]_(Stream!stream_vars)
    OBVIOUS
  <2>1. CASE Publish \/ InitParams \/ UNCHANGED vars
    BY <2>1 DEF Publish, InitParams, vars, ghost_vars, Stream!stream_vars
  <2>2. CASE ReceivePacket
    <3>1. PICK cut : /\ taken' = taken
                     /\ \/ UNCHANGED <<answer, lossy>>
                        \/ answer' = Error /\ lossy' = (lossy \/ cut = "bad_length")
      BY <2>2 DEF ReceivePacket
    <3>2. lossy \in BOOLEAN
      BY DEF IInv, TopInv
    <3>3. CASE UNCHANGED <<answer, lossy>>
      BY <3>1, <3>3 DEF Stream!stream_vars
    <3>4. CASE answer' = Error /\ lossy' = (lossy \/ cut = "bad_length")
      <4>1. answer'.kind = "error" /\ (lossy' = lossy \/ lossy' = TRUE)
        BY <3>2, <3>4 DEF Error, Answer
      <4> QED BY <3>1, <4>1 DEF Stream!StreamNext, Stream!Tell, Stream!Other
    <3> QED BY <3>1, <3>3, <3>4
  <2>3. CASE \/ ParserError \/ ControlError \/ ControlMsg \/ LocateUnknown \/ BookMsg \/ Raised
    <3>1. Taking /\ (lossy' = lossy \/ Fail)
      BY <2>3
      DEF ParserError, ControlError, ControlMsg, LocateUnknown, BookMsg, Raised, Allowed, Continue
    <3> QED BY <3>1, HandleStep
  <2> QED BY <2>1, <2>2, <2>3 DEF Next
<1> QED BY <1>1, <1>2, InvariantHolds, PTL DEF Spec, ImplementsStream, Stream!StreamSpec
=============================================================================
