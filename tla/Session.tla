------------------------------ MODULE Session ------------------------------
(***************************************************************************)
(* The reference model around its order book (src/ref_model/top.py): an    *)
(* exchange publishes a day's messages, a network loses, repeats, reorders *)
(* and damages the packets that carry them, and Top hands every message of *)
(* an accepted packet to Control and to the book.  process_pkt is a        *)
(* generator that yields between messages, so a packet is handled one      *)
(* message at a time; the next packet begins when it is exhausted, which   *)
(* an error does at once.  How the book answers is left open: Book models  *)
(* it.                                                                     *)
(***************************************************************************)
EXTENDS SessionTypes, Sequences, FiniteSets

CONSTANTS stock_symbol, market_code,  \* what init_params asks for
          DirectoryRepeats,           \* the exchange may list a stock twice
          MaxAhead,                   \* bound on the messages not yet received
          MaxCount,                   \* bound on the messages of one packet
          MaxLate                     \* bound on how far back a repeated packet begins

ASSUME SessionAssumption ==
  /\ stock_symbol \in Symbols
  /\ market_code \in MarketCodes
  /\ DirectoryRepeats \in BOOLEAN
  /\ MaxAhead \in Nat \ {0} /\ MaxCount \in Nat \ {0} /\ MaxLate \in Nat

VARIABLES
  sent,        \* the exchange's messages, with what was true after each
  said,        \* events sent
  listed,      \* stocks a directory message was sent for
  trading,     \* the last trading action let the configured stock trade
  halted,      \* it is under an operational halt at the configured market
  seq_expected, session_id, first_pkt_received,              \* MoldUDP64
  initialized, msg_hours, sys_hours, mkt_hours,              \* Control
  stock_halt, market_halt, ctrl_locate,
  stock_active, stock_locate,                                \* Top
  payload,     \* messages of the packet in hand still to be handled
  answer,      \* the last TopResult
  taken,       \* number of the last message handled
  applied,     \* order messages the book has taken in
  lossy        \* a message of an accepted packet was answered with an error or left out

Mold == INSTANCE MoldUDP64
Ctrl == INSTANCE Control WITH stock_locate <- ctrl_locate

exchange_vars == <<sent, said, listed, trading, halted>>
mold_vars     == <<seq_expected, session_id, first_pkt_received>>
control_vars  == <<initialized, msg_hours, sys_hours, mkt_hours,
                   stock_halt, market_halt, ctrl_locate>>
top_vars      == <<stock_active, stock_locate>>
ghost_vars    == <<taken, applied, lossy>>

vars == <<exchange_vars, mold_vars, control_vars, top_vars, payload, answer, ghost_vars>>

----------------------------------------------------------------------------
(* The exchange. *)

Ours == "ours"

Sessions == {Ours, "foreign"}

OpenForMessages == said \in 1 .. 5

(* The stock is open: system hours have begun and not ended, and nothing   *)
(* halts it.                                                               *)
Open ==
  /\ said \in 2 .. 4
  /\ trading
  /\ ~halted

SentSoFar == IF sent = <<>> THEN 0 ELSE sent[Len(sent)].orders

(* The next message, with what is true once it is sent: how far the day    *)
(* is, which stocks are listed, whether the configured one is open, and    *)
(* how many order messages it has had.                                     *)
Send(msg) ==
  sent' = Append(sent, [msg     |-> msg,
                        said    |-> said',
                        listed  |-> listed',
                        trading |-> trading',
                        halted  |-> halted',
                        open    |-> Open',
                        orders  |-> IF msg.kind = "BOOK" /\ msg.stock_locate = locate_of[stock_symbol]
                                    THEN SentSoFar + 1 ELSE SentSoFar])

PublishEvent ==
  /\ said < Len(EventCodes)
  /\ said' = said + 1
  /\ UNCHANGED <<listed, trading, halted>>
  /\ Send([kind |-> "EVENT", event_code |-> EventCodes[said + 1]])

PublishDirectory ==
  \E s \in Symbols :
    /\ OpenForMessages
    /\ s \in listed => DirectoryRepeats
    /\ listed' = listed \cup {s}
    /\ UNCHANGED <<said, trading, halted>>
    /\ Send([kind |-> "DIRECTORY", stock_symbol |-> s, stock_locate |-> locate_of[s]])

PublishTradeAction ==
  \E s \in listed, action \in {"HALT", "TRADE"} :
    /\ OpenForMessages
    /\ trading' = IF s = stock_symbol THEN action = "TRADE" ELSE trading
    /\ UNCHANGED <<said, listed, halted>>
    /\ Send([kind |-> "ACTION", stock_symbol |-> s, trade_action |-> action])

(* An operational halt begins, or the one in force ends. *)
PublishOpHalt ==
  \E s \in listed, m \in MarketCodes, is_halt \in BOOLEAN :
    /\ OpenForMessages
    /\ IF s = stock_symbol /\ m = market_code
       THEN is_halt = ~halted /\ halted' = is_halt
       ELSE UNCHANGED halted
    /\ UNCHANGED <<said, listed, trading>>
    /\ Send([kind |-> "HALT", stock_symbol |-> s, market_code |-> m, is_halt |-> is_halt])

PublishOrder ==
  \E s \in listed :
    /\ OpenForMessages
    /\ UNCHANGED <<said, listed, trading, halted>>
    /\ Send([kind |-> "BOOK", stock_locate |-> locate_of[s]])

PublishIgnored ==
  /\ OpenForMessages
  /\ UNCHANGED <<said, listed, trading, halted>>
  /\ Send([kind |-> "IGNORE"])

Publish ==
  /\ Len(sent) < seq_expected - 1 - Len(payload) + MaxAhead
  /\ \/ PublishEvent \/ PublishDirectory \/ PublishTradeAction
     \/ PublishOpHalt \/ PublishOrder \/ PublishIgnored
  /\ UNCHANGED <<mold_vars, control_vars, top_vars, payload, answer, ghost_vars>>

----------------------------------------------------------------------------
(* Top. *)

Answer(kind, shown) == [kind |-> kind, shown |-> shown]

Error == Answer("error", FALSE)

Stopped == answer.kind = "exception"

InitParams ==
  /\ ~Stopped /\ payload = <<>>
  /\ Ctrl!InitParams
  /\ UNCHANGED <<exchange_vars, mold_vars, top_vars, payload, answer, ghost_vars>>

(* Any packet the exchange could have sent by now, cut out of its stream   *)
(* anywhere and sent again any number of times; it may lose bytes.  A      *)
(* foreign session's packets carry messages only once ours is followed.    *)
Receivable(pkt) ==
  /\ pkt.seq + pkt.msg_count - 1 <= Len(sent)
  /\ pkt.seq + MaxLate >= seq_expected
  /\ pkt.session_id = Ours \/ session_id = Ours \/ pkt.msg_count = 0

(* The packet's messages; the ITCH parser refuses message number bad. *)
Messages(pkt, bad) ==
  [i \in 1 .. pkt.msg_count |-> [number |-> pkt.seq + i - 1, parses |-> i # bad]]

(* process_pkt begins: the MoldUDP64 parser accepts or refuses the packet. *)
ReceivePacket ==
  /\ ~Stopped /\ payload = <<>>
  /\ \E pkt \in Mold!Packet(Sessions, 1 .. Len(sent) + 1, 0 .. MaxCount), bad \in 0 .. MaxCount :
       /\ Receivable(pkt)
       /\ bad <= IF Mold!Outcome(pkt) = "ok" THEN pkt.msg_count ELSE 0
       /\ Mold!ProcessPkt(pkt)
       /\ IF Mold!Outcome(pkt) = "ok"
          THEN payload' = Messages(pkt, bad) /\ UNCHANGED <<answer, lossy>>
          ELSE /\ UNCHANGED payload
               /\ answer' = Error
               /\ lossy' = (lossy \/ Mold!Outcome(pkt) = "bad_length")
  /\ UNCHANGED <<exchange_vars, control_vars, top_vars, taken, applied>>

(* The message in hand. *)
Item == Head(payload)
Msg  == sent[Item.number].msg

(* process_pkt yields an error and returns: the rest of the packet is dropped. *)
Fail ==
  /\ answer' = Error
  /\ payload' = <<>>
  /\ lossy' = TRUE

(* It goes on with the next message. *)
Continue(result) ==
  /\ answer' = result
  /\ payload' = Tail(payload)
  /\ UNCHANGED lossy

Taking ==
  /\ ~Stopped /\ payload # <<>>
  /\ taken' = Item.number
  /\ UNCHANGED <<exchange_vars, mold_vars>>

Controlled ==
  /\ Item.parses
  /\ Ctrl!ProcessMsg(Msg)

ParserError ==
  /\ Taking
  /\ ~Item.parses
  /\ Fail
  /\ UNCHANGED <<control_vars, top_vars, applied>>

ControlError ==
  /\ Taking
  /\ Controlled
  /\ Ctrl!Outcome(Msg) \in {"uninitialized", "locate_mismatch", "not_msg_hours"}
  /\ Fail
  /\ UNCHANGED <<top_vars, applied>>

(* Mutant: Top asks for the verdict on trading with order messages only. *)
AllowedForOrders ==
  /\ Taking
  /\ Controlled
  /\ Ctrl!Outcome(Msg) = "ok"
  /\ stock_active' = IF Msg.kind = "BOOK" THEN Ctrl!StockActive' ELSE stock_active

(* Control has taken the message in, and Top its verdict on trading. *)
Allowed ==
  /\ Taking
  /\ Controlled
  /\ Ctrl!Outcome(Msg) = "ok"
  /\ stock_active' = Ctrl!StockActive'

(* A message for Control alone, or for another stock's book. *)
ControlMsg ==
  /\ Allowed
  /\ Msg.kind = "BOOK" => stock_locate \notin {NoLocate, Msg.stock_locate}
  /\ LET locate == Ctrl!LocateResult(Msg)
     IN  /\ locate # NoLocate => stock_locate = NoLocate
         /\ stock_locate' = IF locate = NoLocate THEN stock_locate ELSE locate
  /\ Continue(Answer("quiet", FALSE))
  /\ UNCHANGED applied

(* An order message before any directory message for the stock. *)
LocateUnknown ==
  /\ Allowed
  /\ Msg.kind = "BOOK" /\ stock_locate = NoLocate
  /\ Fail
  /\ UNCHANGED <<stock_locate, applied>>

(* An order message for the stock, which the book takes in or refuses.     *)
BookMsg ==
  /\ Allowed
  /\ Msg.kind = "BOOK" /\ stock_locate = Msg.stock_locate
  /\ \/ Continue(Answer("best", stock_active')) /\ applied' = applied + 1
     \/ Fail /\ UNCHANGED applied
  /\ UNCHANGED stock_locate

(* An assertion of Control or of Top (the locate is set once) ends the run. *)
Raised ==
  /\ Taking
  /\ Controlled
  /\ \/ Ctrl!Outcome(Msg) = "assert" /\ UNCHANGED stock_active
     \/ /\ Ctrl!Outcome(Msg) = "ok"
        /\ stock_active' = Ctrl!StockActive'
        /\ Ctrl!LocateResult(Msg) # NoLocate /\ stock_locate # NoLocate
  /\ answer' = Answer("exception", FALSE)
  /\ UNCHANGED <<stock_locate, payload, applied, lossy>>

Init ==
  /\ sent = <<>> /\ said = 0 /\ listed = {} /\ trading = FALSE /\ halted = FALSE
  /\ Mold!InitMold
  /\ Ctrl!InitControl
  /\ stock_active = FALSE /\ stock_locate = NoLocate
  /\ payload = <<>> /\ answer = Answer("none", FALSE)
  /\ taken = 0 /\ applied = 0 /\ lossy = FALSE

Next ==
  \/ Publish \/ InitParams \/ ReceivePacket
  \/ ParserError \/ ControlError \/ ControlMsg \/ LocateUnknown \/ BookMsg \/ Raised

Spec == Init /\ [][Next]_vars

----------------------------------------------------------------------------
(* Every variable has its type. *)
TypeOK ==
  /\ \A n \in DOMAIN sent : sent[n].msg \in ITCHMsg
  /\ said \in 0 .. Len(EventCodes)
  /\ listed \subseteq Symbols
  /\ taken < seq_expected /\ applied <= taken
  /\ seq_expected \in 1 .. Len(sent) + 1
  /\ session_id \in Sessions \cup {Mold!NoSession}
  /\ {initialized, msg_hours, sys_hours, mkt_hours, stock_halt, market_halt,
      first_pkt_received, stock_active, lossy,
      trading, halted} \subseteq BOOLEAN
  /\ {ctrl_locate, stock_locate} \subseteq Locates \cup {NoLocate}
  /\ payload \in Seq([number : 1 .. Len(sent), parses : BOOLEAN])
  /\ answer \in [kind : {"none", "quiet", "best", "error", "exception"}, shown : BOOLEAN]

(* Whatever the network does, messages are handled in order, at most once, *)
(* and none is left out before an error has been answered                  *)
(* (moldudp64_parser.py, top.py process_pkt).                              *)
Stream == INSTANCE OrderedStream WITH position <- taken,
                                      told     <- lossy,
                                      answer   <- answer.kind

ImplementsStream == Stream!StreamSpec

(* As long as no message was refused or left out, Top shows best levels    *)
(* exactly when the stock was open at the exchange as of the message       *)
(* handled last, however late and in whatever packets it came.             *)
GateFollowsExchange ==
  ~lossy /\ ~Stopped =>
    stock_active = (taken > 0 /\ sent[taken].open)

(* As long as no message was refused or left out, the book has taken in    *)
(* every order message of the stock up to the message handled last, and    *)
(* none of another stock.                                                  *)
BookFollowsStream ==
  ~lossy /\ ~Stopped =>
    applied = IF taken = 0 THEN 0 ELSE sent[taken].orders

(* Even past an error, which returns from process_pkt before Top notes     *)
(* Control's verdict (top.py:70-74), the verdict Top holds is Control's,   *)
(* and so is the locate code.                                              *)
TopFollowsControl ==
  ~Stopped => /\ stock_active = Ctrl!StockActive
              /\ stock_locate # NoLocate => stock_locate = ctrl_locate

(* A legal day that arrives without a refused or missing message runs into *)
(* no assertion of Control or Top.                                         *)
NoAssertionFails == ~lossy => ~Stopped

(* A message is handled only if the one before it was (README.md:54-55:    *)
(* checking numbers and lengths "ensures there are no missing messages").  *)
NoMessageMissing == payload # <<>> => Item.number = taken + 1

(* A repeated directory message is accepted, as tests/test_control.py:92   *)
(* expects of Control.                                                     *)
DirectoryMayRepeat == ~lossy => ~Stopped
=============================================================================
