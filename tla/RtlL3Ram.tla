------------------------------ MODULE RtlL3Ram ------------------------------
(***************************************************************************)
(* The block memory of the hardware order table, one line of words per     *)
(* address (l3_sdpram_wrapper of rtl/module/l3_order_table.sv around the   *)
(* memory macro).  A read takes two clocks, a write reaches the memory one *)
(* clock after it is asked for, and a write the read just missed is taken  *)
(* from the bypass.  Register groups of the code are records here.         *)
(***************************************************************************)
EXTENDS Integers

CONSTANTS L3_ADDRS,      \* lines, 1 << L3_LOG_ADDR_SIZE
          L3_LINE_SIZE   \* words of a line, 1 << L3_LOG_LINE_SIZE

VARIABLES mem,                \* the memory macro
          write_q,            \* the write asked for at the last clock
          write_q2,           \* the write sent to the macro at the last clock
          addrb_q, doutb,     \* the read the macro is answering, and its answer
          doutb_o,            \* the line read, two clocks after its address
          rst_in_progress_q, count_q

ram_vars == <<mem, write_q, write_q2, addrb_q, doutb, doutb_o,
              rst_in_progress_q, count_q>>

Addrs == 0 .. L3_ADDRS - 1
Ways  == 0 .. L3_LINE_SIZE - 1

(* l3_word_s with every bit clear. *)
NoWord == [valid |-> FALSE, order_id |-> 0, is_buy |-> FALSE, shares |-> 0, price |-> 0]

EmptyLine == [w \in Ways |-> NoWord]

(* l3_ram_rst_done_o, the ready signal of the table. *)
rst_done == ~rst_in_progress_q

(* The line sent to the macro: the line read, one word replaced. *)
dina == IF rst_in_progress_q THEN EmptyLine
        ELSE [write_q.line EXCEPT ![write_q.word_idx] = write_q.word]

wea   == rst_in_progress_q \/ write_q.wea
addra == IF rst_in_progress_q THEN count_q ELSE write_q.addra

(* The memory once the write on its way has arrived. *)
Written == IF wea THEN [mem EXCEPT ![addra] = dina] ELSE mem

(* Mutant: the line read is the macro's, whatever was written meanwhile. *)
ReadWithoutBypass == doutb

(* The second clock of a read. *)
Read == IF addrb_q = write_q2.addra /\ write_q2.wea THEN write_q2.dina ELSE doutb

(* Mutant: the count stops before the last line is cleared. *)
ResetStepShort ==
  /\ rst_in_progress_q' = (count_q > 1)
  /\ count_q' = IF rst_in_progress_q /\ count_q # 0 THEN count_q - 1 ELSE 0

(* Mutant: the count goes on past zero. *)
ResetStepWraps ==
  /\ rst_in_progress_q' = (count_q # 0)
  /\ count_q' = IF rst_in_progress_q THEN count_q - 1 ELSE 0

(* After a reset every line is cleared, one per clock. *)
ResetStep ==
  /\ rst_in_progress_q' = (count_q # 0)
  /\ count_q' = IF rst_in_progress_q /\ count_q # 0 THEN count_q - 1 ELSE 0

(* One clock: the write request is taken in, the read of addrb begins. *)
RamClock(write, addrb) ==
  /\ mem' = Written
  /\ doutb' = mem[addrb]
  /\ addrb_q' = addrb
  /\ doutb_o' = Read
  /\ write_q' = write
  /\ write_q2' = [wea |-> write_q.wea, addra |-> write_q.addra, dina |-> dina]
  /\ ResetStep

(* As a reset leaves it: the memory itself keeps what it held before. *)
InitRam(before) ==
  /\ mem = before
  /\ write_q = [wea |-> FALSE, addra |-> 0, line |-> EmptyLine, word_idx |-> 0, word |-> NoWord]
  /\ write_q2 = [wea |-> FALSE, addra |-> 0, dina |-> EmptyLine]
  /\ addrb_q = 0
  /\ doutb = EmptyLine
  /\ doutb_o = EmptyLine
  /\ rst_in_progress_q = TRUE
  /\ count_q = L3_ADDRS - 1
=============================================================================
