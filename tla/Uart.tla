-------------------------------- MODULE Uart --------------------------------
(***************************************************************************)
(* Console output, kernel/uart.c: processes that write through the         *)
(* transmit ring, the interrupt handler, the kernel's own output that goes *)
(* around the ring, and the device.                                        *)
(*                                                                         *)
(* A byte is <<p, i>>, the i-th one process p writes, or Echo.  A step is  *)
(* a section under uart_tx_lock; uartstart()'s loop ends after one byte    *)
(* because the device is then busy.  uart_tx_w and uart_tx_r are kept      *)
(* modulo WRAP.                                                            *)
(***************************************************************************)
EXTENDS Integers, Sequences, SequencesExt

CONSTANTS Writers,
          UART_TX_BUF_SIZE,
          WRAP,        \* 2^64
          NBYTES,      \* bound: bytes each process writes
          NECHO,       \* bound: bytes the kernel prints or echoes
          Echo, NoByte

VARIABLES
  buf, tx_w, tx_r,  \* the ring
  fifo,             \* the device's holding register and FIFO
  irq,              \* a transmit interrupt is pending
  wire,             \* what has been sent
  st,               \* processes: "run" or "sleep" in uartputc
  n,                \* how many bytes each process has put into the ring
  echo              \* uartputc_sync: bytes left, and has it seen the device idle

vars == <<buf, tx_w, tx_r, fifo, irq, wire, st, n, echo>>

Plus(i, k) == (i + k) % WRAP
Slot(i) == i % UART_TX_BUF_SIZE
-----------------------------------------------------------------------------
(* A definition with the name of another one and a suffix is a wrong       *)
(* version of it that no specification uses.                               *)

Full_OneMore == tx_w = Plus(tx_r, UART_TX_BUF_SIZE + 1)

\* No room for another byte.
Full == tx_w = Plus(tx_r, UART_TX_BUF_SIZE)

Wake_Not == st

\* wakeup(&uart_tx_r).
Wake == [p \in Writers |-> "run"]

\* i += 1.
Bump(i) == Plus(i, 1)

\* uartstart(), on ring b with write index w: give the device a byte if it is
\* idle and there is one.
uartstart(b, w) ==
  IF w = tx_r \/ fifo # <<>>
  THEN UNCHANGED <<tx_r, fifo, st>>
  ELSE /\ fifo' = <<b[Slot(tx_r)]>>
       /\ tx_r' = Bump(tx_r)
       /\ st' = Wake

\* uartputc(): sleep while the ring is full,
uartputc_sleep(p) ==
  /\ st[p] = "run" /\ n[p] < NBYTES
  /\ Full
  /\ st' = [st EXCEPT ![p] = "sleep"]
  /\ UNCHANGED <<buf, tx_w, tx_r, fifo, irq, wire, n, echo>>

\* ... or add the byte and start the device.
uartputc(p) ==
  /\ st[p] = "run" /\ n[p] < NBYTES
  /\ ~Full
  /\ buf' = [buf EXCEPT ![Slot(tx_w)] = <<p, n[p] + 1>>]
  /\ tx_w' = Bump(tx_w)
  /\ n' = [n EXCEPT ![p] = @ + 1]
  /\ uartstart(buf', tx_w')
  /\ UNCHANGED <<irq, wire, echo>>

\* The output half of uartintr().
Intr == uartstart(buf, tx_w)

uartintr ==
  /\ irq
  /\ irq' = FALSE
  /\ Intr
  /\ UNCHANGED <<buf, tx_w, wire, n, echo>>

\* uartputc_sync(), without a lock: wait until the device is idle, then write.
\* uartstart() on another CPU may come in between.
sync_wait ==
  /\ echo.left > 0 /\ ~echo.seen /\ fifo = <<>>
  /\ echo' = [echo EXCEPT !.seen = TRUE]
  /\ UNCHANGED <<buf, tx_w, tx_r, fifo, irq, wire, st, n>>

uartputc_sync ==
  /\ echo.seen
  /\ fifo' = Append(fifo, Echo)
  /\ echo' = [left |-> echo.left - 1, seen |-> FALSE]
  /\ UNCHANGED <<buf, tx_w, tx_r, irq, wire, st, n>>

\* The device sends a byte, and interrupts when it has no more.
device ==
  /\ fifo # <<>>
  /\ wire' = Append(wire, Head(fifo))
  /\ fifo' = Tail(fifo)
  /\ irq' = (irq \/ Tail(fifo) = <<>>)
  /\ UNCHANGED <<buf, tx_w, tx_r, st, n, echo>>
-----------------------------------------------------------------------------
Init ==
  /\ buf = [i \in 0..UART_TX_BUF_SIZE - 1 |-> NoByte]
  /\ tx_w = 0 /\ tx_r = 0 /\ fifo = <<>> /\ irq = FALSE /\ wire = <<>>
  /\ st = [p \in Writers |-> "run"]
  /\ n = [p \in Writers |-> 0]
  /\ echo = [left |-> NECHO, seen |-> FALSE]

Put(p) == uartputc_sleep(p) \/ uartputc(p)

\* It stops when everything has been sent.
Next ==
  \/ \E p \in Writers : Put(p)
  \/ uartintr \/ sync_wait \/ uartputc_sync \/ device

Spec == Init /\ [][Next]_vars

\* The device sends, interrupts are delivered, processes are scheduled.
LiveSpec == Spec /\ WF_vars(device) /\ WF_vars(uartintr) /\ WF_vars(uartputc_sync)
                 /\ \A p \in Writers : WF_vars(Put(p))
-----------------------------------------------------------------------------
(* Properties.                                                             *)

\* The type of every variable.
TypeOK ==
  /\ {tx_w, tx_r} \subseteq 0..WRAP - 1 /\ irq \in BOOLEAN
  /\ st \in [Writers -> {"run", "sleep"}] /\ n \in [Writers -> 0..NBYTES]
  /\ echo.left \in 0..NECHO

\* The bytes in the ring, from the one to send next.
Ring == [k \in 1..((tx_w - tx_r) % WRAP) |-> buf[Slot(Plus(tx_r, k - 1))]]

\* Whatever the interleaving, the bytes of each process are sent in the order
\* it wrote them, none lost, none twice, with those in the device and the
\* ring still to come.
BytesInOrder ==
  \A p \in Writers :
    SelectSeq(wire \o fifo \o Ring, LAMBDA b : b # Echo /\ b[1] = p) = [i \in 1..n[p] |-> <<p, i>>]

\* While bytes wait in the ring the device is busy or about to interrupt:
\* output never stops half way.
NeverStalls == TypeOK /\ (tx_w # tx_r => fifo # <<>> \/ irq)

\* Everything written is sent.
AllSent == <>(\A p \in Writers : Len(SelectSeq(wire, LAMBDA b : b # Echo /\ b[1] = p)) = NBYTES)
=============================================================================
