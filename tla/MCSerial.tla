------------------------------ MODULE MCSerial ------------------------------
(***************************************************************************)
(* The two directions of the serial line, for TLC: Console is the input,   *)
(* Uart the output.  They share no variable, so a behaviour is of one part *)
(* only; the other stays as it was in the beginning.                       *)
(***************************************************************************)
EXTENDS Console

CONSTANTS Writers, UART_TX_BUF_SIZE, TXWRAP, NBYTES, NECHO, Echo, NoByte

ASSUME UartAssumption ==
  /\ UART_TX_BUF_SIZE \in Nat \ {0} /\ TXWRAP > UART_TX_BUF_SIZE /\ TXWRAP % UART_TX_BUF_SIZE = 0
  /\ {NBYTES, NECHO} \subseteq Nat

VARIABLES tx_buf, tx_w, tx_r, fifo, irq, wire, st, n, echo, part

U == INSTANCE Uart WITH WRAP <- TXWRAP, buf <- tx_buf

outvars == <<tx_buf, tx_w, tx_r, fifo, irq, wire, st, n, echo>>

MCInit == Init /\ U!Init /\ part \in {"input", "output"}

Input == part = "input" /\ Next /\ UNCHANGED <<outvars, part>>
Output == part = "output" /\ U!Next /\ UNCHANGED <<vars, part>>

\* The fairness of Console and that of Uart, for the part that runs.
MCSpec ==
  /\ MCInit /\ [][Input \/ Output]_<<vars, outvars, part>>
  /\ \A p \in Readers : SF_vars(part = "input" /\ Reader(p))
  /\ WF_outvars(part = "output" /\ U!device) /\ WF_outvars(part = "output" /\ U!uartintr)
  /\ WF_outvars(part = "output" /\ U!uartputc_sync)
  /\ \A p \in Writers : WF_outvars(part = "output" /\ U!Put(p))

\* uartputc() and uartstart(): whatever the interleaving, the bytes of each
\* process are sent in the order it wrote them, none lost and none twice; and
\* while bytes wait in the ring the device is busy or about to interrupt.
BytesInOrder == U!BytesInOrder /\ U!NeverStalls

\* Everything processes write to the console is sent.
AllSent == part = "output" => U!AllSent
=============================================================================
