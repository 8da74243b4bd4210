\* Output stops when everything has been sent: AllSent.
SPECIFICATION MCSpec
CONSTANTS
  Readers = {p1, p2}
  Killable = {p1}
  INPUT_BUF = 3
  WRAP = 6
  MAXREAD = 2
  Plain = {"x"}
  Nobody = Nobody
  Writers = {p1, p2}
  UART_TX_BUF_SIZE = 2
  TXWRAP = 4
  NBYTES = 3
  NECHO = 1
  Echo = Echo
  NoByte = NoByte
INVARIANTS NeverJams BytesInOrder
PROPERTIES Coherent InputRead AllSent
CHECK_DEADLOCK FALSE
