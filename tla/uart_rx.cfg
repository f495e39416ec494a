CONSTANTS
  t1 = t1
  t2 = t2
  Tasks = {t1, t2}
  RxBufferSize = 12
  UART_FIFO_LEN = 2
  SameCpu = {TRUE, FALSE}
  Lengths = {1, 3}
  MaxBytes = 5
SPECIFICATION FairSpec
INVARIANTS
  EveryByteOnce
  BufferedLenIsExact
PROPERTY StashIsSent
