------------------------------ MODULE MCUartRx ------------------------------
(* An instance of UartRx: a hardware FIFO of two bytes and a ring with     *)
(* room for one of them and a byte.                                        *)
EXTENDS UartRx

CONSTANTS t1, t2
=============================================================================
