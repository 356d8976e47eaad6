-------------------------- MODULE MCUart8250Init --------------------------
(* Instances of Uart8250Init for TLC: every combination of the values a    *)
(* reset (zeros) or a firmware that used the port (8N1, 9600 and 115200    *)
(* baud, its interrupts on, DLAB left set) may leave.                      *)
EXTENDS Uart8250Init

MCEntries == [ier : {0, 1, 15}, fcr : {0, 1}, lcr : {0, 3, 128, 131},
              mcr : {0, 3, 11}, dll : {0, 1, 12}, dlh : {0}]
MCText == {10, 65}
===========================================================================
