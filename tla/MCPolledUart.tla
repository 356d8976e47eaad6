---------------------------- MODULE MCPolledUart ----------------------------
(* Instances of PolledUart for TLC: strings with and without line feeds,   *)
(* two of them in a row included.                                          *)
EXTENDS PolledUart

CONSTANT x

MCByte == {x, CR, LF, FW}
MCStrings == {<<x>>, <<LF>>, <<x, LF>>, <<LF, LF>>}
MCAll == {"serial_8250", "pdp11", "cortex_a7", "riscv"}
MCA7 == {"cortex_a7"}
=============================================================================
