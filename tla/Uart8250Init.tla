---------------------------- MODULE Uart8250Init ----------------------------
(***************************************************************************)
(* serial_8250_init (sys/dev/tty/serial/8250.c) against the registers of   *)
(* the UART (sys/dev/tty/serial/8250.h): the first two addresses hold the  *)
(* divisor latch while DLAB, the top bit of LCR, is set.  What the chip    *)
(* holds at entry is what the firmware left, DLAB included.  reg_offset is *)
(* 0 on every board.                                                       *)
(***************************************************************************)
EXTENDS Integers, Sequences

CONSTANTS
  Entries,   (* register contents a kernel may find                        *)
  Clock,     (* CONFIG_CLOCK                                               *)
  Beaudrate, (* the board's beaudrate                                      *)
  Text,      (* bytes the console prints after initialisation              *)
  MaxText    (* bound: bytes in the holding register's history             *)

ASSUME ClockAssumption == Clock \in Nat \ {0} /\ Beaudrate \in Nat \ {0}

VARIABLES
  entry,     (* the registers at entry, fixed                              *)
  little,    (* the compiler's byte order, fixed                           *)
  regs,      (* the registers                                              *)
  thr,       (* history: bytes written to the transmit holding register    *)
  next       (* the write that comes next                                  *)

vars == <<entry, little, regs, thr, next>>

AByte == 0..255
Registers == [ier : AByte, fcr : AByte, lcr : AByte, mcr : AByte,
              dll : AByte, dlh : AByte]

ASSUME EntriesAssumption == Entries \subseteq Registers /\ Text \subseteq AByte

Dlab(r) == r.lcr >= 128

Init ==
  /\ entry \in Entries /\ little \in BOOLEAN
  /\ regs = entry
  /\ thr = <<>>
  /\ next = 1

----------------------------------------------------------------------------
(* uint16_t divisor, and the two bytes the driver makes of it: the high    *)
(* one is multiplied by 0xFF, cut to eight bits by mmio_write8.            *)
Divisor == (Clock \div (Beaudrate * 16)) % 65536
LowByte == Divisor % 256
HighByte == ((Divisor \div 256) * 255) % 256

(* Mutant of Program: the line control write keeps DLAB set.               *)
ProgramDlabLeft(le) ==
  << <<1, 0>>, <<2, 128>>,
     <<0, IF le THEN HighByte ELSE LowByte>>,
     <<1, IF le THEN LowByte ELSE HighByte>>,
     <<0, 12>>, <<1, 0>>, <<3, 136>>, <<2, 199>>, <<4, 11>> >>

(* Mutant of Program: the second divisor is not written.                   *)
ProgramOneDivisor(le) ==
  << <<1, 0>>, <<2, 128>>,
     <<0, IF le THEN HighByte ELSE LowByte>>,
     <<1, IF le THEN LowByte ELSE HighByte>>,
     <<3, 8>>, <<2, 199>>, <<4, 11>> >>

(* The driver's writes, <<register, value>>, in order: IER, IIR (where the *)
(* chip has FCR), DLL and DLH twice, LCR, FCR, MCR.                        *)
Program(le) ==
  << <<1, 0>>, <<2, 128>>,
     <<0, IF le THEN HighByte ELSE LowByte>>,
     <<1, IF le THEN LowByte ELSE HighByte>>,
     <<0, 12>>, <<1, 0>>, <<3, 8>>, <<2, 199>>, <<4, 11>> >>

Done == next > Len(Program(little))

(* The register an address selects.                                        *)
Selected(r, address) ==
  CASE address = 0 -> IF Dlab(r) THEN "dll" ELSE "thr"
    [] address = 1 -> IF Dlab(r) THEN "dlh" ELSE "ier"
    [] address = 2 -> "fcr"
    [] address = 3 -> "lcr"
    [] address = 4 -> "mcr"

WriteRegister ==
  /\ ~Done
  /\ LET w == Program(little)[next]
         r == Selected(regs, w[1])
     IN  IF r = "thr"
         THEN thr' = Append(thr, w[2]) /\ UNCHANGED regs
         ELSE regs' = [regs EXCEPT ![r] = w[2]] /\ UNCHANGED thr
  /\ next' = next + 1
  /\ UNCHANGED <<entry, little>>

(* serial_8250_write, once the driver is initialised: a byte for address 0.*)
WriteByte(b) ==
  /\ Done /\ Len(thr) < MaxText
  /\ IF Selected(regs, 0) = "thr"
     THEN thr' = Append(thr, b) /\ UNCHANGED regs
     ELSE regs' = [regs EXCEPT !.dll = b] /\ UNCHANGED thr
  /\ UNCHANGED <<entry, little, next>>

Next == WriteRegister \/ \E b \in Text : WriteByte(b)

Spec == Init /\ [][Next]_vars

----------------------------------------------------------------------------
(* After initialisation the bytes of the console go to the holding         *)
(* register and never into the divisor latch, whatever DLAB was at entry:  *)
(* a write changes no register any more.                                   *)
ConsoleReachesThr == [][Done => UNCHANGED regs]_vars

(* "Disable all interrupts": none is enabled after initialisation, though  *)
(* a divisor byte lands in the interrupt enable register on the way.  It   *)
(* holds when the firmware left DLAB clear; otherwise the writes meant for *)
(* that register go to the divisor latch and its old contents stay.        *)
InterruptsOff == Done => regs.ier = IF Dlab(entry) THEN entry.ier ELSE 0

(* The speed after initialisation: the board's beaudrate never sets it.    *)
(* With DLAB clear at entry the divisor is the firmware's and the bytes    *)
(* meant for it go out on the line, before any text; with DLAB set it is   *)
(* the fixed 12.                                                           *)
Stray == IF Dlab(entry) THEN <<>> ELSE <<Program(little)[3][2], 12>>
SpeedAfterInit ==
  Done => /\ <<regs.dlh, regs.dll>> = IF Dlab(entry) THEN <<0, 12>>
                                      ELSE <<entry.dlh, entry.dll>>
          /\ Len(thr) >= Len(Stray) /\ SubSeq(thr, 1, Len(Stray)) = Stray
          /\ \A i \in (Len(Stray) + 1)..Len(thr) : thr[i] \in Text
=============================================================================
