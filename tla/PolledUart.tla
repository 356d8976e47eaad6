----------------------------- MODULE PolledUart -----------------------------
(***************************************************************************)
(* The kernel's polled serial output: a driver that reads a status         *)
(* register until it may store the next byte, against a UART that works on *)
(* its own.  Four drivers of the repository:                               *)
(*   serial_8250  sys/dev/tty/serial/8250.c (i386 and MIPS boards)         *)
(*   pdp11        debug_putchar of sys/pdp11/init.c                        *)
(*   cortex_a7    sys/arm/soc/cortex-a7/uart.c                             *)
(*   riscv        sys/riscv/uart.c                                         *)
(* A call of a driver that takes one character is a call with a string of  *)
(* the characters the boot code passes it one after another.               *)
(***************************************************************************)
EXTENDS Integers, Sequences

CONSTANTS
  Drivers,   (* the drivers to consider, some of the four above            *)
  Strings,   (* the strings the kernel writes                              *)
  Byte, CR, LF, FW,  (* bytes; FW is one the firmware left behind          *)
  Depth,     (* bytes the holding register, or its FIFO, can keep          *)
  MaxBytes   (* bound: bytes handed to the driver in one behaviour         *)

ASSUME DriversAssumption ==
  Drivers \subseteq {"serial_8250", "pdp11", "cortex_a7", "riscv"}
ASSUME ByteAssumption == {CR, LF, FW} \subseteq Byte
ASSUME StringsAssumption == Strings \subseteq Seq(Byte)
ASSUME DepthAssumption == Depth \in Nat \ {0}

VARIABLES
  driver,    (* the driver in use, fixed                                   *)
  pc,        (* idle; polling for room; about to store; polling once more  *)
  str,       (* characters the call in progress has still to store         *)
  cr,        (* a carriage return went out for the line feed at its head   *)
  thr,       (* the transmit holding register, oldest byte first           *)
  tsr,       (* the byte being shifted out, if any                         *)
  rbr,       (* a received byte waits in the receive buffer                *)
  wire,      (* history: the bytes that left the UART                      *)
  stored,    (* history: the bytes stored in the holding register          *)
  accepted   (* history: the bytes that calls asked to put on the line     *)

vars == <<driver, pc, str, cr, thr, tsr, rbr, wire, stored, accepted>>

TypeOK ==
  /\ driver \in Drivers
  /\ pc \in {"idle", "poll", "store", "drain"}
  /\ str \in Seq(Byte) /\ (pc \in {"poll", "store"} => str # <<>>)
  /\ cr \in BOOLEAN /\ rbr \in BOOLEAN
  /\ thr \in Seq(Byte) /\ Len(thr) <= Depth
  /\ tsr \in Seq(Byte) /\ Len(tsr) <= 1
  /\ wire \in Seq(Byte) /\ stored \in Seq(Byte)

(* The firmware may still be sending when the kernel starts.               *)
Leftovers == {<<>>, <<FW>>}

Init ==
  /\ driver \in Drivers
  /\ pc = "idle" /\ str = <<>> /\ cr = FALSE /\ rbr = FALSE
  /\ thr \in Leftovers /\ tsr = <<>>
  /\ wire = <<>> /\ stored = thr /\ accepted = thr

----------------------------------------------------------------------------
(* The bytes a string comes to on the line: the 8250 driver puts a         *)
(* carriage return before every line feed, the others do not.              *)
OnLine(d, s) ==
  LET byte(i) == IF d = "serial_8250" /\ s[i] = LF THEN <<CR, LF>> ELSE <<s[i]>>
      upto[i \in 0..Len(s)] == IF i = 0 THEN <<>> ELSE upto[i - 1] \o byte(i)
  IN  upto[Len(s)]

(* Mutant of Ready: waits for the shift register, not for the holding one. *)
ReadyOnShift(d) == IF d = "riscv" THEN ~rbr ELSE tsr = <<>>

(* Mutant of Ready: the 8250 test inverted.                                *)
ReadyInverted(d) == IF d = "riscv" THEN ~rbr ELSE thr # <<>>

(* What each driver's polling loop waits for: an empty holding register;   *)
(* on cortex_a7 the test is the other way round; on riscv the register     *)
(* read is the receive buffer, not the line status.                        *)
Ready(d) ==
  \/ d \in {"serial_8250", "pdp11"} /\ thr = <<>>
  \/ d = "cortex_a7" /\ thr # <<>>
  \/ d = "riscv" /\ ~rbr

Call(s) ==
  /\ pc = "idle" /\ s # <<>>
  /\ Len(accepted) + Len(OnLine(driver, s)) <= MaxBytes
  /\ pc' = "poll"
  /\ str' = s
  /\ accepted' = accepted \o OnLine(driver, s)
  /\ UNCHANGED <<driver, cr, thr, tsr, rbr, wire, stored>>

(* A read of the status that ends the loop; one that does not changes      *)
(* nothing, save on riscv, where it takes a received byte away, after      *)
(* which a part without FIFO may go on returning that byte.                *)
Poll ==
  /\ pc = "poll" /\ Ready(driver)
  /\ pc' = "store"
  /\ UNCHANGED <<driver, str, cr, thr, tsr, rbr, wire, stored, accepted>>

PollTakesInput ==
  /\ pc = "poll" /\ driver = "riscv" /\ rbr
  /\ rbr' \in BOOLEAN
  /\ UNCHANGED <<driver, pc, str, cr, thr, tsr, wire, stored, accepted>>

(* Mutant of CrDue: nothing remembers that the carriage return went out.   *)
CrAlwaysDue == driver = "serial_8250" /\ Head(str) = LF

(* The carriage return is due before the line feed at the head of str.     *)
CrDue == driver = "serial_8250" /\ Head(str) = LF /\ ~cr

(* The register after a store of b: with no room, either the byte last     *)
(* stored is overwritten or b is dropped, as the part at hand does.        *)
AfterStore(b) ==
  IF Len(thr) < Depth THEN {Append(thr, b)}
  ELSE {thr, [thr EXCEPT ![Len(thr)] = b]}

(* Mutant of AfterByte: the line feed follows its carriage return unpolled.*)
AfterByteUnpolled(s) ==
  IF CrDue THEN "store" ELSE IF s = <<>> THEN "idle" ELSE "poll"

(* Mutant of AfterByte: the loop goes on to the byte after the last.       *)
AfterByteOffByOne(s) == IF driver = "pdp11" THEN "drain" ELSE "poll"

(* Where the driver goes from a store that leaves s of the string: only    *)
(* debug_putchar polls once more.                                          *)
AfterByte(s) ==
  IF driver = "pdp11" THEN "drain" ELSE IF s = <<>> THEN "idle" ELSE "poll"

Store ==
  /\ pc = "store"
  /\ LET b == IF CrDue THEN CR ELSE Head(str)
     IN  thr' \in AfterStore(b) /\ stored' = Append(stored, b)
  /\ cr' = CrDue
  /\ str' = IF CrDue THEN str ELSE Tail(str)
  /\ pc' = AfterByte(str')
  /\ UNCHANGED <<driver, tsr, rbr, wire, accepted>>

(* debug_putchar waits until the byte it stored has left the register.     *)
Drain ==
  /\ pc = "drain" /\ Ready(driver)
  /\ pc' = IF str = <<>> THEN "idle" ELSE "poll"
  /\ UNCHANGED <<driver, str, cr, thr, tsr, rbr, wire, stored, accepted>>

----------------------------------------------------------------------------
(* The UART, on its own clock.                                             *)
Shift ==
  /\ thr # <<>> /\ tsr = <<>>
  /\ tsr' = <<Head(thr)>>
  /\ thr' = Tail(thr)
  /\ UNCHANGED <<driver, pc, str, cr, rbr, wire, stored, accepted>>

Send ==
  /\ tsr # <<>>
  /\ wire' = wire \o tsr
  /\ tsr' = <<>>
  /\ UNCHANGED <<driver, pc, str, cr, thr, rbr, stored, accepted>>

Receive ==
  /\ ~rbr
  /\ rbr' = TRUE
  /\ UNCHANGED <<driver, pc, str, cr, thr, tsr, wire, stored, accepted>>

Next ==
  \/ \E s \in Strings : Call(s)
  \/ Poll \/ PollTakesInput \/ Store \/ Drain
  \/ Shift \/ Send \/ Receive

(* The CPU runs on, and a UART with a byte to send sends it.               *)
Fairness ==
  /\ WF_vars(Poll \/ PollTakesInput) /\ WF_vars(Store) /\ WF_vars(Drain)
  /\ WF_vars(Shift) /\ WF_vars(Send)

Spec == Init /\ [][Next]_vars /\ Fairness
----------------------------------------------------------------------------
(* The drivers that store only into an empty holding register.             *)
Waiting == {"serial_8250", "pdp11"}

(* No byte is lost between the store and the wire: the driver's store      *)
(* never meets a full register, though the UART works between the read of  *)
(* the status and the store (serial_8250_write and debug_putchar poll      *)
(* before every byte, the line feed after its carriage return included).   *)
Lossless == driver \in Waiting => stored = wire \o tsr \o thr

(* Whatever the driver waits for, what leaves the UART is some of the      *)
(* bytes asked for, in that order and each once: a driver that polls the   *)
(* wrong bit loses output but neither repeats nor reorders it.             *)
InOrder ==
  LET matched[j \in 0..Len(accepted)] ==
        IF j = 0 THEN 0
        ELSE LET k == matched[j - 1] IN
             IF k < Len(wire) /\ wire[k + 1] = accepted[j] THEN k + 1 ELSE k
  IN  matched[Len(accepted)] = Len(wire)

(* A call of a waiting driver returns: its polling loops are left once the *)
(* UART has sent what it holds.                                            *)
CallReturns == (driver \in Waiting /\ pc # "idle") ~> (pc = "idle")

(* The same of every driver: 8250.c:9 names bit 0x20 of the line status,   *)
(* the one cortex_a7 polls too, as set when the buffer is empty, which is  *)
(* when a byte may be stored.                                              *)
EveryCallReturns == (pc # "idle") ~> (pc = "idle")

(* A waiting driver and the UART together are a serial line: the bytes of  *)
(* every string written, with the 8250 driver's carriage returns, reach    *)
(* the wire in order, each once, and all of them in the end.  Of the other *)
(* drivers nothing is promised.                                            *)
Promised(bytes) == IF driver \in Waiting THEN bytes ELSE <<>>

Line == INSTANCE SerialLine
          WITH Strings <- {OnLine(d, s) : d \in Drivers, s \in Strings},
               accepted <- Promised(accepted),
               wire <- Promised(wire)
IsSerialLine == Line!Spec
=============================================================================
