----------------------------- MODULE KernelBoot -----------------------------
(***************************************************************************)
(* A kernel's whole life, composed: the entry code (Entry), then what the  *)
(* board's platform_init and arch_init do, through the unbuffered console  *)
(* (Console), the init routine of the UART's driver (Uart8250Init) and the *)
(* polled driver (PolledUart), until the CPU is halted.                    *)
(*                                                                         *)
(* The boot CPU is one thread.  What arch_init does is a list of the calls *)
(* still to make; a printk is the steps of Console, and each character the *)
(* console hands on is a call of the driver, which ends before the console *)
(* takes its next step.  The UART works on its own throughout, while the   *)
(* init routine writes its registers too; that a byte on its way meanwhile *)
(* changes speed or length is left out.  A line is its text, one symbol,   *)
(* and its line feed; a byte of the init routine is its number, written    *)
(* out.                                                                    *)
(***************************************************************************)
EXTENDS Entry, Sequences, TLC

CONSTANTS
  CR, LF, FW, NULL, Byte, Depth,   (* as in Console and PolledUart         *)
  uart,        (* the board's device                                       *)
  Firmware,    (* register contents the firmware may leave, DLAB included  *)
  CONFIG_CLOCK, beaudrate,
  MaxArgs      (* bound: words in argv, and in envp                        *)

VARIABLES
  todo,       (* the calls arch_init has still to make                     *)
  pll,        (* the peripheral clock of cortex-a7                         *)
  promised,   (* the text of the calls, fixed: what the board prints       *)
  leftover,   (* what the UART was sending when the kernel started, fixed  *)
  console, cons, ready, console_buffer, wild, out, fmt, ptr, setups, log,
  firmware, regs, strays, writes,   (* as in Uart8250Init          *)
  driver, pc, str, cr, thr, tsr, rbr, wire, stored, accepted

bootVars == <<todo, pll>>
fixedVars == <<promised, leftover>>
consoleVars == <<console, cons, ready, console_buffer, wild, out, fmt, ptr,
                 setups, log>>
regVars == <<firmware, regs, strays, writes>>
uartVars == <<driver, pc, str, cr, thr, tsr, rbr, wire, stored, accepted>>
vars == <<entryVars, bootVars, fixedVars, consoleVars, regVars, uartVars>>

Unbounded == 1000

C == INSTANCE Console
       WITH Char <- Byte, Message <- Seq(Byte), Device <- {uart},
            Tty <- {uart}, Buffered <- FALSE, Size <- 1,
            MaxLog <- Unbounded, MaxSetup <- Unbounded

(* The order decides which byte of the divisor is written first, and so    *)
(* which of them may go astray, and nothing else.                          *)
little == machine = "i386"

I == INSTANCE Uart8250Init
       WITH Entries <- Firmware, Clock <- CONFIG_CLOCK, Beaudrate <- beaudrate,
            Text <- {}, MaxText <- 0,
            entry <- firmware, little <- little, thr <- strays,
            next <- writes
U == INSTANCE PolledUart
       WITH Drivers <- {"serial_8250", "cortex_a7", "riscv"},
            Strings <- Seq(Byte), MaxBytes <- Unbounded

----------------------------------------------------------------------------
(* What the boards' init code calls.                                       *)
Init8250 == [call |-> "init", arg |-> <<>>]
Setup == [call |-> "setup", arg |-> <<>>]
PrintLine(line) == [call |-> "printk", arg |-> <<line, LF>>]
Put(c) == [call |-> "uart_putchar", arg |-> <<c>>]
Clock == [call |-> "ccu_init_clock", arg |-> <<>>]

Times(n, c) == [i \in 1..n |-> c]

(* Mutant of SerialConsole: the device is attached before its init.        *)
SetupFirst == <<Setup, Init8250>>

(* The device's init routine, then console_setup.                          *)
SerialConsole == <<Init8250, Setup>>

(* Both tests of multiboot_entry join the flags with |, so they hold       *)
(* whatever the boot loader set.                                           *)
multiboot_entry(flags) ==
  (IF flags \cup {"MMAP"} # {} THEN <<PrintLine("mmap found")>> ELSE <<>>)
    \o (IF flags \cup {"DRIVES"} # {} THEN <<PrintLine("drives")>> ELSE <<>>)

arch_init_i386(multiboot, flags) ==
  SerialConsole \o <<PrintLine("Magic")>>
    \o IF multiboot THEN <<PrintLine("yay multiboot")>> \o multiboot_entry(flags)
                    ELSE <<PrintLine("Invalide")>>

platform_init == SerialConsole \o <<PrintLine("serial initialized")>>

arch_init_mips(argc, envc) ==
  platform_init
    \o <<PrintLine("QDNX"), PrintLine("serial"), PrintLine("memsize"),
         PrintLine("cmdline:")>>
    \o Times(argc, PrintLine("argv"))
    \o <<PrintLine("env:")>> \o Times(envc, PrintLine("envp"))
    \o <<PrintLine("argc"), PrintLine("KiB")>>

arch_init_a7 == <<Clock, Put("c"), Put("o"), Put(CR), Put(LF)>>

arch_init_riscv == <<Put("H"), Put("e"), Put("l"), Put("l"), Put("o")>>

Scripts(m) ==
  CASE m = "i386" -> {arch_init_i386(magic, flags) :
                        magic \in BOOLEAN, flags \in SUBSET {"MMAP", "DRIVES"}}
    [] m = "mips" -> {arch_init_mips(argc, envc) :
                        argc \in 0..MaxArgs, envc \in 0..MaxArgs}
    [] m = "cortex_a7" -> {arch_init_a7}
    [] m = "riscv" -> {arch_init_riscv}
    [] m = "nrf52832" -> {<<>>}

DriverOf(m) == IF m \in {"riscv", "cortex_a7"} THEN m ELSE "serial_8250"

(* The text of a list of calls.                                            *)
TextOf(calls) ==
  LET upto[i \in 0..Len(calls)] ==
        IF i = 0 THEN <<>> ELSE upto[i - 1] \o calls[i].arg
  IN  upto[Len(calls)]

Init ==
  /\ EntryInit /\ C!Init /\ I!Init /\ U!Init
  /\ driver = DriverOf(machine)
  /\ todo \in Scripts(machine)
  /\ pll = "off"
  /\ promised = TextOf(todo) /\ leftover = thr

----------------------------------------------------------------------------
(* The boot CPU is in C code, no driver call is under way, and this is the *)
(* next call to make.                                                      *)
Next1(name) ==
  /\ cpu[0] = "kernel" /\ pc = "idle"
  /\ todo # <<>> /\ Head(todo).call = name

Done == todo' = Tail(todo)

(* A step of the console: what it hands to the write routine is a call of  *)
(* the driver.                                                             *)
Console(A) ==
  /\ A
  /\ IF out' = out THEN UNCHANGED uartVars
     ELSE U!Call([i \in 1..(Len(out') - Len(out)) |-> out'[Len(out) + i].ch])
  /\ UNCHANGED <<entryVars, fixedVars, regVars, pll>>

(* A byte of the init routine as a symbol of the line.                     *)
Symbol(b) == ToString(b)

(* What a register write makes of the UART at work.  A byte for the        *)
(* holding register is stored unpolled.  Address 2 is the FIFO control     *)
(* register of a part that has one: 0x80 turns its FIFOs off and 0xC7      *)
(* turns them on and resets them, and either may empty them.               *)
UartTakes(register, b) ==
  /\ thr' \in CASE register = "thr" -> U!AfterStore(Symbol(b))
                [] register = "fcr" -> {thr, <<>>}
                [] OTHER -> {thr}
  /\ stored' = IF register = "thr" THEN Append(stored, Symbol(b)) ELSE stored
  /\ UNCHANGED <<driver, pc, str, cr, tsr, rbr, wire, accepted>>

(* The routine sets the device's write routine, then the registers, one    *)
(* write a step.                                                           *)
serial_8250_init ==
  /\ Next1("init")
  /\ \/ Console(C!driver_init(uart)) /\ UNCHANGED todo
     \/ /\ uart \in ready
        /\ UNCHANGED <<entryVars, fixedVars, consoleVars, pll>>
        /\ LET w == I!Program(little)[writes]
           IN  I!WriteRegister /\ UartTakes(I!Selected(regs, w[1]), w[2])
        /\ IF I!Done' THEN Done ELSE UNCHANGED todo

console_setup ==
  /\ Next1("setup") /\ Done
  /\ Console(C!console_setup(uart))

printk ==
  /\ Next1("printk")
  /\ \/ Console(C!PrintkCall(Head(todo).arg)) /\ UNCHANGED todo
     \/ Console(C!PrintkPut) /\ UNCHANGED todo
     \/ Console(C!PrintkReturn) /\ Done

uart_putchar ==
  /\ Next1("uart_putchar") /\ Done
  /\ U!Call(Head(todo).arg)
  /\ UNCHANGED <<entryVars, fixedVars, consoleVars, regVars, pll>>

(* The write of the control register starts the PLL; the loop ends when it *)
(* has locked.                                                             *)
ccu_init_clock ==
  /\ Next1("ccu_init_clock")
  /\ \/ pll = "off" /\ pll' = "starting" /\ UNCHANGED todo
     \/ pll = "locked" /\ Done /\ UNCHANGED pll
  /\ UNCHANGED <<entryVars, fixedVars, consoleVars, regVars, uartVars>>

PllLocks ==
  /\ pll = "starting" /\ pll' = "locked"
  /\ UNCHANGED <<entryVars, fixedVars, consoleVars, regVars, uartVars, todo>>

Kernel ==
  serial_8250_init \/ console_setup \/ printk \/ uart_putchar \/ ccu_init_clock

(* The init routine left DLAB clear, so the driver's stores do go to the   *)
(* holding register: ConsoleReachesThr of Uart8250Init.                    *)
Driver ==
  /\ U!Poll \/ U!PollTakesInput \/ U!Store
  /\ UNCHANGED <<entryVars, bootVars, fixedVars, consoleVars, regVars>>

Transmitter ==
  /\ U!Shift \/ U!Send
  /\ UNCHANGED <<entryVars, bootVars, fixedVars, consoleVars, regVars>>

(* Only the riscv driver ever looks at the receive buffer.                 *)
Receiver ==
  /\ driver = "riscv" /\ U!Receive
  /\ UNCHANGED <<entryVars, bootVars, fixedVars, consoleVars, regVars>>

EntryCode(c) ==
  /\ EntryStep(c)
  /\ UNCHANGED <<bootVars, fixedVars, consoleVars, regVars, uartVars>>

Variables ==
  /\ \E c \in Cpu : UseBss(c)
  /\ UNCHANGED <<bootVars, fixedVars, consoleVars, regVars, uartVars>>

Next ==
  \/ \E c \in Cpu : EntryCode(c)
  \/ Kernel \/ Variables \/ PllLocks
  \/ Driver \/ Transmitter \/ Receiver

(* The boot CPU runs on, a UART with a byte to send sends it, and a PLL    *)
(* that was started locks.                                                 *)
Fairness ==
  /\ WF_vars(EntryCode(0)) /\ WF_vars(Kernel) /\ WF_vars(Driver)
  /\ WF_vars(Transmitter) /\ WF_vars(PllLocks)

Spec == Init /\ [][Next]_vars /\ Fairness

----------------------------------------------------------------------------
(* The boards that print through printk and the 8250 driver.               *)
Serial == machine \in {"i386", "mips"}

(* w is some of the elements of s, in that order.                          *)
SelectedFrom(w, s) ==
  \E f \in [1..Len(w) -> 1..Len(s)] :
    /\ \A i \in 1..Len(w) : w[i] = s[f[i]]
    /\ \A i, j \in 1..Len(w) : i < j => f[i] < f[j]

(* What may be on the wire ahead of the text: what the firmware was still  *)
(* sending, then the bytes the init routine stored for the divisor.        *)
Clutter == leftover \o [i \in 1..Len(strays) |-> Symbol(strays[i])]

(* Everything a board's init code prints reaches the wire, line feeds with *)
(* their carriage returns, and nothing comes after or within it: the       *)
(* device is initialised before it is attached and attached before the     *)
(* first printk, and every printk and every loop on the way returns.       *)
(* Before it comes some of Clutter: each of those bytes may still be lost  *)
(* to an unpolled store or to the FIFO reset of the init routine.          *)
BootTextDelivered ==
  Serial => <>[](/\ todo = <<>>
                 /\ LET text == U!OnLine(driver, promised)
                        ahead == Len(wire) - Len(text)
                    IN  /\ ahead >= 0
                        /\ SelectedFrom(SubSeq(wire, 1, ahead), Clutter)
                        /\ SubSeq(wire, ahead + 1, Len(wire)) = text)

(* From printk to the wire the kernel is a serial line: whatever has been  *)
(* printed leaves the UART in order, each byte once, and all of it in the  *)
(* end, no character is dropped for want of a device, and none is lost to  *)
(* the bytes of Clutter it finds on their way.  Those are not printed, so  *)
(* they are no part of the line.                                           *)
Printed(b) == b # FW /\ \A i \in 1..Len(strays) : b # Symbol(strays[i])

(* What one character comes to on the line.                                *)
CharOnLine == {U!OnLine("serial_8250", <<c>>) : c \in Byte}

Line == INSTANCE SerialLine
          WITH Strings <- CharOnLine,
               Leftovers <- {<<>>}, MaxBytes <- Unbounded,
               accepted <- IF Serial THEN U!OnLine(driver, log) ELSE <<>>,
               wire <- IF Serial THEN SelectSeq(wire, Printed) ELSE <<>>
PrintedIsSerialLine == Line!Spec
=============================================================================
