------------------------------ MODULE Console ------------------------------
(***************************************************************************)
(* The kernel console: sys/kern/console.c, driven by printk                *)
(* (sys/libkern/printk.c) and attached by the boards' init code.           *)
(*                                                                         *)
(* The kernel is one thread with interrupts off, so there is one call of   *)
(* printk at a time; console_setup, and the init routine of a device's     *)
(* driver, run between two calls.  A message is the text printk hands to   *)
(* console_putchar, one character a step; how the text is made from the    *)
(* format and its arguments is left out.                                   *)
(***************************************************************************)
EXTENDS Integers, Sequences, FiniteSets

CONSTANTS
  Char,      (* the characters                                             *)
  Message,   (* the texts the kernel prints                                *)
  Device,    (* the devices handed to console_setup                        *)
  Tty,       (* those whose class is DEVICE_TTY                            *)
  NULL,
  Buffered,  (* CONFIG_BUFFERED_CONSOLE is defined                         *)
  Size,      (* CONFIG_CONSOLE_BUFFER_SIZE                                 *)
  MaxLog,    (* bound: characters printed in one behaviour                 *)
  MaxSetup   (* bound: calls of console_setup in one behaviour             *)

ASSUME MessageAssumption == Message \subseteq Seq(Char)
ASSUME DeviceAssumption == Tty \subseteq Device /\ NULL \notin Device
ASSUME SizeAssumption == Size \in Nat \ {0}
ASSUME BufferedAssumption == Buffered \in BOOLEAN

VARIABLES
  console,         (* `console' points at `cons'                           *)
  cons,            (* the static Console of console_setup                  *)
  ready,           (* the terminals whose driver has set its write routine *)
  console_buffer,  (* the characters stored; its length is the C index     *)
  wild,            (* an out-of-bounds store hit state the kernel relies on*)
  out,             (* what the write routines were handed, in order        *)
  fmt, ptr,        (* printk's text and position in it; ptr = 0: no call   *)
  setups,          (* history: the calls of console_setup                  *)
  log              (* history: every character given to console_putchar    *)

vars == <<console, cons, ready, console_buffer, wild, out, fmt, ptr, setups,
          log>>

Transfer == [to : Device, ch : Char]

(* A call of console_setup: the device, whether its driver had a write     *)
(* routine by then, and how many characters had been printed.              *)
Setup == [device : Device, routine : BOOLEAN, at : Nat]

(* write(device, s, Len(s)) as the device sees it.                         *)
Sent(d, s) == [i \in 1..Len(s) |-> [to |-> d, ch |-> s[i]]]

(* The condition the code tests before each use of the write routine.      *)
Attached == console /\ cons.write

Idle == ptr = 0

TypeOK ==
  /\ console \in BOOLEAN
  /\ cons \in [write : BOOLEAN, device : Device \cup {NULL}]
  /\ ready \subseteq Tty
  /\ console_buffer \in Seq(Char)
  /\ wild \in BOOLEAN
  /\ out \in Seq(Transfer)
  /\ fmt \in Seq(Char)
  /\ ptr \in 0..(Len(fmt) + 1)
  /\ setups \in Seq(Setup)
  /\ log \in Seq(Char)

Init ==
  /\ console = FALSE
  /\ cons = [write |-> FALSE, device |-> NULL]
  /\ ready = {}
  /\ console_buffer = <<>>
  /\ wild = FALSE
  /\ out = <<>>
  /\ fmt = <<>>
  /\ ptr = 0
  /\ setups = <<>>
  /\ log = <<>>

----------------------------------------------------------------------------
(* Mutant of Flushed: console_setup flushes before it switches devices.    *)
FlushBeforeSwitch(k) ==
  IF Buffered /\ cons.write /\ Len(console_buffer) > 0
  THEN out \o Sent(cons.device, console_buffer)
  ELSE out

(* The device's record after console_flush with console = &k.  The index   *)
(* is not reset: a flush sends everything stored since boot.               *)
Flushed(k) ==
  IF Buffered /\ k.write /\ Len(console_buffer) > 0
  THEN out \o Sent(k.device, console_buffer)
  ELSE out

(* Mutant of console_flush: only a full buffer is sent.                    *)
FlushWhenFull ==
  out' = IF console /\ Len(console_buffer) > Size THEN Flushed(cons) ELSE out

console_flush == out' = IF console THEN Flushed(cons) ELSE out

(* A store past the end of the array is undefined: it may land in memory   *)
(* nobody uses, where a flush still finds it, or destroy kernel state.     *)
PutBuffered(c) ==
  /\ Buffered
  /\ IF Len(console_buffer) > Size THEN console_flush ELSE UNCHANGED out
  /\ console_buffer' = Append(console_buffer, c)
  /\ wild' \in IF Len(console_buffer) < Size THEN {FALSE} ELSE BOOLEAN

PutUnbuffered(c) ==
  /\ ~Buffered
  /\ out' = IF Attached THEN out \o Sent(cons.device, <<c>>) ELSE out
  /\ UNCHANGED <<console_buffer, wild>>

console_putchar(c) ==
  /\ PutBuffered(c) \/ PutUnbuffered(c)
  /\ log' = Append(log, c)

(* A terminal's driver is initialised, which sets the routines of its      *)
(* record: until then they are NULL.  Doing so again changes nothing.      *)
driver_init(d) ==
  /\ Idle /\ ~wild /\ d \notin ready
  /\ ready' = ready \cup {d}
  /\ UNCHANGED <<console, cons, console_buffer, wild, out, fmt, ptr, setups,
                 log>>

(* Mutant of Selected: the record is made anew, so that a device that is   *)
(* no terminal takes the console's routine away.                           *)
SelectedAnew(d) == [write |-> d \in ready, device |-> d]

(* Only a terminal sets the routines, and sets them to NULL when its       *)
(* driver is not initialised; every device sets the argument they are      *)
(* called with.                                                            *)
Selected(d) ==
  [write |-> IF d \in Tty THEN d \in ready ELSE cons.write, device |-> d]

console_setup(d) ==
  /\ Idle /\ ~wild /\ Len(setups) < MaxSetup
  /\ setups' = Append(setups, [device |-> d, routine |-> d \in ready,
                               at |-> Len(log)])
  /\ cons' = Selected(d)
  /\ console' = TRUE
  /\ out' = Flushed(Selected(d))
  /\ UNCHANGED <<ready, console_buffer, wild, fmt, ptr, log>>

PrintkCall(m) ==
  /\ Idle /\ ~wild /\ Len(log) + Len(m) <= MaxLog
  /\ fmt' = m
  /\ ptr' = 1
  /\ UNCHANGED <<console, cons, ready, console_buffer, wild, out, setups, log>>

(* Mutant of PrintkPut: a conversion steps over the character after it     *)
(* without looking for the end of the text.                                *)
PrintkPutTwo ==
  /\ ~wild /\ ptr \in 1..Len(fmt)
  /\ console_putchar(fmt[ptr])
  /\ ptr' = ptr + 2
  /\ UNCHANGED <<console, cons, ready, fmt, setups>>

PrintkPut ==
  /\ ~wild /\ ptr \in 1..Len(fmt)
  /\ console_putchar(fmt[ptr])
  /\ ptr' = ptr + 1
  /\ UNCHANGED <<console, cons, ready, fmt, setups>>

PrintkReturn ==
  /\ ~wild /\ ptr = Len(fmt) + 1
  /\ console_flush
  /\ ptr' = 0
  /\ UNCHANGED <<console, cons, ready, console_buffer, wild, fmt, setups, log>>

Next ==
  \/ \E d \in Tty : driver_init(d)
  \/ \E d \in Device : console_setup(d)
  \/ \E m \in Message : PrintkCall(m)
  \/ PrintkPut
  \/ PrintkReturn

Spec == Init /\ [][Next]_vars

----------------------------------------------------------------------------
(* t ends with s.                                                          *)
EndsWith(t, s) ==
  /\ Len(s) <= Len(t)
  /\ \A i \in 1..Len(s) : t[Len(t) - Len(s) + i] = s[i]

(* Boot log: while everything printed since boot fits the buffer, the      *)
(* buffered console has, whenever no call is in progress, sent all of it   *)
(* to the current device as one contiguous run in the order printed,       *)
(* what was printed before the first console_setup or while another device *)
(* was the console included (console_flush never resets the index, and     *)
(* console_setup flushes).                                                 *)
BootLogDelivered ==
  (Buffered /\ Idle /\ Attached /\ Len(log) <= Size)
    => EndsWith(out, Sent(cons.device, log))

(* The setups made before the i-th character was printed; the device that  *)
(* was the console then is that of the last one.                           *)
Before(i) == {k \in DOMAIN setups : setups[k].at < i}
InForce(k, i) == k \in Before(i) /\ \A j \in Before(i) : j <= k

(* The last terminal among them had a write routine.                       *)
Heard(i) ==
  \E k \in Before(i) :
    /\ setups[k].device \in Tty /\ setups[k].routine
    /\ \A j \in Before(i) : j > k => setups[j].device \notin Tty

(* How many of the first i characters somebody heard.                      *)
Place(i) == Cardinality({j \in 1..i : Heard(j)})

(* Exactly once: the unbuffered console hands a character over if and only *)
(* if the last terminal attached before it was initialised when it was     *)
(* attached; it hands it over once, in the order printed, and to the       *)
(* device attached last, of whatever class.  Everything else is dropped:   *)
(* what is printed before the first terminal, and from the attachment of   *)
(* an uninitialised one on (console_setup copies its NULL routine, and     *)
(* console_putchar tests the routine for each character).                  *)
UnbufferedExactlyOnce ==
  ~Buffered =>
    /\ Len(out) = Place(Len(log))
    /\ \A i \in 1..Len(log) : \A k \in DOMAIN setups :
         Heard(i) /\ InForce(k, i)
           => out[Place(i)] = [to |-> setups[k].device, ch |-> log[i]]

(* printk is synchronous: when it returns with a device attached, the last *)
(* thing that device was handed is the whole text (printk ends with        *)
(* console_flush), even after the buffer's capacity was exceeded.          *)
PrintkSynchronous ==
  [][(~Idle /\ Idle' /\ Attached) => EndsWith(out', Sent(cons.device, fmt))]_vars

(* Kconfig: CONSOLE_BUFFER_SIZE is the "Buffer size": no more characters   *)
(* are stored than the buffer holds.                                       *)
WithinBuffer == Buffered => Len(console_buffer) <= Size
============================================================================
