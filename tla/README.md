# A verification project for QDNix

QDNix is a young Unix-like system: a kernel that boots on i386, MIPS, ARM,
RISC-V, PDP-11 and others far enough to print on a serial console, a handful of
user programs (among them `geminid`, a forking server for the Gemini protocol),
and the make library and scripts that fetch the compilers, build and install
everything. This directory holds TLA+ models of the parts that have state worth
checking, the TLC configurations that check them and TLAPS proofs about them.
Paths below are relative to the root of the repository.

## 1. Inventory

### Kernel

| Component | State | Operations | Correct means |
|---|---|---|---|
| **console** `sys/kern/console.c` | `console`, the static `cons` (routines and argument), with `CONFIG_BUFFERED_CONSOLE` also `console_buffer` and its index | `console_setup`, `console_putchar`, `console_flush` | with a buffer, text printed before there is a device reaches it when it is attached, in order; without one each character is handed over once to the device attached, as long as there is a routine; the buffer is not overrun |
| **printk** `sys/libkern/printk.c` | position in the format; the static digit buffer | `printk` | its text is out when it returns; conversions print the number |
| **8250 driver** `sys/dev/tty/serial/8250.c` | none of its own; the UART's registers | `serial_8250_init`, `serial_8250_write`, `serial_8250_read` (returns 0) | no byte is stored into a full register; `\n` becomes `\r\n`; a call returns; initialisation leaves a usable line, interrupts off |
| **other UARTs** `sys/arm/soc/cortex-a7/uart.c`, `sys/riscv/uart.c`, `sys/pdp11/init.c` | the UART's registers | `uart_putchar`, `debug_putchar` | the same |
| **board start-up** `sys/<arch>/entry.S`, `init.c`, `tlb.S`, ... | bss, stack, TLB or page tables, trap vectors, which CPU runs | reset entry, bss clear, `tlb_init`, parking of secondary CPUs, `arch_init` | bss exactly cleared, one CPU goes on, every TLB entry distinct, a console attached before it is needed |
| **trap stubs** `sys/i386/isr.S`, `sys/mips/trap.S`, `sys/riscv/interrupt.S` | the stack frame | one stub per vector | the frame popped is the frame pushed |
| **libkern** `sys/libkern/string.c` | none | `memset`, `memcpy`, ... | each equals its definition |
| **multiboot** `sys/x86/multiboot.c` | none; reads the boot loader's record | `multiboot_entry` | reports what the boot loader's flags announce |
| **declarations** `sys/kern`, `sys/vm`, `sys/fs`, amd64, SPARC | none yet | stubs | - |

The kernel is one thread and never enables an interrupt: a board's `arch_init`
initialises a UART, hands it to `console_setup` and calls `printk`, which calls
`console_putchar` per character and `console_flush` at the end, which call the
driver's write routine, which polls the UART. The one thing that runs beside the
kernel is the hardware: the UART's transmitter empties the holding register while
the driver is between its read of the status and its store, and on MIPS the other
CPUs come out of reset at the same entry. What is hard is the order of calls
(print before attach, attach twice, attach a device of another class), the state
inherited from the firmware, and bounds (the log buffer, the digit buffer, the
last word of bss).

### User programs

| Component | State | Operations | Correct means |
|---|---|---|---|
| **geminid, processes** `sbin/geminid/server.c` | listening socket, `client_sock`, a process per client, their descriptor tables | accept, fork, close; in the child TLS accept, handler, close, exit | each connection has one owner; no client waits for another; a client sees the end of its connection |
| **geminid, request** `sbin/geminid/gemini.c` | request buffer | `gemini_protocol_handler`, `gemini_get_path` | the request is terminated within the buffer, invalid ones are answered |
| **geminid, start** `main.c`, `tls.c` | options, TLS context | `main`, `create_tls_context` | key and certificate are loaded or the program ends |
| **httpd, ed** `sbin/httpd/main.c`, `bin/ed/ed.c` | the word looked at | `main`, `parse_flags` | the words on the command line decide what is printed and the exit status, every command line comes to an end |
| **mtree, m2, hello** | none | stubs | - |

The parent of `geminid` and its children share nothing but inherited descriptors,
the process table and, through fork, unwritten stdio text. The hard part is the
interleaving of accept, fork and close with the children, the failure of accept
and fork, children that are never waited for, and clients that stop talking.

### Build system

| Component | State | Operations | Correct means |
|---|---|---|---|
| **package fetch** `share/mk/qdnix.pkg.mk`, `tools/hash.py` | archive, unpacked tree, `dist` directory | download, verify, extract, rename | only a verified archive is ever unpacked, whenever a run was interrupted |
| **tool chain** `tools/build-gnutoolchain.sh`, `tools/Makefile.gnuhost` | archives, trees, stamp files | download and verify, configure, build, install | a stamp exists only for what was done |
| **driver** `build.sh`, `Makefile` | flags; `bmake.zip` and `qdn-bmake` in the tools directory; `.config`, `config.h` | operations on the command line | run in the order needed; a bmake made from verified bytes is there before it is called |
| **make library** `share/mk/*.mk`, **configuration** `tools/config.py`, `Kconfig` | targets | build, install, clean | - |
| **documentation tools** | - | - | - |

`PROJECT.json` lists the components with their sources and status, and under
"hazards" each place where this code is hard to test, with the property that
covers it or the reason none does.

## 2. The models

| Module | Models | Composed with |
|---|---|---|
| `Console` | `console.c`, driven by `printk` and `arch_init` | - |
| `PolledUart` | the four polled drivers against a UART on its own clock | implements `SerialLine` |
| `SerialLine` | abstract: a lossless FIFO line | - |
| `Uart8250Init` | `serial_8250_init` against the register file | - |
| `GeminiServer` | `server.c`: the parent, its children, the clients and the kernel's limits | - |
| `Entry` | the entry code of five boards: parked CPUs, bss loops, `tlb_init` | in `KernelBoot` |
| `KernelBoot` | `platform_init` and `arch_init` of the boards | `Entry`, `Console`, `PolledUart`; implements `SerialLine` |
| `Printk` | `printk.c` digit by digit | implements `Console` |
| `GeminiRequest` | `gemini.c`: the read, `gemini_get_path`, the reply | in `Programs` |
| `Programs` | geminid, httpd and ed from the command line; `tls.c` and `create_server` | `GeminiRequest` |
| `PkgFetch` | `build.sh`, `qdnix.pkg.mk`, `build-gnutoolchain.sh`: one archive | - |
| `MC*` | instances of each for TLC | |
| `*Proofs` | theorems about each | extend the module, `TLAPS` and the library's theorem modules |

### Console

`console`, `cons`, `console_buffer` are the C variables; the C index is
`Len(console_buffer)`, because the code never lowers it. `ready` holds the terminals
whose driver has set the routines of their record (`driver_init`, the first lines of
`serial_8250_init`); until then those routines are NULL. `cons.write` says whether the
console has a write routine: `console_setup` copies that of a terminal, NULL included,
and leaves the old one in place for a device of another class (`Selected`).
`cons.device` is the argument the routine will be called with, which `console_setup`
replaces for a device of any class. `out` records what
write routines were handed. `fmt` and `ptr` are printk's: a message is the text
printk hands on, one character a step. Actions: `driver_init(d)`, `console_setup(d)`,
`PrintkCall`, `PrintkPut` (with the whole of `console_putchar`, the flush when the index
is beyond the buffer included), `PrintkReturn` (with `console_flush`). Since the
kernel is one thread, the first two are called only between two printks.

A store past the end of `console_buffer` is undefined. The model takes either
outcome: the byte lands where only a later flush reads it (`wild` stays FALSE), or
it destroys something the kernel relies on (`wild` becomes TRUE and nothing
further is said).

`Buffered` chooses the configuration. `log` and `setups` are history variables: what has
been printed, and which devices were attached, whether they had a routine, and after how
many characters. `UnbufferedExactlyOnce` is stated from these two alone: a character is
heard if the last terminal attached before it had a routine when it was attached, and the
output is the characters heard, each to the device attached last.

### PolledUart and SerialLine

`pc` is the place in the driver: `poll`, `store`, and `drain` for the second loop
of `debug_putchar`. A poll and the store that follows are separate steps, between
which `Shift` (holding register to shift register), `Send` (shift register to
wire) and `Receive` may happen. `Ready(d)` is the condition each driver waits for,
as its code tests it: for `cortex_a7` and `riscv` that is not "the holding register
is empty". A store into a full register overwrites the last byte or is dropped,
depending on the part. The firmware may have left a byte in the register.

`SerialLine` says what a caller wants: bytes accepted come out once, in order, and
all of them in the end. `IsSerialLine` states that a driver of `Waiting`
(`serial_8250` and `pdp11`) together with the UART implements it, under the
mapping that takes `accepted` and `wire` to themselves (`Promised`); nothing is
promised of the other two.

### Uart8250Init

The chip's register file, with the two addresses that reach the divisor latch
while DLAB is set. `Program` is the driver's list of writes for either byte order;
`WriteRegister` does the next one, `WriteByte` is the console output that follows.
What the firmware left is an element of `Entries`.

### GeminiServer

`pc` is the parent's place in its loop; `parentFds` and `childFds` are the client
sockets in each descriptor table; fork copies the parent's. `child[c]` is the place
of c's child in `client_handler`, and "zombie" after it exited: no one waits for
it, so it keeps its slot (`Forked`). `Start` may fail, `ForkFail` may happen at any
fork, a handshake may fail. `Accept` is not enabled with a full descriptor table:
accept then fails, the code says so and tries again, to no effect on the state.
`addrlen` is never initialised and is chosen once: with
a value accept can use, or below 0, when accept fails and the kernel drops the connection
it has taken (`AcceptDrops`). `Connect` is the client and the kernel's queue. The listening socket's own
descriptor and the TLS objects are left out: they never differ between states
that matter here.

### Entry and KernelBoot

`Entry` is what happens before C. Each CPU has a place (`cpu`) and a position in
its loop (`at`); `mem` says of each cell whether it holds what it held at reset, a
zero, or something the kernel has since put there. The loops differ only in when
they test: `EndsBefore` (rep stosb, memset) before a store, `EndsAfter` after it,
mips against the address it has just stored to. `bss_end` is one of `BssEnds`, the
empty bss included, since nothing in the linker scripts rules it out. Both ends lie on a
cell. On riscv and nrf52832 the linker script aligns the beginning and the loop cannot tell
an end inside a cell from one rounded up; i386 and cortex-a7 store bytes. `kernel.lds` of
mips aligns neither end (`bss_begin` is set before the `ALIGN(8)` of the section), and its
loop ends only on equality: there a word boundary is an assumption. `tlb_init` counts its index down
to 0 in a delay slot. CPUs other than 0 exist on mips and cortex-a7.

`KernelBoot` goes on with what the boot CPU does. `todo` is the list of calls that
`arch_init` still makes, with one list for each thing it branches on (magic, flags,
number of arguments); `console_setup` and the steps of `printk` are the actions of
`Console`, and a character that `Console` hands on is a `Call` of `PolledUart`,
whose `Poll`, `Store`, `Shift` and `Send` then run to its end before the console
takes its next step. So the composed model has no step that its parts do not have:
`C!PrintkPut` is joined to `U!Call` where `console_putchar` calls the driver.
`serial_8250_init` first sets the device's routine (`C!driver_init`): a `console_setup`
before that finds none. Then it writes the nine registers of `Uart8250Init`, one a step,
while the transmitter works on. Where the firmware left DLAB clear, two of these bytes go
to the holding register, stored without a poll: they may overwrite what is there or be
lost themselves, and they are sent ahead of the text (`UartTakes`). The writes to register
2, the FIFO control register of a part that has one, may empty the FIFO. What changes of
speed or of word length do to a byte on its way is left out. `Clutter` is what may so come
before the text on the wire. A printed line is one symbol and its line
feed; how the text is made is `Printk`'s matter. pdp11 is left out: nothing is
attached there and nothing is printed. The i386 kernel of this tree does not link
(its Makefile lists neither the console nor printk nor the driver); the model takes
the sources as if it did.

### Printk

`ptr` walks over `Memory(call)`, the format, its NUL and what lies after it, because
a `%` at the end makes the code step over the NUL. `Number` enters `printuint`, whose
two loops are `Convert` and `Unwind` over the static `buff`; `PrintStr` is one round
of `printstr`. Widths are constants: `Unsigned` cuts an argument, and `least` is
what the build makes of `-tmp` for the least int, which is undefined and comes out
either as its magnitude or sign-extended to `uintptr_t`. The widths and `Places` are
tied by `PlacesAssumption`: the places hold the largest value in base ten and eight.

`Walk(m)` is the way through a memory `m`, one character or conversion a step, with the
argument that is next; at the NUL it stays. `Agree` uses it to say that a call has the
arguments its format takes, each of the kind its conversion reads (a C caller that breaks
this has undefined behaviour). `Rendering` is the reference: the text shown along the whole
way (`Upto`), where `Converted` and `Numeral` say at once what the code makes digit by
digit, from the last to the first.

### GeminiRequest and Programs

`stage` is the place in `gemini_protocol_handler`; `req` is what `strlen` sees,
`buffer` what `SSL_read` wrote. A read of the full `MAX_BUFFER` puts the NUL past
the array; the model takes either outcome, and in the second (`wild`) says nothing
further. A string of less than two bytes makes the CR LF test look before the
array: the byte found there is chosen freely. `Valid` and `PathIn` say of the
whole request what the code finds byte by byte.

`Programs` starts with a command line. A word is a short sequence of symbols;
`Matches` is the macro IS_OPTARG, with either outcome for an empty word, whose
terminator it reads past. `Steps` are the calls of `create_tls_context` and
`create_server` in order: `Prepare` or `PrepareFails`. `ReadRequest` and
`HandleRequest` are one child of the server; how children and parent interleave is
`GeminiServer`.

### PkgFetch

`archive` is the file as it lies in the directory, `step` the place in the run of a
script, `bmake` the bmake build.sh has installed. A run of build.sh that finds one does
nothing the model sees (`Start`: `command -v qdn-bmake || do_build_bmake`); otherwise it
fetches, unpacks and makes it (`Install`), and only the final `mv` gives it the name that is
looked for. `Missing` is the condition for a download, which differs between the
scripts: only build.sh verifies what it finds. `inside` and `newer` are
what decides the rule for `dist`: whether dist already holds a directory of the name
tar unpacks, and whether its date is after the archive's. `Crash` ends a run
anywhere, `Release` is a change of the version and digest in the sources, after which a bmake
already installed is of another release, and stays.

## 3. What the runs check

| Run | Checks | Shows |
|---|---|---|
| `console_buffered` | `TypeOK`, `BootLogDelivered`, `PrintkSynchronous` | with a buffer, whenever no call is in progress the device has the whole boot log, in order, as long as it fits the buffer; a printk's text is the last thing out when it returns, even after the buffer overflowed harmlessly |
| `console_unbuffered` | `UnbufferedExactlyOnce` | without a buffer, the characters handed over are those printed while the last terminal attached had a routine when it was attached, each once, in order, to the device attached last; attaching an uninitialised terminal silences the console |
| `console_overrun` | `WithinBuffer` (violated) | the index passes the end of the buffer |
| `uart_polled` | `TypeOK`, `Lossless`, `InOrder`, `CallReturns`, `IsSerialLine` | the waiting drivers lose nothing, return, and with the UART implement the abstract line; all four drivers keep the order |
| `uart_a7_hang` | `EveryCallReturns` (violated) | the Cortex-A7 loop never ends on an idle UART |
| `uart_init` | `InterruptsOff`, `SpeedAfterInit`, `ConsoleReachesThr` | what initialisation leaves, for each state of DLAB at entry: console text reaches the holding register, never the latch; interrupts are off if DLAB was clear; the speed is the firmware's or the fixed 12, never the board's beaudrate |
| `geminid` | `TypeOK`, `SingleOwner`, `LeakedForever`, `Served` | one owner per connection; a silent client holds up nobody else; a client lost to a failed fork stays lost; with an unusable `addrlen` nobody is served |
| `geminid_max_clients` | `AtMostMaxClients` (violated) | `MAX_CLIENTS` limits nothing |
| `kernel` | `TypeOK`, `BssReady`, `NothingElse`, `TlbDistinct`, `DataKept`, `BootTextDelivered`, `PrintedIsSerialLine` | C starts with a clean bss, the loops clear at most one cell more, and no second CPU clears what the first has used; the TLB has no two equal entries; on the boards with printk all that `arch_init` prints comes out on the wire in one piece, after what is left of the firmware's byte and the stray bytes of the init routine, and from printk to the wire console, driver and UART together are a serial line |
| `printk` | `TypeOK`, `DigitsFit`, `PrintsItsFormat`, `IsConsolePrintk` | the digit buffer is exactly large enough; what is printed is the text of the format; a call is the `printk` of `Console` |
| `programs` | `TypeOK`, `PathFound`, `PathWithinScan`, `AnswersInvalid`, `CommandLineOutcome`, `ServesPrepared`, `RequestHandled`, `ExitsOrServes` | the path found is the one asked for; an invalid request gets its status line first; what each program prints and how it exits is decided by the words of its command line as the code reads them; the accept loop is reached only with everything set up; every command line and every request come to an end |
| `pkg_fetch` | `TypeOK`, `UnpacksVerified`, `MoveSucceeds`, `Recovers` | build.sh never unpacks what it has not verified and comes to its bmake in the end, whatever file it finds; the others verify what they have just downloaded; the repeated `mv` into dist never meets its own name |

Every property of a passing run has a mutant in `PROJECT.json`: a change to one
definition, of the kind a bug would make (a flush before the switch of devices
instead of after it, a carriage return not polled for, a parent that keeps its
copy of the socket), under which TLC finds the property violated.

### Bounds

* Console: `Size` = 3 with texts of 1, 2 and 3 characters and `MaxLog` = 6 puts a
  text before, across and beyond the end of the buffer; `MaxSetup` = 2 (3 without
  buffer, where `MaxLog` = 5) allows attach, re-attach to the other terminal and to a device
  of another class, in any order around the prints, each terminal initialised before,
  between or never. The proofs remove these bounds.
* PolledUart: `Depth` = 1 is the register without FIFO, the hardest case (a FIFO
  only leaves more room); `MaxBytes` = 6 holds two calls with double line feeds or
  three calls, after a byte of the firmware's. The safety properties are proved for
  every depth.
* Uart8250Init: the entry states combine interrupts on and off, DLAB set and clear,
  reset and 9600 and 115200 baud; `MaxText` = 4 lets text follow the two divisor
  bytes that may already have gone out. `Clock` and `Beaudrate` give a divisor of one
  byte, as on the boards.
* GeminiServer: four clients, one of them silent; `Backlog` = 2, `MaxFd` = 2 and
  `MaxProc` = 3 are each less than the number of clients, so every table fills up.

* KernelBoot: five boards, two CPUs, a bss of no and of one cell in a memory with room
  on both sides (`EntryProofs` is for every size), firmware that left DLAB clear or set, a
  divisor of 52 (its bytes, 0 and 52, and the 12 after it are the stray bytes), a holding
  register of one byte, a TLB of three entries, `MaxArgs` = 1 (argument lists are repetitions
  of one printk). `Unbounded` in the instances only lifts the bounds of `Console` and
  `PolledUart`: the list of calls ends by itself.
* Printk: int of 8 bits, `uintptr_t` of 8 and of 16, `Places` = 5. The largest numeral is
  that of 2^16 - 1 in base ten, 5 digits, as 2^64 - 1 has 20: the buffer is as tight as
  in the code. Numbers are the ends of the ranges and the values around a change in the
  number of digits; two calls in a row reuse the static buffer.
* GeminiRequest, Programs: a buffer of 7 bytes, a scheme of 2, every request made of the
  scheme, a part of it or nothing, up to four bytes among slash, CR, NUL and another, and
  each ending; so paths of every shape occur up to the full buffer. No word, one
  or two of ten (the documented options of each program in both forms, -p and --port among
  them, a lone dash, words with and without h in the second place, the empty word), with each
  program.
* PkgFetch needs no bound: its state is finite.

Deadlock is not checked in these runs: the bounds on printed text, calls and
clients stop the model, and undefined behaviour and failed starts stop the program.

### Fairness

* PolledUart: weak fairness of the driver's steps (the CPU runs on; nothing else is
  scheduled on it) and of `Shift` and `Send` (a UART with a byte sends it). None of
  `Call` and `Receive`: the kernel need not print, and nobody need type.
* GeminiServer: weak fairness of the parent and of the last two steps of each child
  (processes are scheduled, and neither close nor exit waits for the peer). The
  steps in which the child waits for its client are fair only for clients in
  `Cooperative`. Clients need not connect.
* KernelBoot: weak fairness of CPU 0, of the UART's transmitter, and of the PLL's lock
  once started. Nothing is assumed of the other CPUs and of input.
* Programs: weak fairness of the program's own steps, none of the read, which waits for
  the client.
* PkgFetch: a script that ended is run again, as long as its `Start` has something to do;
  it is not always interrupted at the same step, and a download that is tried again and
  again brings the right bytes once in a while (strong fairness of `Start`, `Look`,
  `Install`, of `Download` with the right bytes, of `Verify` and `Unpack` of them; there is
  nothing in the scripts that would make this true, it is what a user does). Weak fairness
  of the steps in between.
* Console, Printk and Uart8250Init: no liveness is claimed.

## 4. What is proved

The theorems hold for every value of the constants that satisfies the named
assumptions of the modules, in particular without the bounds of the runs.

* `ConsoleProofs`: `TypeCorrect`, `BootLog` (`[]BootLogDelivered`), `ExactlyOnce`
  (`[]UnbufferedExactlyOnce`), `Synchronous` (`PrintkSynchronous`).
  The invariant is `IInv`. `BootLogDelivered` is not inductive: a flush sends
  `console_buffer`, so one has to know that the buffer is the log (`BufferIsLog`) and
  that what was last sent is all of it (`LogSent`); exactly-once needs that the console is
  what the attachments made of it (`FollowsSetups`: device and routine are those the history
  `setups` implies), that the routine never runs without a device (`RoutineHasDevice`), and
  that a new attachment changes nothing for the characters printed before it
  (`SetupKeepsPast`); synchrony of printk needs the part of the text already put to end both
  log and output (`TextInFlight`).
* `PolledUartProofs`: `TypeCorrect`, `NothingLost` (`[]Lossless`), `SentInOrder`
  (`[]InOrder`, of all four drivers), `ImplementsLine` (the safety part of
  `IsSerialLine`). For the first two the point is `EmptyAtStore`: from the poll that
  succeeded to the store the holding register of a waiting driver is empty, whatever the
  UART does meanwhile, since it only ever empties it. The other two need to know where
  each byte is: `Accounted` says that the bytes accepted are those stored and then those
  still to be stored (`Pending`: the rest of the string, less a carriage return already
  sent, `CrMarks`), `KeptOfStored` that wire, shift register and holding register together
  are the stored bytes in their order, but for those lost at a full register. A waiting
  driver loses none, so a byte that goes out is the next one the line has accepted.
* `Uart8250InitProofs`: `BytesReachThr` (`ConsoleReachesThr`), `InterruptsAreOff`
  (`[]InterruptsOff`), `SpeedKnown` (`[]SpeedAfterInit`), for every set of register
  contents at entry and every clock. DLAB decides what each of the nine writes reaches, so the
  invariant says for each place in the list what has gone where: `LineControl` (DLAB is
  the firmware's until the seventh write), `WithoutDlab`, `WithDlab`, `TextFollows`.
* `PrintkProofs`: `TypeCorrect`, `BufferHoldsDigits` (`[]DigitsFit`), `PrintsFormats`
  (`[]PrintsItsFormat`), `ImplementsConsolePrintk` (`IsConsolePrintk`, the whole
  property). `DigitsFit` is not inductive: what is left of the number has to fit in the
  places left (`Remaining`: `u < base^(Places - idx)`), which at the start follows from the widths,
  and `printk` has to stand on the way through its own format (`Standing`), without which
  nothing is known of the argument it takes. `TextInv` then balances the text: what the call
  has printed (`Since`) and what is due of the conversion in progress (`Due`: the rest of
  a string, the numeral of what is left of `u`, and the digits in the buffer backwards)
  are the text up to where the loop will stand next. One round of the first loop keeps the
  sum because a numeral is that of its quotient and a last digit (`NumeralSplits`).
  That no character from beyond the format is printed is `OwnText`: the way through a format that
  does not end in a lone `%` never reads past its NUL.
* `EntryProofs`: `BssIsReady`, `WritesNothingElse`, `TlbEntriesDistinct`, `VariablesKept`
  (`DataKept`), `TypeCorrect`, for any place and size of the bss, number of CPUs and of TLB
  entries. They are proved of `Entry` (`EntryAlone`) and carried to the composed kernel by
  `BootRunsEntry`: each step of `KernelBoot` is a step of `Entry` or leaves its variables
  alone. `Cursor` and `Cleared` tie the loop's position to the cells cleared so far;
  `Parking` keeps the other CPUs out of the loops, `DataOfKernel` says that a variable has
  been written only by a kernel that has finished them; `TlbFilled` says which entries
  have been written and that `hi` is the next address.
* `GeminiServerProofs`: `TypeCorrect`, `OneOwner` (`[]SingleOwner`), `LeaksStay`
  (`LeakedForever`). That no other process holds a client's socket needs the
  history of the socket before fork: a client not yet accepted is held by no one
  (`NewcomersFresh`, `WaitingFresh`) and queued once (`WaitingOnce`), the one just
  accepted is held by the parent alone (`AcceptedFresh`), and between fork and close
  the parent's client has a child (`ClosingForked`).
* `ProgramsProofs`: of a request, `PathIsFound`, `PathStaysWithinScan`,
  `InvalidAreAnswered`; of a command line, `CommandLineDecides`
  (`[]CommandLineOutcome`), `ServesAllPrepared`; of both `TypeCorrect`. `PathFound` needs that the path copied so far is what lies
  between the first slash and the scan's position (`Scanned`) of a request that passed
  the tests (`EndTested`, `Judged`); `ServesPrepared` that each step of the set-up follows
  the success of those before (`SetUpInOrder`) and that none is done before (`NotYetSetUp`);
  the outcome of a command line, that the words passed so far were no options (`WordsPassed`).
* `PkgFetchProofs`: `TypeCorrect`, `VerifiedUnpacked` (`[]UnpacksVerified`), `MovesSucceed`
  (`[]MoveSucceeds`). `GoodAtUnpack` holds the archive good from the verify to the unpack
  whatever is interrupted before; `OldPastLook` and `NewerThanFile` follow the dates that
  decide the rule for dist.

What a recursive function computes (`OnLine`, `Power`, `Walk`, `Upto`) is proved from two
lemmas that need no operator as a parameter: `Induction`, over a set of numbers, from the
well-foundedness of <, and `Recursion`, that a function given by a first value and a step
exists. Both are stated and proved where they are needed, in `PolledUartProofs` and
`PrintkProofs`. Each inductive invariant was also checked by TLC on the instance of its run.

The theorems rest on the assumptions named in the modules, and on no others. Those of
`Printk` are the strongest: calls agree with their formats, the memory after a format ends
with a NUL somewhere, the places hold the largest numerals, and `MaxText` and `MaxCalls`
bound what is printed (`BoundAssumption`, which only keeps `Console`'s own bound out of the way).

Only model-checked: the liveness properties (`CallReturns`, `Served`, `BootTextDelivered`,
`RequestHandled`, `ExitsOrServes`, `Recovers`), the liveness that is part of `IsSerialLine`
and of `PrintedIsSerialLine`, since the prover has no rule for fairness, and the safety
part of `PrintedIsSerialLine`, which composes what `ExactlyOnce` and `ImplementsLine` prove of its
parts. `TypeOK` of `PolledUart` says nothing of `accepted`; its type follows from `Accounted`.

## 5. Where code and documentation disagree

1. `sys/kern/console.c:29` compares the index with `>` where `>=` is meant and
   nothing resets the index: the buffer of the size Kconfig names is overrun
   (`console_overrun`).
2. For the same reason each flush sends the whole log again: exactly-once fails with
   the buffer. `console.c` does not include `config.h`, so the option has no effect
   as the tree stands.
3. `sys/arm/soc/cortex-a7/uart.c:41` waits while the holding register is empty, where
   8250.c waits while the same bit is clear (`uart_a7_hang`).
4. `sys/dev/tty/serial/8250.c:59` writes the DLAB bit into register 2 instead of the
   line control register; `SpeedAfterInit` states what follows.
5. `sys/dev/tty/serial/8250.c:79` does not select seven bits without parity, as the
   comment above it says: 0x08 is five bits with parity.
6. `MAX_CLIENTS` of `sbin/geminid/geminid.h:11` is not used
   (`geminid_max_clients`).
7. `sbin/geminid/server.c:106` leaves the socket open when fork fails, and children
   are never waited for, so that a full process table stays full
   (`LeakedForever`).
8. `sys/x86/multiboot.c:7` and `:11` join flag and mask with `|`: both lines are always
   printed.
9. `sys/pdp11/init.c:26` prints without a console; `early_console_putchar` is defined
   nowhere.
10. geminid's usage text names -p, -c, -k and DIR; its option loop refuses the first three
    and does not look at the last (`sbin/geminid/main.c:83`). ed's usage text and manual page
    make FILE optional; without one it prints the usage text and fails (`bin/ed/ed.c:64`).
    `CommandLineOutcome` states what the programs do.
11. httpd takes every word whose second character is h or V for the option
    (`sbin/httpd/main.c:49`).
12. The reply to an invalid request is as long as the buffer (`sbin/geminid/gemini.c:71`).
13. `share/mk/qdnix.pkg.mk:8` leaves an archive that failed verification, and the next run
    unpacks it; `tools/build-gnutoolchain.sh:36` does the same for want of quotes.
14. `share/mk/qdnix.pkg.mk:26` moves the second unpacking of a package into dist, and after a
    new release dist still is the former one.
15. `sbin/geminid/server.c:79` never initialises `addrlen`; below 0 it makes every accept
    fail (`AcceptDrops`).
16. `build.sh:140` and `:162` only look whether there is a bmake: after a change of its version
    the former one stays.
17. `sys/mips/kernel.lds:25` and `:30` do not align the ends of bss, on which the loop of
    `sys/mips/entry.S:80` depends.
18. `sys/riscv/uart.c:7` polls the receive buffer: output overwrites output, input is lost.

Only 1, 3 and 6 contradict a document or comment in a way one run can show; the
others are visible in the definitions named in `PROJECT.json`.

## 6. Not modelled, and why

* The interrupt stubs of i386 and the trap frame of mips: no code loads an interrupt
  descriptor table, the call of the handler is commented out, and mips points its
  exception base at _entry, so no behaviour of these kernels enters them.
* `memcpy`: nothing calls it.
* What geminid prints: text without a newline stays in the parent's stdio buffer and is
  copied by fork. That is the C library's state, and wording and output are left out.
* `sys/kern/kern.c`, `sys/vm`, `sys/fs` and most of `sys/amd64` and `sys/sparc` hold
  declarations and empty functions: there is no behaviour yet. The same goes for the
  structures of `multiboot.h`, which no code reads beyond `flags`, and the register maps
  of the nrf52832.
* `mtree`, `m2` and `hello` print a line or do nothing; mtree's option texts are in
  functions that its main does not call.
* configure, make and install of the tool chain are the work of other projects, and those of
  bmake are one step of `PkgFetch`. What else `build.sh` leaves between runs (`.config`,
  `config.h`, the build directories) is written by config.py and by make. The rest of the make
  library is rules that keep nothing but what they build.
* Manual pages, the web site and its generators are text.
* OpenSSL, the C library, the kernel under geminid, the UARTs, the PLL and the firmware are
  outside the repository; they are modelled as far as the code depends on them and
  marked external in the map.

## 7. Plan

The models are complete as far as the code goes, and every safety property of the passing runs
but one is a theorem. What is left:

1. `KernelBoot`: the safety part of `PrintedIsSerialLine`, from an invariant that says of the
   composed kernel what `ExactlyOnce` and `Accounted` say of console and driver: between two
   characters the log, with its carriage returns, is what the driver has accepted.
2. Of `KernelBoot` too: the device is attached before the first printk, which is the
   part of `BootTextDelivered` that is safety.
3. `SerialLine`: that it keeps `wire` a prefix of `accepted`, so that whatever implements it
   does.

No module uses RECURSIVE, so that all of them can be proved about.
