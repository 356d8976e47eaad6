------------------------------- MODULE Entry -------------------------------
(***************************************************************************)
(* From reset to the first line of C: the entry code of five boards        *)
(* (entry.S of i386, mips, riscv, cortex-a7 and nrf52832), the memset      *)
(* cortex-a7 calls, and the tlb_init of mips.                              *)
(*                                                                         *)
(* Every CPU of a board starts at the same entry.  CPU 0 clears the bss    *)
(* and goes on; mips and cortex-a7 make every other CPU hang.  Memory is   *)
(* counted in cells of the size the board's loop stores: a byte, a word or *)
(* a doubleword.  Both ends of the bss lie on a cell.  The linker scripts  *)
(* of riscv and nrf52832 align its beginning, and their loops cannot tell  *)
(* an end inside a cell from one rounded up; those of i386 and cortex-a7   *)
(* store bytes.  kernel.lds of mips aligns neither bss_begin, which it     *)
(* sets before the ALIGN(8) of the section, nor bss_end: there a word      *)
(* boundary is assumed.  Without one the loop, which tests for equality,   *)
(* does not end with the bss.                                              *)
(***************************************************************************)
EXTENDS Integers

CONSTANTS
  Machines,  (* the boards to consider, some of the five above             *)
  Cpu,       (* the CPUs of a board that has several; CPU 0 boots          *)
  bss_begin, (* the first cell of the bss, as the linker places it         *)
  BssEnds,   (* the values bss_end may have: the bss may be empty          *)
  MemTop,    (* the last cell of memory                                    *)
  TlbSizes   (* numbers of entries a TLB may have                          *)

ASSUME MachinesAssumption ==
  Machines \subseteq {"i386", "mips", "riscv", "cortex_a7", "nrf52832"}
ASSUME CpuAssumption == 0 \in Cpu
ASSUME MemoryAssumption ==
  /\ bss_begin \in Nat \ {0} /\ MemTop \in Nat
  /\ BssEnds \subseteq bss_begin..MemTop
ASSUME TlbAssumption == TlbSizes \subseteq Nat \ {0}

VARIABLES
  machine,  (* the board, fixed                                            *)
  bss_end,  (* where its bss ends, fixed                                   *)
  cpu,      (* where each CPU is                                           *)
  at,       (* the cell each CPU's loop stores next                        *)
  mem,      (* what each cell of memory holds                              *)
  index,    (* tlb_init: the entry written next,                           *)
  hi,       (* and EntryHi, the address it gets, in pages                  *)
  tlb       (* the virtual page pair of each TLB entry                     *)

entryVars == <<machine, bss_end, cpu, at, mem, index, hi, tlb>>

Bss == bss_begin..(bss_end - 1)
Junk == -1

TypeOK ==
  /\ machine \in Machines
  /\ bss_end \in BssEnds
  /\ cpu \in [Cpu -> {"off", "reset", "bss", "tlb", "kernel", "parked"}]
  /\ at \in [Cpu -> bss_begin..(bss_end + 1)]
  /\ mem \in [0..MemTop -> {"junk", "zero", "data"}]
  /\ hi \in Nat
  /\ index \in DOMAIN tlb /\ tlb \in [DOMAIN tlb -> Nat \cup {Junk}]

(* Boards whose secondary CPUs come out of reset on their own.             *)
MultiCpu == {"mips", "cortex_a7"}

EntryInit ==
  /\ machine \in Machines /\ bss_end \in BssEnds
  /\ cpu = [c \in Cpu |->
              IF c = 0 \/ machine \in MultiCpu THEN "reset" ELSE "off"]
  /\ at = [c \in Cpu |-> bss_begin]
  /\ mem = [a \in 0..MemTop |-> "junk"]
  /\ \E n \in IF machine = "mips" THEN TlbSizes ELSE {1} :
       index = n - 1 /\ tlb = [i \in 0..(n - 1) |-> Junk]
  /\ hi = 0

----------------------------------------------------------------------------
(* Mutant of Parks: the CPU number is not looked at.                       *)
ParksNobody(c) == FALSE

(* The test of the CPU number, C0_EBASE or MPIDR.                          *)
Parks(c) == machine \in MultiCpu /\ c # 0

Reset(c) ==
  /\ cpu[c] = "reset"
  /\ cpu' = [cpu EXCEPT ![c] = IF Parks(c) THEN "parked" ELSE "bss"]
  /\ UNCHANGED <<machine, bss_end, at, mem, index, hi, tlb>>

(* Mutant of EndsBefore: memset tests for the last cell.                   *)
EndsBeforeLast(a) == machine \in {"i386", "cortex_a7"} /\ a >= bss_end - 1

(* rep stosb and memset test before they store.                            *)
EndsBefore(a) == machine \in {"i386", "cortex_a7"} /\ a >= bss_end

(* Mutant of EndsAfter: a doubleword too many.                             *)
EndsAfterOneMore(a) ==
  \/ machine = "mips" /\ a = bss_end
  \/ machine \in {"riscv", "nrf52832"} /\ a + 1 > bss_end

(* Mutant of EndsAfter: the branch compares the address already advanced.  *)
EndsAfterAdvance(a) ==
  \/ machine = "mips" /\ a + 1 = bss_end
  \/ machine \in {"riscv", "nrf52832"} /\ a + 1 >= bss_end

(* The others store first: mips compares the address it stored to, which   *)
(* the delay slot then advances, the other two the address advanced.       *)
EndsAfter(a) ==
  \/ machine = "mips" /\ a = bss_end
  \/ machine \in {"riscv", "nrf52832"} /\ a + 1 >= bss_end

AfterBss == IF machine = "mips" THEN "tlb" ELSE "kernel"

ClearCell(c) ==
  /\ cpu[c] = "bss" /\ ~EndsBefore(at[c])
  /\ mem' = [mem EXCEPT ![at[c]] = "zero"]
  /\ at' = [at EXCEPT ![c] = @ + 1]
  /\ cpu' = [cpu EXCEPT ![c] = IF EndsAfter(at[c]) THEN AfterBss ELSE "bss"]
  /\ UNCHANGED <<machine, bss_end, index, hi, tlb>>

ClearEnd(c) ==
  /\ cpu[c] = "bss" /\ EndsBefore(at[c])
  /\ cpu' = [cpu EXCEPT ![c] = AfterBss]
  /\ UNCHANGED <<machine, bss_end, at, mem, index, hi, tlb>>

(* Mutant of PagesApart: the addresses advance by one page.                *)
OnePageApart == 1

(* add $t0, 2<<13: four pages of 4 KiB.                                    *)
PagesApart == 4

(* One round of tlb_init: entry `index' gets the pair of pages of EntryHi, *)
(* invalid; the branch tests the index the delay slot then lowers.         *)
tlb_init(c) ==
  /\ cpu[c] = "tlb"
  /\ tlb' = [tlb EXCEPT ![index] = hi \div 2]
  /\ hi' = hi + PagesApart
  /\ IF index = 0 THEN cpu' = [cpu EXCEPT ![c] = "kernel"] /\ UNCHANGED index
                  ELSE index' = index - 1 /\ UNCHANGED cpu
  /\ UNCHANGED <<machine, bss_end, at, mem>>

(* The kernel keeps something in one of its variables.                     *)
UseBss(c) ==
  /\ cpu[c] = "kernel"
  /\ \E a \in Bss : mem[a] = "zero" /\ mem' = [mem EXCEPT ![a] = "data"]
  /\ UNCHANGED <<machine, bss_end, cpu, at, index, hi, tlb>>

EntryStep(c) == Reset(c) \/ ClearCell(c) \/ ClearEnd(c) \/ tlb_init(c)

EntryNext == \E c \in Cpu : EntryStep(c) \/ UseBss(c)

EntrySpec == EntryInit /\ [][EntryNext]_entryVars /\ WF_entryVars(EntryStep(0))

----------------------------------------------------------------------------
(* C code starts with a clean bss: when a CPU has left the entry code, no  *)
(* cell between bss_begin and bss_end still holds what it held at reset,   *)
(* for any size of the bss, the empty one included.                        *)
BssReady ==
  (\E c \in Cpu : cpu[c] = "kernel") => \A a \in Bss : mem[a] # "junk"

(* The cells beyond the bss that the loops which store before they compare *)
(* do clear: bss_end itself on mips, and bss_begin of an empty bss.        *)
Overshoot ==
  IF machine = "mips" THEN {bss_end}
  ELSE IF machine \in {"riscv", "nrf52832"} /\ bss_end = bss_begin
  THEN {bss_begin} ELSE {}

(* The entry code writes nothing else: the loops stay within the bss but   *)
(* for the one cell of Overshoot, whatever the size of the bss.            *)
NothingElse ==
  \A a \in 0..MemTop : mem[a] # "junk" => a \in Bss \cup Overshoot

(* What the kernel has put into its variables is never cleared again: no   *)
(* second CPU runs the loop after the first one has gone on (entry.S parks *)
(* every CPU but the first before its stores).                             *)
DataKept == [][\A a \in 0..MemTop : mem[a] = "data" => mem'[a] = "data"]_mem

(* No two entries that tlb_init wrote match the same address, which would  *)
(* be a machine check, and when it is done no entry is left as it was.     *)
TlbDistinct ==
  /\ \A i, j \in DOMAIN tlb : tlb[i] = tlb[j] /\ i # j => tlb[i] = Junk
  /\ machine = "mips" /\ cpu[0] = "kernel" =>
       \A i \in DOMAIN tlb : tlb[i] # Junk
============================================================================
