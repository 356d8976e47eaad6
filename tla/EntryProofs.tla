----------------------------- MODULE EntryProofs -----------------------------
(***************************************************************************)
(* Proofs about the entry code: of Entry, which is entry code and a kernel *)
(* that does nothing but use its variables, and of KernelBoot, where the   *)
(* kernel that follows prints.  They hold for every set of CPUs, every     *)
(* place and size of the bss and every number of TLB entries.              *)
(***************************************************************************)
EXTENDS KernelBoot, TLAPS

(* The CPUs that do not boot never run the loops.                          *)
Parking ==
  \A c \in Cpu \ {0} :
    /\ cpu[c] \in {"off", "reset", "parked"}
    /\ cpu[c] = "reset" => machine \in MultiCpu

(* The cell the boot CPU's loop stores next is one it may store: mips has  *)
(* still to store to bss_end, riscv and nrf52832 store once in any case.   *)
Cursor ==
  /\ cpu[0] = "reset" => at[0] = bss_begin
  /\ cpu[0] = "bss" =>
       \/ machine \in {"i386", "cortex_a7", "mips"} /\ at[0] <= bss_end
       \/ machine \in {"riscv", "nrf52832"}
            /\ (at[0] < bss_end \/ at[0] = bss_begin)

(* Up to there, and nowhere else, memory is zero; the kernel then has all  *)
(* of the bss.                                                             *)
Cleared ==
  /\ cpu[0] \in {"reset", "bss"} =>
       \A a \in 0..MemTop :
         mem[a] = IF a \in bss_begin..(at[0] - 1) THEN "zero" ELSE "junk"
  /\ cpu[0] \in {"tlb", "kernel"} => \A a \in Bss : mem[a] # "junk"

(* Only a kernel has put anything into its variables.                      *)
DataOfKernel == \A a \in 0..MemTop : mem[a] = "data" => cpu[0] = "kernel"

(* The entries of the TLB are written from the last to the first, each     *)
(* with the address after the one before.                                  *)
TlbDone == machine = "mips" /\ cpu[0] = "kernel"
TlbFilled ==
  /\ cpu[0] = "tlb" => machine = "mips"
  /\ \E n \in TlbSizes \cup {1} :
       /\ DOMAIN tlb = 0..(n - 1) /\ index \in 0..(n - 1)
       /\ hi = 4 * (IF TlbDone THEN n ELSE n - 1 - index)
       /\ TlbDone => index = 0
       /\ \A i \in 0..(n - 1) :
            tlb[i] = IF i > index \/ TlbDone THEN 2 * (n - 1 - i) ELSE Junk

IInv ==
  /\ TypeOK
  /\ Parking /\ Cursor /\ Cleared /\ DataOfKernel /\ TlbFilled
  /\ NothingElse

----------------------------------------------------------------------------
(* The boot CPU starts, any other one hangs.                               *)
LEMMA ResetStep ==
  ASSUME IInv, NEW c \in Cpu, Reset(c)
  PROVE  IInv'
<1>1. /\ cpu[c] = "reset"
      /\ cpu' = [cpu EXCEPT ![c] = IF Parks(c) THEN "parked" ELSE "bss"]
      /\ UNCHANGED <<machine, bss_end, at, mem, index, hi, tlb>>
  BY DEF Reset
<1>2. /\ cpu \in [Cpu -> {"off", "reset", "bss", "tlb", "kernel", "parked"}]
      /\ machine \in {"i386", "mips", "riscv", "cortex_a7", "nrf52832"}
      /\ bss_end \in Nat /\ bss_begin \in Nat /\ bss_begin <= bss_end
  BY MachinesAssumption, MemoryAssumption DEF IInv, TypeOK
<1>3. TypeOK'
  BY <1>1, <1>2 DEF IInv, TypeOK
<1>4. CASE c = 0
  <2>1. cpu'[0] = "bss" /\ \A d \in Cpu \ {0} : cpu'[d] = cpu[d]
    BY <1>1, <1>2, <1>4, CpuAssumption DEF Parks
  <2>2. Parking' /\ DataOfKernel' /\ NothingElse'
    BY <1>1, <1>4, <2>1
       DEF IInv, Parking, DataOfKernel, NothingElse, Bss, Overshoot
  <2>3. Cursor' /\ Cleared'
    BY <1>1, <1>2, <1>4, <2>1 DEF IInv, Cursor, Cleared
  <2>4. TlbFilled'
    BY <1>1, <1>4, <2>1 DEF IInv, TlbFilled, TlbDone
  <2> QED
    BY <1>3, <2>2, <2>3, <2>4 DEF IInv
<1>5. CASE c # 0
  <2>1. cpu'[c] = "parked" /\ \A d \in Cpu \ {c} : cpu'[d] = cpu[d]
    BY <1>1, <1>2, <1>5 DEF Parks, IInv, Parking
  <2>2. cpu'[0] = cpu[0]
    BY <1>5, <2>1, CpuAssumption
  <2>3. Parking'
    BY <1>1, <2>1 DEF IInv, Parking
  <2>4. /\ Cursor' /\ Cleared' /\ DataOfKernel' /\ TlbFilled' /\ NothingElse'
    BY <1>1, <2>2
       DEF IInv, Cursor, Cleared, DataOfKernel, TlbFilled, TlbDone,
           NothingElse, Bss, Overshoot
  <2> QED
    BY <1>3, <2>3, <2>4 DEF IInv
<1> QED
  BY <1>4, <1>5

(* A store of a loop: it goes to the cell after the last one cleared, and  *)
(* the loop goes on only where there is another cell to clear.             *)
LEMMA ClearCellStep ==
  ASSUME IInv, NEW c \in Cpu, ClearCell(c)
  PROVE  IInv'
<1>1. /\ cpu[c] = "bss" /\ ~EndsBefore(at[c])
      /\ mem' = [mem EXCEPT ![at[c]] = "zero"]
      /\ at' = [at EXCEPT ![c] = @ + 1]
      /\ cpu' = [cpu EXCEPT ![c] = IF EndsAfter(at[c]) THEN AfterBss ELSE "bss"]
      /\ UNCHANGED <<machine, bss_end, index, hi, tlb>>
  BY DEF ClearCell
<1>2. /\ cpu \in [Cpu -> {"off", "reset", "bss", "tlb", "kernel", "parked"}]
      /\ machine \in {"i386", "mips", "riscv", "cortex_a7", "nrf52832"}
      /\ at \in [Cpu -> bss_begin..(bss_end + 1)]
      /\ mem \in [0..MemTop -> {"junk", "zero", "data"}]
      /\ bss_end \in Nat /\ bss_begin \in Nat \ {0} /\ bss_begin <= bss_end
      /\ MemTop \in Nat /\ bss_end <= MemTop
  BY MachinesAssumption, MemoryAssumption DEF IInv, TypeOK
<1>3. c = 0 /\ cpu[0] = "bss" /\ \A d \in Cpu \ {0} : cpu'[d] = cpu[d]
  BY <1>1, <1>2 DEF IInv, Parking
<1> DEFINE a0 == at[0]
<1>4. /\ a0 \in bss_begin..bss_end
      /\ machine \in {"i386", "cortex_a7"} => a0 < bss_end
      /\ machine \in {"riscv", "nrf52832"} => a0 < bss_end \/ a0 = bss_begin
  BY <1>1, <1>2, <1>3, CpuAssumption DEF IInv, Cursor, EndsBefore
<1>5. a0 \in 0..MemTop /\ at'[0] = a0 + 1 /\ a0 + 1 \in bss_begin..(bss_end + 1)
  BY <1>1, <1>2, <1>3, <1>4, CpuAssumption
<1>6. cpu'[0] = IF EndsAfter(a0) THEN AfterBss ELSE "bss"
  BY <1>1, <1>2, <1>3, CpuAssumption
<1>7. \A a \in 0..MemTop : mem'[a] = IF a = a0 THEN "zero" ELSE mem[a]
  BY <1>1, <1>2, <1>3, <1>5
<1>8. \A a \in 0..MemTop :
        mem[a] = IF a \in bss_begin..(a0 - 1) THEN "zero" ELSE "junk"
  BY <1>3 DEF IInv, Cleared
<1>9. \A a \in 0..MemTop :
        mem'[a] = IF a \in bss_begin..a0 THEN "zero" ELSE "junk"
  BY <1>2, <1>4, <1>7, <1>8
<1>10. TypeOK'
  <2>1. mem' \in [0..MemTop -> {"junk", "zero", "data"}]
    BY <1>1, <1>2
  <2>2. at' \in [Cpu -> bss_begin..(bss_end + 1)]
    BY <1>1, <1>2, <1>3, <1>5
  <2>3. cpu' \in [Cpu -> {"off", "reset", "bss", "tlb", "kernel", "parked"}]
    BY <1>1, <1>2 DEF AfterBss
  <2> QED
    BY <1>1, <2>1, <2>2, <2>3 DEF IInv, TypeOK
<1>11. Parking'
  BY <1>1, <1>3 DEF IInv, Parking
<1>12. Cursor'
  BY <1>1, <1>2, <1>4, <1>5, <1>6 DEF Cursor, EndsAfter, AfterBss
<1>13. Cleared'
  <2>1. CASE ~EndsAfter(a0)
    BY <1>1, <1>2, <1>5, <1>6, <1>9, <2>1 DEF Cleared
  <2>2. CASE EndsAfter(a0)
    <3>1. bss_begin..(bss_end - 1) \subseteq bss_begin..a0
      BY <1>2, <1>4, <2>2 DEF EndsAfter
    <3>2. bss_begin..(bss_end - 1) \subseteq 0..MemTop
      BY <1>2
    <3>3. cpu'[0] \in {"tlb", "kernel"}
      BY <1>6, <2>2 DEF AfterBss
    <3> QED
      BY <1>1, <1>9, <3>1, <3>2, <3>3 DEF Cleared, Bss
  <2> QED
    BY <2>1, <2>2
<1>14. DataOfKernel'
  BY <1>9 DEF DataOfKernel
<1>15. TlbFilled'
  <2>1. cpu'[0] = "tlb" => machine = "mips"
    BY <1>6 DEF AfterBss
  <2>2. ~TlbDone /\ ~TlbDone'
    BY <1>1, <1>3, <1>6 DEF TlbDone, AfterBss
  <2> QED
    BY <1>1, <2>1, <2>2 DEF IInv, TlbFilled
<1>16. NothingElse'
  <2>1. bss_begin..a0 \subseteq Bss \cup Overshoot
    BY <1>2, <1>4 DEF Bss, Overshoot
  <2> QED
    BY <1>1, <1>9, <2>1 DEF NothingElse, Bss, Overshoot
<1> QED
  BY <1>10, <1>11, <1>12, <1>13, <1>14, <1>15, <1>16 DEF IInv

(* The loops that test first end when every cell is cleared.               *)
LEMMA ClearEndStep ==
  ASSUME IInv, NEW c \in Cpu, ClearEnd(c)
  PROVE  IInv'
<1>1. /\ cpu[c] = "bss" /\ EndsBefore(at[c])
      /\ cpu' = [cpu EXCEPT ![c] = AfterBss]
      /\ UNCHANGED <<machine, bss_end, at, mem, index, hi, tlb>>
  BY DEF ClearEnd
<1>2. /\ cpu \in [Cpu -> {"off", "reset", "bss", "tlb", "kernel", "parked"}]
      /\ at \in [Cpu -> bss_begin..(bss_end + 1)]
      /\ bss_end \in Nat /\ bss_begin \in Nat \ {0} /\ bss_begin <= bss_end
      /\ MemTop \in Nat /\ bss_end <= MemTop
  BY MemoryAssumption DEF IInv, TypeOK
<1>3. c = 0 /\ cpu[0] = "bss" /\ \A d \in Cpu \ {0} : cpu'[d] = cpu[d]
  BY <1>1, <1>2 DEF IInv, Parking
<1>4. /\ machine \in {"i386", "cortex_a7"} /\ at[0] \in Nat /\ at[0] >= bss_end
      /\ cpu'[0] = "kernel"
  BY <1>1, <1>2, <1>3, CpuAssumption DEF EndsBefore, AfterBss
<1>5. TypeOK' /\ Parking' /\ Cursor' /\ DataOfKernel'
  BY <1>1, <1>2, <1>3, <1>4 DEF IInv, TypeOK, Parking, Cursor, DataOfKernel, AfterBss
<1>6. Cleared'
  <2>1. \A a \in bss_begin..(bss_end - 1) : a \in 0..MemTop /\ a \in bss_begin..(at[0] - 1)
    BY <1>2, <1>4
  <2> QED
    BY <1>1, <1>3, <1>4, <2>1 DEF IInv, Cleared, Bss
<1>7. TlbFilled' /\ NothingElse'
  BY <1>1, <1>3, <1>4
     DEF IInv, TlbFilled, TlbDone, NothingElse, Bss, Overshoot
<1> QED
  BY <1>5, <1>6, <1>7 DEF IInv

(* A round of tlb_init: the next lower entry gets the next higher address. *)
LEMMA TlbStep ==
  ASSUME IInv, NEW c \in Cpu, tlb_init(c)
  PROVE  IInv'
<1>1. /\ cpu[c] = "tlb"
      /\ tlb' = [tlb EXCEPT ![index] = hi \div 2]
      /\ hi' = hi + 4
      /\ IF index = 0 THEN cpu' = [cpu EXCEPT ![c] = "kernel"] /\ index' = index
                      ELSE index' = index - 1 /\ cpu' = cpu
      /\ UNCHANGED <<machine, bss_end, at, mem>>
  BY DEF tlb_init, PagesApart
<1>2. cpu \in [Cpu -> {"off", "reset", "bss", "tlb", "kernel", "parked"}]
  BY DEF IInv, TypeOK
<1>3. /\ c = 0 /\ cpu[0] = "tlb" /\ \A d \in Cpu \ {0} : cpu'[d] = cpu[d]
      /\ machine = "mips" /\ ~TlbDone
  BY <1>1, <1>2 DEF IInv, Parking, TlbFilled, TlbDone
<1>4. PICK n \in TlbSizes \cup {1} :
        /\ DOMAIN tlb = 0..(n - 1) /\ index \in 0..(n - 1)
        /\ hi = 4 * (n - 1 - index)
        /\ \A i \in 0..(n - 1) :
             tlb[i] = IF i > index THEN 2 * (n - 1 - i) ELSE Junk
  BY <1>3 DEF IInv, TlbFilled
<1> n \in Nat \ {0}
  BY TlbAssumption
<1>5. hi \div 2 = 2 * (n - 1 - index) /\ hi \div 2 \in Nat
      /\ hi' = 4 * (n - index) /\ hi' \in Nat
  BY <1>1, <1>4
<1>6. cpu'[0] = IF index = 0 THEN "kernel" ELSE "tlb"
  BY <1>1, <1>2, <1>3, CpuAssumption
<1>7. /\ DOMAIN tlb' = 0..(n - 1) /\ index' \in 0..(n - 1)
      /\ \A i \in 0..(n - 1) :
           tlb'[i] = IF i >= index THEN 2 * (n - 1 - i) ELSE Junk
  BY <1>1, <1>4, <1>5
<1>8. TypeOK'
  <2>1. tlb' \in [DOMAIN tlb' -> Nat \cup {Junk}]
    BY <1>1, <1>5 DEF IInv, TypeOK
  <2>2. cpu' \in [Cpu -> {"off", "reset", "bss", "tlb", "kernel", "parked"}]
    BY <1>1, <1>2
  <2> QED
    BY <1>1, <1>5, <1>7, <2>1, <2>2 DEF IInv, TypeOK
<1>9. Parking' /\ Cursor' /\ Cleared' /\ DataOfKernel' /\ NothingElse'
  BY <1>1, <1>3, <1>6
     DEF IInv, Parking, Cursor, Cleared, DataOfKernel, NothingElse, Bss, Overshoot
<1>10. TlbFilled'
  <2>1. TlbDone' <=> index = 0
    BY <1>1, <1>3, <1>6 DEF TlbDone
  <2>2. CASE index = 0
    <3>1. /\ hi' = 4 * n /\ index' = 0
          /\ \A i \in 0..(n - 1) : tlb'[i] = 2 * (n - 1 - i)
      BY <1>1, <1>4, <1>5, <1>7, <2>2
    <3> QED
      BY <1>1, <1>3, <1>7, <2>1, <2>2, <3>1 DEF TlbFilled
  <2>3. CASE index # 0
    <3>1. /\ hi' = 4 * (n - 1 - index')
          /\ \A i \in 0..(n - 1) :
               tlb'[i] = IF i > index' THEN 2 * (n - 1 - i) ELSE Junk
      BY <1>1, <1>4, <1>5, <1>7, <2>3
    <3> QED
      BY <1>1, <1>3, <1>7, <2>1, <2>3, <3>1 DEF TlbFilled
  <2> QED
    BY <2>2, <2>3
<1> QED
  BY <1>8, <1>9, <1>10 DEF IInv

(* The kernel writes to its variables, which are cleared.                  *)
LEMMA UseBssStep ==
  ASSUME IInv, NEW c \in Cpu, UseBss(c)
  PROVE  IInv'
<1>1. PICK b \in Bss : cpu[c] = "kernel" /\ mem[b] = "zero"
                       /\ mem' = [mem EXCEPT ![b] = "data"]
  BY DEF UseBss
<1>2. UNCHANGED <<machine, bss_end, cpu, at, index, hi, tlb>>
  BY DEF UseBss
<1>3. /\ mem \in [0..MemTop -> {"junk", "zero", "data"}]
      /\ bss_end \in Nat /\ bss_begin \in Nat /\ bss_end <= MemTop
      /\ MemTop \in Nat
  BY MemoryAssumption DEF IInv, TypeOK
<1>4. cpu[0] = "kernel"
  BY <1>1 DEF IInv, Parking
<1>5. Bss \subseteq 0..MemTop
  BY <1>3 DEF Bss
<1>6. \A a \in 0..MemTop : mem'[a] = IF a = b THEN "data" ELSE mem[a]
  BY <1>1, <1>3, <1>5
<1>7. TypeOK'
  BY <1>1, <1>2, <1>3 DEF IInv, TypeOK
<1>8. Parking' /\ Cursor' /\ TlbFilled'
  BY <1>2 DEF IInv, Parking, Cursor, TlbFilled, TlbDone
<1>9. Cleared' /\ DataOfKernel' /\ NothingElse'
  BY <1>2, <1>4, <1>5, <1>6
     DEF IInv, Cleared, DataOfKernel, NothingElse, Bss, Overshoot
<1> QED
  BY <1>7, <1>8, <1>9 DEF IInv

----------------------------------------------------------------------------
(* At reset memory and the TLB hold what they hold.                        *)
LEMMA InitIInv == EntryInit => IInv
<1> SUFFICES ASSUME EntryInit PROVE IInv
  OBVIOUS
<1>1. /\ machine \in Machines /\ bss_end \in BssEnds
      /\ cpu = [c \in Cpu |->
                  IF c = 0 \/ machine \in MultiCpu THEN "reset" ELSE "off"]
      /\ at = [c \in Cpu |-> bss_begin]
      /\ mem = [a \in 0..MemTop |-> "junk"]
      /\ hi = 0
  BY DEF EntryInit
<1>2. PICK n \in TlbSizes \cup {1} :
        index = n - 1 /\ tlb = [i \in 0..(n - 1) |-> Junk]
  BY DEF EntryInit
<1> n \in Nat \ {0}
  BY TlbAssumption
<1>3. bss_end \in Nat /\ bss_begin \in Nat /\ bss_begin <= bss_end
  BY <1>1, MemoryAssumption
<1>4. TypeOK
  BY <1>1, <1>2, <1>3 DEF TypeOK
<1>5. Parking /\ Cursor /\ DataOfKernel /\ NothingElse
  BY <1>1, CpuAssumption DEF Parking, Cursor, DataOfKernel, NothingElse
<1>6. Cleared
  BY <1>1, <1>3, CpuAssumption DEF Cleared
<1>7. TlbFilled
  <2>1. cpu[0] = "reset" /\ ~TlbDone
    BY <1>1, CpuAssumption DEF TlbDone
  <2> QED
    BY <1>1, <1>2, <2>1 DEF TlbFilled
<1> QED
  BY <1>4, <1>5, <1>6, <1>7 DEF IInv

(* Every step of the entry code and of the kernel preserves the invariant. *)
LEMMA NextIInv == IInv /\ [EntryNext]_entryVars => IInv'
<1> SUFFICES ASSUME IInv, [EntryNext]_entryVars PROVE IInv'
  OBVIOUS
<1>1. CASE UNCHANGED entryVars
  BY <1>1 DEF entryVars, IInv, TypeOK, Parking, Cursor, Cleared, DataOfKernel,
              TlbFilled, TlbDone, NothingElse, Bss, Overshoot
<1>2. ASSUME NEW c \in Cpu, EntryStep(c) \/ UseBss(c) PROVE IInv'
  BY <1>2, ResetStep, ClearCellStep, ClearEndStep, TlbStep, UseBssStep
     DEF EntryStep
<1> QED
  BY <1>1, <1>2 DEF EntryNext

(* The invariant says that the bss is ready and the TLB distinct.          *)
LEMMA IInvReady == IInv => BssReady /\ TlbDistinct
<1> SUFFICES ASSUME IInv PROVE BssReady /\ TlbDistinct
  OBVIOUS
<1>1. BssReady
  BY DEF IInv, Parking, Cleared, BssReady
<1>2. PICK n \in TlbSizes \cup {1} :
        /\ DOMAIN tlb = 0..(n - 1) /\ index \in 0..(n - 1)
        /\ \A i \in 0..(n - 1) :
             tlb[i] = IF i > index \/ TlbDone THEN 2 * (n - 1 - i) ELSE Junk
  BY DEF IInv, TlbFilled
<1> n \in Nat \ {0}
  BY TlbAssumption
<1>3. TlbDistinct
  BY <1>2 DEF TlbDistinct, TlbDone, Junk
<1> QED
  BY <1>1, <1>3

(* A cell with the kernel's data keeps it.                                 *)
Keeps == \A a \in 0..MemTop : mem[a] = "data" => mem'[a] = "data"

(* Every step keeps the data it finds.                                     *)
LEMMA IInvKeeps == IInv /\ [EntryNext]_entryVars => [Keeps]_mem
<1> SUFFICES ASSUME IInv, NEW c \in Cpu, EntryStep(c) \/ UseBss(c)
             PROVE  Keeps \/ UNCHANGED mem
  BY DEF EntryNext, entryVars
<1>1. CASE Reset(c) \/ ClearEnd(c) \/ tlb_init(c)
  BY <1>1 DEF Reset, ClearEnd, tlb_init
<1>2. CASE ClearCell(c)
  <2>1. cpu[0] = "bss"
    BY <1>2 DEF ClearCell, IInv, Parking
  <2> QED
    BY <2>1 DEF IInv, DataOfKernel, Keeps
<1>3. CASE UseBss(c)
  BY <1>3 DEF UseBss, IInv, TypeOK, Keeps
<1> QED
  BY <1>1, <1>2, <1>3 DEF EntryStep

----------------------------------------------------------------------------
(* Whatever the kernel does after it, the entry code keeps its types,      *)
(* clears the bss before the kernel runs, writes nothing else, writes      *)
(* distinct TLB entries, and clears nothing the kernel has written.        *)
LEMMA EntryCorrect ==
  EntryInit /\ [][EntryNext]_entryVars =>
    [](TypeOK /\ BssReady /\ NothingElse /\ TlbDistinct) /\ DataKept
<1>1. IInv => TypeOK /\ BssReady /\ NothingElse /\ TlbDistinct
  BY IInvReady DEF IInv
<1>2. IInv /\ [EntryNext]_entryVars =>
        [\A a \in 0..MemTop : mem[a] = "data" => mem'[a] = "data"]_mem
  BY IInvKeeps DEF Keeps
<1> QED
  BY InitIInv, NextIInv, <1>1, <1>2, PTL DEF DataKept

(* The entry code of KernelBoot is that of Entry: the kernel, its drivers  *)
(* and the UART leave the entry code's state alone but for the variables   *)
(* in the bss.                                                             *)
THEOREM BootRunsEntry == Spec => EntryInit /\ [][EntryNext]_entryVars
<1>1. Init => EntryInit
  BY DEF Init
<1>2. [Next]_vars => [EntryNext]_entryVars
  <2> SUFFICES ASSUME Next \/ UNCHANGED vars
               PROVE  EntryNext \/ UNCHANGED entryVars
    OBVIOUS
  <2>1. CASE UNCHANGED vars
    BY <2>1 DEF vars
  <2>2. CASE (\E c \in Cpu : EntryCode(c)) \/ Variables
    BY <2>2 DEF EntryCode, Variables, EntryNext
  <2>3. CASE Kernel
    BY <2>3 DEF Kernel, serial_8250_init, console_setup, printk, uart_putchar,
                ccu_init_clock, Console
  <2>4. CASE PllLocks \/ Driver \/ Transmitter \/ Receiver
    BY <2>4 DEF PllLocks, Driver, Transmitter, Receiver
  <2> QED
    BY <2>1, <2>2, <2>3, <2>4 DEF Next
<1> QED
  BY <1>1, <1>2, PTL DEF Spec

(* The entry code's state keeps its types: no loop leaves memory, and      *)
(* tlb_init writes the entries there are.                                  *)
THEOREM TypeCorrect == Spec => []TypeOK
  BY BootRunsEntry, EntryCorrect, PTL

(* C code starts with a clean bss, of any size: see BssReady.              *)
THEOREM BssIsReady == Spec => []BssReady
  BY BootRunsEntry, EntryCorrect, PTL

(* The entry code writes to the bss and the cell of Overshoot only.        *)
THEOREM WritesNothingElse == Spec => []NothingElse
  BY BootRunsEntry, EntryCorrect, PTL

(* tlb_init writes every entry, each with an address of its own.           *)
THEOREM TlbEntriesDistinct == Spec => []TlbDistinct
  BY BootRunsEntry, EntryCorrect, PTL

(* No cell the kernel has written to is cleared again: see DataKept.       *)
THEOREM VariablesKept == Spec => DataKept
  BY BootRunsEntry, EntryCorrect, PTL

(* The same of the entry code alone, with a kernel that only uses its      *)
(* variables.                                                              *)
THEOREM EntryAlone ==
  EntrySpec => [](TypeOK /\ BssReady /\ NothingElse /\ TlbDistinct) /\ DataKept
  BY EntryCorrect, PTL DEF EntrySpec
=============================================================================
