---------------------------- MODULE MCKernelBoot ----------------------------
(* Instances of KernelBoot for TLC: five boards, two CPUs where a board    *)
(* has several, bss of no and of one cell in a memory of five, TLBs of     *)
(* three entries, up to one word in argv and in envp, a UART the firmware  *)
(* left at 8N1 and 115200 baud with DLAB clear or set.                     *)
EXTENDS KernelBoot

MCMachines == {"i386", "mips", "riscv", "cortex_a7", "nrf52832"}
MCCpu == {0, 1}
MCBssEnds == {1, 2}
MCTlbSizes == {3}
MCByte == {CR, LF, FW, "mmap found", "drives", "Magic", "yay multiboot",
           "Invalide", "serial initialized", "QDNX", "serial", "memsize",
           "cmdline:", "argv", "env:", "envp", "argc", "KiB",
           "c", "o", "H", "e", "l", "0", "12", "52"}
MCFirmware ==
  {[ier |-> 0, fcr |-> 0, lcr |-> l, mcr |-> 0, dll |-> 1, dlh |-> 0] :
     l \in {3, 131}}
=============================================================================
