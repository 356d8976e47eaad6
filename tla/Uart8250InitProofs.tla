------------------------- MODULE Uart8250InitProofs -------------------------
(***************************************************************************)
(* Proofs about Uart8250Init, for every clock, every beaudrate, both byte  *)
(* orders and every set of register contents at entry.                     *)
(***************************************************************************)
EXTENDS Uart8250Init, SequenceTheorems, TLAPS

(* The two bytes of the divisor that are written first.                    *)
First == IF little THEN HighByte ELSE LowByte
Second == IF little THEN LowByte ELSE HighByte

TypeOK ==
  /\ entry \in Registers /\ little \in BOOLEAN
  /\ regs \in Registers /\ thr \in Seq(AByte) /\ next \in 1..10

(* DLAB stays as it was at entry until the seventh write clears it.        *)
LineControl == regs.lcr = IF next > 7 THEN 8 ELSE entry.lcr

(* With DLAB clear the latch is the firmware's: the first bytes of the     *)
(* divisor, then the second ones, go to the holding register and to the    *)
(* interrupt enable register, where a zero follows.                        *)
WithoutDlab ==
  ~Dlab(entry) =>
    /\ regs.dll = entry.dll /\ regs.dlh = entry.dlh
    /\ next \in {2, 3, 4} \cup (7..10) => regs.ier = 0
    /\ next < 4 => thr = <<>>
    /\ next \in {4, 5} => Len(thr) = 1 /\ thr[1] = First
    /\ next \in 6..9 => Len(thr) = 2 /\ thr[1] = First /\ thr[2] = 12

(* With DLAB set all six go to the latch, and nothing goes out.            *)
WithDlab ==
  Dlab(entry) =>
    /\ regs.ier = entry.ier
    /\ next > 5 => regs.dll = 12
    /\ next > 6 => regs.dlh = 0
    /\ next < 10 => thr = <<>>

(* After the last write: what went out by mistake, then text.              *)
TextFollows ==
  next = 10 =>
    /\ Len(thr) >= Len(Stray)
    /\ \A i \in 1..Len(Stray) : thr[i] = Stray[i]
    /\ \A i \in (Len(Stray) + 1)..Len(thr) : thr[i] \in Text

IInv == TypeOK /\ LineControl /\ WithoutDlab /\ WithDlab /\ TextFollows

----------------------------------------------------------------------------
(* What the driver writes, in order.                                       *)
LEMMA ProgramWrites ==
  ASSUME TypeOK
  PROVE  LET p == Program(little)
         IN  /\ Len(p) = 9
             /\ p[1] = <<1, 0>> /\ p[2] = <<2, 128>> /\ p[3] = <<0, First>>
             /\ p[4] = <<1, Second>> /\ p[5] = <<0, 12>> /\ p[6] = <<1, 0>>
             /\ p[7] = <<3, 8>> /\ p[8] = <<2, 199>> /\ p[9] = <<4, 11>>
  BY DEF Program, First, Second, TypeOK

(* The bytes made of the divisor are bytes.                                *)
LEMMA DivisorBytes == First \in AByte /\ Second \in AByte
<1>1. Clock \div (Beaudrate * 16) \in Int
  <2>1. Clock \in Int /\ Beaudrate * 16 \in Nat \ {0}
    BY ClockAssumption
  <2> QED
    BY <2>1
<1>2. Divisor \in 0..65535
  <2>1. PICK q \in Int : q = Clock \div (Beaudrate * 16)
    BY <1>1
  <2>2. Divisor = q % 65536
    BY <2>1 DEF Divisor
  <2> QED
    BY <2>2
<1>3. LowByte \in AByte /\ HighByte \in AByte
  BY <1>2 DEF LowByte, HighByte, AByte
<1> QED
  BY <1>3 DEF First, Second

(* Initialisation is over after the ninth write.                           *)
LEMMA DoneAtTen == TypeOK => (Done <=> next = 10)
<1> SUFFICES ASSUME TypeOK PROVE Done <=> next = 10
  OBVIOUS
<1>1. Len(Program(little)) = 9
  BY ProgramWrites
<1>2. next \in 1..10
  BY DEF TypeOK
<1> QED
  BY <1>1, <1>2 DEF Done

(* What an address selects while DLAB is set, and while it is clear.       *)
LEMMA Selects ==
  ASSUME NEW r
  PROVE  /\ Selected(r, 0) = IF Dlab(r) THEN "dll" ELSE "thr"
         /\ Selected(r, 1) = IF Dlab(r) THEN "dlh" ELSE "ier"
         /\ Selected(r, 2) = "fcr" /\ Selected(r, 3) = "lcr"
         /\ Selected(r, 4) = "mcr"
  BY DEF Selected

(* After initialisation a byte goes to the holding register.               *)
LEMMA TextStep ==
  ASSUME IInv, NEW b \in Text, WriteByte(b)
  PROVE  IInv' /\ UNCHANGED regs
<1>1. next = 10 /\ UNCHANGED <<entry, little, next>>
  BY DoneAtTen DEF WriteByte, IInv
<1>2. ~Dlab(regs)
  BY <1>1 DEF Dlab, IInv, LineControl
<1>3. thr' = Append(thr, b) /\ UNCHANGED regs
  BY <1>2, Selects DEF WriteByte
<1>4. /\ thr \in Seq(AByte) /\ Len(thr) \in Nat /\ b \in AByte
      /\ thr' \in Seq(AByte) /\ Len(thr') = Len(thr) + 1
      /\ \A i \in 1..Len(thr) : thr'[i] = thr[i]
      /\ thr'[Len(thr) + 1] = b
  BY <1>3, EntriesAssumption, AppendProperties, LenProperties DEF IInv, TypeOK
<1>5. TypeOK' /\ LineControl' /\ WithoutDlab' /\ WithDlab'
  BY <1>1, <1>3, <1>4 DEF IInv, TypeOK, LineControl, WithoutDlab, WithDlab
<1>6. TextFollows'
  <2>1. Stray' = Stray /\ Len(Stray) \in {0, 2}
    BY <1>1 DEF Stray
  <2> QED
    BY <1>1, <1>4, <2>1 DEF IInv, TextFollows
<1> QED
  BY <1>3, <1>5, <1>6 DEF IInv

(* One write of initialisation, where the state at entry sends it.         *)
LEMMA WriteStep ==
  ASSUME IInv, WriteRegister
  PROVE  IInv'
<1> DEFINE w == Program(little)[next]
           s == Selected(regs, w[1])
<1>1. next \in 1..9 /\ next' = next + 1 /\ UNCHANGED <<entry, little>>
  BY DoneAtTen DEF WriteRegister, IInv, TypeOK
<1>2. \/ s = "thr" /\ thr' = Append(thr, w[2]) /\ UNCHANGED regs
      \/ s # "thr" /\ regs' = [regs EXCEPT ![s] = w[2]] /\ UNCHANGED thr
  BY DEF WriteRegister
<1> HIDE DEF w, s
<1>3. /\ entry \in Registers /\ regs \in Registers /\ thr \in Seq(AByte)
      /\ First \in AByte /\ Second \in AByte /\ First' = First
  BY <1>1, DivisorBytes DEF IInv, TypeOK, First
<1>4. Dlab(regs) <=> Dlab(entry) /\ next <= 7
  BY <1>1, <1>3 DEF Dlab, IInv, LineControl, Registers, AByte
<1>5. /\ next \in {1, 6} => w[2] = 0 /\ s = IF Dlab(entry) THEN "dlh" ELSE "ier"
      /\ next = 2 => w[2] = 128 /\ s = "fcr"
      /\ next = 3 => w[2] = First /\ s = IF Dlab(entry) THEN "dll" ELSE "thr"
      /\ next = 4 => w[2] = Second /\ s = IF Dlab(entry) THEN "dlh" ELSE "ier"
      /\ next = 5 => w[2] = 12 /\ s = IF Dlab(entry) THEN "dll" ELSE "thr"
      /\ next = 7 => w[2] = 8 /\ s = "lcr"
      /\ next = 8 => w[2] = 199 /\ s = "fcr"
      /\ next = 9 => w[2] = 11 /\ s = "mcr"
  <2>1. CASE next \in 1..4
    BY <1>4, <2>1, ProgramWrites, Selects DEF w, s, IInv
  <2>2. CASE next \in 5..9
    BY <1>4, <2>2, ProgramWrites, Selects DEF w, s, IInv
  <2> QED
    BY <1>1, <2>1, <2>2
<1>6. w[2] \in AByte
  <2>1. {0, 128, 12, 8, 199, 11} \subseteq AByte
    BY DEF AByte
  <2>2. w[2] \in {0, 128, 12, 8, 199, 11, First, Second}
    BY <1>1, <1>5
  <2> QED
    BY <1>3, <2>1, <2>2
<1>7. CASE s = "thr"
  <2>1. next \in {3, 5} /\ ~Dlab(entry) /\ thr' = Append(thr, w[2]) /\ UNCHANGED regs
    BY <1>1, <1>2, <1>5, <1>7
  <2>2. TypeOK'
    BY <1>1, <1>3, <1>6, <2>1, AppendProperties DEF IInv, TypeOK
  <2>3. LineControl' /\ WithDlab' /\ TextFollows'
    BY <1>1, <2>1 DEF IInv, LineControl, WithDlab, TextFollows
  <2>4. WithoutDlab'
    <3>1. /\ Len(thr') = Len(thr) + 1 /\ thr'[Len(thr) + 1] = w[2]
          /\ \A i \in 1..Len(thr) : thr'[i] = thr[i]
      BY <1>3, <1>6, <2>1, AppendProperties
    <3>2. CASE next = 3
      <4>1. Len(thr) = 0
        BY <2>1, <3>2 DEF IInv, WithoutDlab
      <4> QED
        BY <1>1, <1>3, <1>5, <2>1, <3>1, <3>2, <4>1 DEF IInv, WithoutDlab
    <3>3. CASE next = 5
      <4>1. Len(thr) = 1 /\ thr[1] = First
        BY <2>1, <3>3 DEF IInv, WithoutDlab
      <4>2. Len(thr') = 2 /\ thr'[1] = First /\ thr'[2] = 12
        BY <1>5, <2>1, <3>1, <3>3, <4>1
      <4>3. regs.dll = entry.dll /\ regs.dlh = entry.dlh
        BY <2>1 DEF IInv, WithoutDlab
      <4> QED
        BY <1>1, <1>3, <2>1, <3>3, <4>2, <4>3 DEF WithoutDlab
    <3> QED
      BY <2>1, <3>2, <3>3
  <2> QED
    BY <2>2, <2>3, <2>4 DEF IInv
<1>8. CASE s # "thr"
  <2>1. regs' = [regs EXCEPT ![s] = w[2]] /\ UNCHANGED thr
        /\ (next \in {3, 5} => Dlab(entry))
    BY <1>2, <1>5, <1>8
  <2>2. TypeOK'
    BY <1>1, <1>3, <1>5, <1>6, <2>1 DEF IInv, TypeOK, Registers
  <2>3. LineControl'
    BY <1>1, <1>3, <1>5, <2>1 DEF IInv, LineControl, Registers
  <2>4. WithoutDlab'
    BY <1>1, <1>3, <1>5, <2>1 DEF IInv, WithoutDlab, Registers
  <2>5. WithDlab'
    BY <1>1, <1>3, <1>5, <2>1 DEF IInv, WithDlab, Registers
  <2>6. TextFollows'
    <3> SUFFICES ASSUME next = 9
                 PROVE  TextFollows'
      BY <1>1 DEF TextFollows
    <3>1. Stray = IF Dlab(entry) THEN <<>> ELSE <<First, 12>>
      BY ProgramWrites DEF Stray, IInv
    <3>2. Stray' = Stray
      BY <1>1 DEF Stray
    <3>3. CASE Dlab(entry)
      <4>1. thr = <<>>
        BY <3>3 DEF IInv, WithDlab
      <4> QED
        BY <2>1, <3>1, <3>2, <3>3, <4>1 DEF TextFollows
    <3>4. CASE ~Dlab(entry)
      <4>1. Len(thr) = 2 /\ thr[1] = First /\ thr[2] = 12
        BY <3>4 DEF IInv, WithoutDlab
      <4> QED
        BY <2>1, <3>1, <3>2, <3>4, <4>1 DEF TextFollows
    <3> QED
      BY <3>3, <3>4
  <2> QED
    BY <2>2, <2>3, <2>4, <2>5, <2>6 DEF IInv
<1> QED
  BY <1>7, <1>8

----------------------------------------------------------------------------
(* At entry nothing has been written.                                      *)
LEMMA InitIInv == Init => IInv
  BY EntriesAssumption DEF Init, IInv, TypeOK, LineControl, WithoutDlab,
     WithDlab, TextFollows

(* Every write preserves the invariant, and one after initialisation goes  *)
(* to no register but the holding register.                                *)
LEMMA NextIInv == IInv /\ [Next]_vars => IInv' /\ [Done => UNCHANGED regs]_vars
<1>1. IInv /\ UNCHANGED vars => IInv'
  BY DEF vars, IInv, TypeOK, LineControl, WithoutDlab, WithDlab, TextFollows,
         First, Stray
<1>2. WriteRegister => ~Done
  BY DEF WriteRegister
<1> QED
  BY <1>1, <1>2, WriteStep, TextStep DEF Next

(* The console's bytes go to the holding register: see ConsoleReachesThr.  *)
THEOREM BytesReachThr == Spec => ConsoleReachesThr
  BY InitIInv, NextIInv, PTL DEF Spec, ConsoleReachesThr

(* Interrupts are off where DLAB was clear, unchanged where it was set:    *)
(* see InterruptsOff.                                                      *)
THEOREM InterruptsAreOff == Spec => []InterruptsOff
<1>1. IInv => InterruptsOff
  BY DoneAtTen DEF IInv, WithoutDlab, WithDlab, InterruptsOff
<1> QED
  BY InitIInv, NextIInv, <1>1, PTL DEF Spec

(* The speed is the firmware's or the fixed 12, and stray bytes go out     *)
(* before the text in the first case: see SpeedAfterInit.                  *)
THEOREM SpeedKnown == Spec => []SpeedAfterInit
<1>1. IInv => SpeedAfterInit
  <2> SUFFICES ASSUME IInv, next = 10
               PROVE  /\ <<regs.dlh, regs.dll>> = IF Dlab(entry) THEN <<0, 12>>
                                                  ELSE <<entry.dlh, entry.dll>>
                      /\ SubSeq(thr, 1, Len(Stray)) = Stray
    BY DoneAtTen DEF IInv, TextFollows, SpeedAfterInit
  <2>1. <<regs.dlh, regs.dll>> = IF Dlab(entry) THEN <<0, 12>>
                                 ELSE <<entry.dlh, entry.dll>>
    BY DEF IInv, WithDlab, WithoutDlab
  <2>2. Len(Stray) \in {0, 2} /\ Stray = [i \in 1..Len(Stray) |-> Stray[i]]
    BY DEF Stray
  <2>3. SubSeq(thr, 1, Len(Stray)) = [i \in 1..Len(Stray) |-> thr[i]]
    BY <2>2 DEF IInv, TypeOK, TextFollows
  <2> QED
    BY <2>1, <2>2, <2>3 DEF IInv, TextFollows
<1> QED
  BY InitIInv, NextIInv, <1>1, PTL DEF Spec
=============================================================================
