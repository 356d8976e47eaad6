-------------------------- MODULE PolledUartProofs --------------------------
(***************************************************************************)
(* Proofs about PolledUart, for every holding register or FIFO depth and   *)
(* every set of strings.                                                   *)
(***************************************************************************)
EXTENDS PolledUart, SequenceTheorems, WellFoundedInduction, TLAPS

(* What the poll established still holds when the byte is stored: only the *)
(* driver fills the register.                                              *)
EmptyAtStore == (driver \in Waiting /\ pc = "store") => thr = <<>>

IInv == TypeOK /\ EmptyAtStore /\ Lossless

----------------------------------------------------------------------------
(* The register and the bytes a store may leave in it keep their types.    *)
LEMMA StoreType ==
  ASSUME TypeOK, pc = "store"
  PROVE  /\ Head(str) \in Byte /\ Tail(str) \in Seq(Byte)
         /\ CR \in Byte /\ CrDue \in BOOLEAN
         /\ \A b \in Byte : \A t \in AfterStore(b) :
               t \in Seq(Byte) /\ Len(t) <= Depth
<1>1. /\ str \in Seq(Byte) /\ str # <<>> /\ thr \in Seq(Byte)
      /\ Len(thr) \in Nat /\ Len(thr) <= Depth
  BY LenProperties DEF TypeOK
<1>2. Head(str) \in Byte /\ Tail(str) \in Seq(Byte)
  BY <1>1, HeadTailProperties
<1>3. CR \in Byte
  BY ByteAssumption
<1>4. ASSUME NEW b \in Byte, NEW t \in AfterStore(b)
      PROVE  t \in Seq(Byte) /\ Len(t) <= Depth
  <2>1. CASE Len(thr) < Depth
    <3>1. t = Append(thr, b)
      BY <2>1 DEF AfterStore
    <3> QED
      BY <1>1, <2>1, <3>1, AppendProperties, DepthAssumption
  <2>2. CASE ~(Len(thr) < Depth)
    <3>1. Len(thr) \in 1..Len(thr)
      BY <1>1, <2>2, DepthAssumption
    <3>2. t = thr \/ t = [thr EXCEPT ![Len(thr)] = b]
      BY <2>2 DEF AfterStore
    <3> QED
      BY <1>1, <3>1, <3>2, ExceptSeq
  <2> QED
    BY <2>1, <2>2
<1>5. CrDue \in BOOLEAN
  BY DEF CrDue
<1> QED
  BY <1>2, <1>3, <1>4, <1>5

(* The driver's store.                                                     *)
LEMMA StoreStep ==
  ASSUME IInv, Store
  PROVE  IInv'
<1> DEFINE b == IF CrDue THEN CR ELSE Head(str)
<1>1. /\ pc = "store" /\ thr' \in AfterStore(b) /\ stored' = Append(stored, b)
      /\ cr' = CrDue
      /\ str' = IF CrDue THEN str ELSE Tail(str)
      /\ pc' = IF driver = "pdp11" THEN "drain"
               ELSE IF str' = <<>> THEN "idle" ELSE "poll"
      /\ UNCHANGED <<driver, tsr, rbr, wire, accepted>>
  BY DEF Store, AfterByte
<1>2. /\ Head(str) \in Byte /\ Tail(str) \in Seq(Byte)
      /\ CR \in Byte /\ CrDue \in BOOLEAN
  BY <1>1, StoreType DEF IInv
<1>3. b \in Byte
  BY <1>2
<1>4. thr' \in Seq(Byte) /\ Len(thr') <= Depth
  BY <1>1, <1>3, StoreType DEF IInv
<1>5. stored' \in Seq(Byte)
  BY <1>1, <1>3, AppendProperties DEF IInv, TypeOK
<1>6. TypeOK'
  <2>1. cr' \in BOOLEAN /\ rbr' \in BOOLEAN
    BY <1>1, <1>2 DEF IInv, TypeOK
  <2>2. str' \in Seq(Byte)
    BY <1>1, <1>2 DEF IInv, TypeOK
  <2>3. pc' \in {"idle", "drain", "poll"} /\ (pc' = "poll" => str' # <<>>)
    BY <1>1
  <2> QED
    BY <1>1, <1>4, <1>5, <2>1, <2>2, <2>3 DEF IInv, TypeOK
<1>7. EmptyAtStore'
  BY <1>1 DEF EmptyAtStore
<1>8. Lossless'
  <2> SUFFICES ASSUME driver \in Waiting PROVE stored' = wire \o tsr \o thr'
    BY <1>1 DEF Lossless
  <2>1. thr = <<>> /\ stored = wire \o tsr \o thr
    BY <1>1 DEF IInv, EmptyAtStore, Lossless
  <2>2. thr' = <<b>>
    <3>1. Len(thr) = 0
      BY <2>1
    <3>2. thr' = Append(thr, b)
      BY <1>1, <3>1, DepthAssumption DEF AfterStore
    <3> QED
      BY <2>1, <3>2
  <2>3. wire \o tsr \in Seq(Byte)
    BY ConcatProperties DEF IInv, TypeOK
  <2>4. stored = wire \o tsr
    BY <2>1, <2>3, ConcatEmptySeq
  <2> QED
    BY <1>1, <1>3, <2>2, <2>3, <2>4, AppendIsConcat
<1> QED
  BY <1>6, <1>7, <1>8 DEF IInv

(* The UART takes the oldest byte of the register.                         *)
LEMMA ShiftStep ==
  ASSUME IInv, Shift
  PROVE  IInv'
<1>1. /\ thr # <<>> /\ tsr = <<>>
      /\ tsr' = <<Head(thr)>> /\ thr' = Tail(thr)
      /\ UNCHANGED <<driver, pc, str, cr, rbr, wire, stored>>
  BY DEF Shift
<1>2. /\ thr \in Seq(Byte) /\ Len(thr) \in Nat /\ Len(thr) <= Depth
      /\ wire \in Seq(Byte)
  BY LenProperties DEF IInv, TypeOK
<1>3. /\ Head(thr) \in Byte /\ Tail(thr) \in Seq(Byte)
      /\ Len(Tail(thr)) = Len(thr) - 1
      /\ thr = <<Head(thr)>> \o Tail(thr)
  BY <1>1, <1>2, HeadTailProperties
<1>4. <<Head(thr)>> \in Seq(Byte) /\ Len(<<Head(thr)>>) = 1
  BY <1>3
<1>5. TypeOK'
  BY <1>1, <1>2, <1>3, <1>4, DepthAssumption DEF IInv, TypeOK
<1>6. EmptyAtStore'
  BY <1>1 DEF IInv, EmptyAtStore
<1>7. Lossless'
  <2>1. (wire \o <<>>) \o thr = (wire \o <<Head(thr)>>) \o Tail(thr)
    BY <1>2, <1>3, <1>4, ConcatAssociative, ConcatEmptySeq
  <2> QED
    BY <1>1, <2>1 DEF IInv, Lossless
<1> QED
  BY <1>5, <1>6, <1>7 DEF IInv

(* The byte in the shift register leaves.                                  *)
LEMMA SendStep ==
  ASSUME IInv, Send
  PROVE  IInv'
<1>1. /\ wire' = wire \o tsr /\ tsr' = <<>>
      /\ UNCHANGED <<driver, pc, str, cr, thr, rbr, stored>>
  BY DEF Send
<1>2. wire \o tsr \in Seq(Byte) /\ <<>> \in Seq(Byte) /\ Len(<<>>) <= 1
  BY ConcatProperties, EmptySeq DEF IInv, TypeOK
<1>3. TypeOK' /\ EmptyAtStore'
  BY <1>1, <1>2 DEF IInv, TypeOK, EmptyAtStore
<1>4. Lossless'
  BY <1>1, <1>2, ConcatEmptySeq DEF IInv, Lossless
<1> QED
  BY <1>3, <1>4 DEF IInv

(* Calls, polls and received bytes leave the transmit side alone.          *)
LEMMA OtherSteps ==
  ASSUME IInv, (\E s \in Strings : Call(s)) \/ Poll \/ PollTakesInput
               \/ Drain \/ Receive
  PROVE  IInv'
<1>1. UNCHANGED <<driver, thr, tsr, wire, stored>>
  BY DEF Call, Poll, PollTakesInput, Drain, Receive
<1>2. Lossless'
  BY <1>1 DEF IInv, Lossless
<1>3. ASSUME NEW s \in Strings, Call(s) PROVE TypeOK' /\ EmptyAtStore'
  <2>1. s \in Seq(Byte) /\ s # <<>>
    BY <1>3, StringsAssumption DEF Call
  <2> QED
    BY <1>1, <1>3, <2>1 DEF Call, IInv, TypeOK, EmptyAtStore
<1>4. CASE Poll
  <2>1. driver \in Waiting => thr = <<>>
    BY <1>4 DEF Poll, Ready, Waiting
  <2> QED
    BY <1>1, <1>2, <1>4, <2>1 DEF Poll, IInv, TypeOK, EmptyAtStore
<1>5. CASE PollTakesInput
  BY <1>2, <1>5 DEF PollTakesInput, IInv, TypeOK, EmptyAtStore
<1>6. CASE Drain
  BY <1>2, <1>6 DEF Drain, IInv, TypeOK, EmptyAtStore
<1>7. CASE Receive
  BY <1>2, <1>7 DEF Receive, IInv, TypeOK, EmptyAtStore
<1> QED
  BY <1>2, <1>3, <1>4, <1>5, <1>6, <1>7 DEF IInv

----------------------------------------------------------------------------
(* A byte the firmware left in the register is accounted for.              *)
LEMMA InitIInv == Init => IInv
<1> SUFFICES ASSUME Init PROVE IInv
  OBVIOUS
<1>1. /\ thr \in Seq(Byte) /\ Len(thr) \in {0, 1}
      /\ <<>> \in Seq(Byte) /\ Len(<<>>) = 0
  <2>1. <<>> \in Seq(Byte) /\ Len(<<>>) = 0
    BY EmptySeq
  <2>2. <<FW>> \in Seq(Byte) /\ Len(<<FW>>) = 1
    BY ByteAssumption
  <2>3. thr = <<>> \/ thr = <<FW>>
    BY DEF Init, Leftovers
  <2> QED
    BY <2>1, <2>2, <2>3
<1>2. cr \in BOOLEAN /\ rbr \in BOOLEAN
  BY Zenon DEF Init
<1>3. TypeOK
  <2>1. Len(thr) <= Depth /\ Len(tsr) <= 1
    <3>1. tsr = <<>>
      BY DEF Init
    <3> QED
      BY <1>1, <3>1, DepthAssumption
  <2>2. /\ str \in Seq(Byte) /\ tsr \in Seq(Byte)
        /\ wire \in Seq(Byte) /\ stored \in Seq(Byte)
    BY <1>1 DEF Init
  <2>3. driver \in Drivers /\ pc = "idle"
    BY DEF Init
  <2> QED
    BY <1>1, <1>2, <2>1, <2>2, <2>3 DEF TypeOK
<1>4. Lossless
  BY <1>1, ConcatEmptySeq DEF Init, Lossless
<1> QED
  BY <1>3, <1>4 DEF Init, IInv, EmptyAtStore

(* Every step of the driver and of the UART preserves the invariant.       *)
LEMMA NextIInv == IInv /\ [Next]_vars => IInv'
<1>1. IInv /\ UNCHANGED vars => IInv'
  BY DEF vars, IInv, TypeOK, EmptyAtStore, Lossless
<1> QED
  BY <1>1, StoreStep, ShiftStep, SendStep, OtherSteps DEF Next

(* The variables keep their types: no driver fills the register beyond its *)
(* depth.                                                                  *)
THEOREM TypeCorrect == Spec => []TypeOK
<1>1. IInv => TypeOK
  BY DEF IInv
<1> QED
  BY InitIInv, NextIInv, <1>1, PTL DEF Spec

(* A driver that waits for an empty register loses nothing, whatever the   *)
(* depth of the register and however the UART interleaves: see Lossless.   *)
THEOREM NothingLost == Spec => []Lossless
<1>1. IInv => Lossless
  BY DEF IInv
<1> QED
  BY InitIInv, NextIInv, <1>1, PTL DEF Spec

----------------------------------------------------------------------------
(* Recursive functions, by induction over the natural numbers.             *)

(* Induction: a set with 0 and the successor of each of its numbers.       *)
LEMMA Induction ==
  ASSUME NEW S, 0 \in S, \A n \in Nat : n \in S => n + 1 \in S
  PROVE  Nat \subseteq S
<1> SUFFICES ASSUME Nat \ S # {} PROVE FALSE
  OBVIOUS
<1> DEFINE Less == OpToRel(<, Nat)
<1>1. IsWellFoundedOn(Less, Nat)
  BY NatLessThanWellFounded
<1>2. PICK m \in Nat \ S : \A k \in Nat \ S : <<k, m>> \notin Less
  <2> HIDE DEF Less
  <2> QED
    BY <1>1, WFMin
<1>3. m # 0 /\ m - 1 \in Nat /\ (m - 1) + 1 = m
  OBVIOUS
<1>4. m - 1 \in Nat \ S
  BY <1>3
<1>5. <<m - 1, m>> \in Less
  <2>1. <<m - 1, m>> \in {p \in Nat \X Nat : p[1] < p[2]}
    BY <1>3
  <2> QED
    BY <2>1 DEF OpToRel
<1> HIDE DEF Less
<1> QED
  BY <1>2, <1>4, <1>5

(* A function is defined by its value at 0 and a step from each value to   *)
(* the next.                                                               *)
Recurrence(V, v, n, step) == v \in V /\ n \in Nat /\ step \in [1..n -> [V -> V]]
Solves(f, V, v, n, step) ==
  f \in [0..n -> V] /\ f[0] = v /\ \A i \in 1..n : f[i] = step[i][f[i - 1]]

(* Every recurrence has a solution, built up value by value.               *)
LEMMA Recursion ==
  ASSUME NEW V, NEW v, NEW n, NEW step, Recurrence(V, v, n, step)
  PROVE  \E f : Solves(f, V, v, n, step)
<1>0. v \in V /\ n \in Nat /\ step \in [1..n -> [V -> V]]
  BY DEF Recurrence
<1> DEFINE Def(m, f) == f[0] = v /\ \A i \in 1..m : f[i] = step[i][f[i - 1]]
           S == {m \in Nat : m <= n => \E f \in [0..m -> V] : Def(m, f)}
<1>1. 0 \in S
  <2>1. Def(0, [i \in 0..0 |-> v]) /\ [i \in 0..0 |-> v] \in [0..0 -> V]
    BY <1>0
  <2> QED
    BY <2>1
<1>2. ASSUME NEW m \in Nat, m \in S PROVE m + 1 \in S
  <2> SUFFICES ASSUME m + 1 <= n PROVE \E f \in [0..(m + 1) -> V] : Def(m + 1, f)
    OBVIOUS
  <2>1. PICK f \in [0..m -> V] : Def(m, f)
    BY <1>0, <1>2
  <2> DEFINE g == [i \in 0..(m + 1) |-> IF i = m + 1 THEN step[m + 1][f[m]] ELSE f[i]]
  <2>2. step[m + 1][f[m]] \in V
    BY <1>0
  <2>3. g \in [0..(m + 1) -> V]
    BY <2>2
  <2>4. Def(m + 1, g)
    BY <2>1
  <2> QED
    BY <2>3, <2>4
<1>3. n \in S
  <2> HIDE DEF S
  <2> QED
    BY <1>0, <1>1, <1>2, Induction
<1> QED
  BY <1>0, <1>3 DEF Solves

(* The bytes one byte of a string comes to.                                *)
ByteOnLine(d, c) == IF d = "serial_8250" /\ c = LF THEN <<CR, LF>> ELSE <<c>>

(* They are bytes.                                                         *)
LEMMA ByteOnLineType ==
  ASSUME NEW d, NEW c \in Byte
  PROVE  ByteOnLine(d, c) \in Seq(Byte)
<1>1. <<CR, LF>> \in Seq(Byte) /\ <<c>> \in Seq(Byte)
  BY ByteAssumption
<1> QED
  BY <1>1 DEF ByteOnLine

(* OnLine, byte by byte.                                                   *)
LEMMA OnLineSteps ==
  ASSUME NEW d, NEW s \in Seq(Byte)
  PROVE  \E f \in [0..Len(s) -> Seq(Byte)] :
           /\ f[0] = <<>>
           /\ \A i \in 1..Len(s) : f[i] = f[i - 1] \o ByteOnLine(d, s[i])
           /\ OnLine(d, s) = f[Len(s)]
<1> DEFINE n == Len(s)
           byte(i) == IF d = "serial_8250" /\ s[i] = LF THEN <<CR, LF>> ELSE <<s[i]>>
           step == [i \in 1..n |-> [b \in Seq(Byte) |-> b \o byte(i)]]
           Def(f) == f = [i \in 0..n |-> IF i = 0 THEN <<>> ELSE f[i - 1] \o byte(i)]
           upto == CHOOSE f : Def(f)
<1>1. n \in Nat /\ \A i \in 1..n : s[i] \in Byte
  BY LenProperties, ElementOfSeq
<1>2. \A i \in 1..n : byte(i) = ByteOnLine(d, s[i]) /\ byte(i) \in Seq(Byte)
  BY <1>1, ByteOnLineType DEF ByteOnLine
<1> HIDE DEF byte
<1>3. \E f \in [0..n -> Seq(Byte)] :
        f[0] = <<>> /\ \A i \in 1..n : f[i] = f[i - 1] \o byte(i)
  <2>1. \A i \in 1..n : \A b \in Seq(Byte) : b \o byte(i) \in Seq(Byte)
    BY <1>2, ConcatProperties
  <2>2. step \in [1..n -> [Seq(Byte) -> Seq(Byte)]]
    BY <2>1
  <2>3. <<>> \in Seq(Byte)
    BY EmptySeq
  <2>4. Recurrence(Seq(Byte), <<>>, n, step)
    BY <1>1, <2>2, <2>3 DEF Recurrence
  <2>5. PICK f : Solves(f, Seq(Byte), <<>>, n, step)
    BY <2>4, Recursion
  <2>6. /\ f \in [0..n -> Seq(Byte)]
        /\ f[0] = <<>> /\ \A i \in 1..n : f[i] = step[i][f[i - 1]]
    BY <2>5 DEF Solves
  <2>7. ASSUME NEW i \in 1..n PROVE f[i] = f[i - 1] \o byte(i)
    <3>1. i - 1 \in 0..n
      BY <1>1
    <3>2. f[i - 1] \in Seq(Byte)
      BY <3>1, <2>6
    <3>3. step[i][f[i - 1]] = f[i - 1] \o byte(i)
      BY <3>2
    <3> QED
      BY <2>6, <3>3
  <2> QED
    BY <2>6, <2>7
<1>4. PICK f \in [0..n -> Seq(Byte)] :
        f[0] = <<>> /\ \A i \in 1..n : f[i] = f[i - 1] \o byte(i)
  BY <1>3
<1> HIDE DEF n
<1>5. Def(f)
  <2>1. ASSUME NEW i \in 0..n
        PROVE  f[i] = IF i = 0 THEN <<>> ELSE f[i - 1] \o byte(i)
    <3>1. i = 0 \/ (i # 0 /\ i \in 1..n)
      BY <1>1
    <3> QED
      BY <1>4, <3>1
  <2> QED
    BY <2>1, <1>4
<1>6. Def(upto)
  <2> HIDE DEF Def
  <2> QED
    BY <1>5
<1>7. upto = f
  <2> HIDE DEF upto
  <2>1. upto[0] = <<>> /\ \A i \in 1..n : upto[i] = upto[i - 1] \o byte(i)
    <3>1. 0 \in 0..n /\ \A i \in 1..n : i \in 0..n /\ i # 0
      BY <1>1
    <3>2. \A i \in 0..n : upto[i] = IF i = 0 THEN <<>> ELSE upto[i - 1] \o byte(i)
      BY <1>6
    <3> QED
      BY <3>1, <3>2
  <2> DEFINE S == {m \in Nat : m <= n => upto[m] = f[m]}
  <2>2. 0 \in S
    BY <1>4, <2>1
  <2>3. ASSUME NEW m \in Nat, m \in S PROVE m + 1 \in S
    <3> SUFFICES ASSUME m + 1 <= n PROVE upto[m + 1] = f[m + 1]
      OBVIOUS
    <3>1. m + 1 \in 1..n /\ (m + 1) - 1 = m /\ upto[m] = f[m]
      BY <1>1, <2>3
    <3>2. upto[m + 1] = upto[(m + 1) - 1] \o byte(m + 1)
      BY <2>1, <3>1
    <3>3. f[m + 1] = f[(m + 1) - 1] \o byte(m + 1)
      BY <1>4, <3>1
    <3> QED
      BY <3>1, <3>2, <3>3
  <2>4. \A m \in 0..n : upto[m] = f[m]
    <3>1. Nat \subseteq S
      <4> HIDE DEF S
      <4> QED
        BY <2>2, <2>3, Induction
    <3> QED
      BY <1>1, <3>1
  <2>5. upto = [i \in 0..n |-> upto[i]]
    BY <1>6
  <2> QED
    BY <1>4, <2>4, <2>5
<1>8. OnLine(d, s) = upto[n]
  BY DEF OnLine, byte, n
<1> QED
  BY <1>2, <1>4, <1>7, <1>8 DEF n

(* Concatenation is associative.                                           *)
LEMMA Associative ==
  \A a, b, c \in Seq(Byte) : (a \o b) \o c = a \o (b \o c)
BY ConcatAssociative

(* OnLine from the front: the bytes of the head, then those of the tail.   *)
LEMMA OnLineHead ==
  ASSUME NEW d, NEW s \in Seq(Byte)
  PROVE  /\ OnLine(d, s) \in Seq(Byte)
         /\ s = <<>> => OnLine(d, s) = <<>>
         /\ s # <<>> =>
              OnLine(d, s) = ByteOnLine(d, Head(s)) \o OnLine(d, Tail(s))
<1>1. PICK f \in [0..Len(s) -> Seq(Byte)] :
        /\ f[0] = <<>>
        /\ \A i \in 1..Len(s) : f[i] = f[i - 1] \o ByteOnLine(d, s[i])
        /\ OnLine(d, s) = f[Len(s)]
  BY OnLineSteps
<1>2. Len(s) \in Nat
  BY LenProperties
<1>3. OnLine(d, s) \in Seq(Byte) /\ (s = <<>> => OnLine(d, s) = <<>>)
  <2>1. s = <<>> => Len(s) = 0
    BY EmptySeq
  <2> QED
    BY <1>1, <1>2, <2>1
<1>4. ASSUME s # <<>>
      PROVE  OnLine(d, s) = ByteOnLine(d, Head(s)) \o OnLine(d, Tail(s))
  <2> DEFINE t == Tail(s)
             b == ByteOnLine(d, Head(s))
  <2>1. /\ t \in Seq(Byte) /\ Len(t) = Len(s) - 1 /\ Len(s) # 0
        /\ Head(s) = s[1] /\ Head(s) \in Byte
        /\ \A i \in 1..Len(t) : t[i] = s[i + 1]
    BY <1>2, <1>4, HeadTailProperties, EmptySeq
  <2>2. PICK g \in [0..Len(t) -> Seq(Byte)] :
          /\ g[0] = <<>>
          /\ \A i \in 1..Len(t) : g[i] = g[i - 1] \o ByteOnLine(d, t[i])
          /\ OnLine(d, t) = g[Len(t)]
    BY <2>1, OnLineSteps
  <2>3. b \in Seq(Byte)
    BY <2>1, ByteOnLineType
  <2> HIDE DEF t, b
  <2> DEFINE S == {m \in Nat : m <= Len(t) => f[m + 1] = b \o g[m]}
  <2>4. 0 \in S
    <3>1. 1 \in 1..Len(s) /\ 1 - 1 = 0 /\ 0 + 1 = 1
      BY <1>2, <2>1
    <3>2. f[1] = f[0] \o ByteOnLine(d, s[1])
      BY <1>1, <3>1
    <3>3. f[1] = <<>> \o b
      BY <1>1, <2>1, <3>2 DEF b
    <3>4. <<>> \o b = b /\ b \o <<>> = b
      BY <2>3, ConcatEmptySeq
    <3>5. f[0 + 1] = b \o g[0]
      BY <2>2, <3>1, <3>3, <3>4
    <3> QED
      BY <3>5
  <2>5. ASSUME NEW m \in Nat, m \in S PROVE m + 1 \in S
    <3> SUFFICES ASSUME m + 1 <= Len(t) PROVE f[(m + 1) + 1] = b \o g[m + 1]
      OBVIOUS
    <3>1. /\ m + 1 \in 1..Len(t) /\ (m + 1) + 1 \in 1..Len(s)
          /\ (m + 1) - 1 = m /\ ((m + 1) + 1) - 1 = m + 1 /\ m \in 0..Len(t)
      BY <1>2, <2>1
    <3>2. f[(m + 1) + 1] = f[m + 1] \o ByteOnLine(d, s[(m + 1) + 1])
      BY <1>1, <3>1
    <3>3. g[m + 1] = g[m] \o ByteOnLine(d, t[m + 1]) /\ g[m] \in Seq(Byte)
      BY <2>2, <3>1
    <3>4. f[m + 1] = b \o g[m]
      BY <2>5, <3>1
    <3>5. t[m + 1] = s[(m + 1) + 1] /\ s[(m + 1) + 1] \in Byte
      BY <2>1, <3>1, ElementOfSeq
    <3>6. ByteOnLine(d, s[(m + 1) + 1]) \in Seq(Byte)
      BY <3>5, ByteOnLineType
    <3> DEFINE last == ByteOnLine(d, s[(m + 1) + 1])
    <3>7. (b \o g[m]) \o last = b \o (g[m] \o last)
      <4>1. b \in Seq(Byte) /\ g[m] \in Seq(Byte) /\ last \in Seq(Byte)
        BY <2>3, <3>3, <3>6
      <4> HIDE DEF last
      <4> QED
        BY <4>1, Associative, Zenon
    <3>8. g[m + 1] = g[m] \o last
      BY <3>3, <3>5
    <3> QED
      BY <3>2, <3>4, <3>7, <3>8
  <2>6. Len(t) \in S
    <3>1. Nat \subseteq S
      <4> HIDE DEF S
      <4> QED
        BY <2>4, <2>5, Induction
    <3>2. Len(t) \in Nat
      BY <2>1, LenProperties
    <3> QED
      BY <3>1, <3>2
  <2>7. f[Len(t) + 1] = b \o g[Len(t)] /\ Len(t) + 1 = Len(s)
    BY <1>2, <2>1, <2>6
  <2> QED
    BY <1>1, <2>2, <2>7 DEF t, b
<1> QED
  BY <1>3, <1>4

----------------------------------------------------------------------------
(* Some of a sequence, in its order.                                       *)

(* A sequence is what remains of another one when some of its bytes are    *)
(* left out.                                                               *)
Increasing(e, n) == \A k, l \in 1..n : k < l => e[k] < e[l]
Embeds(s, t) ==
  \E e \in [1..Len(s) -> 1..Len(t)] :
    Increasing(e, Len(s)) /\ \A k \in 1..Len(s) : s[k] = t[e[k]]

(* Leaving out nothing is leaving out some.                                *)
LEMMA EmbedsSame ==
  ASSUME NEW s \in Seq(Byte)
  PROVE  Embeds(s, s)
<1> DEFINE e == [k \in 1..Len(s) |-> k]
<1>1. e \in [1..Len(s) -> 1..Len(s)] /\ Increasing(e, Len(s))
  BY DEF Increasing
<1> QED
  BY <1>1 DEF Embeds

(* One byte more in the longer sequence: the shorter one may stay, take it *)
(* too, or take it in place of its last.                                   *)
LEMMA EmbedsAppend ==
  ASSUME NEW s \in Seq(Byte), NEW t \in Seq(Byte), NEW b \in Byte, Embeds(s, t)
  PROVE  /\ Embeds(s, Append(t, b))
         /\ Embeds(Append(s, b), Append(t, b))
         /\ Len(s) # 0 => Embeds([s EXCEPT ![Len(s)] = b], Append(t, b))
<1>1. PICK e \in [1..Len(s) -> 1..Len(t)] :
        Increasing(e, Len(s)) /\ \A k \in 1..Len(s) : s[k] = t[e[k]]
  BY DEF Embeds
<1>2. /\ Len(s) \in Nat /\ Len(t) \in Nat
      /\ Len(Append(t, b)) = Len(t) + 1 /\ Len(Append(s, b)) = Len(s) + 1
      /\ \A k \in 1..Len(t) : Append(t, b)[k] = t[k]
      /\ \A k \in 1..Len(s) : Append(s, b)[k] = s[k]
      /\ Append(t, b)[Len(t) + 1] = b /\ Append(s, b)[Len(s) + 1] = b
  BY LenProperties, AppendProperties
<1>3. Embeds(s, Append(t, b))
  <2>1. e \in [1..Len(s) -> 1..(Len(t) + 1)]
    BY <1>1, <1>2
  <2>2. \A k \in 1..Len(s) : s[k] = Append(t, b)[e[k]]
    BY <1>1, <1>2
  <2> QED
    BY <1>1, <1>2, <2>1, <2>2 DEF Embeds
<1>4. Embeds(Append(s, b), Append(t, b))
  <2> DEFINE g == [k \in 1..(Len(s) + 1) |-> IF k = Len(s) + 1 THEN Len(t) + 1 ELSE e[k]]
  <2>1. g \in [1..(Len(s) + 1) -> 1..(Len(t) + 1)]
    BY <1>1, <1>2
  <2>2. Increasing(g, Len(s) + 1)
    BY <1>1, <1>2 DEF Increasing
  <2>3. ASSUME NEW k \in 1..(Len(s) + 1) PROVE Append(s, b)[k] = Append(t, b)[g[k]]
    <3>1. CASE k = Len(s) + 1
      BY <1>2, <3>1
    <3>2. CASE k # Len(s) + 1
      <4>1. k \in 1..Len(s) /\ g[k] = e[k] /\ e[k] \in 1..Len(t)
        BY <1>1, <1>2, <3>2
      <4> QED
        BY <1>1, <1>2, <4>1
    <3> QED
      BY <3>1, <3>2
  <2> QED
    BY <1>2, <2>1, <2>2, <2>3 DEF Embeds
<1>5. ASSUME Len(s) # 0
      PROVE  Embeds([s EXCEPT ![Len(s)] = b], Append(t, b))
  <2> DEFINE r == [s EXCEPT ![Len(s)] = b]
             g == [k \in 1..Len(s) |-> IF k = Len(s) THEN Len(t) + 1 ELSE e[k]]
  <2>1. Len(s) \in 1..Len(s)
    BY <1>2, <1>5
  <2>2. r \in Seq(Byte) /\ Len(r) = Len(s)
    BY <2>1, ExceptSeq
  <2>3. /\ r[Len(s)] = b
        /\ \A k \in 1..Len(s) : k # Len(s) => r[k] = s[k]
    <3>1. DOMAIN s = 1..Len(s)
      BY LenProperties
    <3> QED
      BY <2>1, <3>1
  <2>4. g \in [1..Len(s) -> 1..(Len(t) + 1)]
    BY <1>1, <1>2
  <2>5. Increasing(g, Len(s))
    BY <1>1, <1>2, <2>1 DEF Increasing
  <2>6. ASSUME NEW k \in 1..Len(s) PROVE r[k] = Append(t, b)[g[k]]
    <3>1. CASE k = Len(s)
      BY <1>2, <2>1, <2>3, <3>1
    <3>2. CASE k # Len(s)
      <4>1. g[k] = e[k] /\ e[k] \in 1..Len(t) /\ r[k] = s[k]
        BY <1>1, <1>2, <2>3, <3>2
      <4> QED
        BY <1>1, <1>2, <4>1
    <3> QED
      BY <3>1, <3>2
  <2> HIDE DEF r, g
  <2>7. Embeds(r, Append(t, b))
    BY <1>2, <2>2, <2>4, <2>5, <2>6 DEF Embeds
  <2> QED
    BY <2>7 DEF r
<1> QED
  BY <1>3, <1>4, <1>5

(* What begins the one is embedded in what the other begins.               *)
LEMMA EmbedsParts ==
  ASSUME NEW s \in Seq(Byte), NEW t \in Seq(Byte), NEW u \in Seq(Byte),
         NEW v \in Seq(Byte), Embeds(s \o u, t)
  PROVE  Embeds(s, t \o v)
<1>1. /\ Len(s) \in Nat /\ Len(t) \in Nat /\ Len(u) \in Nat /\ Len(v) \in Nat
      /\ Len(s \o u) = Len(s) + Len(u) /\ Len(t \o v) = Len(t) + Len(v)
      /\ \A k \in 1..Len(s) : (s \o u)[k] = s[k]
      /\ \A k \in 1..Len(t) : (t \o v)[k] = t[k]
  <2>1. Len(s) \in Nat /\ Len(t) \in Nat /\ Len(u) \in Nat /\ Len(v) \in Nat
    BY LenProperties
  <2>2. /\ Len(s \o u) = Len(s) + Len(u)
        /\ \A k \in 1..Len(s) + Len(u) :
             (s \o u)[k] = IF k <= Len(s) THEN s[k] ELSE u[k - Len(s)]
    BY ConcatProperties
  <2>3. /\ Len(t \o v) = Len(t) + Len(v)
        /\ \A k \in 1..Len(t) + Len(v) :
             (t \o v)[k] = IF k <= Len(t) THEN t[k] ELSE v[k - Len(t)]
    BY ConcatProperties
  <2>4. /\ \A k \in 1..Len(s) : k \in 1..Len(s) + Len(u) /\ k <= Len(s)
        /\ \A k \in 1..Len(t) : k \in 1..Len(t) + Len(v) /\ k <= Len(t)
    BY <2>1
  <2> QED
    BY <2>1, <2>2, <2>3, <2>4
<1>2. PICK e \in [1..(Len(s) + Len(u)) -> 1..Len(t)] :
        /\ Increasing(e, Len(s) + Len(u))
        /\ \A k \in 1..(Len(s) + Len(u)) : (s \o u)[k] = t[e[k]]
  BY <1>1 DEF Embeds
<1> DEFINE g == [k \in 1..Len(s) |-> e[k]]
<1>3. g \in [1..Len(s) -> 1..Len(t \o v)]
  BY <1>1, <1>2
<1>4. Increasing(g, Len(s))
  BY <1>1, <1>2 DEF Increasing
<1>5. \A k \in 1..Len(s) : s[k] = (t \o v)[g[k]]
  <2> SUFFICES ASSUME NEW k \in 1..Len(s) PROVE s[k] = (t \o v)[g[k]]
    OBVIOUS
  <2>1. k \in 1..(Len(s) + Len(u)) /\ e[k] \in 1..Len(t) /\ g[k] = e[k]
    BY <1>1, <1>2
  <2> QED
    BY <1>1, <1>2, <2>1
<1> QED
  BY <1>3, <1>4, <1>5 DEF Embeds

(* InOrder of any two sequences.                                           *)
AllMatched(w, a) ==
  LET matched[j \in 0..Len(a)] ==
        IF j = 0 THEN 0
        ELSE LET k == matched[j - 1] IN
             IF k < Len(w) /\ w[k + 1] = a[j] THEN k + 1 ELSE k
  IN  matched[Len(a)] = Len(w)

(* The matching of InOrder, which takes every byte as early as it can,     *)
(* finds all of a wire that is embedded in what was asked for.             *)
LEMMA EarlyMatch ==
  ASSUME NEW w \in Seq(Byte), NEW a \in Seq(Byte), Embeds(w, a)
  PROVE  AllMatched(w, a)
<1> DEFINE n == Len(a)
           m == Len(w)
           next(j, k) == IF k < m /\ w[k + 1] = a[j] THEN k + 1 ELSE k
           Def(f) == f = [j \in 0..n |-> IF j = 0 THEN 0 ELSE next(j, f[j - 1])]
           matched == CHOOSE f : Def(f)
<1>1. n \in Nat /\ m \in Nat
  BY LenProperties
<1>2. \E e \in [1..m -> 1..n] :
        Increasing(e, m) /\ \A k \in 1..m : w[k] = a[e[k]]
  BY DEF Embeds
<1>3. AllMatched(w, a) = (matched[n] = m)
  BY DEF AllMatched
<1> HIDE DEF n, m
<1>4. \A j \in 1..n : \A k \in 0..m : next(j, k) \in 0..m
  BY <1>1
<1>5. \E f \in [0..n -> 0..m] : Def(f)
  <2> DEFINE step == [j \in 1..n |-> [k \in 0..m |-> next(j, k)]]
  <2>1. step \in [1..n -> [0..m -> 0..m]] /\ 0 \in 0..m
    <3> HIDE DEF next
    <3> QED
      BY <1>1, <1>4
  <2> HIDE DEF step
  <2>2. PICK f : Solves(f, 0..m, 0, n, step)
    <3>1. Recurrence(0..m, 0, n, step)
      BY <1>1, <2>1 DEF Recurrence
    <3> QED
      BY <3>1, Recursion
  <2> HIDE DEF next
  <2>3. /\ f \in [0..n -> 0..m] /\ f[0] = 0
        /\ \A j \in 1..n : f[j] = step[j][f[j - 1]]
    BY <2>2 DEF Solves
  <2>4. ASSUME NEW j \in 0..n
        PROVE  f[j] = IF j = 0 THEN 0 ELSE next(j, f[j - 1])
    <3>1. j = 0 \/ (j # 0 /\ j \in 1..n /\ j - 1 \in 0..n)
      BY <1>1
    <3>2. j # 0 => f[j - 1] \in 0..m
      BY <2>3, <3>1
    <3>3. j # 0 => step[j][f[j - 1]] = next(j, f[j - 1])
      BY <3>1, <3>2 DEF step
    <3> QED
      BY <2>3, <3>1, <3>3
  <2>5. Def(f)
    BY <2>3, <2>4
  <2> QED
    BY <2>3, <2>5
<1>6. Def(matched)
  <2> HIDE DEF Def
  <2> QED
    BY <1>5
<1>7. matched[0] = 0 /\ \A j \in 1..n : matched[j] = next(j, matched[j - 1])
  <2> HIDE DEF matched, next
  <2>1. 0 \in 0..n /\ \A j \in 1..n : j \in 0..n /\ j # 0
    BY <1>1
  <2>2. \A j \in 0..n : matched[j] = IF j = 0 THEN 0 ELSE next(j, matched[j - 1])
    BY <1>6
  <2> QED
    BY <2>1, <2>2
<1> HIDE DEF matched
<1>8. PICK e \in [1..m -> 1..n] :
        Increasing(e, m) /\ \A k \in 1..m : w[k] = a[e[k]]
  BY <1>2
<1> DEFINE S == {j \in Nat : j <= n =>
                   /\ matched[j] \in 0..m
                   /\ \A k \in 1..m : e[k] <= j => matched[j] >= k}
<1>9. 0 \in S
  <2>1. \A k \in 1..m : ~(e[k] <= 0)
    BY <1>1, <1>8
  <2> QED
    BY <1>1, <1>7, <2>1
<1>10. ASSUME NEW j \in Nat, j \in S PROVE j + 1 \in S
  <2> SUFFICES ASSUME j + 1 <= n
               PROVE  /\ matched[j + 1] \in 0..m
                      /\ \A k \in 1..m : e[k] <= j + 1 => matched[j + 1] >= k
    OBVIOUS
  <2>1. j + 1 \in 1..n /\ (j + 1) - 1 = j /\ j <= n
    BY <1>1
  <2>2. /\ matched[j] \in 0..m
        /\ \A k \in 1..m : e[k] <= j => matched[j] >= k
    BY <1>10, <2>1
  <2>3. matched[j + 1] = next(j + 1, matched[j])
    <3> HIDE DEF next
    <3> QED
      BY <1>7, <2>1
  <2>4. matched[j + 1] \in 0..m /\ matched[j + 1] >= matched[j]
    BY <1>1, <2>2, <2>3
  <2>5. ASSUME NEW k \in 1..m, e[k] <= j + 1 PROVE matched[j + 1] >= k
    <3>1. CASE e[k] <= j
      BY <1>1, <2>2, <2>4, <3>1
    <3>2. CASE ~(e[k] <= j)
      <4>1. e[k] = j + 1 /\ w[k] = a[j + 1]
        BY <1>1, <1>8, <2>5, <3>2
      <4>2. matched[j] >= k - 1
        <5>1. CASE k = 1
          BY <2>2, <5>1
        <5>2. CASE k # 1
          <6>1. k - 1 \in 1..m /\ k - 1 < k
            BY <1>1, <5>2
          <6>2. e[k - 1] < e[k]
            BY <1>8, <6>1 DEF Increasing
          <6>3. e[k - 1] <= j
            BY <1>1, <1>8, <4>1, <6>1, <6>2
          <6> QED
            BY <2>2, <6>1, <6>3
        <5> QED
          BY <5>1, <5>2
      <4>3. CASE matched[j] >= k
        BY <1>1, <2>2, <2>4, <4>3
      <4>4. CASE ~(matched[j] >= k)
        <5>1. matched[j] = k - 1 /\ (k - 1) + 1 = k /\ k - 1 < m
          BY <1>1, <2>2, <4>2, <4>4
        <5>2. matched[j + 1] = k
          BY <2>3, <4>1, <5>1
        <5> QED
          BY <5>2
      <4> QED
        BY <4>3, <4>4
    <3> QED
      BY <3>1, <3>2
  <2> QED
    BY <2>4, <2>5
<1>11. n \in S
  <2>1. Nat \subseteq S
    <3> HIDE DEF S
    <3> QED
      BY <1>9, <1>10, Induction
  <2> QED
    BY <1>1, <2>1
<1>12. matched[n] = m
  <2>1. /\ matched[n] \in 0..m
        /\ \A k \in 1..m : e[k] <= n => matched[n] >= k
    BY <1>1, <1>11
  <2>2. m # 0 => m \in 1..m /\ e[m] <= n
    BY <1>1, <1>8
  <2> QED
    BY <1>1, <2>1, <2>2
<1> QED
  BY <1>3, <1>12

----------------------------------------------------------------------------
(* What was asked for, what was stored and what is on its way.             *)

(* The bytes of the call in progress that have still to be stored.         *)
Pending ==
  IF cr THEN <<LF>> \o OnLine(driver, Tail(str)) ELSE OnLine(driver, str)

(* A carriage return that is out is followed by the line feed it is for.   *)
CrMarks ==
  cr => /\ driver = "serial_8250" /\ pc \in {"poll", "store"}
        /\ str # <<>> /\ Head(str) = LF

IdleAtEnd == pc = "idle" => str = <<>>

Accounted == accepted \in Seq(Byte) /\ accepted = stored \o Pending

(* What is in the UART or has left it.                                     *)
Kept == wire \o (tsr \o thr)

(* Bytes may be lost at a full register, but not swapped or repeated.      *)
KeptOfStored == Embeds(Kept, stored)

OrderInv == CrMarks /\ IdleAtEnd /\ Accounted /\ KeptOfStored

(* The bytes still to be stored begin with the one the driver stores.      *)
LEMMA StoreTakesPending ==
  ASSUME IInv, OrderInv, Store
  PROVE  LET b == IF CrDue THEN CR ELSE Head(str)
         IN  /\ b \in Byte /\ <<b>> \in Seq(Byte)
             /\ Pending' \in Seq(Byte) /\ Pending = <<b>> \o Pending'
             /\ CrMarks'
<1> DEFINE b == IF CrDue THEN CR ELSE Head(str)
           rest == OnLine(driver, Tail(str))
<1>1. /\ pc = "store" /\ cr' = CrDue /\ driver' = driver
      /\ str' = IF CrDue THEN str ELSE Tail(str)
      /\ pc' = IF driver = "pdp11" THEN "drain"
               ELSE IF str' = <<>> THEN "idle" ELSE "poll"
  BY DEF Store, AfterByte
<1>2. /\ str \in Seq(Byte) /\ str # <<>> /\ Head(str) \in Byte
      /\ Tail(str) \in Seq(Byte) /\ CR \in Byte /\ LF \in Byte
  BY <1>1, StoreType, ByteAssumption DEF IInv, TypeOK
<1>3. /\ rest \in Seq(Byte)
      /\ OnLine(driver, str) = ByteOnLine(driver, Head(str)) \o rest
  BY <1>2, OnLineHead
<1>4. b \in Byte /\ <<b>> \in Seq(Byte) /\ <<LF>> \in Seq(Byte)
  BY <1>2
<1>5. CASE CrDue
  <2>1. driver = "serial_8250" /\ Head(str) = LF /\ ~cr /\ b = CR
    BY <1>5 DEF CrDue
  <2>2. Pending = <<CR, LF>> \o rest
    BY <1>3, <2>1 DEF Pending, ByteOnLine
  <2>3. Pending' = <<LF>> \o rest
    BY <1>1, <1>5 DEF Pending
  <2>4. <<CR, LF>> = <<b>> \o <<LF>>
    BY <2>1
  <2>5. (<<b>> \o <<LF>>) \o rest = <<b>> \o (<<LF>> \o rest)
    BY <1>3, <1>4, Associative
  <2>6. <<LF>> \o rest \in Seq(Byte)
    BY <1>3, <1>4, ConcatProperties
  <2>7. CrMarks'
    BY <1>1, <1>2, <1>5, <2>1 DEF CrMarks
  <2> QED
    BY <1>4, <2>2, <2>3, <2>4, <2>5, <2>6, <2>7
<1>6. CASE ~CrDue
  <2>1. ~cr' /\ str' = Tail(str) /\ b = Head(str)
    BY <1>1, <1>6
  <2>2. Pending' = rest
    BY <1>1, <2>1 DEF Pending
  <2>3. Pending = <<b>> \o rest
    <3>1. CASE cr
      BY <2>1, <3>1 DEF Pending, OrderInv, CrMarks
    <3>2. CASE ~cr
      <4>1. ByteOnLine(driver, Head(str)) = <<b>>
        BY <1>6, <2>1, <3>2 DEF CrDue, ByteOnLine
      <4> QED
        BY <1>3, <3>2, <4>1 DEF Pending
    <3> QED
      BY <3>1, <3>2
  <2>4. CrMarks'
    BY <2>1 DEF CrMarks
  <2> QED
    BY <1>3, <1>4, <2>2, <2>3, <2>4
<1> QED
  BY <1>5, <1>6

(* What a store does to what is kept.                                      *)
LEMMA StoreKeeps ==
  ASSUME IInv, Store
  PROVE  LET b == IF CrDue THEN CR ELSE Head(str)
         IN  \/ Kept' = Append(Kept, b)
             \/ Kept' = Kept
             \/ Len(Kept) # 0 /\ Kept' = [Kept EXCEPT ![Len(Kept)] = b]
<1> DEFINE b == IF CrDue THEN CR ELSE Head(str)
           head == wire \o tsr
<1>1. /\ pc = "store" /\ thr' \in AfterStore(b) /\ UNCHANGED <<wire, tsr>>
  BY DEF Store
<1>2. b \in Byte
  BY <1>1, StoreType DEF IInv
<1>3. /\ wire \in Seq(Byte) /\ tsr \in Seq(Byte) /\ thr \in Seq(Byte)
      /\ head \in Seq(Byte) /\ Len(thr) \in Nat /\ Len(head) \in Nat
      /\ <<b>> \in Seq(Byte)
  BY <1>2, ConcatProperties, LenProperties DEF IInv, TypeOK
<1>4. \A t \in Seq(Byte) : wire \o (tsr \o t) = head \o t
  BY <1>3, Associative
<1>5. CASE thr' = Append(thr, b)
  <2>1. thr' = thr \o <<b>> /\ thr' \in Seq(Byte) /\ head \o thr \in Seq(Byte)
    BY <1>2, <1>3, <1>5, AppendIsConcat, AppendProperties, ConcatProperties
  <2>2. head \o (thr \o <<b>>) = (head \o thr) \o <<b>>
    BY <1>3, Associative
  <2>3. (head \o thr) \o <<b>> = Append(head \o thr, b)
    BY <1>2, <2>1, AppendIsConcat
  <2>4. Kept = head \o thr /\ Kept' = head \o thr'
    BY <1>1, <1>3, <1>4, <2>1 DEF Kept
  <2> QED
    BY <2>1, <2>2, <2>3, <2>4
<1>6. CASE thr' = thr
  BY <1>1, <1>6 DEF Kept
<1>7. CASE ~(Len(thr) < Depth) /\ thr' = [thr EXCEPT ![Len(thr)] = b]
  <2>1. Len(thr) \in 1..Len(thr)
    BY <1>3, <1>7, DepthAssumption
  <2>2. /\ thr' \in Seq(Byte) /\ Len(thr') = Len(thr)
        /\ thr'[Len(thr)] = b /\ \A k \in 1..Len(thr) : k # Len(thr) => thr'[k] = thr[k]
    <3>1. DOMAIN thr = 1..Len(thr)
      BY <1>3, LenProperties
    <3>2. thr' \in Seq(Byte) /\ Len(thr') = Len(thr)
      BY <1>2, <1>3, <1>7, <2>1, ExceptSeq
    <3>3. thr' = [k \in 1..Len(thr) |-> IF k = Len(thr) THEN b ELSE thr[k]]
      BY <1>7, <3>1
    <3> QED
      BY <2>1, <3>2, <3>3
  <2>3. Kept = head \o thr /\ Kept' = head \o thr'
    BY <1>1, <1>3, <1>4, <2>2 DEF Kept
  <2>4. /\ head \o thr \in Seq(Byte) /\ Len(head \o thr) = Len(head) + Len(thr)
        /\ \A k \in 1..Len(head) + Len(thr) :
             (head \o thr)[k] = IF k <= Len(head) THEN head[k] ELSE thr[k - Len(head)]
    BY <1>3, ConcatProperties
  <2>5. /\ head \o thr' \in Seq(Byte) /\ Len(head \o thr') = Len(head) + Len(thr')
        /\ \A k \in 1..Len(head) + Len(thr') :
             (head \o thr')[k] = IF k <= Len(head) THEN head[k] ELSE thr'[k - Len(head)]
    <3>1. ASSUME NEW t \in Seq(Byte)
          PROVE  /\ head \o t \in Seq(Byte) /\ Len(head \o t) = Len(head) + Len(t)
                 /\ \A k \in 1..Len(head) + Len(t) :
                      (head \o t)[k] = IF k <= Len(head) THEN head[k] ELSE t[k - Len(head)]
      BY <1>3, ConcatProperties
    <3> HIDE DEF head
    <3> QED
      BY <2>2, <3>1
  <2> DEFINE n == Len(head) + Len(thr)
             last == [head \o thr EXCEPT ![n] = b]
  <2>6. n \in 1..Len(head \o thr)
    BY <1>3, <2>1, <2>4
  <2>7. last \in Seq(Byte) /\ Len(last) = n
    BY <1>2, <2>4, <2>6, ExceptSeq
  <2>8. \A k \in 1..n : last[k] = IF k = n THEN b ELSE (head \o thr)[k]
    <3>1. DOMAIN (head \o thr) = 1..n
      BY <2>4, LenProperties
    <3> QED
      BY <3>1
  <2>9. ASSUME NEW k \in 1..n PROVE (head \o thr')[k] = last[k]
    <3>1. CASE k <= Len(head)
      <4>1. k # n
        BY <1>3, <2>1, <3>1
      <4> QED
        BY <2>2, <2>4, <2>5, <2>8, <3>1, <4>1
    <3>2. CASE ~(k <= Len(head))
      <4>1. k - Len(head) \in 1..Len(thr) /\ (k - Len(head) = Len(thr) <=> k = n)
        BY <1>3, <2>1, <3>2
      <4>2. (head \o thr')[k] = thr'[k - Len(head)] /\ (head \o thr)[k] = thr[k - Len(head)]
        BY <2>2, <2>4, <2>5, <3>2
      <4> QED
        BY <2>2, <2>8, <4>1, <4>2
    <3> QED
      BY <3>1, <3>2
  <2>10. head \o thr' = last
    <3> HIDE DEF last
    <3> QED
      BY <2>2, <2>5, <2>7, <2>9, SeqEqual
  <2> QED
    BY <1>3, <2>1, <2>3, <2>4, <2>10
<1> QED
  BY <1>1, <1>5, <1>6, <1>7 DEF AfterStore

(* When the kernel starts, what the firmware left is all there is to       *)
(* account for.                                                            *)
LEMMA InitOrder ==
  ASSUME Init
  PROVE  OrderInv
<1>1. /\ pc = "idle" /\ str = <<>> /\ ~cr /\ tsr = <<>> /\ wire = <<>>
      /\ stored = thr /\ accepted = thr
  BY DEF Init
<1>2. thr \in Seq(Byte) /\ <<>> \in Seq(Byte)
  BY InitIInv, EmptySeq DEF IInv, TypeOK
<1>3. Pending = <<>>
  BY <1>1, <1>2, OnLineHead DEF Pending
<1>4. Kept = thr /\ thr \o <<>> = thr
  BY <1>1, <1>2, ConcatEmptySeq DEF Kept
<1> QED
  BY <1>1, <1>2, <1>3, <1>4, EmbedsSame
     DEF OrderInv, CrMarks, IdleAtEnd, Accounted, KeptOfStored

(* Each step keeps the account of the bytes.                               *)
LEMMA NextOrder ==
  ASSUME IInv, OrderInv, [Next]_vars
  PROVE  OrderInv'
<1>1. /\ stored \in Seq(Byte) /\ wire \in Seq(Byte) /\ tsr \in Seq(Byte)
      /\ thr \in Seq(Byte) /\ accepted \in Seq(Byte)
      /\ tsr \o thr \in Seq(Byte) /\ Kept \in Seq(Byte)
  BY ConcatProperties DEF IInv, TypeOK, OrderInv, Accounted, Kept
<1>2. UNCHANGED <<driver, str, cr>> => Pending' = Pending
  BY DEF Pending
<1>3. CASE Store
  <2> DEFINE b == IF CrDue THEN CR ELSE Head(str)
  <2>1. /\ b \in Byte /\ <<b>> \in Seq(Byte)
        /\ Pending' \in Seq(Byte) /\ Pending = <<b>> \o Pending'
        /\ CrMarks'
    BY <1>3, StoreTakesPending
  <2>2. /\ stored' = Append(stored, b) /\ accepted' = accepted
        /\ pc' = "idle" => str' = <<>>
    BY <1>3 DEF Store, AfterByte
  <2>3. Kept' = Append(Kept, b) \/ Kept' = Kept
          \/ (Len(Kept) # 0 /\ Kept' = [Kept EXCEPT ![Len(Kept)] = b])
    BY <1>3, StoreKeeps
  <2> HIDE DEF b
  <2>4. Accounted'
    <3>1. stored' = stored \o <<b>>
      BY <1>1, <2>1, <2>2, AppendIsConcat
    <3>2. (stored \o <<b>>) \o Pending' = stored \o (<<b>> \o Pending')
      BY <1>1, <2>1, Associative
    <3> QED
      BY <1>1, <2>1, <2>2, <3>1, <3>2 DEF OrderInv, Accounted
  <2>5. KeptOfStored'
    <3>1. Embeds(Kept, stored)
      BY DEF OrderInv, KeptOfStored
    <3>2. /\ Embeds(Kept, Append(stored, b))
          /\ Embeds(Append(Kept, b), Append(stored, b))
          /\ Len(Kept) # 0 =>
               Embeds([Kept EXCEPT ![Len(Kept)] = b], Append(stored, b))
      BY <1>1, <2>1, <3>1, EmbedsAppend
    <3>3. Embeds(Kept', stored')
      BY <2>2, <2>3, <3>2
    <3> QED
      BY <3>3 DEF KeptOfStored
  <2> QED
    BY <2>1, <2>2, <2>4, <2>5 DEF OrderInv, IdleAtEnd
<1>4. ASSUME NEW s \in Strings, Call(s) PROVE OrderInv'
  <2>1. /\ pc = "idle" /\ s # <<>> /\ pc' = "poll" /\ str' = s
        /\ accepted' = accepted \o OnLine(driver, s)
        /\ UNCHANGED <<driver, cr, thr, tsr, rbr, wire, stored>>
    BY <1>4 DEF Call
  <2>2. str = <<>> /\ ~cr
    BY <2>1 DEF OrderInv, IdleAtEnd, CrMarks
  <2>3. Pending = <<>>
    <3>1. <<>> \in Seq(Byte)
      BY EmptySeq
    <3> QED
      BY <2>2, <3>1, OnLineHead DEF Pending
  <2>4. accepted = stored
    BY <1>1, <2>3, ConcatEmptySeq DEF OrderInv, Accounted
  <2>5. Pending' = OnLine(driver, s) /\ OnLine(driver, s) \in Seq(Byte)
    BY <2>1, <2>2, OnLineHead, StringsAssumption DEF Pending
  <2>6. Accounted'
    BY <1>1, <2>1, <2>4, <2>5, ConcatProperties DEF Accounted
  <2>7. CrMarks' /\ IdleAtEnd'
    BY <2>1, <2>2 DEF CrMarks, IdleAtEnd
  <2>8. Kept' = Kept /\ stored' = stored
    BY <2>1 DEF Kept
  <2> QED
    BY <2>6, <2>7, <2>8 DEF OrderInv, KeptOfStored
<1>5. CASE Poll
  <2>1. /\ pc = "poll" /\ pc' = "store"
        /\ UNCHANGED <<driver, str, cr, thr, tsr, wire, stored, accepted>>
    BY <1>5 DEF Poll
  <2>2. Kept' = Kept /\ Pending' = Pending
    BY <1>2, <2>1 DEF Kept
  <2> QED
    BY <2>1, <2>2 DEF OrderInv, CrMarks, IdleAtEnd, Accounted, KeptOfStored
<1>6. CASE Drain
  <2>1. /\ pc = "drain" /\ pc' = IF str = <<>> THEN "idle" ELSE "poll"
        /\ UNCHANGED <<driver, str, cr, thr, tsr, wire, stored, accepted>>
    BY <1>6 DEF Drain
  <2>2. Kept' = Kept /\ Pending' = Pending
    BY <1>2, <2>1 DEF Kept
  <2> QED
    BY <2>1, <2>2 DEF OrderInv, CrMarks, IdleAtEnd, Accounted, KeptOfStored
<1>7. CASE Shift
  <2>1. /\ thr # <<>> /\ tsr = <<>> /\ tsr' = <<Head(thr)>> /\ thr' = Tail(thr)
        /\ UNCHANGED <<driver, pc, str, cr, wire, stored, accepted>>
    BY <1>7 DEF Shift
  <2>2. <<>> \o thr = thr /\ <<Head(thr)>> \o Tail(thr) = thr
    BY <1>1, <2>1, ConcatEmptySeq, HeadTailProperties
  <2>3. Kept' = Kept /\ Pending' = Pending
    BY <1>2, <2>1, <2>2 DEF Kept
  <2> QED
    BY <2>1, <2>3 DEF OrderInv, CrMarks, IdleAtEnd, Accounted, KeptOfStored
<1>8. CASE Send
  <2>1. /\ wire' = wire \o tsr /\ tsr' = <<>>
        /\ UNCHANGED <<driver, pc, str, cr, thr, stored, accepted>>
    BY <1>8 DEF Send
  <2>2. <<>> \o thr = thr /\ (wire \o tsr) \o thr = wire \o (tsr \o thr)
    BY <1>1, ConcatEmptySeq, Associative
  <2>3. Kept' = Kept /\ Pending' = Pending
    BY <1>2, <2>1, <2>2 DEF Kept
  <2> QED
    BY <2>1, <2>3 DEF OrderInv, CrMarks, IdleAtEnd, Accounted, KeptOfStored
<1>9. CASE PollTakesInput \/ Receive \/ UNCHANGED vars
  <2>1. UNCHANGED <<driver, pc, str, cr, thr, tsr, wire, stored, accepted>>
    BY <1>9 DEF PollTakesInput, Receive, vars
  <2>2. Kept' = Kept /\ Pending' = Pending
    BY <1>2, <2>1 DEF Kept
  <2> QED
    BY <2>1, <2>2 DEF OrderInv, CrMarks, IdleAtEnd, Accounted, KeptOfStored
<1> QED
  BY <1>3, <1>4, <1>5, <1>6, <1>7, <1>8, <1>9 DEF Next

(* So the account balances in every state the kernel reaches.              *)
LEMMA Account == Spec => [](IInv /\ OrderInv)
<1>1. Init => IInv /\ OrderInv
  BY InitIInv, InitOrder
<1>2. IInv /\ OrderInv /\ [Next]_vars => IInv' /\ OrderInv'
  BY NextIInv, NextOrder
<1> QED
  BY <1>1, <1>2, PTL DEF Spec

(* What is still to be stored is a sequence of bytes.                      *)
LEMMA PendingType ==
  ASSUME IInv, OrderInv
  PROVE  Pending \in Seq(Byte)
<1>1. /\ OnLine(driver, str) \in Seq(Byte)
      /\ str # <<>> => OnLine(driver, Tail(str)) \in Seq(Byte)
  BY OnLineHead, HeadTailProperties DEF IInv, TypeOK
<1>2. <<LF>> \in Seq(Byte) /\ (cr => str # <<>>)
  BY ByteAssumption DEF OrderInv, CrMarks
<1> QED
  BY <1>1, <1>2, ConcatProperties DEF Pending

(* Whichever driver runs, what leaves the UART is some of the bytes asked  *)
(* for, in order and each once: see InOrder.                               *)
THEOREM SentInOrder == Spec => []InOrder
<1>1. IInv /\ OrderInv => InOrder
  <2> SUFFICES ASSUME IInv, OrderInv PROVE InOrder
    OBVIOUS
  <2>1. /\ stored \in Seq(Byte) /\ wire \in Seq(Byte) /\ accepted \in Seq(Byte)
        /\ tsr \o thr \in Seq(Byte)
    BY ConcatProperties DEF IInv, TypeOK, OrderInv, Accounted
  <2>2. Pending \in Seq(Byte)
    BY PendingType
  <2>3. Embeds(wire \o (tsr \o thr), stored)
    BY DEF OrderInv, KeptOfStored, Kept
  <2>4. Embeds(wire, stored \o Pending)
    BY <2>1, <2>2, <2>3, EmbedsParts
  <2>5. Embeds(wire, accepted)
    BY <2>4 DEF OrderInv, Accounted
  <2>6. AllMatched(wire, accepted)
    BY <2>1, <2>5, EarlyMatch
  <2> QED
    BY <2>6 DEF InOrder, AllMatched
<1> QED
  BY <1>1, Account, PTL

(* The next byte to leave a UART that lost nothing is the next one asked   *)
(* for.                                                                    *)
LEMMA SendEmits ==
  ASSUME IInv, OrderInv, Send, driver \in Waiting
  PROVE  Line!Emit
<1>1. /\ tsr # <<>> /\ wire' = wire \o tsr
      /\ UNCHANGED <<driver, accepted>>
  BY DEF Send
<1>2. /\ stored \in Seq(Byte) /\ wire \in Seq(Byte) /\ tsr \in Seq(Byte)
      /\ thr \in Seq(Byte) /\ accepted \in Seq(Byte) /\ Pending \in Seq(Byte)
      /\ Len(wire) \in Nat /\ Len(accepted) \in Nat
  BY LenProperties, PendingType DEF IInv, TypeOK, OrderInv, Accounted
<1>3. PICK c \in Byte : tsr = <<c>>
  <2>1. Len(tsr) = 1
    <3>1. Len(tsr) \in Nat /\ Len(tsr) # 0
      BY <1>1, <1>2, LenProperties, EmptySeq
    <3>2. Len(tsr) <= 1
      BY DEF IInv, TypeOK
    <3>3. \A n \in Nat : n # 0 /\ n <= 1 => n = 1
      OBVIOUS
    <3> QED
      BY <3>1, <3>2, <3>3, Zenon
  <2>2. tsr[1] \in Byte
    <3>1. 1 \in 1..Len(tsr)
      BY <2>1
    <3> QED
      BY <1>2, <3>1, ElementOfSeq
  <2>3. tsr = <<tsr[1]>>
    <3> DEFINE t == <<tsr[1]>>
    <3>1. t \in Seq(Byte) /\ Len(t) = 1 /\ t[1] = tsr[1]
      BY <2>2
    <3> HIDE DEF t
    <3>2. \A k \in 1..Len(tsr) : tsr[k] = t[k]
      BY <2>1, <3>1
    <3>3. tsr = t
      BY <1>2, <2>1, <3>1, <3>2, SeqEqual
    <3> QED
      BY <3>3 DEF t
  <2> QED
    BY <2>2, <2>3
<1> DEFINE sent == wire \o tsr
           rest == thr \o Pending
<1>4. accepted = sent \o rest
  <2>1. accepted = stored \o Pending
    BY DEF OrderInv, Accounted
  <2>2. stored = (wire \o tsr) \o thr
    BY <1>2, Associative DEF IInv, Lossless
  <2>3. wire \o tsr \in Seq(Byte)
    BY <1>2, ConcatProperties
  <2>4. ((wire \o tsr) \o thr) \o Pending = (wire \o tsr) \o (thr \o Pending)
    BY <1>2, <2>3, Associative
  <2> QED
    BY <2>1, <2>2, <2>4
<1>5. /\ sent = Append(wire, c) /\ sent \in Seq(Byte)
      /\ Len(sent) = Len(wire) + 1 /\ sent[Len(wire) + 1] = c
  <2>1. sent = Append(wire, c)
    BY <1>2, <1>3, AppendIsConcat
  <2> QED
    BY <1>2, <1>3, <2>1, AppendProperties
<1>6. rest \in Seq(Byte) /\ Len(rest) \in Nat
  BY <1>2, ConcatProperties, LenProperties
<1> HIDE DEF sent, rest
<1>7. /\ Len(sent \o rest) = Len(sent) + Len(rest)
      /\ \A k \in 1..Len(sent) + Len(rest) :
           (sent \o rest)[k] = IF k <= Len(sent) THEN sent[k] ELSE rest[k - Len(sent)]
  BY <1>5, <1>6, ConcatProperties
<1>8. Len(wire) < Len(accepted) /\ accepted[Len(wire) + 1] = c
  <2>1. /\ Len(wire) + 1 \in 1..Len(sent) + Len(rest)
        /\ Len(wire) + 1 <= Len(sent)
    BY <1>2, <1>5, <1>6
  <2> QED
    BY <1>2, <1>4, <1>5, <1>6, <1>7, <2>1
<1>9. wire' = Append(wire, accepted[Len(wire) + 1])
  BY <1>1, <1>5, <1>8 DEF sent
<1> QED
  BY <1>1, <1>8, <1>9 DEF Line!Emit, Promised

(* Every step of a driver and its UART is one of a serial line, or none.   *)
LEMMA LineStep ==
  ASSUME IInv, OrderInv, [Next]_vars
  PROVE  [Line!Next]_<<Promised(accepted), Promised(wire)>>
<1>1. UNCHANGED <<driver, accepted, wire>> =>
        UNCHANGED <<Promised(accepted), Promised(wire)>>
  BY DEF Promised
<1>2. driver \notin Waiting /\ driver' = driver =>
        UNCHANGED <<Promised(accepted), Promised(wire)>>
  BY DEF Promised
<1>3. driver' = driver
  BY DEF Next, Call, Poll, PollTakesInput, Store, Drain, Shift, Send, Receive, vars
<1>4. ASSUME NEW s \in Strings, Call(s), driver \in Waiting PROVE Line!Next
  <2>1. Line!Accept(OnLine(driver, s))
    BY <1>3, <1>4 DEF Line!Accept, Call, Promised
  <2>2. OnLine(driver, s) \in {OnLine(d, t) : d \in Drivers, t \in Strings}
    BY DEF IInv, TypeOK
  <2> QED
    BY <2>1, <2>2 DEF Line!Next
<1>5. CASE Send
  BY <1>2, <1>3, <1>5, SendEmits DEF Line!Next
<1>6. CASE \/ Poll \/ PollTakesInput \/ Store \/ Drain \/ Shift \/ Receive
           \/ UNCHANGED vars
  BY <1>1, <1>6 DEF Poll, PollTakesInput, Store, Drain, Shift, Receive, vars
<1> QED
  BY <1>2, <1>3, <1>4, <1>5, <1>6 DEF Next

(* A waiting driver with its UART does what a serial line may do, step by  *)
(* step: the bytes of the strings written, each line feed of the 8250      *)
(* driver after its carriage return, leave in order, none lost, repeated   *)
(* or made up (IsSerialLine, but for its fairness).                        *)
THEOREM ImplementsLine ==
  Spec => Line!Init /\ [][Line!Next]_<<Promised(accepted), Promised(wire)>>
<1>1. Init => Line!Init
  BY DEF Init, Leftovers, Line!Init, Promised
<1>2. IInv /\ OrderInv /\ [Next]_vars
        => [Line!Next]_<<Promised(accepted), Promised(wire)>>
  BY LineStep
<1> QED
  BY <1>1, <1>2, Account, PTL DEF Spec
=============================================================================
