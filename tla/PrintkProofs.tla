---------------------------- MODULE PrintkProofs ----------------------------
(***************************************************************************)
(* Proofs about Printk, for every set of calls whose arguments agree with  *)
(* their formats, every width of int and of uintptr_t, and every digit     *)
(* buffer long enough for them.                                            *)
(***************************************************************************)
EXTENDS Printk, SequenceTheorems, WellFoundedInduction, TLAPS

----------------------------------------------------------------------------
(* Recursive functions, by induction over the natural numbers.             *)

(* Induction: a set with 0 and the successor of each of its numbers.       *)
LEMMA Induction ==
  ASSUME NEW S, 0 \in S, \A n \in Nat : n \in S => n + 1 \in S
  PROVE  Nat \subseteq S
<1> SUFFICES ASSUME Nat \ S # {} PROVE FALSE
  OBVIOUS
<1> DEFINE Less == OpToRel(<, Nat)
<1>1. IsWellFoundedOn(Less, Nat)
  BY NatLessThanWellFounded
<1>2. PICK m \in Nat \ S : \A k \in Nat \ S : <<k, m>> \notin Less
  <2> HIDE DEF Less
  <2> QED
    BY <1>1, WFMin
<1>3. m # 0 /\ m - 1 \in Nat /\ (m - 1) + 1 = m
  OBVIOUS
<1>4. m - 1 \in Nat \ S
  BY <1>3
<1>5. <<m - 1, m>> \in Less
  <2>1. <<m - 1, m>> \in {p \in Nat \X Nat : p[1] < p[2]}
    BY <1>3
  <2> QED
    BY <2>1 DEF OpToRel
<1> HIDE DEF Less
<1> QED
  BY <1>2, <1>4, <1>5

(* A function is defined by its value at 0 and a step from each value to   *)
(* the next.                                                               *)
Recurrence(V, v, n, step) == v \in V /\ n \in Nat /\ step \in [1..n -> [V -> V]]
Solves(f, V, v, n, step) ==
  f \in [0..n -> V] /\ f[0] = v /\ \A i \in 1..n : f[i] = step[i][f[i - 1]]

(* Every recurrence has a solution, built up value by value.               *)
LEMMA Recursion ==
  ASSUME NEW V, NEW v, NEW n, NEW step, Recurrence(V, v, n, step)
  PROVE  \E f : Solves(f, V, v, n, step)
<1>0. v \in V /\ n \in Nat /\ step \in [1..n -> [V -> V]]
  BY DEF Recurrence
<1> DEFINE Def(m, f) == f[0] = v /\ \A i \in 1..m : f[i] = step[i][f[i - 1]]
           S == {m \in Nat : m <= n => \E f \in [0..m -> V] : Def(m, f)}
<1>1. 0 \in S
  <2>1. Def(0, [i \in 0..0 |-> v]) /\ [i \in 0..0 |-> v] \in [0..0 -> V]
    BY <1>0
  <2> QED
    BY <2>1
<1>2. ASSUME NEW m \in Nat, m \in S PROVE m + 1 \in S
  <2> SUFFICES ASSUME m + 1 <= n PROVE \E f \in [0..(m + 1) -> V] : Def(m + 1, f)
    OBVIOUS
  <2>1. PICK f \in [0..m -> V] : Def(m, f)
    BY <1>0, <1>2
  <2> DEFINE g == [i \in 0..(m + 1) |-> IF i = m + 1 THEN step[m + 1][f[m]] ELSE f[i]]
  <2>2. step[m + 1][f[m]] \in V
    BY <1>0
  <2>3. g \in [0..(m + 1) -> V]
    BY <2>2
  <2>4. Def(m + 1, g)
    BY <2>1
  <2> QED
    BY <2>3, <2>4
<1>3. n \in S
  <2> HIDE DEF S
  <2> QED
    BY <1>0, <1>1, <1>2, Induction
<1> QED
  BY <1>0, <1>3 DEF Solves

----------------------------------------------------------------------------
(* Powers.                                                                 *)
Bases == {2, 8, 10, 16}

(* Multiplying by a base stays within the natural numbers and doubles at   *)
(* least.                                                                  *)
LEMMA TimesBase ==
  ASSUME NEW b \in Bases, NEW n \in Nat
  PROVE  b * n \in Nat /\ b * n >= n + n
<1>1. CASE b = 2
  BY <1>1
<1>2. CASE b = 8
  BY <1>2
<1>3. CASE b = 10
  BY <1>3
<1>4. CASE b = 16
  BY <1>4
<1> QED
  BY <1>1, <1>2, <1>3, <1>4 DEF Bases

(* Power is the last value of a function that multiplies from 1 on.        *)
Multiplies(f, b, n) ==
  f \in [0..n -> Nat] /\ f[0] = 1 /\ \A i \in 1..n : f[i] = b * f[i - 1]

(* Such a function exists, so the definition of Power chooses one.         *)
LEMMA PowerSolves ==
  ASSUME NEW b \in Bases, NEW n \in Nat
  PROVE  \E f : Multiplies(f, b, n) /\ Power(b, n) = f[n]
<1> DEFINE step == [i \in 1..n |-> [k \in Nat |-> b * k]]
           Def(f) == f = [k \in 0..n |-> IF k = 0 THEN 1 ELSE b * f[k - 1]]
           power == CHOOSE f : Def(f)
<1>1. \E f : Multiplies(f, b, n)
  <2>1. \A k \in Nat : b * k \in Nat
    BY TimesBase
  <2>2. step \in [1..n -> [Nat -> Nat]]
    BY <2>1
  <2>3. Recurrence(Nat, 1, n, step)
    BY <2>2 DEF Recurrence
  <2>4. PICK f : Solves(f, Nat, 1, n, step)
    BY <2>3, Recursion
  <2>5. f \in [0..n -> Nat] /\ f[0] = 1 /\ \A i \in 1..n : f[i] = step[i][f[i - 1]]
    BY <2>4 DEF Solves
  <2>6. ASSUME NEW i \in 1..n PROVE f[i] = b * f[i - 1]
    <3>1. f[i - 1] \in Nat
      BY <2>5
    <3>2. step[i][f[i - 1]] = b * f[i - 1]
      BY <3>1
    <3> QED
      BY <2>5, <3>2
  <2> QED
    BY <2>5, <2>6 DEF Multiplies
<1>2. PICK g : Multiplies(g, b, n)
  BY <1>1
<1>3. Def(g)
  <2>1. g \in [0..n -> Nat] /\ g[0] = 1 /\ \A i \in 1..n : g[i] = b * g[i - 1]
    BY <1>2 DEF Multiplies
  <2>2. ASSUME NEW k \in 0..n
        PROVE  g[k] = IF k = 0 THEN 1 ELSE b * g[k - 1]
    <3>1. k = 0 \/ (k # 0 /\ k \in 1..n)
      OBVIOUS
    <3> QED
      BY <2>1, <3>1
  <2> QED
    BY <2>1, <2>2
<1>4. Def(power)
  <2> HIDE DEF Def
  <2> QED
    BY <1>3
<1>5. Power(b, n) = power[n]
  BY DEF Power
<1>6. Multiplies(power, b, n)
  <2> HIDE DEF power
  <2>1. power = [k \in 0..n |-> IF k = 0 THEN 1 ELSE b * power[k - 1]]
    BY <1>4
  <2>2. \A k \in 0..n : power[k] = IF k = 0 THEN 1 ELSE b * power[k - 1]
    BY <2>1
  <2>3. 0 \in 0..n /\ \A i \in 1..n : i \in 0..n /\ i # 0
    OBVIOUS
  <2>4. power[0] = 1 /\ \A i \in 1..n : power[i] = b * power[i - 1]
    BY <2>2, <2>3
  <2> DEFINE S == {m \in Nat : m <= n => power[m] \in Nat}
  <2>5. 0 \in S
    BY <2>4
  <2>6. ASSUME NEW m \in Nat, m \in S PROVE m + 1 \in S
    <3> SUFFICES ASSUME m + 1 <= n PROVE power[m + 1] \in Nat
      OBVIOUS
    <3>1. m + 1 \in 1..n /\ (m + 1) - 1 = m /\ power[m] \in Nat
      BY <2>6
    <3>2. power[m + 1] = b * power[m]
      BY <2>4, <3>1
    <3> QED
      BY <3>1, <3>2, TimesBase
  <2>7. \A m \in 0..n : power[m] \in Nat
    <3>1. Nat \subseteq S
      <4> HIDE DEF S
      <4> QED
        BY <2>5, <2>6, Induction
    <3> QED
      BY <3>1
  <2>8. power \in [0..n -> Nat]
    BY <2>1, <2>7
  <2> QED
    BY <2>4, <2>8 DEF Multiplies
<1> QED
  BY <1>5, <1>6

(* The equations of Power.                                                 *)
LEMMA PowerZero ==
  ASSUME NEW b \in Bases
  PROVE  Power(b, 0) = 1
<1>1. PICK f : Multiplies(f, b, 0) /\ Power(b, 0) = f[0]
  BY PowerSolves
<1> QED
  BY <1>1 DEF Multiplies

(* One more factor multiplies once more.                                   *)
LEMMA PowerUp ==
  ASSUME NEW b \in Bases, NEW n \in Nat
  PROVE  /\ Power(b, n) \in Nat /\ Power(b, n + 1) \in Nat
         /\ Power(b, n + 1) = b * Power(b, n)
<1>1. PICK f : Multiplies(f, b, n) /\ Power(b, n) = f[n]
  BY PowerSolves
<1>2. n + 1 \in Nat
  OBVIOUS
<1>3. PICK g : Multiplies(g, b, n + 1) /\ Power(b, n + 1) = g[n + 1]
  BY <1>2, PowerSolves
<1>4. f \in [0..n -> Nat] /\ f[0] = 1 /\ \A i \in 1..n : f[i] = b * f[i - 1]
  BY <1>1 DEF Multiplies
<1>5. /\ g \in [0..(n + 1) -> Nat] /\ g[0] = 1
      /\ \A i \in 1..(n + 1) : g[i] = b * g[i - 1]
  BY <1>3 DEF Multiplies
<1> DEFINE S == {m \in Nat : m <= n => g[m] = f[m]}
<1>6. 0 \in S
  BY <1>4, <1>5
<1>7. ASSUME NEW m \in Nat, m \in S PROVE m + 1 \in S
  <2> SUFFICES ASSUME m + 1 <= n PROVE g[m + 1] = f[m + 1]
    OBVIOUS
  <2>1. m + 1 \in 1..n /\ m + 1 \in 1..(n + 1) /\ (m + 1) - 1 = m /\ g[m] = f[m]
    BY <1>7
  <2>2. f[m + 1] = b * f[m]
    BY <1>4, <2>1
  <2>3. g[m + 1] = b * g[m]
    BY <1>5, <2>1
  <2> QED
    BY <2>1, <2>2, <2>3
<1>8. n \in S
  <2> HIDE DEF S
  <2> QED
    BY <1>6, <1>7, Induction
<1>9. g[n] = f[n]
  BY <1>8
<1>10. n + 1 \in 1..(n + 1) /\ n + 1 \in 0..(n + 1) /\ n \in 0..n /\ (n + 1) - 1 = n
  OBVIOUS
<1>11. g[n + 1] = b * g[n]
  BY <1>5, <1>10
<1>12. f[n] \in Nat /\ g[n + 1] \in Nat
  BY <1>4, <1>5, <1>10
<1> QED
  BY <1>1, <1>3, <1>9, <1>11, <1>12

(* No power is 0.                                                          *)
LEMMA PowerPositive ==
  ASSUME NEW b \in Bases, NEW n \in Nat
  PROVE  Power(b, n) \in Nat /\ Power(b, n) >= 1
<1> DEFINE S == {m \in Nat : Power(b, m) >= 1}
<1>1. 0 \in S
  BY PowerZero
<1>2. ASSUME NEW m \in Nat, m \in S PROVE m + 1 \in S
  <2>1. /\ Power(b, m) \in Nat /\ Power(b, m) >= 1 /\ Power(b, m + 1) \in Nat
        /\ Power(b, m + 1) = b * Power(b, m)
    BY <1>2, PowerUp
  <2>2. Power(b, m + 1) >= 1
    <3>1. CASE b = 2
      BY <2>1, <3>1
    <3>2. CASE b = 8
      BY <2>1, <3>2
    <3>3. CASE b = 10
      BY <2>1, <3>3
    <3>4. CASE b = 16
      BY <2>1, <3>4
    <3> QED
      BY <3>1, <3>2, <3>3, <3>4 DEF Bases
  <2> QED
    BY <2>2
<1>3. n \in S
  <2> HIDE DEF S
  <2> QED
    BY <1>1, <1>2, Induction
<1> QED
  BY <1>3, PowerUp

(* A power is more than its exponent.                                      *)
LEMMA PowerExceeds ==
  ASSUME NEW b \in Bases, NEW n \in Nat
  PROVE  Power(b, n) \in Nat /\ n < Power(b, n)
<1> DEFINE S == {m \in Nat : m + 1 <= Power(b, m)}
<1>1. 0 \in S
  BY PowerZero
<1>2. ASSUME NEW m \in Nat, m \in S PROVE m + 1 \in S
  <2>1. Power(b, m) \in Nat /\ Power(b, m + 1) = b * Power(b, m)
    BY PowerUp
  <2>2. b * Power(b, m) >= Power(b, m) + Power(b, m) /\ b * Power(b, m) \in Nat
    BY <2>1, TimesBase
  <2> QED
    BY <1>2, <2>1, <2>2
<1>3. n \in S
  <2> HIDE DEF S
  <2> QED
    BY <1>1, <1>2, Induction
<1> QED
  BY <1>3, PowerUp

(* A power grows with its exponent.                                        *)
LEMMA PowerGrows ==
  ASSUME NEW b \in Bases, NEW n \in Nat, NEW w \in Nat, n <= w
  PROVE  Power(b, n) <= Power(b, w)
<1> DEFINE S == {m \in Nat : Power(b, n) <= Power(b, n + m)}
<1>1. 0 \in S
  <2>1. n + 0 = n
    OBVIOUS
  <2>2. Power(b, n) \in Nat
    BY PowerPositive
  <2> QED
    BY <2>1, <2>2
<1>2. ASSUME NEW m \in Nat, m \in S PROVE m + 1 \in S
  <2>1. n + m \in Nat /\ (n + m) + 1 = n + (m + 1)
    OBVIOUS
  <2>2. /\ Power(b, n + m) \in Nat /\ Power(b, n + (m + 1)) \in Nat
        /\ Power(b, n + (m + 1)) = b * Power(b, n + m)
    BY <2>1, PowerUp
  <2>3. Power(b, n) \in Nat /\ Power(b, n + m) \in Nat
    BY <2>1, PowerPositive
  <2>4. Power(b, n + (m + 1)) \in Nat /\ Power(b, n + (m + 1)) >= Power(b, n + m)
    BY <2>2, TimesBase
  <2>5. Power(b, n) <= Power(b, n + (m + 1))
    BY <1>2, <2>3, <2>4
  <2> QED
    BY <2>5
<1>3. w - n \in S
  <2> HIDE DEF S
  <2> QED
    BY <1>1, <1>2, Induction
<1>4. n + (w - n) = w
  OBVIOUS
<1> QED
  BY <1>3, <1>4

(* Sixteen needs no more places than ten.                                  *)
LEMMA HexIsShorter ==
  ASSUME NEW n \in Nat
  PROVE  Power(10, n) <= Power(16, n)
<1>0. 10 \in Bases /\ 16 \in Bases
  BY DEF Bases
<1> DEFINE S == {m \in Nat : Power(10, m) <= Power(16, m)}
<1>1. 0 \in S
  BY <1>0, PowerZero
<1>2. ASSUME NEW m \in Nat, m \in S PROVE m + 1 \in S
  <2>1. Power(10, m) \in Nat /\ Power(10, m + 1) = 10 * Power(10, m)
    BY <1>0, PowerUp
  <2>2. Power(16, m) \in Nat /\ Power(16, m + 1) = 16 * Power(16, m)
    BY <1>0, PowerUp
  <2> QED
    BY <1>2, <2>1, <2>2
<1>3. n \in S
  <2> HIDE DEF S
  <2> QED
    BY <1>1, <1>2, Induction
<1> QED
  BY <1>3

(* One digit less, one power less.                                         *)
LEMMA OneDigitLess ==
  ASSUME NEW b \in {8, 10, 16}, NEW n \in Nat, NEW k \in Nat, k < Power(b, n + 1)
  PROVE  k \div b \in Nat /\ k \div b < Power(b, n) /\ k % b \in 0..15
<1>1. b \in Bases
  BY DEF Bases
<1>2. Power(b, n) \in Nat /\ Power(b, n + 1) = b * Power(b, n)
  BY <1>1, PowerUp
<1>3. CASE b = 8
  BY <1>2, <1>3
<1>4. CASE b = 10
  BY <1>2, <1>4
<1>5. CASE b = 16
  BY <1>2, <1>5
<1> QED
  BY <1>3, <1>4, <1>5

----------------------------------------------------------------------------
(* The way through a format.                                               *)

(* The characters that lie in memory, and the last of them.                *)
LEMMA MemoryEnds ==
  ASSUME NEW c \in Calls
  PROVE  /\ Memory(c) \in Seq(Char) /\ Len(Memory(c)) \in Nat \ {0}
         /\ Memory(c)[Len(Memory(c))] = NUL
<1>1. c.fmt \in Seq(Char) /\ <<NUL>> \in Seq(Char) /\ Beyond \in Seq(Char)
  <2>1. c.fmt \in Seq(Char \ {NUL})
    BY CallsAssumption
  <2>2. Char \ {NUL} \subseteq Char /\ NUL \in Char
    BY DEF Char
  <2> QED
    BY <2>1, <2>2, BeyondAssumption
<1>2. /\ c.fmt \o <<NUL>> \in Seq(Char)
      /\ Len(c.fmt \o <<NUL>>) = Len(c.fmt) + 1 /\ Len(c.fmt) \in Nat
      /\ (c.fmt \o <<NUL>>)[Len(c.fmt) + 1] = NUL
  BY <1>1
<1> DEFINE s == c.fmt \o <<NUL>>
<1>3. s \in Seq(Char) /\ Len(s) \in Nat \ {0} /\ s[Len(s)] = NUL
  BY <1>2
<1> HIDE DEF s
<1>4. /\ s \o Beyond \in Seq(Char) /\ Len(s \o Beyond) = Len(s) + Len(Beyond)
      /\ Len(Beyond) \in Nat
  BY <1>1, <1>3
<1>5. (s \o Beyond)[Len(s \o Beyond)] = NUL
  <2>1. CASE Len(Beyond) = 0
    <3>1. (s \o Beyond)[Len(s)] = s[Len(s)]
      BY <1>1, <1>3
    <3> QED
      BY <2>1, <3>1, <1>3, <1>4
  <2>2. CASE Len(Beyond) # 0
    <3>1. (s \o Beyond)[Len(s) + Len(Beyond)] = Beyond[Len(Beyond)]
      BY <1>1, <1>3, <1>4, <2>2
    <3> QED
      BY <3>1, <1>4, BeyondAssumption
  <2> QED
    BY <2>1, <2>2
<1> QED
  BY <1>3, <1>4, <1>5 DEF Memory, s

(* Walk starts at the first character and goes on by Onward.               *)
LEMMA WalkSteps ==
  ASSUME NEW m, Len(m) \in Nat
  PROVE  /\ \A n \in 0..Len(m) : Walk(m)[n] \in Nat \X Nat
         /\ Walk(m)[0] = <<1, 1>>
         /\ \A n \in 1..Len(m) : Walk(m)[n] = Onward(m)[Walk(m)[n - 1]]
<1> DEFINE N == Len(m)
           V == Nat \X Nat
           go == Onward(m)
           Def(f) == f = [n \in 0..N |->
                            IF n = 0 THEN <<1, 1>> ELSE go[f[n - 1]]]
           walk == CHOOSE f : Def(f)
<1>1. Walk(m) = walk
  BY DEF Walk
<1>2. go \in [V -> V] /\ <<1, 1>> \in V
  BY DEF Onward
<1> HIDE DEF N, V, go
<1>3. PICK g : g \in [0..N -> V] /\ g[0] = <<1, 1>> /\ \A i \in 1..N : g[i] = go[g[i - 1]]
  <2> DEFINE step == [i \in 1..N |-> go]
  <2>1. step \in [1..N -> [V -> V]]
    BY <1>2
  <2>2. Recurrence(V, <<1, 1>>, N, step)
    BY <1>2, <2>1 DEF Recurrence, N
  <2>3. PICK f : Solves(f, V, <<1, 1>>, N, step)
    BY <2>2, Recursion
  <2> QED
    BY <2>3 DEF Solves
<1>4. Def(g)
  <2>1. ASSUME NEW n \in 0..N
        PROVE  g[n] = IF n = 0 THEN <<1, 1>> ELSE go[g[n - 1]]
    <3>1. n = 0 \/ (n # 0 /\ n \in 1..N)
      BY DEF N
    <3> QED
      BY <1>3, <3>1
  <2> QED
    BY <2>1, <1>3
<1>5. Def(walk)
  <2> HIDE DEF Def
  <2> QED
    BY <1>4
<1> HIDE DEF walk
<1>6. walk[0] = <<1, 1>> /\ \A i \in 1..N : walk[i] = go[walk[i - 1]]
  <2>1. 0 \in 0..N /\ \A i \in 1..N : i \in 0..N /\ i # 0
    BY DEF N
  <2>2. \A n \in 0..N : walk[n] = IF n = 0 THEN <<1, 1>> ELSE go[walk[n - 1]]
    BY <1>5
  <2> QED
    BY <2>1, <2>2
<1>7. \A n \in 0..N : walk[n] \in V
  <2> DEFINE S == {n \in Nat : n <= N => walk[n] \in V}
  <2>1. 0 \in S
    BY <1>2, <1>6
  <2>2. ASSUME NEW n \in Nat, n \in S PROVE n + 1 \in S
    <3> SUFFICES ASSUME n + 1 <= N PROVE walk[n + 1] \in V
      OBVIOUS
    <3>1. n + 1 \in 1..N /\ (n + 1) - 1 = n /\ walk[n] \in V
      BY <2>2 DEF N
    <3>2. walk[n + 1] = go[walk[n]]
      BY <1>6, <3>1
    <3> QED
      BY <3>1, <3>2, <1>2
  <2>3. Nat \subseteq S
    <3> HIDE DEF S
    <3> QED
      BY <2>1, <2>2, Induction
  <2> QED
    BY <2>3 DEF N
<1> QED
  BY <1>1, <1>6, <1>7 DEF N, V, go

(* The loop stands at position p, with argument k next.                    *)
Here(c, p, k) == \E n \in 0..Len(Memory(c)) : Walk(Memory(c))[n] = <<p, k>>

(* It starts at the first character.                                       *)
LEMMA HereAtStart ==
  ASSUME NEW c \in Calls
  PROVE  Here(c, 1, 1)
<1>1. 0 \in 0..Len(Memory(c))
  BY MemoryEnds
<1> QED
  BY <1>1, WalkSteps DEF Here

(* Wherever it stands is in memory, and a conversion there finds the       *)
(* argument it takes.                                                      *)
LEMMA HereBounds ==
  ASSUME NEW c \in Calls, NEW p, NEW k, Here(c, p, k)
  PROVE  /\ p \in 1..Len(Memory(c)) /\ k \in 1..(Len(c.args) + 1)
         /\ Takes(Memory(c), p) =>
              k \in 1..Len(c.args) /\ Suits(Memory(c)[p + 1], c.args[k])
<1> DEFINE m == Memory(c)
           N == Len(m)
           A == Len(c.args)
           w == Walk(m)
<1>1. N \in Nat /\ A \in Nat
  BY MemoryEnds, CallsAssumption
<1>2. /\ \A n \in 0..N : w[n] \in Nat \X Nat
      /\ w[0] = <<1, 1>>
      /\ \A n \in 1..N : w[n] = Onward(m)[w[n - 1]]
  BY WalkSteps
<1>3. \A n \in 0..N :
        /\ w[n][1] <= N
        /\ Takes(m, w[n][1]) => w[n][2] <= A /\ Suits(m[w[n][1] + 1], c.args[w[n][2]])
  BY CallsAssumption DEF Agree
<1>4. PICK here \in 0..N : w[here] = <<p, k>>
  BY DEF Here
<1> HIDE DEF m, N, A, w
<1> DEFINE Within(n) == w[n][1] >= 1 /\ w[n][2] >= 1 /\ w[n][2] <= A + 1
           S == {n \in Nat : n <= N => Within(n)}
<1>5. 0 \in S
  BY <1>1, <1>2
<1>6. ASSUME NEW n \in Nat, n \in S PROVE n + 1 \in S
  <2> SUFFICES ASSUME n + 1 <= N PROVE Within(n + 1)
    OBVIOUS
  <2>1. n + 1 \in 1..N /\ (n + 1) - 1 = n /\ n \in 0..N
    BY <1>1, <1>6
  <2>2. PICK q \in Nat, l \in Nat : w[n] = <<q, l>>
    BY <1>2, <2>1
  <2>3. q >= 1 /\ l >= 1 /\ l <= A + 1 /\ (Takes(m, q) => l <= A)
    BY <1>3, <1>6, <2>1, <2>2
  <2>4. w[n + 1] = Onward(m)[<<q, l>>]
    BY <1>2, <2>1, <2>2
  <2>5. w[n + 1] \in {<<q, l>>, <<q + 1, l>>, <<q + 2, l>>}
          \/ (Takes(m, q) /\ w[n + 1] = <<q + 2, l + 1>>)
    BY <2>4 DEF Onward
  <2> QED
    BY <1>1, <2>3, <2>5
<1>7. Within(here)
  <2>1. Nat \subseteq S
    <3> HIDE DEF S
    <3> QED
      BY <1>5, <1>6, Induction
  <2> QED
    BY <1>1, <1>4, <2>1
<1>8. w[here] \in Nat \X Nat
  BY <1>2
<1>9. p \in Nat /\ k \in Nat /\ p >= 1 /\ k >= 1 /\ k <= A + 1 /\ p <= N
  BY <1>3, <1>4, <1>7, <1>8
<1>10. Takes(m, p) => k <= A /\ Suits(m[p + 1], c.args[k])
  BY <1>3, <1>4
<1>11. p \in 1..N /\ k \in 1..(A + 1) /\ (Takes(m, p) => k \in 1..A)
  BY <1>1, <1>9, <1>10
<1> QED
  BY <1>10, <1>11 DEF m, N, A

(* One step of the way.                                                    *)
LEMMA OnwardFrom ==
  ASSUME NEW m, NEW p \in Nat, NEW k \in Nat
  PROVE  Onward(m)[<<p, k>>] =
           IF p >= Len(m) \/ m[p] = NUL THEN <<p, k>>
           ELSE IF m[p] # "%" THEN <<p + 1, k>>
           ELSE IF Takes(m, p) THEN <<p + 2, k + 1>> ELSE <<p + 2, k>>
  BY DEF Onward

(* Short of the NUL, n steps get beyond the first n characters.            *)
LEMMA WalkGetsOn ==
  ASSUME NEW m, Len(m) \in Nat, NEW here \in 0..Len(m)
  PROVE  LET p == Walk(m)[here][1]
         IN  p \in Nat /\ (p >= here + 1 \/ p >= Len(m) \/ m[p] = NUL)
<1> DEFINE N == Len(m)
           w == Walk(m)
           Ahead(n) == w[n][1] >= n + 1 \/ w[n][1] >= N \/ m[w[n][1]] = NUL
           S == {n \in Nat : n <= N => Ahead(n)}
<1>1. /\ \A n \in 0..N : w[n] \in Nat \X Nat
      /\ w[0] = <<1, 1>>
      /\ \A n \in 1..N : w[n] = Onward(m)[w[n - 1]]
  BY WalkSteps
<1>2. \A q, l \in Nat :
        \/ (q >= N \/ m[q] = NUL) /\ Onward(m)[<<q, l>>] = <<q, l>>
        \/ Onward(m)[<<q, l>>] \in {<<q + 1, l>>, <<q + 2, l>>, <<q + 2, l + 1>>}
  BY OnwardFrom
<1> HIDE DEF N, w
<1>3. 0 \in S
  BY <1>1
<1>4. ASSUME NEW n \in Nat, n \in S PROVE n + 1 \in S
  <2> SUFFICES ASSUME n + 1 <= N PROVE Ahead(n + 1)
    OBVIOUS
  <2>1. n + 1 \in 1..N /\ (n + 1) - 1 = n /\ n \in 0..N
    BY <1>4 DEF N
  <2>2. PICK q \in Nat, l \in Nat : w[n] = <<q, l>>
    BY <1>1, <2>1
  <2>3. w[n + 1] = Onward(m)[<<q, l>>]
    BY <1>1, <2>1, <2>2
  <2>4. q >= n + 1 \/ q >= N \/ m[q] = NUL
    BY <1>4, <2>1, <2>2
  <2>5. CASE (q >= N \/ m[q] = NUL) /\ Onward(m)[<<q, l>>] = <<q, l>>
    BY <2>3, <2>5
  <2>6. CASE Onward(m)[<<q, l>>] \in {<<q + 1, l>>, <<q + 2, l>>, <<q + 2, l + 1>>}
    <3>1. CASE q >= n + 1
      BY <2>3, <2>6, <3>1
    <3>2. CASE q >= N
      BY <2>3, <2>6, <3>2 DEF N
    <3>3. CASE m[q] = NUL
      <4>1. Onward(m)[<<q, l>>] = <<q, l>>
        BY <3>3, OnwardFrom
      <4> QED
        BY <2>3, <3>3, <4>1
    <3> QED
      BY <2>4, <3>1, <3>2, <3>3
  <2> QED
    BY <1>2, <2>5, <2>6
<1>5. Nat \subseteq S
  <2> HIDE DEF S
  <2> QED
    BY <1>3, <1>4, Induction
<1>6. Ahead(here) /\ w[here][1] \in Nat
  BY <1>1, <1>5 DEF N
<1> QED
  BY <1>6 DEF N, w

(* Short of the NUL there is a next step, and memory holds a character     *)
(* after the one the loop stands at.                                       *)
LEMMA WalkAhead ==
  ASSUME NEW c \in Calls, NEW n \in 0..Len(Memory(c)), NEW p, NEW k,
         Walk(Memory(c))[n] = <<p, k>>, Memory(c)[p] # NUL
  PROVE  /\ n + 1 \in 1..Len(Memory(c)) /\ p \in 1..(Len(Memory(c)) - 1)
         /\ Walk(Memory(c))[n + 1] =
              IF Memory(c)[p] # "%" THEN <<p + 1, k>>
              ELSE IF Takes(Memory(c), p) THEN <<p + 2, k + 1>> ELSE <<p + 2, k>>
<1> DEFINE m == Memory(c)
           N == Len(m)
           w == Walk(m)
<1>1. N \in Nat /\ m[N] = NUL
  BY MemoryEnds
<1>2. p \in 1..N
  BY HereBounds DEF Here
<1>3. w[n] \in Nat \X Nat /\ \A i \in 1..N : w[i] = Onward(m)[w[i - 1]]
  BY <1>1, WalkSteps
<1>4. p \in Nat /\ k \in Nat /\ w[n][1] = p
  BY <1>3
<1>5. p >= n + 1 \/ p >= N \/ m[p] = NUL
  BY <1>1, <1>4, WalkGetsOn
<1>6. Onward(m)[<<p, k>>] =
        IF p >= N \/ m[p] = NUL THEN <<p, k>>
        ELSE IF m[p] # "%" THEN <<p + 1, k>>
        ELSE IF Takes(m, p) THEN <<p + 2, k + 1>> ELSE <<p + 2, k>>
  BY <1>4, OnwardFrom
<1>7. m[p] # NUL /\ w[n] = <<p, k>> /\ n \in 0..N
  OBVIOUS
<1> HIDE DEF m, N, w
<1>8. p < N
  BY <1>1, <1>2, <1>7
<1>9. n + 1 \in 1..N /\ (n + 1) - 1 = n
  BY <1>1, <1>4, <1>5, <1>7, <1>8
<1>10. w[n + 1] = Onward(m)[<<p, k>>]
  BY <1>3, <1>7, <1>9
<1>11. w[n + 1] = IF m[p] # "%" THEN <<p + 1, k>>
                  ELSE IF Takes(m, p) THEN <<p + 2, k + 1>> ELSE <<p + 2, k>>
  BY <1>1, <1>4, <1>6, <1>7, <1>8, <1>10
<1>12. p \in 1..(N - 1)
  BY <1>1, <1>2, <1>8
<1> QED
  BY <1>9, <1>11, <1>12 DEF m, N, w

(* The same of wherever the loop stands.                                   *)
LEMMA HereNext ==
  ASSUME NEW c \in Calls, NEW p, NEW k, Here(c, p, k), Memory(c)[p] # NUL
  PROVE  /\ p + 1 \in 2..Len(Memory(c))
         /\ Memory(c)[p] # "%" => Here(c, p + 1, k)
         /\ Memory(c)[p] = "%" =>
              IF Takes(Memory(c), p) THEN Here(c, p + 2, k + 1)
              ELSE Here(c, p + 2, k)
<1>1. PICK n \in 0..Len(Memory(c)) : Walk(Memory(c))[n] = <<p, k>>
  BY DEF Here
<1>2. /\ n + 1 \in 1..Len(Memory(c)) /\ p \in 1..(Len(Memory(c)) - 1)
      /\ Walk(Memory(c))[n + 1] =
           IF Memory(c)[p] # "%" THEN <<p + 1, k>>
           ELSE IF Takes(Memory(c), p) THEN <<p + 2, k + 1>> ELSE <<p + 2, k>>
  BY <1>1, WalkAhead
<1>3. Len(Memory(c)) \in Nat
  BY MemoryEnds
<1>4. \A q, l : Walk(Memory(c))[n + 1] = <<q, l>> => Here(c, q, l)
  BY <1>2, <1>3 DEF Here
<1> QED
  BY <1>2, <1>3, <1>4

----------------------------------------------------------------------------
(* The widths stay what the build made them.                               *)
Widths == ptrbits \in PtrWidths /\ least \in LeastOutcomes(ptrbits)

(* The loop stands at a character of the format's own way; while a         *)
(* conversion is printed, at its %, with its argument already taken.       *)
Standing ==
  /\ pc = "scan" => Here(call, ptr, arg)
  /\ pc \in {"string", "prefix", "convert", "unwind"} => Here(call, ptr + 2, arg)

(* What is left of a number fits in the places left; only the number 0     *)
(* itself has a digit 0 to come when nothing is left.                      *)
Remaining ==
  /\ pc = "prefix" => idx = 0
  /\ pc \in {"prefix", "convert"} => u < Power(base, Places - idx)
  /\ pc = "convert" /\ idx # 0 => u # 0

IInv == TypeOK /\ Widths /\ Standing /\ Remaining /\ DigitsFit

(* The sizes of int, uintptr_t and the buffer, against each other.         *)
LEMMA Sizes ==
  ASSUME NEW w \in PtrWidths
  PROVE  /\ LeastInt \in Int /\ LeastInt <= -1
         /\ Power(2, IntBits) \in Nat /\ Power(2, IntBits) = -LeastInt - LeastInt
         /\ Power(2, w) \in Nat /\ Power(2, IntBits) <= Power(2, w)
         /\ Power(8, Places) \in Nat /\ Power(2, IntBits) <= Power(8, Places)
         /\ Power(10, Places) \in Nat /\ Power(2, w) <= Power(10, Places)
         /\ Power(16, Places) \in Nat /\ Power(2, w) <= Power(16, Places)
         /\ Places \in Nat \ {0}
<1>1. /\ IntBits \in Nat \ {0} /\ IntBits - 1 \in Nat /\ (IntBits - 1) + 1 = IntBits
      /\ w \in Nat /\ IntBits <= w
  BY WidthAssumption
<1>2. /\ Places \in Nat /\ Power(2, w) <= Power(10, Places)
      /\ Power(2, IntBits) <= Power(8, Places)
  BY PlacesAssumption, PowerPositive, <1>1 DEF Bases
<1>3. 2 \in Bases /\ 8 \in Bases /\ 10 \in Bases /\ 16 \in Bases
  BY DEF Bases
<1>4. Power(2, IntBits - 1) \in Nat /\ Power(2, IntBits - 1) >= 1
  BY <1>1, <1>3, PowerPositive
<1>5. Power(2, IntBits) \in Nat /\ Power(2, IntBits) = 2 * Power(2, IntBits - 1)
  BY <1>1, <1>3, PowerUp
<1>6. /\ Power(2, w) \in Nat /\ Power(8, Places) \in Nat
      /\ Power(10, Places) \in Nat /\ Power(16, Places) \in Nat
  BY <1>1, <1>2, <1>3, PowerPositive
<1>7. Power(2, IntBits) <= Power(2, w)
  BY <1>1, <1>3, PowerGrows
<1>8. Power(2, w) <= Power(16, Places)
  BY <1>2, <1>6, HexIsShorter
<1>9. Places # 0
  BY <1>2, <1>3, <1>4, <1>5, <1>6, <1>7, PowerZero
<1>10. LeastInt = -Power(2, IntBits - 1)
  BY DEF LeastInt
<1> QED
  BY <1>2, <1>4, <1>5, <1>6, <1>7, <1>8, <1>9, <1>10

(* An argument taken as unsigned is a natural number of its width.         *)
LEMMA UnsignedFits ==
  ASSUME NEW x \in Int, NEW w \in PtrWidths \cup {IntBits}
  PROVE  Unsigned(x, w) \in Nat /\ Unsigned(x, w) < Power(2, w)
<1>1. w \in Nat /\ 2 \in Bases
  BY WidthAssumption DEF Bases
<1>2. Power(2, w) \in Nat /\ Power(2, w) >= 1
  BY <1>1, PowerPositive
<1> QED
  BY <1>2 DEF Unsigned

(* The characters printk puts in by itself are characters.                 *)
LEMMA OwnCharacters ==
  /\ {"%", "-", "x", "0"} \subseteq Char /\ Null \in Seq(Char)
  /\ \A i \in 1..16 : Digits[i] \in Char
  /\ "%" # NUL
<1>1. "0" = Digits[1] /\ 1 \in 1..16
  BY DEF Digits
<1>2. \A i \in 1..16 : Digits[i] \in Char
  BY DEF Char
<1>3. {"%", "-", "x", "(", "n", "u", "l", ")"} \subseteq Char /\ "%" # NUL
  BY LetterAssumption DEF Char
<1>4. Null \in Seq(Char)
  BY <1>3 DEF Null
<1> QED
  BY <1>1, <1>2, <1>3, <1>4

(* A conversion other than %% finds its argument and leaves the loop two   *)
(* characters and one argument further.                                    *)
LEMMA Taken ==
  ASSUME IInv, NEW k \in Known \ {"%"}, Conversion(k)
  PROVE  /\ Here(call, ptr + 2, arg + 1) /\ arg \in 1..Len(call.args)
         /\ Suits(k, Arg)
<1>1. call \in Calls /\ Here(call, ptr, arg) /\ At(ptr) = "%" /\ At(ptr + 1) = k
  BY DEF IInv, TypeOK, Standing, Conversion
<1>2. Memory(call)[ptr] = "%" /\ Memory(call)[ptr + 1] = k
  BY <1>1 DEF At
<1>3. Memory(call)[ptr] # NUL
  BY <1>2, OwnCharacters
<1>4. ptr \in 1..Len(Memory(call)) /\ ptr + 1 \in 2..Len(Memory(call))
  BY <1>1, <1>3, HereBounds, HereNext
<1>5. Takes(Memory(call), ptr)
  <2>1. Len(Memory(call)) \in Nat
    BY <1>1, MemoryEnds
  <2> QED
    BY <1>2, <1>4, <2>1 DEF Takes
<1>6. Here(call, ptr + 2, arg + 1)
  BY <1>1, <1>2, <1>3, <1>5, HereNext
<1>7. arg \in 1..Len(call.args) /\ Suits(k, call.args[arg])
  BY <1>1, <1>2, <1>5, HereBounds
<1> QED
  BY <1>6, <1>7 DEF Arg

(* IInv is kept where a character is printed and the way goes on.          *)
LEMMA PlainStep ==
  ASSUME IInv, NEW c \in Char, NEW step, NEW taken, pc = "scan",
         Here(call, ptr + step, arg + taken), Plain(c, step, taken)
  PROVE  IInv'
<1>1. /\ printed' = Append(printed, c)
      /\ ptr' = ptr + step /\ arg' = arg + taken
      /\ UNCHANGED <<ptrbits, least, call, before, calls, pc, u, base, buff, idx, str>>
  BY DEF Plain, callVars
<1>2. Here(call', ptr', arg')
  BY <1>1
<1>3. ptr' \in 1..Len(Memory(call)) /\ arg' \in 1..(Len(call.args) + 1)
  BY <1>1, HereBounds DEF IInv, TypeOK
<1>4. printed' \in Seq(Char) /\ before' \in 0..Len(printed')
  BY <1>1 DEF IInv, TypeOK
<1>5. TypeOK'
  BY <1>1, <1>3, <1>4 DEF IInv, TypeOK
<1>6. Widths'
  BY <1>1 DEF IInv, Widths
<1>7. Standing'
  BY <1>1, <1>2 DEF Standing
<1>8. Remaining' /\ DigitsFit'
  BY <1>1 DEF Remaining, DigitsFit
<1> QED
  BY <1>5, <1>6, <1>7, <1>8 DEF IInv

(* IInv is kept where a string is about to be printed.                     *)
LEMMA TextStep ==
  ASSUME IInv, NEW s \in Seq(Char), NEW taken, pc = "scan",
         Here(call, ptr + 2, arg + taken), Text(s, taken)
  PROVE  IInv'
<1>1. /\ str' = s /\ pc' = "string" /\ arg' = arg + taken
      /\ UNCHANGED <<ptrbits, least, call, before, calls, ptr, u, base, buff, idx, printed>>
  BY DEF Text, callVars
<1>2. Here(call', ptr' + 2, arg')
  BY <1>1
<1>3. arg' \in 1..(Len(call.args) + 1)
  BY <1>1, HereBounds DEF IInv, TypeOK
<1>4. TypeOK'
  BY <1>1, <1>3 DEF IInv, TypeOK
<1>5. Widths'
  BY <1>1 DEF IInv, Widths
<1>6. Standing'
  BY <1>1, <1>2 DEF Standing
<1>7. Remaining' /\ DigitsFit'
  BY <1>1 DEF Remaining, DigitsFit
<1> QED
  BY <1>4, <1>5, <1>6, <1>7 DEF IInv

(* IInv is kept where a number is about to be printed that its type and    *)
(* the buffer hold.                                                        *)
LEMMA NumberStep ==
  ASSUME IInv, NEW prefix \in Seq(Char), NEW n \in Nat, NEW b \in {8, 10, 16},
         n < Power(2, ptrbits), n < Power(b, Places), pc = "scan",
         Here(call, ptr + 2, arg + 1), Number(prefix, n, b)
  PROVE  IInv'
<1>1. /\ str' = prefix /\ pc' = "prefix" /\ u' = n /\ base' = b /\ idx' = 0
      /\ arg' = arg + 1
      /\ UNCHANGED <<ptrbits, least, call, before, calls, ptr, buff, printed>>
  BY DEF Number, callVars
<1>2. Here(call', ptr' + 2, arg')
  BY <1>1
<1>3. arg' \in 1..(Len(call.args) + 1)
  BY <1>1, HereBounds DEF IInv, TypeOK
<1>4. Places \in Nat /\ Power(2, ptrbits) \in Nat
  BY Sizes DEF IInv, Widths
<1>5. u' \in 0..(Power(2, ptrbits) - 1) /\ idx' \in 0..Places
  BY <1>1, <1>4
<1>6. TypeOK'
  BY <1>1, <1>3, <1>5 DEF IInv, TypeOK
<1>7. Widths'
  BY <1>1 DEF IInv, Widths
<1>8. Standing'
  BY <1>1, <1>2 DEF Standing
<1>9. Remaining' /\ DigitsFit'
  <2>1. Places - idx' = Places
    BY <1>1, <1>4
  <2> QED
    BY <1>1, <2>1 DEF Remaining, DigitsFit
<1> QED
  BY <1>6, <1>7, <1>8, <1>9 DEF IInv

(* Every conversion keeps IInv.                                            *)
LEMMA ConveyStep ==
  ASSUME IInv, Convey
  PROVE  IInv'
<1>1. /\ call \in Calls /\ ptrbits \in PtrWidths /\ least \in LeastOutcomes(ptrbits)
  BY DEF IInv, TypeOK, Widths
<1>2. CASE Literal
  <2>1. pc = "scan" /\ Here(call, ptr, arg) /\ At(ptr) \notin {"%", NUL}
    BY <1>2 DEF Literal, IInv, Standing
  <2>2. Memory(call)[ptr] \notin {"%", NUL}
    BY <2>1 DEF At
  <2>3. Here(call, ptr + 1, arg) /\ ptr \in 1..Len(Memory(call))
    BY <1>1, <2>1, <2>2, HereNext, HereBounds
  <2>4. At(ptr) \in Char /\ arg + 0 = arg
    BY <1>1, <2>3, MemoryEnds DEF At, IInv, TypeOK
  <2> QED
    BY <1>2, <2>1, <2>3, <2>4, PlainStep DEF Literal
<1>3. CASE Signed
  <2>1. PICK k \in {"d", "i"} : Conversion(k)
    BY <1>3 DEF Signed
  <2>2. k \in Known \ {"%"} /\ pc = "scan"
    BY <2>1 DEF Known, Conversion
  <2>3. Here(call, ptr + 2, arg + 1) /\ Suits(k, Arg)
    BY <2>1, <2>2, Taken
  <2>4. Arg \in LeastInt..(-LeastInt - 1)
    BY <2>1, <2>3 DEF Suits
  <2> DEFINE minus == IF Arg = LeastInt THEN least ELSE -Arg
  <2>5. minus = IF Arg = LeastInt THEN least ELSE -Arg
    OBVIOUS
  <2>6. <<>> \in Seq(Char) /\ <<"-">> \in Seq(Char)
    BY OwnCharacters
  <2>7. IF Arg >= 0 THEN Number(<<>>, Arg, 10) ELSE Number(<<"-">>, minus, 10)
    BY <1>3 DEF Signed
  <2> HIDE DEF minus
  <2>8. /\ LeastInt \in Int /\ LeastInt <= -1
        /\ Power(2, IntBits) \in Nat /\ Power(2, IntBits) = -LeastInt - LeastInt
        /\ Power(2, ptrbits) \in Nat /\ Power(2, IntBits) <= Power(2, ptrbits)
        /\ Power(10, Places) \in Nat /\ Power(2, ptrbits) <= Power(10, Places)
    BY <1>1, Sizes
  <2>9. least = -LeastInt \/ least = Power(2, ptrbits) + LeastInt
    BY <1>1 DEF LeastOutcomes
  <2>10. CASE Arg >= 0
    <3>1. Arg \in Nat /\ Arg < Power(2, ptrbits) /\ Arg < Power(10, Places)
      BY <2>4, <2>8, <2>10
    <3> QED
      BY <2>2, <2>3, <2>6, <2>7, <2>10, <3>1, NumberStep
  <2>11. CASE ~(Arg >= 0)
    <3>1. minus \in Nat /\ minus < Power(2, ptrbits) /\ minus < Power(10, Places)
      BY <2>4, <2>5, <2>8, <2>9, <2>11
    <3> QED
      BY <2>2, <2>3, <2>6, <2>7, <2>11, <3>1, NumberStep
  <2> QED
    BY <2>10, <2>11
<1>4. CASE UnsignedNumber
  <2>1. PICK k \in {"u", "x", "o"} :
          /\ Conversion(k)
          /\ Number(IF k = "o" THEN <<"0">> ELSE <<>>, Unsigned(Arg, IntBits),
                    CASE k = "u" -> 10 [] k = "x" -> 16 [] k = "o" -> 8)
    BY <1>4 DEF UnsignedNumber
  <2>2. k \in Known \ {"%"} /\ pc = "scan"
    BY <2>1 DEF Known, Conversion
  <2>3. Here(call, ptr + 2, arg + 1) /\ Suits(k, Arg)
    BY <2>1, <2>2, Taken
  <2>4. Arg \in Int
    BY <2>1, <2>3 DEF Suits
  <2> DEFINE n == Unsigned(Arg, IntBits)
  <2>5. n \in Nat /\ n < Power(2, IntBits)
    BY <2>4, UnsignedFits
  <2>6. /\ Power(2, IntBits) \in Nat
        /\ Power(2, ptrbits) \in Nat /\ Power(2, IntBits) <= Power(2, ptrbits)
        /\ Power(8, Places) \in Nat /\ Power(2, IntBits) <= Power(8, Places)
        /\ Power(10, Places) \in Nat /\ Power(2, ptrbits) <= Power(10, Places)
        /\ Power(16, Places) \in Nat /\ Power(2, ptrbits) <= Power(16, Places)
    BY <1>1, Sizes
  <2>7. <<>> \in Seq(Char) /\ <<"0">> \in Seq(Char)
    BY OwnCharacters
  <2> HIDE DEF n
  <2>8. /\ n < Power(2, ptrbits)
        /\ n < Power(8, Places) /\ n < Power(10, Places) /\ n < Power(16, Places)
    BY <2>5, <2>6
  <2>9. \/ Number(<<>>, n, 10) \/ Number(<<>>, n, 16) \/ Number(<<"0">>, n, 8)
    BY <2>1 DEF n
  <2> QED
    BY <2>2, <2>3, <2>5, <2>7, <2>8, <2>9, NumberStep
<1>5. CASE Pointer
  <2>1. PICK k \in {"p", "a"} : Conversion(k)
    BY <1>5 DEF Pointer
  <2>2. k \in Known \ {"%"} /\ pc = "scan"
    BY <2>1 DEF Known, Conversion
  <2>3. Here(call, ptr + 2, arg + 1) /\ Suits(k, Arg)
    BY <2>1, <2>2, Taken
  <2>4. Arg \in Int
    BY <2>1, <2>3 DEF Suits
  <2>5. /\ Unsigned(Arg, ptrbits) \in Nat
        /\ Unsigned(Arg, ptrbits) < Power(2, ptrbits)
    BY <1>1, <2>4, UnsignedFits
  <2>6. /\ Power(2, ptrbits) \in Nat
        /\ Power(16, Places) \in Nat /\ Power(2, ptrbits) <= Power(16, Places)
    BY <1>1, Sizes
  <2>7. Unsigned(Arg, ptrbits) < Power(16, Places)
    BY <2>5, <2>6
  <2>8. <<"0", "x">> \in Seq(Char)
    BY OwnCharacters
  <2> QED
    BY <1>5, <2>2, <2>3, <2>5, <2>7, <2>8, NumberStep DEF Pointer
<1>6. CASE String
  <2>1. Conversion("s") /\ "s" \in Known \ {"%"} /\ pc = "scan"
    BY <1>6 DEF String, Known, Conversion
  <2>2. Here(call, ptr + 2, arg + 1) /\ Suits("s", Arg)
    BY <2>1, Taken
  <2>3. Arg = NULL \/ Arg \in Seq(Char)
    BY <2>2 DEF Suits
  <2>4. (IF Arg = NULL THEN Null ELSE Arg) \in Seq(Char)
    BY <2>3, OwnCharacters
  <2> QED
    BY <1>6, <2>1, <2>2, <2>4, TextStep DEF String
<1>7. CASE Character
  <2>1. Conversion("c") /\ "c" \in Known \ {"%"} /\ pc = "scan"
    BY <1>7 DEF Character, Known, Conversion
  <2>2. Here(call, ptr + 2, arg + 1) /\ Suits("c", Arg)
    BY <2>1, Taken
  <2>3. Arg \in Char
    BY <2>2 DEF Suits
  <2> QED
    BY <1>7, <2>1, <2>2, <2>3, PlainStep DEF Character
<1>8. ASSUME pc = "scan", At(ptr) = "%", At(ptr + 1) \notin Known \ {"%"}
      PROVE  Here(call, ptr + 2, arg + 0) /\ At(ptr + 1) \in Char
  <2>1. Here(call, ptr, arg) /\ Memory(call)[ptr] = "%"
    BY <1>8 DEF At, IInv, Standing
  <2>2. ~Takes(Memory(call), ptr)
    BY <1>8 DEF At, Takes
  <2>3. Memory(call)[ptr] # NUL
    BY <2>1, OwnCharacters
  <2>4. Here(call, ptr + 2, arg) /\ ptr + 1 \in 2..Len(Memory(call))
    BY <1>1, <2>1, <2>2, <2>3, HereNext
  <2>5. arg + 0 = arg
    BY DEF IInv, TypeOK
  <2>6. At(ptr + 1) \in Char
    BY <1>1, <2>4, MemoryEnds DEF At
  <2> QED
    BY <2>4, <2>5, <2>6
<1>9. CASE Percent
  <2>1. pc = "scan" /\ At(ptr) = "%" /\ At(ptr + 1) = "%" /\ Plain("%", 2, 0)
    BY <1>9 DEF Percent, Conversion
  <2>2. "%" \in Char
    BY OwnCharacters
  <2> QED
    BY <2>1, <2>2, <1>8, PlainStep
<1>10. CASE Unknown
  <2>1. pc = "scan" /\ At(ptr) = "%" /\ At(ptr + 1) \notin Known
        /\ Text(<<"%", At(ptr + 1)>>, 0)
    BY <1>10 DEF Unknown
  <2>2. Here(call, ptr + 2, arg + 0) /\ At(ptr + 1) \in Char
    BY <2>1, <1>8
  <2>3. <<"%", At(ptr + 1)>> \in Seq(Char)
    BY <2>2, OwnCharacters
  <2> QED
    BY <2>1, <2>2, <2>3, TextStep
<1> QED
  BY <1>2, <1>3, <1>4, <1>5, <1>6, <1>7, <1>9, <1>10 DEF Convey

(* A round of printuint's first loop keeps IInv, and finds a place.        *)
LEMMA ConvertStep ==
  ASSUME IInv, Convert
  PROVE  IInv'
<1>1. /\ pc = "convert" /\ u < Power(base, Places - idx) /\ (idx # 0 => u # 0)
      /\ base \in {8, 10, 16} /\ idx \in 0..Places /\ u \in Nat
      /\ buff \in [1..Places -> Char]
  <2>1. Power(2, ptrbits) \in Nat
    BY Sizes DEF IInv, Widths
  <2> QED
    BY <2>1 DEF Convert, IInv, Remaining, TypeOK
<1>2. Places \in Nat \ {0} /\ Power(2, ptrbits) \in Nat
  BY Sizes DEF IInv, Widths
<1>3. idx # Places
  <2> SUFFICES ASSUME idx = Places PROVE FALSE
    OBVIOUS
  <2>1. Power(base, 0) = 1
    BY <1>1, PowerZero DEF Bases
  <2>2. Places - idx = 0
    BY <1>2
  <2> QED
    BY <1>1, <1>2, <2>1, <2>2
<1> DEFINE left == Places - (idx + 1)
<1>4. left \in Nat /\ left + 1 = Places - idx
  BY <1>1, <1>2, <1>3
<1>5. u \div base \in Nat /\ u \div base < Power(base, left) /\ u % base \in 0..15
  BY <1>1, <1>4, OneDigitLess
<1>6. /\ buff' = [buff EXCEPT ![idx + 1] = Digits[(u % base) + 1]]
      /\ idx' = idx + 1 /\ u' = u \div base
      /\ pc' = IF u' = 0 THEN "unwind" ELSE "convert"
      /\ UNCHANGED <<ptrbits, least, call, before, calls, ptr, arg, base, str, printed>>
  BY <1>3 DEF Convert, callVars
<1>7. u' \in 0..(Power(2, ptrbits) - 1)
  <2>1. u \div base <= u
    BY <1>1
  <2> QED
    BY <1>2, <1>5, <1>6, <2>1 DEF IInv, TypeOK
<1>8. buff' \in [1..Places -> Char] /\ idx' \in 0..Places
  <2>1. Digits[(u % base) + 1] \in Char
    BY <1>5, OwnCharacters
  <2> QED
    BY <1>1, <1>2, <1>3, <1>6, <2>1
<1>9. TypeOK'
  BY <1>6, <1>7, <1>8 DEF IInv, TypeOK
<1>10. Widths'
  BY <1>6 DEF IInv, Widths
<1>11. Standing'
  BY <1>1, <1>6 DEF IInv, Standing
<1>12. Remaining'
  <2>1. u' < Power(base', Places - idx')
    BY <1>5, <1>6
  <2> QED
    BY <1>6, <2>1 DEF Remaining
<1>13. DigitsFit'
  BY <1>6 DEF DigitsFit
<1> QED
  BY <1>9, <1>10, <1>11, <1>12, <1>13 DEF IInv

(* A round of its second loop, and the end of it, keep IInv.               *)
LEMMA UnwindStep ==
  ASSUME IInv, Unwind
  PROVE  IInv'
<1>1. /\ call \in Calls /\ idx \in 0..Places /\ Places \in Nat
      /\ buff \in [1..Places -> Char] /\ printed \in Seq(Char)
      /\ Here(call, ptr + 2, arg) /\ pc = "unwind"
  BY PlacesAssumption DEF IInv, TypeOK, Standing, Unwind
<1>2. UNCHANGED <<ptrbits, least, call, before, calls, arg, u, base, buff, str>>
  BY DEF Unwind, callVars
<1>3. CASE idx > 0
  <2>1. /\ printed' = Append(printed, buff[idx]) /\ idx' = idx - 1
        /\ UNCHANGED <<pc, ptr>>
    BY <1>3 DEF Unwind
  <2>2. buff[idx] \in Char
    BY <1>1, <1>3
  <2>3. printed' \in Seq(Char) /\ before' \in 0..Len(printed') /\ idx' \in 0..Places
    BY <1>1, <1>2, <1>3, <2>1, <2>2 DEF IInv, TypeOK
  <2>4. TypeOK'
    BY <1>2, <2>1, <2>3 DEF IInv, TypeOK
  <2> QED
    BY <1>1, <1>2, <2>1, <2>4 DEF IInv, Widths, Standing, Remaining, DigitsFit
<1>4. CASE ~(idx > 0)
  <2>1. pc' = "scan" /\ ptr' = ptr + 2 /\ UNCHANGED <<printed, idx>>
    BY <1>4 DEF Unwind
  <2>2. Here(call', ptr', arg')
    BY <1>1, <1>2, <2>1
  <2>3. ptr' \in 0..Len(Memory(call))
    BY <1>1, <2>1, HereBounds
  <2>4. TypeOK'
    BY <1>2, <2>1, <2>3 DEF IInv, TypeOK
  <2> QED
    BY <1>2, <2>1, <2>2, <2>4 DEF IInv, Widths, Standing, Remaining, DigitsFit
<1> QED
  BY <1>3, <1>4

(* A round of printstr, and the end of it, keep IInv.                      *)
LEMMA PrintStrStep ==
  ASSUME IInv, PrintStr
  PROVE  IInv'
<1>1. /\ call \in Calls /\ str \in Seq(Char) /\ printed \in Seq(Char)
      /\ Here(call, ptr + 2, arg) /\ pc \in {"string", "prefix"}
  BY DEF IInv, TypeOK, Standing, PrintStr
<1>2. UNCHANGED <<ptrbits, least, call, before, calls, arg, u, base, buff, idx>>
  BY DEF PrintStr, callVars
<1>3. CASE str # <<>>
  <2>1. /\ printed' = Append(printed, Head(str)) /\ str' = Tail(str)
        /\ UNCHANGED <<pc, ptr>>
    BY <1>3 DEF PrintStr
  <2>2. Head(str) \in Char /\ Tail(str) \in Seq(Char)
    BY <1>1, <1>3
  <2>3. printed' \in Seq(Char) /\ before' \in 0..Len(printed') /\ str' \in Seq(Char)
    BY <1>1, <1>2, <2>1, <2>2 DEF IInv, TypeOK
  <2>4. TypeOK'
    BY <1>2, <2>1, <2>3 DEF IInv, TypeOK
  <2> QED
    BY <1>1, <1>2, <2>1, <2>4 DEF IInv, Widths, Standing, Remaining, DigitsFit
<1>4. CASE str = <<>> /\ pc = "prefix"
  <2>1. pc' = "convert" /\ UNCHANGED <<printed, str, ptr>>
    BY <1>4 DEF PrintStr
  <2>2. TypeOK'
    BY <1>2, <2>1 DEF IInv, TypeOK
  <2> QED
    BY <1>1, <1>2, <1>4, <2>1, <2>2 DEF IInv, Widths, Standing, Remaining, DigitsFit
<1>5. CASE str = <<>> /\ pc = "string"
  <2>1. pc' = "scan" /\ ptr' = ptr + 2 /\ UNCHANGED <<printed, str>>
    BY <1>5 DEF PrintStr
  <2>2. Here(call', ptr', arg')
    BY <1>1, <1>2, <2>1
  <2>3. ptr' \in 0..Len(Memory(call))
    BY <1>1, <2>1, HereBounds
  <2>4. TypeOK'
    BY <1>2, <2>1, <2>3 DEF IInv, TypeOK
  <2> QED
    BY <1>2, <2>1, <2>2, <2>4 DEF IInv, Widths, Standing, Remaining, DigitsFit
<1> QED
  BY <1>1, <1>3, <1>4, <1>5

(* The invariant holds when the kernel starts.                             *)
LEMMA InitIInv == Init => IInv
<1> SUFFICES ASSUME Init PROVE IInv
  OBVIOUS
<1>1. ptrbits \in PtrWidths /\ least \in LeastOutcomes(ptrbits) /\ call \in Calls
  BY CallsAssumption DEF Init
<1>2. /\ pc = "idle" /\ ptr = 0 /\ arg = 1 /\ u = 0 /\ base = 10
      /\ buff = [i \in 1..Places |-> NUL] /\ idx = 0
      /\ str = <<>> /\ printed = <<>> /\ before = 0 /\ calls = 0
  BY DEF Init
<1>3. /\ Power(2, ptrbits) \in Nat /\ Power(2, ptrbits) >= 1
      /\ Places \in Nat /\ Len(Memory(call)) \in Nat /\ Len(call.args) \in Nat
  <2>1. ptrbits \in Nat /\ 2 \in Bases
    BY <1>1, WidthAssumption DEF Bases
  <2> QED
    BY <1>1, <2>1, PowerPositive, PlacesAssumption, MemoryEnds, CallsAssumption
<1>4. NUL \in Char
  BY DEF Char
<1>5. TypeOK
  BY <1>1, <1>2, <1>3, <1>4 DEF TypeOK
<1> QED
  BY <1>1, <1>2, <1>5 DEF IInv, Widths, Standing, Remaining, DigitsFit

(* Every step keeps IInv.                                                  *)
LEMMA NextIInv == IInv /\ [Next]_vars => IInv'
<1> SUFFICES ASSUME IInv, [Next]_vars PROVE IInv'
  OBVIOUS
<1>1. ASSUME NEW c \in Calls, Call(c) PROVE IInv'
  <2>1. /\ call' = c /\ pc' = "scan" /\ ptr' = 1 /\ arg' = 1
        /\ before' = Len(printed) /\ calls' = calls + 1
        /\ UNCHANGED <<ptrbits, least, u, base, buff, idx, str, printed>>
    BY <1>1 DEF Call
  <2>2. Here(call', ptr', arg')
    BY <2>1, HereAtStart
  <2>3. /\ ptr' \in 0..Len(Memory(call')) /\ arg' \in 1..(Len(call'.args) + 1)
    <3>1. Len(Memory(c)) \in Nat \ {0} /\ Len(c.args) \in Nat
      BY MemoryEnds, CallsAssumption
    <3> QED
      BY <2>1, <3>1
  <2>4. before' \in 0..Len(printed') /\ calls' \in Nat
    BY <2>1 DEF IInv, TypeOK
  <2>5. TypeOK'
    BY <2>1, <2>3, <2>4 DEF IInv, TypeOK
  <2> QED
    BY <2>1, <2>2, <2>5 DEF IInv, Widths, Standing, Remaining, DigitsFit
<1>2. CASE Return
  <2>1. /\ pc' = "idle"
        /\ UNCHANGED <<ptrbits, least, call, before, calls, ptr, arg, u, base,
                       buff, idx, str, printed>>
    BY <1>2 DEF Return, callVars
  <2>2. TypeOK'
    BY <2>1 DEF IInv, TypeOK
  <2> QED
    BY <2>1, <2>2 DEF IInv, Widths, Standing, Remaining, DigitsFit
<1>3. CASE UNCHANGED vars
  <2>1. UNCHANGED <<ptrbits, least, call, pc, ptr, arg, u, base, buff, idx, str,
                    printed, before, calls>>
    BY <1>3 DEF vars
  <2>2. TypeOK'
    BY <2>1 DEF IInv, TypeOK
  <2> QED
    BY <2>1, <2>2 DEF IInv, Widths, Standing, Remaining, DigitsFit
<1> QED
  BY <1>1, <1>2, <1>3, ConveyStep, ConvertStep, UnwindStep, PrintStrStep DEF Next

(* The state of printk is what TypeOK says, whatever the calls: the format *)
(* pointer stays in memory and every argument a conversion takes is there. *)
THEOREM TypeCorrect == Spec => []TypeOK
<1>1. IInv => TypeOK
  BY DEF IInv
<1> QED
  BY InitIInv, NextIInv, <1>1, PTL DEF Spec

(* The digit buffer is never overrun: at every width, a buffer that holds  *)
(* the decimal digits of the widest value and the octal digits of an int   *)
(* holds every number printk prints, whatever the build makes of minus the *)
(* least int (printk.c:57).                                                *)
THEOREM BufferHoldsDigits == Spec => []DigitsFit
<1>1. IInv => DigitsFit
  BY DEF IInv
<1> QED
  BY InitIInv, NextIInv, <1>1, PTL DEF Spec

----------------------------------------------------------------------------
(* Numerals.                                                               *)

(* n to the base b has len digits.                                         *)
Length(n, b, len) ==
  len \in Nat \ {0} /\ Power(b, len) > n /\ (len = 1 \/ Power(b, len - 1) <= n)

(* Every number has a length.                                              *)
LEMMA LengthExists ==
  ASSUME NEW b \in Bases, NEW n \in Nat
  PROVE  \E len : Length(n, b, len)
<1> DEFINE S == {m \in Nat : Power(b, m) <= n \/ m = 0 \/ \E len : Length(n, b, len)}
<1>1. 0 \in S
  OBVIOUS
<1>2. ASSUME NEW m \in Nat, m \in S PROVE m + 1 \in S
  <2>1. Power(b, m + 1) \in Nat /\ (m + 1) - 1 = m
    BY PowerUp
  <2>2. CASE Power(b, m + 1) <= n \/ \E len : Length(n, b, len)
    BY <2>2
  <2>3. CASE Power(b, m + 1) > n /\ (m = 0 \/ Power(b, m) <= n)
    <3>1. Length(n, b, m + 1)
      BY <2>1, <2>3 DEF Length
    <3> QED
      BY <3>1
  <2> QED
    BY <1>2, <2>1, <2>2, <2>3
<1>3. n \in S
  <2> HIDE DEF S
  <2> QED
    BY <1>1, <1>2, Induction
<1>4. CASE n = 0
  <2>1. Power(b, 1) \in Nat /\ Power(b, 1) >= 1
    BY PowerPositive
  <2>2. Length(n, b, 1)
    BY <1>4, <2>1 DEF Length
  <2> QED
    BY <2>2
<1>5. CASE n # 0
  BY <1>3, <1>5, PowerExceeds
<1> QED
  BY <1>4, <1>5

(* Numeral has that many digits.                                           *)
LEMMA NumeralOfLength ==
  ASSUME NEW b \in Bases, NEW n \in Nat, NEW len, Length(n, b, len)
  PROVE  Numeral(n, b) = [i \in 1..len |-> Digits[((n \div Power(b, len - i)) % b) + 1]]
<1> DEFINE Is(k) == Power(b, k) > n /\ (k = 1 \/ Power(b, k - 1) <= n)
           it == CHOOSE k \in 1..(n + 1) : Is(k)
<1>1. len \in Nat \ {0} /\ Is(len)
  BY DEF Length
<1>2. len \in 1..(n + 1)
  <2>1. CASE len = 1
    BY <2>1
  <2>2. CASE len # 1
    <3>1. len - 1 \in Nat
      BY <1>1
    <3>2. Power(b, len - 1) \in Nat /\ len - 1 < Power(b, len - 1)
      BY <3>1, PowerExceeds
    <3> QED
      BY <1>1, <2>2, <3>2
  <2> QED
    BY <2>1, <2>2
<1>3. it \in 1..(n + 1) /\ Is(it)
  <2> HIDE DEF Is
  <2> QED
    BY <1>1, <1>2
<1>4. ASSUME NEW k \in Nat \ {0}, NEW l \in Nat \ {0}, Is(k), Is(l)
      PROVE  ~(k < l)
  <2> SUFFICES ASSUME k < l PROVE FALSE
    OBVIOUS
  <2>1. l - 1 \in Nat /\ k <= l - 1 /\ l # 1
    OBVIOUS
  <2>2. Power(b, k) <= Power(b, l - 1)
    BY <2>1, PowerGrows
  <2>3. Power(b, k) \in Nat /\ Power(b, l - 1) \in Nat
    BY <2>1, PowerPositive
  <2> QED
    BY <1>4, <2>1, <2>2, <2>3
<1>5. Numeral(n, b) = [i \in 1..it |-> Digits[((n \div Power(b, it - i)) % b) + 1]]
  BY DEF Numeral
<1>6. it = len
  <2> HIDE DEF it, Is
  <2> QED
    BY <1>1, <1>3, <1>4
<1> HIDE DEF it
<1> QED
  BY <1>5, <1>6

(* What a quotient is.                                                     *)
LEMMA QuotientIs ==
  ASSUME NEW n \in Nat, NEW d \in Nat \ {0}
  PROVE  /\ n \div d \in Nat
         /\ d * (n \div d) <= n /\ n < d * (n \div d) + d
         /\ \A t \in Nat : d * t <= n /\ n < d * t + d => n \div d = t
<1>1. n \div d \in Nat /\ d * (n \div d) <= n /\ n < d * (n \div d) + d
  OBVIOUS
<1>2. ASSUME NEW t \in Nat, d * t <= n, n < d * t + d PROVE n \div d = t
  <2> DEFINE q == n \div d
  <2>1. q \in Nat /\ d * q <= n /\ n < d * q + d
    BY <1>1
  <2> HIDE DEF q
  <2>2. CASE q < t
    <3>1. PICK x \in Nat : t = q + 1 + x
      BY <2>1, <2>2, t = q + 1 + (t - q - 1)
    <3>2. d * t = d * q + d + d * x /\ d * x \in Nat
      BY <2>1, <3>1
    <3> QED
      BY <1>2, <2>1, <3>2
  <2>3. CASE t < q
    <3>1. PICK x \in Nat : q = t + 1 + x
      BY <2>1, <2>3, q = t + 1 + (q - t - 1)
    <3>2. d * q = d * t + d + d * x /\ d * x \in Nat
      BY <2>1, <3>1
    <3> QED
      BY <1>2, <2>1, <3>2
  <2> QED
    BY <2>1, <2>2, <2>3 DEF q
<1> QED
  BY <1>1, <1>2

(* Dividing by a base and then by a power of it is dividing by the next.   *)
LEMMA DivideTwice ==
  ASSUME NEW b \in {8, 10, 16}, NEW n \in Nat, NEW e \in Nat
  PROVE  (n \div b) \div Power(b, e) = n \div Power(b, e + 1)
<1> DEFINE d == Power(b, e)
           q == n \div b
           t == q \div d
<1>1. b \in Bases
  BY DEF Bases
<1>2. d \in Nat \ {0} /\ Power(b, e + 1) = b * d /\ b * d \in Nat \ {0}
  <2>1. d \in Nat /\ d >= 1 /\ Power(b, e + 1) = b * d
    BY <1>1, PowerPositive, PowerUp
  <2>2. b * d >= d + d /\ b * d \in Nat
    BY <1>1, <2>1, TimesBase
  <2> HIDE DEF d
  <2> QED
    BY <2>1, <2>2
<1>3. q \in Nat /\ b * q <= n /\ n < b * q + b
  BY QuotientIs
<1>4. t \in Nat /\ d * t <= q /\ q < d * t + d
  BY <1>2, <1>3, QuotientIs
<1> HIDE DEF d, q, t
<1>5. (b * d) * t <= n /\ n < (b * d) * t + b * d
  <2> DEFINE x == d * t
  <2>1. x \in Nat /\ x <= q /\ q + 1 <= x + d
    BY <1>2, <1>3, <1>4
  <2>2. (b * d) * t = b * x
    BY <1>2, <1>4
  <2> HIDE DEF x
  <2>3. b * x <= n /\ n < b * x + b * d
    <3>1. CASE b = 8
      BY <1>2, <1>3, <2>1, <3>1
    <3>2. CASE b = 10
      BY <1>2, <1>3, <2>1, <3>2
    <3>3. CASE b = 16
      BY <1>2, <1>3, <2>1, <3>3
    <3> QED
      BY <3>1, <3>2, <3>3
  <2> QED
    BY <2>2, <2>3
<1>6. n \div (b * d) = t
  BY <1>2, <1>4, <1>5, QuotientIs
<1> QED
  BY <1>2, <1>6 DEF d, q, t

(* The numeral of a number of more than one digit is that of its quotient, *)
(* then the remainder.                                                     *)
LEMMA NumeralSplits ==
  ASSUME NEW b \in {8, 10, 16}, NEW n \in Nat
  PROVE  Numeral(n, b) =
           IF n \div b = 0 THEN <<Digits[(n % b) + 1]>>
           ELSE Numeral(n \div b, b) \o <<Digits[(n % b) + 1]>>
<1> DEFINE q == n \div b
           last == Digits[(n % b) + 1]
<1>1. b \in Bases /\ Power(b, 0) = 1
  BY PowerZero DEF Bases
<1>2. q \in Nat /\ b * q <= n /\ n < b * q + b
  BY QuotientIs
<1>3. n \div 1 = n
  BY QuotientIs
<1>4. CASE q = 0
  <2>1. Power(b, 1) = b
    <3>1. Power(b, 0 + 1) = b * Power(b, 0)
      BY <1>1, PowerUp
    <3> QED
      BY <1>1, <3>1
  <2>2. Length(n, b, 1)
    BY <1>2, <1>4, <2>1 DEF Length
  <2>3. Numeral(n, b) = [i \in 1..1 |-> Digits[((n \div Power(b, 1 - i)) % b) + 1]]
    BY <1>1, <2>2, NumeralOfLength
  <2>4. \A i \in 1..1 : i = 1 /\ Digits[((n \div Power(b, 1 - i)) % b) + 1] = last
    BY <1>1, <1>3
  <2> HIDE DEF last
  <2>5. Numeral(n, b) = [i \in 1..1 |-> last]
    BY <2>3, <2>4
  <2>6. [i \in 1..1 |-> last] = <<last>>
    OBVIOUS
  <2> QED
    BY <1>4, <2>5, <2>6 DEF last
<1>5. CASE q # 0
  <2>1. PICK len : Length(q, b, len)
    BY <1>1, <1>2, LengthExists
  <2>2. /\ len \in Nat \ {0} /\ Power(b, len) > q
        /\ len = 1 \/ Power(b, len - 1) <= q
    BY <2>1 DEF Length
  <2>3. Length(n, b, len + 1)
    <3>1. Power(b, len) \in Nat /\ Power(b, len + 1) = b * Power(b, len)
      BY <1>1, <2>2, PowerUp
    <3>2. Power(b, len + 1) > n
      <4>1. CASE b = 8
        BY <1>2, <2>2, <3>1, <4>1
      <4>2. CASE b = 10
        BY <1>2, <2>2, <3>1, <4>2
      <4>3. CASE b = 16
        BY <1>2, <2>2, <3>1, <4>3
      <4> QED
        BY <4>1, <4>2, <4>3
    <3>3. Power(b, len) <= n
      <4>1. len - 1 \in Nat /\ (len - 1) + 1 = len
        BY <2>2
      <4>2. Power(b, len - 1) \in Nat /\ Power(b, len) = b * Power(b, len - 1)
        BY <1>1, <4>1, PowerUp
      <4>3. Power(b, len - 1) <= q
        BY <1>1, <1>2, <1>5, <2>2, <4>1
      <4>4. CASE b = 8
        BY <1>2, <4>2, <4>3, <4>4
      <4>5. CASE b = 10
        BY <1>2, <4>2, <4>3, <4>5
      <4>6. CASE b = 16
        BY <1>2, <4>2, <4>3, <4>6
      <4> QED
        BY <4>4, <4>5, <4>6
    <3> QED
      BY <2>2, <3>2, <3>3 DEF Length
  <2> DEFINE digit(i) == Digits[((n \div Power(b, (len + 1) - i)) % b) + 1]
             s == Numeral(q, b)
  <2>4. Numeral(n, b) = [i \in 1..(len + 1) |-> digit(i)]
    BY <1>1, <2>3, NumeralOfLength
  <2>5. s = [i \in 1..len |-> Digits[((q \div Power(b, len - i)) % b) + 1]]
    BY <1>1, <1>2, <2>1, NumeralOfLength
  <2>6. ASSUME NEW i \in 1..len PROVE s[i] = digit(i)
    <3>1. len - i \in Nat /\ (len - i) + 1 = (len + 1) - i
      BY <2>2
    <3>2. q \div Power(b, len - i) = n \div Power(b, (len + 1) - i)
      BY <3>1, DivideTwice
    <3>3. s[i] = Digits[((q \div Power(b, len - i)) % b) + 1]
      BY <2>5
    <3> HIDE DEF q, s
    <3> QED
      BY <3>2, <3>3
  <2>7. digit(len + 1) = last
    BY <1>1, <1>3, <2>2
  <2> HIDE DEF digit, last, s
  <2>8. s \o <<last>> = [i \in 1..(len + 1) |-> digit(i)]
    <3>1. s = [i \in 1..len |-> s[i]]
      BY <2>5
    <3>2. s \in Seq({s[i] : i \in 1..len}) /\ Len(s) = len
      BY <2>2, <3>1
    <3>3. /\ s \o <<last>> = [i \in 1..(len + 1) |->
                                IF i <= len THEN s[i] ELSE last]
      BY <2>2, <3>2
    <3>4. \A i \in 1..(len + 1) : (IF i <= len THEN s[i] ELSE last) = digit(i)
      BY <2>2, <2>6, <2>7
    <3> QED
      BY <3>3, <3>4
  <2> QED
    BY <1>5, <2>4, <2>8 DEF last, s
<1> QED
  BY <1>4, <1>5

----------------------------------------------------------------------------
(* What has been printed, against the text.                                *)

(* After the text t, the loop of call c stands at p with argument k next;  *)
(* minus and w are what the build makes of the least int and uintptr_t.    *)
Told(c, minus, w, p, k, t) ==
  \E n \in 0..Len(Memory(c)) :
    /\ Walk(Memory(c))[n] = <<p, k>>
    /\ Upto(Memory(c), c.args, minus, w)[n] = t

(* What the call has printed so far.                                       *)
Since == SubSeq(printed, before + 1, Len(printed))

(* The first n places of a buffer backwards: the digits in the order they  *)
(* are printed.                                                            *)
Backwards(f, n) == [i \in 1..n |-> f[n + 1 - i]]
Left == Backwards(buff, idx)

(* What is still to print of the conversion in progress.                   *)
Due ==
  CASE pc = "scan" -> <<>>
    [] pc = "string" -> str
    [] pc = "prefix" -> str \o Numeral(u, base)
    [] pc = "convert" -> Numeral(u, base) \o Left
    [] pc = "unwind" -> Left

(* What was printed and what is due is the text up to where the conversion *)
(* in progress ends; when the call has returned, the whole text.           *)
TextInv ==
  /\ pc = "scan" => Told(call, least, ptrbits, ptr, arg, Since \o Due)
  /\ pc \in {"string", "prefix", "convert", "unwind"} =>
       Told(call, least, ptrbits, ptr + 2, arg, Since \o Due)
  /\ pc = "idle" /\ calls > 0 => Since = TextOf(call, least, ptrbits)

(* A numeral is made of characters.                                        *)
LEMMA NumeralType ==
  ASSUME NEW b \in {8, 10, 16}, NEW n \in Nat
  PROVE  Numeral(n, b) \in Seq(Char)
<1>1. b \in Bases
  BY DEF Bases
<1>2. PICK len : Length(n, b, len)
  BY <1>1, LengthExists
<1>3. Numeral(n, b) = [i \in 1..len |-> Digits[((n \div Power(b, len - i)) % b) + 1]]
  BY <1>1, <1>2, NumeralOfLength
<1>4. len \in Nat
  BY <1>2 DEF Length
<1>5. ASSUME NEW i \in 1..len
      PROVE  Digits[((n \div Power(b, len - i)) % b) + 1] \in Char
  <2>1. len - i \in Nat
    BY <1>4
  <2>2. Power(b, len - i) \in Nat \ {0}
    BY <1>1, <2>1, PowerPositive
  <2>3. n \div Power(b, len - i) \in Nat
    BY <2>2, QuotientIs
  <2> DEFINE q == n \div Power(b, len - i)
  <2> HIDE DEF q
  <2>4. q \in Nat
    BY <2>3 DEF q
  <2>5. (q % b) + 1 \in 1..16
    BY <2>4
  <2> QED
    BY <2>5, OwnCharacters DEF q
<1> QED
  BY <1>3, <1>4, <1>5

(* So is what a conversion shows of an argument it can take.               *)
LEMMA ConvertedType ==
  ASSUME NEW k \in Known \ {"%"}, NEW x, Suits(k, x), NEW w \in PtrWidths,
         NEW minus \in LeastOutcomes(w)
  PROVE  Converted(k, x, minus, w) \in Seq(Char)
<1>1. <<"-">> \in Seq(Char) /\ <<"0">> \in Seq(Char) /\ <<"0", "x">> \in Seq(Char)
  BY OwnCharacters
<1>2. LeastInt \in Int /\ minus \in Nat
  BY Sizes DEF LeastOutcomes
<1>3. \A s, t \in Seq(Char) : s \o t \in Seq(Char)
  OBVIOUS
<1>4. CASE k \in {"d", "i"}
  <2>0. x \in LeastInt..(-LeastInt - 1)
    BY <1>4 DEF Suits
  <2>1. x \in Int
    BY <1>2, <2>0
  <2>2. CASE x >= 0
    <3>1. Numeral(x, 10) \in Seq(Char)
      BY <2>1, <2>2, NumeralType
    <3> QED
      BY <1>4, <2>2, <3>1 DEF Converted
  <2>3. CASE ~(x >= 0)
    <3> DEFINE n == IF x = LeastInt THEN minus ELSE -x
    <3>1. n \in Nat
      BY <1>2, <2>1, <2>3
    <3> HIDE DEF n
    <3>2. Numeral(n, 10) \in Seq(Char)
      BY <3>1, NumeralType
    <3>3. Converted(k, x, minus, w) = <<"-">> \o Numeral(n, 10)
      BY <1>4, <2>3 DEF Converted, n
    <3> QED
      BY <1>1, <1>3, <3>2, <3>3
  <2> QED
    BY <2>2, <2>3
<1>5. CASE k \in {"u", "x", "o"}
  <2>1. x \in Int
    BY <1>5 DEF Suits
  <2> DEFINE n == Unsigned(x, IntBits)
  <2>2. n \in Nat
    BY <2>1, UnsignedFits
  <2> HIDE DEF n
  <2>3. Numeral(n, 8) \in Seq(Char) /\ Numeral(n, 10) \in Seq(Char) /\ Numeral(n, 16) \in Seq(Char)
    BY <2>2, NumeralType
  <2>4. Converted(k, x, minus, w) \in {Numeral(n, 10), Numeral(n, 16), <<"0">> \o Numeral(n, 8)}
    BY <1>5 DEF Converted, n
  <2> QED
    BY <1>1, <1>3, <2>3, <2>4
<1>6. CASE k \in {"p", "a"}
  <2>1. x \in Int
    BY <1>6 DEF Suits
  <2> DEFINE n == Unsigned(x, w)
  <2>2. n \in Nat
    BY <2>1, UnsignedFits
  <2> HIDE DEF n
  <2>3. Numeral(n, 16) \in Seq(Char)
    BY <2>2, NumeralType
  <2>4. Converted(k, x, minus, w) = <<"0", "x">> \o Numeral(n, 16)
    BY <1>6 DEF Converted, n
  <2> QED
    BY <1>1, <1>3, <2>3, <2>4
<1>7. CASE k = "c"
  BY <1>7 DEF Suits, Converted
<1>8. CASE k = "s"
  BY <1>8, OwnCharacters DEF Suits, Converted
<1> QED
  BY <1>4, <1>5, <1>6, <1>7, <1>8 DEF Known

(* So is what each step of the way shows.                                  *)
LEMMA ShownType ==
  ASSUME NEW c \in Calls, NEW p, NEW k, Here(c, p, k), NEW w \in PtrWidths,
         NEW minus \in LeastOutcomes(w)
  PROVE  Shown(Memory(c), c.args, <<p, k>>, minus, w) \in Seq(Char)
<1> DEFINE m == Memory(c)
<1>1. m \in Seq(Char) /\ Len(m) \in Nat /\ p \in 1..Len(m)
  BY MemoryEnds, HereBounds
<1>2. m[p] \in Char
  BY <1>1
<1>3. <<p, k>>[1] = p /\ <<p, k>>[2] = k
  OBVIOUS
<1>4. CASE m[p] = NUL
  <2>1. Shown(m, c.args, <<p, k>>, minus, w) = <<>>
    BY <1>3, <1>4, OwnCharacters DEF Shown, Takes
  <2>2. <<>> \in Seq(Char)
    OBVIOUS
  <2> QED
    BY <2>1, <2>2
<1>5. CASE m[p] \notin {"%", NUL}
  <2>1. Shown(m, c.args, <<p, k>>, minus, w) = <<m[p]>>
    BY <1>3, <1>5 DEF Shown, Takes
  <2> QED
    BY <1>2, <2>1
<1>6. CASE m[p] = "%" /\ Takes(m, p)
  <2>1. Suits(m[p + 1], c.args[k]) /\ m[p + 1] \in Known \ {"%"}
    BY <1>6, HereBounds DEF Takes
  <2>2. Shown(m, c.args, <<p, k>>, minus, w) = Converted(m[p + 1], c.args[k], minus, w)
    BY <1>3, <1>6, <2>1, OwnCharacters DEF Shown
  <2> QED
    BY <2>1, <2>2, ConvertedType
<1>7. CASE m[p] = "%" /\ ~Takes(m, p)
  <2>1. p + 1 \in 2..Len(m)
    BY <1>7, OwnCharacters, HereNext
  <2>2. m[p + 1] \in Char /\ m[p + 1] \notin Known \ {"%"}
    BY <1>1, <1>7, <2>1 DEF Takes
  <2>3. Shown(m, c.args, <<p, k>>, minus, w) \in {<<"%">>, <<"%", m[p + 1]>>}
    BY <1>3, <1>7, <2>2, OwnCharacters DEF Shown
  <2>4. <<"%">> \in Seq(Char) /\ <<"%", m[p + 1]>> \in Seq(Char)
    BY <2>2, OwnCharacters
  <2> QED
    BY <2>3, <2>4
<1> QED
  BY <1>4, <1>5, <1>6, <1>7

(* The text up to each step is that up to the one before, and what the     *)
(* step shows.                                                             *)
Readable(m, xs, minus, w) ==
  \A n \in 0..(Len(m) - 1) : Shown(m, xs, Walk(m)[n], minus, w) \in Seq(Char)
Reads(m, xs, minus, w) ==
  /\ \A n \in 0..Len(m) : Upto(m, xs, minus, w)[n] \in Seq(Char)
  /\ Upto(m, xs, minus, w)[0] = <<>>
  /\ \A n \in 1..Len(m) :
       Upto(m, xs, minus, w)[n] =
         Upto(m, xs, minus, w)[n - 1] \o Shown(m, xs, Walk(m)[n - 1], minus, w)

(* Upto reads so wherever each step shows a text.                          *)
LEMMA UptoSteps ==
  ASSUME NEW m, Len(m) \in Nat, NEW xs, NEW minus, NEW w, Readable(m, xs, minus, w)
  PROVE  Reads(m, xs, minus, w)
<1> DEFINE N == Len(m)
           V == Seq(Char)
           piece(n) == Shown(m, xs, Walk(m)[n - 1], minus, w)
           step == [i \in 1..N |-> [s \in V |-> s \o piece(i)]]
           Def(f) == f = [n \in 0..N |-> IF n = 0 THEN <<>> ELSE f[n - 1] \o piece(n)]
           text == CHOOSE f : Def(f)
<1>1. Upto(m, xs, minus, w) = text
  BY DEF Upto
<1>2. N \in Nat /\ \A i \in 1..N : piece(i) \in V
  BY DEF Readable
<1> HIDE DEF N, piece
<1>3. \A i \in 1..N : \A s \in V : s \o piece(i) \in V
  BY <1>2
<1>4. <<>> \in V
  OBVIOUS
<1> HIDE DEF V
<1>5. PICK g : g \in [0..N -> V] /\ g[0] = <<>> /\ \A i \in 1..N : g[i] = g[i - 1] \o piece(i)
  <2>1. step \in [1..N -> [V -> V]]
    BY <1>3
  <2>2. Recurrence(V, <<>>, N, step)
    BY <1>2, <1>4, <2>1 DEF Recurrence
  <2>3. PICK f : Solves(f, V, <<>>, N, step)
    BY <2>2, Recursion
  <2>4. f \in [0..N -> V] /\ f[0] = <<>> /\ \A i \in 1..N : f[i] = step[i][f[i - 1]]
    BY <2>3 DEF Solves
  <2>5. ASSUME NEW i \in 1..N PROVE f[i] = f[i - 1] \o piece(i)
    <3>1. f[i - 1] \in V
      BY <1>2, <2>4
    <3>2. step[i][f[i - 1]] = f[i - 1] \o piece(i)
      BY <3>1
    <3> QED
      BY <2>4, <3>2
  <2> QED
    BY <2>4, <2>5
<1>6. Def(g)
  <2>1. ASSUME NEW n \in 0..N
        PROVE  g[n] = IF n = 0 THEN <<>> ELSE g[n - 1] \o piece(n)
    <3>1. n = 0 \/ (n # 0 /\ n \in 1..N)
      BY <1>2
    <3> QED
      BY <1>5, <3>1
  <2> QED
    BY <2>1, <1>5
<1>7. Def(text)
  <2> HIDE DEF Def
  <2> QED
    BY <1>6
<1> HIDE DEF text
<1>8. text[0] = <<>> /\ \A i \in 1..N : text[i] = text[i - 1] \o piece(i)
  <2>1. 0 \in 0..N /\ \A i \in 1..N : i \in 0..N /\ i # 0
    BY <1>2
  <2>2. \A n \in 0..N : text[n] = IF n = 0 THEN <<>> ELSE text[n - 1] \o piece(n)
    BY <1>7
  <2> QED
    BY <2>1, <2>2
<1>9. \A n \in 0..N : text[n] \in V
  <2> DEFINE S == {n \in Nat : n <= N => text[n] \in V}
  <2>1. 0 \in S
    BY <1>4, <1>8
  <2>2. ASSUME NEW n \in Nat, n \in S PROVE n + 1 \in S
    <3> SUFFICES ASSUME n + 1 <= N PROVE text[n + 1] \in V
      OBVIOUS
    <3>1. n + 1 \in 1..N /\ (n + 1) - 1 = n /\ text[n] \in V
      BY <1>2, <2>2
    <3>2. text[n + 1] = text[n] \o piece(n + 1)
      BY <1>8, <3>1
    <3> QED
      BY <1>3, <3>1, <3>2
  <2>3. Nat \subseteq S
    <3> HIDE DEF S
    <3> QED
      BY <2>1, <2>2, Induction
  <2> QED
    BY <1>2, <2>3
<1> QED
  BY <1>1, <1>8, <1>9 DEF Reads, N, V, piece

(* The text of a call, step by step.                                       *)
LEMMA CallText ==
  ASSUME NEW c \in Calls, NEW w \in PtrWidths, NEW minus \in LeastOutcomes(w)
  PROVE  Reads(Memory(c), c.args, minus, w)
<1> DEFINE m == Memory(c)
<1>1. Len(m) \in Nat
  BY MemoryEnds
<1>2. ASSUME NEW n \in 0..(Len(m) - 1)
      PROVE  Shown(m, c.args, Walk(m)[n], minus, w) \in Seq(Char)
  <2>1. n \in 0..Len(m)
    BY <1>1
  <2>2. Walk(m)[n] \in Nat \X Nat
    BY <1>1, <2>1, WalkSteps
  <2>3. PICK p, k : Walk(m)[n] = <<p, k>>
    BY <2>2
  <2>4. Here(c, p, k)
    BY <2>1, <2>3 DEF Here
  <2>5. Shown(m, c.args, <<p, k>>, minus, w) \in Seq(Char)
    BY <2>4, ShownType
  <2> QED
    BY <2>3, <2>5
<1>3. Readable(m, c.args, minus, w)
  BY <1>2 DEF Readable
<1> QED
  BY <1>1, <1>3, UptoSteps

(* What has been told is a text, of where the loop stands.                 *)
LEMMA ToldType ==
  ASSUME NEW c \in Calls, NEW w \in PtrWidths, NEW minus \in LeastOutcomes(w),
         NEW p, NEW k, NEW t, Told(c, minus, w, p, k, t)
  PROVE  Here(c, p, k) /\ t \in Seq(Char)
  BY CallText DEF Reads, Told, Here

(* Before the first step nothing has been told.                            *)
LEMMA ToldAtStart ==
  ASSUME NEW c \in Calls, NEW w \in PtrWidths, NEW minus \in LeastOutcomes(w)
  PROVE  Told(c, minus, w, 1, 1, <<>>)
<1>1. Len(Memory(c)) \in Nat /\ 0 \in 0..Len(Memory(c))
  BY MemoryEnds
<1>2. Walk(Memory(c))[0] = <<1, 1>>
  BY <1>1, WalkSteps
<1>3. Upto(Memory(c), c.args, minus, w)[0] = <<>>
  BY CallText DEF Reads
<1> QED
  BY <1>1, <1>2, <1>3 DEF Told

(* Each step tells what it shows.                                          *)
LEMMA ToldNext ==
  ASSUME NEW c \in Calls, NEW w \in PtrWidths, NEW minus \in LeastOutcomes(w),
         NEW p, NEW k, NEW t, Told(c, minus, w, p, k, t), Memory(c)[p] # NUL
  PROVE  LET more == t \o Shown(Memory(c), c.args, <<p, k>>, minus, w)
         IN  /\ Memory(c)[p] # "%" => Told(c, minus, w, p + 1, k, more)
             /\ Memory(c)[p] = "%" =>
                  IF Takes(Memory(c), p) THEN Told(c, minus, w, p + 2, k + 1, more)
                  ELSE Told(c, minus, w, p + 2, k, more)
<1> DEFINE m == Memory(c)
           text == Upto(m, c.args, minus, w)
           more == t \o Shown(m, c.args, <<p, k>>, minus, w)
<1>1. PICK n \in 0..Len(m) : Walk(m)[n] = <<p, k>> /\ text[n] = t
  BY DEF Told
<1>2. /\ n + 1 \in 1..Len(m)
      /\ Walk(m)[n + 1] =
           IF m[p] # "%" THEN <<p + 1, k>>
           ELSE IF Takes(m, p) THEN <<p + 2, k + 1>> ELSE <<p + 2, k>>
  BY <1>1, WalkAhead
<1>3. Len(m) \in Nat /\ (n + 1) - 1 = n
  BY MemoryEnds
<1>4. text[n + 1] = text[(n + 1) - 1] \o Shown(m, c.args, Walk(m)[(n + 1) - 1], minus, w)
  BY <1>2, CallText DEF Reads
<1>5. text[n + 1] = more /\ n + 1 \in 0..Len(m)
  <2> DEFINE shown(x) == Shown(m, c.args, x, minus, w)
  <2>1. text[n + 1] = text[(n + 1) - 1] \o shown(Walk(m)[(n + 1) - 1])
    BY <1>4
  <2>2. more = t \o shown(<<p, k>>)
    OBVIOUS
  <2> HIDE DEF shown, text, m, more
  <2>3. Walk(m)[(n + 1) - 1] = <<p, k>> /\ text[(n + 1) - 1] = t
    BY <1>1, <1>3
  <2> QED
    BY <1>2, <1>3, <2>1, <2>2, <2>3
<1>6. \A q, l : Walk(m)[n + 1] = <<q, l>> => Told(c, minus, w, q, l, more)
  <2> HIDE DEF more
  <2> QED
    BY <1>5 DEF Told
<1> HIDE DEF m, more
<1>7. /\ m[p] # "%" => Told(c, minus, w, p + 1, k, more)
      /\ m[p] = "%" =>
           IF Takes(m, p) THEN Told(c, minus, w, p + 2, k + 1, more)
           ELSE Told(c, minus, w, p + 2, k, more)
  BY <1>2, <1>6
<1> QED
  BY <1>7 DEF m, more

(* At the NUL the way stays where it is and shows nothing.                 *)
LEMMA StaysAtNul ==
  ASSUME NEW c \in Calls, NEW w \in PtrWidths, NEW minus \in LeastOutcomes(w),
         NEW n \in 0..Len(Memory(c)), NEW p, NEW k,
         Walk(Memory(c))[n] = <<p, k>>, Memory(c)[p] = NUL
  PROVE  Upto(Memory(c), c.args, minus, w)[n] = TextOf(c, minus, w)
<1> DEFINE m == Memory(c)
           N == Len(m)
           way == Walk(m)
           text == Upto(m, c.args, minus, w)
           S == {i \in Nat : n + i <= N => way[n + i] = <<p, k>> /\ text[n + i] = text[n]}
<1>1. N \in Nat /\ m[p] = NUL /\ way[n] = <<p, k>> /\ n \in 0..N
  BY MemoryEnds
<1>2. way[n] \in Nat \X Nat
  BY <1>1, WalkSteps
<1>3. p \in Nat /\ k \in Nat
  BY <1>1, <1>2
<1>4. Onward(m)[<<p, k>>] = <<p, k>>
  BY <1>1, <1>3, OnwardFrom
<1>5. Shown(m, c.args, <<p, k>>, minus, w) = <<>>
  BY <1>1, OwnCharacters DEF Shown, Takes
<1>6. \A i \in 1..N : way[i] = Onward(m)[way[i - 1]]
  BY <1>1, WalkSteps
<1>7. /\ \A i \in 0..N : text[i] \in Seq(Char)
      /\ \A i \in 1..N : text[i] = text[i - 1] \o Shown(m, c.args, way[i - 1], minus, w)
  BY CallText DEF Reads
<1>8. TextOf(c, minus, w) = text[N]
  BY DEF TextOf, Rendering
<1> HIDE DEF m, N, way, text
<1>9. 0 \in S
  BY <1>1
<1>10. ASSUME NEW i \in Nat, i \in S PROVE i + 1 \in S
  <2> SUFFICES ASSUME n + (i + 1) <= N
               PROVE  way[n + (i + 1)] = <<p, k>> /\ text[n + (i + 1)] = text[n]
    OBVIOUS
  <2>1. /\ n + (i + 1) \in 1..N /\ (n + (i + 1)) - 1 = n + i /\ n + i \in 0..N
        /\ way[n + i] = <<p, k>> /\ text[n + i] = text[n]
    BY <1>1, <1>10
  <2>2. way[n + (i + 1)] = <<p, k>>
    BY <1>4, <1>6, <2>1
  <2>3. text[n + (i + 1)] = text[n + i] \o <<>>
    BY <1>5, <1>7, <2>1
  <2>4. text[n + i] \in Seq(Char)
    BY <1>7, <2>1
  <2>5. text[n + i] \o <<>> = text[n + i]
    BY <2>4
  <2> QED
    BY <2>1, <2>2, <2>3, <2>5
<1>11. N - n \in S
  <2>1. N - n \in Nat
    BY <1>1
  <2> HIDE DEF S
  <2> QED
    BY <1>9, <1>10, <2>1, Induction
<1>12. n + (N - n) = N
  BY <1>1
<1>13. text[N] = text[n]
  BY <1>1, <1>11, <1>12
<1> QED
  BY <1>8, <1>13 DEF m, text

(* At the NUL the whole text has been told.                                *)
LEMMA ToldAtEnd ==
  ASSUME NEW c \in Calls, NEW w \in PtrWidths, NEW minus \in LeastOutcomes(w),
         NEW p, NEW k, NEW t, Told(c, minus, w, p, k, t), Memory(c)[p] = NUL
  PROVE  t = TextOf(c, minus, w)
<1>1. PICK n \in 0..Len(Memory(c)) :
        /\ Walk(Memory(c))[n] = <<p, k>>
        /\ Upto(Memory(c), c.args, minus, w)[n] = t
  BY DEF Told
<1> QED
  BY <1>1, StaysAtNul

(* A sequence from some place on, when a character is added to it.         *)
LEMMA SubSeqGrows ==
  ASSUME NEW s \in Seq(Char), NEW i \in 0..Len(s), NEW c \in Char
  PROVE  /\ SubSeq(s, i + 1, Len(s)) \in Seq(Char)
         /\ SubSeq(Append(s, c), i + 1, Len(Append(s, c))) = SubSeq(s, i + 1, Len(s)) \o <<c>>
<1> DEFINE t == Append(s, c)
           a == SubSeq(s, i + 1, Len(s))
           b == SubSeq(t, i + 1, Len(t))
<1>1. t \in Seq(Char) /\ Len(t) = Len(s) + 1 /\ Len(s) \in Nat
  OBVIOUS
<1>2. \A j \in 1..Len(t) : t[j] = IF j <= Len(s) THEN s[j] ELSE c
  BY <1>1
<1>3. a \in Seq(Char) /\ Len(a) = Len(s) - i
  OBVIOUS
<1>4. \A j \in 1..Len(a) : a[j] = s[i + j]
  OBVIOUS
<1>5. b \in Seq(Char) /\ Len(b) = Len(t) - i
  BY <1>1
<1>6. \A j \in 1..Len(b) : b[j] = t[i + j]
  BY <1>1
<1> HIDE DEF t, a, b
<1>7. a \o <<c>> \in Seq(Char) /\ Len(a \o <<c>>) = Len(a) + 1
  BY <1>3
<1>8. \A j \in 1..(Len(a) + 1) : (a \o <<c>>)[j] = IF j <= Len(a) THEN a[j] ELSE c
  BY <1>3
<1>9. ASSUME NEW j \in 1..Len(b) PROVE b[j] = (a \o <<c>>)[j]
  <2>1. i + j \in 1..Len(t) /\ j \in 1..(Len(a) + 1)
    BY <1>1, <1>3, <1>5
  <2>2. CASE j <= Len(a)
    <3>1. i + j <= Len(s) /\ j \in 1..Len(a)
      BY <1>1, <1>3, <2>1, <2>2
    <3> QED
      BY <1>2, <1>4, <1>6, <1>8, <2>1, <2>2, <3>1
  <2>3. CASE ~(j <= Len(a))
    <3>1. ~(i + j <= Len(s))
      BY <1>1, <1>3, <2>1, <2>3
    <3> QED
      BY <1>2, <1>6, <1>8, <2>1, <2>3, <3>1
  <2> QED
    BY <2>2, <2>3
<1>10. Len(b) = Len(a \o <<c>>)
  BY <1>1, <1>3, <1>5, <1>7
<1>11. b = a \o <<c>>
  BY <1>5, <1>7, <1>9, <1>10, SeqEqual
<1> QED
  BY <1>3, <1>11 DEF t, a, b

(* What has been printed is made of characters, and a printed character    *)
(* adds itself.                                                            *)
LEMMA SinceGrows ==
  ASSUME IInv, NEW c \in Char, printed' = Append(printed, c), before' = before
  PROVE  Since' = Since \o <<c>>
<1>1. printed \in Seq(Char) /\ before \in 0..Len(printed)
  BY DEF IInv, TypeOK
<1>2. Since' = SubSeq(Append(printed, c), before + 1, Len(Append(printed, c)))
  BY DEF Since
<1> QED
  BY <1>1, <1>2, SubSeqGrows DEF Since

(* The same where nothing is printed.                                      *)
LEMMA SinceType ==
  ASSUME IInv
  PROVE  Since \in Seq(Char) /\ Since \o <<>> = Since
<1>1. printed \in Seq(Char) /\ before \in 0..Len(printed)
  BY DEF IInv, TypeOK
<1>2. Since \in Seq(Char)
  BY <1>1 DEF Since
<1> QED
  BY <1>2

(* At the head of the loop the text up to here is what has been printed.   *)
LEMMA ToldSoFar ==
  ASSUME IInv, TextInv, pc = "scan"
  PROVE  Told(call, least, ptrbits, ptr, arg, Since)
  BY SinceType DEF TextInv, Due

(* A conversion that takes an argument tells it converted.                 *)
LEMMA TakenText ==
  ASSUME IInv, TextInv, NEW k \in Known \ {"%"}, Conversion(k)
  PROVE  Told(call, least, ptrbits, ptr + 2, arg + 1,
              Since \o Converted(k, Arg, least, ptrbits))
<1>1. /\ call \in Calls /\ ptrbits \in PtrWidths /\ least \in LeastOutcomes(ptrbits)
      /\ pc = "scan" /\ Memory(call)[ptr] = "%" /\ Memory(call)[ptr + 1] = k
      /\ Here(call, ptr, arg)
  BY DEF IInv, TypeOK, Widths, Standing, Conversion, At
<1>2. Told(call, least, ptrbits, ptr, arg, Since) /\ Memory(call)[ptr] # NUL
  BY <1>1, ToldSoFar, OwnCharacters
<1>3. Len(Memory(call)) \in Nat /\ ptr + 1 \in 2..Len(Memory(call)) /\ ptr \in Nat
  BY <1>1, <1>2, MemoryEnds, HereNext, HereBounds
<1>4. Takes(Memory(call), ptr)
  BY <1>1, <1>3 DEF Takes
<1>5. <<ptr, arg>>[1] = ptr /\ <<ptr, arg>>[2] = arg
  OBVIOUS
<1>6. Shown(Memory(call), call.args, <<ptr, arg>>, least, ptrbits)
        = Converted(k, Arg, least, ptrbits)
  BY <1>1, <1>2, <1>4, <1>5 DEF Shown, Arg
<1> DEFINE shown == Shown(Memory(call), call.args, <<ptr, arg>>, least, ptrbits)
<1>7. Told(call, least, ptrbits, ptr + 2, arg + 1, Since \o shown)
  BY <1>1, <1>2, <1>4, ToldNext
<1> HIDE DEF shown
<1> QED
  BY <1>6, <1>7 DEF shown

(* What takes no argument tells what it shows.                             *)
LEMMA PassedText ==
  ASSUME IInv, TextInv, pc = "scan"
  PROVE  /\ At(ptr) \notin {"%", NUL} =>
              Told(call, least, ptrbits, ptr + 1, arg + 0, Since \o <<At(ptr)>>)
         /\ At(ptr) = "%" /\ At(ptr + 1) = "%" =>
              Told(call, least, ptrbits, ptr + 2, arg + 0, Since \o <<"%">>)
         /\ At(ptr) = "%" /\ At(ptr + 1) \notin Known =>
              Told(call, least, ptrbits, ptr + 2, arg + 0, Since \o <<"%", At(ptr + 1)>>)
<1> DEFINE m == Memory(call)
           shown == Shown(m, call.args, <<ptr, arg>>, least, ptrbits)
<1>1. /\ call \in Calls /\ ptrbits \in PtrWidths /\ least \in LeastOutcomes(ptrbits)
      /\ arg + 0 = arg
  BY DEF IInv, TypeOK, Widths
<1>2. Told(call, least, ptrbits, ptr, arg, Since)
  BY ToldSoFar
<1>3. <<ptr, arg>>[1] = ptr /\ "%" # NUL
  BY OwnCharacters
<1>4. ASSUME m[ptr] \notin {"%", NUL}
      PROVE  Told(call, least, ptrbits, ptr + 1, arg, Since \o <<m[ptr]>>)
  <2>1. shown = <<m[ptr]>>
    BY <1>3, <1>4 DEF Shown, Takes
  <2>2. Told(call, least, ptrbits, ptr + 1, arg, Since \o shown)
    BY <1>1, <1>2, <1>4, ToldNext
  <2> HIDE DEF shown
  <2> QED
    BY <2>1, <2>2
<1>5. ASSUME m[ptr] = "%", ~Takes(m, ptr)
      PROVE  Told(call, least, ptrbits, ptr + 2, arg, Since \o shown)
  BY <1>1, <1>2, <1>3, <1>5, ToldNext
<1>6. ASSUME m[ptr] = "%", m[ptr + 1] = "%"
      PROVE  Told(call, least, ptrbits, ptr + 2, arg, Since \o <<"%">>)
  <2>1. ~Takes(m, ptr)
    BY <1>6 DEF Takes
  <2>2. shown = <<"%">>
    BY <1>3, <1>6, <2>1 DEF Shown, Known
  <2> HIDE DEF shown
  <2> QED
    BY <1>5, <1>6, <2>1, <2>2
<1>7. ASSUME m[ptr] = "%", m[ptr + 1] \notin Known
      PROVE  Told(call, least, ptrbits, ptr + 2, arg, Since \o <<"%", m[ptr + 1]>>)
  <2>1. ~Takes(m, ptr) /\ m[ptr + 1] # "%"
    BY <1>7 DEF Takes, Known
  <2>2. shown = <<"%", m[ptr + 1]>>
    BY <1>3, <1>7, <2>1 DEF Shown
  <2> HIDE DEF shown
  <2> QED
    BY <1>5, <1>7, <2>1, <2>2
<1> QED
  BY <1>1, <1>4, <1>6, <1>7 DEF At

(* TextInv is kept where a character is printed.                           *)
LEMMA PlainTells ==
  ASSUME IInv, TextInv, NEW c \in Char, NEW step, NEW taken, pc = "scan",
         Told(call, least, ptrbits, ptr + step, arg + taken, Since \o <<c>>),
         Plain(c, step, taken)
  PROVE  TextInv'
<1>1. /\ printed' = Append(printed, c) /\ ptr' = ptr + step /\ arg' = arg + taken
      /\ call' = call /\ least' = least /\ ptrbits' = ptrbits /\ before' = before
      /\ pc' = "scan"
  BY DEF Plain, callVars
<1>2. Since' = Since \o <<c>> /\ Since \o <<c>> \in Seq(Char)
  BY <1>1, SinceGrows, SinceType
<1>3. Since' \o Due' = Since'
  BY <1>1, <1>2 DEF Due
<1>4. Told(call', least', ptrbits', ptr', arg', (Since \o Due)')
  BY <1>1, <1>2, <1>3
<1> QED
  BY <1>1, <1>4 DEF TextInv

(* TextInv is kept where a string is about to be printed.                  *)
LEMMA TextTells ==
  ASSUME IInv, TextInv, NEW s, NEW taken, pc = "scan",
         Told(call, least, ptrbits, ptr + 2, arg + taken, Since \o s), Text(s, taken)
  PROVE  TextInv'
<1>1. /\ printed' = printed /\ ptr' = ptr /\ arg' = arg + taken /\ str' = s
      /\ call' = call /\ least' = least /\ ptrbits' = ptrbits /\ before' = before
      /\ pc' = "string"
  BY DEF Text, callVars
<1>2. Since' = Since
  BY <1>1 DEF Since
<1>3. Due' = s
  BY <1>1 DEF Due
<1>4. Told(call', least', ptrbits', ptr' + 2, arg', (Since \o Due)')
  BY <1>1, <1>2, <1>3
<1> QED
  BY <1>1, <1>4 DEF TextInv

(* TextInv is kept where a number is about to be printed.                  *)
LEMMA NumberTells ==
  ASSUME IInv, TextInv, NEW prefix, NEW n, NEW b, pc = "scan",
         Told(call, least, ptrbits, ptr + 2, arg + 1,
              Since \o (prefix \o Numeral(n, b))),
         Number(prefix, n, b)
  PROVE  TextInv'
<1>1. /\ printed' = printed /\ ptr' = ptr /\ arg' = arg + 1
      /\ str' = prefix /\ u' = n /\ base' = b
      /\ call' = call /\ least' = least /\ ptrbits' = ptrbits /\ before' = before
      /\ pc' = "prefix"
  BY DEF Number, callVars
<1>2. Since' = Since
  BY <1>1 DEF Since
<1>3. Due' = prefix \o Numeral(n, b)
  BY <1>1 DEF Due
<1>4. Told(call', least', ptrbits', ptr' + 2, arg', (Since \o Due)')
  BY <1>1, <1>2, <1>3
<1> QED
  BY <1>1, <1>4 DEF TextInv

(* Every conversion keeps TextInv.                                         *)
LEMMA ConveyTells ==
  ASSUME IInv, TextInv, Convey
  PROVE  TextInv'
<1>1. /\ call \in Calls /\ ptrbits \in PtrWidths /\ least \in LeastOutcomes(ptrbits)
      /\ Here(call, ptr, arg) /\ pc = "scan"
  <2>1. pc = "scan"
    BY DEF Convey, Literal, Signed, UnsignedNumber, Pointer, String, Character,
           Percent, Unknown, Conversion
  <2> QED
    BY <2>1 DEF IInv, TypeOK, Widths, Standing
<1>2. CASE Literal
  <2>1. At(ptr) \notin {"%", NUL} /\ Plain(At(ptr), 1, 0)
    BY <1>2 DEF Literal
  <2>2. ptr \in 1..Len(Memory(call)) /\ Memory(call) \in Seq(Char)
    BY <1>1, HereBounds, MemoryEnds
  <2>3. At(ptr) \in Char
    BY <2>2 DEF At
  <2> QED
    BY <1>1, <2>1, <2>3, PassedText, PlainTells
<1>3. CASE Signed
  <2>1. PICK k \in {"d", "i"} : Conversion(k)
    BY <1>3 DEF Signed
  <2>2. k \in Known \ {"%"}
    BY DEF Known
  <2>3. Told(call, least, ptrbits, ptr + 2, arg + 1,
             Since \o Converted(k, Arg, least, ptrbits))
    BY <2>1, <2>2, TakenText
  <2> DEFINE minus == IF Arg = LeastInt THEN least ELSE -Arg
  <2>4. Converted(k, Arg, least, ptrbits) =
          IF Arg >= 0 THEN Numeral(Arg, 10) ELSE <<"-">> \o Numeral(minus, 10)
    BY <2>1 DEF Converted
  <2>5. IF Arg >= 0 THEN Number(<<>>, Arg, 10) ELSE Number(<<"-">>, minus, 10)
    BY <1>3 DEF Signed
  <2> HIDE DEF minus
  <2>6. CASE Arg >= 0
    <3>1. Arg \in Nat
      <4>1. Suits(k, Arg)
        BY <2>1, <2>2, Taken
      <4>2. Arg \in LeastInt..(-LeastInt - 1)
        BY <2>1, <4>1 DEF Suits
      <4>3. LeastInt \in Int
        BY <1>1, Sizes
      <4> QED
        BY <2>6, <4>2, <4>3
    <3>2. Numeral(Arg, 10) \in Seq(Char)
      BY <3>1, NumeralType
    <3>3. <<>> \o Numeral(Arg, 10) = Numeral(Arg, 10)
      BY <3>2
    <3> QED
      BY <1>1, <2>3, <2>4, <2>5, <2>6, <3>3, NumberTells
  <2>7. CASE ~(Arg >= 0)
    BY <1>1, <2>3, <2>4, <2>5, <2>7, NumberTells
  <2> QED
    BY <2>6, <2>7
<1>4. CASE UnsignedNumber
  <2> DEFINE n == Unsigned(Arg, IntBits)
  <2>1. PICK k \in {"u", "x", "o"} :
          /\ Conversion(k)
          /\ Number(IF k = "o" THEN <<"0">> ELSE <<>>, n,
                    CASE k = "u" -> 10 [] k = "x" -> 16 [] k = "o" -> 8)
    BY <1>4 DEF UnsignedNumber
  <2>2. k \in Known \ {"%"}
    BY DEF Known
  <2>3. Told(call, least, ptrbits, ptr + 2, arg + 1,
             Since \o Converted(k, Arg, least, ptrbits))
    BY <2>1, <2>2, TakenText
  <2>4. Arg \in Int
    <3>1. Suits(k, Arg)
      BY <2>1, <2>2, Taken
    <3> QED
      BY <2>1, <3>1 DEF Suits
  <2>5. n \in Nat
    BY <2>4, UnsignedFits
  <2>6. Converted(k, Arg, least, ptrbits) =
          CASE k = "u" -> Numeral(n, 10) [] k = "x" -> Numeral(n, 16)
            [] k = "o" -> <<"0">> \o Numeral(n, 8)
    BY <2>1 DEF Converted
  <2> HIDE DEF n
  <2>7. Numeral(n, 10) \in Seq(Char) /\ Numeral(n, 16) \in Seq(Char)
    BY <2>5, NumeralType
  <2>8. <<>> \o Numeral(n, 10) = Numeral(n, 10) /\ <<>> \o Numeral(n, 16) = Numeral(n, 16)
    BY <2>7
  <2>9. CASE k = "u"
    <3>1. Number(<<>>, n, 10)
      BY <2>1, <2>9
    <3> QED
      BY <1>1, <2>3, <2>6, <2>8, <2>9, <3>1, NumberTells
  <2>10. CASE k = "x"
    <3>1. Number(<<>>, n, 16)
      BY <2>1, <2>10
    <3> QED
      BY <1>1, <2>3, <2>6, <2>8, <2>10, <3>1, NumberTells
  <2>11. CASE k = "o"
    <3>1. Number(<<"0">>, n, 8)
      BY <2>1, <2>11
    <3> QED
      BY <1>1, <2>3, <2>6, <2>11, <3>1, NumberTells
  <2> QED
    BY <2>9, <2>10, <2>11
<1>5. CASE Pointer
  <2>1. PICK k \in {"p", "a"} : Conversion(k)
    BY <1>5 DEF Pointer
  <2>2. k \in Known \ {"%"}
    BY DEF Known
  <2>3. Told(call, least, ptrbits, ptr + 2, arg + 1,
             Since \o Converted(k, Arg, least, ptrbits))
    BY <2>1, <2>2, TakenText
  <2>4. Converted(k, Arg, least, ptrbits) = <<"0", "x">> \o Numeral(Unsigned(Arg, ptrbits), 16)
    BY <2>1 DEF Converted
  <2>5. Number(<<"0", "x">>, Unsigned(Arg, ptrbits), 16)
    BY <1>5 DEF Pointer
  <2> QED
    BY <1>1, <2>3, <2>4, <2>5, NumberTells
<1>6. CASE String
  <2>1. Conversion("s") /\ Text(IF Arg = NULL THEN Null ELSE Arg, 1)
    BY <1>6 DEF String
  <2>2. "s" \in Known \ {"%"}
    BY DEF Known
  <2>3. Told(call, least, ptrbits, ptr + 2, arg + 1,
             Since \o Converted("s", Arg, least, ptrbits))
    BY <2>1, <2>2, TakenText
  <2>4. Converted("s", Arg, least, ptrbits) = IF Arg = NULL THEN Null ELSE Arg
    BY DEF Converted
  <2> QED
    BY <1>1, <2>1, <2>3, <2>4, TextTells
<1>7. CASE Character
  <2>1. Conversion("c") /\ Plain(Arg, 2, 1)
    BY <1>7 DEF Character
  <2>2. "c" \in Known \ {"%"}
    BY DEF Known
  <2>3. Told(call, least, ptrbits, ptr + 2, arg + 1,
             Since \o Converted("c", Arg, least, ptrbits))
    BY <2>1, <2>2, TakenText
  <2>4. Converted("c", Arg, least, ptrbits) = <<Arg>>
    BY DEF Converted
  <2>5. Arg \in Char
    <3>1. Suits("c", Arg)
      BY <2>1, <2>2, Taken
    <3> QED
      BY <3>1 DEF Suits
  <2> QED
    BY <1>1, <2>1, <2>3, <2>4, <2>5, PlainTells
<1>8. CASE Percent
  <2>1. At(ptr) = "%" /\ At(ptr + 1) = "%" /\ Plain("%", 2, 0) /\ "%" \in Char
    BY <1>8, OwnCharacters DEF Percent, Conversion
  <2> QED
    BY <1>1, <2>1, PassedText, PlainTells
<1>9. CASE Unknown
  <2>1. /\ At(ptr) = "%" /\ At(ptr + 1) \notin Known
        /\ Text(<<"%", At(ptr + 1)>>, 0)
    BY <1>9 DEF Unknown
  <2>2. Told(call, least, ptrbits, ptr + 2, arg + 0, Since \o <<"%", At(ptr + 1)>>)
    BY <1>1, <2>1, PassedText
  <2> QED
    BY <1>1, <2>1, <2>2, TextTells
<1> QED
  BY <1>2, <1>3, <1>4, <1>5, <1>6, <1>7, <1>8, <1>9 DEF Convey

(* One more place used puts one more digit in front.                       *)
LEMMA BackwardsUp ==
  ASSUME NEW f \in [1..Places -> Char], NEW g \in [1..Places -> Char],
         NEW n \in Nat, n < Places, \A i \in 1..n : g[i] = f[i]
  PROVE  /\ Backwards(f, n) \in Seq(Char) /\ g[n + 1] \in Char
         /\ Backwards(g, n + 1) = <<g[n + 1]>> \o Backwards(f, n)
<1> DEFINE a == Backwards(f, n)
           b == Backwards(g, n + 1)
<1>1. Places \in Nat
  BY PlacesAssumption
<1>2. a \in Seq(Char) /\ Len(a) = n /\ \A i \in 1..n : a[i] = f[n + 1 - i]
  <2>1. \A i \in 1..n : n + 1 - i \in 1..Places
    BY <1>1
  <2>2. a \in [1..n -> Char]
    BY <2>1 DEF Backwards
  <2> QED
    BY <2>2 DEF Backwards
<1>3. /\ b \in Seq(Char) /\ Len(b) = n + 1
      /\ \A i \in 1..(n + 1) : b[i] = g[(n + 1) + 1 - i]
  <2>1. \A i \in 1..(n + 1) : (n + 1) + 1 - i \in 1..Places
    BY <1>1
  <2>2. b \in [1..(n + 1) -> Char]
    BY <2>1 DEF Backwards
  <2> QED
    BY <2>2 DEF Backwards
<1>4. g[n + 1] \in Char
  BY <1>1
<1> HIDE DEF a, b
<1> DEFINE t == <<g[n + 1]>> \o a
<1>5. t \in Seq(Char) /\ Len(t) = n + 1
  BY <1>2, <1>4
<1>6. \A i \in 1..(n + 1) : t[i] = IF i = 1 THEN g[n + 1] ELSE a[i - 1]
  BY <1>2, <1>4
<1> HIDE DEF t
<1>7. ASSUME NEW i \in 1..(n + 1) PROVE b[i] = t[i]
  <2>1. CASE i = 1
    BY <1>3, <1>6, <2>1
  <2>2. CASE i # 1
    <3>1. /\ i - 1 \in 1..n /\ n + 1 - (i - 1) = (n + 1) + 1 - i
          /\ (n + 1) + 1 - i \in 1..n
      BY <2>2
    <3>2. a[i - 1] = f[n + 1 - (i - 1)]
      BY <1>2, <3>1
    <3>3. g[(n + 1) + 1 - i] = f[(n + 1) + 1 - i]
      BY <3>1
    <3>4. b[i] = g[(n + 1) + 1 - i] /\ t[i] = a[i - 1]
      BY <1>3, <1>6, <2>2
    <3> QED
      BY <3>1, <3>2, <3>3, <3>4
  <2> QED
    BY <2>1, <2>2
<1>8. b = t
  BY <1>3, <1>5, <1>7, SeqEqual
<1> QED
  BY <1>2, <1>4, <1>8 DEF a, b, t

(* A round of printuint's first loop moves a digit into the buffer.        *)
LEMMA ConvertTells ==
  ASSUME IInv, TextInv, Convert
  PROVE  TextInv'
<1> DEFINE d == Digits[(u % base) + 1]
<1>1. /\ pc = "convert" /\ u < Power(base, Places - idx) /\ (idx # 0 => u # 0)
      /\ base \in {8, 10, 16} /\ idx \in 0..Places /\ u \in Nat /\ Places \in Nat
      /\ buff \in [1..Places -> Char] /\ ptrbits \in PtrWidths /\ call \in Calls
  <2>1. Power(2, ptrbits) \in Nat
    BY Sizes DEF IInv, Widths
  <2> QED
    BY <2>1, PlacesAssumption DEF Convert, IInv, Widths, Remaining, TypeOK
<1>2. IInv'
  BY ConvertStep
<1>3. pc' # "overrun"
  BY <1>2 DEF IInv, DigitsFit
<1>4. /\ idx # Places
      /\ buff' = [buff EXCEPT ![idx + 1] = d] /\ idx' = idx + 1 /\ u' = u \div base
      /\ pc' = IF u' = 0 THEN "unwind" ELSE "convert"
      /\ call' = call /\ least' = least /\ ptrbits' = ptrbits /\ before' = before
      /\ ptr' = ptr /\ arg' = arg /\ base' = base /\ printed' = printed
  BY <1>3 DEF Convert, callVars
<1> HIDE DEF d
<1>5. buff' \in [1..Places -> Char] /\ \A i \in 1..idx : buff'[i] = buff[i]
  BY <1>1, <1>2, <1>4 DEF IInv, TypeOK
<1>6. buff'[idx + 1] = d
  BY <1>1, <1>4
<1>7. Left \in Seq(Char) /\ d \in Char /\ Left' = <<d>> \o Left
  <2>1. idx \in Nat /\ idx < Places
    BY <1>1, <1>4
  <2>2. /\ Backwards(buff, idx) \in Seq(Char) /\ buff'[idx + 1] \in Char
        /\ Backwards(buff', idx + 1) = <<buff'[idx + 1]>> \o Backwards(buff, idx)
    BY <1>1, <1>5, <2>1, BackwardsUp
  <2> QED
    BY <1>4, <1>6, <2>2 DEF Left
<1>8. Told(call, least, ptrbits, ptr + 2, arg, Since \o (Numeral(u, base) \o Left))
  BY <1>1 DEF TextInv, Due
<1>9. Since' = Since
  BY <1>4 DEF Since
<1>10. Numeral(u, base) = IF u' = 0 THEN <<d>> ELSE Numeral(u', base) \o <<d>>
  <2>1. Numeral(u, base) = IF u \div base = 0 THEN <<Digits[(u % base) + 1]>>
                           ELSE Numeral(u \div base, base) \o <<Digits[(u % base) + 1]>>
    BY <1>1, NumeralSplits
  <2> QED
    BY <1>4, <2>1 DEF d
<1>11. Due' = Numeral(u, base) \o Left
  <2>1. CASE u' = 0
    <3>1. Due' = Left'
      BY <1>4, <2>1 DEF Due
    <3> QED
      BY <1>7, <1>10, <2>1, <3>1
  <2>2. CASE u' # 0
    <3>1. Due' = Numeral(u', base) \o Left'
      BY <1>4, <2>2 DEF Due
    <3>2. u' \in Nat
      BY <1>1, <1>4, QuotientIs
    <3>3. \A n \in Nat : Numeral(n, base) \in Seq(Char)
      <4> TAKE n \in Nat
      <4> QED
        BY <1>1, NumeralType
    <3>4. \A s \in Seq(Char) : (s \o <<d>>) \o Left = s \o (<<d>> \o Left)
      <4> TAKE s \in Seq(Char)
      <4>1. <<d>> \in Seq(Char)
        BY <1>7
      <4> QED
        BY <1>7, <4>1, ConcatAssociative
    <3>5. (Numeral(u', base) \o <<d>>) \o Left = Numeral(u', base) \o (<<d>> \o Left)
      BY <3>2, <3>3, <3>4
    <3> QED
      BY <1>7, <1>10, <2>2, <3>1, <3>5
  <2> QED
    BY <2>1, <2>2
<1>12. Told(call', least', ptrbits', ptr' + 2, arg', (Since \o Due)')
  BY <1>4, <1>8, <1>9, <1>11
<1> QED
  BY <1>4, <1>12 DEF TextInv

(* A round of its second loop prints the digit that is due first.          *)
LEMMA UnwindTells ==
  ASSUME IInv, TextInv, Unwind
  PROVE  TextInv'
<1>1. /\ idx \in 0..Places /\ Places \in Nat /\ buff \in [1..Places -> Char]
      /\ pc = "unwind" /\ Told(call, least, ptrbits, ptr + 2, arg, Since \o Left)
  BY PlacesAssumption DEF IInv, TypeOK, TextInv, Due, Unwind
<1>2. /\ call' = call /\ least' = least /\ ptrbits' = ptrbits /\ before' = before
      /\ arg' = arg /\ buff' = buff
  BY DEF Unwind, callVars
<1>3. CASE idx > 0
  <2>1. /\ printed' = Append(printed, buff[idx]) /\ idx' = idx - 1
        /\ pc' = pc /\ ptr' = ptr
    BY <1>3 DEF Unwind
  <2>2. idx - 1 \in Nat /\ idx - 1 < Places /\ (idx - 1) + 1 = idx
    BY <1>1, <1>3
  <2>3. /\ Backwards(buff, idx - 1) \in Seq(Char) /\ buff[idx] \in Char
        /\ Backwards(buff, idx) = <<buff[idx]>> \o Backwards(buff, idx - 1)
    <3>1. /\ Backwards(buff, idx - 1) \in Seq(Char) /\ buff[(idx - 1) + 1] \in Char
          /\ Backwards(buff, (idx - 1) + 1)
               = <<buff[(idx - 1) + 1]>> \o Backwards(buff, idx - 1)
      BY <1>1, <2>2, BackwardsUp
    <3> QED
      BY <2>2, <3>1
  <2>4. Left' = Backwards(buff, idx - 1) /\ Left = <<buff[idx]>> \o Left'
    BY <1>2, <2>1, <2>3 DEF Left
  <2>5. Since' = Since \o <<buff[idx]>>
    BY <1>2, <2>1, <2>3, SinceGrows
  <2>6. (Since \o <<buff[idx]>>) \o Left' = Since \o (<<buff[idx]>> \o Left')
    <3>1. Since \in Seq(Char) /\ <<buff[idx]>> \in Seq(Char) /\ Left' \in Seq(Char)
      BY <2>3, <2>4, SinceType
    <3> QED
      BY <3>1, ConcatAssociative
  <2>7. Due' = Left'
    BY <1>1, <2>1 DEF Due
  <2>8. Told(call', least', ptrbits', ptr' + 2, arg', (Since \o Due)')
    BY <1>1, <1>2, <2>1, <2>4, <2>5, <2>6, <2>7
  <2> QED
    BY <1>1, <2>1, <2>8 DEF TextInv
<1>4. CASE ~(idx > 0)
  <2>1. pc' = "scan" /\ ptr' = ptr + 2 /\ printed' = printed
    BY <1>4 DEF Unwind
  <2>2. Left = <<>>
    <3>1. idx = 0 /\ 1..0 = {}
      BY <1>1, <1>4
    <3> QED
      BY <3>1 DEF Left, Backwards
  <2>3. Since' = Since /\ Due' = <<>>
    BY <1>2, <2>1 DEF Since, Due
  <2>4. Told(call', least', ptrbits', ptr', arg', (Since \o Due)')
    BY <1>1, <1>2, <2>1, <2>2, <2>3
  <2> QED
    BY <2>1, <2>4 DEF TextInv
<1> QED
  BY <1>3, <1>4

(* A round of printstr prints the character that is due first.             *)
LEMMA PrintStrTells ==
  ASSUME IInv, TextInv, PrintStr
  PROVE  TextInv'
<1> DEFINE rest == IF pc = "prefix" THEN Numeral(u, base) ELSE <<>>
<1>1. /\ str \in Seq(Char) /\ pc \in {"string", "prefix"} /\ base \in {8, 10, 16}
      /\ u \in Nat
  <2>1. Power(2, ptrbits) \in Nat
    BY Sizes DEF IInv, Widths
  <2> QED
    BY <2>1 DEF IInv, TypeOK, PrintStr
<1>2. rest \in Seq(Char)
  <2>1. Numeral(u, base) \in Seq(Char)
    BY <1>1, NumeralType
  <2>2. <<>> \in Seq(Char)
    OBVIOUS
  <2> QED
    BY <2>1, <2>2
<1>3. /\ call' = call /\ least' = least /\ ptrbits' = ptrbits /\ before' = before
      /\ arg' = arg /\ u' = u /\ base' = base /\ buff' = buff /\ idx' = idx
  BY DEF PrintStr, callVars
<1>4. Due = str \o rest
  <2>1. CASE pc = "prefix"
    BY <2>1 DEF Due
  <2>2. CASE pc = "string"
    <3>1. Due = str /\ rest = <<>> /\ str \o <<>> = str
      BY <1>1, <2>2 DEF Due
    <3> QED
      BY <3>1
  <2> QED
    BY <1>1, <2>1, <2>2
<1>5. Told(call, least, ptrbits, ptr + 2, arg, Since \o (str \o rest))
  BY <1>1, <1>4 DEF TextInv
<1>6. CASE str # <<>>
  <2>1. /\ printed' = Append(printed, Head(str)) /\ str' = Tail(str)
        /\ pc' = pc /\ ptr' = ptr
    BY <1>6 DEF PrintStr
  <2>2. Head(str) \in Char /\ Tail(str) \in Seq(Char) /\ <<Head(str)>> \in Seq(Char)
    BY <1>1, <1>6
  <2>3. str = <<Head(str)>> \o Tail(str)
    BY <1>1, <1>6
  <2>4. Since' = Since \o <<Head(str)>>
    BY <1>3, <2>1, <2>2, SinceGrows
  <2>5. Due' = Tail(str) \o rest
    <3>1. CASE pc = "prefix"
      BY <1>3, <2>1, <3>1 DEF Due
    <3>2. CASE pc = "string"
      <4>1. Due' = Tail(str) /\ rest = <<>> /\ Tail(str) \o <<>> = Tail(str)
        BY <2>1, <2>2, <3>2 DEF Due
      <4> QED
        BY <4>1
    <3> QED
      BY <1>1, <3>1, <3>2
  <2>6. (Since \o <<Head(str)>>) \o (Tail(str) \o rest) = Since \o (str \o rest)
    <3> HIDE DEF rest
    <3>1. Since \in Seq(Char) /\ Tail(str) \o rest \in Seq(Char)
      BY <1>2, <2>2, SinceType
    <3>0. \A x, y, z \in Seq(Char) : (x \o y) \o z = x \o (y \o z)
      BY ConcatAssociative
    <3>2. (Since \o <<Head(str)>>) \o (Tail(str) \o rest)
            = Since \o (<<Head(str)>> \o (Tail(str) \o rest))
      BY <2>2, <3>0, <3>1
    <3>3. (<<Head(str)>> \o Tail(str)) \o rest = <<Head(str)>> \o (Tail(str) \o rest)
      BY <1>2, <2>2, <3>0
    <3> QED
      BY <2>3, <3>2, <3>3
  <2>7. Told(call', least', ptrbits', ptr' + 2, arg', (Since \o Due)')
    <3> HIDE DEF rest
    <3> QED
      BY <1>3, <1>5, <2>1, <2>4, <2>5, <2>6
  <2> QED
    BY <1>1, <2>1, <2>7 DEF TextInv
<1>7. CASE str = <<>>
  <2>1. printed' = printed /\ Since' = Since
    BY <1>3, <1>7 DEF PrintStr, Since
  <2>2. str \o rest = rest
    BY <1>2, <1>7
  <2>3. CASE pc = "prefix"
    <3>1. pc' = "convert" /\ ptr' = ptr
      BY <1>7, <2>3 DEF PrintStr
    <3>2. Left' = <<>>
      <4>1. idx' = 0 /\ 1..0 = {}
        BY <1>3, <2>3 DEF IInv, Remaining
      <4> QED
        BY <4>1 DEF Left, Backwards
    <3>3. Due' = Numeral(u, base) \o <<>> /\ rest = Numeral(u, base)
      BY <1>3, <2>3, <3>1, <3>2 DEF Due
    <3>4. Due' = rest
      BY <1>2, <3>3
    <3>5. Told(call', least', ptrbits', ptr' + 2, arg', (Since \o Due)')
      <4> HIDE DEF rest
      <4> QED
        BY <1>3, <1>5, <2>1, <2>2, <3>1, <3>4
    <3> QED
      BY <3>1, <3>5 DEF TextInv
  <2>4. CASE pc = "string"
    <3>1. pc' = "scan" /\ ptr' = ptr + 2
      BY <1>7, <2>4 DEF PrintStr
    <3>2. Due' = <<>> /\ rest = <<>>
      BY <2>4, <3>1 DEF Due
    <3>3. Told(call', least', ptrbits', ptr', arg', (Since \o Due)')
      <4> HIDE DEF rest
      <4> QED
        BY <1>3, <1>5, <2>1, <2>2, <3>1, <3>2
    <3> QED
      BY <3>1, <3>3 DEF TextInv
  <2> QED
    BY <1>1, <2>3, <2>4
<1> QED
  BY <1>6, <1>7

(* When printk is called nothing has been printed of its text.             *)
LEMMA CallTells ==
  ASSUME IInv, NEW c \in Calls, Call(c)
  PROVE  TextInv'
<1>1. /\ call' = c /\ pc' = "scan" /\ ptr' = 1 /\ arg' = 1 /\ printed' = printed
      /\ before' = Len(printed) /\ least' = least /\ ptrbits' = ptrbits
  BY DEF Call
<1>2. \A s \in Seq(Char) : SubSeq(s, Len(s) + 1, Len(s)) = <<>>
  OBVIOUS
<1>3. printed \in Seq(Char)
  BY DEF IInv, TypeOK
<1>4. SubSeq(printed, Len(printed) + 1, Len(printed)) = <<>>
  BY <1>2, <1>3
<1>5. Since' = <<>> /\ Due' = <<>>
  BY <1>1, <1>4 DEF Since, Due
<1>6. Told(c, least, ptrbits, 1, 1, <<>>)
  BY ToldAtStart DEF IInv, Widths
<1>7. (Since \o Due)' = <<>>
  BY <1>5
<1>8. Told(call', least', ptrbits', ptr', arg', (Since \o Due)')
  BY <1>1, <1>6, <1>7
<1> QED
  BY <1>1, <1>8 DEF TextInv

(* When it returns all of it has been.                                     *)
LEMMA ReturnTells ==
  ASSUME IInv, TextInv, Return
  PROVE  TextInv'
<1>1. /\ call \in Calls /\ ptrbits \in PtrWidths /\ least \in LeastOutcomes(ptrbits)
      /\ pc = "scan" /\ Memory(call)[ptr] = NUL /\ pc' = "idle"
      /\ call' = call /\ ptrbits' = ptrbits /\ least' = least
      /\ printed' = printed /\ before' = before
  BY DEF IInv, TypeOK, Widths, Return, At, callVars
<1>2. Told(call, least, ptrbits, ptr, arg, Since)
  BY <1>1, ToldSoFar
<1>3. Since = TextOf(call, least, ptrbits)
  BY <1>1, <1>2, ToldAtEnd
<1>4. Since' = TextOf(call', least', ptrbits')
  BY <1>1, <1>3 DEF Since
<1> QED
  BY <1>1, <1>4 DEF TextInv

(* Every step keeps TextInv.                                               *)
LEMMA NextTells == IInv /\ TextInv /\ [Next]_vars => TextInv'
<1> SUFFICES ASSUME IInv, TextInv, [Next]_vars PROVE TextInv'
  OBVIOUS
<1>1. CASE \E c \in Calls : Call(c)
  BY <1>1, CallTells
<1>2. CASE Convey
  BY <1>2, ConveyTells
<1>3. CASE Convert
  BY <1>3, ConvertTells
<1>4. CASE Unwind
  BY <1>4, UnwindTells
<1>5. CASE PrintStr
  BY <1>5, PrintStrTells
<1>6. CASE Return
  BY <1>6, ReturnTells
<1>7. CASE UNCHANGED vars
  <2>1. /\ call' = call /\ ptrbits' = ptrbits /\ least' = least /\ pc' = pc
        /\ ptr' = ptr /\ arg' = arg /\ calls' = calls
    BY <1>7 DEF vars
  <2>2. Since' = Since /\ Due' = Due
    BY <1>7 DEF vars, Since, Due, Left
  <2>3. (Since \o Due)' = Since \o Due
    BY <2>2
  <2> QED
    BY <2>1, <2>2, <2>3 DEF TextInv
<1> QED
  BY <1>1, <1>2, <1>3, <1>4, <1>5, <1>6, <1>7 DEF Next

(* So what each call printed is its text, in the memory it read.           *)
LEMMA TextPrinted == Spec => [](IInv /\ TextInv)
<1>1. Init => TextInv
  BY DEF Init, TextInv
<1> QED
  BY <1>1, InitIInv, NextIInv, NextTells, PTL DEF Spec

----------------------------------------------------------------------------
(* What lies beyond the format is not read.                                *)

Own(c) == c.fmt \o <<NUL>>

(* The format and its NUL are what memory begins with, and the NUL ends it.*)
LEMMA OwnMemory ==
  ASSUME NEW c \in Calls
  PROVE  /\ Len(c.fmt) \in Nat /\ Len(Own(c)) = Len(c.fmt) + 1
         /\ Len(Memory(c)) \in Nat /\ Len(Memory(c)) >= Len(c.fmt) + 1
         /\ \A i \in 1..(Len(c.fmt) + 1) : Own(c)[i] = Memory(c)[i]
         /\ \A i \in 1..Len(c.fmt) : Own(c)[i] = c.fmt[i] /\ c.fmt[i] # NUL
         /\ Own(c)[Len(c.fmt) + 1] = NUL
<1>1. c.fmt \in Seq(Char \ {NUL})
  BY CallsAssumption
<1>2. /\ c.fmt \in Seq(Char) /\ <<NUL>> \in Seq(Char) /\ Beyond \in Seq(Char)
      /\ Len(c.fmt) \in Nat /\ \A i \in 1..Len(c.fmt) : c.fmt[i] # NUL
  <2>1. Char \ {NUL} \subseteq Char /\ NUL \in Char
    BY DEF Char
  <2> QED
    BY <1>1, <2>1, BeyondAssumption
<1> DEFINE s == c.fmt \o <<NUL>>
<1>3. /\ s \in Seq(Char) /\ Len(s) = Len(c.fmt) + 1 /\ s[Len(c.fmt) + 1] = NUL
      /\ \A i \in 1..Len(c.fmt) : s[i] = c.fmt[i]
  BY <1>2
<1> HIDE DEF s
<1>4. Len(s \o Beyond) = Len(s) + Len(Beyond) /\ Len(Beyond) \in Nat
  BY <1>2, <1>3
<1>5. \A i \in 1..Len(s) : (s \o Beyond)[i] = s[i]
  BY <1>2, <1>3
<1>6. Own(c) = s /\ Memory(c) = s \o Beyond
  BY DEF Own, Memory, s
<1> QED
  BY <1>2, <1>3, <1>4, <1>5, <1>6

(* Up to the NUL, but not at a last %, a step reads the format only.       *)
LEMMA SameStep ==
  ASSUME NEW c \in Calls, NEW p \in 1..(Len(c.fmt) + 1), NEW k \in Nat,
         p = Len(c.fmt) => Own(c)[p] # "%", NEW w, NEW minus
  PROVE  /\ Onward(Own(c))[<<p, k>>] = Onward(Memory(c))[<<p, k>>]
         /\ Onward(Own(c))[<<p, k>>][1] \in 1..(Len(c.fmt) + 1)
         /\ Shown(Own(c), c.args, <<p, k>>, minus, w)
              = Shown(Memory(c), c.args, <<p, k>>, minus, w)
<1> DEFINE m == Memory(c)
           o == Own(c)
           F == Len(c.fmt)
<1>1. /\ F \in Nat /\ Len(o) = F + 1 /\ Len(m) \in Nat /\ Len(m) >= F + 1
      /\ \A i \in 1..(F + 1) : o[i] = m[i]
      /\ \A i \in 1..F : o[i] # NUL
      /\ o[F + 1] = NUL
  BY OwnMemory
<1>2. /\ Onward(o)[<<p, k>>] =
           IF p >= Len(o) \/ o[p] = NUL THEN <<p, k>>
           ELSE IF o[p] # "%" THEN <<p + 1, k>>
           ELSE IF Takes(o, p) THEN <<p + 2, k + 1>> ELSE <<p + 2, k>>
      /\ Onward(m)[<<p, k>>] =
           IF p >= Len(m) \/ m[p] = NUL THEN <<p, k>>
           ELSE IF m[p] # "%" THEN <<p + 1, k>>
           ELSE IF Takes(m, p) THEN <<p + 2, k + 1>> ELSE <<p + 2, k>>
  <2>1. p \in Nat
    BY <1>1
  <2> HIDE DEF o, m
  <2>2. \A s : Onward(s)[<<p, k>>] =
               IF p >= Len(s) \/ s[p] = NUL THEN <<p, k>>
               ELSE IF s[p] # "%" THEN <<p + 1, k>>
               ELSE IF Takes(s, p) THEN <<p + 2, k + 1>> ELSE <<p + 2, k>>
    BY <2>1, OnwardFrom
  <2> QED
    BY <2>2
<1>3. "%" # NUL /\ <<p, k>>[1] = p /\ <<p, k>>[2] = k
  BY OwnCharacters
<1>4. o[p] = m[p] /\ (p = F => o[p] # "%") /\ p \in 1..(F + 1)
  BY <1>1
<1> HIDE DEF m, o, F
<1>5. \A q, l : <<q, l>>[1] = q
  OBVIOUS
<1>6. CASE p = F + 1
  <2>1. o[p] = NUL /\ m[p] = NUL
    BY <1>1, <1>4, <1>6
  <2>2. Onward(o)[<<p, k>>] = <<p, k>> /\ Onward(m)[<<p, k>>] = <<p, k>>
    BY <1>2, <2>1
  <2>3. Shown(o, c.args, <<p, k>>, minus, w) = <<>> /\ Shown(m, c.args, <<p, k>>, minus, w) = <<>>
    BY <1>3, <2>1 DEF Shown, Takes
  <2> QED
    BY <1>4, <1>5, <2>2, <2>3 DEF m, o, F
<1>7. CASE p # F + 1 /\ o[p] # "%"
  <2>1. p \in 1..F /\ p < Len(o) /\ p < Len(m) /\ o[p] # NUL
    BY <1>1, <1>4, <1>7
  <2>2. Onward(o)[<<p, k>>] = <<p + 1, k>> /\ Onward(m)[<<p, k>>] = <<p + 1, k>>
    BY <1>1, <1>2, <1>4, <1>7, <2>1
  <2>3. /\ Shown(o, c.args, <<p, k>>, minus, w) = <<o[p]>>
        /\ Shown(m, c.args, <<p, k>>, minus, w) = <<m[p]>>
    BY <1>3, <1>4, <1>7, <2>1 DEF Shown, Takes
  <2>4. p + 1 \in 1..(F + 1)
    BY <1>1, <2>1
  <2> QED
    BY <1>4, <1>5, <2>2, <2>3, <2>4 DEF m, o, F
<1>8. CASE p # F + 1 /\ o[p] = "%"
  <2>1. /\ p \in 1..F /\ p < F /\ p + 1 \in 1..F /\ p < Len(o) /\ p < Len(m)
    BY <1>1, <1>4, <1>8
  <2>2. o[p + 1] = m[p + 1] /\ m[p] = "%"
    BY <1>1, <1>4, <1>8, <2>1
  <2>3. Takes(o, p) <=> Takes(m, p)
    BY <1>4, <2>1, <2>2 DEF Takes
  <2>4. /\ Onward(o)[<<p, k>>] = IF Takes(o, p) THEN <<p + 2, k + 1>> ELSE <<p + 2, k>>
        /\ Onward(m)[<<p, k>>] = IF Takes(o, p) THEN <<p + 2, k + 1>> ELSE <<p + 2, k>>
    BY <1>1, <1>2, <1>3, <1>4, <1>8, <2>1, <2>3
  <2>5. Onward(o)[<<p, k>>][1] = p + 2 /\ p + 2 \in 1..(F + 1)
    BY <1>1, <1>5, <2>1, <2>4
  <2>6. Shown(o, c.args, <<p, k>>, minus, w) = Shown(m, c.args, <<p, k>>, minus, w)
    <3>1. CASE Takes(m, p)
      <4>1. m[p + 1] \in Known \ {"%"}
        BY <3>1 DEF Takes
      <4>2. Shown(o, c.args, <<p, k>>, minus, w) = Converted(o[p + 1], c.args[k], minus, w)
        BY <1>3, <1>8, <2>2, <2>3, <3>1, <4>1 DEF Shown
      <4>3. Shown(m, c.args, <<p, k>>, minus, w) = Converted(m[p + 1], c.args[k], minus, w)
        BY <1>3, <2>2, <3>1, <4>1 DEF Shown
      <4> QED
        BY <2>2, <4>2, <4>3
    <3>2. CASE ~Takes(m, p) /\ m[p + 1] = "%"
      BY <1>3, <1>8, <2>2, <2>3, <3>2 DEF Shown, Known
    <3>3. CASE ~Takes(m, p) /\ m[p + 1] # "%"
      <4>1. m[p + 1] \notin Known
        BY <2>1, <2>2, <3>3 DEF Takes
      <4> QED
        BY <1>3, <1>8, <2>2, <2>3, <3>3, <4>1 DEF Shown
    <3> QED
      BY <3>1, <3>2, <3>3
  <2> QED
    BY <2>4, <2>5, <2>6 DEF m, o, F
<1> QED
  BY <1>6, <1>7, <1>8

(* So the way through a finished format is the same whatever lies beyond,  *)
(* and never leaves it.                                                    *)
Inside(c, n) ==
  /\ Walk(Own(c))[n] = Walk(Memory(c))[n]
  /\ Walk(Memory(c))[n][1] \in 1..(Len(c.fmt) + 1)
  /\ Walk(Memory(c))[n][1] = Len(c.fmt) => Own(c)[Walk(Memory(c))[n][1]] # "%"

(* Every step stays inside a format that is not left unfinished.           *)
LEMMA SameWay ==
  ASSUME NEW c \in Calls, ~Unfinished(c)
  PROVE  \A n \in 0..(Len(c.fmt) + 1) : Inside(c, n)
<1> DEFINE m == Memory(c)
           o == Own(c)
           F == Len(c.fmt)
           wm == Walk(m)
           wo == Walk(o)
           S == {n \in Nat : n <= F + 1 => Inside(c, n)}
<1>1. /\ F \in Nat /\ Len(o) = F + 1 /\ Len(m) \in Nat /\ Len(m) >= F + 1
      /\ \A i \in 1..F : o[i] = c.fmt[i]
  BY OwnMemory
<1>2. /\ \A n \in 0..Len(m) : wm[n] \in Nat \X Nat
      /\ wm[0] = <<1, 1>>
      /\ \A n \in 1..Len(m) : wm[n] = Onward(m)[wm[n - 1]]
  BY <1>1, WalkSteps
<1>3. /\ wo[0] = <<1, 1>>
      /\ \A n \in 1..Len(o) : wo[n] = Onward(o)[wo[n - 1]]
  <2>1. Len(o) \in Nat
    BY <1>1
  <2> QED
    BY <2>1, WalkSteps
<1>4. \A n \in 0..Len(m) : ~(wm[n][1] = F /\ F > 0 /\ c.fmt[F] = "%")
  BY DEF Unfinished
<1>5. ASSUME NEW n \in 0..(F + 1), wo[n] = wm[n], wm[n][1] \in 1..(F + 1)
      PROVE  Inside(c, n)
  <2>1. n \in 0..Len(m)
    BY <1>1
  <2>2. wm[n][1] = F => o[wm[n][1]] # "%"
    <3> HIDE DEF wm, o
    <3> QED
      BY <1>1, <1>4, <1>5, <2>1
  <2> QED
    BY <1>5, <2>2 DEF Inside
<1>6. Inside(c, 0)
  <2>1. 0 \in 0..(F + 1) /\ wo[0] = wm[0] /\ wm[0][1] \in 1..(F + 1)
    BY <1>1, <1>2, <1>3
  <2> QED
    BY <1>5, <2>1
<1>7. 0 \in S
  BY <1>6
<1>8. ASSUME NEW n \in Nat, n \in S PROVE n + 1 \in S
  <2> SUFFICES ASSUME n + 1 <= F + 1 PROVE Inside(c, n + 1)
    OBVIOUS
  <2>1. /\ n \in 0..Len(m) /\ n + 1 \in 1..Len(m) /\ n + 1 \in 1..Len(o)
        /\ n + 1 \in 0..(F + 1) /\ (n + 1) - 1 = n /\ Inside(c, n)
    BY <1>1, <1>8
  <2>2. PICK p \in Nat, k \in Nat : wm[n] = <<p, k>>
    BY <1>2, <2>1
  <2>3. wo[n] = <<p, k>> /\ p \in 1..(F + 1) /\ (p = F => o[p] # "%")
    BY <2>1, <2>2 DEF Inside
  <2>4. /\ Onward(o)[<<p, k>>] = Onward(m)[<<p, k>>]
        /\ Onward(o)[<<p, k>>][1] \in 1..(F + 1)
    BY <2>2, <2>3, SameStep
  <2>5. wm[n + 1] = Onward(m)[<<p, k>>] /\ wo[n + 1] = Onward(o)[<<p, k>>]
    <3> HIDE DEF wm, wo, m, o
    <3> QED
      BY <1>2, <1>3, <2>1, <2>2, <2>3
  <2>6. wo[n + 1] = wm[n + 1] /\ wm[n + 1][1] \in 1..(F + 1)
    <3> HIDE DEF wm, wo, m, o, F
    <3> QED
      BY <2>4, <2>5
  <2> QED
    BY <1>5, <2>1, <2>6
<1>9. Nat \subseteq S
  <2> HIDE DEF S
  <2> QED
    BY <1>7, <1>8, Induction
<1> QED
  BY <1>1, <1>9

(* And so is its text.                                                     *)
LEMMA OwnText ==
  ASSUME NEW c \in Calls, ~Unfinished(c), NEW w \in PtrWidths,
         NEW minus \in LeastOutcomes(w)
  PROVE  Rendering(Own(c), c.args, minus, w) = TextOf(c, minus, w)
<1> DEFINE m == Memory(c)
           o == Own(c)
           F == Len(c.fmt)
           um == Upto(m, c.args, minus, w)
           uo == Upto(o, c.args, minus, w)
           sm(n) == Shown(m, c.args, Walk(m)[n], minus, w)
           so(n) == Shown(o, c.args, Walk(o)[n], minus, w)
           S == {n \in Nat : n <= F + 1 => uo[n] = um[n]}
<1>1. /\ F \in Nat /\ Len(o) = F + 1 /\ Len(m) \in Nat /\ Len(m) >= F + 1
      /\ \A i \in 1..(F + 1) : o[i] = m[i]
      /\ o[F + 1] = NUL
  BY OwnMemory
<1>2. ASSUME NEW n \in 0..(F + 1) PROVE so(n) = sm(n) /\ so(n) \in Seq(Char)
  <2>1. n \in 0..Len(m)
    BY <1>1
  <2>2. Walk(m)[n] \in Nat \X Nat
    BY <1>1, <2>1, WalkSteps
  <2>3. PICK p \in Nat, k \in Nat : Walk(m)[n] = <<p, k>>
    BY <2>2
  <2>4. Walk(o)[n] = <<p, k>> /\ p \in 1..(F + 1) /\ (p = F => o[p] # "%")
    BY <2>3, SameWay DEF Inside
  <2>5. Shown(o, c.args, <<p, k>>, minus, w) = Shown(m, c.args, <<p, k>>, minus, w)
    BY <2>3, <2>4, SameStep
  <2>6. Here(c, p, k)
    BY <2>1, <2>3 DEF Here
  <2>7. Shown(m, c.args, <<p, k>>, minus, w) \in Seq(Char)
    BY <2>6, ShownType
  <2> QED
    BY <2>3, <2>4, <2>5, <2>7
<1>3. Reads(m, c.args, minus, w)
  BY CallText
<1>4. Reads(o, c.args, minus, w)
  <2>1. Readable(o, c.args, minus, w)
    BY <1>1, <1>2 DEF Readable
  <2>2. Len(o) \in Nat
    BY <1>1
  <2> QED
    BY <2>1, <2>2, UptoSteps
<1>5. /\ um[0] = <<>> /\ \A n \in 1..Len(m) : um[n] = um[n - 1] \o sm(n - 1)
      /\ uo[0] = <<>> /\ \A n \in 1..Len(o) : uo[n] = uo[n - 1] \o so(n - 1)
  BY <1>3, <1>4 DEF Reads
<1> HIDE DEF um, uo, sm, so
<1>6. 0 \in S
  BY <1>5
<1>7. ASSUME NEW n \in Nat, n \in S PROVE n + 1 \in S
  <2> SUFFICES ASSUME n + 1 <= F + 1 PROVE uo[n + 1] = um[n + 1]
    OBVIOUS
  <2>1. /\ n + 1 \in 1..Len(m) /\ n + 1 \in 1..Len(o) /\ (n + 1) - 1 = n
        /\ n \in 0..(F + 1) /\ uo[n] = um[n]
    BY <1>1, <1>7
  <2> QED
    BY <1>2, <1>5, <2>1
<1>8. uo[F + 1] = um[F + 1]
  <2>1. Nat \subseteq S
    <3> HIDE DEF S
    <3> QED
      BY <1>6, <1>7, Induction
  <2> QED
    BY <1>1, <2>1
<1>9. um[F + 1] = TextOf(c, minus, w)
  <2>1. F + 1 \in 0..Len(m) /\ F + 1 \in 0..Len(o) /\ Len(o) \in Nat
    BY <1>1
  <2>2. Walk(m)[F + 1] \in Nat \X Nat
    BY <1>1, <2>1, WalkSteps
  <2>3. PICK p \in Nat, k \in Nat : Walk(m)[F + 1] = <<p, k>>
    BY <2>2
  <2>4. Inside(c, F + 1)
    <3>1. F + 1 \in 0..(F + 1)
      BY <1>1
    <3> QED
      BY <3>1, SameWay
  <2>5. Walk(o)[F + 1] = <<p, k>> /\ p \in 1..(F + 1)
    BY <2>3, <2>4 DEF Inside
  <2>6. p >= (F + 1) + 1 \/ p >= Len(o) \/ o[p] = NUL
    <3>1. Walk(o)[F + 1][1] = p
      BY <2>5
    <3> QED
      BY <2>1, <3>1, WalkGetsOn
  <2>7. m[p] = NUL
    BY <1>1, <2>5, <2>6
  <2> QED
    BY <2>1, <2>3, <2>7, StaysAtNul DEF um
<1> QED
  BY <1>1, <1>8, <1>9 DEF Rendering, uo

(* printk prints what its format says: when a call returns, what it handed *)
(* to the console is the text of the format, its numbers converted, and    *)
(* nothing from beyond the format's end (printk.c:80), for every format,   *)
(* argument and width; excepted are a format that ends in a lone % and the *)
(* least int where builds differ.                                          *)
THEOREM PrintsFormats == Spec => []PrintsItsFormat
<1>1. IInv /\ TextInv => PrintsItsFormat
  <2> SUFFICES ASSUME IInv, TextInv, pc = "idle", calls > 0,
                      ~Unfinished(call), ~TakesLeast(call)
               PROVE  Since = Rendering(Own(call), call.args, -LeastInt, ptrbits)
    BY DEF PrintsItsFormat, Since, Own
  <2>1. /\ call \in Calls /\ ptrbits \in PtrWidths /\ least \in LeastOutcomes(ptrbits)
        /\ -LeastInt \in LeastOutcomes(ptrbits)
    BY DEF IInv, TypeOK, Widths, LeastOutcomes
  <2>2. Since = TextOf(call, least, ptrbits)
    BY DEF TextInv
  <2>3. TextOf(call, least, ptrbits) = TextOf(call, -LeastInt, ptrbits)
    BY <2>1 DEF TakesLeast, TextOf
  <2>4. Rendering(Own(call), call.args, -LeastInt, ptrbits)
          = TextOf(call, -LeastInt, ptrbits)
    BY <2>1, OwnText
  <2> QED
    BY <2>2, <2>3, <2>4
<1> QED
  BY <1>1, TextPrinted, PTL

----------------------------------------------------------------------------
(* printk is the printk of Console.                                        *)

Begins(s, t) == Len(s) <= Len(t) /\ \A i \in 1..Len(s) : s[i] = t[i]

(* What precedes begins the whole, and so does what begins what precedes.  *)
LEMMA BeginsOn ==
  ASSUME NEW r \in Seq(Char), NEW s \in Seq(Char), NEW t \in Seq(Char)
  PROVE  Begins(s, s \o t) /\ (Begins(r, s) => Begins(r, s \o t))
<1>1. /\ Len(s \o t) = Len(s) + Len(t) /\ \A i \in 1..Len(s) : (s \o t)[i] = s[i]
      /\ Len(s) \in Nat /\ Len(t) \in Nat /\ Len(r) \in Nat
  OBVIOUS
<1> DEFINE st == s \o t
<1> HIDE DEF st
<1>2. Len(st) = Len(s) + Len(t) /\ \A i \in 1..Len(s) : st[i] = s[i]
  BY <1>1 DEF st
<1>3. Begins(s, st)
  BY <1>1, <1>2 DEF Begins
<1>4. Begins(r, s) => Begins(r, st)
  BY <1>1, <1>2 DEF Begins
<1> QED
  BY <1>3, <1>4 DEF st

(* What has been told begins the text.                                     *)
LEMMA ToldBegins ==
  ASSUME NEW c \in Calls, NEW w \in PtrWidths, NEW minus \in LeastOutcomes(w),
         NEW p, NEW k, NEW t, Told(c, minus, w, p, k, t)
  PROVE  /\ TextOf(c, minus, w) \in Seq(Char) /\ t \in Seq(Char)
         /\ Begins(t, TextOf(c, minus, w))
<1> DEFINE N == Len(Memory(c))
           text == Upto(Memory(c), c.args, minus, w)
           piece(i) == Shown(Memory(c), c.args, Walk(Memory(c))[i], minus, w)
<1>1. PICK n \in 0..N : text[n] = t
  BY DEF Told
<1>2. N \in Nat
  BY MemoryEnds
<1>3. /\ \A i \in 0..N : text[i] \in Seq(Char)
      /\ \A i \in 1..N : text[i] = text[i - 1] \o piece(i - 1)
  BY CallText DEF Reads
<1>4. ASSUME NEW i \in 0..(N - 1) PROVE piece(i) \in Seq(Char)
  <2>1. i \in 0..N
    BY <1>2
  <2>2. Walk(Memory(c))[i] \in Nat \X Nat
    BY <1>2, <2>1, WalkSteps
  <2>3. PICK q, l : Walk(Memory(c))[i] = <<q, l>>
    BY <2>2
  <2>4. Here(c, q, l)
    BY <2>1, <2>3 DEF Here
  <2>5. Shown(Memory(c), c.args, <<q, l>>, minus, w) \in Seq(Char)
    BY <2>4, ShownType
  <2> QED
    BY <2>3, <2>5
<1>5. TextOf(c, minus, w) = text[N]
  BY DEF TextOf, Rendering
<1> HIDE DEF N, text, piece
<1>6. t \in Seq(Char)
  BY <1>1, <1>3
<1> DEFINE S == {i \in Nat : n + i <= N => Begins(t, text[n + i])}
<1>7. 0 \in S
  <2>1. n + 0 = n /\ Begins(t, t)
    BY <1>2, <1>6 DEF Begins
  <2> QED
    BY <1>1, <2>1
<1>8. ASSUME NEW i \in Nat, i \in S PROVE i + 1 \in S
  <2> SUFFICES ASSUME n + (i + 1) <= N PROVE Begins(t, text[n + (i + 1)])
    OBVIOUS
  <2>1. /\ n + (i + 1) \in 1..N /\ (n + (i + 1)) - 1 = n + i /\ n + i \in 0..N
        /\ n + i \in 0..(N - 1) /\ Begins(t, text[n + i])
    BY <1>1, <1>2, <1>8
  <2>2. text[n + (i + 1)] = text[n + i] \o piece(n + i)
    BY <1>3, <2>1
  <2>3. text[n + i] \in Seq(Char) /\ piece(n + i) \in Seq(Char)
    BY <1>3, <1>4, <2>1
  <2> QED
    BY <1>6, <2>1, <2>2, <2>3, BeginsOn
<1>9. Begins(t, text[N])
  <2>1. N - n \in Nat /\ n + (N - n) = N
    BY <1>1, <1>2
  <2>2. N - n \in S
    <3> HIDE DEF S
    <3> QED
      BY <1>7, <1>8, <2>1, Induction
  <2> QED
    BY <2>1, <2>2
<1>10. text[N] \in Seq(Char)
  BY <1>2, <1>3
<1> QED
  BY <1>5, <1>6, <1>9, <1>10

(* What is due is made of characters.                                      *)
LEMMA DueType ==
  ASSUME IInv, pc # "idle"
  PROVE  Due \in Seq(Char)
<1>1. /\ str \in Seq(Char) /\ base \in {8, 10, 16} /\ u \in Nat
      /\ idx \in 0..Places /\ Places \in Nat /\ buff \in [1..Places -> Char]
      /\ pc \in {"scan", "string", "prefix", "convert", "unwind"}
  <2>1. Power(2, ptrbits) \in Nat
    BY Sizes DEF IInv, Widths
  <2> QED
    BY <2>1, PlacesAssumption DEF IInv, TypeOK, DigitsFit
<1>2. Numeral(u, base) \in Seq(Char)
  BY <1>1, NumeralType
<1>3. Left \in Seq(Char)
  <2>1. \A i \in 1..idx : idx + 1 - i \in 1..Places
    BY <1>1
  <2>2. Left \in [1..idx -> Char]
    BY <1>1, <2>1 DEF Left, Backwards
  <2> QED
    BY <1>1, <2>2
<1>4. \A s, t \in Seq(Char) : s \o t \in Seq(Char)
  OBVIOUS
<1>5. <<>> \in Seq(Char)
  OBVIOUS
<1>6. Due \in {<<>>, str, str \o Numeral(u, base), Numeral(u, base) \o Left, Left}
  BY <1>1 DEF Due
<1> QED
  BY <1>1, <1>2, <1>3, <1>4, <1>5, <1>6

(* While a call is in progress, what it has printed begins its text; when  *)
(* it has returned it is the text, and no text is longer than the bound.   *)
Text1 == TextOf(call, least, ptrbits)
Ahead ==
  /\ Text1 \in Seq(Char) /\ Len(Text1) <= MaxText
  /\ pc # "idle" => Begins(Since, Text1)
  /\ Since \in Seq(Char) /\ Len(Since) = Len(printed) - before

(* It follows from what has been told.                                     *)
LEMMA SinceAhead == IInv /\ TextInv => Ahead
<1> SUFFICES ASSUME IInv, TextInv PROVE Ahead
  OBVIOUS
<1>1. /\ call \in Calls /\ ptrbits \in PtrWidths /\ least \in LeastOutcomes(ptrbits)
      /\ printed \in Seq(Char) /\ before \in 0..Len(printed)
  BY DEF IInv, TypeOK, Widths
<1>2. Text1 \in Seq(Char)
  BY <1>1, ToldAtStart, ToldBegins DEF Text1
<1>3. Len(Text1) <= MaxText
  <2>1. Text1 \in Texts
    BY <1>1 DEF Text1, Texts
  <2> QED
    BY <2>1, BoundAssumption
<1>4. Since \in Seq(Char) /\ Len(Since) = Len(printed) - before
  BY <1>1 DEF Since
<1>5. ASSUME pc # "idle" PROVE Begins(Since, Text1)
  <2>1. \E p, k : Told(call, least, ptrbits, p, k, Since \o Due)
    BY <1>5 DEF TextInv, IInv, TypeOK, DigitsFit
  <2>2. Due \in Seq(Char)
    BY <1>5, DueType
  <2>3. Since \o Due \in Seq(Char) /\ Begins(Since \o Due, Text1)
    BY <1>1, <2>1, ToldBegins DEF Text1
  <2>4. Begins(Since, Since \o Due)
    BY <1>4, <2>2, BeginsOn
  <2> DEFINE both == Since \o Due
  <2> HIDE DEF both
  <2>5. Begins(Since, both) /\ Begins(both, Text1) /\ both \in Seq(Char)
    BY <2>3, <2>4 DEF both
  <2> QED
    BY <1>2, <1>4, <2>5 DEF Begins
<1> QED
  BY <1>2, <1>3, <1>4, <1>5 DEF Ahead

(* The calls made leave room for the others.                               *)
Room ==
  /\ calls <= MaxCalls
  /\ pc = "idle" => Len(printed) <= calls * MaxText
  /\ pc # "idle" => calls > 0 /\ before <= (calls - 1) * MaxText

(* What the steps are to the console: a character, nothing, or the start   *)
(* or the end of a call.                                                   *)
Prints(x) ==
  printed' = Append(printed, x) /\ pc # "idle" /\ pc' # "idle" /\ UNCHANGED callVars
Silent == printed' = printed /\ pc # "idle" /\ pc' # "idle" /\ UNCHANGED callVars

(* Every step is of one of these kinds.                                    *)
LEMMA Kinds ==
  ASSUME IInv, IInv', Next
  PROVE  (\E c \in Calls : Call(c)) \/ (\E x \in Char : Prints(x)) \/ Silent \/ Return
<1>1. ASSUME NEW x, Prints(x) PROVE \E y \in Char : Prints(y)
  <2>1. printed \in Seq(Char) /\ printed' \in Seq(Char) /\ printed' = Append(printed, x)
    BY <1>1 DEF IInv, TypeOK, Prints
  <2> DEFINE s == printed
             t == printed'
  <2>2. s \in Seq(Char) /\ t \in Seq(Char) /\ t = Append(s, x)
    BY <2>1
  <2> HIDE DEF s, t
  <2>3. Len(t) = Len(s) + 1 /\ t[Len(s) + 1] = x /\ Len(s) \in Nat
    BY <2>2
  <2>4. x \in Char
    BY <2>2, <2>3
  <2> QED
    BY <1>1, <2>4
<1>2. ASSUME NEW x, NEW step, NEW taken, pc = "scan", Plain(x, step, taken)
      PROVE  \E y \in Char : Prints(y)
  BY <1>1, <1>2 DEF Plain, Prints
<1>3. ASSUME NEW prefix, NEW n, NEW b, pc = "scan", Number(prefix, n, b)
      PROVE  Silent
  BY <1>3 DEF Number, Silent
<1>4. ASSUME NEW s, NEW taken, pc = "scan", Text(s, taken)
      PROVE  Silent
  BY <1>4 DEF Text, Silent
<1>5. CASE Convey
  <2>1. CASE Literal
    BY <1>2, <2>1 DEF Literal
  <2>2. CASE Signed
    <3>1. pc = "scan" /\ \E prefix, n : Number(prefix, n, 10)
      BY <2>2 DEF Signed, Conversion
    <3> QED
      BY <1>3, <3>1
  <2>3. CASE UnsignedNumber
    <3>1. pc = "scan" /\ \E prefix, n, b : Number(prefix, n, b)
      BY <2>3 DEF UnsignedNumber, Conversion
    <3> QED
      BY <1>3, <3>1
  <2>4. CASE Pointer
    BY <1>3, <2>4 DEF Pointer, Conversion
  <2>5. CASE String
    BY <1>4, <2>5 DEF String, Conversion
  <2>6. CASE Character
    BY <1>2, <2>6 DEF Character, Conversion
  <2>7. CASE Percent
    BY <1>2, <2>7 DEF Percent, Conversion
  <2>8. CASE Unknown
    BY <1>4, <2>8 DEF Unknown
  <2> QED
    BY <1>5, <2>1, <2>2, <2>3, <2>4, <2>5, <2>6, <2>7, <2>8 DEF Convey
<1>6. CASE Convert
  <2>1. pc' \in {"overrun", "unwind", "convert"}
    BY <1>6 DEF Convert
  <2> QED
    BY <1>6, <2>1 DEF Convert, Silent
<1>7. CASE Unwind
  <2>1. CASE idx > 0
    <3>1. Prints(buff[idx])
      BY <1>7, <2>1 DEF Unwind, Prints
    <3> QED
      BY <1>1, <3>1
  <2>2. CASE ~(idx > 0)
    BY <1>7, <2>2 DEF Unwind, Silent
  <2> QED
    BY <2>1, <2>2
<1>8. CASE PrintStr
  <2>1. CASE str # <<>>
    <3>1. Prints(Head(str))
      BY <1>8, <2>1 DEF PrintStr, Prints
    <3> QED
      BY <1>1, <3>1
  <2>2. CASE str = <<>>
    BY <1>8, <2>2 DEF PrintStr, Silent
  <2> QED
    BY <2>1, <2>2
<1> QED
  BY <1>5, <1>6, <1>7, <1>8 DEF Next

(* The bounds on the calls keep the log within that of Console.            *)
LEMMA NextRoom == IInv /\ IInv' /\ Ahead /\ Room /\ [Next]_vars => Room'
<1> SUFFICES ASSUME IInv, IInv', Ahead, Room, [Next]_vars PROVE Room'
  OBVIOUS
<1>1. /\ calls \in Nat /\ MaxCalls \in Nat /\ MaxText \in Nat /\ Len(printed) \in Nat
      /\ before \in 0..Len(printed)
  BY BoundAssumption DEF IInv, TypeOK
<1>2. CASE \E c \in Calls : Call(c)
  <2>1. /\ pc = "idle" /\ calls < MaxCalls /\ pc' = "scan" /\ before' = Len(printed)
        /\ calls' = calls + 1
    BY <1>2 DEF Call
  <2>2. calls' - 1 = calls /\ Len(printed) <= calls * MaxText
    BY <1>1, <2>1 DEF Room
  <2> QED
    BY <1>1, <2>1, <2>2 DEF Room
<1>3. CASE \E x \in Char : Prints(x)
  <2>1. pc # "idle" /\ pc' # "idle" /\ calls' = calls /\ before' = before
    BY <1>3 DEF Prints, callVars
  <2> QED
    BY <2>1 DEF Room
<1>4. CASE Silent
  <2>1. pc # "idle" /\ pc' # "idle" /\ calls' = calls /\ before' = before
    BY <1>4 DEF Silent, callVars
  <2> QED
    BY <2>1 DEF Room
<1>5. CASE Return
  <2>1. pc = "scan" /\ pc' = "idle" /\ calls' = calls /\ printed' = printed
    BY <1>5 DEF Return, callVars
  <2>2. /\ before <= (calls - 1) * MaxText /\ calls > 0
        /\ Len(printed) - before <= MaxText
    <3>1. /\ Len(Since) <= Len(Text1) /\ Len(Text1) <= MaxText /\ Len(Text1) \in Nat
          /\ Len(Since) = Len(printed) - before
      BY <2>1 DEF Ahead, Begins
    <3> QED
      BY <1>1, <2>1, <3>1 DEF Room
  <2>3. (calls - 1) * MaxText + MaxText = calls * MaxText
    BY <1>1
  <2>4. (calls - 1) * MaxText \in Int /\ calls * MaxText \in Int
    BY <1>1
  <2> DEFINE a == (calls - 1) * MaxText
             b == calls * MaxText
  <2> HIDE DEF a, b
  <2>5. Len(printed) <= b
    <3>1. before <= a /\ a + MaxText = b /\ a \in Int /\ b \in Int
      BY <2>2, <2>3, <2>4 DEF a, b
    <3> QED
      BY <1>1, <2>2, <3>1
  <2> QED
    BY <2>1, <2>5 DEF Room, b
<1>6. CASE UNCHANGED vars
  BY <1>6 DEF vars, Room
<1>7. CASE Next
  BY <1>2, <1>3, <1>4, <1>5, <1>7, Kinds
<1> QED
  BY <1>6, <1>7

(* Each step of printk is a step of Console, or none.                      *)
LEMMA ConsoleStep ==
  IInv /\ IInv' /\ Ahead /\ Ahead' /\ Room /\ TextInv /\ [Next]_vars
    => [Unattached!Next]_(Unattached!vars)
<1> SUFFICES ASSUME IInv, IInv', Ahead, Ahead', Room, TextInv, [Next]_vars
             PROVE  [Unattached!Next]_(Unattached!vars)
  OBVIOUS
<1> DEFINE text == IF calls = 0 THEN <<>> ELSE Text1
           at == IF pc = "idle" THEN 0 ELSE Len(printed) - before + 1
<1>1. /\ call \in Calls /\ ptrbits \in PtrWidths /\ least \in LeastOutcomes(ptrbits)
      /\ calls \in Nat /\ MaxCalls \in Nat /\ MaxText \in Nat
      /\ printed \in Seq(Char) /\ Len(printed) \in Nat /\ before \in 0..Len(printed)
  BY BoundAssumption DEF IInv, TypeOK, Widths
<1>2. CASE \E c \in Calls : Call(c)
  <2>1. PICK c \in Calls : Call(c)
    BY <1>2
  <2>2. /\ pc = "idle" /\ calls < MaxCalls /\ pc' = "scan" /\ before' = Len(printed)
        /\ calls' = calls + 1 /\ call' = c /\ printed' = printed
        /\ ptrbits' = ptrbits /\ least' = least
    BY <2>1 DEF Call
  <2> DEFINE m == TextOf(c, least, ptrbits)
  <2>3. m \in Texts
    BY <1>1 DEF Texts
  <2>4. Len(m) <= MaxText /\ Len(m) \in Nat
    <3>1. m \in Seq(Char)
      BY <1>1, ToldAtStart, ToldBegins
    <3> QED
      BY <2>3, <3>1, BoundAssumption
  <2>5. Len(printed) + Len(m) <= MaxCalls * MaxText
    <3>1. Len(printed) <= calls * MaxText
      BY <2>2 DEF Room
    <3>2. calls * MaxText + MaxText <= MaxCalls * MaxText
      <4>1. MaxCalls - calls - 1 \in Nat
        BY <1>1, <2>2
      <4>2. (MaxCalls - calls - 1) * MaxText \in Nat
        BY <1>1, <4>1
      <4>3. (MaxCalls - calls - 1) * MaxText = MaxCalls * MaxText - (calls * MaxText + MaxText)
        BY <1>1
      <4> QED
        BY <1>1, <4>2, <4>3
    <3> HIDE DEF m
    <3> QED
      BY <1>1, <2>4, <3>1, <3>2
  <2>6. text' = m /\ at = 0 /\ at' = 1
    <3>1. calls' # 0 /\ Len(printed') - before' + 1 = 1
      BY <1>1, <2>2
    <3> QED
      BY <2>2, <3>1 DEF Text1
  <2>7. Unattached!PrintkCall(m)
    <3> HIDE DEF m
    <3> QED
      BY <2>2, <2>5, <2>6 DEF Unattached!PrintkCall, Unattached!Idle, Text1
  <2> QED
    BY <2>3, <2>7 DEF Unattached!Next
<1>3. CASE \E x \in Char : Prints(x)
  <2>1. PICK x \in Char : Prints(x)
    BY <1>3
  <2>2. /\ pc # "idle" /\ pc' # "idle" /\ printed' = Append(printed, x)
        /\ before' = before /\ calls' = calls /\ call' = call
        /\ ptrbits' = ptrbits /\ least' = least
    BY <2>1 DEF Prints, callVars
  <2>3. calls > 0 /\ text = Text1 /\ text' = Text1 /\ Text1' = Text1
    <3>1. calls > 0
      BY <2>2 DEF Room
    <3> QED
      BY <1>1, <2>2, <3>1 DEF Text1
  <2>4. /\ Len(printed') = Len(printed) + 1 /\ at = Len(printed) - before + 1
        /\ at' = at + 1
    BY <1>1, <2>2
  <2>5. at \in 1..Len(text) /\ text[at] = x
    <3>1. Since' = Since \o <<x>>
      BY <2>2, SinceGrows
    <3>2. Since \in Seq(Char) /\ Len(Since) = Len(printed) - before
      BY DEF Ahead
    <3>3. Len(Since \o <<x>>) = Len(Since) + 1 /\ (Since \o <<x>>)[Len(Since) + 1] = x
      BY <3>2
    <3>4. Begins(Since \o <<x>>, Text1) /\ Text1 \in Seq(Char)
      BY <2>2, <2>3, <3>1 DEF Ahead
    <3>5. Len(Since) + 1 = at /\ at \in 1..(Len(Since) + 1)
      BY <1>1, <2>4, <3>2
    <3> DEFINE s == Since \o <<x>>
    <3> HIDE DEF s, at, text
    <3>6. Len(s) = at /\ s[at] = x /\ Begins(s, Text1) /\ Text1 \in Seq(Char)
      BY <3>3, <3>4, <3>5 DEF s
    <3> QED
      BY <2>3, <3>5, <3>6 DEF Begins
  <2>6. Unattached!console_putchar(x)
    BY <2>2, <2>4 DEF Unattached!console_putchar, Unattached!PutUnbuffered, Unattached!Attached
  <2>7. Unattached!PrintkPut
    BY <2>2, <2>3, <2>4, <2>5, <2>6 DEF Unattached!PrintkPut, Text1
  <2> QED
    BY <2>7 DEF Unattached!Next
<1>4. CASE Silent
  <2>1. /\ pc # "idle" /\ pc' # "idle" /\ printed' = printed
        /\ before' = before /\ calls' = calls /\ call' = call
        /\ ptrbits' = ptrbits /\ least' = least
    BY <1>4 DEF Silent, callVars
  <2> QED
    BY <2>1 DEF Unattached!vars
<1>5. CASE Return
  <2>1. /\ pc = "scan" /\ pc' = "idle" /\ printed' = printed
        /\ before' = before /\ calls' = calls /\ call' = call
        /\ ptrbits' = ptrbits /\ least' = least /\ At(ptr) = NUL
    BY <1>5 DEF Return, callVars
  <2>2. Since = Text1
    <3>1. Told(call, least, ptrbits, ptr, arg, Since)
      BY <2>1, ToldSoFar
    <3> QED
      BY <1>1, <2>1, <3>1, ToldAtEnd DEF At, Text1
  <2>3. calls > 0 /\ text = Text1 /\ at = Len(text) + 1 /\ at' = 0
    <3>1. calls > 0
      BY <2>1 DEF Room
    <3>2. Len(Since) = Len(printed) - before
      BY DEF Ahead
    <3> QED
      BY <1>1, <2>1, <2>2, <3>1, <3>2
  <2>4. Unattached!PrintkReturn
    BY <2>1, <2>3 DEF Unattached!PrintkReturn, Unattached!console_flush, Text1
  <2> QED
    BY <2>4 DEF Unattached!Next
<1>6. CASE UNCHANGED vars
  BY <1>6 DEF vars, Unattached!vars
<1>7. CASE Next
  BY <1>2, <1>3, <1>4, <1>5, <1>7, Kinds
<1> QED
  BY <1>6, <1>7

(* printk implements the printk of Console, with no device attached: a     *)
(* call hands the console exactly the characters of its text, one a step   *)
(* and in order, and every other step of the conversions is invisible      *)
(* (printk.c:23-144).                                                      *)
THEOREM ImplementsConsolePrintk == Spec => IsConsolePrintk
<1>1. Init => Unattached!Init /\ Room
  BY BoundAssumption DEF Init, Unattached!Init, Room
<1> QED
  BY <1>1, TextPrinted, SinceAhead, NextRoom, ConsoleStep,
     PTL DEF Spec, IsConsolePrintk, Unattached!Spec
=============================================================================
