--------------------------- MODULE ConsoleProofs ---------------------------
(***************************************************************************)
(* Proofs about Console, for every set of texts and devices, buffered or   *)
(* not, and every buffer size.                                             *)
(***************************************************************************)
EXTENDS Console, SequenceTheorems, FiniteSetTheorems, TLAPS

(* Once the routine is set, so is the device it is called with.            *)
RoutineHasDevice == cons.write => cons.device \in Device

(* What the console knows is what its setups left: no setup lies ahead of  *)
(* the log, the device is that of the last one, and the routine is set     *)
(* exactly when the next character will be heard.                          *)
FollowsSetups ==
  /\ \A k \in DOMAIN setups : setups[k].at <= Len(log)
  /\ console <=> Len(setups) > 0
  /\ Len(setups) > 0 => cons.device = setups[Len(setups)].device
  /\ cons.write <=> Heard(Len(log) + 1)

(* The buffer is the boot log: no character stored is ever removed.        *)
BufferIsLog == Buffered => console_buffer = log

(* BootLogDelivered without the condition on the capacity: it holds of     *)
(* the steps that leave the kernel's state intact.                         *)
LogSent == (Buffered /\ Idle /\ Attached)
             => EndsWith(out, Sent(cons.device, log))

(* The last n elements of t are the first n of s.                          *)
EndsWithFirst(t, s, n) ==
  /\ n <= Len(t)
  /\ \A i \in 1..n : t[Len(t) - n + i] = s[i]

(* The part of the text printk has put so far ends the log and, when the   *)
(* console is unbuffered and attached, what the device was handed.         *)
TextInFlight ==
  ~Idle => /\ EndsWithFirst(log, fmt, ptr - 1)
           /\ (~Buffered /\ Attached)
                => EndsWithFirst(out, Sent(cons.device, fmt), ptr - 1)

IInv ==
  /\ TypeOK
  /\ RoutineHasDevice
  /\ FollowsSetups
  /\ BufferIsLog
  /\ LogSent
  /\ UnbufferedExactlyOnce
  /\ TextInFlight

----------------------------------------------------------------------------
(* What a write routine is handed is a sequence of transfers, one for each *)
(* character.                                                              *)
LEMMA SentType ==
  ASSUME NEW d \in Device, NEW s \in Seq(Char)
  PROVE  /\ Sent(d, s) \in Seq(Transfer)
         /\ Len(Sent(d, s)) = Len(s)
         /\ \A i \in 1..Len(s) : Sent(d, s)[i] = [to |-> d, ch |-> s[i]]
<1>1. Len(s) \in Nat /\ \A i \in 1..Len(s) : s[i] \in Char
  BY LenProperties, ElementOfSeq
<1>2. Sent(d, s) \in [1..Len(s) -> Transfer]
  BY <1>1 DEF Sent, Transfer
<1>3. Sent(d, s) \in Seq(Transfer)
  BY <1>1, <1>2, SeqDef
<1>4. Len(Sent(d, s)) = Len(s)
  BY <1>1, <1>2, <1>3, LenProperties
<1> QED
  BY <1>3, <1>4 DEF Sent

(* A sequence ends with what was last appended to it.                      *)
LEMMA ConcatEndsWith ==
  ASSUME NEW S, NEW t \in Seq(S), NEW s \in Seq(S)
  PROVE  EndsWith(t \o s, s)
<1>1. Len(t) \in Nat /\ Len(s) \in Nat
  BY LenProperties
<1>2. Len(t \o s) = Len(t) + Len(s)
  BY ConcatProperties
<1>3. \A i \in 1..Len(s) : (t \o s)[Len(t) + i] = s[i]
  BY <1>1, ConcatProperties
<1> QED
  BY <1>1, <1>2, <1>3 DEF EndsWith

(* Flushing to a record whose device is set hands over the whole buffer.   *)
LEMMA FlushedType ==
  ASSUME TypeOK, NEW k \in [write : BOOLEAN, device : Device \cup {NULL}],
         k.write => k.device \in Device
  PROVE  /\ Flushed(k) \in Seq(Transfer)
         /\ ~k.write \/ ~Buffered => Flushed(k) = out
         /\ k.write /\ Buffered
              => EndsWith(Flushed(k), Sent(k.device, console_buffer))
<1>1. out \in Seq(Transfer) /\ console_buffer \in Seq(Char)
  BY DEF TypeOK
<1>2. CASE Buffered /\ k.write /\ Len(console_buffer) > 0
  <2> DEFINE s == Sent(k.device, console_buffer)
  <2>1. s \in Seq(Transfer)
    BY <1>1, <1>2, SentType
  <2>2. Flushed(k) = out \o s
    BY <1>2 DEF Flushed
  <2>3. Flushed(k) \in Seq(Transfer)
    BY <1>1, <2>1, <2>2, ConcatProperties
  <2> QED
    BY <1>1, <1>2, <2>1, <2>2, <2>3, ConcatEndsWith
<1>3. CASE ~(Buffered /\ k.write) 
  BY <1>1, <1>3 DEF Flushed
<1>4. CASE Buffered /\ k.write /\ ~(Len(console_buffer) > 0)
  <2>1. Len(console_buffer) = 0
    BY <1>1, <1>4, LenProperties
  <2>2. Len(Sent(k.device, console_buffer)) = 0
    BY <1>1, <1>4, <2>1, SentType
  <2>3. Len(out) \in Nat
    BY <1>1, LenProperties
  <2>4. EndsWith(out, Sent(k.device, console_buffer))
    BY <2>2, <2>3 DEF EndsWith
  <2> QED
    BY <1>1, <1>4, <2>4 DEF Flushed
<1> QED
  BY <1>2, <1>3, <1>4

(* A sequence of setups, taken apart.                                      *)
LEMMA SetupsType ==
  ASSUME NEW q \in Seq(Setup)
  PROVE  /\ DOMAIN q = 1..Len(q) /\ Len(q) \in Nat
         /\ \A k \in DOMAIN q : q[k].at \in Nat
<1>1. DOMAIN q = 1..Len(q) /\ Len(q) \in Nat
  BY LenProperties
<1>2. \A k \in DOMAIN q : q[k] \in Setup
  BY <1>1, ElementOfSeq
<1> QED
  BY <1>1, <1>2 DEF Setup

(* Every setup so far is before the next character, and a character more   *)
(* in the log changes nothing of that.                                     *)
LEMMA AllBefore ==
  ASSUME setups \in Seq(Setup), log \in Seq(Char), FollowsSetups
  PROVE  /\ DOMAIN setups = 1..Len(setups)
         /\ Before(Len(log) + 1) = 1..Len(setups)
         /\ Heard(Len(log) + 1 + 1) <=> Heard(Len(log) + 1)
<1>1. /\ DOMAIN setups = 1..Len(setups) /\ Len(setups) \in Nat
      /\ Len(log) \in Nat
      /\ \A k \in DOMAIN setups : setups[k].at \in Nat
  BY SetupsType, LenProperties
<1>2. \A k \in DOMAIN setups :
        setups[k].at < Len(log) + 1 /\ setups[k].at < Len(log) + 1 + 1
  BY <1>1 DEF FollowsSetups
<1>3. /\ Before(Len(log) + 1) = DOMAIN setups
      /\ Before(Len(log) + 1 + 1) = DOMAIN setups
  BY <1>2 DEF Before
<1> QED
  BY <1>1, <1>3 DEF Heard

(* A character that is heard takes the next place, and every character its *)
(* place among those before it.                                            *)
LEMMA PlaceStep ==
  ASSUME NEW n \in Nat
  PROVE  /\ Place(n) \in Nat
         /\ Place(n + 1) = IF Heard(n + 1) THEN Place(n) + 1 ELSE Place(n)
         /\ \A i \in 1..n : Place(i) \in Nat /\ Place(i) <= Place(n)
         /\ \A i \in 1..n : Heard(i) => Place(i) >= 1
<1> DEFINE H(i) == {j \in 1..i : Heard(j)}
<1>1. ASSUME NEW i \in Nat PROVE IsFiniteSet(H(i)) /\ Place(i) \in Nat
  <2>1. IsFiniteSet(1..i)
    BY FS_Interval
  <2>2. H(i) \in SUBSET (1..i)
    OBVIOUS
  <2>3. IsFiniteSet(H(i))
    BY <2>1, <2>2, FS_Subset
  <2>4. Cardinality(H(i)) \in Nat
    BY <2>3, FS_CardinalityType
  <2> QED
    BY <2>3, <2>4 DEF Place
<1>2. Place(n + 1) = IF Heard(n + 1) THEN Place(n) + 1 ELSE Place(n)
  <2>1. CASE Heard(n + 1)
    <3>1. H(n + 1) = H(n) \cup {n + 1} /\ n + 1 \notin H(n)
      BY <2>1
    <3>2. Cardinality(H(n) \cup {n + 1}) = Cardinality(H(n)) + 1
      BY <1>1, <3>1, FS_AddElement
    <3> QED
      BY <2>1, <3>1, <3>2 DEF Place
  <2>2. CASE ~Heard(n + 1)
    <3>1. ASSUME NEW j \in 1..(n + 1), Heard(j) PROVE j \in 1..n
      BY <2>2, <3>1
    <3>2. H(n + 1) = H(n)
      BY <3>1
    <3> QED
      BY <2>2, <3>2 DEF Place
  <2> QED
    BY <2>1, <2>2
<1>3. ASSUME NEW i \in 1..n PROVE Place(i) \in Nat /\ Place(i) <= Place(n)
  <2>1. H(i) \in SUBSET H(n)
    OBVIOUS
  <2>2. Cardinality(H(i)) <= Cardinality(H(n))
    BY <1>1, <2>1, FS_Subset
  <2> QED
    BY <1>1, <2>2 DEF Place
<1>4. ASSUME NEW i \in 1..n, Heard(i) PROVE Place(i) >= 1
  <2>1. i \in H(i)
    BY <1>4
  <2>2. IsFiniteSet(H(i)) => (Cardinality(H(i)) = 0 <=> H(i) = {})
    BY FS_EmptySet, Zenon
  <2>3. Cardinality(H(i)) # 0
    BY <1>1, <2>1, <2>2
  <2> QED
    BY <1>1, <2>3 DEF Place
<1> QED
  BY <1>1, <1>2, <1>3, <1>4

(* A further setup changes nothing of the characters printed before it.    *)
LEMMA SetupKeepsPast ==
  ASSUME IInv, NEW s \in Setup, s.at = Len(log), setups' = Append(setups, s),
         UNCHANGED log
  PROVE  /\ setups' \in Seq(Setup)
         /\ Len(setups') = Len(setups) + 1
         /\ \A k \in 1..Len(setups) : setups'[k] = setups[k]
         /\ setups'[Len(setups) + 1] = s
         /\ \A i \in 1..Len(log) : Before(i)' = Before(i)
         /\ \A i \in 1..Len(log) : Heard(i)' <=> Heard(i)
         /\ Place(Len(log))' = Place(Len(log))
         /\ \A i \in 1..Len(log) : Place(i)' = Place(i)
<1>1. /\ setups \in Seq(Setup) /\ log \in Seq(Char) /\ Len(log) \in Nat
      /\ Len(setups) \in Nat /\ DOMAIN setups = 1..Len(setups)
  BY LenProperties DEF IInv, TypeOK
<1>2. /\ setups' \in Seq(Setup)
      /\ Len(setups') = Len(setups) + 1
      /\ \A k \in 1..Len(setups) : setups'[k] = setups[k]
      /\ setups'[Len(setups) + 1] = s
  BY <1>1, AppendProperties
<1>3. DOMAIN setups' = 1..(Len(setups) + 1)
  BY <1>2, LenProperties
<1>4. ASSUME NEW i \in 1..Len(log) PROVE Before(i)' = Before(i)
  <2>1. Before(i)' = {k \in DOMAIN setups' : setups'[k].at < i}
    BY DEF Before
  <2>2. ~(setups'[Len(setups) + 1].at < i)
    BY <1>1, <1>2
  <2>3. {k \in DOMAIN setups' : setups'[k].at < i}
          = {k \in 1..Len(setups) : setups[k].at < i}
    BY <1>1, <1>2, <1>3, <2>2
  <2> QED
    BY <1>1, <2>1, <2>3 DEF Before
<1>5. ASSUME NEW i \in 1..Len(log) PROVE Heard(i)' <=> Heard(i)
  <2>1. \A k \in Before(i) : k \in 1..Len(setups)
    BY <1>1 DEF Before
  <2>2. Heard(i)' <=> \E k \in Before(i) :
          /\ setups'[k].device \in Tty /\ setups'[k].routine
          /\ \A j \in Before(i) : j > k => setups'[j].device \notin Tty
    BY <1>4 DEF Heard
  <2> QED
    BY <1>2, <2>1, <2>2 DEF Heard
<1>6. ASSUME NEW i \in 0..Len(log) PROVE Place(i)' = Place(i)
  <2>1. {j \in 1..i : Heard(j)'} = {j \in 1..i : Heard(j)}
    BY <1>1, <1>5
  <2> QED
    BY <2>1 DEF Place
<1> QED
  BY <1>1, <1>2, <1>4, <1>5, <1>6

(* The routine a setup leaves is the one the next character will find.     *)
LEMMA SetupFollows ==
  ASSUME IInv, NEW d \in Device, console_setup(d)
  PROVE  FollowsSetups'
<1> DEFINE s == [device |-> d, routine |-> d \in ready, at |-> Len(log)]
           L == Len(setups)
<1>1. /\ setups \in Seq(Setup) /\ log \in Seq(Char) /\ Len(log) \in Nat
      /\ L \in Nat /\ s \in Setup
      /\ \A k \in 1..L : setups[k].at <= Len(log)
  BY LenProperties DEF IInv, TypeOK, Setup, FollowsSetups
<1>2. /\ setups' = Append(setups, s) /\ cons' = Selected(d) /\ console' = TRUE
      /\ log' = log
  BY DEF console_setup
<1>3. /\ setups' \in Seq(Setup) /\ Len(setups') = L + 1
      /\ DOMAIN setups' = 1..(L + 1)
      /\ \A k \in 1..L : setups'[k] = setups[k]
      /\ setups'[L + 1] = s
  BY <1>1, <1>2, SetupKeepsPast, LenProperties
<1>4. \A k \in DOMAIN setups' : setups'[k].at <= Len(log')
  BY <1>1, <1>2, <1>3
<1>5. \A k \in DOMAIN setups' : setups'[k].at < Len(log') + 1
  <2>1. \A k \in DOMAIN setups' : setups'[k].at \in Nat
    BY <1>3, SetupsType
  <2> QED
    BY <1>1, <1>2, <1>4, <2>1
<1>6. (Before(Len(log) + 1))' = 1..(L + 1)
  BY <1>3, <1>5 DEF Before
<1>7. (Heard(Len(log) + 1))' <=> \E k \in 1..(L + 1) :
        /\ setups'[k].device \in Tty /\ setups'[k].routine
        /\ \A j \in 1..(L + 1) : j > k => setups'[j].device \notin Tty
  BY <1>6 DEF Heard
<1>8. Heard(Len(log) + 1) <=> \E k \in 1..L :
        /\ setups[k].device \in Tty /\ setups[k].routine
        /\ \A j \in 1..L : j > k => setups[j].device \notin Tty
  BY <1>1, AllBefore DEF Heard, IInv
<1>9. cons'.write <=> (Heard(Len(log) + 1))'
  <2>1. CASE d \in Tty
    <3>1. cons'.write <=> d \in ready
      BY <1>2, <2>1 DEF Selected
    <3>2. setups'[L + 1].device \in Tty /\ (setups'[L + 1].routine <=> d \in ready)
      <4>1. s.device = d /\ (s.routine <=> d \in ready)
        OBVIOUS
      <4>2. setups'[L + 1] = s
        BY <1>3
      <4> HIDE DEF s
      <4> QED
        BY <2>1, <4>1, <4>2
    <3>3. \A k \in 1..(L + 1) : k # L + 1 => L + 1 > k
      BY <1>1
    <3>4. \A k \in 1..(L + 1) : ~(k > L + 1)
      BY <1>1
    <3>5. L + 1 \in 1..(L + 1)
      BY <1>1
    <3>6. (Heard(Len(log) + 1))' <=> d \in ready
      BY <1>7, <3>2, <3>3, <3>4, <3>5, Zenon
    <3> QED
      BY <3>1, <3>6
  <2>2. CASE d \notin Tty
    <3>1. cons'.write <=> cons.write
      BY <1>2, <2>2 DEF Selected
    <3>2. (Heard(Len(log) + 1))' <=> Heard(Len(log) + 1)
      <4>1. setups'[L + 1].device \notin Tty
        BY <1>3, <2>2
      <4>2. \A k \in 1..(L + 1) : k \in 1..L \/ k = L + 1
        BY <1>1
      <4>3. \A k \in 1..L : k \in 1..(L + 1)
        BY <1>1
      <4> QED
        BY <1>3, <1>7, <1>8, <4>1, <4>2, <4>3
    <3> QED
      BY <3>1, <3>2 DEF IInv, FollowsSetups
  <2> QED
    BY <2>1, <2>2
<1>10. /\ Len(setups') > 0
       /\ cons'.device = setups'[Len(setups')].device
  BY <1>1, <1>2, <1>3 DEF Selected
<1> QED
  BY <1>2, <1>4, <1>9, <1>10 DEF FollowsSetups

(* A device attached by console_setup has received the log.                *)
LEMMA SetupStep ==
  ASSUME IInv, NEW d \in Device, console_setup(d)
  PROVE  IInv'
<1> DEFINE k == Selected(d)
           s == [device |-> d, routine |-> d \in ready, at |-> Len(log)]
<1>1. /\ k \in [write : BOOLEAN, device : Device \cup {NULL}]
      /\ k.device = d
  <2>1. cons.write \in BOOLEAN
    BY DEF IInv, TypeOK
  <2>2. (d \in ready) \in BOOLEAN
    OBVIOUS
  <2>3. CASE d \in Tty
    <3>1. k = [write |-> d \in ready, device |-> d]
      BY <2>3 DEF Selected
    <3> QED
      BY <2>2, <3>1
  <2>4. CASE d \notin Tty
    <3>1. k = [write |-> cons.write, device |-> d]
      BY <2>4 DEF Selected
    <3> QED
      BY <2>1, <3>1
  <2> QED
    BY <2>3, <2>4
<1>2. /\ Flushed(k) \in Seq(Transfer)
      /\ ~k.write \/ ~Buffered => Flushed(k) = out
      /\ k.write /\ Buffered => EndsWith(Flushed(k), Sent(d, console_buffer))
  BY <1>1, FlushedType DEF IInv
<1>3. /\ cons' = k /\ console' = TRUE /\ out' = Flushed(k) /\ Idle
      /\ setups' = Append(setups, s)
      /\ UNCHANGED <<ready, console_buffer, wild, fmt, ptr, log>>
  BY DEF console_setup
<1>4. TypeOK'
  <2>1. s \in Setup
    BY LenProperties DEF Setup, IInv, TypeOK
  <2>2. setups' \in Seq(Setup)
    BY <1>3, <2>1, AppendProperties DEF IInv, TypeOK
  <2> QED
    BY <1>1, <1>2, <1>3, <2>2 DEF IInv, TypeOK
<1>5. RoutineHasDevice'
  BY <1>1, <1>3 DEF RoutineHasDevice
<1>6. FollowsSetups'
  BY SetupFollows
<1>7. BufferIsLog'
  BY <1>3 DEF IInv, BufferIsLog
<1>8. LogSent'
  <2>1. ASSUME Buffered, Attached' PROVE EndsWith(out', Sent(d, log))
    BY <1>2, <1>3, <2>1 DEF IInv, BufferIsLog, Attached
  <2> QED
    BY <1>1, <1>3, <2>1 DEF LogSent
<1>9. UnbufferedExactlyOnce'
  <2> SUFFICES ASSUME ~Buffered PROVE UnbufferedExactlyOnce'
    BY DEF UnbufferedExactlyOnce
  <2>1. s \in Setup /\ s.at = Len(log)
    BY LenProperties DEF Setup, IInv, TypeOK
  <2>2. /\ Len(setups') = Len(setups) + 1
        /\ setups' \in Seq(Setup)
        /\ \A j \in 1..Len(setups) : setups'[j] = setups[j]
        /\ \A i \in 1..Len(log) : Before(i)' = Before(i)
        /\ \A i \in 1..Len(log) : Heard(i)' <=> Heard(i)
        /\ Place(Len(log))' = Place(Len(log))
        /\ \A i \in 1..Len(log) : Place(i)' = Place(i)
    BY <1>3, <2>1, SetupKeepsPast
  <2>3. out' = out /\ log' = log /\ (Place(Len(log)))' = Place(Len(log))
    BY <1>2, <1>3, <2>2 DEF Place
  <2>4. Len(out) = Place(Len(log))
    BY DEF IInv, UnbufferedExactlyOnce
  <2>5. ASSUME NEW i \in 1..Len(log), NEW j \in DOMAIN setups',
               Heard(i)', InForce(j, i)'
        PROVE  out[Place(i)] = [to |-> setups'[j].device, ch |-> log[i]]
    <3>1. InForce(j, i)
      BY <2>2, <2>5 DEF InForce
    <3>2. j \in 1..Len(setups) /\ j \in DOMAIN setups
      BY <3>1, LenProperties DEF InForce, Before, IInv, TypeOK
    <3> QED
      BY <2>2, <2>5, <3>1, <3>2 DEF IInv, UnbufferedExactlyOnce
  <2>6. \A i \in 1..Len(log') : \A j \in DOMAIN setups' :
          Heard(i)' /\ InForce(j, i)'
            => out'[Place(i)'] = [to |-> setups'[j].device, ch |-> log'[i]]
    BY <2>2, <2>3, <2>5
  <2> QED
    BY <2>3, <2>4, <2>6 DEF UnbufferedExactlyOnce
<1>10. TextInFlight'
  BY <1>3 DEF TextInFlight, Idle
<1> QED
  BY <1>4, <1>5, <1>6, <1>7, <1>8, <1>9, <1>10 DEF IInv

(* The steps that neither print nor attach leave the past alone.           *)
LEMMA SameHistory ==
  ASSUME UNCHANGED <<console, cons, setups, log>>
  PROVE  /\ FollowsSetups' <=> FollowsSetups
         /\ out' = out
              => (UnbufferedExactlyOnce' <=> UnbufferedExactlyOnce)
<1>1. \A i : Before(i)' = Before(i)
  BY DEF Before
<1>2. \A i : Heard(i)' <=> Heard(i)
  BY <1>1 DEF Heard
<1>3. (Heard(Len(log) + 1))' <=> Heard(Len(log) + 1)
  BY <1>1 DEF Heard
<1>4. \A i : Place(i)' = Place(i)
  BY <1>2 DEF Place
<1>5. (Place(Len(log)))' = Place(Len(log))
  BY <1>2 DEF Place
<1>6. \A k, i : InForce(k, i)' <=> InForce(k, i)
  BY <1>1 DEF InForce
<1> QED
  BY <1>2, <1>3, <1>4, <1>5, <1>6 DEF FollowsSetups, UnbufferedExactlyOnce

(* A driver's init routine runs between two calls and prints nothing.      *)
LEMMA DriverStep ==
  ASSUME IInv, NEW d \in Tty, driver_init(d)
  PROVE  IInv'
<1>1. /\ ready' = ready \cup {d}
      /\ UNCHANGED <<console, cons, console_buffer, wild, out, fmt, ptr, setups,
                     log>>
  BY DEF driver_init
<1>2. TypeOK'
  BY <1>1 DEF IInv, TypeOK
<1>3. FollowsSetups' /\ UnbufferedExactlyOnce'
  BY <1>1, SameHistory DEF IInv
<1>4. RoutineHasDevice' /\ BufferIsLog' /\ LogSent' /\ TextInFlight'
  BY <1>1 DEF IInv, RoutineHasDevice, BufferIsLog, LogSent, TextInFlight,
              Attached, Idle
<1> QED
  BY <1>2, <1>3, <1>4 DEF IInv

(* A call of printk prints nothing yet.                                    *)
LEMMA CallStep ==
  ASSUME IInv, NEW m \in Message, PrintkCall(m)
  PROVE  IInv'
<1>1. /\ fmt' = m /\ ptr' = 1 /\ m \in Seq(Char)
      /\ UNCHANGED <<console, cons, ready, console_buffer, wild, out, setups,
                     log>>
  BY MessageAssumption DEF PrintkCall
<1>2. TypeOK'
  <2>1. Len(m) \in Nat
    BY <1>1, LenProperties
  <2> QED
    BY <1>1, <2>1 DEF IInv, TypeOK
<1>3. TextInFlight'
  <2>1. Len(log) \in Nat /\ Len(out) \in Nat
    BY LenProperties DEF IInv, TypeOK
  <2> QED
    BY <1>1, <2>1 DEF TextInFlight, EndsWithFirst
<1>4. /\ RoutineHasDevice' /\ FollowsSetups' /\ BufferIsLog'
      /\ UnbufferedExactlyOnce'
  BY <1>1, SameHistory DEF IInv, RoutineHasDevice, BufferIsLog
<1>5. LogSent'
  BY <1>1 DEF LogSent, Idle
<1> QED
  BY <1>2, <1>3, <1>4, <1>5 DEF IInv

(* When printk returns, console_flush has sent what the buffer holds.      *)
LEMMA ReturnStep ==
  ASSUME IInv, PrintkReturn
  PROVE  IInv'
<1>1. /\ ptr' = 0 /\ out' = IF console THEN Flushed(cons) ELSE out
      /\ UNCHANGED <<console, cons, ready, console_buffer, wild, fmt, setups,
                     log>>
  BY DEF PrintkReturn, console_flush
<1>2. /\ Flushed(cons) \in Seq(Transfer)
      /\ ~cons.write \/ ~Buffered => Flushed(cons) = out
      /\ cons.write /\ Buffered
           => EndsWith(Flushed(cons), Sent(cons.device, console_buffer))
  BY FlushedType DEF IInv, TypeOK, RoutineHasDevice
<1>3. TypeOK'
  <2>1. Len(fmt) \in Nat
    BY LenProperties DEF IInv, TypeOK
  <2> QED
    BY <1>1, <1>2, <2>1 DEF IInv, TypeOK
<1>4. RoutineHasDevice' /\ BufferIsLog'
  BY <1>1 DEF IInv, RoutineHasDevice, BufferIsLog
<1>5. FollowsSetups'
  BY <1>1, SameHistory DEF IInv
<1>6. LogSent'
  BY <1>1, <1>2 DEF IInv, LogSent, BufferIsLog, Attached
<1>7. UnbufferedExactlyOnce'
  <2>1. ~Buffered => out' = out
    BY <1>1, <1>2
  <2>2. Buffered => UnbufferedExactlyOnce'
    BY DEF UnbufferedExactlyOnce
  <2> QED
    BY <1>1, <2>1, <2>2, SameHistory DEF IInv
<1>8. TextInFlight'
  BY <1>1 DEF TextInFlight, Idle
<1> QED
  BY <1>3, <1>4, <1>5, <1>6, <1>7, <1>8 DEF IInv

(* What console_putchar makes of the variables, in either configuration.   *)
LEMMA PutEffect ==
  ASSUME IInv, PrintkPut
  PROVE  /\ ptr \in 1..Len(fmt) /\ fmt[ptr] \in Char /\ ptr' = ptr + 1
         /\ UNCHANGED <<console, cons, ready, fmt, setups>>
         /\ log' = Append(log, fmt[ptr])
         /\ wild' \in BOOLEAN
         /\ out' \in Seq(Transfer)
         /\ Buffered => console_buffer' = Append(console_buffer, fmt[ptr])
         /\ ~Buffered => console_buffer' = console_buffer
         /\ ~Attached => out' = out
         /\ (~Buffered /\ Attached)
              => out' = out \o Sent(cons.device, <<fmt[ptr]>>)
<1>1. /\ ptr \in 1..Len(fmt) /\ fmt[ptr] \in Char /\ ptr' = ptr + 1
      /\ UNCHANGED <<console, cons, ready, fmt, setups>>
      /\ console_putchar(fmt[ptr])
  BY ElementOfSeq DEF PrintkPut, IInv, TypeOK
<1>2. /\ Flushed(cons) \in Seq(Transfer)
      /\ ~cons.write \/ ~Buffered => Flushed(cons) = out
  BY FlushedType DEF IInv, TypeOK, RoutineHasDevice
<1>3. CASE PutBuffered(fmt[ptr])
  BY <1>1, <1>2, <1>3
     DEF console_putchar, PutBuffered, console_flush, IInv, TypeOK, Attached
<1>4. CASE PutUnbuffered(fmt[ptr])
  <2>1. <<fmt[ptr]>> \in Seq(Char)
    BY <1>1
  <2>2. Attached => Sent(cons.device, <<fmt[ptr]>>) \in Seq(Transfer)
    BY <2>1, SentType DEF IInv, RoutineHasDevice, Attached
  <2>3. Attached => out \o Sent(cons.device, <<fmt[ptr]>>) \in Seq(Transfer)
    BY <2>2, ConcatProperties DEF IInv, TypeOK
  <2> QED
    BY <1>1, <1>4, <2>3 DEF console_putchar, PutUnbuffered, IInv, TypeOK
<1> QED
  BY <1>1, <1>3, <1>4 DEF console_putchar

(* Appending the next character of a text lengthens the part of the text   *)
(* a sequence ends with.                                                   *)
LEMMA AppendEndsWithFirst ==
  ASSUME NEW S, NEW t \in Seq(S), NEW s \in Seq(S), NEW n \in 1..Len(s),
         EndsWithFirst(t, s, n - 1)
  PROVE  EndsWithFirst(Append(t, s[n]), s, n)
<1>1. Len(t) \in Nat /\ Len(s) \in Nat /\ n \in Nat
  BY LenProperties
<1>2. s[n] \in S
  BY ElementOfSeq
<1> DEFINE u == Append(t, s[n])
<1>3. /\ Len(u) = Len(t) + 1
      /\ \A i \in 1..Len(t) : u[i] = t[i]
      /\ u[Len(t) + 1] = s[n]
  BY <1>1, <1>2, AppendProperties
<1>4. n <= Len(u)
  BY <1>1, <1>3 DEF EndsWithFirst
<1>5. ASSUME NEW i \in 1..n PROVE u[Len(u) - n + i] = s[i]
  <2>1. CASE i = n
    BY <1>1, <1>3, <2>1
  <2>2. CASE i # n
    <3>1. i \in 1..(n - 1)
      BY <1>1, <2>2
    <3>2. Len(t) - (n - 1) + i \in 1..Len(t)
      BY <1>1, <3>1 DEF EndsWithFirst
    <3>3. Len(u) - n + i = Len(t) - (n - 1) + i
      BY <1>1, <1>3, <3>1
    <3> QED
      BY <1>3, <3>1, <3>2, <3>3 DEF EndsWithFirst
  <2> QED
    BY <2>1, <2>2
<1> QED
  BY <1>4, <1>5 DEF EndsWithFirst

(* One character of a text.                                                *)
LEMMA PutStep ==
  ASSUME IInv, PrintkPut
  PROVE  IInv'
<1> DEFINE c == fmt[ptr]
<1>1. /\ ptr \in 1..Len(fmt) /\ c \in Char /\ ptr' = ptr + 1
      /\ UNCHANGED <<console, cons, ready, fmt, setups>>
      /\ log' = Append(log, c)
      /\ wild' \in BOOLEAN
      /\ out' \in Seq(Transfer)
  BY PutEffect
<1>2. /\ Buffered => console_buffer' = Append(console_buffer, c)
      /\ ~Buffered => console_buffer' = console_buffer
  BY PutEffect
<1>3. /\ ~Attached => out' = out
      /\ (~Buffered /\ Attached) => out' = out \o Sent(cons.device, <<c>>)
  BY PutEffect
<1>4. /\ out \in Seq(Transfer) /\ log \in Seq(Char) /\ fmt \in Seq(Char)
      /\ Len(out) \in Nat /\ Len(log) \in Nat /\ Len(fmt) \in Nat
      /\ console_buffer \in Seq(Char) /\ setups \in Seq(Setup)
  BY LenProperties DEF IInv, TypeOK
<1>5. /\ log' \in Seq(Char) /\ Len(log') = Len(log) + 1
      /\ \A i \in 1..Len(log) : log'[i] = log[i]
      /\ log'[Len(log) + 1] = c
  BY <1>1, <1>4, AppendProperties
<1>6. (~Buffered /\ Attached) => out' = Append(out, [to |-> cons.device, ch |-> c])
  <2> SUFFICES ASSUME ~Buffered, Attached
               PROVE  out' = Append(out, [to |-> cons.device, ch |-> c])
    OBVIOUS
  <2>1. <<c>> \in Seq(Char) /\ Len(<<c>>) = 1 /\ <<c>>[1] = c
    BY <1>1
  <2>2. cons.device \in Device
    BY DEF IInv, RoutineHasDevice, Attached
  <2>3. Sent(cons.device, <<c>>) = <<[to |-> cons.device, ch |-> c]>>
    BY <2>1, <2>2 DEF Sent
  <2>4. [to |-> cons.device, ch |-> c] \in Transfer
    BY <1>1, <2>2 DEF Transfer
  <2> QED
    BY <1>3, <1>4, <2>3, <2>4, AppendIsConcat
<1>7. TypeOK'
  <2>1. console_buffer' \in Seq(Char)
    <3>1. Append(console_buffer, c) \in Seq(Char)
      BY <1>1, <1>4, AppendProperties
    <3> QED
      BY <1>2, <1>4, <3>1
  <2> QED
    BY <1>1, <1>4, <1>5, <2>1 DEF IInv, TypeOK
<1>8. RoutineHasDevice' /\ FollowsSetups'
  <2>1. RoutineHasDevice'
    BY <1>1 DEF IInv, RoutineHasDevice
  <2>2. \A k \in DOMAIN setups' : setups'[k].at <= Len(log')
    <3>1. \A k \in DOMAIN setups : setups[k].at \in Nat
      BY <1>4, SetupsType
    <3>2. \A k \in DOMAIN setups : setups[k].at <= Len(log)
      BY DEF IInv, FollowsSetups
    <3> QED
      BY <1>1, <1>4, <1>5, <3>1, <3>2
  <2>3. (Heard(Len(log) + 1))' <=> Heard(Len(log) + 1 + 1)
    BY <1>1, <1>5 DEF Heard, Before
  <2>4. (Heard(Len(log) + 1))' <=> cons'.write
    BY <1>1, <1>4, <2>3, AllBefore DEF IInv, FollowsSetups
  <2> QED
    BY <1>1, <2>1, <2>2, <2>4 DEF IInv, FollowsSetups
<1>9. BufferIsLog'
  BY <1>1, <1>2 DEF IInv, BufferIsLog
<1>10. LogSent'
  BY <1>1, <1>4 DEF LogSent, Idle
<1>11. UnbufferedExactlyOnce'
  <2> SUFFICES ASSUME ~Buffered PROVE UnbufferedExactlyOnce'
    BY DEF UnbufferedExactlyOnce
  <2> DEFINE n == Len(log)
  <2>1. /\ Len(out) = Place(n)
        /\ \A i \in 1..n : \A k \in DOMAIN setups :
             Heard(i) /\ InForce(k, i)
               => out[Place(i)] = [to |-> setups[k].device, ch |-> log[i]]
    BY DEF IInv, UnbufferedExactlyOnce
  <2>2. /\ Place(n) \in Nat
        /\ Place(n + 1) = IF Heard(n + 1) THEN Place(n) + 1 ELSE Place(n)
        /\ \A i \in 1..n : Place(i) \in Nat /\ Place(i) <= Place(n)
        /\ \A i \in 1..n : Heard(i) => Place(i) >= 1
    BY <1>4, PlaceStep
  <2>3. Attached <=> Heard(n + 1)
    <3>1. Heard(n + 1) => Len(setups) > 0
      <4>1. Before(n + 1) = 1..Len(setups) /\ Len(setups) \in Nat
        BY <1>4, AllBefore, LenProperties DEF IInv
      <4> QED
        BY <4>1 DEF Heard
    <3> QED
      BY <3>1 DEF Attached, IInv, FollowsSetups
  <2>4. /\ \A i : Before(i)' = Before(i)
        /\ \A i : Heard(i)' <=> Heard(i)
        /\ \A k, i : InForce(k, i)' <=> InForce(k, i)
        /\ \A i : Place(i)' = Place(i)
        /\ (Place(Len(log)))' = Place(n + 1)
    <3>1. \A i : Before(i)' = Before(i)
      BY <1>1 DEF Before
    <3>2. \A i : Heard(i)' <=> Heard(i)
      BY <1>1, <3>1 DEF Heard
    <3>3. \A k, i : InForce(k, i)' <=> InForce(k, i)
      BY <3>1 DEF InForce
    <3>4. \A i : Place(i)' = Place(i)
      BY <3>2 DEF Place
    <3>5. (Place(Len(log)))' = Place(n + 1)
      BY <1>5, <3>2 DEF Place
    <3> QED
      BY <3>1, <3>2, <3>3, <3>4, <3>5
  <2>5. /\ Len(out') = Place(n + 1)
        /\ \A j \in 1..Len(out) : out'[j] = out[j]
        /\ Heard(n + 1)
             => out'[Place(n + 1)] = [to |-> cons.device, ch |-> c]
    <3>1. CASE ~Attached
      BY <1>3, <2>1, <2>2, <2>3, <3>1
    <3>2. CASE Attached
      <4>1. [to |-> cons.device, ch |-> c] \in Transfer
        BY <1>1, <3>2 DEF Transfer, IInv, RoutineHasDevice, Attached
      <4>2. /\ Len(out') = Len(out) + 1
            /\ \A j \in 1..Len(out) : out'[j] = out[j]
            /\ out'[Len(out) + 1] = [to |-> cons.device, ch |-> c]
        BY <1>4, <1>6, <3>2, <4>1, AppendProperties
      <4> QED
        BY <2>1, <2>2, <2>3, <3>2, <4>2
    <3> QED
      BY <3>1, <3>2
  <2>6. ASSUME NEW i \in 1..(n + 1), NEW k \in DOMAIN setups, Heard(i),
               InForce(k, i)
        PROVE  out'[Place(i)] = [to |-> setups[k].device, ch |-> log'[i]]
    <3>1. CASE i \in 1..n
      <4>1. Place(i) \in 1..Len(out)
        BY <1>4, <2>1, <2>2, <2>6, <3>1
      <4> QED
        BY <1>5, <2>1, <2>5, <2>6, <3>1, <4>1
    <3>2. CASE i = n + 1
      <4>1. Before(n + 1) = 1..Len(setups) /\ Len(setups) \in Nat
        BY <1>4, AllBefore, LenProperties DEF IInv
      <4>2. k = Len(setups) /\ Len(setups) > 0
        <5>1. k \in 1..Len(setups) /\ \A j \in 1..Len(setups) : j <= k
          BY <2>6, <3>2, <4>1 DEF InForce
        <5> QED
          BY <4>1, <5>1
      <4>3. cons.device = setups[k].device
        BY <4>2 DEF IInv, FollowsSetups
      <4> QED
        BY <1>5, <2>5, <2>6, <3>2, <4>3
    <3> QED
      BY <1>4, <3>1, <3>2
  <2>7. \A i \in 1..Len(log') : \A k \in DOMAIN setups' :
          Heard(i)' /\ InForce(k, i)'
            => out'[Place(i)'] = [to |-> setups'[k].device, ch |-> log'[i]]
    BY <1>1, <1>5, <2>4, <2>6
  <2> QED
    BY <2>4, <2>5, <2>7 DEF UnbufferedExactlyOnce
<1>12. TextInFlight'
  <2>1. /\ EndsWithFirst(log, fmt, ptr - 1)
        /\ (~Buffered /\ Attached)
             => EndsWithFirst(out, Sent(cons.device, fmt), ptr - 1)
    BY <1>1 DEF IInv, TextInFlight, Idle
  <2>2. EndsWithFirst(log', fmt, ptr)
    BY <1>1, <1>4, <2>1, AppendEndsWithFirst
  <2>3. ASSUME ~Buffered, Attached
        PROVE  EndsWithFirst(out', Sent(cons.device, fmt), ptr)
    <3>1. cons.device \in Device
      BY <2>3 DEF IInv, RoutineHasDevice, Attached
    <3>2. /\ Sent(cons.device, fmt) \in Seq(Transfer)
          /\ ptr \in 1..Len(Sent(cons.device, fmt))
          /\ Sent(cons.device, fmt)[ptr] = [to |-> cons.device, ch |-> c]
      BY <1>1, <1>4, <3>1, SentType
    <3> QED
      BY <1>4, <1>6, <2>1, <2>3, <3>2, AppendEndsWithFirst
  <2>4. ptr' - 1 = ptr
    BY <1>1, <1>4
  <2> QED
    BY <1>1, <2>2, <2>3, <2>4 DEF TextInFlight, Attached
<1> QED
  BY <1>7, <1>8, <1>9, <1>10, <1>11, <1>12 DEF IInv

----------------------------------------------------------------------------
(* The invariant holds of the console before anything is printed.          *)
LEMMA InitIInv == Init => IInv
<1> SUFFICES ASSUME Init PROVE IInv
  OBVIOUS
<1>1. TypeOK
  <2>1. /\ <<>> \in Seq(Char) /\ <<>> \in Seq(Transfer) /\ <<>> \in Seq(Setup)
        /\ Len(<<>>) = 0
    BY EmptySeq
  <2>2. console \in BOOLEAN /\ wild \in BOOLEAN
    BY Zenon DEF Init
  <2>3. cons \in [write : BOOLEAN, device : Device \cup {NULL}]
    BY DEF Init
  <2>4. ptr \in 0..(Len(fmt) + 1) /\ ready \subseteq Tty
    BY <2>1 DEF Init
  <2> QED
    BY <2>1, <2>2, <2>3, <2>4 DEF Init, TypeOK
<1>2. DOMAIN setups = {} /\ Len(setups) = 0 /\ Len(log) = 0 /\ Len(out) = 0
  BY DEF Init
<1>3. \A i : Before(i) = {}
  BY <1>2 DEF Before
<1>4. FollowsSetups
  BY <1>2, <1>3 DEF Init, FollowsSetups, Heard
<1>5. UnbufferedExactlyOnce
  <2>1. 1..0 = {}
    OBVIOUS
  <2>2. Place(0) = 0
    BY <2>1, FS_EmptySet DEF Place
  <2> QED
    BY <1>2, <2>1, <2>2 DEF UnbufferedExactlyOnce
<1> QED
  BY <1>1, <1>4, <1>5 DEF Init, IInv, RoutineHasDevice, BufferIsLog, LogSent,
                          TextInFlight, Idle, Attached

(* Every step of the kernel preserves it.                                  *)
LEMMA NextIInv == IInv /\ [Next]_vars => IInv'
<1> SUFFICES ASSUME IInv, [Next]_vars PROVE IInv'
  OBVIOUS
<1>1. ASSUME NEW d \in Device, console_setup(d) PROVE IInv'
  BY <1>1, SetupStep
<1>6. ASSUME NEW d \in Tty, driver_init(d) PROVE IInv'
  BY <1>6, DriverStep
<1>2. ASSUME NEW m \in Message, PrintkCall(m) PROVE IInv'
  BY <1>2, CallStep
<1>3. CASE PrintkPut
  BY <1>3, PutStep
<1>4. CASE PrintkReturn
  BY <1>4, ReturnStep
<1>5. CASE UNCHANGED vars
  <2>1. FollowsSetups' /\ UnbufferedExactlyOnce'
    BY <1>5, SameHistory DEF vars, IInv
  <2> QED
    BY <1>5, <2>1 DEF vars, IInv, TypeOK, RoutineHasDevice, BufferIsLog,
                      LogSent, TextInFlight, Idle, Attached
<1> QED
  BY <1>1, <1>2, <1>3, <1>4, <1>5, <1>6 DEF Next

(* The variables keep their types.                                         *)
THEOREM TypeCorrect == Spec => []TypeOK
<1>1. IInv => TypeOK
  BY DEF IInv
<1> QED
  BY InitIInv, NextIInv, <1>1, PTL DEF Spec

(* The buffered console delivers the boot log: see BootLogDelivered.       *)
THEOREM BootLog == Spec => []BootLogDelivered
<1>1. IInv => BootLogDelivered
  BY DEF IInv, LogSent, BootLogDelivered
<1> QED
  BY InitIInv, NextIInv, <1>1, PTL DEF Spec

(* The unbuffered console hands over exactly the characters that find a    *)
(* routine, once and in order: see UnbufferedExactlyOnce.                  *)
THEOREM ExactlyOnce == Spec => []UnbufferedExactlyOnce
<1>1. IInv => UnbufferedExactlyOnce
  BY DEF IInv
<1> QED
  BY InitIInv, NextIInv, <1>1, PTL DEF Spec

(* A text that ends the log ends the record of a device that was sent the  *)
(* log.                                                                    *)
LEMMA LogTailSent ==
  ASSUME NEW d \in Device, NEW o \in Seq(Transfer), NEW s \in Seq(Char),
         NEW t \in Seq(Char), EndsWith(o, Sent(d, t)),
         EndsWithFirst(t, s, Len(s))
  PROVE  EndsWith(o, Sent(d, s))
<1>1. Len(o) \in Nat /\ Len(s) \in Nat /\ Len(t) \in Nat
  BY LenProperties
<1>2. /\ Len(Sent(d, t)) = Len(t)
      /\ \A i \in 1..Len(t) : Sent(d, t)[i] = [to |-> d, ch |-> t[i]]
  BY SentType
<1>3. /\ Len(Sent(d, s)) = Len(s)
      /\ \A i \in 1..Len(s) : Sent(d, s)[i] = [to |-> d, ch |-> s[i]]
  BY SentType
<1>4. Len(s) <= Len(t) /\ Len(t) <= Len(o)
  BY <1>2 DEF EndsWith, EndsWithFirst
<1>5. ASSUME NEW i \in 1..Len(s)
      PROVE  o[Len(o) - Len(s) + i] = Sent(d, s)[i]
  <2> DEFINE j == Len(t) - Len(s) + i
  <2>1. j \in 1..Len(t) /\ Len(o) - Len(t) + j = Len(o) - Len(s) + i
    BY <1>1, <1>4
  <2>2. o[Len(o) - Len(t) + j] = [to |-> d, ch |-> t[j]]
    BY <1>2, <2>1 DEF EndsWith
  <2>3. t[j] = s[i]
    BY DEF EndsWithFirst
  <2> QED
    BY <1>3, <2>1, <2>2, <2>3
<1> QED
  BY <1>1, <1>3, <1>4, <1>5 DEF EndsWith

(* printk returns with its text handed over: see PrintkSynchronous.        *)
THEOREM Synchronous == Spec => PrintkSynchronous
<1> DEFINE Sync == (~Idle /\ Idle' /\ Attached)
                     => EndsWith(out', Sent(cons.device, fmt))
<1>1. IInv /\ [Next]_vars => [Sync]_vars
  <2> SUFFICES ASSUME IInv, Next, ~Idle, Idle', Attached
               PROVE  EndsWith(out', Sent(cons.device, fmt))
    OBVIOUS
  <2>1. PrintkReturn
    <3>1. ~PrintkPut
      BY DEF PrintkPut, Idle, IInv, TypeOK
    <3> QED
      BY <3>1 DEF Next, driver_init, console_setup, PrintkCall, Idle
  <2>2. out' = Flushed(cons) /\ ptr = Len(fmt) + 1
    BY <2>1 DEF PrintkReturn, console_flush, Attached
  <2>3. /\ cons.device \in Device
        /\ fmt \in Seq(Char) /\ log \in Seq(Char) /\ Len(fmt) \in Nat
        /\ EndsWithFirst(log, fmt, Len(fmt))
        /\ ~Buffered => EndsWithFirst(out, Sent(cons.device, fmt), Len(fmt))
    BY <2>2, LenProperties
       DEF IInv, TypeOK, RoutineHasDevice, TextInFlight, Attached
  <2>4. /\ Flushed(cons) \in Seq(Transfer)
        /\ ~Buffered => Flushed(cons) = out
        /\ Buffered => EndsWith(Flushed(cons), Sent(cons.device, log))
    BY FlushedType
       DEF IInv, TypeOK, RoutineHasDevice, BufferIsLog, Attached
  <2>5. CASE Buffered
    BY <2>2, <2>3, <2>4, <2>5, LogTailSent
  <2>6. CASE ~Buffered
    <3>1. Len(Sent(cons.device, fmt)) = Len(fmt)
      BY <2>3, SentType
    <3> QED
      BY <2>2, <2>3, <2>4, <2>6, <3>1 DEF EndsWith, EndsWithFirst
  <2> QED
    BY <2>5, <2>6
<1> QED
  BY InitIInv, NextIInv, <1>1, PTL DEF Spec, PrintkSynchronous
============================================================================
