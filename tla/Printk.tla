------------------------------- MODULE Printk -------------------------------
(***************************************************************************)
(* printk and its conversions (sys/libkern/printk.c), one character or one *)
(* digit a step.                                                           *)
(*                                                                         *)
(* A format lies in memory up to its NUL, and after the NUL lies whatever  *)
(* the linker put there.  Characters are strings of one character, an      *)
(* argument is a number, a string (a sequence) or a null pointer.  The     *)
(* widths are constants: int has IntBits, uintptr_t as many or more.       *)
(***************************************************************************)
EXTENDS Integers, Sequences

CONSTANTS
  Calls,     (* the calls the kernel makes: [fmt, args] records            *)
  Beyond,    (* what lies in memory after the format's NUL, itself ended   *)
  Letter,    (* the characters that are neither NUL nor digits             *)
  NUL,       (* the character that ends a string                           *)
  NULL,      (* the null pointer                                           *)
  IntBits,   (* the width of int                                           *)
  PtrWidths, (* the widths uintptr_t may have                              *)
  Places,    (* the size of the digit buffer: 20                           *)
  MaxCalls,  (* bound: calls in one behaviour                              *)
  MaxText    (* bound: the characters of one call's text                   *)

Digits == <<"0", "1", "2", "3", "4", "5", "6", "7", "8", "9",
            "a", "b", "c", "d", "e", "f">>
Char == Letter \cup {Digits[i] : i \in 1..16} \cup {NUL}

(* b to the power n.                                                       *)
Power(b, n) ==
  LET power[k \in 0..n] == IF k = 0 THEN 1 ELSE b * power[k - 1]
  IN  power[n]

ASSUME LetterAssumption ==
  /\ {"%", "-", "x", "(", "n", "u", "l", ")"} \subseteq Letter
  /\ NUL \notin Letter \cup {Digits[i] : i \in 1..16}
ASSUME WidthAssumption ==
  IntBits \in Nat \ {0} /\ \A w \in PtrWidths : w \in Nat /\ w >= IntBits
ASSUME PlacesAssumption ==
  /\ Places \in Nat
  /\ \A w \in PtrWidths : Power(10, Places) >= Power(2, w)
  /\ Power(8, Places) >= Power(2, IntBits)
ASSUME BeyondAssumption == Beyond \in Seq(Char) /\ Beyond[Len(Beyond)] = NUL

LeastInt == -Power(2, IntBits - 1)

(* The memory at the format.                                               *)
Memory(c) == c.fmt \o <<NUL>> \o Beyond

Known == {"%", "d", "i", "u", "x", "o", "s", "c", "p", "a"}

(* The conversion at position p of memory m takes an argument.             *)
Takes(m, p) == m[p] = "%" /\ p < Len(m) /\ m[p + 1] \in Known \ {"%"}

(* The argument a conversion can take.                                     *)
Suits(k, x) ==
  CASE k \in {"d", "i"} -> x \in LeastInt..(-LeastInt - 1)
    [] k \in {"u", "x", "o", "p", "a"} -> x \in Int
    [] k = "c" -> x \in Char
    [] k = "s" -> x = NULL \/ x \in Seq(Char)

(* From one position in memory m, and the next argument, to the following: *)
(* one character or conversion on.  The way stays at the NUL.              *)
Onward(m) ==
  [at \in Nat \X Nat |->
     LET p == at[1]
         k == at[2]
     IN  IF p >= Len(m) \/ m[p] = NUL THEN at
         ELSE IF m[p] # "%" THEN <<p + 1, k>>
         ELSE IF Takes(m, p) THEN <<p + 2, k + 1>> ELSE <<p + 2, k>>]

(* Where n characters and conversions lead.                                *)
Walk(m) ==
  LET walk[n \in 0..Len(m)] ==
        IF n = 0 THEN <<1, 1>> ELSE Onward(m)[walk[n - 1]]
  IN  walk

(* Callers pass the arguments their format takes.                          *)
Agree(c) ==
  \A n \in 0..Len(Memory(c)) :
    LET p == Walk(Memory(c))[n][1]
        k == Walk(Memory(c))[n][2]
    IN  /\ p <= Len(Memory(c))
        /\ Takes(Memory(c), p) =>
             k <= Len(c.args) /\ Suits(Memory(c)[p + 1], c.args[k])

ASSUME CallsAssumption ==
  /\ Calls # {}
  /\ \A c \in Calls :
       c.fmt \in Seq(Char \ {NUL}) /\ Len(c.args) \in Nat /\ Agree(c)

VARIABLES
  ptrbits,  (* the width of uintptr_t, fixed                               *)
  least,    (* what this build makes of minus the least int, fixed         *)
  call,     (* the call in progress, or the last one                       *)
  pc,       (* idle; at the head of the loop; in printuint's first loop,   *)
            (* in its second; in printstr, alone or before a number; a     *)
            (* store has hit foreign memory                                *)
  ptr,      (* position in the format                                      *)
  arg,      (* the argument va_arg takes next                              *)
  u, base,  (* printuint: the number still to convert and the base         *)
  buff,     (* its static buffer                                           *)
  idx,      (* and how many of its places are in use                       *)
  str,      (* printstr: the characters still to print                     *)
  printed,  (* history: all that went to console_putchar                   *)
  before,   (* history: how much of it earlier calls printed               *)
  calls     (* calls made                                                  *)

vars == <<ptrbits, least, call, pc, ptr, arg, u, base, buff, idx, str,
          printed, before, calls>>
callVars == <<ptrbits, least, call, before, calls>>

(* -tmp overflows for the least int, which is undefined: a build wraps the *)
(* value and widens it with its sign, or negates in the wider type.        *)
LeastOutcomes(w) == {-LeastInt, Power(2, w) + LeastInt}

TypeOK ==
  /\ call \in Calls
  /\ pc \in {"idle", "scan", "string", "prefix", "convert", "unwind", "overrun"}
  /\ ptr \in 0..Len(Memory(call))
  /\ arg \in 1..(Len(call.args) + 1)
  /\ u \in 0..(Power(2, ptrbits) - 1) /\ base \in {8, 10, 16}
  /\ buff \in [1..Places -> Char] /\ idx \in 0..Places
  /\ str \in Seq(Char) /\ printed \in Seq(Char)
  /\ before \in 0..Len(printed) /\ calls \in Nat

Init ==
  /\ ptrbits \in PtrWidths
  /\ least \in LeastOutcomes(ptrbits)
  /\ call = (CHOOSE c \in Calls : TRUE) /\ pc = "idle" /\ ptr = 0 /\ arg = 1
  /\ u = 0 /\ base = 10 /\ buff = [i \in 1..Places |-> NUL] /\ idx = 0
  /\ str = <<>> /\ printed = <<>> /\ before = 0 /\ calls = 0

----------------------------------------------------------------------------
At(i) == Memory(call)[i]
Arg == call.args[arg]

Call(c) ==
  /\ pc = "idle" /\ calls < MaxCalls
  /\ call' = c /\ pc' = "scan" /\ ptr' = 1 /\ arg' = 1
  /\ before' = Len(printed) /\ calls' = calls + 1
  /\ UNCHANGED <<ptrbits, least, u, base, buff, idx, str, printed>>

(* Prints c and goes on with the rest of the format, taking some arguments.*)
Plain(c, step, taken) ==
  /\ printed' = Append(printed, c)
  /\ ptr' = ptr + step /\ arg' = arg + taken
  /\ UNCHANGED <<callVars, pc, u, base, buff, idx, str>>

(* Prints the sign or prefix, then enters printuint.                       *)
Number(prefix, n, b) ==
  /\ str' = prefix /\ pc' = "prefix"
  /\ u' = n /\ base' = b /\ idx' = 0
  /\ arg' = arg + 1
  /\ UNCHANGED <<callVars, ptr, buff, printed>>

(* Prints s, then goes on with the rest of the format.                     *)
Text(s, taken) ==
  /\ str' = s /\ pc' = "string" /\ arg' = arg + taken
  /\ UNCHANGED <<callVars, ptr, u, base, buff, idx, printed>>

(* An argument taken as unsigned, of the given width.                      *)
Unsigned(n, w) == n % Power(2, w)

Literal ==
  pc = "scan" /\ At(ptr) \notin {"%", NUL} /\ Plain(At(ptr), 1, 0)

(* The character after a % of the format.                                  *)
Conversion(k) == pc = "scan" /\ At(ptr) = "%" /\ At(ptr + 1) = k

Signed ==
  /\ Conversion("d") \/ Conversion("i")
  /\ LET tmp == Arg
     IN  IF tmp >= 0 THEN Number(<<>>, tmp, 10)
         ELSE Number(<<"-">>, IF tmp = LeastInt THEN least ELSE -tmp, 10)

UnsignedNumber ==
  \/ Conversion("u") /\ Number(<<>>, Unsigned(Arg, IntBits), 10)
  \/ Conversion("x") /\ Number(<<>>, Unsigned(Arg, IntBits), 16)
  \/ Conversion("o") /\ Number(<<"0">>, Unsigned(Arg, IntBits), 8)

(* Mutant of Pointer: addresses in octal, for which the buffer is short.   *)
PointerOctal ==
  /\ Conversion("p") \/ Conversion("a")
  /\ Number(<<"0", "x">>, Unsigned(Arg, ptrbits), 8)

Pointer ==
  /\ Conversion("p") \/ Conversion("a")
  /\ Number(<<"0", "x">>, Unsigned(Arg, ptrbits), 16)

(* printstr of a null pointer.                                             *)
Null == <<"(", "n", "u", "l", "l", ")">>

String == Conversion("s") /\ Text(IF Arg = NULL THEN Null ELSE Arg, 1)

Character == Conversion("c") /\ Plain(Arg, 2, 1)

Percent == Conversion("%") /\ Plain("%", 2, 0)

(* Mutant of Unknown: an unknown conversion takes an argument.             *)
UnknownTakes ==
  /\ pc = "scan" /\ At(ptr) = "%" /\ At(ptr + 1) \notin Known
  /\ Text(<<"%", At(ptr + 1)>>, 1)

(* The default case: an unknown conversion prints itself, and so does the  *)
(* NUL after a % that ends the format, which ptr then passes.              *)
Unknown ==
  /\ pc = "scan" /\ At(ptr) = "%" /\ At(ptr + 1) \notin Known
  /\ Text(<<"%", At(ptr + 1)>>, 0)

(* Mutant of Convert: a while loop in place of do, so 0 has no digit.      *)
ConvertWhile ==
  /\ pc = "convert"
  /\ IF u = 0 THEN pc' = "unwind" /\ UNCHANGED <<u, buff, idx>>
     ELSE /\ idx < Places
          /\ buff' = [buff EXCEPT ![idx + 1] = Digits[(u % base) + 1]]
          /\ idx' = idx + 1 /\ u' = u \div base /\ UNCHANGED pc
  /\ UNCHANGED <<callVars, ptr, arg, base, str, printed>>

(* One round of printuint's first loop.  A store past the buffer is        *)
(* undefined, and nothing is said of what follows.                         *)
Convert ==
  /\ pc = "convert"
  /\ IF idx = Places THEN pc' = "overrun" /\ UNCHANGED <<u, buff, idx>>
     ELSE /\ buff' = [buff EXCEPT ![idx + 1] = Digits[(u % base) + 1]]
          /\ idx' = idx + 1
          /\ u' = u \div base
          /\ pc' = IF u' = 0 THEN "unwind" ELSE "convert"
  /\ UNCHANGED <<callVars, ptr, arg, base, str, printed>>

(* The second loop prints the places from the last to the first.           *)
Unwind ==
  /\ pc = "unwind"
  /\ IF idx > 0
     THEN /\ printed' = Append(printed, buff[idx]) /\ idx' = idx - 1
          /\ UNCHANGED <<pc, ptr>>
     ELSE /\ pc' = "scan" /\ ptr' = ptr + 2 /\ UNCHANGED <<printed, idx>>
  /\ UNCHANGED <<callVars, arg, u, base, buff, str>>

(* Mutant of PrintStr: the string's last character is taken for its end.   *)
PrintStrShort ==
  /\ pc \in {"string", "prefix"}
  /\ IF Len(str) > 1
     THEN /\ printed' = Append(printed, Head(str)) /\ str' = Tail(str)
          /\ UNCHANGED <<pc, ptr>>
     ELSE /\ pc' = IF pc = "prefix" THEN "convert" ELSE "scan"
          /\ ptr' = IF pc = "prefix" THEN ptr ELSE ptr + 2
          /\ UNCHANGED <<printed, str>>
  /\ UNCHANGED <<callVars, arg, u, base, buff, idx>>

(* One round of printstr's loop, or its end.                               *)
PrintStr ==
  /\ pc \in {"string", "prefix"}
  /\ IF str # <<>>
     THEN /\ printed' = Append(printed, Head(str)) /\ str' = Tail(str)
          /\ UNCHANGED <<pc, ptr>>
     ELSE /\ pc' = IF pc = "prefix" THEN "convert" ELSE "scan"
          /\ ptr' = IF pc = "prefix" THEN ptr ELSE ptr + 2
          /\ UNCHANGED <<printed, str>>
  /\ UNCHANGED <<callVars, arg, u, base, buff, idx>>

Return ==
  /\ pc = "scan" /\ At(ptr) = NUL
  /\ pc' = "idle"
  /\ UNCHANGED <<callVars, ptr, arg, u, base, buff, idx, str, printed>>

Convey ==
  \/ Literal \/ Signed \/ UnsignedNumber \/ Pointer \/ String \/ Character
  \/ Percent \/ Unknown

Next ==
  \/ \E c \in Calls : Call(c)
  \/ Convey \/ Convert \/ Unwind \/ PrintStr \/ Return

Spec == Init /\ [][Next]_vars

----------------------------------------------------------------------------
(* The numeral of n: the most significant digit, then the others.          *)
Numeral(n, b) ==
  LET len == CHOOSE k \in 1..(n + 1) :
               Power(b, k) > n /\ (k = 1 \/ Power(b, k - 1) <= n)
  IN  [i \in 1..len |-> Digits[((n \div Power(b, len - i)) % b) + 1]]

(* What a conversion of argument x should print; `minus' is the magnitude  *)
(* printed for the least int, w the width of uintptr_t.                    *)
Converted(k, x, minus, w) ==
  CASE k \in {"d", "i"} ->
         IF x >= 0 THEN Numeral(x, 10)
         ELSE <<"-">> \o Numeral(IF x = LeastInt THEN minus ELSE -x, 10)
    [] k = "u" -> Numeral(Unsigned(x, IntBits), 10)
    [] k = "x" -> Numeral(Unsigned(x, IntBits), 16)
    [] k = "o" -> <<"0">> \o Numeral(Unsigned(x, IntBits), 8)
    [] k \in {"p", "a"} -> <<"0", "x">> \o Numeral(Unsigned(x, w), 16)
    [] k = "c" -> <<x>>
    [] k = "s" -> IF x = NULL THEN Null ELSE x

(* The text of the character or conversion at a position of memory m.      *)
Shown(m, xs, at, minus, w) ==
  LET p == at[1]
  IN  CASE m[p] = NUL -> <<>>
        [] m[p] \notin {"%", NUL} -> <<m[p]>>
        [] Takes(m, p) -> Converted(m[p + 1], xs[at[2]], minus, w)
        [] m[p] = "%" /\ m[p + 1] = "%" -> <<"%">>
        [] m[p] = "%" /\ m[p + 1] \notin Known -> <<"%", m[p + 1]>>

(* The text of the first n characters and conversions, and of them all.    *)
Upto(m, xs, minus, w) ==
  LET text[n \in 0..Len(m)] ==
        IF n = 0 THEN <<>>
        ELSE text[n - 1] \o Shown(m, xs, Walk(m)[n - 1], minus, w)
  IN  text

Rendering(m, xs, minus, w) == Upto(m, xs, minus, w)[Len(m)]

(* The digit buffer is never overrun: the twenty places hold every numeral *)
(* of every base printk uses, at the widths of its arguments, the sign-    *)
(* extended magnitude of the least int included (printk.c:57).             *)
DigitsFit == pc # "overrun"

(* A format that ends in an unfinished conversion.                         *)
Unfinished(c) ==
  \E n \in 0..Len(Memory(c)) :
    LET p == Walk(Memory(c))[n][1]
    IN  p = Len(c.fmt) /\ p > 0 /\ c.fmt[p] = "%"

(* A call whose text depends on what the build makes of minus the least    *)
(* int.                                                                    *)
TakesLeast(c) ==
  \E n \in LeastOutcomes(ptrbits) :
    Rendering(Memory(c), c.args, n, ptrbits)
      # Rendering(Memory(c), c.args, -LeastInt, ptrbits)

(* printk prints what its format says: when a call returns, what it handed *)
(* to the console is the text of the format itself, numbers converted at   *)
(* their width, nothing from beyond its end.  Two calls are excepted: one  *)
(* whose format ends in a lone %, where the code reads on, and one that    *)
(* prints the least int where uintptr_t is wider than int.                 *)
PrintsItsFormat ==
  (/\ pc = "idle" /\ calls > 0
   /\ ~Unfinished(call) /\ ~TakesLeast(call))
    => SubSeq(printed, before + 1, Len(printed))
         = Rendering(call.fmt \o <<NUL>>, call.args, -LeastInt, ptrbits)

(* printk is the printk of Console: a call hands on the text of its format *)
(* one character a step and in order, whatever the format; how a number    *)
(* gets its digits shows nowhere else, and no digit of an earlier call     *)
(* comes back from the static buffer.                                      *)
TextOf(c, n, w) == Rendering(Memory(c), c.args, n, w)

Texts ==
  UNION {{TextOf(c, n, w) : c \in Calls, n \in LeastOutcomes(w)} :
           w \in PtrWidths}

(* The bounds leave Console room for every call, so its own never binds.   *)
ASSUME BoundAssumption ==
  MaxCalls \in Nat /\ MaxText \in Nat /\ \A t \in Texts : Len(t) <= MaxText

Unattached ==
  INSTANCE Console
    WITH Message <- Texts, Device <- {}, Tty <- {},
         Buffered <- FALSE, Size <- 1, MaxLog <- MaxCalls * MaxText, MaxSetup <- 0,
         console <- FALSE, cons <- [write |-> FALSE, device |-> NULL],
         ready <- {}, console_buffer <- <<>>, wild <- FALSE, out <- <<>>,
         fmt <- IF calls = 0 THEN <<>> ELSE TextOf(call, least, ptrbits),
         ptr <- IF pc = "idle" THEN 0 ELSE Len(printed) - before + 1,
         setups <- <<>>, log <- printed
IsConsolePrintk == Unattached!Spec
=============================================================================
