--------------------------- MODULE ProgramsProofs ---------------------------
(***************************************************************************)
(* Proofs about Programs and the request of GeminiRequest it handles: for  *)
(* every command line, every request that fits the buffer, and every size  *)
(* of the two arrays.                                                      *)
(***************************************************************************)
EXTENDS Programs, SequenceTheorems, WellFoundedInduction, TLAPS

----------------------------------------------------------------------------
(* A request: the invariant.                                               *)

(* Nothing has been read before the read, and the string is what the bytes *)
(* read begin with.                                                        *)
ReadOnce ==
  /\ stage = "read" => buffer = <<>>
  /\ stage \in {"ends", "scheme", "scan", "found", "invalid", "wild"} =>
       buffer # <<>>
  /\ buffer # <<>> => req = Terminated(buffer)

(* The test of the last two bytes, which lets short strings through.       *)
EndTested ==
  stage = "scheme" =>
    /\ Len(req) = 1 => req[1] = LF
    /\ Len(req) >= 2 => req[Len(req) - 1] = CR /\ req[Len(req)] = LF

Judged ==
  /\ stage = "invalid" => ~Valid(req)
  /\ stage \in {"scan", "found"} => Valid(req)

Answered ==
  /\ stage # "done" => reply = <<>>
  /\ stage = "done" /\ buffer # <<>> =>
       IF Valid(req) THEN reply = <<>> ELSE IsPrefix(Status, reply)

(* The scan starts after the scheme and stays before the CR at the end;    *)
(* what it has passed has no CR or LF, and from its first slash on it is   *)
(* the path.                                                               *)
FirstSlash(s, f) ==
  /\ f \in (Len(Scheme) + 1)..Len(s) /\ s[f] = Slash
  /\ \A k \in (Len(Scheme) + 1)..(f - 1) : s[k] # Slash

Scanned ==
  /\ stage \in {"read", "ends", "scheme"} => i = 1 /\ ~passed /\ path = <<>>
  /\ stage = "scan" =>
       /\ i \in (Len(Scheme) + 1)..(Len(req) - 1)
       /\ \A k \in 1..(i - 1) : req[k] \notin {CR, LF}
       /\ IF passed
          THEN \E f \in 1..(i - 1) : FirstSlash(req, f) /\ path = SubSeq(req, f, i - 1)
          ELSE /\ path = <<>>
               /\ \A k \in (Len(Scheme) + 1)..(i - 1) : req[k] # Slash
  /\ stage = "found" => path = PathIn(req)

RequestInv ==
  RequestTypeOK /\ ReadOnce /\ EndTested /\ Judged /\ Answered /\ Scanned

----------------------------------------------------------------------------
(* Lemmas about natural numbers and sequences.                             *)

(* A set of natural numbers that is not empty has a least element.         *)
LEMMA LeastNat ==
  ASSUME NEW S, S \subseteq Nat, S # {}
  PROVE  \E m \in S : \A k \in S : m <= k
<1> DEFINE Less == OpToRel(<, Nat)
<1>1. IsWellFoundedOn(Less, Nat)
  BY NatLessThanWellFounded
<1>2. PICK m \in S : \A k \in S : <<k, m>> \notin Less
  <2> HIDE DEF Less
  <2> QED
    BY <1>1, WFMin
<1>3. ASSUME NEW k \in S, k < m PROVE FALSE
  <2>1. <<k, m>> \in {p \in Nat \X Nat : p[1] < p[2]}
    BY <1>3
  <2>2. <<k, m>> \in Less
    BY <2>1 DEF OpToRel
  <2> HIDE DEF Less
  <2> QED
    BY <1>2, <2>2
<1> QED
  BY <1>3

(* Being a prefix, element by element.                                     *)
LEMMA PrefixElements ==
  ASSUME NEW S, NEW s \in Seq(S), NEW t \in Seq(S)
  PROVE  IsPrefix(s, t) <=>
           Len(s) <= Len(t) /\ \A k \in 1..Len(s) : s[k] = t[k]
<1>1. Len(s) \in Nat /\ Len(t) \in Nat
  BY LenProperties
<1>2. SubSeq(s, 1, Len(s)) = s
  BY SubSeqFull
<1> SUFFICES ASSUME Len(s) <= Len(t)
             PROVE  s = SubSeq(t, 1, Len(s)) <=> \A k \in 1..Len(s) : s[k] = t[k]
  BY <1>2 DEF IsPrefix
<1>3. /\ SubSeq(t, 1, Len(s)) \in Seq(S)
      /\ Len(SubSeq(t, 1, Len(s))) = Len(s)
      /\ \A k \in 1..Len(s) : SubSeq(t, 1, Len(s))[k] = t[k]
  <2>1. \A k \in 1..Len(s) : t[k] \in S
    BY <1>1, ElementOfSeq
  <2>2. /\ SubSeq(t, 1, Len(s)) \in Seq(S)
        /\ Len(SubSeq(t, 1, Len(s))) = IF 1 <= Len(s) THEN Len(s) - 1 + 1 ELSE 0
        /\ \A k \in 1..(Len(s) - 1 + 1) : SubSeq(t, 1, Len(s))[k] = t[1 + k - 1]
    BY <1>1, <2>1, SubSeqProperties
  <2> QED
    BY <1>1, <2>2
<1> QED
  BY <1>3, SeqEqual

(* The string in the buffer is a prefix of what was read, without a NUL.   *)
LEMMA TerminatedString ==
  ASSUME NEW s \in Seq(Byte)
  PROVE  Terminated(s) \in Seq(Byte \ {NUL}) /\ IsPrefix(Terminated(s), s)
<1> DEFINE ends == {k \in 1..Len(s) : s[k] = NUL}
<1>1. Len(s) \in Nat /\ s \in [1..Len(s) -> Byte]
  BY LenProperties
<1>2. CASE ends = {}
  <2>1. Terminated(s) = s
    BY <1>2 DEF Terminated
  <2>2. s \in [1..Len(s) -> Byte \ {NUL}]
    BY <1>1, <1>2
  <2>3. s \in Seq(Byte \ {NUL})
    BY <1>1, <2>2, SeqDef
  <2> QED
    BY <2>1, <2>3, PrefixElements
<1>3. CASE ends # {}
  <2> DEFINE m == CHOOSE k \in ends : \A l \in ends : k <= l
  <2>1. \E k \in ends : \A l \in ends : k <= l
    <3>1. ends \subseteq Nat
      BY <1>1
    <3> HIDE DEF ends
    <3> QED
      BY <1>3, <3>1, LeastNat
  <2>2. m \in ends /\ \A l \in ends : m <= l
    BY <2>1
  <2>3. Terminated(s) = SubSeq(s, 1, m - 1)
    BY <1>3 DEF Terminated
  <2> HIDE DEF m
  <2>4. m \in 1..Len(s) /\ \A k \in 1..(m - 1) : s[k] \in Byte \ {NUL}
    BY <1>1, <2>2
  <2> DEFINE t == SubSeq(s, 1, m - 1)
  <2>5. /\ t \in Seq(Byte \ {NUL})
        /\ Len(t) = IF 1 <= m - 1 THEN m - 1 - 1 + 1 ELSE 0
        /\ \A k \in 1..(m - 1 - 1 + 1) : t[k] = s[1 + k - 1]
    BY <1>1, <2>4, SubSeqProperties
  <2>6. Len(t) <= Len(s) /\ \A k \in 1..Len(t) : t[k] = s[k]
    BY <1>1, <2>4, <2>5
  <2>7. t \in Seq(Byte)
    BY <2>5, SeqMonotonic
  <2> HIDE DEF t
  <2>8. IsPrefix(t, s)
    BY <2>6, <2>7, PrefixElements
  <2> QED
    BY <2>3, <2>5, <2>8 DEF t
<1> QED
  BY <1>2, <1>3

(* The lengths and types a step of a request relies on.                    *)
LEMMA RequestTypes ==
  ASSUME RequestTypeOK
  PROVE  /\ Len(req) \in Nat /\ Len(buffer) \in Nat /\ Len(path) \in Nat
         /\ Len(Scheme) \in Nat \ {0} /\ Len(Index) \in Nat /\ Len(Status) \in Nat
         /\ req \in Seq(Byte) /\ Scheme \in Seq(Byte)
         /\ \A k \in 1..Len(Scheme) : Scheme[k] \notin {CR, LF}
         /\ Len(req) <= Len(buffer) /\ Len(req) <= MAX_BUFFER
<1>1. /\ req \in Seq(Byte \ {NUL}) /\ Scheme \in Seq(Byte \ {CR, LF, NUL})
      /\ Scheme # <<>> /\ buffer \in Seq(Byte) /\ path \in Seq(Byte)
  BY ByteAssumption DEF RequestTypeOK
<1>2. req \in Seq(Byte) /\ Scheme \in Seq(Byte)
  BY <1>1, SeqMonotonic
<1>3. \A k \in 1..Len(Scheme) : Scheme[k] \in Byte \ {CR, LF, NUL}
  BY <1>1, ElementOfSeq
<1>4. Len(Scheme) \in Nat \ {0}
  BY <1>1, EmptySeq
<1>5. /\ Len(req) \in Nat /\ Len(buffer) \in Nat /\ Len(path) \in Nat
      /\ Len(Index) \in Nat /\ Len(Status) \in Nat
  BY <1>1, LenProperties, ByteAssumption
<1>6. Len(req) <= Len(buffer) /\ Len(buffer) <= MAX_BUFFER
  BY DEF RequestTypeOK, IsPrefix
<1> QED
  BY <1>2, <1>3, <1>4, <1>5, <1>6, SizeAssumption
----------------------------------------------------------------------------
(* The steps of a request.                                                 *)

(* What is read becomes the string, all at once.                           *)
LEMMA ReadStep ==
  ASSUME RequestInv, Read
  PROVE  RequestInv'
<1>1. /\ stage = "read" /\ buffer = <<>> /\ i = 1 /\ ~passed /\ path = <<>>
      /\ reply = <<>>
      /\ UNCHANGED <<i, passed, path, reply>>
  BY DEF Read, RequestInv, ReadOnce, Scanned, Answered
<1>2. CASE stage' = "done" /\ UNCHANGED <<buffer, req>>
  BY <1>1, <1>2 DEF RequestInv, RequestTypeOK, ReadOnce, EndTested, Judged,
                    Answered, Scanned
<1>3. ASSUME NEW r \in Requests, r # <<>>, Len(r) <= MAX_BUFFER,
             buffer' = r, req' = Terminated(r),
             stage' \in IF Len(r) < MAX_BUFFER THEN {"ends"} ELSE {"ends", "wild"}
      PROVE  RequestInv'
  <2>1. r \in Seq(Byte)
    BY ByteAssumption
  <2>2. req' \in Seq(Byte \ {NUL}) /\ IsPrefix(req', buffer')
    BY <1>3, <2>1, TerminatedString
  <2>3. Len(req') \in Nat /\ stage' \in {"ends", "wild"}
    BY <1>3, <2>2, LenProperties
  <2>4. RequestTypeOK'
    BY <1>1, <1>3, <2>1, <2>2, <2>3 DEF RequestInv, RequestTypeOK
  <2>5. ReadOnce' /\ EndTested' /\ Judged' /\ Answered' /\ Scanned'
    BY <1>1, <1>3, <2>3 DEF ReadOnce, EndTested, Judged, Answered, Scanned
  <2> QED
    BY <2>4, <2>5 DEF RequestInv
<1> QED
  BY <1>2, <1>3 DEF Read

(* The test of the end lets pass what ends in CR LF and, for a string of   *)
(* fewer than two bytes, what the bytes before it make look so.            *)
LEMMA EndsStep ==
  ASSUME RequestInv, Ends
  PROVE  RequestInv'
<1>1. /\ stage = "ends" /\ UNCHANGED <<buffer, req, i, passed, path, reply>>
      /\ stage' \in {"scheme", "invalid"}
  BY DEF Ends
<1>2. RequestTypeOK' /\ ReadOnce' /\ Answered' /\ Scanned'
  BY <1>1 DEF RequestInv, RequestTypeOK, ReadOnce, Answered, Scanned
<1>3. Len(req) \in Nat /\ DOMAIN req = 1..Len(req)
  BY RequestTypes, LenProperties DEF RequestInv
<1>4. PICK before \in {CR, Other} :
        stage' = IF EndsInCrLf(before) THEN "scheme" ELSE "invalid"
  BY DEF Ends
<1> DEFINE at(k) == IF k \in DOMAIN req THEN req[k] ELSE before
<1>5. EndsInCrLf(before) <=>
        at(Len(req) - 1) = CR /\ (Len(req) = 0 \/ at(Len(req)) = LF)
  BY DEF EndsInCrLf
<1>6. CASE EndsInCrLf(before)
  <2>1. stage' = "scheme"
    BY <1>4, <1>6
  <2>2. Len(req) = 1 => req[1] = LF
    BY <1>3, <1>5, <1>6
  <2>3. Len(req) >= 2 => req[Len(req) - 1] = CR /\ req[Len(req)] = LF
    BY <1>3, <1>5, <1>6
  <2> QED
    BY <1>1, <1>2, <2>1, <2>2, <2>3 DEF RequestInv, EndTested, Judged
<1>7. CASE ~EndsInCrLf(before)
  <2>1. stage' = "invalid"
    BY <1>4, <1>7
  <2>2. ~Valid(req)
    BY <1>3, <1>5, <1>7 DEF Valid
  <2> QED
    BY <1>1, <1>2, <2>1, <2>2 DEF RequestInv, EndTested, Judged, Valid
<1> QED
  BY <1>6, <1>7

(* A string with the scheme and CR LF is valid; one too short for the test *)
(* of its end has no room for the scheme.                                  *)
LEMMA CheckSchemeStep ==
  ASSUME RequestInv, CheckScheme
  PROVE  RequestInv'
<1>1. /\ stage = "scheme" /\ UNCHANGED <<buffer, req, passed, path, reply>>
      /\ IF IsPrefix(Scheme, req) THEN stage' = "scan" /\ i' = Len(Scheme) + 1
                                  ELSE stage' = "invalid" /\ UNCHANGED i
  BY DEF CheckScheme
<1>2. /\ Len(req) \in Nat /\ Len(Scheme) \in Nat \ {0}
      /\ req \in Seq(Byte) /\ Scheme \in Seq(Byte)
      /\ \A k \in 1..Len(Scheme) : Scheme[k] \notin {CR, LF}
  BY RequestTypes DEF RequestInv
<1>3. CASE IsPrefix(Scheme, req)
  <2>1. Len(Scheme) <= Len(req) /\ \A k \in 1..Len(Scheme) : Scheme[k] = req[k]
    BY <1>2, <1>3, PrefixElements
  <2>2. \A k \in 1..Len(Scheme) : req[k] \notin {CR, LF}
    BY <1>2, <2>1
  <2>3. Len(req) >= 2
    <3>1. Len(req) # 1
      <4>1. req[1] \notin {CR, LF}
        BY <1>2, <2>2
      <4> QED
        BY <1>1, <4>1 DEF RequestInv, EndTested
    <3>2. Len(req) \in Nat /\ Len(Scheme) >= 1 /\ Len(Scheme) \in Nat
      BY <1>2
    <3>3. Len(Scheme) <= Len(req)
      BY <2>1
    <3>4. PICK n \in Nat : n = Len(req)
      BY <1>2
    <3>5. PICK m \in Nat : m = Len(Scheme)
      BY <1>2
    <3> QED
      BY <3>1, <3>2, <3>3, <3>4, <3>5
  <2>4. req[Len(req) - 1] = CR /\ req[Len(req)] = LF
    BY <1>1, <2>3 DEF RequestInv, EndTested
  <2>5. Len(Scheme) + 1 <= Len(req) - 1
    <3>1. Len(req) - 1 \notin 1..Len(Scheme) /\ Len(req) \notin 1..Len(Scheme)
      BY <2>2, <2>4
    <3> QED
      BY <1>2, <2>3, <3>1
  <2>6. Valid(req)
    BY <1>3, <2>3, <2>4 DEF Valid
  <2>7. /\ stage' = "scan" /\ i' = Len(Scheme) + 1 /\ ~passed /\ path = <<>>
        /\ reply = <<>> /\ buffer # <<>>
    BY <1>1, <1>3 DEF RequestInv, Scanned, Answered, ReadOnce
  <2>8. RequestTypeOK'
    BY <1>1, <1>2, <2>5, <2>7 DEF RequestInv, RequestTypeOK
  <2>9. ReadOnce' /\ EndTested' /\ Judged' /\ Answered'
    BY <1>1, <2>6, <2>7 DEF RequestInv, ReadOnce, EndTested, Judged, Answered, Valid
  <2>10. Scanned'
    BY <1>1, <1>2, <2>2, <2>5, <2>7 DEF Scanned
  <2> QED
    BY <2>8, <2>9, <2>10 DEF RequestInv
<1>4. CASE ~IsPrefix(Scheme, req)
  <2>1. stage' = "invalid" /\ i' = i /\ ~Valid(req)
    BY <1>1, <1>4 DEF Valid
  <2> QED
    BY <1>1, <2>1 DEF RequestInv, RequestTypeOK, ReadOnce, EndTested, Judged,
                      Answered, Scanned, Valid
<1> QED
  BY <1>3, <1>4

(* While the path is scanned it is as long as what has been passed since   *)
(* its first slash.                                                        *)
LEMMA ScanLengths ==
  ASSUME RequestInv, stage = "scan"
  PROVE  /\ i \in (Len(Scheme) + 1)..(Len(req) - 1)
         /\ Len(path) + Len(Scheme) < i /\ i < MAX_BUFFER
         /\ Len(path) < MAX_BUFFER
         /\ req[i] \in Byte
<1>1. /\ Len(req) \in Nat /\ Len(Scheme) \in Nat \ {0} /\ Len(path) \in Nat
      /\ Len(req) <= MAX_BUFFER /\ req \in Seq(Byte) /\ MAX_BUFFER \in Nat
  BY RequestTypes, SizeAssumption DEF RequestInv
<1>2. i \in (Len(Scheme) + 1)..(Len(req) - 1)
  BY DEF RequestInv, Scanned
<1>3. Len(path) + Len(Scheme) < i
  <2>1. CASE passed
    <3>1. PICK f \in 1..(i - 1) : FirstSlash(req, f) /\ path = SubSeq(req, f, i - 1)
      BY <2>1 DEF RequestInv, Scanned
    <3>2. f \in Int /\ i - 1 \in Int /\ \A k \in f..(i - 1) : req[k] \in Byte
      BY <1>1, <1>2, ElementOfSeq
    <3>3. Len(path) = IF f <= i - 1 THEN i - 1 - f + 1 ELSE 0
      BY <3>1, <3>2, SubSeqProperties
    <3> QED
      BY <1>1, <1>2, <3>1, <3>3 DEF FirstSlash
  <2>2. CASE ~passed
    BY <1>1, <1>2, <2>2, EmptySeq DEF RequestInv, Scanned
  <2> QED
    BY <2>1, <2>2
<1> QED
  BY <1>1, <1>2, <1>3, ElementOfSeq

(* One byte more: of the host name, or of the path.                        *)
LEMMA ScanByteStep ==
  ASSUME RequestInv, ScanByte
  PROVE  RequestInv'
<1>1. /\ stage = "scan" /\ ~AtEnd
      /\ i' = i + 1
      /\ passed' = (passed \/ req[i] = Slash)
      /\ path' = IF passed' THEN Append(path, req[i]) ELSE path
      /\ UNCHANGED <<stage, buffer, req, reply>>
  BY DEF ScanByte
<1>2. /\ Len(req) \in Nat /\ Len(Scheme) \in Nat \ {0} /\ Len(path) \in Nat
      /\ Len(req) <= MAX_BUFFER /\ req \in Seq(Byte) /\ MAX_BUFFER \in Nat
      /\ MAX_PATH \in Nat /\ MAX_PATH >= MAX_BUFFER
  BY RequestTypes, SizeAssumption DEF RequestInv
<1>3. /\ i \in (Len(Scheme) + 1)..(Len(req) - 1) /\ req[i] \in Byte
      /\ Len(path) + Len(Scheme) < i /\ i < MAX_BUFFER
  BY <1>1, ScanLengths
<1>4. Valid(req) /\ req[Len(req) - 1] = CR
  BY <1>1 DEF RequestInv, Judged, Valid
<1>5. req[i] \notin {CR, LF}
  BY <1>1 DEF AtEnd
<1>6. i + 1 \in (Len(Scheme) + 1)..(Len(req) - 1)
  <2>1. i # Len(req) - 1
    BY <1>4, <1>5
  <2> QED
    BY <1>2, <1>3, <2>1
<1>7. path \in Seq(Byte) /\ path' \in Seq(Byte) /\ Len(path') <= Len(path) + 1
  BY <1>1, <1>2, <1>3, AppendProperties DEF RequestInv, RequestTypeOK
<1>8. RequestTypeOK'
  <2>1. passed' \in BOOLEAN
    BY <1>1 DEF RequestInv, RequestTypeOK
  <2>2. Len(path') < MAX_PATH
    BY <1>2, <1>3, <1>7, LenProperties
  <2>3. i' \in 1..(Len(req) + 1)
    BY <1>1, <1>2, <1>6
  <2> QED
    BY <1>1, <1>7, <2>1, <2>2, <2>3 DEF RequestInv, RequestTypeOK
<1>9. ReadOnce' /\ EndTested' /\ Judged' /\ Answered'
  BY <1>1 DEF RequestInv, ReadOnce, EndTested, Judged, Answered, Valid
<1>10. Scanned'
  <2>1. \A k \in 1..(i' - 1) : req[k] \notin {CR, LF}
    BY <1>1, <1>2, <1>3, <1>5 DEF RequestInv, Scanned
  <2>2. CASE passed
    <3>1. PICK f \in 1..(i - 1) : FirstSlash(req, f) /\ path = SubSeq(req, f, i - 1)
      BY <1>1, <2>2 DEF RequestInv, Scanned
    <3>2. /\ SubSeq(req, f, i) = SubSeq(req, f, i - 1) \o <<req[i]>>
          /\ SubSeq(req, f, i - 1) \o <<req[i]>> = Append(path, req[i])
      <4>1. f \in 1..Len(req) /\ i \in f..Len(req)
        BY <1>2, <1>3, <3>1
      <4>2. SubSeq(req, f, i) = SubSeq(req, f, i - 1) \o <<req[i]>>
        BY <1>2, <4>1, SubSeqRecursiveSecond
      <4>3. Append(path, req[i]) = path \o <<req[i]>>
        BY <1>3, <1>7, AppendIsConcat
      <4> QED
        BY <3>1, <4>2, <4>3
    <3>3. passed' /\ path' = SubSeq(req, f, i' - 1) /\ f \in 1..(i' - 1)
      <4>1. i' - 1 = i /\ f \in 1..i
        BY <1>1, <1>2, <1>3
      <4>2. passed' /\ path' = Append(path, req[i])
        BY <1>1, <2>2
      <4> QED
        BY <3>2, <4>1, <4>2
    <3>4. req' = req /\ FirstSlash(req, f)
      BY <1>1, <3>1
    <3> QED
      BY <1>1, <1>6, <2>1, <3>3, <3>4 DEF Scanned
  <2>3. CASE ~passed /\ req[i] = Slash
    <3>1. /\ path = <<>>
          /\ \A k \in (Len(Scheme) + 1)..(i - 1) : req[k] # Slash
      BY <1>1, <2>3 DEF RequestInv, Scanned
    <3>2. FirstSlash(req, i)
      BY <1>2, <1>3, <2>3, <3>1 DEF FirstSlash
    <3>3. SubSeq(req, i, i) = Append(<<>>, req[i])
      <4>1. i \in Int /\ \A k \in i..i : req[k] \in Byte
        BY <1>2, <1>3
      <4>2. /\ SubSeq(req, i, i) \in Seq(Byte)
            /\ Len(SubSeq(req, i, i)) = IF i <= i THEN i - i + 1 ELSE 0
            /\ \A k \in 1..(i - i + 1) : SubSeq(req, i, i)[k] = req[i + k - 1]
        BY <4>1, SubSeqProperties
      <4>3. /\ Append(<<>>, req[i]) \in Seq(Byte)
            /\ Len(Append(<<>>, req[i])) = 1
            /\ Append(<<>>, req[i])[1] = req[i]
        BY <1>3, EmptySeq, AppendProperties
      <4>4. /\ Len(SubSeq(req, i, i)) = 1 /\ SubSeq(req, i, i)[1] = req[i]
        BY <4>1, <4>2
      <4> QED
        <5>1. \A k \in 1..Len(SubSeq(req, i, i)) :
                SubSeq(req, i, i)[k] = Append(<<>>, req[i])[k]
          <6> SUFFICES ASSUME NEW k \in 1..Len(SubSeq(req, i, i))
                       PROVE  SubSeq(req, i, i)[k] = Append(<<>>, req[i])[k]
            OBVIOUS
          <6>1. k = 1
            BY <4>4
          <6> QED
            BY <4>3, <4>4, <6>1
        <5> QED
          BY <4>2, <4>3, <4>4, <5>1, SeqEqual
    <3>4. passed' /\ path' = SubSeq(req, i, i' - 1) /\ i \in 1..(i' - 1)
      <4>1. i' - 1 = i /\ i \in 1..i
        BY <1>1, <1>2, <1>3
      <4>2. passed' /\ path' = Append(<<>>, req[i])
        BY <1>1, <2>3, <3>1
      <4> QED
        BY <3>3, <4>1, <4>2
    <3> QED
      BY <1>1, <1>6, <2>1, <3>2, <3>4 DEF Scanned
  <2>4. CASE ~passed /\ req[i] # Slash
    <3>1. ~passed' /\ path' = <<>>
      BY <1>1, <2>4 DEF RequestInv, Scanned
    <3>2. \A k \in (Len(Scheme) + 1)..(i' - 1) : req[k] # Slash
      BY <1>1, <1>2, <1>3, <2>4 DEF RequestInv, Scanned
    <3> QED
      BY <1>1, <1>6, <2>1, <3>1, <3>2 DEF Scanned
  <2> QED
    BY <2>2, <2>3, <2>4
<1> QED
  BY <1>8, <1>9, <1>10 DEF RequestInv

(* The path of a string, once its end and its first slash are known.       *)
LEMMA PathOfString ==
  ASSUME NEW s \in Seq(Byte), NEW e \in 1..Len(s), s[e] \in {CR, LF},
         \A k \in 1..(e - 1) : s[k] \notin {CR, LF}
  PROVE  /\ (\A k \in (Len(Scheme) + 1)..(e - 1) : s[k] # Slash)
              => PathIn(s) = <<>>
         /\ \A f \in 1..(e - 1) :
              FirstSlash(s, f) =>
                PathIn(s) = IF SubSeq(s, f, e - 1) = <<Slash>>
                            THEN <<Slash>> \o Index ELSE SubSeq(s, f, e - 1)
<1> DEFINE end == CHOOSE l \in 1..Len(s) :
                    s[l] \in {CR, LF} /\ \A k \in 1..(l - 1) : s[k] \notin {CR, LF}
           slashesTo(l) == {k \in (Len(Scheme) + 1)..(l - 1) : s[k] = Slash}
           firstTo(l) == CHOOSE k \in slashesTo(l) : \A m \in slashesTo(l) : k <= m
           pathTo(l) ==
             IF slashesTo(l) = {} THEN <<>>
             ELSE IF SubSeq(s, firstTo(l), l - 1) = <<Slash>> THEN <<Slash>> \o Index
             ELSE SubSeq(s, firstTo(l), l - 1)
           slashes == slashesTo(e)
           from == firstTo(e)
<1>1. Len(s) \in Nat /\ Len(Scheme) \in Nat
  BY LenProperties, ByteAssumption
<1>2. end = e
  <2>1. \A l \in 1..Len(s) :
          s[l] \in {CR, LF} /\ (\A k \in 1..(l - 1) : s[k] \notin {CR, LF}) => l = e
    <3> SUFFICES ASSUME NEW l \in 1..Len(s), s[l] \in {CR, LF},
                        \A k \in 1..(l - 1) : s[k] \notin {CR, LF}
                 PROVE  l = e
      OBVIOUS
    <3>1. ~(l < e) /\ ~(e < l)
      BY <1>1
    <3> QED
      BY <1>1, <3>1
  <2>2. s[e] \in {CR, LF} /\ \A k \in 1..(e - 1) : s[k] \notin {CR, LF}
    OBVIOUS
  <2> QED
    BY <2>1, <2>2
<1>3. PathIn(s) = IF slashes = {} THEN <<>>
                  ELSE IF SubSeq(s, from, e - 1) = <<Slash>> THEN <<Slash>> \o Index
                  ELSE SubSeq(s, from, e - 1)
  <2>1. PathIn(s) = pathTo(end)
    BY DEF PathIn
  <2>2. pathTo(end) = pathTo(e)
    <3> HIDE DEF end, pathTo
    <3> QED
      BY <1>2
  <2> QED
    BY <2>1, <2>2
<1>4. (\A k \in (Len(Scheme) + 1)..(e - 1) : s[k] # Slash) => slashes = {}
  OBVIOUS
<1>5. ASSUME NEW f \in 1..(e - 1), FirstSlash(s, f)
      PROVE  slashes # {} /\ from = f
  <2>1. f \in slashes /\ \A l \in slashes : f <= l
    BY <1>1, <1>5 DEF FirstSlash
  <2>2. \A k \in slashes : (\A l \in slashes : k <= l) => k = f
    BY <1>1, <2>1
  <2> HIDE DEF slashesTo
  <2> QED
    BY <2>1, <2>2
<1> HIDE DEF slashes, from, end
<1> QED
  BY <1>3, <1>4, <1>5

(* The scan ends at the first CR or LF, with the path that is asked for.   *)
LEMMA ScanEndStep ==
  ASSUME RequestInv, ScanEnd
  PROVE  RequestInv'
<1>1. /\ stage = "scan" /\ AtEnd /\ stage' = "found"
      /\ path' = IF path = <<Slash>> THEN <<Slash>> \o Index ELSE path
      /\ UNCHANGED <<buffer, req, i, passed, reply>>
  BY DEF ScanEnd
<1>2. /\ Len(req) \in Nat /\ Len(Scheme) \in Nat \ {0} /\ req \in Seq(Byte)
      /\ Len(path) \in Nat /\ MAX_BUFFER \in Nat
  BY RequestTypes, SizeAssumption DEF RequestInv
<1>3. i \in (Len(Scheme) + 1)..(Len(req) - 1) /\ Len(path) < MAX_BUFFER
  BY <1>1, ScanLengths
<1>4. /\ i \in 1..Len(req) /\ req[i] \in {CR, LF}
      /\ \A k \in 1..(i - 1) : req[k] \notin {CR, LF}
  BY <1>1, <1>2, <1>3 DEF AtEnd, RequestInv, Scanned
<1>5. path' = PathIn(req)
  <2>1. CASE passed
    <3>1. PICK f \in 1..(i - 1) : FirstSlash(req, f) /\ path = SubSeq(req, f, i - 1)
      BY <1>1, <2>1 DEF RequestInv, Scanned
    <3>2. PathIn(req) = IF SubSeq(req, f, i - 1) = <<Slash>>
                        THEN <<Slash>> \o Index ELSE SubSeq(req, f, i - 1)
      BY <1>2, <1>4, <3>1, PathOfString
    <3> QED
      BY <1>1, <3>1, <3>2
  <2>2. CASE ~passed
    <3>1. path = <<>> /\ \A k \in (Len(Scheme) + 1)..(i - 1) : req[k] # Slash
      BY <1>1, <2>2 DEF RequestInv, Scanned
    <3>2. PathIn(req) = <<>>
      BY <1>2, <1>4, <3>1, PathOfString
    <3>3. path # <<Slash>>
      BY <3>1
    <3> QED
      BY <1>1, <3>1, <3>2, <3>3
  <2> QED
    BY <2>1, <2>2
<1>6. path' \in Seq(Byte) /\ Len(path') < MAX_PATH
  <2>1. /\ <<Slash>> \in Seq(Byte) /\ Len(<<Slash>>) = 1
        /\ Index \in Seq(Byte) /\ Len(Index) \in Nat
    BY ByteAssumption, LenProperties
  <2>2. /\ <<Slash>> \o Index \in Seq(Byte)
        /\ Len(<<Slash>> \o Index) = 1 + Len(Index)
    BY <2>1, ConcatProperties
  <2>3. path \in Seq(Byte) /\ Len(path) < MAX_PATH
    BY DEF RequestInv, RequestTypeOK
  <2>4. 1 + Len(Index) < MAX_PATH
    BY <2>1, SizeAssumption
  <2> QED
    BY <1>1, <2>2, <2>3, <2>4
<1>7. RequestTypeOK'
  BY <1>1, <1>6 DEF RequestInv, RequestTypeOK
<1>8. ReadOnce' /\ EndTested' /\ Judged' /\ Answered'
  BY <1>1 DEF RequestInv, ReadOnce, EndTested, Judged, Answered, Valid
<1>9. Scanned'
  <2>1. PathIn(req)' = PathIn(req)
    BY <1>1 DEF PathIn
  <2> QED
    BY <1>1, <1>5, <2>1 DEF Scanned
<1> QED
  BY <1>7, <1>8, <1>9 DEF RequestInv

(* A valid request is over without a reply.                                *)
LEMMA FoundStep ==
  ASSUME RequestInv, Found
  PROVE  RequestInv'
BY DEF Found, RequestInv, RequestTypeOK, ReadOnce, EndTested, Judged, Answered,
       Scanned, Valid

(* The reply begins with the status line.                                  *)
LEMMA InvalidStep ==
  ASSUME RequestInv, Invalid
  PROVE  RequestInv'
<1> DEFINE n == MAX_BUFFER - Len(Status) - 1
           rest == [k \in 1..n |->
                      LET b == Len(Status) + 1 + k
                      IN  IF b \in DOMAIN buffer THEN buffer[b]
                          ELSE IF b = Len(buffer) + 1 THEN NUL ELSE Other]
<1>1. /\ stage = "invalid" /\ stage' = "done"
      /\ reply' = Status \o <<NUL>> \o rest
      /\ UNCHANGED <<buffer, req, i, passed, path>>
  BY DEF Invalid
<1>2. rest \in Seq(Byte)
  <2>1. n \in Nat
    BY SizeAssumption, LenProperties, ByteAssumption
  <2>2. \A b \in DOMAIN buffer : buffer[b] \in Byte
    BY ElementOfSeq, LenProperties DEF RequestInv, RequestTypeOK
  <2>3. rest \in [1..n -> Byte]
    BY <2>2, ByteAssumption
  <2> HIDE DEF rest, n
  <2> QED
    BY <2>1, <2>3, SeqDef
<1> HIDE DEF rest
<1>3. reply' \in Seq(Byte) /\ IsPrefix(Status, reply')
  <2>1. Status \in Seq(Byte) /\ Len(Status) \in Nat /\ <<NUL>> \in Seq(Byte)
    BY ByteAssumption, LenProperties
  <2>2. /\ Status \o <<NUL>> \in Seq(Byte)
        /\ Len(Status \o <<NUL>>) = Len(Status) + Len(<<NUL>>)
        /\ \A k \in 1..Len(Status) + Len(<<NUL>>) : (Status \o <<NUL>>)[k] =
             IF k <= Len(Status) THEN Status[k] ELSE <<NUL>>[k - Len(Status)]
    BY <2>1, ConcatProperties
  <2> DEFINE head == Status \o <<NUL>>
  <2>3. head \in Seq(Byte) /\ Len(head) = Len(Status) + 1
    BY <2>2
  <2>4. \A k \in 1..Len(Status) : head[k] = Status[k]
    BY <2>1, <2>2
  <2> HIDE DEF head
  <2>5. /\ head \o rest \in Seq(Byte)
        /\ Len(head \o rest) = Len(head) + Len(rest)
        /\ \A k \in 1..Len(head) + Len(rest) : (head \o rest)[k] =
             IF k <= Len(head) THEN head[k] ELSE rest[k - Len(head)]
    BY <1>2, <2>3, ConcatProperties
  <2>6. Len(rest) \in Nat
    BY <1>2, LenProperties
  <2>7. /\ Len(Status) <= Len(head \o rest)
        /\ \A k \in 1..Len(Status) : Status[k] = (head \o rest)[k]
    BY <2>1, <2>3, <2>4, <2>5, <2>6
  <2>8. reply' = head \o rest
    BY <1>1 DEF head
  <2>9. IsPrefix(Status, head \o rest)
    BY <2>1, <2>5, <2>7, PrefixElements
  <2> QED
    BY <2>5, <2>8, <2>9
<1>4. RequestTypeOK'
  BY <1>1, <1>3 DEF RequestInv, RequestTypeOK
<1>5. ReadOnce' /\ EndTested' /\ Judged' /\ Scanned'
  BY <1>1 DEF RequestInv, ReadOnce, EndTested, Judged, Scanned
<1>6. Answered'
  <2>1. ~Valid(req) /\ Valid(req)' = Valid(req)
    BY <1>1 DEF RequestInv, Judged, Valid
  <2> QED
    BY <1>1, <1>3, <2>1 DEF Answered
<1> QED
  BY <1>4, <1>5, <1>6 DEF RequestInv

(* The invariant of a request, from its start and over its steps.          *)
LEMMA RequestStarts ==
  ASSUME RequestInit
  PROVE  RequestInv
<1>1. <<>> \in Seq(Byte) /\ <<>> \in Seq(Byte \ {NUL}) /\ Len(<<>>) = 0
  BY EmptySeq
<1>2. IsPrefix(<<>>, <<>>)
  <2>1. ASSUME NEW e \in Seq(Byte), Len(e) = 0 PROVE IsPrefix(e, e)
    <3>1. e = SubSeq(e, 1, Len(e))
      BY SubSeqFull
    <3>2. Len(e) <= Len(e)
      BY <2>1
    <3> QED
      BY <3>1, <3>2 DEF IsPrefix
  <2> QED
    BY <1>1, <2>1
<1>3. RequestTypeOK
  <2>1. 0 <= MAX_BUFFER /\ 0 < MAX_PATH /\ 1 \in 1..(0 + 1)
    BY SizeAssumption
  <2>2. /\ stage = "read" /\ i = 1 /\ passed \in BOOLEAN
        /\ buffer = <<>> /\ req = <<>> /\ path = <<>> /\ reply = <<>>
    BY DEF RequestInit
  <2> QED
    BY <1>1, <1>2, <2>1, <2>2 DEF RequestTypeOK
<1> QED
  BY <1>3 DEF RequestInit, RequestInv, ReadOnce, EndTested, Judged, Answered,
              Scanned

(* Every step of a request keeps its invariant.                            *)
LEMMA RequestStep ==
  ASSUME RequestInv, [RequestNext]_requestVars
  PROVE  RequestInv'
<1>1. CASE Read
  BY <1>1, ReadStep
<1>2. CASE Ends
  BY <1>2, EndsStep
<1>3. CASE CheckScheme
  BY <1>3, CheckSchemeStep
<1>4. CASE ScanByte
  BY <1>4, ScanByteStep
<1>5. CASE ScanEnd
  BY <1>5, ScanEndStep
<1>6. CASE Found
  BY <1>6, FoundStep
<1>7. CASE Invalid
  BY <1>7, InvalidStep
<1>8. CASE UNCHANGED requestVars
  BY <1>8 DEF requestVars, RequestInv, RequestTypeOK, ReadOnce, EndTested,
              Judged, Answered, Scanned, FirstSlash, Valid, PathIn
<1> QED
  BY <1>1, <1>2, <1>3, <1>4, <1>5, <1>6, <1>7, <1>8 DEF RequestNext, Handle

(* What the invariant says of a request.                                   *)
LEMMA RequestProperties ==
  ASSUME RequestInv
  PROVE  PathFound /\ PathWithinScan /\ AnswersInvalid
<1>1. PathFound
  BY DEF RequestInv, ReadOnce, Judged, Scanned, PathFound
<1>2. PathWithinScan
  BY ScanLengths, SizeAssumption, RequestTypes DEF PathWithinScan, RequestInv, RequestTypeOK
<1>3. AnswersInvalid
  BY DEF RequestInv, ReadOnce, Answered, AnswersInvalid
<1> QED
  BY <1>1, <1>2, <1>3

----------------------------------------------------------------------------
(* The programs: the invariant.                                            *)

CommandTypeOK ==
  /\ program \in {"geminid", "httpd", "ed"}
  /\ argv \in Seq(Words) /\ idx \in 1..(Len(argv) + 1)
  /\ place \in {"start", "options", "serving", "exited"} \union ToSet(Steps)
  /\ said \in {"nothing", "usage", "version"}
  /\ status \in {"none", "success", "failure"}
  /\ (status = "none") = (place # "exited")
  /\ prepared \subseteq {"libraries", "SIGPIPE ignored"} \union ToSet(Steps)

(* Before the set-up none of it is done but what main does for geminid.    *)
NotYetSetUp ==
  /\ place \in {"start", "options"} => prepared \intersect ToSet(Steps) = {}
  /\ place = "options" /\ program = "geminid" =>
       {"libraries", "SIGPIPE ignored"} \subseteq prepared

(* geminid and ed look at the first word only; httpd has found no option   *)
(* among the words it has passed.                                          *)
WordsPassed ==
  /\ place = "start" \/ (place = "options" /\ program # "httpd") => idx = 1
  /\ place = "options" =>
       \A k \in 1..(idx - 1) : ~Help(argv[k]) /\ ~Version(argv[k])

(* Each step of the set-up follows the success of all before it, except    *)
(* that SO_REUSEADDR may be missing.                                       *)
SetUpInOrder ==
  /\ place \in ToSet(Steps) \union {"serving"} =>
       /\ program = "geminid" /\ (argv # <<>> => ~Dashed(argv[1]))
       /\ {"libraries", "SIGPIPE ignored"} \subseteq prepared
  /\ \A n \in 1..8, k \in 1..8 :
       place = Steps[n] /\ k < n =>
         Steps[k] = "reuse address" \/ Steps[k] \in prepared
  /\ place = "serving" =>
       \A k \in 1..8 : Steps[k] = "reuse address" \/ Steps[k] \in prepared

NoSuccessOnceSetUp == status = "success" => prepared \intersect ToSet(Steps) = {}

CommandInv ==
  /\ CommandTypeOK /\ NotYetSetUp /\ WordsPassed /\ SetUpInOrder
  /\ NoSuccessOnceSetUp /\ CommandLineOutcome

IInv == RequestInv /\ CommandInv

(* The steps of the set-up are eight, all different, and each is followed  *)
(* by the next one.                                                        *)
LEMMA StepsInOrder ==
  /\ \A n \in 1..8 : Steps[n] \in ToSet(Steps)
  /\ \A step \in ToSet(Steps) : \E n \in 1..8 : step = Steps[n]
  /\ \A n \in 1..8 : Steps[n] \notin {"start", "options", "serving", "exited",
                                      "libraries", "SIGPIPE ignored"}
  /\ \A n, k \in 1..8 : Steps[n] = Steps[k] => n = k
  /\ \A n \in 1..7 : After(Steps[n]) = Steps[n + 1]
  /\ After(Steps[8]) = "serving"
<1>1. DOMAIN Steps = 1..8 /\ Len(Steps) = 8
  BY DEF Steps
<1>2. /\ \A n \in 1..8 : Steps[n] \in ToSet(Steps)
      /\ \A step \in ToSet(Steps) : \E n \in 1..8 : step = Steps[n]
  BY <1>1 DEF ToSet
<1>6. /\ Steps[1] = "context" /\ Steps[2] = "TLS 1.2 at least"
      /\ Steps[3] = "certificate" /\ Steps[4] = "key"
      /\ Steps[5] = "socket" /\ Steps[6] = "reuse address"
      /\ Steps[7] = "bind" /\ Steps[8] = "listen"
  BY DEF Steps
<1>7. \A n \in 1..8 : \/ n = 1 \/ n = 2 \/ n = 3 \/ n = 4
                       \/ n = 5 \/ n = 6 \/ n = 7 \/ n = 8
  OBVIOUS
<1>3. \A n \in 1..8 : Steps[n] \notin {"start", "options", "serving", "exited",
                                      "libraries", "SIGPIPE ignored"}
  BY <1>6, <1>7
<1>4. \A n, k \in 1..8 : Steps[n] = Steps[k] => n = k
  BY <1>6, <1>7
<1>5. ASSUME NEW n \in 1..8
      PROVE  After(Steps[n]) = IF n = 8 THEN "serving" ELSE Steps[n + 1]
  <2> DEFINE m == CHOOSE k \in DOMAIN Steps : Steps[k] = Steps[n]
  <2>1. m = n
    BY <1>1, <1>4
  <2>2. After(Steps[n]) = IF m = Len(Steps) THEN "serving" ELSE Steps[m + 1]
    BY DEF After
  <2> HIDE DEF m
  <2> QED
    BY <1>1, <2>1, <2>2
<1>8. After(Steps[8]) = "serving"
  BY <1>5
<1>9. \A n \in 1..7 : After(Steps[n]) = Steps[n + 1]
  BY <1>5
<1> QED
  BY <1>2, <1>3, <1>4, <1>8, <1>9

(* The documented words match their own option and not the other one.      *)
LEMMA OptionMatches ==
  ASSUME NEW w, NEW h \in Matches(w, "h", "help"),
         NEW v \in Matches(w, "V", "version")
  PROVE  (Help(w) => h /\ ~v) /\ (Version(w) => v /\ ~h)
<1> DEFINE hMatches == At(w, 2) = "h" \/ w = <<w[1], "-", "help">>
           vMatches == At(w, 2) = "V" \/ w = <<w[1], "-", "version">>
<1>1. ASSUME Help(w) \/ Version(w)
      PROVE  (Help(w) => hMatches /\ ~vMatches) /\ (Version(w) => vMatches /\ ~hMatches)
  <2>1. CASE w = <<"-", "h">>
    BY <2>1 DEF Help, Version, At
  <2>2. CASE w = <<"-", "-", "help">>
    BY <2>2 DEF Help, Version, At
  <2>3. CASE w = <<"-", "V">>
    BY <2>3 DEF Help, Version, At
  <2>4. CASE w = <<"-", "-", "version">>
    BY <2>4 DEF Help, Version, At
  <2> QED
    BY <1>1, <2>1, <2>2, <2>3, <2>4 DEF Help, Version
<1>2. ASSUME Help(w) \/ Version(w)
      PROVE  h \in {hMatches} /\ v \in {vMatches}
  <2>1. w # <<>>
    BY <1>2 DEF Help, Version
  <2> QED
    BY <2>1 DEF Matches
<1> HIDE DEF hMatches, vMatches
<1>3. ASSUME Help(w) \/ Version(w)
      PROVE  (h <=> hMatches) /\ (v <=> vMatches)
  <2>1. h = hMatches /\ v = vMatches
    BY <1>2, <1>3
  <2> QED
    BY <2>1
<1> QED
  BY <1>1, <1>3

(* A word that is neither option by its second character nor as a whole    *)
(* matches neither.                                                        *)
LEMMA OtherMatches ==
  ASSUME NEW w, NEW h \in Matches(w, "h", "help"),
         NEW v \in Matches(w, "V", "version")
  PROVE  /\ (Dashed(w) /\ At(w, 2) \notin {"h", "V"} /\ ~Help(w) /\ ~Version(w))
              => ~h /\ ~v
         /\ Harmless(w) => ~h /\ ~v
<1> DEFINE hMatches == At(w, 2) = "h" \/ w = <<w[1], "-", "help">>
           vMatches == At(w, 2) = "V" \/ w = <<w[1], "-", "version">>
<1>1. ASSUME w # <<>> PROVE (h <=> hMatches) /\ (v <=> vMatches)
  <2>1. h \in {hMatches} /\ v \in {vMatches}
    BY <1>1 DEF Matches
  <2> HIDE DEF hMatches, vMatches
  <2>2. h = hMatches /\ v = vMatches
    BY <2>1
  <2> QED
    BY <2>2
<1>2. ASSUME Dashed(w), At(w, 2) \notin {"h", "V"}, ~Help(w), ~Version(w)
      PROVE  ~h /\ ~v
  <2>1. w # <<>>
    BY <1>2, WordsAssumption DEF Dashed, At
  <2>2. ~(w = <<w[1], "-", "help">>)
    <3> SUFFICES ASSUME w = <<w[1], "-", "help">> PROVE FALSE
      OBVIOUS
    <3>1. w[1] = "-"
      BY <1>2 DEF Dashed, At
    <3> QED
      BY <1>2, <3>1 DEF Help
  <2>3. ~(w = <<w[1], "-", "version">>)
    <3> SUFFICES ASSUME w = <<w[1], "-", "version">> PROVE FALSE
      OBVIOUS
    <3>1. w[1] = "-"
      BY <1>2 DEF Dashed, At
    <3> QED
      BY <1>2, <3>1 DEF Version
  <2> QED
    BY <1>1, <1>2, <2>1, <2>2, <2>3
<1>3. ASSUME Harmless(w) PROVE ~h /\ ~v
  <2>1. ~(w = <<w[1], "-", "help">>) /\ ~(w = <<w[1], "-", "version">>)
    BY <1>3 DEF Harmless, At
  <2> QED
    BY <1>1, <1>3, <2>1 DEF Harmless
<1> QED
  BY <1>2, <1>3

(* main skips the program's name and sets up what comes before the options.*)
LEMMA MainStep ==
  ASSUME CommandInv, Main
  PROVE  CommandInv'
<1>1. /\ place = "start" /\ place' = "options" /\ idx = 1
      /\ UNCHANGED <<program, argv, idx, said, status>>
      /\ program = "geminid" => prepared' = {"libraries", "SIGPIPE ignored"}
      /\ prepared' \subseteq {"libraries", "SIGPIPE ignored"}
  BY DEF Main, CommandInv, CommandTypeOK, WordsPassed
<1>2. "libraries" \notin ToSet(Steps) /\ "SIGPIPE ignored" \notin ToSet(Steps)
  BY StepsInOrder
<1>3. CommandTypeOK' /\ NotYetSetUp' /\ WordsPassed'
  <2>1. CommandTypeOK'
    BY <1>1 DEF CommandInv, CommandTypeOK
  <2>2. NotYetSetUp'
    BY <1>1, <1>2 DEF NotYetSetUp
  <2>3. WordsPassed'
    <3>1. idx' = 1
      BY <1>1
    <3>2. 1..(1 - 1) = {}
      OBVIOUS
    <3> QED
      BY <3>1, <3>2 DEF WordsPassed
  <2> QED
    BY <2>1, <2>2, <2>3
<1>4. SetUpInOrder'
  BY <1>1, StepsInOrder DEF SetUpInOrder
<1>5. NoSuccessOnceSetUp' /\ CommandLineOutcome'
  BY <1>1 DEF CommandInv, CommandTypeOK, NoSuccessOnceSetUp, CommandLineOutcome
<1> QED
  BY <1>3, <1>4, <1>5 DEF CommandInv

(* An exit before or during the set-up: it remains to see what was said.   *)
LEMMA ExitStep ==
  ASSUME CommandInv, NEW what \in {"nothing", "usage", "version"},
         NEW code \in {"success", "failure"}, Exit(what, code),
         code = "success" => place = "options",
         CommandLineOutcome'
  PROVE  CommandInv'
<1>1. /\ place' = "exited" /\ status' = code /\ said' = what
      /\ UNCHANGED <<program, argv, idx, prepared>>
  BY DEF Exit
<1>2. CommandTypeOK' /\ NotYetSetUp' /\ WordsPassed'
  BY <1>1 DEF CommandInv, CommandTypeOK, NotYetSetUp, WordsPassed
<1>3. SetUpInOrder'
  BY <1>1, StepsInOrder DEF SetUpInOrder
<1>4. NoSuccessOnceSetUp'
  BY <1>1 DEF CommandInv, NotYetSetUp, NoSuccessOnceSetUp
<1> QED
  BY <1>2, <1>3, <1>4 DEF CommandInv

(* The first word is an option: what it asks for is what happens.          *)
LEMMA GetOptionStep ==
  ASSUME CommandInv, GetOption
  PROVE  CommandInv'
<1>1. /\ place = "options" /\ program # "httpd" /\ idx = 1
      /\ Dashed(argv[1])
  BY DEF GetOption, CommandInv, WordsPassed
<1>2. PICK h \in Matches(argv[1], "h", "help"),
           v \in Matches(argv[1], "V", "version") :
        \/ h /\ usage("success")
        \/ ~h /\ v /\ version
        \/ ~h /\ ~v /\ usage("failure")
  BY <1>1 DEF GetOption
<1>3. Help(argv[1]) => h
  BY <1>2, OptionMatches
<1>4. Version(argv[1]) => v /\ ~h
  BY <1>2, OptionMatches
<1>5. argv # <<>>
  <2>1. idx <= Len(argv)
    BY DEF GetOption
  <2> QED
    BY <1>1, <2>1
<1>6. (At(argv[1], 2) \notin {"h", "V"} /\ ~Help(argv[1]) /\ ~Version(argv[1]))
        => ~h /\ ~v
  BY <1>1, <1>2, OtherMatches
<1>7. ASSUME NEW what, NEW code, Exit(what, code),
             h => what = "usage" /\ code = "success",
             ~h /\ v => what = "version" /\ code = "success",
             ~h /\ ~v => what = "usage" /\ code = "failure"
      PROVE  CommandLineOutcome'
  <2>1. said' = what /\ status' = code /\ UNCHANGED <<program, argv>>
    BY <1>7 DEF Exit
  <2>2. FirstWordDecides'
    BY <1>1, <1>3, <1>4, <1>6, <1>7, <2>1
       DEF FirstWordDecides, Dashed, Help, Version, At
  <2> QED
    BY <1>1, <1>5, <2>1, <2>2
       DEF CommandLineOutcome, FirstOptionDecides, NoWordDecides
<1>8. CASE h /\ usage("success")
  <2>1. CommandLineOutcome'
    BY <1>7, <1>8 DEF usage
  <2> QED
    BY <1>1, <1>8, <2>1, ExitStep DEF usage
<1>9. CASE ~h /\ v /\ version
  <2>1. CommandLineOutcome'
    BY <1>7, <1>9 DEF version
  <2> QED
    BY <1>1, <1>9, <2>1, ExitStep DEF version
<1>10. CASE ~h /\ ~v /\ usage("failure")
  <2>1. CommandLineOutcome'
    BY <1>7, <1>10 DEF usage
  <2> QED
    BY <1>1, <1>10, <2>1, ExitStep DEF usage
<1> QED
  BY <1>2, <1>8, <1>9, <1>10

(* The first word that is no option: ed exits, geminid begins its set-up.  *)
LEMMA OptionsEndStep ==
  ASSUME CommandInv, OptionsEnd
  PROVE  CommandInv'
<1>1. /\ place = "options" /\ program # "httpd" /\ idx = 1
      /\ Len(argv) \in Nat
      /\ idx <= Len(argv) => ~Dashed(argv[idx])
  BY LenProperties DEF OptionsEnd, CommandInv, CommandTypeOK, WordsPassed
<1>2. CASE /\ program = "geminid" /\ place' = Steps[1]
           /\ UNCHANGED <<program, argv, idx, said, status, prepared>>
  <2>1. place' \in ToSet(Steps) /\ place' \notin {"start", "options", "serving", "exited"}
    <3>1. 1 \in 1..8
      OBVIOUS
    <3> QED
      BY <1>2, <3>1, StepsInOrder
  <2>2. CommandTypeOK'
    <3> QED
      BY <1>1, <1>2, <2>1 DEF CommandInv, CommandTypeOK
  <2>3. NotYetSetUp' /\ WordsPassed' /\ CommandLineOutcome'
    BY <2>1 DEF NotYetSetUp, WordsPassed, CommandLineOutcome
  <2>4. SetUpInOrder'
    <3>1. {"libraries", "SIGPIPE ignored"} \subseteq prepared'
      BY <1>1, <1>2 DEF CommandInv, NotYetSetUp
    <3>2. ASSUME NEW n \in 1..8, NEW k \in 1..8, place' = Steps[n] PROVE ~(k < n)
      <4>1. 1 \in 1..8
        OBVIOUS
      <4>2. n = 1
        BY <1>2, <3>2, <4>1, StepsInOrder
      <4> QED
        BY <4>2
    <3>3. argv' # <<>> => ~Dashed(argv'[1])
      <4>1. argv # <<>> => Len(argv) # 0
        BY EmptySeq DEF CommandInv, CommandTypeOK
      <4> QED
        BY <1>1, <1>2, <4>1
    <3>4. argv' # <<>> => ~Dashed(argv[1])'
      BY <3>3 DEF Dashed, At
    <3> QED
      BY <1>2, <2>1, <3>1, <3>2, <3>4 DEF SetUpInOrder
  <2>5. NoSuccessOnceSetUp'
    BY <1>1, <1>2 DEF CommandInv, CommandTypeOK, NoSuccessOnceSetUp
  <2> QED
    BY <2>2, <2>3, <2>4, <2>5 DEF CommandInv
<1>3. CASE program = "ed" /\ idx <= Len(argv) /\ Exit("nothing", "success")
  <2>1. ~Dashed(argv[1]) /\ ~Help(argv[1]) /\ ~Version(argv[1])
    BY <1>1, <1>3 DEF Dashed, At, Help, Version
  <2>2. CommandLineOutcome'
    <3>1. /\ said' = "nothing" /\ status' = "success" /\ program' = "ed"
          /\ argv' = argv
      BY <1>3 DEF Exit
    <3>2. argv # <<>>
      BY <1>1, <1>3
    <3>3. FirstWordDecides'
      BY <2>1, <3>1 DEF FirstWordDecides, Dashed, Help, Version, At
    <3> QED
      BY <3>1, <3>2, <3>3
         DEF CommandLineOutcome, FirstOptionDecides, NoWordDecides
  <2> QED
    BY <1>1, <1>3, <2>2, ExitStep
<1>4. CASE program = "ed" /\ idx > Len(argv) /\ usage("failure")
  <2>1. argv = <<>>
    <3>1. Len(argv) = 0
      BY <1>1, <1>4
    <3> QED
      BY <3>1, EmptySeq DEF CommandInv, CommandTypeOK
  <2>2. CommandLineOutcome'
    BY <1>4, <2>1 DEF usage, Exit, CommandLineOutcome, FirstWordDecides,
                      FirstOptionDecides, NoWordDecides
  <2> QED
    BY <1>1, <1>4, <2>2, ExitStep DEF usage
<1> QED
  BY <1>2, <1>3, <1>4 DEF OptionsEnd

(* A word of httpd's: an option ends it, any other is passed.              *)
LEMMA HttpdWordStep ==
  ASSUME CommandInv, HttpdWord
  PROVE  CommandInv'
<1>1. /\ place = "options" /\ program = "httpd" /\ idx \in 1..Len(argv)
      /\ Len(argv) \in Nat
      /\ \A k \in 1..(idx - 1) : ~Help(argv[k]) /\ ~Version(argv[k])
  <2>1. argv \in Seq(Words) /\ idx \in 1..(Len(argv) + 1)
    BY DEF CommandInv, CommandTypeOK
  <2>2. Len(argv) \in Nat
    BY <2>1, LenProperties
  <2>3. /\ place = "options" /\ program = "httpd" /\ idx <= Len(argv)
        /\ \A k \in 1..(idx - 1) : ~Help(argv[k]) /\ ~Version(argv[k])
    BY DEF HttpdWord, CommandInv, WordsPassed
  <2> QED
    BY <2>1, <2>2, <2>3
<1>2. PICK v \in Matches(argv[idx], "V", "version"),
           h \in Matches(argv[idx], "h", "help") :
        \/ v /\ version
        \/ ~v /\ h /\ usage("success")
        \/ /\ ~v /\ ~h /\ idx' = idx + 1
           /\ UNCHANGED <<program, argv, place, said, status, prepared>>
  BY DEF HttpdWord
<1>3. /\ Help(argv[idx]) => h /\ ~v
      /\ Version(argv[idx]) => v /\ ~h
  BY <1>2, OptionMatches
<1>4. Harmless(argv[idx]) => ~h /\ ~v
  BY <1>2, OtherMatches
<1>5. ASSUME NEW what, Exit(what, "success"), v \/ h,
             v => what = "version", ~v => what = "usage"
      PROVE  CommandLineOutcome'
  <2>1. /\ said' = what /\ status' = "success" /\ program' = "httpd"
        /\ argv' = argv
    BY <1>1, <1>5 DEF Exit
  <2>2. DOMAIN argv = 1..Len(argv)
    BY LenProperties DEF CommandInv, CommandTypeOK
  <2>3. ~Harmless(argv[idx])
    BY <1>4, <1>5
  <2>4. ASSUME NEW k \in 1..Len(argv),
               \A j \in 1..(k - 1) : Harmless(argv[j])
        PROVE  /\ Help(argv[k]) => what = "usage"
               /\ Version(argv[k]) => what = "version"
    <3>1. k <= idx
      <4>1. ~(idx \in 1..(k - 1))
        BY <2>3, <2>4
      <4> QED
        BY <1>1, <4>1
    <3>2. CASE k = idx
      BY <1>3, <1>5, <3>2
    <3>3. CASE k < idx
      BY <1>1, <3>3
    <3> QED
      BY <1>1, <3>1, <3>2, <3>3
  <2>5. ~(\A k \in 1..Len(argv) : Harmless(argv[k]))
    BY <1>1, <2>3
  <2>6. FirstOptionDecides'
    BY <2>1, <2>2, <2>4, <2>5
       DEF FirstOptionDecides, Harmless, Help, Version, At
  <2> QED
    BY <2>1, <2>6 DEF CommandLineOutcome, FirstWordDecides, NoWordDecides
<1>6. CASE (v /\ version) \/ (~v /\ h /\ usage("success"))
  <2>1. CASE v /\ version
    <3>1. CommandLineOutcome'
      BY <1>5, <2>1 DEF version
    <3> QED
      BY <1>1, <2>1, <3>1, ExitStep DEF version
  <2>2. CASE ~v /\ h /\ usage("success")
    <3>1. CommandLineOutcome'
      BY <1>5, <2>2 DEF usage
    <3> QED
      BY <1>1, <2>2, <3>1, ExitStep DEF usage
  <2> QED
    BY <1>6, <2>1, <2>2
<1>7. CASE /\ ~v /\ ~h /\ idx' = idx + 1
           /\ UNCHANGED <<program, argv, place, said, status, prepared>>
  <2>1. ~Help(argv[idx]) /\ ~Version(argv[idx])
    BY <1>3, <1>7
  <2>2. CommandTypeOK' /\ NotYetSetUp'
    <3>1. idx + 1 \in 1..(Len(argv) + 1)
      BY <1>1
    <3>2. CommandTypeOK'
      BY <1>7, <3>1 DEF CommandInv, CommandTypeOK
    <3>3. NotYetSetUp'
      BY <1>7 DEF CommandInv, NotYetSetUp
    <3> QED
      BY <3>2, <3>3
  <2>3. WordsPassed'
    <3>1. \A k \in 1..(idx' - 1) : ~Help(argv'[k]) /\ ~Version(argv'[k])
      BY <1>1, <1>7, <2>1
    <3>2. Help(argv[1])' = Help(argv'[1])
      BY DEF Help
    <3> QED
      BY <1>1, <1>7, <3>1 DEF WordsPassed, Help, Version
  <2>4. SetUpInOrder' /\ NoSuccessOnceSetUp' /\ CommandLineOutcome'
    BY <1>1, <1>7 DEF CommandInv, SetUpInOrder, NoSuccessOnceSetUp, CommandLineOutcome
  <2> QED
    BY <2>2, <2>3, <2>4 DEF CommandInv
<1> QED
  BY <1>2, <1>6, <1>7

(* httpd ends after its last word, none of which was an option.            *)
LEMMA HttpdEndStep ==
  ASSUME CommandInv, HttpdEnd
  PROVE  CommandInv'
<1>1. /\ place = "options" /\ program = "httpd" /\ idx = Len(argv) + 1
      /\ Len(argv) \in Nat /\ DOMAIN argv = 1..Len(argv)
      /\ \A k \in 1..(idx - 1) : ~Help(argv[k]) /\ ~Version(argv[k])
      /\ Exit("nothing", "success")
  <2>1. argv \in Seq(Words) /\ idx \in 1..(Len(argv) + 1)
    BY DEF CommandInv, CommandTypeOK
  <2>2. Len(argv) \in Nat /\ DOMAIN argv = 1..Len(argv)
    BY <2>1, LenProperties
  <2>3. /\ place = "options" /\ program = "httpd" /\ idx > Len(argv)
        /\ \A k \in 1..(idx - 1) : ~Help(argv[k]) /\ ~Version(argv[k])
        /\ Exit("nothing", "success")
    BY DEF HttpdEnd, CommandInv, WordsPassed
  <2> QED
    BY <2>1, <2>2, <2>3
<1>2. \A k \in DOMAIN argv : ~Help(argv[k]) /\ ~Version(argv[k])
  BY <1>1
<1>3. CommandLineOutcome'
  <2>1. /\ said' = "nothing" /\ status' = "success" /\ program' = "httpd"
        /\ argv' = argv
    BY <1>1 DEF Exit
  <2>2. FirstOptionDecides'
    BY <1>2, <2>1 DEF FirstOptionDecides, Harmless, Help, Version, At
  <2> QED
    BY <2>1, <2>2 DEF CommandLineOutcome, FirstWordDecides, NoWordDecides
<1> QED
  BY <1>1, <1>3, ExitStep

(* A step of the set-up that goes on.                                      *)
LEMMA PrepareStep ==
  ASSUME CommandInv, Prepare
  PROVE  CommandInv'
<1>1. PICK n \in 1..8 : place = Steps[n]
  BY StepsInOrder DEF Prepare
<1>2. /\ place' = IF n = 8 THEN "serving" ELSE Steps[n + 1]
      /\ prepared' \in {prepared, prepared \union {Steps[n]}}
      /\ Steps[n] = "reuse address" \/ Steps[n] \in prepared'
      /\ IF place' = "serving" THEN argv' = <<>> /\ idx' = 1
                               ELSE UNCHANGED <<argv, idx>>
      /\ UNCHANGED <<program, said, status>>
  <2>1. After(place) = IF n = 8 THEN "serving" ELSE Steps[n + 1]
    <3>1. n = 8 \/ n \in 1..7
      OBVIOUS
    <3> QED
      BY <1>1, <3>1, StepsInOrder
  <2> QED
    BY <1>1, <2>1 DEF Prepare
<1>3. place \notin {"start", "options", "serving", "exited"} /\ place \in ToSet(Steps)
  BY <1>1, StepsInOrder
<1>4. /\ place' \in ToSet(Steps) \union {"serving"}
      /\ place' \notin {"start", "options", "exited"}
  <2>1. n = 8 \/ n + 1 \in 1..8
    OBVIOUS
  <2> QED
    BY <1>2, <2>1, StepsInOrder
<1>5. CommandTypeOK'
  <2>1. argv' \in Seq(Words) /\ idx' \in 1..(Len(argv') + 1)
    <3>1. argv \in Seq(Words) /\ idx \in 1..(Len(argv) + 1)
      BY DEF CommandInv, CommandTypeOK
    <3>2. CASE place' = "serving"
      <4>1. argv' = <<>> /\ idx' = 1
        BY <1>2, <3>2
      <4>2. argv' \in Seq(Words) /\ Len(argv') = 0
        BY <4>1, EmptySeq
      <4> QED
        BY <4>1, <4>2
    <3>3. CASE place' # "serving"
      BY <1>2, <3>1, <3>3
    <3> QED
      BY <3>2, <3>3
  <2> QED
    BY <1>1, <1>2, <1>3, <1>4, <2>1 DEF CommandInv, CommandTypeOK
<1>6. NotYetSetUp' /\ WordsPassed' /\ CommandLineOutcome'
  BY <1>4 DEF NotYetSetUp, WordsPassed, CommandLineOutcome
<1>7. NoSuccessOnceSetUp'
  BY <1>2, <1>3 DEF CommandInv, CommandTypeOK, NoSuccessOnceSetUp
<1>8. SetUpInOrder'
  <2>1. /\ program' = "geminid" /\ (argv' # <<>> => ~Dashed(argv[1])')
        /\ {"libraries", "SIGPIPE ignored"} \subseteq prepared'
    BY <1>2, <1>3 DEF CommandInv, SetUpInOrder, Dashed, At
  <2>2. \A k \in 1..8 : k <= n =>
          Steps[k] = "reuse address" \/ Steps[k] \in prepared'
    <3> SUFFICES ASSUME NEW k \in 1..8, k <= n
                 PROVE  Steps[k] = "reuse address" \/ Steps[k] \in prepared'
      OBVIOUS
    <3>1. CASE k = n
      BY <1>2, <3>1
    <3>2. CASE k < n
      BY <1>1, <1>2, <3>2 DEF CommandInv, SetUpInOrder
    <3>3. k = n \/ k < n
      OBVIOUS
    <3> QED
      BY <3>1, <3>2, <3>3
  <2>3. ASSUME NEW m \in 1..8, NEW k \in 1..8, place' = Steps[m], k < m
        PROVE  Steps[k] = "reuse address" \/ Steps[k] \in prepared'
    <3>1. n # 8 /\ place' = Steps[n + 1]
      BY <1>2, <2>3, StepsInOrder
    <3>2. n + 1 \in 1..8
      BY <3>1
    <3>3. m = n + 1
      BY <2>3, <3>1, <3>2, StepsInOrder
    <3>4. k <= n
      BY <2>3, <3>3
    <3> QED
      BY <2>2, <3>4
  <2>4. ASSUME place' = "serving", NEW k \in 1..8
        PROVE  Steps[k] = "reuse address" \/ Steps[k] \in prepared'
    <3>1. n = 8 \/ n + 1 \in 1..8
      OBVIOUS
    <3>2. n = 8
      BY <1>2, <2>4, <3>1, StepsInOrder
    <3>3. k <= n
      BY <3>2
    <3> QED
      BY <2>2, <3>3
  <2> QED
    BY <2>1, <2>3, <2>4 DEF SetUpInOrder
<1> QED
  BY <1>5, <1>6, <1>7, <1>8 DEF CommandInv

(* A step of the set-up that fails ends geminid.                           *)
LEMMA PrepareFailsStep ==
  ASSUME CommandInv, PrepareFails
  PROVE  CommandInv'
<1>1. /\ program = "geminid" /\ (argv # <<>> => ~Dashed(argv[1]))
      /\ Exit("nothing", "failure")
  BY DEF PrepareFails, CommandInv, SetUpInOrder
<1>2. CommandLineOutcome'
  <2>1. /\ said' = "nothing" /\ status' = "failure" /\ program' = "geminid"
        /\ argv' = argv
    BY <1>1 DEF Exit
  <2>2. argv # <<>> => ~Help(argv[1]) /\ ~Version(argv[1])
    BY <1>1 DEF Dashed, At, Help, Version
  <2>3. FirstWordDecides'
    BY <1>1, <2>1, <2>2 DEF FirstWordDecides, Dashed, Help, Version, At
  <2> QED
    BY <2>1, <2>3 DEF CommandLineOutcome, FirstOptionDecides, NoWordDecides
<1> QED
  BY <1>1, <1>2, ExitStep
----------------------------------------------------------------------------
(* The theorems.                                                           *)

(* The invariant holds at the start of every program.                      *)
LEMMA Starts ==
  ASSUME Init
  PROVE  IInv
<1>1. RequestInv
  BY RequestStarts DEF Init
<1>2. argv \in Seq(Words)
  <2>1. PICK n \in 0..MaxWords : argv \in [1..n -> Words]
    BY DEF Init
  <2> QED
    BY <2>1, WordsAssumption, SeqDef
<1>3. Len(argv) \in Nat /\ idx = 1 /\ place = "start" /\ status = "none"
      /\ prepared = {} /\ said = "nothing" /\ program \in {"geminid", "httpd", "ed"}
  BY <1>2, LenProperties DEF Init
<1>4. CommandTypeOK
  BY <1>2, <1>3 DEF CommandTypeOK
<1>5. SetUpInOrder
  BY <1>3, StepsInOrder DEF SetUpInOrder
<1>6. NotYetSetUp /\ WordsPassed /\ NoSuccessOnceSetUp /\ CommandLineOutcome
  BY <1>3 DEF NotYetSetUp, WordsPassed, NoSuccessOnceSetUp, CommandLineOutcome
<1> QED
  BY <1>1, <1>4, <1>5, <1>6 DEF IInv, CommandInv

(* A program's own variables matter to no request, and the reverse.        *)
LEMMA CommandUnchanged ==
  ASSUME CommandInv, UNCHANGED programVars
  PROVE  CommandInv'
BY DEF programVars, CommandInv, CommandTypeOK, NotYetSetUp, WordsPassed,
       SetUpInOrder, NoSuccessOnceSetUp, CommandLineOutcome, FirstWordDecides,
       FirstOptionDecides, NoWordDecides, Harmless, Help, Version, Dashed, At

(* Every step keeps the invariant.                                         *)
LEMMA Keeps ==
  ASSUME IInv, [Next]_vars
  PROVE  IInv'
<1>1. CASE Main
  <2>1. UNCHANGED requestVars
    BY <1>1 DEF Main
  <2> QED
    BY <1>1, <2>1, MainStep, RequestStep DEF IInv
<1>2. CASE GetOption
  <2>1. UNCHANGED requestVars
    BY <1>2 DEF GetOption, usage, version, Exit
  <2> QED
    BY <1>2, <2>1, GetOptionStep, RequestStep DEF IInv
<1>3. CASE OptionsEnd
  <2>1. UNCHANGED requestVars
    BY <1>3 DEF OptionsEnd, usage, Exit
  <2> QED
    BY <1>3, <2>1, OptionsEndStep, RequestStep DEF IInv
<1>4. CASE HttpdWord
  <2>1. UNCHANGED requestVars
    BY <1>4 DEF HttpdWord, usage, version, Exit
  <2> QED
    BY <1>4, <2>1, HttpdWordStep, RequestStep DEF IInv
<1>5. CASE HttpdEnd
  <2>1. UNCHANGED requestVars
    BY <1>5 DEF HttpdEnd, Exit
  <2> QED
    BY <1>5, <2>1, HttpdEndStep, RequestStep DEF IInv
<1>6. CASE Prepare
  <2>1. UNCHANGED requestVars
    BY <1>6 DEF Prepare
  <2> QED
    BY <1>6, <2>1, PrepareStep, RequestStep DEF IInv
<1>7. CASE PrepareFails
  <2>1. UNCHANGED requestVars
    BY <1>7 DEF PrepareFails, Exit
  <2> QED
    BY <1>7, <2>1, PrepareFailsStep, RequestStep DEF IInv
<1>8. CASE (Read \/ Handle) /\ UNCHANGED programVars
  <2>1. [RequestNext]_requestVars
    BY <1>8 DEF RequestNext
  <2> QED
    BY <1>8, <2>1, CommandUnchanged, RequestStep DEF IInv
<1>9. CASE UNCHANGED vars
  <2>1. UNCHANGED programVars /\ UNCHANGED requestVars
    BY <1>9 DEF vars
  <2> QED
    BY <2>1, CommandUnchanged, RequestStep DEF IInv
<1> QED
  BY <1>1, <1>2, <1>3, <1>4, <1>5, <1>6, <1>7, <1>8, <1>9
     DEF Next, Command, SetUp, ReadRequest, HandleRequest

(* So the invariant holds in every state a program reaches.                *)
LEMMA Invariant == Spec => []IInv
<1>1. Init => IInv
  BY Starts
<1>2. IInv /\ [Next]_vars => IInv'
  BY Keeps
<1> QED
  BY <1>1, <1>2, PTL DEF Spec

(* Every variable keeps its type: the path array is used within its size   *)
(* with room for its NUL, the string read is a prefix of the buffer, the   *)
(* option loops stay on the command line or just behind it.                *)
THEOREM TypeCorrect == Spec => []TypeOK
<1>1. IInv => TypeOK
  BY DEF IInv, RequestInv, CommandInv, CommandTypeOK, TypeOK
<1> QED
  BY <1>1, Invariant, PTL

(* The path gemini_get_path finds is the one the request asks for, for     *)
(* every request that fits the buffer and every size of it.                *)
THEOREM PathIsFound == Spec => []PathFound
<1>1. IInv => PathFound
  BY RequestProperties DEF IInv
<1> QED
  BY <1>1, Invariant, PTL

(* gemini_get_path never copies more than it has passed after the scheme,  *)
(* and never looks past the string.                                        *)
THEOREM PathStaysWithinScan == Spec => []PathWithinScan
<1>1. IInv => PathWithinScan
  BY RequestProperties DEF IInv
<1> QED
  BY <1>1, Invariant, PTL

(* Exactly the invalid requests are answered with the status line.         *)
THEOREM InvalidAreAnswered == Spec => []AnswersInvalid
<1>1. IInv => AnswersInvalid
  BY RequestProperties DEF IInv
<1> QED
  BY <1>1, Invariant, PTL

(* What each program has printed when it exits, and its status, for every  *)
(* command line: see CommandLineOutcome.                                   *)
THEOREM CommandLineDecides == Spec => []CommandLineOutcome
<1>1. IInv => CommandLineOutcome
  BY DEF IInv, CommandInv
<1> QED
  BY <1>1, Invariant, PTL

(* geminid serves with all that server() sets up, and never exits with     *)
(* success once it has begun.                                              *)
THEOREM ServesAllPrepared == Spec => []ServesPrepared
<1>1. IInv => ServesPrepared
  <2>1. ASSUME IInv, place = "serving"
        PROVE  {"libraries", "SIGPIPE ignored"} \union (ToSet(Steps) \ {"reuse address"})
                 \subseteq prepared
    <3>1. \A k \in 1..8 : Steps[k] = "reuse address" \/ Steps[k] \in prepared
      BY <2>1 DEF IInv, CommandInv, SetUpInOrder
    <3>2. ToSet(Steps) \ {"reuse address"} \subseteq prepared
      BY <3>1, StepsInOrder
    <3> QED
      BY <2>1, <3>2 DEF IInv, CommandInv, SetUpInOrder
  <2> QED
    BY <2>1 DEF IInv, CommandInv, NoSuccessOnceSetUp, ServesPrepared
<1> QED
  BY <1>1, Invariant, PTL
=============================================================================
