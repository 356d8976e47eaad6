--------------------------- MODULE GeminiRequest ---------------------------
(***************************************************************************)
(* One request of geminid (sbin/geminid/gemini.c): what the child reads,   *)
(* the path gemini_get_path finds in it and what is written back.          *)
(*                                                                         *)
(* Bytes are symbols.  The scheme "gemini://" is a shorter sequence with   *)
(* slashes at its end, and the sizes of the two arrays are scaled with it. *)
(***************************************************************************)
EXTENDS Integers, Sequences, SequencesExt

CONSTANTS
  Byte,        (* the bytes of a request                                   *)
  Slash, CR, LF, NUL, Other, (* bytes; Other is one of the rest            *)
  Scheme,      (* "gemini://"                                              *)
  Index,       (* the bytes of "index.gmi"                                 *)
  Status,      (* "59 Invalid URI" with its CR LF                          *)
  Requests,    (* what clients send                                        *)
  MAX_BUFFER,  (* the size of the request buffer                           *)
  MAX_PATH     (* the size of the path array                               *)

ASSUME ByteAssumption ==
  /\ {Slash, CR, LF, NUL, Other} \subseteq Byte
  /\ Requests \subseteq Seq(Byte) /\ Index \in Seq(Byte) /\ Status \in Seq(Byte)
  /\ Scheme \in Seq(Byte \ {CR, LF, NUL}) /\ Scheme # <<>>
ASSUME SizeAssumption ==
  /\ MAX_BUFFER \in Nat \ {0} /\ MAX_PATH \in Nat /\ MAX_PATH >= MAX_BUFFER
  /\ Len(Index) + 2 <= MAX_PATH /\ Len(Status) < MAX_BUFFER

VARIABLES
  stage,     (* where the child is                                         *)
  buffer,    (* what SSL_read put into the buffer                          *)
  req,       (* the string in it, up to the first NUL                      *)
  i,         (* position in req, counted from 1                            *)
  passed,    (* has_pass_hostname                                          *)
  path,      (* the part of the static array in use; j is its length       *)
  reply      (* what SSL_write was given                                   *)

requestVars == <<stage, buffer, req, i, passed, path, reply>>

RequestTypeOK ==
  /\ stage \in {"read", "ends", "scheme", "scan", "found", "invalid",
                "done", "wild"}
  /\ buffer \in Seq(Byte) /\ Len(buffer) <= MAX_BUFFER
  /\ req \in Seq(Byte \ {NUL}) /\ IsPrefix(req, buffer)
  /\ i \in 1..(Len(req) + 1)
  /\ passed \in BOOLEAN
  /\ path \in Seq(Byte) /\ Len(path) < MAX_PATH
  /\ reply \in Seq(Byte)

RequestInit ==
  /\ stage = "read" /\ buffer = <<>> /\ req = <<>>
  /\ i = 1 /\ passed = FALSE /\ path = <<>> /\ reply = <<>>

----------------------------------------------------------------------------
(* Mutant of Terminated: the string is all that was read.                  *)
TerminatedAtRead(s) == s

(* The string that starts a sequence of bytes.                             *)
Terminated(s) ==
  LET ends == {k \in 1..Len(s) : s[k] = NUL}
  IN  IF ends = {} THEN s
      ELSE SubSeq(s, 1, (CHOOSE k \in ends : \A l \in ends : k <= l) - 1)

(* SSL_read fails or gives the bytes of a record, at most MAX_BUFFER.  The *)
(* NUL is stored after them; after a full buffer that store is past its    *)
(* end and undefined: it terminates the string or destroys other state.    *)
Read ==
  /\ stage = "read"
  /\ \/ stage' = "done" /\ UNCHANGED <<buffer, req>>
     \/ \E r \in Requests :
          /\ r # <<>> /\ Len(r) <= MAX_BUFFER
          /\ buffer' = r /\ req' = Terminated(r)
          /\ stage' \in IF Len(r) < MAX_BUFFER THEN {"ends"} ELSE {"ends", "wild"}
  /\ UNCHANGED <<i, passed, path, reply>>

(* Mutant of EndsInCrLf: the last byte is not looked at.                   *)
EndsInCr(before) ==
  LET at(k) == IF k \in DOMAIN req THEN req[k] ELSE before
  IN  at(Len(req) - 1) = CR

(* The CR LF test.  A string of fewer than two bytes makes the code look   *)
(* at the bytes before the buffer, which hold anything.                    *)
EndsInCrLf(before) ==
  LET at(k) == IF k \in DOMAIN req THEN req[k] ELSE before
  IN  at(Len(req) - 1) = CR /\ (Len(req) = 0 \/ at(Len(req)) = LF)

Ends ==
  /\ stage = "ends"
  /\ \E before \in {CR, Other} :
       stage' = IF EndsInCrLf(before) THEN "scheme" ELSE "invalid"
  /\ UNCHANGED <<buffer, req, i, passed, path, reply>>

(* Mutant of CheckScheme: the scan starts before the scheme.               *)
CheckSchemeKept ==
  /\ stage = "scheme"
  /\ stage' = IF IsPrefix(Scheme, req) THEN "scan" ELSE "invalid"
  /\ UNCHANGED <<buffer, req, i, passed, path, reply>>

CheckScheme ==
  /\ stage = "scheme"
  /\ IF IsPrefix(Scheme, req) THEN stage' = "scan" /\ i' = Len(Scheme) + 1
                              ELSE stage' = "invalid" /\ UNCHANGED i
  /\ UNCHANGED <<buffer, req, passed, path, reply>>

AtEnd == i > Len(req) \/ Len(path) >= MAX_BUFFER \/ req[i] \in {CR, LF}

(* Mutant of ScanByte: the slash that ends the host name is left out.      *)
ScanByteNoSlash ==
  /\ stage = "scan" /\ ~AtEnd
  /\ i' = i + 1
  /\ passed' = (passed \/ req[i] = Slash)
  /\ path' = IF passed THEN Append(path, req[i]) ELSE path
  /\ UNCHANGED <<stage, buffer, req, reply>>

(* Mutant of ScanByte: bytes of the host name do not advance the loop.     *)
ScanByteStuck ==
  /\ stage = "scan" /\ ~AtEnd
  /\ passed' = (passed \/ req[i] = Slash)
  /\ i' = IF passed' THEN i + 1 ELSE i
  /\ path' = IF passed' THEN Append(path, req[i]) ELSE path
  /\ UNCHANGED <<stage, buffer, req, reply>>

(* One round of the loop: bytes of the host name are passed over.          *)
ScanByte ==
  /\ stage = "scan" /\ ~AtEnd
  /\ i' = i + 1
  /\ passed' = (passed \/ req[i] = Slash)
  /\ path' = IF passed' THEN Append(path, req[i]) ELSE path
  /\ UNCHANGED <<stage, buffer, req, reply>>

ScanEnd ==
  /\ stage = "scan" /\ AtEnd
  /\ stage' = "found"
  /\ path' = IF path = <<Slash>> THEN <<Slash>> \o Index ELSE path
  /\ UNCHANGED <<buffer, req, i, passed, reply>>

(* A valid request gets no reply yet: the path is printed.                 *)
Found == stage = "found" /\ stage' = "done"
           /\ UNCHANGED <<buffer, req, i, passed, path, reply>>

(* sprintf puts the status line and a NUL over the head of the buffer, and *)
(* the whole buffer is written: what follows is the request's, and beyond  *)
(* it whatever the array held before.                                      *)
Invalid ==
  /\ stage = "invalid" /\ stage' = "done"
  /\ reply' = Status \o <<NUL>> \o
       [k \in 1..(MAX_BUFFER - Len(Status) - 1) |->
          LET b == Len(Status) + 1 + k
          IN  IF b \in DOMAIN buffer THEN buffer[b]
              ELSE IF b = Len(buffer) + 1 THEN NUL ELSE Other]
  /\ UNCHANGED <<buffer, req, i, passed, path>>

(* What follows the read.                                                  *)
Handle == Ends \/ CheckScheme \/ ScanByte \/ ScanEnd \/ Found \/ Invalid

RequestNext == Read \/ Handle

----------------------------------------------------------------------------
(* What a request asks for, said of the request as a whole: its string is  *)
(* the scheme, a host name, a path from the first slash on, and CR LF.     *)
Valid(s) ==
  /\ Len(s) >= 2 /\ s[Len(s) - 1] = CR /\ s[Len(s)] = LF
  /\ IsPrefix(Scheme, s)

(* The bytes from the first slash after the scheme to the first CR or LF.  *)
PathIn(s) ==
  LET end == CHOOSE e \in 1..Len(s) :
               s[e] \in {CR, LF} /\ \A k \in 1..(e - 1) : s[k] \notin {CR, LF}
      slashes == {k \in (Len(Scheme) + 1)..(end - 1) : s[k] = Slash}
      from == CHOOSE k \in slashes : \A l \in slashes : k <= l
  IN  IF slashes = {} THEN <<>>
      ELSE IF SubSeq(s, from, end - 1) = <<Slash>> THEN <<Slash>> \o Index
      ELSE SubSeq(s, from, end - 1)

(* The path found is the one asked for, whatever the host name, with any   *)
(* number of slashes, an early CR, an early NUL, and the index page for    *)
(* the bare slash (gemini_get_path, one byte at a time).                   *)
PathFound ==
  stage = "found" => Valid(Terminated(buffer)) /\ path = PathIn(Terminated(buffer))

(* The path array is used within its bounds with room for its NUL: what is *)
(* copied is never more than what the scan has passed, less the scheme.    *)
PathWithinScan ==
  stage = "scan" => Len(path) + Len(Scheme) < i /\ i <= MAX_BUFFER + 1

(* A child that has read a request is done only after it has answered an   *)
(* invalid one, with the whole status line first, and it answers no other. *)
AnswersInvalid ==
  stage = "done" /\ buffer # <<>> =>
    IF Valid(Terminated(buffer)) THEN reply = <<>> ELSE IsPrefix(Status, reply)

(* A request that was read is handled to its end, whatever bytes it has:   *)
(* the loop of gemini_get_path always ends.                                *)
RequestHandled == stage = "ends" ~> stage = "done"
=============================================================================
