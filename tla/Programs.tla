------------------------------ MODULE Programs ------------------------------
(***************************************************************************)
(* The user programs from their command line on: sbin/geminid (main.c,     *)
(* tls.c and create_server), sbin/httpd and bin/ed.  What geminid does     *)
(* once it serves is a request of GeminiRequest, read by a child that      *)
(* inherited all that the start-up prepared.                               *)
(*                                                                         *)
(* A word of the command line is a sequence of symbols: a dash, a letter,  *)
(* the name of a long option.  argv is taken without the program's name,   *)
(* which every program skips; it is dropped when geminid begins to serve.  *)
(***************************************************************************)
EXTENDS GeminiRequest

CONSTANTS
  Words,     (* the words of a command line                                *)
  MaxWords   (* bound: words on it                                         *)

ASSUME WordsAssumption == MaxWords \in Nat /\ NUL # "-"

VARIABLES
  program,   (* which program runs, fixed                                  *)
  argv,      (* its words                                                  *)
  idx,       (* the word the option loop looks at, counted from 1          *)
  place,     (* what the program does next                                 *)
  said,      (* what it has printed                                        *)
  status,    (* its exit status                                            *)
  prepared   (* what it has set up                                         *)

programVars == <<program, argv, idx, place, said, status, prepared>>
vars == <<programVars, requestVars>>

(* What server() sets up, in the order of create_tls_context and then of   *)
(* create_server.                                                          *)
Steps == <<"context", "TLS 1.2 at least", "certificate", "key",
           "socket", "reuse address", "bind", "listen">>

(* The steps whose result is not tested.  The version cannot fail to be    *)
(* set: it is one the library knows.                                       *)
Untested == {"TLS 1.2 at least", "reuse address"}

TypeOK ==
  /\ RequestTypeOK
  /\ program \in {"geminid", "httpd", "ed"}
  /\ argv \in Seq(Words) /\ idx \in 1..(Len(argv) + 1)
  /\ place \in {"start", "options", "serving", "exited"} \union ToSet(Steps)
  /\ said \in {"nothing", "usage", "version"}
  /\ status \in {"none", "success", "failure"}
  /\ (status = "none") = (place # "exited")
  /\ prepared \subseteq {"libraries", "SIGPIPE ignored"} \union ToSet(Steps)

Init ==
  /\ RequestInit
  /\ program \in {"geminid", "httpd", "ed"}
  /\ argv \in UNION {[1..n -> Words] : n \in 0..MaxWords}
  /\ idx = 1 /\ place = "start"
  /\ said = "nothing" /\ status = "none" /\ prepared = {}

----------------------------------------------------------------------------
(* The k-th character of a word, which its terminator follows.             *)
At(w, k) == IF k <= Len(w) THEN w[k] ELSE NUL

(* Mutant of Matches: a long option is looked for with its dash alone.     *)
MatchesShort(w, s, long) ==
  IF w = <<>> THEN BOOLEAN ELSE {At(w, 2) = s \/ w = <<w[1], long>>}

(* IS_OPTARG: the letter s second, or a dash and the long name after the   *)
(* first character.  Of an empty word it reads past the terminator: what   *)
(* it finds there may match.                                               *)
Matches(w, s, long) ==
  IF w = <<>> THEN BOOLEAN
  ELSE {At(w, 2) = s \/ w = <<w[1], "-", long>>}

Exit(what, code) ==
  /\ place' = "exited" /\ said' = what /\ status' = code
  /\ UNCHANGED <<program, argv, idx, prepared, requestVars>>

version == Exit("version", "success")
usage(code) == Exit("usage", code)

(* Skip the program's name; geminid sets up the TLS libraries, and the     *)
(* servers ignore SIGPIPE.                                                 *)
Main ==
  /\ place = "start" /\ place' = "options"
  /\ prepared' = CASE program = "geminid" -> {"libraries", "SIGPIPE ignored"}
                   [] program = "httpd"   -> {"SIGPIPE ignored"}
                   [] program = "ed"      -> {}
  /\ UNCHANGED <<program, argv, idx, said, status, requestVars>>

(* geminid and ed: only a word that begins with a dash is an option, and   *)
(* every one of them ends the program.                                     *)
Dashed(w) == At(w, 1) = "-"

GetOption ==
  /\ place = "options" /\ program \in {"geminid", "ed"}
  /\ idx <= Len(argv) /\ Dashed(argv[idx])
  /\ \E h \in Matches(argv[idx], "h", "help"),
        v \in Matches(argv[idx], "V", "version") :
       \/ h /\ usage("success")
       \/ ~h /\ v /\ version
       \/ ~h /\ ~v /\ usage("failure")

(* The loop ends at the first word that is no option: geminid goes on,     *)
(* whatever the word; ed needs one, its FILE.                              *)
OptionsEnd ==
  /\ place = "options" /\ program \in {"geminid", "ed"}
  /\ idx <= Len(argv) => ~Dashed(argv[idx])
  /\ \/ /\ program = "geminid" /\ place' = Steps[1]
        /\ UNCHANGED <<program, argv, idx, said, status, prepared,
                       requestVars>>
     \/ program = "ed" /\ idx <= Len(argv) /\ Exit("nothing", "success")
     \/ program = "ed" /\ idx > Len(argv) /\ usage("failure")

(* Mutant of HttpdWord: the loop looks at the same word again.             *)
HttpdWordAgain ==
  /\ place = "options" /\ program = "httpd" /\ idx <= Len(argv)
  /\ \E v \in Matches(argv[idx], "V", "version"),
        h \in Matches(argv[idx], "h", "help") :
       \/ v /\ version
       \/ ~v /\ h /\ usage("success")
       \/ ~v /\ ~h /\ UNCHANGED vars

(* httpd looks at every word, with a dash or without.                      *)
HttpdWord ==
  /\ place = "options" /\ program = "httpd" /\ idx <= Len(argv)
  /\ \E v \in Matches(argv[idx], "V", "version"),
        h \in Matches(argv[idx], "h", "help") :
       \/ v /\ version
       \/ ~v /\ h /\ usage("success")
       \/ /\ ~v /\ ~h /\ idx' = idx + 1
          /\ UNCHANGED <<program, argv, place, said, status, prepared,
                         requestVars>>

HttpdEnd ==
  /\ place = "options" /\ program = "httpd" /\ idx > Len(argv)
  /\ Exit("nothing", "success")

(* What follows a step of the set-up.                                      *)
After(step) ==
  LET n == CHOOSE k \in DOMAIN Steps : Steps[k] = step
  IN  IF n = Len(Steps) THEN "serving" ELSE Steps[n + 1]

(* Mutant of Prepare: a file that cannot be loaded is only reported.       *)
PrepareUnchecked ==
  /\ place \in ToSet(Steps) /\ place' = After(place)
  /\ \/ prepared' = prepared \union {place}
     \/ place \in {"certificate", "reuse address"} /\ UNCHANGED prepared
  /\ IF place' = "serving" THEN argv' = <<>> /\ idx' = 1
                            ELSE UNCHANGED <<argv, idx>>
  /\ UNCHANGED <<program, said, status, requestVars>>

(* A step of the set-up succeeds; a failure of setsockopt goes unnoticed.  *)
Prepare ==
  /\ place \in ToSet(Steps) /\ place' = After(place)
  /\ \/ prepared' = prepared \union {place}
     \/ place = "reuse address" /\ UNCHANGED prepared
  /\ IF place' = "serving" THEN argv' = <<>> /\ idx' = 1
                            ELSE UNCHANGED <<argv, idx>>
  /\ UNCHANGED <<program, said, status, requestVars>>

PrepareFails ==
  /\ place \in ToSet(Steps) \ Untested
  /\ Exit("nothing", "failure")

(* A client's request, in the child forked for it.                         *)
ReadRequest == place = "serving" /\ Read /\ UNCHANGED programVars
HandleRequest == place = "serving" /\ Handle /\ UNCHANGED programVars

Command == Main \/ GetOption \/ OptionsEnd \/ HttpdWord \/ HttpdEnd
SetUp == Prepare \/ PrepareFails

Next == Command \/ SetUp \/ ReadRequest \/ HandleRequest

(* A program runs on; only the read of a request waits for someone else.   *)
Spec == Init /\ [][Next]_vars /\ WF_vars(Command \/ SetUp \/ HandleRequest)

----------------------------------------------------------------------------
(* A word of the documented options, said of the word as a whole.          *)
Help(w) == w \in {<<"-", "h">>, <<"-", "-", "help">>}
Version(w) == w \in {<<"-", "V">>, <<"-", "-", "version">>}

(* A word httpd passes by, whatever its first character.                   *)
Harmless(w) == w # <<>> /\ At(w, 2) \notin {"h", "V", "-"}

(* geminid and ed decide by the first word alone: help and version are as  *)
(* documented; any other word with a dash is a usage error, geminid's      *)
(* documented -p, -c and -k included; without a dash, geminid prints       *)
(* nothing and its set-up decides, and ed takes the word for its FILE.     *)
FirstWordDecides ==
  program # "httpd" /\ argv # <<>> =>
    LET w == argv[1] IN
    /\ Help(w) => said = "usage" /\ status = "success"
    /\ Version(w) => said = "version" /\ status = "success"
    /\ Dashed(w) /\ At(w, 2) \notin {"h", "V"} /\ ~Help(w) /\ ~Version(w) =>
         said = "usage" /\ status = "failure"
    /\ ~Dashed(w) => said = "nothing" /\ (status = "success" <=> program = "ed")

(* httpd does what the first option on the line asks for, wherever it      *)
(* stands, prints nothing when there is none, and always succeeds.         *)
FirstOptionDecides ==
  program = "httpd" =>
    /\ status = "success"
    /\ \A k \in DOMAIN argv : (\A j \in 1..(k - 1) : Harmless(argv[j])) =>
         /\ Help(argv[k]) => said = "usage"
         /\ Version(argv[k]) => said = "version"
    /\ (\A k \in DOMAIN argv : Harmless(argv[k])) => said = "nothing"

(* With no word at all ed fails, though its FILE is documented as          *)
(* optional, and geminid goes on to its set-up, where only failure ends it.*)
NoWordDecides ==
  program # "httpd" /\ argv = <<>> =>
    /\ status = "failure"
    /\ said = IF program = "ed" THEN "usage" ELSE "nothing"

(* What a program that exits has printed and with which status, for every  *)
(* command line (the option loops of sbin/geminid/main.c, bin/ed/ed.c and  *)
(* sbin/httpd/main.c).                                                     *)
CommandLineOutcome ==
  place = "exited" => FirstWordDecides /\ FirstOptionDecides /\ NoWordDecides

(* geminid serves only when all that server() asked for succeeded, the     *)
(* reuse of the address apart, and never exits with success once it has    *)
(* begun: a socket without its certificate or its port never reaches the   *)
(* accept loop (create_tls_context, create_server).                        *)
ServesPrepared ==
  /\ place = "serving" =>
       {"libraries", "SIGPIPE ignored"} \union (ToSet(Steps) \ {"reuse address"})
         \subseteq prepared
  /\ status = "success" => prepared \intersect ToSet(Steps) = {}

(* Every program, with any command line, exits or comes to serve.          *)
ExitsOrServes == <>(place \in {"exited", "serving"})
=============================================================================
