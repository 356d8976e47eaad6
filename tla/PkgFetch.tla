------------------------------ MODULE PkgFetch ------------------------------
(***************************************************************************)
(* One archive fetched from the network, checked against its digest and    *)
(* unpacked, by one of the three scripts that do so:                       *)
(*   build.sh             do_build_bmake, when there is no bmake yet;      *)
(*   qdnix.pkg.mk         the rules of a package under external/;          *)
(*   build-gnutoolchain   download, for the sources of the tool chain.     *)
(* The file, and what was made of it, stay between runs, and a run can be  *)
(* interrupted anywhere.                                                   *)
(***************************************************************************)
EXTENDS Naturals

CONSTANT Scripts     (* the scripts, of the three below                    *)

ASSUME ScriptsAssumption == Scripts \subseteq {"build_sh", "pkg_mk", "gnutoolchain"}

VARIABLES
  script,     (* the script, fixed                                         *)
  step,       (* what its run does next                                    *)
  archive,    (* the file: absent, a part, another archive or the right one *)
  downloaded, (* this run has downloaded the file                          *)
  unpacked,   (* what this run has given to tar or unzip                   *)
  dist,       (* qdnix.pkg.mk: the sources in the directory dist           *)
  inside,     (* dist holds a directory of the name tar unpacks            *)
  newer,      (* dist is newer than the archive                            *)
  bmake       (* build.sh: the bmake installed in TOOLS_DIR/bin            *)

distVars == <<dist, inside, newer>>
vars == <<script, step, archive, downloaded, unpacked, distVars, bmake>>

TypeOK ==
  /\ script \in Scripts
  /\ step \in {"idle", "look", "download", "verify", "unpack", "move", "install"}
  /\ archive \in {"absent", "part", "other", "good"}
  /\ downloaded \in BOOLEAN
  /\ unpacked \in {"none", "part", "other", "good"}
  /\ dist \in {"absent", "current", "former"}
  /\ inside \in BOOLEAN /\ newer \in BOOLEAN
  /\ inside => newer /\ dist # "absent"
  /\ bmake \in {"absent", "other", "good"}

Init ==
  /\ script \in Scripts /\ step = "idle" /\ archive = "absent"
  /\ downloaded = FALSE /\ unpacked = "none"
  /\ dist = "absent" /\ inside = FALSE /\ newer = FALSE
  /\ bmake = "absent"

----------------------------------------------------------------------------
(* "command -v qdn-bmake || do_build_bmake": with a bmake installed, of    *)
(* whatever release, build.sh comes nowhere near the archive.              *)
Start ==
  /\ step = "idle" /\ step' = "look"
  /\ script = "build_sh" => bmake = "absent"
  /\ downloaded' = FALSE /\ unpacked' = "none"
  /\ UNCHANGED <<script, archive, distVars, bmake>>

(* Mutant of Missing: build.sh only looks whether the file is there.       *)
MissingFile == archive = "absent"

(* The file is downloaded when it is absent.  build.sh also verifies the   *)
(* one it finds.  build-gnutoolchain.sh means to: the output of a verify   *)
(* that fails is empty and not quoted, and "[ ! = OK ]" compares "!" with  *)
(* "OK", so the file is kept.                                              *)
Missing ==
  archive = "absent" \/ (script = "build_sh" /\ archive # "good")

(* make has nothing to do when dist is newer than the archive.             *)
Look ==
  /\ step = "look"
  /\ step' = IF Missing THEN "download"
             ELSE IF script = "pkg_mk" /\ newer THEN "idle" ELSE "unpack"
  /\ UNCHANGED <<script, archive, downloaded, unpacked, distVars, bmake>>

(* curl or wget ends well, with the right bytes or others: an error page   *)
(* of the server is a file too.                                            *)
Download ==
  /\ step = "download" /\ step' = "verify" /\ downloaded' = TRUE
  /\ archive' \in {"other", "good"}
  /\ UNCHANGED <<script, unpacked, distVars, bmake>>

(* It fails, and may leave a part of the file.  The run ends, but for      *)
(* build-gnutoolchain.sh, which goes on to verify what wget created.       *)
DownloadFails ==
  /\ step = "download"
  /\ IF script = "gnutoolchain"
     THEN step' = "verify" /\ archive' = "part" /\ downloaded' = TRUE
     ELSE step' = "idle" /\ archive' \in {archive, "part"} /\ UNCHANGED downloaded
  /\ UNCHANGED <<script, unpacked, distVars, bmake>>

(* Mutant of Verify: a mismatch is reported, and the run goes on.          *)
VerifyReports ==
  /\ step = "verify" /\ step' = "unpack"
  /\ UNCHANGED <<script, archive, downloaded, unpacked, distVars, bmake>>

(* A mismatch ends the run and leaves the file.                            *)
Verify ==
  /\ step = "verify"
  /\ step' = IF archive = "good" THEN "unpack" ELSE "idle"
  /\ UNCHANGED <<script, archive, downloaded, unpacked, distVars, bmake>>

(* With a part of an archive tar fails, and the recipe of qdnix.pkg.mk     *)
(* with it, build.sh with unzip.  build-gnutoolchain.sh is at its end.     *)
Unpack ==
  /\ step = "unpack" /\ unpacked' = archive
  /\ step' = IF archive = "part" THEN "idle"
             ELSE CASE script = "pkg_mk"       -> "move"
                    [] script = "build_sh"     -> "install"
                    [] script = "gnutoolchain" -> "idle"
  /\ UNCHANGED <<script, archive, downloaded, distVars, bmake>>

(* configure, make and make install end well, in a directory of their own, *)
(* and mv gives bmake the name "command -v" looks for.                     *)
Install ==
  /\ step = "install" /\ step' = "idle" /\ bmake' = unpacked
  /\ UNCHANGED <<script, archive, downloaded, unpacked, distVars>>

(* Mutant of Move: the directory keeps the date tar gave it.               *)
MoveOld ==
  /\ step = "move" /\ step' = "idle"
  /\ IF dist = "absent" THEN dist' = "current" /\ UNCHANGED inside
     ELSE inside' = TRUE /\ UNCHANGED dist
  /\ UNCHANGED <<script, archive, downloaded, unpacked, newer, bmake>>

(* mv to dist.  tar gave the directory the date of the release, so dist is *)
(* older than the archive and the next run unpacks again: mv then puts the *)
(* directory into dist, which becomes newer.                               *)
Move ==
  /\ step = "move" /\ step' = "idle"
  /\ IF dist = "absent" THEN dist' = "current" /\ UNCHANGED <<inside, newer>>
     ELSE inside' = TRUE /\ newer' = TRUE /\ UNCHANGED dist
  /\ UNCHANGED <<script, archive, downloaded, unpacked, bmake>>

(* "make clean" in the package's directory, to its end or not.             *)
Clean ==
  /\ script = "pkg_mk" /\ step = "idle"
  /\ dist' = "absent" /\ inside' = FALSE /\ newer' = FALSE
  /\ archive' \in {archive, "absent"}
  /\ UNCHANGED <<script, step, downloaded, unpacked, bmake>>

(* The sources name another release: the file of build.sh keeps its name,  *)
(* those of the others have the release in theirs.                         *)
Release ==
  /\ step = "idle" /\ archive # "absent"
  /\ archive' = IF script = "build_sh" THEN "other" ELSE "absent"
  /\ dist' = IF dist = "current" THEN "former" ELSE dist
  /\ inside' = FALSE /\ newer' = FALSE
  /\ bmake' = IF bmake = "good" THEN "other" ELSE bmake
  /\ UNCHANGED <<script, step, downloaded, unpacked>>

(* The run is killed, or a command fails that the model lets succeed; a    *)
(* download leaves what it has written, an install nothing with the name.  *)
Crash ==
  /\ step # "idle" /\ step' = "idle"
  /\ archive' \in IF step = "download" THEN {archive, "part"} ELSE {archive}
  /\ UNCHANGED <<script, downloaded, unpacked, distVars, bmake>>

Next ==
  \/ Start \/ Look \/ Download \/ DownloadFails \/ Verify \/ Unpack
  \/ Move \/ Install \/ Clean \/ Release \/ Crash

(* Whoever builds starts the script again, is not always interrupted at    *)
(* the same place, and once in a while the right bytes arrive.             *)
Spec ==
  /\ Init /\ [][Next]_vars
  /\ WF_vars(Verify \/ Unpack \/ Move \/ Install)
  /\ SF_vars(Start) /\ SF_vars(Look) /\ SF_vars(Download /\ archive' = "good")
  /\ SF_vars(Verify /\ archive = "good") /\ SF_vars(Unpack /\ archive = "good")
  /\ SF_vars(Install)

----------------------------------------------------------------------------
(* build.sh unpacks nothing but verified bytes, whatever earlier runs left *)
(* behind, and no script unpacks other bytes in the run that downloaded    *)
(* them (download_and_verify, the recipe of PKG_ARCHIVE, download).        *)
UnpacksVerified ==
  script = "build_sh" \/ downloaded => unpacked \in {"none", "good"}

(* mv finds no directory of its own name in dist, however often a package  *)
(* is fetched, interrupted and cleaned (qdnix.pkg.mk, the rule for dist).  *)
MoveSucceeds == step = "move" => ~inside

(* A truncated, wrong or outdated file does not stop build.sh for ever:    *)
(* it is replaced by the right one, and bmake is built in the end          *)
(* (download_and_verify, do_build_bmake).                                  *)
Recovers == script = "build_sh" => <>(bmake # "absent")
=============================================================================
