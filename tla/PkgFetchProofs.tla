--------------------------- MODULE PkgFetchProofs ---------------------------
(***************************************************************************)
(* Proofs about PkgFetch, for every set of the three scripts, any number   *)
(* of runs, and an interruption of any of them anywhere.                   *)
(***************************************************************************)
EXTENDS PkgFetch, TLAPS

(* Nothing has been unpacked by a run not past its unpack step, a run that *)
(* only looks has not downloaded, and an install has something to install. *)
RunFresh ==
  /\ step \in {"look", "download", "verify", "unpack"} => unpacked = "none"
  /\ step = "look" => ~downloaded
  /\ step = "install" => script = "build_sh" /\ unpacked \in {"other", "good"}

(* Past the download there is a file, and it is the right one where it has *)
(* been verified.                                                          *)
FileThere == step \in {"verify", "unpack", "move"} => archive # "absent"
GoodAtUnpack ==
  step = "unpack" /\ (script = "build_sh" \/ downloaded) => archive = "good"

(* Only qdnix.pkg.mk has a directory dist.  It is newer than the archive   *)
(* only while there is one, and a run that goes beyond its look finds it   *)
(* older.                                                                  *)
DistOfPkgMk == newer \/ step = "move" => script = "pkg_mk"
NewerThanFile == newer => archive # "absent"
OldPastLook == step \in {"download", "verify", "unpack", "move"} => ~newer

IInv ==
  /\ TypeOK
  /\ RunFresh /\ FileThere /\ GoodAtUnpack
  /\ DistOfPkgMk /\ NewerThanFile /\ OldPastLook
  /\ UnpacksVerified

----------------------------------------------------------------------------
(* A run begins and looks for its file: one that goes on to unpack what it *)
(* finds has downloaded nothing, and build.sh then finds the right bytes.  *)
LEMMA LookStep ==
  ASSUME IInv, Start \/ Look
  PROVE  IInv'
<1> USE DEF IInv, TypeOK, RunFresh, FileThere, GoodAtUnpack, DistOfPkgMk,
            NewerThanFile, OldPastLook, UnpacksVerified, distVars
<1>1. CASE Start
  BY <1>1 DEF Start
<1>2. CASE Look
  <2>1. CASE Missing
    <3>1. step' = "download"
      BY <1>2, <2>1 DEF Look
    <3>2. ~newer
      BY <2>1 DEF Missing
    <3> QED
      BY <1>2, <3>1, <3>2 DEF Look
  <2>2. CASE ~Missing /\ script = "pkg_mk" /\ newer
    BY <1>2, <2>2 DEF Look
  <2>3. CASE ~Missing /\ ~(script = "pkg_mk" /\ newer)
    <3>1. step' = "unpack"
      BY <1>2, <2>3 DEF Look
    <3>2. archive # "absent" /\ (script = "build_sh" => archive = "good")
      BY <2>3 DEF Missing
    <3>3. ~newer
      BY <2>3
    <3> QED
      BY <1>2, <3>1, <3>2, <3>3 DEF Look
  <2> QED
    BY <2>1, <2>2, <2>3
<1> QED
  BY <1>1, <1>2

(* The download, and the verification only the right bytes pass.           *)
LEMMA FetchStep ==
  ASSUME IInv, Download \/ DownloadFails \/ Verify
  PROVE  IInv'
<1> USE DEF IInv, TypeOK, RunFresh, FileThere, GoodAtUnpack, DistOfPkgMk,
            NewerThanFile, OldPastLook, UnpacksVerified, distVars
<1>1. CASE Download
  BY <1>1 DEF Download
<1>2. CASE DownloadFails
  BY <1>2 DEF DownloadFails
<1>3. CASE Verify
  BY <1>3 DEF Verify
<1> QED
  BY <1>1, <1>2, <1>3

(* The archive is unpacked, its directory moved to dist or bmake made.     *)
LEMMA UnpackStep ==
  ASSUME IInv, Unpack \/ Move \/ Install
  PROVE  IInv'
<1> USE DEF IInv, TypeOK, RunFresh, FileThere, GoodAtUnpack, DistOfPkgMk,
            NewerThanFile, OldPastLook, UnpacksVerified, distVars
<1>1. CASE Unpack
  <2>1. step' \in {"idle", "move", "install"}
    BY <1>1, ScriptsAssumption DEF Unpack
  <2>2. step' = "move" => script = "pkg_mk"
    BY <1>1, ScriptsAssumption DEF Unpack
  <2>3. step' = "install" => script = "build_sh" /\ archive # "part"
    BY <1>1, ScriptsAssumption DEF Unpack
  <2>4. unpacked' = archive /\ step = "unpack"
    BY <1>1 DEF Unpack
  <2>5. UNCHANGED <<script, archive, downloaded, distVars, bmake>>
    BY <1>1 DEF Unpack
  <2> QED
    BY <2>1, <2>2, <2>3, <2>4, <2>5
<1>2. CASE Move
  BY <1>2 DEF Move
<1>3. CASE Install
  BY <1>3 DEF Install
<1> QED
  BY <1>1, <1>2, <1>3

(* What happens between runs, and the end of a run anywhere.               *)
LEMMA BetweenStep ==
  ASSUME IInv, Clean \/ Release \/ Crash
  PROVE  IInv'
<1> USE DEF IInv, TypeOK, RunFresh, FileThere, GoodAtUnpack, DistOfPkgMk,
            NewerThanFile, OldPastLook, UnpacksVerified, distVars
<1>1. CASE Clean
  BY <1>1 DEF Clean
<1>2. CASE Release
  BY <1>2 DEF Release
<1>3. CASE Crash
  BY <1>3 DEF Crash
<1> QED
  BY <1>1, <1>2, <1>3

----------------------------------------------------------------------------
(* Before the first run there is no file and no directory.                 *)
LEMMA InitIInv == Init => IInv
  BY DEF Init, IInv, TypeOK, RunFresh, FileThere, GoodAtUnpack, DistOfPkgMk,
         NewerThanFile, OldPastLook, UnpacksVerified

(* Every step of a run, and what happens between runs, preserves the       *)
(* invariant.                                                              *)
LEMMA NextIInv == IInv /\ [Next]_vars => IInv'
<1>1. IInv /\ UNCHANGED vars => IInv'
  BY DEF vars, distVars, IInv, TypeOK, RunFresh, FileThere, GoodAtUnpack, DistOfPkgMk,
         NewerThanFile, OldPastLook, UnpacksVerified
<1> QED
  BY <1>1, LookStep, FetchStep, UnpackStep, BetweenStep DEF Next

(* The variables keep their types: what is unpacked is a file that exists, *)
(* dist holds a second directory only while it is newer, and bmake is      *)
(* installed only from an archive that was whole.                          *)
THEOREM TypeCorrect == Spec => []TypeOK
<1>1. IInv => TypeOK
  BY DEF IInv
<1> QED
  BY InitIInv, NextIInv, <1>1, PTL DEF Spec

(* build.sh unpacks verified bytes only, and no script other bytes in the  *)
(* run that downloaded them: see UnpacksVerified.                          *)
THEOREM VerifiedUnpacked == Spec => []UnpacksVerified
<1>1. IInv => UnpacksVerified
  BY DEF IInv
<1> QED
  BY InitIInv, NextIInv, <1>1, PTL DEF Spec

(* mv never finds a directory of its own name in dist: see MoveSucceeds.   *)
THEOREM MovesSucceed == Spec => []MoveSucceeds
<1>1. IInv => MoveSucceeds
  BY DEF IInv, TypeOK, OldPastLook, MoveSucceeds
<1> QED
  BY InitIInv, NextIInv, <1>1, PTL DEF Spec
=============================================================================
