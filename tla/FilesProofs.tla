----------------------------- MODULE FilesProofs -----------------------------
(***************************************************************************)
(* An executable is installed whole and kept, a release is of one build, a  *)
(* scan misses no document, a change of a watched file is not forgotten,    *)
(* and a database is a whole version with the rows it had: for any placers, *)
(* builds, trees, files, channel and processes.                             *)
(***************************************************************************)
EXTENDS DatabaseProofs, WellFoundedInduction, TLAPS

-----------------------------------------------------------------------------
(***************************************************************************)
(* Placing.  The installed executable is whole and is not lost, for any     *)
(* number of placers, whatever fails and whoever dies.                      *)
(***************************************************************************)
(* A finished copy is a file. *)
LEMMA CopyIsFile ==
    ASSUME NEW p \in Placers
    PROVE  /\ File(p, "executable") \in Files
           /\ File(p, "executable") # NoFile
           /\ File(p, "partial") \in Files /\ File(p, "copied") \in Files
           /\ Whole(File(p, "executable"))
BY NoFileIsNone DEF File, Files, Builds, Whole

LEMMA PlacementInit == Init => PlacementInv
<1> SUFFICES ASSUME Init PROVE PlacementInv
  OBVIOUS
<1>1. File(Earlier, "executable") \in Files
  BY DEF File, Files, Builds
<1>2. Whole(dest) /\ Whole(NoFile)
  BY DEF Init, Whole, File, Files, Builds
<1>3. TypeOK
  BY <1>1 DEF Init, TypeOK, Steps, Ended
<1> QED
  BY <1>2, <1>3 DEF Init, PlacementInv, InstalledIsWhole, SuccessLeavesNothing, DiscardIsSafe

(***************************************************************************)
(* The steps that leave the installed file and all backups where they are.  *)
(***************************************************************************)
Leaves(p) ==
    \/ Look(p) \/ CreateTemp(p) \/ Copy(p) \/ Chmod(p) \/ Close(p) \/ Stat(p)
    \/ Cleanup(p) \/ Dies(p)

LEMMA LeavingKeeps ==
    ASSUME PlacementInv, NEW p \in Placers, Leaves(p)
    PROVE  PlacementInv'
<1> USE DEF PlacementInv, Goes, NothingMoves
<1>1. /\ dest' = dest /\ backup' = backup
      /\ \E step \in Steps \cup Ended :
            /\ at' = [at EXCEPT ![p] = step]
            /\ step # "discard"
            /\ step = "placed" => at[p] = "look"
      /\ \A q \in Placers \ {p} : tmp'[q] = tmp[q]
      /\ tmp' \in [Placers -> Files \cup {NoFile}]
  BY CopyIsFile DEF Leaves, Look, CreateTemp, Copy, Chmod, Close, Stat, Cleanup, Dies,
                    TypeOK, Steps, Ended
<1>2. TypeOK'
  <2>1. /\ dest' \in Files \cup {NoFile}
        /\ backup' \in [Placers -> Files \cup {NoFile}]
        /\ at' \in [Placers -> Steps \cup Ended]
    BY <1>1 DEF TypeOK
  <2>2. ASSUME NEW q \in Placers
        PROVE  /\ at'[q] \in {"close", "rename", "stat", "setAside", "replace", "restore"}
                    => tmp'[q] = File(q, "executable")
               /\ at'[q] \in {"replace", "restore", "discard"} => backup'[q] # NoFile
               /\ at'[q] \in {"look", "create", "copy", "mode", "close", "rename", "stat",
                              "setAside"} => backup'[q] = NoFile
               /\ at'[q] \in {"look", "create", "discard"} => tmp'[q] = NoFile
    <3>1. CASE q # p
      BY <1>1, <3>1 DEF TypeOK
    <3>2. CASE q = p
      BY <1>1, <3>2 DEF Leaves, Look, CreateTemp, Copy, Chmod, Close, Stat, Cleanup, Dies,
                        TypeOK, Steps, Ended
    <3> QED
      BY <3>1, <3>2
  <2> QED
    BY <1>1, <2>1, <2>2 DEF TypeOK
<1>3. InstalledIsWhole'
  BY <1>1 DEF InstalledIsWhole, Whole
<1>4. SuccessLeavesNothing'
  <2> SUFFICES ASSUME NEW q \in Placers, at'[q] = "placed"
               PROVE  tmp'[q] = NoFile /\ backup'[q] = NoFile
    BY DEF SuccessLeavesNothing
  <2>1. CASE q # p
    BY <1>1, <2>1 DEF TypeOK, SuccessLeavesNothing
  <2>2. CASE q = p
    <3>1. at[p] = "look" /\ Look(p)
      BY <1>1, <2>2 DEF Leaves, Look, CreateTemp, Copy, Chmod, Close, Stat, Cleanup, Dies,
                        TypeOK, Ended, Steps
    <3> QED
      BY <2>2, <3>1 DEF Look, TypeOK
  <2> QED
    BY <2>1, <2>2
<1>5. DiscardIsSafe'
  BY <1>1 DEF DiscardIsSafe, TypeOK
<1> QED
  BY <1>2, <1>3, <1>4, <1>5

(***************************************************************************)
(* The steps of replacePlacedExecutable.                                    *)
(***************************************************************************)
LEMMA ReplaceKeeps ==
    ASSUME PlacementInv, NEW p \in Placers,
           Rename(p) \/ SetAside(p) \/ Replace(p) \/ Restore(p) \/ Discard(p)
    PROVE  PlacementInv'
<1> USE DEF PlacementInv, Goes, NothingMoves, TmpToDest
<1>1. TypeOK'
  <2>1. /\ dest' \in Files \cup {NoFile}
        /\ tmp' \in [Placers -> Files \cup {NoFile}]
        /\ backup' \in [Placers -> Files \cup {NoFile}]
        /\ at' \in [Placers -> Steps \cup Ended]
    BY CopyIsFile DEF Rename, SetAside, Replace, Restore, Discard, TypeOK, Steps, Ended
  <2>2. ASSUME NEW q \in Placers
        PROVE  /\ at'[q] \in {"close", "rename", "stat", "setAside", "replace", "restore"}
                    => tmp'[q] = File(q, "executable")
               /\ at'[q] \in {"replace", "restore", "discard"} => backup'[q] # NoFile
               /\ at'[q] \in {"look", "create", "copy", "mode", "close", "rename", "stat",
                              "setAside"} => backup'[q] = NoFile
               /\ at'[q] \in {"look", "create", "discard"} => tmp'[q] = NoFile
    BY DEF Rename, SetAside, Replace, Restore, Discard, TypeOK
  <2> QED
    BY <2>1, <2>2 DEF TypeOK
<1>2. InstalledIsWhole'
  BY CopyIsFile DEF Rename, SetAside, Replace, Restore, Discard, TypeOK, InstalledIsWhole, Whole
<1>3. SuccessLeavesNothing'
  BY DEF Rename, SetAside, Replace, Restore, Discard, TypeOK, SuccessLeavesNothing
<1>4. DiscardIsSafe'
  <2>1. CASE Rename(p) \/ Replace(p)
    <3>1. CASE TmpToDest(p)
      BY <2>1, <3>1, CopyIsFile DEF Rename, Replace, TypeOK, DiscardIsSafe
    <3>2. CASE NothingMoves
      BY <2>1, <3>2, CopyIsFile DEF Rename, Replace, TypeOK, DiscardIsSafe
    <3> QED
      BY <2>1, <3>1, <3>2 DEF Rename, Replace
  <2>2. CASE SetAside(p)
    BY <2>2 DEF SetAside, TypeOK, DiscardIsSafe
  <2>3. CASE Restore(p)
    BY <2>3 DEF Restore, TypeOK, DiscardIsSafe
  <2>4. CASE Discard(p)
    BY <2>4 DEF Discard, TypeOK, DiscardIsSafe
  <2> QED
    BY <2>1, <2>2, <2>3, <2>4
<1> QED
  BY <1>1, <1>2, <1>3, <1>4

LEMMA PlacementStep == PlacementInv /\ [Next]_vars => PlacementInv'
<1> SUFFICES ASSUME PlacementInv, [Next]_vars PROVE PlacementInv'
  OBVIOUS
<1>1. CASE Next
  BY <1>1, LeavingKeeps, ReplaceKeeps DEF Next, Leaves
<1>2. CASE UNCHANGED vars
  BY <1>2 DEF vars, PlacementInv, TypeOK, InstalledIsWhole, SuccessLeavesNothing, DiscardIsSafe, Whole
<1> QED
  BY <1>1, <1>2

(***************************************************************************)
(* place.go: the inductive invariant holds for any number of placers,       *)
(* whatever fails and whoever dies.                                         *)
(***************************************************************************)
THEOREM PlacementIsInductive == Spec => []PlacementInv
BY PlacementInit, PlacementStep, PTL DEF Spec

(***************************************************************************)
(* place.go: what is found at the name of the executable, or set aside, is  *)
(* complete and executable, whatever failed or died.                        *)
(***************************************************************************)
THEOREM InstalledStaysWhole == Spec => []InstalledIsWhole
BY PlacementIsInductive, PTL DEF PlacementInv

(***************************************************************************)
(* place.go: copies are finished before they are renamed, backups exist     *)
(* while they may be needed.                                                *)
(***************************************************************************)
THEOREM PlacementTyped == Spec => []TypeOK
BY PlacementIsInductive, PTL DEF PlacementInv

(***************************************************************************)
(* place.go: success leaves neither a copy nor a backup behind.             *)
(***************************************************************************)
THEOREM SuccessIsClean == Spec => []SuccessLeavesNothing
BY PlacementIsInductive, PTL DEF PlacementInv

(***************************************************************************)
(* replacePlacedExecutable: any number of placers, failing or dying at any  *)
(* operation, leave an executable in the directory if there was one.        *)
(***************************************************************************)
THEOREM ExecutableIsKept == Spec => ExecutableKept
<1> DEFINE Kept == dest # NoFile \/ \E p \in Placers : backup[p] # NoFile
<1>1. ASSUME PlacementInv, [Next]_vars, Kept PROVE Kept'
  <2>1. CASE UNCHANGED vars
    BY <1>1, <2>1 DEF vars
  <2>2. ASSUME NEW p \in Placers, Leaves(p) PROVE Kept'
    <3>1. dest' = dest /\ backup' = backup
      BY <2>2 DEF Leaves, Look, CreateTemp, Copy, Chmod, Close, Stat, Cleanup, Dies, NothingMoves
    <3> QED
      BY <1>1, <3>1
  <2>3. ASSUME NEW p \in Placers, Rename(p) \/ Replace(p) PROVE Kept'
    BY <1>1, <2>3, CopyIsFile DEF Rename, Replace, TmpToDest, NothingMoves, PlacementInv, TypeOK
  <2>4. ASSUME NEW p \in Placers, SetAside(p) \/ Restore(p) PROVE Kept'
    BY <1>1, <2>4 DEF SetAside, Restore, PlacementInv, TypeOK
  <2>5. ASSUME NEW p \in Placers, Discard(p) PROVE Kept'
    <3>1. dest' = dest /\ \A q \in Placers \ {p} : backup'[q] = backup[q]
      BY <1>1, <2>5 DEF Discard, PlacementInv, TypeOK
    <3>2. dest # NoFile \/ \E q \in Placers \ {p} : backup[q] # NoFile
      BY <1>1, <2>5 DEF Discard, PlacementInv, DiscardIsSafe
    <3> QED
      BY <3>1, <3>2
  <2> QED
    BY <1>1, <2>1, <2>2, <2>3, <2>4, <2>5 DEF Next, Leaves
<1>2. PlacementInv /\ [Next]_vars
        => [dest # NoFile \/ (\E p \in Placers : backup[p] # NoFile)
             => dest' # NoFile \/ \E p \in Placers : backup'[p] # NoFile]_vars
  BY <1>1
<1> QED
  BY <1>2, PlacementIsInductive, PTL DEF Spec, ExecutableKept

(***************************************************************************)
(* A placer that ran alone finds the earlier file where it was, and knows   *)
(* what became of it and of its own copy until it reports.                  *)
(***************************************************************************)
LEMMA LonePlacerStep ==
    ASSUME PlacementInv, LonePlacerKnows, [Next]_vars PROVE LonePlacerKnows'
<1> SUFFICES ASSUME NEW p \in Placers, Alone(p)' PROVE KnowsItsOutcome(p)'
  BY DEF LonePlacerKnows
<1> USE DEF Goes
<1>1. CASE UNCHANGED vars
  BY <1>1 DEF vars, Alone, LonePlacerKnows, KnowsItsOutcome
<1>2. ASSUME NEW q \in Placers, q # p, Next, at'[q] # at[q] PROVE FALSE
  <2>1. at'[q] = "look"
    BY <1>2 DEF Alone
  <2>2. PICK r \in Placers, step \in (Steps \cup Ended) \ {"look"} : at' = [at EXCEPT ![r] = step]
    BY <1>2 DEF Next, Look, CreateTemp, Copy, Chmod, Close, Rename, Stat, SetAside, Replace,
                Restore, Discard, Cleanup, Dies, Steps, Ended
  <2> QED
    BY <1>2, <2>1, <2>2 DEF PlacementInv, TypeOK
<1>3. CASE Next
  <2>1. Alone(p)
    BY <1>2, <1>3 DEF Alone
  <2>2. KnowsItsOutcome(p)
    BY <2>1 DEF LonePlacerKnows
  <2>3. PICK r \in Placers :
            \/ Look(r) \/ CreateTemp(r) \/ Copy(r) \/ Chmod(r) \/ Close(r) \/ Rename(r)
            \/ Stat(r) \/ SetAside(r) \/ Replace(r) \/ Restore(r) \/ Discard(r)
            \/ Cleanup(r) \/ Dies(r)
    BY <1>3 DEF Next
  <2>4. r = p
    <3>1. PICK step \in (Steps \cup Ended) \ {"look"} : at' = [at EXCEPT ![r] = step]
      BY <2>3 DEF Look, CreateTemp, Copy, Chmod, Close, Rename, Stat, SetAside, Replace,
                  Restore, Discard, Cleanup, Dies, Steps, Ended
    <3>2. at'[r] = step
      BY <3>1 DEF PlacementInv, TypeOK
    <3> QED
      BY <3>2 DEF Alone
  <2>5. /\ dest # NoFile => dest \in Files /\ dest.state = "executable"
        /\ tmp \in [Placers -> Files \cup {NoFile}]
        /\ backup \in [Placers -> Files \cup {NoFile}]
        /\ at \in [Placers -> Steps \cup Ended]
    BY DEF PlacementInv, InstalledIsWhole, Whole, TypeOK
  <2>6. /\ at[p] \in {"rename", "setAside", "replace", "restore"} => tmp[p] = File(p, "executable")
        /\ at[p] \in {"replace", "restore", "discard"} => backup[p] # NoFile
        /\ at[p] \in Unreplaced => backup[p] = NoFile
    BY DEF PlacementInv, TypeOK, Unreplaced
  <2>7. CASE Look(p) \/ CreateTemp(p) \/ Copy(p) \/ Chmod(p) \/ Close(p) \/ Stat(p)
    BY <2>2, <2>5, <2>6, <2>7
       DEF Look, CreateTemp, Copy, Chmod, Close, Stat, NothingMoves, KnowsItsOutcome, Unreplaced
  <2>8. CASE Rename(p) \/ SetAside(p)
    BY <2>2, <2>5, <2>6, <2>8
       DEF Rename, SetAside, TmpToDest, NothingMoves, KnowsItsOutcome, Unreplaced
  <2>9. CASE Replace(p) \/ Restore(p)
    BY <2>2, <2>5, <2>6, <2>9, CopyIsFile
       DEF Replace, Restore, TmpToDest, NothingMoves, KnowsItsOutcome, Unreplaced
  <2>10. CASE Discard(p) \/ Cleanup(p) \/ Dies(p)
    BY <2>2, <2>5, <2>6, <2>10
       DEF Discard, Cleanup, Dies, NothingMoves, KnowsItsOutcome, Unreplaced, Ended
  <2> QED
    BY <2>3, <2>4, <2>7, <2>8, <2>9, <2>10
<1> QED
  BY <1>1, <1>3

(***************************************************************************)
(* place.go: a placer that ran alone reports what it did.  Success means    *)
(* its own build is installed, or the earlier one when it ran from there;   *)
(* failure means the earlier one is left or put back, or still set aside.   *)
(***************************************************************************)
THEOREM OutcomesAreTrue == Spec => []OutcomeIsTrue
<1>1. Init => LonePlacerKnows
  BY DEF Init, LonePlacerKnows, KnowsItsOutcome, Unreplaced
<1>2. PlacementInv /\ LonePlacerKnows /\ [Next]_vars => LonePlacerKnows'
  BY LonePlacerStep
<1>3. PlacementInv /\ LonePlacerKnows => OutcomeIsTrue
  <2> SUFFICES ASSUME PlacementInv, LonePlacerKnows, NEW p \in Placers, Alone(p)
               PROVE  /\ at[p] = "placed"
                            => /\ dest # NoFile
                               /\ dest.build = (IF p \in Installed THEN Earlier ELSE p)
                      /\ at[p] = "failed" /\ backup[p] = NoFile
                            => dest \in {NoFile, File(Earlier, "executable")}
    BY DEF OutcomeIsTrue
  <2>1. KnowsItsOutcome(p)
    BY DEF LonePlacerKnows
  <2> QED
    BY <2>1, NoFileIsNone DEF KnowsItsOutcome, File
<1> QED
  BY <1>1, <1>2, <1>3, PlacementIsInductive, PTL DEF Spec

-----------------------------------------------------------------------------
(***************************************************************************)
(* Packaging.  A run knows how far it has come: the checksums are gone      *)
(* before the first file they speak of is, and until all of them are new;   *)
(* what is written so far is of its build.                                  *)
(***************************************************************************)
Written == CASE run.at = "binary" -> {"manifest"}
             [] run.at = "database" -> {"manifest", "binary"}
             [] run.at \in {"sums", "archive", "done"} -> K!Payload
             [] OTHER -> {}

RunIsWhere ==
    /\ run.at = "clear" => sums = NoFile \/ "checksums" \in run.remove
    /\ run.at \in {"manifest", "binary", "database"} => sums = NoFile
    /\ run.at = "sums" => sums = NoFile \/ ~sums.whole
    /\ \A n \in Written : packed[n] = K!Whole(run.build)
    /\ run.at \in {"archive", "done"}
         => sums # NoFile /\ sums.whole /\ sums.digests = packed
    /\ run.at = "done" /\ run.archives
         => archive # NoFile /\ archive.whole /\ archive.file = packed

ReleaseInv == ReleaseIsOneBuild /\ RunIsWhere

(***************************************************************************)
(* os.ReadDir: the next name to remove is one of those left, and that of    *)
(* the checksums as long as it is one of them.                              *)
(***************************************************************************)
LEMMA FirstName ==
    ASSUME NEW names \in SUBSET K!Names, names # {}
    PROVE  K!First(names) \in names /\ ("checksums" \in names => K!First(names) = "checksums")
<1> DEFINE order == <<"checksums", "database", "manifest", "binary">>
           Is(i) == order[i] \in names /\ \A j \in 1 .. i - 1 : order[j] \notin names
<1>1. /\ DOMAIN order = 1 .. 4 /\ order[1] = "checksums" /\ order[2] = "database"
      /\ order[3] = "manifest" /\ order[4] = "binary"
  OBVIOUS
<1>2. 1 .. 0 = {} /\ 1 .. 1 = {1} /\ 1 .. 2 = {1, 2} /\ 1 .. 3 = {1, 2, 3} /\ 1 .. 4 = {1, 2, 3, 4}
  OBVIOUS
<1>3. \E i \in 1 .. 4 : order[i] \in names
  <2>1. PICK n \in names : TRUE
    OBVIOUS
  <2>2. n \in {order[1], order[2], order[3], order[4]}
    BY <1>1, <2>1 DEF K!Names, K!Payload
  <2> HIDE DEF order
  <2> QED
    BY <2>1, <2>2
<1> HIDE DEF order
<1>4. \E i \in 1 .. 4 : Is(i)
  <2>1. CASE order[1] \in names
    BY <1>2, <2>1
  <2>2. CASE order[1] \notin names /\ order[2] \in names
    BY <1>2, <2>2
  <2>3. CASE order[1] \notin names /\ order[2] \notin names /\ order[3] \in names
    BY <1>2, <2>3
  <2>4. CASE order[1] \notin names /\ order[2] \notin names /\ order[3] \notin names
    BY <1>2, <1>3, <2>4
  <2> QED
    BY <2>1, <2>2, <2>3, <2>4
<1>5. PICK i \in 1 .. 4 : Is(i) /\ K!First(names) = order[i]
  <2>1. K!First(names) = order[CHOOSE i \in 1 .. 4 : Is(i)]
    BY <1>1 DEF K!First, K!ReadDirOrder, order
  <2> HIDE DEF Is
  <2> QED
    BY <1>4, <2>1, Zenon
<1>6. i # 1 => order[1] \notin names
  BY <1>5
<1> QED
  BY <1>1, <1>5, <1>6

LEMMA NoFileApart ==
    /\ \A b \in Releases : K!Whole(b) \in K!Contents /\ K!Part(b) \in K!Contents
    /\ \A c \in K!Contents : c # NoFile
    /\ \A c \in K!SumsFiles : c # NoFile
    /\ \A c \in K!Archives : c # NoFile
BY ReleaseAssumption DEF K!Whole, K!Part, K!Contents

LEMMA ReleaseInit == K!Init => ReleaseInv
BY DEF K!Init, K!TypeOK, K!Steps, K!Ends, K!Names, K!ChecksumsTrue, K!ArchiveIsOneBuild,
       K!DoneIsComplete, ReleaseInv, ReleaseIsOneBuild, RunIsWhere, Written

(***************************************************************************)
(* Each operation, as far as the invariant looks at it: it moves the run,   *)
(* and writes at most what it is for.                                       *)
(***************************************************************************)
Runs == [build : Releases, at : K!Steps \cup K!Ends, begun : BOOLEAN,
         remove : SUBSET K!Names, archives : BOOLEAN]

Moves(step) == /\ run' \in Runs /\ run'.at = step /\ run'.build = run.build
               /\ run'.archives = run.archives

LEMMA ReleaseTyped ==
    K!TypeOK => /\ packed \in [K!Payload -> K!Contents \cup {NoFile}]
                /\ sums \in K!SumsFiles \cup {NoFile}
                /\ archive \in K!Archives \cup {NoFile}
                /\ journal \in BOOLEAN
                /\ run \in Runs
                /\ journal => run.at \in {"database", "list", "refused", "failed", "killed"}
BY DEF K!TypeOK, Runs

LEMMA Going ==
    ASSUME K!TypeOK, NEW step \in K!Steps \cup K!Ends, K!Goes(step)
    PROVE  Moves(step) /\ run'.begun = FALSE /\ run'.remove = run.remove
BY ReleaseTyped DEF K!Goes, Moves, Runs

LEMMA Beginning ==
    ASSUME K!TypeOK, K!Begins
    PROVE  Moves(run.at) /\ run'.remove = run.remove
BY ReleaseTyped DEF K!Begins, Moves, Runs

LEMMA ListEffect ==
    ASSUME K!TypeOK, K!List
    PROVE  /\ UNCHANGED <<packed, sums, journal, archive>> /\ run.at = "list"
           /\ \/ journal /\ Moves("refused")
              \/ ~journal /\ Moves("clear") /\ run'.remove = K!Present
<1>1. K!Present \in SUBSET K!Names
  BY DEF K!Present, K!Names
<1> QED
  BY <1>1, ReleaseTyped DEF K!List, K!At, Moves, Runs, K!Steps, K!Ends

LEMMA ClearEffect ==
    ASSUME K!TypeOK, K!Clear
    PROVE  /\ UNCHANGED <<journal, archive>> /\ run.at = "clear"
           /\ \/ run.remove = {} /\ Moves("manifest") /\ UNCHANGED <<packed, sums>>
              \/ \E n \in run.remove :
                    /\ "checksums" \in run.remove => n = "checksums"
                    /\ Moves("clear") /\ run'.remove = run.remove \ {n}
                    /\ packed' = [m \in K!Payload |-> IF m = n THEN NoFile ELSE packed[m]]
                    /\ sums' = IF n = "checksums" THEN NoFile ELSE sums
<1>1. UNCHANGED <<journal, archive>> /\ run.at = "clear" /\ run \in Runs
  BY ReleaseTyped DEF K!Clear, K!At
<1>2. CASE run.remove = {}
  BY <1>1, <1>2, Going DEF K!Clear, K!Steps
<1>3. CASE run.remove # {}
  <2> DEFINE n == K!First(run.remove)
  <2>1. n \in run.remove /\ ("checksums" \in run.remove => n = "checksums")
    BY <1>1, <1>3, FirstName DEF Runs
  <2>2. /\ run' = [run EXCEPT !.remove = run.remove \ {n}]
        /\ packed' = [m \in K!Payload |-> IF m = n THEN NoFile ELSE packed[m]]
        /\ sums' = IF n = "checksums" THEN NoFile ELSE sums
    BY <1>3 DEF K!Clear
  <2> HIDE DEF n
  <2>3. Moves("clear") /\ run'.remove = run.remove \ {n}
    BY <1>1, <2>2 DEF Moves, Runs
  <2> QED
    BY <1>1, <2>1, <2>2, <2>3
<1> QED
  BY <1>2, <1>3

(***************************************************************************)
(* Steps that write no file end the run, begin it, or have listed what is   *)
(* there.                                                                   *)
(***************************************************************************)
LEMMA QuietKeeps ==
    ASSUME ReleaseInv, UNCHANGED <<packed, sums, archive>>, run' \in Runs, journal' \in BOOLEAN,
           run'.at \in {"list", "clear", "refused", "failed", "killed"},
           run'.at = "clear" => run'.remove = K!Present /\ ~journal'
    PROVE  ReleaseInv'
<1>1. K!TypeOK'
  BY DEF ReleaseInv, ReleaseIsOneBuild, K!TypeOK, Runs
<1>2. K!ChecksumsTrue' /\ K!ArchiveIsOneBuild' /\ K!DoneIsComplete'
  BY DEF ReleaseInv, ReleaseIsOneBuild, K!ChecksumsTrue, K!ArchiveIsOneBuild, K!DoneIsComplete,
         K!OfOneBuild
<1>3. RunIsWhere'
  BY DEF RunIsWhere, Written, K!Present
<1> QED
  BY <1>1, <1>2, <1>3 DEF ReleaseInv, ReleaseIsOneBuild

(***************************************************************************)
(* While there are no checksums, or none that are whole, files may come and *)
(* go.                                                                      *)
(***************************************************************************)
LEMMA UncheckedKeeps ==
    ASSUME ReleaseInv, UNCHANGED archive, run' \in Runs, journal' \in BOOLEAN,
           packed' \in [K!Payload -> K!Contents \cup {NoFile}],
           sums' \in K!SumsFiles \cup {NoFile}, sums' = NoFile \/ ~sums'.whole,
           journal' => run'.at = "database",
           run'.at \in {"clear", "manifest", "binary", "database", "sums"},
           run'.at # "sums" => sums' = NoFile,
           \A n \in Written' : packed'[n] = K!Whole(run'.build)
    PROVE  ReleaseInv'
<1>1. K!TypeOK'
  BY DEF ReleaseInv, ReleaseIsOneBuild, K!TypeOK, Runs
<1>2. K!ChecksumsTrue' /\ K!ArchiveIsOneBuild' /\ K!DoneIsComplete'
  BY DEF ReleaseInv, ReleaseIsOneBuild, K!ChecksumsTrue, K!ArchiveIsOneBuild, K!DoneIsComplete,
         K!OfOneBuild
<1>3. RunIsWhere'
  BY DEF RunIsWhere
<1> QED
  BY <1>1, <1>2, <1>3 DEF ReleaseInv, ReleaseIsOneBuild

LEMMA ClearKeeps == ReleaseInv /\ K!Clear => ReleaseInv'
<1> SUFFICES ASSUME ReleaseInv, K!Clear PROVE ReleaseInv'
  OBVIOUS
<1>1. /\ K!TypeOK /\ RunIsWhere /\ UNCHANGED <<journal, archive>> /\ run.at = "clear"
  BY ClearEffect DEF ReleaseInv, ReleaseIsOneBuild
<1>2. ~journal /\ journal \in BOOLEAN
  BY <1>1, ReleaseTyped
<1>3. CASE run.remove = {} /\ Moves("manifest") /\ UNCHANGED <<packed, sums>>
  <2>1. sums' = NoFile /\ Written' = {}
    BY <1>1, <1>3 DEF RunIsWhere, Written, Moves
  <2> QED
    BY <1>1, <1>2, <1>3, <2>1, ReleaseTyped, UncheckedKeeps DEF Moves
<1>4. ASSUME NEW n \in run.remove, "checksums" \in run.remove => n = "checksums",
             Moves("clear"),
             packed' = [m \in K!Payload |-> IF m = n THEN NoFile ELSE packed[m]],
             sums' = IF n = "checksums" THEN NoFile ELSE sums
      PROVE  ReleaseInv'
  <2>1. sums' = NoFile /\ Written' = {}
    BY <1>1, <1>4 DEF RunIsWhere, Written, Moves
  <2>2. packed' \in [K!Payload -> K!Contents \cup {NoFile}]
    BY <1>1, <1>4, ReleaseTyped
  <2> QED
    BY <1>1, <1>2, <1>4, <2>1, <2>2, UncheckedKeeps DEF Moves
<1> QED
  BY <1>1, <1>3, <1>4, ClearEffect

LEMMA WriteKeeps ==
    ASSUME ReleaseInv, K!Write("manifest", "binary") \/ K!Write("binary", "database")
    PROVE  ReleaseInv'
<1>1. K!TypeOK /\ RunIsWhere /\ UNCHANGED <<sums, journal, archive>>
  BY DEF ReleaseInv, ReleaseIsOneBuild, K!Write
<1>2. run.at \in {"manifest", "binary"} /\ sums' = NoFile /\ run.build \in Releases /\ run \in Runs
  BY <1>1, ReleaseTyped DEF K!Write, K!At, RunIsWhere, Runs
<1>3. ~journal /\ journal \in BOOLEAN
  BY <1>1, <1>2, ReleaseTyped
<1>4. packed' \in [K!Payload -> K!Contents \cup {NoFile}]
  BY <1>1, <1>2, ReleaseTyped, NoFileApart DEF K!Write
<1>5. \/ /\ run.at = "manifest"
         /\ \/ Moves("manifest")
            \/ Moves("binary") /\ packed'["manifest"] = K!Whole(run.build)
      \/ /\ run.at = "binary" /\ packed'["manifest"] = packed["manifest"]
         /\ \/ Moves("binary")
            \/ Moves("database") /\ packed'["binary"] = K!Whole(run.build)
  <2>1. ASSUME NEW name \in {"manifest", "binary"}, NEW next \in {"binary", "database"},
               K!Write(name, next)
        PROVE  /\ run.at = name
               /\ \/ Moves(name) /\ packed' = [packed EXCEPT ![name] = K!Part(run.build)]
                  \/ Moves(next) /\ packed' = [packed EXCEPT ![name] = K!Whole(run.build)]
    <3>1. run.at = name
      BY <2>1 DEF K!Write, K!At
    <3>2. CASE K!Begins /\ packed' = [packed EXCEPT ![name] = K!Part(run.build)]
      BY <1>1, <3>1, <3>2, Beginning
    <3>3. CASE K!Goes(next) /\ packed' = [packed EXCEPT ![name] = K!Whole(run.build)]
      BY <1>1, <3>1, <3>3, Going DEF K!Steps
    <3> QED
      BY <2>1, <3>1, <3>2, <3>3 DEF K!Write
  <2>2. packed \in [K!Payload -> K!Contents \cup {NoFile}]
    BY <1>1, ReleaseTyped
  <2>3. \A name \in {"manifest", "binary"} : \A c :
           packed' = [packed EXCEPT ![name] = c]
             => packed'[name] = c /\ \A m \in K!Payload \ {name} : packed'[m] = packed[m]
    BY <2>2 DEF K!Payload
  <2>4. CASE K!Write("manifest", "binary")
    <3>1. /\ run.at = "manifest"
          /\ \/ Moves("manifest")
             \/ Moves("binary") /\ packed' = [packed EXCEPT !["manifest"] = K!Whole(run.build)]
      BY <2>1, <2>4
    <3>2. packed' = [packed EXCEPT !["manifest"] = K!Whole(run.build)]
            => packed'["manifest"] = K!Whole(run.build)
      BY <2>3
    <3> QED
      BY <3>1, <3>2, Zenon
  <2>5. CASE K!Write("binary", "database")
    <3>1. /\ run.at = "binary"
          /\ \/ /\ Moves("binary") /\ packed' = [packed EXCEPT !["binary"] = K!Part(run.build)]
             \/ /\ Moves("database") /\ packed' = [packed EXCEPT !["binary"] = K!Whole(run.build)]
      BY <2>1, <2>5
    <3>2. "manifest" \in K!Payload \ {"binary"}
      BY DEF K!Payload
    <3>3. \A c : packed' = [packed EXCEPT !["binary"] = c]
                    => packed'["binary"] = c /\ packed'["manifest"] = packed["manifest"]
      BY <2>3, <3>2
    <3> QED
      BY <3>1, <3>3, Zenon
  <2> QED
    BY <2>4, <2>5
<1>6. \A n \in Written' : packed'[n] = K!Whole(run'.build)
  BY <1>1, <1>5 DEF Moves, Written, RunIsWhere
<1>7. run'.at \in {"manifest", "binary", "database"} /\ run' \in Runs
  BY <1>5 DEF Moves
<1> QED
  BY <1>1, <1>2, <1>3, <1>4, <1>6, <1>7, UncheckedKeeps

LEMMA WriteDatabaseKeeps == ReleaseInv /\ K!WriteDatabase => ReleaseInv'
<1> SUFFICES ASSUME ReleaseInv, K!WriteDatabase PROVE ReleaseInv'
  OBVIOUS
<1>1. K!TypeOK /\ RunIsWhere /\ UNCHANGED <<sums, archive>> /\ run.at = "database"
  BY DEF ReleaseInv, ReleaseIsOneBuild, K!WriteDatabase, K!At
<1>2. sums' = NoFile /\ run.build \in Releases
  BY <1>1, ReleaseTyped DEF RunIsWhere, Runs
<1>3. packed' \in [K!Payload -> K!Contents \cup {NoFile}]
  BY <1>1, <1>2, ReleaseTyped, NoFileApart DEF K!WriteDatabase
<1>4. /\ packed'["manifest"] = packed["manifest"] /\ packed'["binary"] = packed["binary"]
      /\ \/ Moves("database") /\ journal' \in BOOLEAN
         \/ Moves("sums") /\ journal' = FALSE /\ packed'["database"] = K!Whole(run.build)
  BY <1>1, Beginning, Going, ReleaseTyped DEF K!WriteDatabase, K!At, K!Payload, K!Steps
<1>5. \A n \in Written' : packed'[n] = K!Whole(run'.build)
  BY <1>1, <1>4 DEF Moves, Written, RunIsWhere, K!Payload
<1>6. run'.at \in {"database", "sums"} /\ run' \in Runs /\ (journal' => run'.at = "database")
  BY <1>4 DEF Moves
<1> QED
  BY <1>1, <1>2, <1>3, <1>4, <1>5, <1>6, UncheckedKeeps

LEMMA WriteSumsKeeps == ReleaseInv /\ K!WriteSums => ReleaseInv'
<1> SUFFICES ASSUME ReleaseInv, K!WriteSums PROVE ReleaseInv'
  OBVIOUS
<1>1. K!TypeOK /\ RunIsWhere /\ UNCHANGED <<packed, journal, archive>> /\ run.at = "sums"
  BY DEF ReleaseInv, ReleaseIsOneBuild, K!WriteSums, K!At
<1>2. /\ run \in Runs /\ run.build \in Releases /\ ~journal
      /\ packed \in [K!Payload -> K!Contents \cup {NoFile}]
  BY <1>1, ReleaseTyped DEF Runs
<1>3. \A n \in K!Payload : packed[n] = K!Whole(run.build)
  BY <1>1 DEF RunIsWhere, Written
<1>4. packed \in K!Digests /\ K!OfOneBuild(packed, run.build)
  BY <1>2, <1>3, NoFileApart DEF K!Digests, K!OfOneBuild
<1>5. CASE K!Begins /\ sums' = [digests |-> packed, whole |-> FALSE]
  <2>1. Moves("sums") /\ sums' \in K!SumsFiles /\ ~sums'.whole
    BY <1>1, <1>4, <1>5, Beginning DEF K!SumsFiles
  <2>2. \A n \in Written' : packed'[n] = K!Whole(run'.build)
    BY <1>1, <1>3, <2>1 DEF Moves, Written
  <2> QED
    BY <1>1, <1>2, <2>1, <2>2, UncheckedKeeps, ReleaseTyped DEF Moves
<1>6. CASE K!Goes(K!AfterSums) /\ sums' = [digests |-> packed, whole |-> TRUE]
  <2>1. K!AfterSums \in {"archive", "done"} /\ (run.archives => K!AfterSums = "archive")
    BY DEF K!AfterSums
  <2>2. Moves(K!AfterSums)
    BY <1>1, <1>6, <2>1, Going DEF K!Steps, K!Ends
  <2>3. /\ sums' \in K!SumsFiles /\ sums' # NoFile /\ sums'.whole
        /\ sums'.digests = packed' /\ K!OfOneBuild(packed', run'.build) /\ run'.build \in Releases
    BY <1>1, <1>2, <1>4, <1>6, <2>2, NoFileApart DEF K!SumsFiles, Moves
  <2>4. run' \in Runs /\ run'.at \in {"archive", "done"} /\ (run'.at = "done" => ~run'.archives)
    BY <2>1, <2>2 DEF Moves
  <2>5. K!TypeOK'
    BY <1>1, <1>2, <2>3, <2>4, ReleaseTyped DEF K!TypeOK, Runs
  <2>6. K!ChecksumsTrue' /\ K!ArchiveIsOneBuild' /\ K!DoneIsComplete'
    BY <1>1, <2>3, <2>4 DEF ReleaseInv, ReleaseIsOneBuild, K!ChecksumsTrue, K!ArchiveIsOneBuild,
                            K!DoneIsComplete, K!OfOneBuild
  <2>7. RunIsWhere'
    <3>1. \A n \in K!Payload : packed'[n] = K!Whole(run'.build)
      BY <1>1, <1>3, <2>2 DEF Moves
    <3>2. Written' = K!Payload
      BY <2>4 DEF Written
    <3> QED
      BY <2>3, <2>4, <3>1, <3>2 DEF RunIsWhere
  <2> QED
    BY <2>5, <2>6, <2>7 DEF ReleaseInv, ReleaseIsOneBuild
<1> QED
  BY <1>5, <1>6 DEF K!WriteSums

LEMMA WriteArchiveKeeps == ReleaseInv /\ K!WriteArchive => ReleaseInv'
<1> SUFFICES ASSUME ReleaseInv, K!WriteArchive PROVE ReleaseInv'
  OBVIOUS
<1>1. K!TypeOK /\ RunIsWhere /\ UNCHANGED <<packed, sums, journal>> /\ run.at = "archive"
  BY DEF ReleaseInv, ReleaseIsOneBuild, K!WriteArchive, K!At
<1>2. /\ run \in Runs /\ run.build \in Releases /\ ~journal
      /\ packed \in [K!Payload -> K!Contents \cup {NoFile}]
      /\ sums \in K!SumsFiles /\ sums.whole /\ sums.digests = packed /\ sums # NoFile
  BY <1>1, ReleaseTyped DEF Runs, RunIsWhere
<1>3. \A n \in K!Payload : packed[n] = K!Whole(run.build)
  BY <1>1 DEF RunIsWhere, Written
<1>4. K!OfOneBuild(packed, run.build)
  BY <1>2, <1>3 DEF K!OfOneBuild
<1>5. PICK whole \in BOOLEAN :
          /\ archive' = [file |-> packed, sums |-> sums, whole |-> whole]
          /\ run' \in Runs /\ run'.build = run.build /\ run'.archives = run.archives
          /\ IF whole THEN run'.at = "done" ELSE run'.at = "archive"
  <2>1. CASE K!At("archive", FALSE) /\ K!Begins
             /\ archive' = [file |-> packed, sums |-> sums, whole |-> FALSE]
    <3>1. Moves("archive")
      BY <1>1, <2>1, Beginning
    <3> QED
      BY <2>1, <3>1 DEF Moves
  <2>2. CASE K!Goes("done") /\ archive' = [file |-> packed, sums |-> sums, whole |-> TRUE]
    <3>1. Moves("done")
      BY <1>1, <2>2, Going DEF K!Ends
    <3> QED
      BY <2>2, <3>1 DEF Moves
  <2> QED
    BY <2>1, <2>2 DEF K!WriteArchive
<1>6. archive' \in K!Archives /\ archive' # NoFile
  BY <1>2, <1>5, NoFileApart DEF K!Archives
<1>7. K!TypeOK'
  BY <1>1, <1>2, <1>5, <1>6, ReleaseTyped DEF K!TypeOK, Runs, Moves
<1>8. K!ChecksumsTrue'
  BY <1>1 DEF ReleaseInv, ReleaseIsOneBuild, K!ChecksumsTrue, K!OfOneBuild
<1>9. K!ArchiveIsOneBuild'
  BY <1>2, <1>4, <1>5 DEF K!ArchiveIsOneBuild, K!OfOneBuild
<1>10. K!DoneIsComplete'
  BY <1>1, <1>2, <1>4, <1>5, <1>6 DEF K!DoneIsComplete, K!OfOneBuild, Moves
<1>11. RunIsWhere'
  BY <1>1, <1>2, <1>3, <1>5, <1>6 DEF RunIsWhere, Written, Moves
<1> QED
  BY <1>7, <1>8, <1>9, <1>10, <1>11 DEF ReleaseInv, ReleaseIsOneBuild

LEMMA ReleaseStep == ReleaseInv /\ [K!Next]_packaging => ReleaseInv'
<1> SUFFICES ASSUME ReleaseInv, [K!Next]_packaging PROVE ReleaseInv'
  OBVIOUS
<1>1. K!TypeOK
  BY DEF ReleaseInv, ReleaseIsOneBuild
<1>2. CASE UNCHANGED packaging
  BY <1>2 DEF packaging, ReleaseInv, ReleaseIsOneBuild, K!TypeOK, K!ChecksumsTrue,
              K!ArchiveIsOneBuild, K!DoneIsComplete, K!OfOneBuild, RunIsWhere, Written
<1>3. CASE K!Start
  <2>1. run' \in Runs /\ run'.at = "list"
    BY <1>3 DEF K!Start, Runs, K!Steps
  <2>2. journal' \in BOOLEAN
    BY <1>1, <1>3, ReleaseTyped DEF K!Start
  <2> QED
    BY <1>3, <2>1, <2>2, QuietKeeps DEF K!Start
<1>4. CASE K!List
  BY <1>1, <1>4, ListEffect, ReleaseTyped, QuietKeeps DEF Moves
<1>5. CASE K!Fail
  <2>1. Moves("failed")
    BY <1>1, <1>5, Going DEF K!Fail, K!Ends
  <2>2. journal' \in BOOLEAN
    BY <1>5, Zenon DEF K!Fail
  <2> QED
    BY <1>5, <2>1, <2>2, QuietKeeps DEF K!Fail, Moves
<1>6. CASE K!Killed
  <2>1. Moves("killed")
    BY <1>1, <1>6, Going DEF K!Killed, K!Ends
  <2> QED
    BY <1>1, <1>6, <2>1, QuietKeeps, ReleaseTyped DEF K!Killed, Moves
<1> QED
  BY <1>2, <1>3, <1>4, <1>5, <1>6, ClearKeeps, WriteKeeps, WriteDatabaseKeeps, WriteSumsKeeps,
     WriteArchiveKeeps DEF K!Next

(***************************************************************************)
(* Package and Archive, in any number of runs of any builds that fail or    *)
(* are killed anywhere: what is whole is of one build.                      *)
(***************************************************************************)
THEOREM PackagingInv == K!Spec => []ReleaseInv
<1>1. ASSUME [K!Next]_K!vars PROVE [K!Next]_packaging
  BY <1>1 DEF K!vars, packaging
<1> QED
  BY <1>1, ReleaseInit, ReleaseStep, PTL DEF K!Spec

-----------------------------------------------------------------------------
(***************************************************************************)
(* The parts share nothing: what one of them does alone holds in the whole. *)
(***************************************************************************)
LEMMA Apart ==
    AllInit /\ [][AllNext]_all
        => /\ K!Init /\ [][K!Next]_packaging
           /\ D!Init /\ [][D!Next]_database
           /\ S!Init /\ [][S!Next]_scan
           /\ F!Init /\ [][F!Next]_source
<1>1. AllInit => K!Init /\ D!Init /\ S!Init /\ F!Init
  BY DEF AllInit
<1>2. [AllNext]_all => [K!Next]_packaging /\ [D!Next]_database /\ [S!Next]_scan /\ [F!Next]_source
  <2> SUFFICES ASSUME [AllNext]_all
               PROVE  [K!Next]_packaging /\ [D!Next]_database /\ [S!Next]_scan /\ [F!Next]_source
    OBVIOUS
  <2>1. CASE UNCHANGED all
    BY <2>1, Zenon DEF all
  <2>2. CASE Places(Next)
    BY <2>2, Zenon DEF Places
  <2>3. CASE Packages(K!Next)
    BY <2>3, Zenon DEF Packages
  <2>4. CASE Opens(D!Next)
    BY <2>4, Zenon DEF Opens
  <2>5. CASE Sweeps(S!Next)
    BY <2>5, Zenon DEF Sweeps
  <2>6. CASE Follows(F!Next)
    BY <2>6, Zenon DEF Follows
  <2> QED
    BY <2>1, <2>2, <2>3, <2>4, <2>5, <2>6, Zenon DEF AllNext
<1> QED
  BY <1>1, <1>2, PTL

(***************************************************************************)
(* ReleaseIsOneBuild holds in every behaviour of the files.                 *)
(***************************************************************************)
THEOREM EveryReleaseIsOneBuild == AllSpec => []ReleaseIsOneBuild
<1>1. ReleaseInv => ReleaseIsOneBuild
  BY DEF ReleaseInv
<1> QED
  BY <1>1, Apart, ReleaseInit, ReleaseStep, PTL DEF AllSpec

-----------------------------------------------------------------------------
(***************************************************************************)
(* The file source.  What a look has seen is of the past, and only a look   *)
(* that has ended has paths to hand on.                                     *)
(***************************************************************************)
SeenIsPast ==
    /\ \A p \in Paths : previous[p] <= file[p] /\ current[p] <= file[p]
    /\ look # "emitting" => changed = {}

SourceInv == F!TypeOK /\ SeenIsPast /\ F!NothingForgotten

LEMMA SourceInit == F!Init => SourceInv
<1> SUFFICES ASSUME F!Init PROVE SourceInv
  OBVIOUS
<1>1. F!TypeOK
  <2>1. 0 \in F!Revs /\ 1 \in F!Revs \ {0} /\ 0 \in 0 .. MaxEnds
    BY SourceAssumption DEF F!Revs
  <2>2. <<>> \in Seq(Paths \cup {Root}) /\ Len(<<>>) <= Capacity
    BY SourceAssumption
  <2> QED
    BY <2>1, <2>2 DEF F!Init, F!TypeOK, F!Unseen
<1>2. SeenIsPast /\ F!NothingForgotten
  BY SourceAssumption DEF F!Init, SeenIsPast, F!NothingForgotten, F!Unseen
<1> QED
  BY <1>1, <1>2 DEF SourceInv

(* The channel: what is sent is in it, and what is not taken stays. *)
LEMMA Channel ==
    ASSUME NEW Sent, NEW q \in Seq(Sent)
    PROVE  /\ \A e \in Sent :
                 /\ Append(q, e) \in Seq(Sent) /\ Len(Append(q, e)) = Len(q) + 1
                 /\ \E i \in DOMAIN Append(q, e) : Append(q, e)[i] = e
                 /\ \A x : (\E i \in DOMAIN q : q[i] = x)
                              => \E i \in DOMAIN Append(q, e) : Append(q, e)[i] = x
           /\ q # <<>> =>
                 /\ Head(q) \in Sent /\ Tail(q) \in Seq(Sent) /\ Len(Tail(q)) = Len(q) - 1
                 /\ \A x : (\E i \in DOMAIN q : q[i] = x)
                              => x = Head(q) \/ \E i \in DOMAIN Tail(q) : Tail(q)[i] = x
<1>1. ASSUME NEW e \in Sent
      PROVE  /\ Append(q, e) \in Seq(Sent) /\ Len(Append(q, e)) = Len(q) + 1
             /\ \E i \in DOMAIN Append(q, e) : Append(q, e)[i] = e
             /\ \A x : (\E i \in DOMAIN q : q[i] = x)
                          => \E i \in DOMAIN Append(q, e) : Append(q, e)[i] = x
  <2>1. /\ Append(q, e) \in Seq(Sent) /\ Len(Append(q, e)) = Len(q) + 1
        /\ DOMAIN Append(q, e) = 1 .. Len(q) + 1 /\ DOMAIN q = 1 .. Len(q) /\ Len(q) \in Nat
        /\ Append(q, e)[Len(q) + 1] = e /\ \A i \in 1 .. Len(q) : Append(q, e)[i] = q[i]
    OBVIOUS
  <2> QED
    BY <2>1
<1>2. ASSUME q # <<>>
      PROVE  /\ Head(q) \in Sent /\ Tail(q) \in Seq(Sent) /\ Len(Tail(q)) = Len(q) - 1
             /\ \A x : (\E i \in DOMAIN q : q[i] = x)
                          => x = Head(q) \/ \E i \in DOMAIN Tail(q) : Tail(q)[i] = x
  <2>1. /\ Head(q) \in Sent /\ Tail(q) \in Seq(Sent) /\ Len(Tail(q)) = Len(q) - 1
        /\ DOMAIN Tail(q) = 1 .. Len(q) - 1 /\ DOMAIN q = 1 .. Len(q) /\ Len(q) \in Nat
        /\ q[1] = Head(q) /\ \A i \in 1 .. Len(q) - 1 : Tail(q)[i] = q[i + 1]
    BY <1>2
  <2>2. ASSUME NEW i \in 1 .. Len(q), i # 1
        PROVE  i - 1 \in 1 .. Len(q) - 1 /\ Tail(q)[i - 1] = q[i]
    BY <2>1, <2>2
  <2> QED
    BY <2>1, <2>2
<1> QED
  BY <1>1, <1>2

(* What the mirror lacks of a file is on its way. *)
OnItsWay(p) ==
    \/ p \in sweep \/ F!Queued(p) \/ F!Queued(Root)
    \/ kind = "poll" /\ previous[p] # file[p] /\ (look = "emitting" => current[p] # file[p])
    \/ kind = "native" /\ (stream => system \cap {p, Root} # {})

LEMMA Forgets == F!NothingForgotten
                   <=> \A p \in Paths : F!Stale(p) /\ term # "opening" => OnItsWay(p)
BY DEF F!NothingForgotten, OnItsWay

(* The owner of the files. *)
LEMMA RewriteKeeps ==
    ASSUME SourceInv, NEW q \in Paths, F!Rewrite(q)
    PROVE  SourceInv'
<1>1. /\ F!TypeOK /\ file[q] < MaxRev /\ file[q] \in Nat
      /\ file' = [file EXCEPT ![q] = file[q] + 1] /\ there' = there \cup {q}
      /\ IF stream THEN \E e \in {q, Root} : system' = system \cup {e} ELSE UNCHANGED system
      /\ UNCHANGED <<mirror, kind, term, sweep, ends, events, error, previous, current, look, left,
                     changed, batch, stream>>
  BY DEF SourceInv, F!Rewrite, F!reader, F!poll, F!Reported, F!TypeOK, F!Revs
<1>2. file' \in [Paths -> F!Revs \ {0}] /\ file'[q] = file[q] + 1
      /\ \A p \in Paths \ {q} : file'[p] = file[p]
  BY <1>1, SourceAssumption DEF F!TypeOK, F!Revs
<1>3. system' \subseteq Paths \cup {Root} /\ system \subseteq system'
  BY <1>1 DEF F!TypeOK
<1>4. F!TypeOK'
  BY <1>1, <1>2, <1>3 DEF F!TypeOK
<1>5. SeenIsPast'
  BY <1>1, <1>2, SourceAssumption DEF SourceInv, SeenIsPast, F!TypeOK, F!Revs
<1>6. ASSUME NEW p \in Paths, F!Stale(p)', term' # "opening"
      PROVE  OnItsWay(p)'
  <2>1. CASE p = q
    <3>1. kind \in {"poll", "native"}
      BY <1>1, <1>6 DEF F!TypeOK
    <3>2. CASE kind = "poll"
      <4>1. previous[p] <= file[p] /\ current[p] <= file[p] /\ previous[p] \in Nat /\ current[p] \in Nat
        BY <1>1 DEF SourceInv, SeenIsPast, F!TypeOK, F!Revs
      <4> QED
        BY <1>1, <1>2, <2>1, <3>2, <4>1 DEF OnItsWay
    <3>3. CASE kind = "native"
      BY <1>1, <2>1, <3>3 DEF OnItsWay
    <3> QED
      BY <3>1, <3>2, <3>3
  <2>2. CASE p # q
    <3>1. F!Stale(p)
      BY <1>1, <1>2, <1>6, <2>2 DEF F!Stale
    <3>2. OnItsWay(p)
      BY <1>1, <1>6, <3>1, Forgets DEF SourceInv
    <3> QED
      BY <1>1, <1>2, <1>3, <2>2, <3>2 DEF OnItsWay, F!Queued
  <2> QED
    BY <2>1, <2>2
<1> QED
  BY <1>4, <1>5, <1>6, Forgets DEF SourceInv, F!NothingForgotten, OnItsWay

(* A step that leaves the files and the mirror, and keeps what is on its way there. *)
LEMMA WayKeeps ==
    ASSUME SourceInv, F!TypeOK', SeenIsPast', UNCHANGED <<mirror, term>>,
           \A p \in Paths : F!Stale(p)' => F!Stale(p),
           \A p \in Paths : OnItsWay(p) /\ F!Stale(p)' => OnItsWay(p)'
    PROVE  SourceInv'
<1>1. \A p \in Paths : F!Stale(p)' /\ term' # "opening" => OnItsWay(p)'
  BY Forgets DEF SourceInv
<1> QED
  BY <1>1 DEF SourceInv, F!NothingForgotten, OnItsWay

LEMMA RemoveKeeps ==
    ASSUME SourceInv, NEW q \in Paths, F!Remove(q)
    PROVE  SourceInv'
<1>1. /\ F!TypeOK /\ there' = there \ {q}
      /\ IF stream THEN \E e \in {q, Root} : system' = system \cup {e} ELSE UNCHANGED system
      /\ UNCHANGED <<file, mirror, kind, term, sweep, ends, events, error, previous, current, look,
                     left, changed, batch, stream>>
  BY DEF SourceInv, F!Remove, F!reader, F!poll, F!Reported
<1>2. system' \subseteq Paths \cup {Root} /\ system \subseteq system'
  BY <1>1 DEF F!TypeOK
<1>3. F!TypeOK'
  BY <1>1, <1>2 DEF F!TypeOK
<1>4. SeenIsPast'
  BY <1>1 DEF SourceInv, SeenIsPast
<1>5. \A p \in Paths : F!Stale(p)' => F!Stale(p)
  BY <1>1 DEF F!Stale
<1>6. \A p \in Paths : OnItsWay(p) => OnItsWay(p)'
  BY <1>1, <1>2 DEF OnItsWay, F!Queued
<1> QED
  BY <1>1, <1>3, <1>4, <1>5, <1>6, WayKeeps

LEMMA StreamClosesKeeps == SourceInv /\ F!StreamCloses => SourceInv'
<1> SUFFICES ASSUME SourceInv, F!StreamCloses PROVE SourceInv'
  OBVIOUS
<1>1. /\ F!TypeOK /\ stream /\ ends < MaxEnds /\ ends' = ends + 1 /\ stream' = FALSE /\ system' = {}
      /\ UNCHANGED <<file, there, mirror, kind, term, sweep, events, error, previous, current, look,
                     left, changed, batch>>
  BY DEF SourceInv, F!StreamCloses, F!files, F!poll
<1>2. ends' \in 0 .. MaxEnds
  BY <1>1, SourceAssumption DEF F!TypeOK
<1>3. F!TypeOK'
  BY <1>1, <1>2 DEF F!TypeOK
<1>4. SeenIsPast'
  BY <1>1 DEF SourceInv, SeenIsPast
<1>5. \A p \in Paths : F!Stale(p)' => F!Stale(p)
  BY <1>1 DEF F!Stale
<1>6. \A p \in Paths : OnItsWay(p)'
  BY <1>1 DEF OnItsWay, F!TypeOK
<1> QED
  BY <1>1, <1>3, <1>4, <1>5, <1>6, WayKeeps

(***************************************************************************)
(* The polling source.                                                      *)
(***************************************************************************)
LEMMA PollingKeeps == SourceInv /\ F!Polling => SourceInv'
<1> SUFFICES ASSUME SourceInv, F!Polling PROVE SourceInv'
  OBVIOUS
<1>1. /\ F!TypeOK /\ SeenIsPast
      /\ UNCHANGED <<file, there, mirror, kind, term, sweep, ends, system, batch, stream>>
  BY DEF SourceInv, F!Polling, F!Tick, F!See, F!WalkFails, F!WalkEnds, F!EmitChange, F!LookEnds,
         F!files, F!reader, F!native
<1>2. \A p \in Paths : F!Stale(p)' => F!Stale(p)
  BY <1>1 DEF F!Stale
<1>3. CASE F!Tick
  <2>1. /\ look = "waiting" /\ look' = "walking" /\ left' = there /\ current' = F!Unseen
        /\ kind = "poll" /\ UNCHANGED <<events, error, previous, changed>>
    BY <1>3 DEF F!Tick, F!Walks
  <2>2. F!Unseen \in [Paths -> F!Revs] /\ \A p \in Paths : F!Unseen[p] <= file[p]
    BY <1>1, SourceAssumption DEF F!Unseen, F!Revs, F!TypeOK
  <2>3. F!TypeOK' /\ SeenIsPast'
    BY <1>1, <2>1, <2>2 DEF F!TypeOK, SeenIsPast
  <2>4. \A p \in Paths : OnItsWay(p) => OnItsWay(p)'
    BY <1>1, <2>1 DEF OnItsWay, F!Queued
  <2> QED
    BY <1>1, <1>2, <2>3, <2>4, WayKeeps
<1>4. ASSUME NEW q \in Paths, F!See(q)
      PROVE  SourceInv'
  <2>1. /\ look = "walking" /\ current' = [current EXCEPT ![q] = file[q]] /\ left' = left \ {q}
        /\ UNCHANGED <<events, error, previous, look, changed>>
    BY <1>4 DEF F!See
  <2>2. /\ current' \in [Paths -> F!Revs]
        /\ \A p \in Paths : current'[p] <= file[p]
    BY <1>1, <2>1 DEF F!TypeOK, SeenIsPast, F!Revs
  <2>3. F!TypeOK' /\ SeenIsPast'
    BY <1>1, <2>1, <2>2 DEF F!TypeOK, SeenIsPast
  <2>4. \A p \in Paths : OnItsWay(p) => OnItsWay(p)'
    BY <1>1, <2>1 DEF OnItsWay, F!Queued
  <2> QED
    BY <1>1, <1>2, <2>3, <2>4, WayKeeps
<1>5. ASSUME NEW q \in Paths, F!WalkFails(q)
      PROVE  SourceInv'
  <2>1. /\ look = "walking" /\ look' = "waiting" /\ error' = TRUE
        /\ UNCHANGED <<events, previous, current, left, changed>>
    BY <1>5 DEF F!WalkFails
  <2>2. F!TypeOK' /\ SeenIsPast'
    BY <1>1, <2>1 DEF F!TypeOK, SeenIsPast
  <2>3. \A p \in Paths : OnItsWay(p) => OnItsWay(p)'
    BY <1>1, <2>1 DEF OnItsWay, F!Queued
  <2> QED
    BY <1>1, <1>2, <2>2, <2>3, WayKeeps
<1>6. CASE F!WalkEnds
  <2>1. /\ look = "walking" /\ look' = "emitting" /\ changed' = F!Differs /\ changed = {}
        /\ UNCHANGED <<events, error, previous, current, left>>
    BY <1>1, <1>6 DEF F!WalkEnds, SeenIsPast
  <2>2. F!TypeOK' /\ SeenIsPast'
    BY <1>1, <2>1 DEF F!TypeOK, SeenIsPast, F!Differs
  <2>3. ASSUME NEW p \in Paths, OnItsWay(p)
        PROVE  OnItsWay(p)'
    <3>1. file[p] # 0
      BY <1>1 DEF F!TypeOK
    <3>2. previous[p] # file[p] /\ current[p] = file[p] => p \in changed'
      BY <2>1, <3>1 DEF F!Differs
    <3> QED
      BY <1>1, <2>1, <2>3, <3>2 DEF OnItsWay, F!Queued
  <2> QED
    BY <1>1, <1>2, <2>2, <2>3, WayKeeps
<1>7. ASSUME NEW q \in Paths, F!EmitChange(q)
      PROVE  SourceInv'
  <2>1. /\ look = "emitting" /\ q \in changed /\ F!Room
        /\ events' = Append(events, q) /\ changed' = changed \ {q}
        /\ UNCHANGED <<error, previous, current, look, left>>
    BY <1>7 DEF F!EmitChange
  <2>2. events \in Seq(Paths \cup {Root})
    BY <1>1 DEF F!TypeOK
  <2>3. /\ events' \in Seq(Paths \cup {Root}) /\ Len(events') = Len(events) + 1
        /\ \E i \in DOMAIN events' : events'[i] = q
        /\ \A x : (\E i \in DOMAIN events : events[i] = x) => \E i \in DOMAIN events' : events'[i] = x
    BY <2>1, <2>2, Channel
  <2>4. Len(events') <= Capacity
    BY <2>1, <2>2, <2>3, SourceAssumption DEF F!Room
  <2>5. F!TypeOK' /\ SeenIsPast'
    BY <1>1, <2>1, <2>3, <2>4 DEF F!TypeOK, SeenIsPast
  <2>6. \A x : F!Queued(x) => F!Queued(x)'
    BY <1>1, <2>1, <2>3 DEF F!Queued
  <2>7. \A p \in Paths : OnItsWay(p) => OnItsWay(p)'
    BY <1>1, <2>1, <2>6 DEF OnItsWay
  <2> QED
    BY <1>1, <1>2, <2>5, <2>7, WayKeeps
<1>8. CASE F!LookEnds
  <2>1. /\ look = "emitting" /\ changed = {} /\ previous' = current /\ look' = "waiting"
        /\ UNCHANGED <<events, error, current, left, changed>>
    BY <1>8 DEF F!LookEnds
  <2>2. F!TypeOK' /\ SeenIsPast'
    BY <1>1, <2>1 DEF F!TypeOK, SeenIsPast
  <2>3. \A p \in Paths : OnItsWay(p) => OnItsWay(p)'
    BY <1>1, <2>1 DEF OnItsWay, F!Queued
  <2> QED
    BY <1>1, <1>2, <2>2, <2>3, WayKeeps
<1> QED
  BY <1>3, <1>4, <1>5, <1>6, <1>7, <1>8 DEF F!Polling

(***************************************************************************)
(* The FSEvents source.                                                     *)
(***************************************************************************)
LEMMA NativeKeeps == SourceInv /\ F!Native => SourceInv'
<1> SUFFICES ASSUME SourceInv, F!Native PROVE SourceInv'
  OBVIOUS
<1>1. /\ F!TypeOK /\ SeenIsPast
      /\ UNCHANGED <<file, there, mirror, kind, term, sweep, ends, previous, current, look, left,
                     changed, stream>>
  BY DEF SourceInv, F!Native, F!TakeBatch, F!EmitBatch, F!ReportEnd, F!files, F!reader, F!native, F!poll
<1>2. \A p \in Paths : F!Stale(p)' => F!Stale(p)
  BY <1>1 DEF F!Stale
<1>3. SeenIsPast'
  BY <1>1 DEF SeenIsPast
<1>4. CASE F!TakeBatch
  <2>1. /\ batch = {} /\ batch' = system /\ system' = {} /\ stream /\ UNCHANGED <<events, error>>
    BY <1>4 DEF F!TakeBatch
  <2>2. F!TypeOK'
    BY <1>1, <2>1 DEF F!TypeOK
  <2>3. \A p \in Paths : OnItsWay(p) => OnItsWay(p)'
    BY <1>1, <2>1 DEF OnItsWay, F!Queued
  <2> QED
    BY <1>1, <1>2, <1>3, <2>2, <2>3, WayKeeps
<1>5. CASE F!ReportEnd
  <2>1. error' = TRUE /\ UNCHANGED <<events, system, batch>>
    BY <1>5 DEF F!ReportEnd, F!native
  <2>2. F!TypeOK'
    BY <1>1, <2>1 DEF F!TypeOK
  <2>3. \A p \in Paths : OnItsWay(p) => OnItsWay(p)'
    BY <1>1, <2>1 DEF OnItsWay, F!Queued
  <2> QED
    BY <1>1, <1>2, <1>3, <2>2, <2>3, WayKeeps
<1>6. ASSUME NEW e \in Paths \cup {Root}, F!EmitBatch(e)
      PROVE  SourceInv'
  <2>1. /\ e \in batch /\ F!Room /\ events' = Append(events, e) /\ batch' = batch \ {e}
        /\ UNCHANGED <<error, system>>
    BY <1>6 DEF F!EmitBatch
  <2>2. events \in Seq(Paths \cup {Root})
    BY <1>1 DEF F!TypeOK
  <2>3. /\ events' \in Seq(Paths \cup {Root}) /\ Len(events') = Len(events) + 1
        /\ \E i \in DOMAIN events' : events'[i] = e
        /\ \A x : (\E i \in DOMAIN events : events[i] = x) => \E i \in DOMAIN events' : events'[i] = x
    BY <2>1, <2>2, Channel
  <2>4. Len(events') <= Capacity
    BY <2>1, <2>2, <2>3, SourceAssumption DEF F!Room
  <2>5. F!TypeOK'
    BY <1>1, <2>1, <2>3, <2>4 DEF F!TypeOK
  <2>6. \A x : F!Queued(x) => F!Queued(x)'
    BY <1>1, <2>1, <2>3 DEF F!Queued
  <2>7. \A p \in Paths : OnItsWay(p) => OnItsWay(p)'
    BY <1>1, <2>1, <2>6 DEF OnItsWay
  <2> QED
    BY <1>1, <1>2, <1>3, <2>5, <2>7, WayKeeps
<1> QED
  BY <1>4, <1>5, <1>6 DEF F!Native

(***************************************************************************)
(* The reader.  A path it has read is no longer stale.                      *)
(***************************************************************************)
LEMMA IngestsEffect ==
    ASSUME F!TypeOK, NEW q \in Paths, F!Ingests(q), UNCHANGED <<file, there>>
    PROVE  /\ mirror' \in [Paths -> F!Revs] /\ ~F!Stale(q)'
           /\ \A p \in Paths : F!Stale(p)' => F!Stale(p)
<1>1. /\ mirror \in [Paths -> F!Revs] /\ file[q] \in F!Revs
      /\ mirror' = [mirror EXCEPT ![q] = IF q \in there THEN file[q] ELSE mirror[q]]
  BY DEF F!TypeOK, F!Ingests
<1> QED
  BY <1>1 DEF F!Stale

LEMMA ClosesKeeps ==
    ASSUME SourceInv, F!Closes, ends' \in 0 .. MaxEnds
    PROVE  SourceInv'
<1>1. F!TypeOK /\ F!Unseen \in [Paths -> F!Revs] /\ \A p \in Paths : F!Unseen[p] <= file[p]
  BY SourceAssumption DEF SourceInv, F!Unseen, F!Revs, F!TypeOK
<1>2. <<>> \in Seq(Paths \cup {Root}) /\ Len(<<>>) <= Capacity
  BY SourceAssumption
<1>3. F!TypeOK'
  BY <1>1, <1>2 DEF F!TypeOK, F!Closes, F!files
<1>4. SeenIsPast'
  BY <1>1 DEF SeenIsPast, F!Closes, F!files
<1>5. F!NothingForgotten'
  BY DEF F!NothingForgotten, F!Closes
<1> QED
  BY <1>3, <1>4, <1>5 DEF SourceInv

(* A sweep that has listed the files reads whatever the mirror lacks. *)
LEMMA OpensKeeps == SourceInv /\ (F!StartStream \/ F!FallBack \/ F!FirstLookDone) => SourceInv'
<1> SUFFICES ASSUME SourceInv, F!StartStream \/ F!FallBack \/ F!FirstLookDone PROVE SourceInv'
  OBVIOUS
<1>1. /\ F!TypeOK /\ SeenIsPast /\ UNCHANGED <<file, there, mirror, ends, events, error>>
  BY DEF SourceInv, F!StartStream, F!FallBack, F!FirstLookDone, F!files
<1>2. (\A p \in Paths : F!Stale(p)' => p \in sweep') => F!NothingForgotten'
  BY DEF F!NothingForgotten
<1>3. \A p \in Paths : F!Stale(p)' => p \in there
  BY <1>1 DEF F!Stale
<1>4. CASE F!StartStream
  <2>1. F!TypeOK'
    BY <1>1, <1>4 DEF F!TypeOK, F!StartStream, F!poll
  <2>2. SeenIsPast'
    BY <1>1, <1>4 DEF SeenIsPast, F!StartStream, F!poll
  <2>3. F!NothingForgotten'
    BY <1>2, <1>3, <1>4 DEF F!StartStream
  <2> QED
    BY <2>1, <2>2, <2>3 DEF SourceInv
<1>5. CASE F!FallBack
  <2>1. F!Unseen \in [Paths -> F!Revs] /\ \A p \in Paths : F!Unseen[p] <= file[p]
    BY <1>1, SourceAssumption DEF F!Unseen, F!Revs, F!TypeOK
  <2>2. /\ kind = "none" /\ kind' = "poll" /\ look' = "walking" /\ left' = there /\ current' = F!Unseen
        /\ UNCHANGED <<term, sweep, previous, changed, system, batch, stream>>
    BY <1>5 DEF F!FallBack, F!Walks, F!native
  <2>3. F!TypeOK' /\ SeenIsPast' /\ term' = "opening"
    BY <1>1, <2>1, <2>2 DEF F!TypeOK, SeenIsPast
  <2>4. F!NothingForgotten'
    BY <2>3 DEF F!NothingForgotten
  <2> QED
    BY <2>3, <2>4 DEF SourceInv
<1>6. CASE F!FirstLookDone
  <2>1. F!TypeOK'
    BY <1>1, <1>6 DEF F!TypeOK, F!FirstLookDone, F!native
  <2>2. SeenIsPast'
    BY <1>1, <1>6 DEF SeenIsPast, F!FirstLookDone
  <2>3. F!NothingForgotten'
    BY <1>2, <1>3, <1>6 DEF F!FirstLookDone
  <2> QED
    BY <2>1, <2>2, <2>3 DEF SourceInv
<1> QED
  BY <1>4, <1>5, <1>6

LEMMA ReadsKeep ==
    ASSUME SourceInv, F!StartPump \/ F!TakeEvent \/ \E p \in Paths : F!SweepFile(p)
    PROVE  SourceInv'
<1>1. /\ F!TypeOK /\ SeenIsPast
      /\ UNCHANGED <<file, there, kind, ends, error, previous, current, look, left, changed,
                     system, batch, stream>>
  BY DEF SourceInv, F!StartPump, F!TakeEvent, F!SweepFile, F!files, F!poll, F!native
<1>2. SeenIsPast'
  BY <1>1 DEF SeenIsPast
<1>3. (\A p \in Paths : F!Stale(p)' /\ term' # "opening" => OnItsWay(p)') => F!NothingForgotten'
  BY DEF F!NothingForgotten, OnItsWay
<1>4. ASSUME NEW q \in Paths, F!SweepFile(q)
      PROVE  SourceInv'
  <2>1. F!Ingests(q) /\ sweep' = sweep \ {q} /\ UNCHANGED <<term, events>>
    BY <1>4 DEF F!SweepFile
  <2>2. /\ mirror' \in [Paths -> F!Revs] /\ ~F!Stale(q)'
        /\ \A p \in Paths : F!Stale(p)' => F!Stale(p)
    BY <1>1, <2>1, IngestsEffect
  <2>3. F!TypeOK'
    BY <1>1, <2>1, <2>2 DEF F!TypeOK
  <2>4. ASSUME NEW p \in Paths, F!Stale(p)', term' # "opening"
        PROVE  OnItsWay(p)'
    <3>1. F!Stale(p) /\ p # q
      BY <2>2, <2>4
    <3>2. OnItsWay(p)
      BY <2>1, <2>4, <3>1, Forgets DEF SourceInv
    <3> QED
      BY <1>1, <2>1, <3>1, <3>2 DEF OnItsWay, F!Queued
  <2> QED
    BY <1>2, <1>3, <2>3, <2>4 DEF SourceInv
<1>5. CASE F!StartPump
  <2>1. term = "sweeping" /\ term' = "pumping" /\ UNCHANGED <<mirror, sweep, events>>
    BY <1>5 DEF F!StartPump
  <2>2. F!TypeOK'
    BY <1>1, <2>1 DEF F!TypeOK
  <2>3. ASSUME NEW p \in Paths, F!Stale(p)'
        PROVE  OnItsWay(p)'
    <3>1. F!Stale(p)
      BY <1>1, <2>1, <2>3 DEF F!Stale
    <3>2. OnItsWay(p)
      BY <2>1, <3>1, Forgets DEF SourceInv
    <3> QED
      BY <1>1, <2>1, <3>2 DEF OnItsWay, F!Queued
  <2> QED
    BY <1>2, <1>3, <2>2, <2>3 DEF SourceInv
<1>6. CASE F!TakeEvent
  <2>1. events # <<>> /\ events' = Tail(events) /\ term = "pumping" /\ UNCHANGED term
    BY <1>6 DEF F!TakeEvent
  <2>2. events \in Seq(Paths \cup {Root}) /\ Len(events) <= Capacity
    BY <1>1 DEF F!TypeOK
  <2>3. /\ Head(events) \in Paths \cup {Root}
        /\ events' \in Seq(Paths \cup {Root}) /\ Len(events') = Len(events) - 1
        /\ \A x : (\E i \in DOMAIN events : events[i] = x)
                     => x = Head(events) \/ \E i \in DOMAIN events' : events'[i] = x
    BY <2>1, <2>2, Channel
  <2>4. Len(events') <= Capacity
    BY <2>2, <2>3, SourceAssumption
  <2>5. \A x : F!Queued(x) => x = Head(events) \/ F!Queued(x)'
    BY <1>1, <2>3 DEF F!Queued
  <2>6. CASE Head(events) = Root
    <3>1. sweep' = there /\ UNCHANGED mirror
      BY <1>6, <2>6 DEF F!TakeEvent
    <3>2. F!TypeOK'
      BY <1>1, <2>1, <2>3, <2>4, <3>1 DEF F!TypeOK
    <3>3. \A p \in Paths : F!Stale(p)' => OnItsWay(p)'
      BY <1>1, <3>1 DEF F!Stale, OnItsWay
    <3> QED
      BY <1>2, <1>3, <3>2, <3>3 DEF SourceInv
  <2>7. CASE Head(events) # Root
    <3>1. PICK q \in Paths : q = Head(events) /\ F!Ingests(q) /\ UNCHANGED sweep
      BY <1>6, <2>3, <2>7 DEF F!TakeEvent
    <3>2. /\ mirror' \in [Paths -> F!Revs] /\ ~F!Stale(q)'
          /\ \A p \in Paths : F!Stale(p)' => F!Stale(p)
      BY <1>1, <3>1, IngestsEffect
    <3>3. F!TypeOK'
      BY <1>1, <2>1, <2>3, <2>4, <3>1, <3>2 DEF F!TypeOK
    <3>4. ASSUME NEW p \in Paths, F!Stale(p)', term' # "opening"
          PROVE  OnItsWay(p)'
      <4>1. F!Stale(p) /\ p # q
        BY <3>2, <3>4
      <4>2. OnItsWay(p)
        BY <2>1, <3>4, <4>1, Forgets DEF SourceInv
      <4>3. F!Queued(p) => F!Queued(p)'
        BY <2>5, <3>1, <4>1
      <4>4. F!Queued(Root) => F!Queued(Root)'
        BY <2>5, <2>7
      <4> QED
        BY <1>1, <3>1, <4>2, <4>3, <4>4 DEF OnItsWay
    <3> QED
      BY <1>2, <1>3, <3>3, <3>4 DEF SourceInv
  <2> QED
    BY <2>6, <2>7
<1> QED
  BY <1>4, <1>5, <1>6

LEMMA SourceStep == SourceInv /\ [F!Next]_source => SourceInv'
<1> SUFFICES ASSUME SourceInv, [F!Next]_source PROVE SourceInv'
  OBVIOUS
<1>1. CASE UNCHANGED source
  BY <1>1 DEF source, SourceInv, F!TypeOK, SeenIsPast, F!NothingForgotten, F!Stale, F!Queued
<1>2. ASSUME NEW p \in Paths, F!Rewrite(p) \/ F!Remove(p)
      PROVE  SourceInv'
  BY <1>2, RewriteKeeps, RemoveKeeps
<1>3. CASE F!TermEnds
  <2>1. ends' \in 0 .. MaxEnds
    BY <1>3, SourceAssumption DEF SourceInv, F!TypeOK, F!TermEnds
  <2> QED
    BY <1>3, <2>1, ClosesKeeps DEF F!TermEnds
<1>4. CASE F!TakeError
  <2>1. ends' \in 0 .. MaxEnds
    BY <1>4 DEF SourceInv, F!TypeOK, F!TakeError
  <2> QED
    BY <1>4, <2>1, ClosesKeeps DEF F!TakeError
<1>5. CASE F!Read /\ ~F!TakeError
  BY <1>5, OpensKeeps, ReadsKeep DEF F!Read
<1> QED
  BY <1>1, <1>2, <1>3, <1>4, <1>5, PollingKeeps, NativeKeeps, StreamClosesKeeps DEF F!Next

(***************************************************************************)
(* While a source works, what the mirror lacks is on its way to it          *)
(* (internal/watch, pumpWatch), whatever the files and the system do.       *)
(***************************************************************************)
THEOREM SourceForgetsNothing == F!Spec => []SourceInv
<1>1. ASSUME [F!Next]_F!vars PROVE [F!Next]_source
  BY <1>1 DEF F!vars, source, F!files, F!reader, F!poll, F!native
<1> QED
  BY <1>1, SourceInit, SourceStep, PTL DEF F!Spec

(***************************************************************************)
(* Every step of a source and its reader is one that ChangeSource allows:   *)
(* the owner changes one file, the mirror takes one file as it is now, or   *)
(* neither moves.                                                           *)
(***************************************************************************)
promised == <<file, there, mirror>>

LEMMA SourceStepAllowed ==
    F!TypeOK /\ [F!Next]_source => [F!Abstract!Next]_promised
<1> SUFFICES ASSUME F!TypeOK, [F!Next]_source PROVE [F!Abstract!Next]_promised
  OBVIOUS
<1>1. ASSUME NEW q \in Paths, F!Rewrite(q) \/ F!Remove(q)
      PROVE  F!Abstract!Change
  <2>1. UNCHANGED mirror /\ \A p \in Paths \ {q} : file'[p] = file[p] /\ (p \in there' <=> p \in there)
    BY <1>1 DEF F!Rewrite, F!Remove, F!TypeOK
  <2> QED
    BY <2>1 DEF F!Abstract!Change
<1>2. ASSUME NEW q \in Paths, F!Ingests(q), UNCHANGED <<file, there>>
      PROVE  F!Abstract!Ingest(q) \/ UNCHANGED promised
  <2>1. mirror \in [Paths -> F!Revs]
    BY DEF F!TypeOK
  <2>2. CASE q \in there /\ mirror[q] # file[q]
    BY <1>2, <2>2 DEF F!Ingests, F!Abstract!Ingest, F!Abstract!Stale
  <2>3. CASE ~(q \in there /\ mirror[q] # file[q])
    <3>1. mirror' = mirror
      BY <1>2, <2>1, <2>3 DEF F!Ingests
    <3> QED
      BY <1>2, <3>1 DEF promised
  <2> QED
    BY <2>2, <2>3
<1>3. CASE \E q \in Paths : F!Rewrite(q) \/ F!Remove(q)
  BY <1>1, <1>3 DEF F!Abstract!Next
<1>4. ASSUME NEW q \in Paths, F!SweepFile(q)
      PROVE  F!Abstract!Next \/ UNCHANGED promised
  BY <1>2, <1>4 DEF F!SweepFile, F!files, F!Abstract!Next
<1>5. CASE F!TakeEvent
  <2>1. Head(events) \in Paths \cup {Root}
    BY <1>5, Channel DEF F!TakeEvent, F!TypeOK
  <2>2. CASE Head(events) = Root
    BY <1>5, <2>2 DEF F!TakeEvent, F!files, promised
  <2>3. CASE Head(events) # Root
    <3>1. Head(events) \in Paths /\ F!Ingests(Head(events)) /\ UNCHANGED <<file, there>>
      BY <1>5, <2>1, <2>3 DEF F!TakeEvent, F!files
    <3> QED
      BY <1>2, <3>1 DEF F!Abstract!Next
  <2> QED
    BY <2>2, <2>3 DEF promised
<1>6. CASE F!Polling \/ F!Native \/ F!TermEnds \/ F!StreamCloses
  BY <1>6 DEF F!Polling, F!Tick, F!See, F!WalkFails, F!WalkEnds, F!EmitChange, F!LookEnds,
              F!Native, F!TakeBatch, F!EmitBatch, F!ReportEnd, F!TermEnds, F!Closes,
              F!StreamCloses, F!files, promised
<1>7. CASE F!StartStream \/ F!FallBack \/ F!FirstLookDone \/ F!StartPump \/ F!TakeError
  BY <1>7 DEF F!StartStream, F!FallBack, F!FirstLookDone, F!StartPump, F!TakeError, F!Closes,
              F!files, promised
<1>8. CASE UNCHANGED source
  BY <1>8 DEF source, promised
<1> QED
  BY <1>3, <1>4, <1>5, <1>6, <1>7, <1>8 DEF F!Next, F!Read, promised

THEOREM SourceStepsAllowed == AllSpec => [][F!Abstract!Next]_promised
<1>1. SourceInv => F!TypeOK
  BY DEF SourceInv
<1> QED
  BY <1>1, Apart, SourceInit, SourceStep, SourceStepAllowed, PTL DEF AllSpec

-----------------------------------------------------------------------------
(***************************************************************************)
(* The scan.  A document that rests has been mirrored, or is in hand, or    *)
(* lies ahead: it or a directory above it is on the agenda, and everything  *)
(* between the two exists.                                                  *)
(***************************************************************************)
Planned(e) == \E i \in DOMAIN agenda : e \in agenda[i]

Ahead(f) == \E above \in SUBSET tree :
                f \in above /\ \A e \in above : Planned(e) \/ Parent[e] \in above

Taken(f) ==
    \/ swept[f] = rev[f]
    \/ doc = f /\ pc \in {"stat", "fingerprint", "read", "commit"}
    \/ Ahead(f)

RevisionsInOrder ==
    /\ \A f \in Docs : cursor[f] <= swept[f] /\ swept[f] <= rev[f]
    /\ pc \in {"read", "commit"} => fp <= rev[doc] /\ (doc \in calm => fp = rev[doc])
    /\ pc = "commit" => fp <= body /\ body <= rev[doc] /\ (doc \in calm => body = rev[doc])

ScanInv ==
    /\ S!TypeOK /\ RevisionsInOrder
    /\ pc = "done" => agenda = <<>>
    /\ pc \notin {"failed", "stopped"} => \A f \in calm : Taken(f)

LEMMA ScanInit == S!Init => ScanInv
<1> SUFFICES ASSUME S!Init PROVE ScanInv
  OBVIOUS
<1>1. 0 \in S!Revs /\ 1 \in S!Revs
  BY SourceAssumption DEF S!Revs
<1>2. doc \in Docs
  BY TreeAssumption DEF S!Init
<1>3. <<>> \in Seq(SUBSET S!Entries)
  OBVIOUS
<1>4. S!TypeOK
  BY <1>1, <1>2, <1>3 DEF S!Init, S!TypeOK, S!Ended
<1>5. RevisionsInOrder
  BY DEF S!Init, RevisionsInOrder
<1> QED
  BY <1>4, <1>5 DEF S!Init, ScanInv

(***************************************************************************)
(* The agenda: an entry that is visited leaves it, and so does an empty     *)
(* directory; what a directory lists comes on it.                           *)
(***************************************************************************)
LEMMA AgendaVisited ==
    ASSUME S!TypeOK, NEW e, S!Listed(e)
    PROVE  /\ S!Visited(e) \in Seq(SUBSET S!Entries) /\ e \in S!Entries
           /\ \A x : Planned(x) /\ x # e => \E i \in DOMAIN S!Visited(e) : x \in S!Visited(e)[i]
<1>1. agenda \in Seq(SUBSET S!Entries) /\ agenda # <<>> /\ e \in agenda[Len(agenda)]
  BY DEF S!TypeOK, S!Listed, S!Top
<1>2. /\ Len(agenda) \in DOMAIN agenda /\ DOMAIN agenda = 1 .. Len(agenda) /\ Len(agenda) \in Nat
      /\ \A i \in DOMAIN agenda : agenda[i] \in SUBSET S!Entries
  BY <1>1
<1>3. /\ DOMAIN S!Visited(e) = DOMAIN agenda
      /\ \A i \in DOMAIN agenda :
            S!Visited(e)[i] = IF i = Len(agenda) THEN agenda[i] \ {e} ELSE agenda[i]
  BY <1>1, <1>2 DEF S!Visited
<1>4. S!Visited(e) \in Seq(SUBSET S!Entries)
  BY <1>1, <1>2 DEF S!Visited
<1> QED
  BY <1>1, <1>2, <1>3, <1>4 DEF Planned

LEMMA AgendaLeft ==
    ASSUME S!TypeOK, agenda # <<>>, S!Top = {}
    PROVE  LET rest == SubSeq(agenda, 1, Len(agenda) - 1)
           IN  /\ rest \in Seq(SUBSET S!Entries)
               /\ \A x : Planned(x) => \E i \in DOMAIN rest : x \in rest[i]
<1>1. agenda \in Seq(SUBSET S!Entries) /\ agenda[Len(agenda)] = {}
  BY DEF S!TypeOK, S!Top
<1>2. /\ DOMAIN agenda = 1 .. Len(agenda) /\ Len(agenda) \in Nat /\ Len(agenda) # 0
  BY <1>1
<1> DEFINE rest == SubSeq(agenda, 1, Len(agenda) - 1)
<1>3. /\ rest \in Seq(SUBSET S!Entries) /\ DOMAIN rest = 1 .. Len(agenda) - 1
      /\ \A i \in 1 .. Len(agenda) - 1 : rest[i] = agenda[i]
  BY <1>1, <1>2
<1> HIDE DEF rest
<1>4. ASSUME NEW x, NEW i \in DOMAIN agenda, x \in agenda[i]
      PROVE  i \in 1 .. Len(agenda) - 1
  BY <1>1, <1>2, <1>4
<1>5. \A x : Planned(x) => \E i \in DOMAIN rest : x \in rest[i]
  BY <1>3, <1>4 DEF Planned
<1> QED
  BY <1>3, <1>5 DEF rest

(***************************************************************************)
(* The agents: no directory above a document that rests can be removed.     *)
(***************************************************************************)
LEMMA AgentsKeep == ScanInv /\ S!Agents => ScanInv'
<1> SUFFICES ASSUME ScanInv, S!Agents PROVE ScanInv'
  OBVIOUS
<1>1. S!TypeOK /\ RevisionsInOrder /\ UNCHANGED <<swept, cursor, pc, agenda, doc, fp, body>>
  BY DEF ScanInv, S!Agents, S!database, S!locals
<1>2. PICK e \in S!Entries : (e \in Docs /\ S!Write(e)) \/ S!Make(e) \/ S!Remove(e)
  BY DEF S!Agents
<1>3. CASE e \in Docs /\ S!Write(e)
  <2>1. /\ tree' = tree \cup {e} /\ calm' = calm \ {e} /\ Parent[e] \in tree \cup {Root}
        /\ rev' \in [Docs -> S!Revs] /\ \A f \in Docs : rev[f] <= rev'[f] /\ (f # e => rev'[f] = rev[f])
    BY <1>1, <1>3, SourceAssumption DEF S!Write, S!TypeOK, S!Revs
  <2>2. S!TypeOK'
    BY <1>1, <2>1 DEF S!TypeOK
  <2>3. RevisionsInOrder'
    BY <1>1, <2>1, SourceAssumption DEF RevisionsInOrder, S!TypeOK, S!Revs
  <2>4. \A f \in Docs : Ahead(f) => Ahead(f)'
    BY <1>1, <2>1 DEF Ahead, Planned
  <2>5. ASSUME NEW f \in calm', Taken(f)
        PROVE  Taken(f)'
    BY <1>1, <2>1, <2>4, <2>5 DEF Taken, S!TypeOK
  <2> QED
    BY <1>1, <2>1, <2>2, <2>3, <2>5 DEF ScanInv
<1>4. CASE S!Make(e)
  <2>1. /\ tree' = tree \cup {e} /\ Parent[e] \in tree \cup {Root} /\ UNCHANGED <<rev, calm>>
    BY <1>4 DEF S!Make
  <2>2. S!TypeOK'
    BY <1>1, <1>2, <2>1 DEF S!TypeOK
  <2>3. RevisionsInOrder'
    BY <1>1, <2>1 DEF RevisionsInOrder
  <2>4. \A f \in Docs : Ahead(f) => Ahead(f)'
    BY <1>1, <2>1 DEF Ahead, Planned
  <2>5. ASSUME NEW f \in calm', Taken(f)
        PROVE  Taken(f)'
    BY <1>1, <2>1, <2>4, <2>5 DEF Taken, S!TypeOK
  <2> QED
    BY <1>1, <2>1, <2>2, <2>3, <2>5 DEF ScanInv
<1>5. CASE S!Remove(e)
  <2>1. /\ tree' = tree \ {e} /\ calm' = calm \ {e} /\ UNCHANGED rev
        /\ \A x \in tree : Parent[x] # e
    BY <1>5 DEF S!Remove, S!Listing
  <2>2. S!TypeOK'
    BY <1>1, <2>1 DEF S!TypeOK
  <2>3. RevisionsInOrder'
    BY <1>1, <2>1 DEF RevisionsInOrder
  <2>4. ASSUME NEW f \in calm', Ahead(f)
        PROVE  Ahead(f)'
    <3>1. PICK above \in SUBSET tree :
              f \in above /\ \A x \in above : Planned(x) \/ Parent[x] \in above
      BY <2>4 DEF Ahead
    <3>2. above \ {e} \in SUBSET tree' /\ f \in above \ {e}
      BY <2>1, <2>4, <3>1
    <3>3. \A x \in above \ {e} : Planned(x)' \/ Parent[x] \in above \ {e}
      BY <1>1, <2>1, <3>1 DEF Planned
    <3> QED
      BY <3>2, <3>3 DEF Ahead
  <2>5. ASSUME NEW f \in calm', Taken(f)
        PROVE  Taken(f)'
    BY <1>1, <2>1, <2>4, <2>5 DEF Taken
  <2> QED
    BY <1>1, <2>1, <2>2, <2>3, <2>5 DEF ScanInv
<1> QED
  BY <1>2, <1>3, <1>4, <1>5

(* A scan that starts, fails or is canceled. *)
LEMMA ScanEndsKeep ==
    ASSUME ScanInv, S!Begin \/ S!Cancel \/ S!Fail
    PROVE  ScanInv'
<1>1. /\ S!TypeOK /\ RevisionsInOrder
      /\ UNCHANGED <<tree, rev, swept, cursor, doc, fp, body>>
  BY DEF ScanInv, S!Begin, S!Cancel, S!Fail, S!files, S!database
<1>2. CASE S!Begin
  <2>1. pc' = "walk" /\ agenda' = <<S!Listing(Root)>> /\ calm' = Docs \cap tree
    BY <1>2 DEF S!Begin
  <2>2. /\ agenda' \in Seq(SUBSET S!Entries) /\ 1 \in DOMAIN agenda' /\ agenda'[1] = S!Listing(Root)
    BY <1>1, <2>1 DEF S!TypeOK, S!Listing
  <2>3. S!TypeOK'
    BY <1>1, <2>1, <2>2 DEF S!TypeOK
  <2>4. RevisionsInOrder'
    BY <1>1, <2>1 DEF RevisionsInOrder
  <2>5. \A e \in tree : Planned(e)' \/ Parent[e] \in tree
    BY <1>1, <2>2 DEF S!TypeOK, S!Listing, Planned
  <2>6. \A f \in calm' : Taken(f)'
    BY <1>1, <2>1, <2>5 DEF Taken, Ahead
  <2> QED
    BY <2>1, <2>3, <2>4, <2>6 DEF ScanInv
<1>3. CASE S!Cancel \/ S!Fail
  <2>1. pc' \in {"failed", "stopped"} /\ agenda' = <<>> /\ UNCHANGED calm
    BY <1>3 DEF S!Cancel, S!Fail, S!files
  <2>2. <<>> \in Seq(SUBSET S!Entries)
    OBVIOUS
  <2>3. S!TypeOK'
    BY <1>1, <2>1, <2>2 DEF S!TypeOK, S!Ended
  <2>4. RevisionsInOrder'
    BY <1>1, <2>1 DEF RevisionsInOrder
  <2> QED
    BY <2>1, <2>3, <2>4 DEF ScanInv
<1> QED
  BY <1>2, <1>3

(***************************************************************************)
(* An entry that is visited and lists nothing: what lay ahead behind no     *)
(* other still does.                                                        *)
(***************************************************************************)
LEMMA VisitedKeeps ==
    ASSUME ScanInv, NEW e, e \notin Dirs, S!Listed(e), agenda' = S!Visited(e),
           UNCHANGED <<tree, rev, calm, swept, cursor, fp, body>>,
           \/ e \notin Docs /\ UNCHANGED <<pc, doc>>
           \/ e \in Docs /\ doc' = e /\ pc' = "stat"
    PROVE  ScanInv'
<1>1. S!TypeOK /\ RevisionsInOrder /\ pc = "walk"
  BY DEF ScanInv, S!Listed
<1>2. /\ agenda' \in Seq(SUBSET S!Entries) /\ e \in S!Entries
      /\ \A x : Planned(x) /\ x # e => Planned(x)'
  BY <1>1, AgendaVisited DEF Planned
<1>3. S!TypeOK'
  BY <1>1, <1>2 DEF S!TypeOK
<1>4. RevisionsInOrder'
  BY <1>1 DEF RevisionsInOrder
<1>5. \A x \in tree : Parent[x] # e
  BY <1>1, <1>2, TreeAssumption DEF S!TypeOK
<1>6. ASSUME NEW f \in calm, Ahead(f), f # e
      PROVE  Ahead(f)'
  <2>1. PICK above \in SUBSET tree :
            f \in above /\ \A x \in above : Planned(x) \/ Parent[x] \in above
    BY <1>6 DEF Ahead
  <2>2. above \ {e} \in SUBSET tree' /\ f \in above \ {e}
    BY <1>6, <2>1
  <2>3. \A x \in above \ {e} : Planned(x)' \/ Parent[x] \in above \ {e}
    BY <1>2, <1>5, <2>1
  <2> QED
    BY <2>2, <2>3 DEF Ahead
<1>7. ASSUME NEW f \in calm
      PROVE  Taken(f)'
  <2>1. f \in Docs /\ Taken(f)
    BY <1>1 DEF S!TypeOK, ScanInv
  <2>2. CASE f = e
    BY <2>1, <2>2 DEF Taken
  <2>3. CASE f # e
    BY <1>1, <1>6, <2>1, <2>3 DEF Taken
  <2> QED
    BY <2>2, <2>3
<1> QED
  BY <1>1, <1>3, <1>4, <1>7 DEF ScanInv

(* A directory: what lay ahead behind it is what it lists, or behind that. *)
LEMMA VisitDirKeeps ==
    ASSUME ScanInv, NEW e \in S!Entries, S!VisitDir(e), e \in tree
    PROVE  ScanInv'
<1>1. /\ S!TypeOK /\ RevisionsInOrder /\ pc = "walk" /\ e \in Dirs /\ S!Listed(e)
      /\ agenda' = Append(S!Visited(e), S!Listing(e))
      /\ UNCHANGED <<tree, rev, calm, swept, cursor, pc, doc, fp, body>>
  BY DEF ScanInv, S!VisitDir, S!Listed, S!files, S!database
<1>2. S!Listing(e) \in SUBSET S!Entries
  BY <1>1 DEF S!Listing, S!TypeOK
<1>3. /\ S!Visited(e) \in Seq(SUBSET S!Entries)
      /\ \A x : Planned(x) /\ x # e => \E i \in DOMAIN S!Visited(e) : x \in S!Visited(e)[i]
  BY <1>1, AgendaVisited
<1>4. PICK visited \in Seq(SUBSET S!Entries) :
          /\ agenda' = Append(visited, S!Listing(e))
          /\ \A x : Planned(x) /\ x # e => \E i \in DOMAIN visited : x \in visited[i]
  BY <1>1, <1>3
<1>5. /\ agenda' \in Seq(SUBSET S!Entries)
      /\ \E i \in DOMAIN agenda' : agenda'[i] = S!Listing(e)
      /\ \A s : (\E i \in DOMAIN visited : visited[i] = s) => \E i \in DOMAIN agenda' : agenda'[i] = s
  BY <1>2, <1>4, Channel
<1>6. \A x : Planned(x) /\ x # e => Planned(x)'
  BY <1>4, <1>5 DEF Planned
<1>7. \A x \in tree : Parent[x] = e => Planned(x)'
  BY <1>5 DEF S!Listing, Planned
<1>8. S!TypeOK'
  BY <1>1, <1>5 DEF S!TypeOK
<1>9. RevisionsInOrder'
  BY <1>1 DEF RevisionsInOrder
<1>10. ASSUME NEW f \in calm, Ahead(f)
       PROVE  Ahead(f)'
  <2>1. f # e
    BY <1>1, TreeAssumption DEF S!TypeOK
  <2>2. PICK above \in SUBSET tree :
            f \in above /\ \A x \in above : Planned(x) \/ Parent[x] \in above
    BY <1>10 DEF Ahead
  <2>3. above \ {e} \in SUBSET tree' /\ f \in above \ {e}
    BY <1>1, <2>1, <2>2
  <2>4. \A x \in above \ {e} : Planned(x)' \/ Parent[x] \in above \ {e}
    BY <1>6, <1>7, <2>2
  <2> QED
    BY <2>3, <2>4 DEF Ahead
<1>11. \A f \in calm : Taken(f)'
  BY <1>1, <1>10 DEF Taken, ScanInv
<1> QED
  BY <1>1, <1>8, <1>9, <1>11 DEF ScanInv

LEMMA LeaveDirKeeps == ScanInv /\ S!LeaveDir => ScanInv'
<1> SUFFICES ASSUME ScanInv, S!LeaveDir PROVE ScanInv'
  OBVIOUS
<1>1. /\ S!TypeOK /\ RevisionsInOrder /\ pc = "walk" /\ \A f \in calm : Taken(f)
      /\ UNCHANGED <<tree, rev, calm, swept, cursor, doc, fp, body>>
  BY DEF ScanInv, S!LeaveDir, S!files, S!database
<1>2. /\ pc' \in {"walk", "done"} /\ (pc' = "done" => agenda' = <<>>)
      /\ agenda' \in Seq(SUBSET S!Entries) /\ \A x : Planned(x) => Planned(x)'
  <2>1. CASE agenda = <<>>
    BY <1>1, <2>1 DEF S!LeaveDir, S!TypeOK, Planned
  <2>2. CASE agenda # <<>>
    BY <1>1, <2>2, AgendaLeft DEF S!LeaveDir, Planned
  <2> QED
    BY <2>1, <2>2
<1>3. S!TypeOK'
  BY <1>1, <1>2 DEF S!TypeOK, S!Ended
<1>4. RevisionsInOrder'
  BY <1>1, <1>2 DEF RevisionsInOrder
<1>5. \A f \in calm : Ahead(f) => Ahead(f)'
  BY <1>1, <1>2 DEF Ahead
<1>6. \A f \in calm : Taken(f)'
  BY <1>1, <1>5 DEF Taken
<1> QED
  BY <1>1, <1>2, <1>3, <1>4, <1>6 DEF ScanInv

(***************************************************************************)
(* IngestPath: a document that rests is fingerprinted and read as it is.    *)
(***************************************************************************)
LEMMA IngestKeeps ==
    ASSUME ScanInv, pc' # "failed", S!Stat \/ S!Fingerprint \/ S!Read \/ S!Commit
    PROVE  ScanInv'
<1>1. /\ S!TypeOK /\ RevisionsInOrder /\ \A f \in calm : Taken(f)
      /\ UNCHANGED <<tree, rev, calm, doc>> /\ pc \in {"stat", "fingerprint", "read", "commit"}
  BY DEF ScanInv, S!Stat, S!Fingerprint, S!Read, S!Commit, S!Fail, S!files, S!database, S!locals
<1>2. UNCHANGED agenda
  BY DEF S!Stat, S!Fingerprint, S!Read, S!Commit, S!Fail, S!locals
<1>3. \A f \in calm : Ahead(f) => Ahead(f)'
  BY <1>1, <1>2 DEF Ahead, Planned
<1>4. doc \in Docs /\ (doc \in calm => doc \in tree) /\ calm \subseteq Docs
      /\ \A f \in Docs : rev[f] \in Nat /\ swept[f] \in Nat /\ cursor[f] \in Nat
  BY <1>1 DEF S!TypeOK, S!Revs
<1>5. CASE S!Stat
  <2>1. /\ pc' = IF doc \in tree THEN "fingerprint" ELSE "walk"
        /\ UNCHANGED <<swept, cursor, fp, body>>
    BY <1>5 DEF S!Stat, S!database, S!locals
  <2>2. S!TypeOK' /\ RevisionsInOrder'
    BY <1>1, <1>2, <2>1 DEF S!TypeOK, RevisionsInOrder
  <2>3. \A f \in calm : Taken(f)'
    BY <1>1, <1>3, <1>4, <2>1 DEF Taken
  <2> QED
    BY <1>1, <2>1, <2>2, <2>3 DEF ScanInv
<1>6. CASE S!Fingerprint
  <2>1. /\ UNCHANGED <<swept, cursor, body>> /\ fp' \in S!Revs /\ fp' <= rev[doc]
        /\ \/ pc' = "read" /\ (doc \in tree => fp' = rev[doc])
           \/ pc' = "walk" /\ cursor[doc] = rev[doc]
    BY <1>1, <1>4, <1>6, SourceAssumption DEF S!Fingerprint, S!Fail, S!database, S!TypeOK, S!Revs
  <2>2. S!TypeOK' /\ RevisionsInOrder'
    BY <1>1, <1>2, <1>4, <2>1 DEF S!TypeOK, RevisionsInOrder
  <2>3. \A f \in calm : Taken(f)'
    <3>1. cursor[doc] = rev[doc] => swept[doc] = rev[doc]
      BY <1>1, <1>4 DEF RevisionsInOrder
    <3> QED
      BY <1>1, <1>3, <1>4, <2>1, <3>1 DEF Taken
  <2> QED
    BY <1>1, <2>1, <2>2, <2>3 DEF ScanInv
<1>7. CASE S!Read
  <2>1. /\ pc = "read" /\ pc' = "commit" /\ body' = rev[doc] /\ UNCHANGED <<swept, cursor, fp>>
    BY <1>7 DEF S!Read, S!Fail, S!database
  <2>2. S!TypeOK' /\ RevisionsInOrder'
    BY <1>1, <1>2, <1>4, <2>1 DEF S!TypeOK, RevisionsInOrder
  <2>3. \A f \in calm : Taken(f)'
    BY <1>1, <1>3, <1>4, <2>1 DEF Taken
  <2> QED
    BY <1>1, <2>1, <2>2, <2>3 DEF ScanInv
<1>8. CASE S!Commit
  <2>1. /\ pc = "commit" /\ pc' = "walk" /\ UNCHANGED <<fp, body>>
        /\ swept' = [swept EXCEPT ![doc] = body] /\ cursor' = [cursor EXCEPT ![doc] = fp]
    BY <1>8 DEF S!Commit, S!locals
  <2>2. /\ swept' \in [Docs -> S!Revs] /\ cursor' \in [Docs -> S!Revs]
        /\ swept'[doc] = body /\ cursor'[doc] = fp
        /\ \A f \in Docs \ {doc} : swept'[f] = swept[f] /\ cursor'[f] = cursor[f]
    BY <1>1, <1>4, <2>1 DEF S!TypeOK
  <2>3. S!TypeOK' /\ RevisionsInOrder'
    BY <1>1, <1>2, <1>4, <2>1, <2>2 DEF S!TypeOK, RevisionsInOrder
  <2>4. \A f \in calm : Taken(f)'
    BY <1>1, <1>3, <1>4, <2>1, <2>2 DEF Taken, RevisionsInOrder
  <2> QED
    BY <1>1, <2>1, <2>3, <2>4 DEF ScanInv
<1> QED
  BY <1>5, <1>6, <1>7, <1>8

LEMMA ScanStep == ScanInv /\ [S!Next]_scan => ScanInv'
<1> SUFFICES ASSUME ScanInv, [S!Next]_scan PROVE ScanInv'
  OBVIOUS
<1>1. CASE UNCHANGED scan
  BY <1>1 DEF scan, ScanInv, S!TypeOK, RevisionsInOrder, Taken, Ahead, Planned
<1>2. CASE S!Fail
  BY <1>2, ScanEndsKeep
<1>3. ASSUME NEW e \in S!Entries, S!VisitDir(e)
      PROVE  ScanInv'
  BY <1>2, <1>3, VisitDirKeeps DEF S!VisitDir
<1>4. ASSUME NEW e \in S!Entries, S!VisitOther(e)
      PROVE  ScanInv'
  <2>1. e \notin Dirs \cup Docs
    BY <1>4, TreeAssumption DEF S!VisitOther
  <2> QED
    BY <1>4, <2>1, VisitedKeeps DEF S!VisitOther, S!files, S!database
<1>5. ASSUME NEW e \in S!Entries, S!VisitMarkdown(e)
      PROVE  ScanInv'
  <2>1. e \notin Dirs
    BY <1>5, TreeAssumption DEF S!VisitMarkdown
  <2> QED
    BY <1>2, <1>5, <2>1, VisitedKeeps DEF S!VisitMarkdown, S!files, S!database
<1>6. CASE S!Stat \/ S!Fingerprint \/ S!Read \/ S!Commit
  <2>1. pc' = "failed" => S!Fail
    BY <1>6 DEF S!Stat, S!Fingerprint, S!Read, S!Commit, S!Fail
  <2> QED
    BY <1>2, <1>6, <2>1, IngestKeeps
<1> QED
  BY <1>1, <1>3, <1>4, <1>5, <1>6, AgentsKeep, ScanEndsKeep, LeaveDirKeeps DEF S!Next, S!Walk

(***************************************************************************)
(* When the agenda is empty nothing lies ahead: the directories above a     *)
(* document would have no topmost one.                                      *)
(***************************************************************************)
LEMMA NothingAhead ==
    ASSUME S!TypeOK, agenda = <<>>
    PROVE  \A f : ~Ahead(f)
<1> SUFFICES ASSUME NEW above \in SUBSET tree, above # {}, \A e \in above : Parent[e] \in above
             PROVE  FALSE
  BY DEF Ahead, Planned
<1>1. above \subseteq S!Entries
  BY DEF S!TypeOK
<1> DEFINE depths == {Depth[e] : e \in above}
<1>2. depths \subseteq Nat /\ depths # {}
  BY <1>1, TreeAssumption
<1>3. PICK n \in depths : \A m \in depths : ~(<<m, n>> \in OpToRel(<, Nat))
  BY <1>2, WFMin, NatLessThanWellFounded
<1>4. PICK e \in above : Depth[e] = n
  OBVIOUS
<1>5. Parent[e] \in above /\ Depth[Parent[e]] \in depths /\ Depth[Parent[e]] < n
  BY <1>1, <1>4, TreeAssumption
<1> QED
  BY <1>2, <1>3, <1>5 DEF OpToRel

(***************************************************************************)
(* Backfill takes every document that rested while it ran, for any tree.    *)
(***************************************************************************)
LEMMA ScanIsTotal == ScanInv => S!SweepIsTotal
<1> SUFFICES ASSUME ScanInv, pc = "done" PROVE \A f \in calm : swept[f] = rev[f]
  BY DEF S!SweepIsTotal
<1>1. \A f \in calm : Taken(f) /\ ~Ahead(f)
  BY NothingAhead DEF ScanInv
<1> QED
  BY <1>1 DEF Taken

THEOREM ScansAreTotal == S!Spec => []S!SweepIsTotal
<1>1. ASSUME [S!Next]_S!vars PROVE [S!Next]_scan
  BY <1>1 DEF S!vars, scan
<1> QED
  BY <1>1, ScanInit, ScanStep, ScanIsTotal, PTL DEF S!Spec

(***************************************************************************)
(* NothingIsMissed holds in every behaviour of the files.                   *)
(***************************************************************************)
THEOREM NoChangeIsMissed == AllSpec => []NothingIsMissed
<1>1. ScanInv /\ SourceInv => NothingIsMissed
  BY ScanIsTotal DEF ScanInv, SourceInv, NothingIsMissed
<1> QED
  BY <1>1, Apart, ScanInit, ScanStep, SourceInit, SourceStep, PTL DEF AllSpec

(***************************************************************************)
(* A process has a database open only when it is of version 3, whatever was *)
(* found on disk and whoever died where (EnsureContext, MigrateContext).    *)
(***************************************************************************)
THEOREM OnlyCurrentIsOpened == AllSpec => []D!OpenIsCurrent
<1>1. DatabaseInv => D!OpenIsCurrent
  BY DEF DatabaseInv
<1>2. DatabaseInv /\ [D!Next]_database => DatabaseInv'
  BY DatabaseStep
<1> QED
  BY <1>1, <1>2, Apart, DatabaseInit, PTL DEF AllSpec

(***************************************************************************)
(* A database of another plugin, of a later version, or with the names of   *)
(* the schema taken stays as it was (EnsureContext, MigrateContext).        *)
(***************************************************************************)
THEOREM OthersStayUntouched == AllSpec => D!OthersUntouched
<1>1. DatabaseInv /\ [D!Next]_database => DatabaseInv'
  BY DatabaseStep
<1>2. ASSUME DatabaseInv, [D!Next]_database
      PROVE  [~D!Ours /\ disk # D!NoDatabase => disk' = disk]_D!vars
  BY <1>2, DatabaseStep
<1> QED
  BY <1>1, <1>2, Apart, DatabaseInit, PTL DEF AllSpec, D!OthersUntouched

(***************************************************************************)
(* A directory with an entry that is not of a release stays as it was       *)
(* (prepareOutput).                                                         *)
(***************************************************************************)
THEOREM RefusedStaysUntouched == AllSpec => K!RefusedUntouched
<1>1. ASSUME ReleaseInv, [K!Next]_packaging
      PROVE  [journal /\ run.at # "database"
                => UNCHANGED <<packed, sums, journal, archive>>]_K!vars
  <2> SUFFICES ASSUME journal, run.at # "database", K!Next
               PROVE  UNCHANGED <<packed, sums, journal, archive>>
    BY <1>1 DEF packaging, K!vars
  <2>1. journal \in BOOLEAN /\ run.at \in {"list", "refused", "failed", "killed"}
    BY <1>1 DEF ReleaseInv, ReleaseIsOneBuild, K!TypeOK
  <2>2. CASE K!Start \/ K!List \/ K!Fail \/ K!Killed
    BY <2>1, <2>2, Zenon DEF K!Start, K!List, K!Fail, K!Killed
  <2>3. ~K!Clear /\ ~K!WriteDatabase /\ ~K!WriteSums /\ ~K!WriteArchive
    BY <2>1 DEF K!At, K!Clear, K!WriteDatabase, K!WriteSums, K!WriteArchive
  <2>4. ~K!Write("manifest", "binary") /\ ~K!Write("binary", "database")
    BY <2>1 DEF K!At, K!Write
  <2> QED
    BY <2>2, <2>3, <2>4 DEF K!Next
<1> QED
  BY <1>1, Apart, ReleaseInit, ReleaseStep, PTL DEF AllSpec, K!RefusedUntouched

(***************************************************************************)
(* Whatever stopped a creation or a migration, and whoever ran it again,    *)
(* the database is a whole version, the scripts that lead from it apply,    *)
(* only version 3 is opened, and a document mirrored into it queues its     *)
(* wakeup (EnsureContext, MigrateContext).                                  *)
(***************************************************************************)
THEOREM DatabaseStaysWhole == AllSpec => []DatabaseIsWhole
<1>1. WholeInv => DatabaseIsWhole
  BY WholeImplies DEF DatabaseIsWhole
<1>2. WholeInv /\ [D!Next]_database => WholeInv'
  BY WholeStep
<1> QED
  BY <1>1, <1>2, Apart, WholeInit, PTL DEF AllSpec

(***************************************************************************)
(* A step that changes what tables, indexes and triggers there are keeps    *)
(* the rows: rebuilding a table of version 1 or 2 loses none and adds none  *)
(* (MigrateContext and its two scripts).                                    *)
(***************************************************************************)
THEOREM MigratedRowsStay == AllSpec => D!MigrationKeepsRows
<1>1. WholeInv /\ [D!Next]_database => WholeInv'
  BY WholeStep
<1>2. ASSUME WholeInv, [D!Next]_database
      PROVE  [disk'.objects # disk.objects => D!Contents(disk') = D!Contents(disk)]_D!vars
  BY <1>2, WholeStep DEF D!Contents, ContentsOf
<1> QED
  BY <1>1, <1>2, Apart, WholeInit, PTL DEF AllSpec, D!MigrationKeepsRows

(***************************************************************************)
(* What is not the program's to change stays: a directory with a foreign    *)
(* entry, a database of another plugin or a later version, and the rows of  *)
(* one that is migrated (prepareOutput, EnsureContext, MigrateContext).     *)
(***************************************************************************)
THEOREM NothingOfOthersIsOverwritten == AllSpec => NothingIsOverwritten
BY RefusedStaysUntouched, OthersStayUntouched, MigratedRowsStay DEF NothingIsOverwritten

=============================================================================
