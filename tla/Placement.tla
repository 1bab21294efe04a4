----------------------------- MODULE Placement -----------------------------
(***************************************************************************)
(* The verb place (place.go): copies the running executable beside the      *)
(* installed one and renames it over.  Where rename cannot overwrite, the   *)
(* installed file is set aside under a name of the copy's, and put back     *)
(* when the second rename fails too.                                        *)
(*                                                                         *)
(* Several processes may place at once.  Every file operation may fail, and *)
(* a process may die before each.                                           *)
(***************************************************************************)
CONSTANTS
    Placers,      \* processes running place, each from a build of its own
    Installed,    \* those of them that run from the installed file itself
    Earlier,      \* the build that was there before
    NoFile

ASSUME EarlierIsAnother == Earlier \notin Placers
ASSUME NoFileIsNone ==
    \A b \in Placers \cup {Earlier}, s \in {"partial", "copied", "executable"} :
        NoFile # [build |-> b, state |-> s]
ASSUME InstalledAssumption == Installed \subseteq Placers

VARIABLES
    dest,     \* the installed file
    tmp,      \* each placer's roca-firstmate-place-*
    backup,   \* each placer's roca-firstmate-place-*.previous
    at        \* the next operation of each placer, or how it ended

vars == <<dest, tmp, backup, at>>

Builds == Placers \cup {Earlier}
Files == [build : Builds, state : {"partial", "copied", "executable"}]
File(b, s) == [build |-> b, state |-> s]

Ended == {"placed", "failed", "dead"}
Steps == {"look", "create", "copy", "mode", "close", "rename", "stat", "setAside",
          "replace", "restore", "discard", "cleanup"}

Init ==
    /\ dest \in {NoFile, File(Earlier, "executable")}
    /\ tmp = [p \in Placers |-> NoFile]
    /\ backup = [p \in Placers |-> NoFile]
    /\ at = [p \in Placers |-> "look"]

-----------------------------------------------------------------------------
Goes(p, step) == at' = [at EXCEPT ![p] = step]

(* sameFile: a process that runs from the installed file has nothing to do; *)
(* when that file is gone there is nothing to copy either.                  *)
Look(p) ==
    /\ at[p] = "look"
    /\ Goes(p, IF p \notin Installed THEN "create"
               ELSE IF dest # NoFile THEN "placed" ELSE "failed")
    /\ UNCHANGED <<dest, tmp, backup>>

CreateTemp(p) ==
    /\ at[p] = "create"
    /\ \/ tmp' = [tmp EXCEPT ![p] = File(p, "partial")] /\ Goes(p, "copy")
       \/ UNCHANGED tmp /\ Goes(p, "failed")
    /\ UNCHANGED <<dest, backup>>

(* io.Copy, Chmod: an error removes the copy. *)
Copy(p) ==
    /\ at[p] = "copy"
    /\ \/ tmp' = [tmp EXCEPT ![p] = File(p, "copied")] /\ Goes(p, "mode")
       \/ UNCHANGED tmp /\ Goes(p, "cleanup")
    /\ UNCHANGED <<dest, backup>>

(* Mutant of Chmod: its error is not looked at. *)
ChmodUnchecked(p) ==
    /\ at[p] = "mode" /\ Goes(p, "close")
    /\ tmp' = [tmp EXCEPT ![p] = File(p, "executable")] \/ UNCHANGED tmp
    /\ UNCHANGED <<dest, backup>>

Chmod(p) ==
    /\ at[p] = "mode"
    /\ \/ tmp' = [tmp EXCEPT ![p] = File(p, "executable")] /\ Goes(p, "close")
       \/ UNCHANGED tmp /\ Goes(p, "cleanup")
    /\ UNCHANGED <<dest, backup>>

Close(p) ==
    /\ at[p] = "close"
    /\ Goes(p, "rename") \/ Goes(p, "cleanup")
    /\ UNCHANGED <<dest, tmp, backup>>

-----------------------------------------------------------------------------
(* replacePlacedExecutable. *)
TmpToDest(p) == dest' = tmp[p] /\ tmp' = [tmp EXCEPT ![p] = NoFile] /\ UNCHANGED backup

NothingMoves == UNCHANGED <<dest, tmp, backup>>

Rename(p) ==
    /\ at[p] = "rename"
    /\ \/ TmpToDest(p) /\ Goes(p, "placed")
       \/ NothingMoves /\ Goes(p, "stat")

Stat(p) ==
    /\ at[p] = "stat"
    /\ Goes(p, IF dest = NoFile THEN "cleanup" ELSE "setAside")
    /\ NothingMoves

(* Mutant of SetAside: the installed file is removed, not renamed. *)
SetAsideByRemoving(p) ==
    /\ at[p] = "setAside" /\ UNCHANGED <<tmp, backup>>
    /\ dest' = NoFile /\ Goes(p, "replace")

(* Between Stat and here another placer may have moved dest away. *)
SetAside(p) ==
    /\ at[p] = "setAside" /\ UNCHANGED tmp
    /\ \/ /\ dest # NoFile
          /\ backup' = [backup EXCEPT ![p] = dest] /\ dest' = NoFile
          /\ Goes(p, "replace")
       \/ UNCHANGED <<dest, backup>> /\ Goes(p, "cleanup")

(* Mutant of Replace: a failure ends the call at once. *)
ReplaceWithoutRestore(p) ==
    /\ at[p] = "replace"
    /\ \/ TmpToDest(p) /\ Goes(p, "discard")
       \/ NothingMoves /\ Goes(p, "discard")

Replace(p) ==
    /\ at[p] = "replace"
    /\ \/ TmpToDest(p) /\ Goes(p, "discard")
       \/ NothingMoves /\ Goes(p, "restore")

Restore(p) ==
    /\ at[p] = "restore" /\ UNCHANGED tmp /\ Goes(p, "cleanup")
    /\ \/ dest' = backup[p] /\ backup' = [backup EXCEPT ![p] = NoFile]
       \/ UNCHANGED <<dest, backup>>

(* Mutant of Discard: the result of remove(backup) is dropped. *)
DiscardLeniently(p) ==
    /\ at[p] = "discard" /\ UNCHANGED <<dest, tmp>>
    /\ Goes(p, "placed")
    /\ backup' = [backup EXCEPT ![p] = NoFile] \/ UNCHANGED backup

(* return remove(backup) *)
Discard(p) ==
    /\ at[p] = "discard" /\ UNCHANGED <<dest, tmp>>
    /\ \/ backup' = [backup EXCEPT ![p] = NoFile] /\ Goes(p, "placed")
       \/ UNCHANGED backup /\ Goes(p, "cleanup")

(* os.Remove(tmpName), its result ignored. *)
Cleanup(p) ==
    /\ at[p] = "cleanup" /\ Goes(p, "failed")
    /\ tmp' = [tmp EXCEPT ![p] = NoFile] \/ UNCHANGED tmp
    /\ UNCHANGED <<dest, backup>>

Dies(p) == at[p] \notin Ended /\ Goes(p, "dead") /\ NothingMoves

Next ==
    \E p \in Placers :
        \/ Look(p) \/ CreateTemp(p) \/ Copy(p) \/ Chmod(p) \/ Close(p) \/ Rename(p)
        \/ Stat(p) \/ SetAside(p) \/ Replace(p) \/ Restore(p) \/ Discard(p)
        \/ Cleanup(p) \/ Dies(p)

Spec == Init /\ [][Next]_vars

-----------------------------------------------------------------------------
Whole(file) == file # NoFile => file \in Files /\ file.state = "executable"

(* Types; a copy is finished before it is renamed, and what was set aside *)
(* is there until the outcome of the second rename is known.              *)
TypeOK ==
    /\ dest \in Files \cup {NoFile}
    /\ tmp \in [Placers -> Files \cup {NoFile}]
    /\ backup \in [Placers -> Files \cup {NoFile}]
    /\ at \in [Placers -> Steps \cup Ended]
    /\ \A p \in Placers :
          /\ at[p] \in {"close", "rename", "stat", "setAside", "replace", "restore"}
                => tmp[p] = File(p, "executable")
          /\ at[p] \in {"replace", "restore", "discard"} => backup[p] # NoFile
          /\ at[p] \in {"look", "create", "copy", "mode", "close", "rename", "stat", "setAside"}
                => backup[p] = NoFile
          /\ at[p] \in {"look", "create", "discard"} => tmp[p] = NoFile

(* What is installed, or set aside, is a complete executable, whoever     *)
(* failed or died while copying.                                          *)
InstalledIsWhole == Whole(dest) /\ \A p \in Placers : Whole(backup[p])

(* Once there was an installed executable, the directory keeps one: at its *)
(* name, or set aside by a placer that failed or died half way.            *)
ExecutableKept ==
    [][dest # NoFile \/ (\E p \in Placers : backup[p] # NoFile)
        => dest' # NoFile \/ \E p \in Placers : backup'[p] # NoFile]_vars

(* A placer that reports success leaves no copy and no backup behind. *)
SuccessLeavesNothing ==
    \A p \in Placers : at[p] = "placed" => tmp[p] = NoFile /\ backup[p] = NoFile

Alone(p) == \A q \in Placers \ {p} : at[q] = "look"

(* What a placer that ran alone reports is what it did: success with its   *)
(* own build installed (or run from there), failure with the earlier one   *)
(* left or put back, unless a file it set aside is still aside.            *)
OutcomeIsTrue ==
    \A p \in Placers : Alone(p) =>
        /\ at[p] = "placed" => dest # NoFile /\ dest.build = (IF p \in Installed THEN Earlier ELSE p)
        /\ at[p] = "failed" /\ backup[p] = NoFile
               => dest \in {NoFile, File(Earlier, "executable")}

(* The inductive invariant behind it, step by step of a placer that runs    *)
(* alone: until it sets the earlier file aside that file is where it was,    *)
(* and it knows where it put it until it reports.                           *)
Unreplaced == {"look", "create", "copy", "mode", "close", "rename", "stat", "setAside"}

KnowsItsOutcome(p) ==
    /\ p \in Installed => at[p] \in {"look", "placed", "failed", "dead"}
    /\ at[p] \in Unreplaced => dest \in {NoFile, File(Earlier, "executable")}
    /\ at[p] \in {"cleanup", "failed"} /\ backup[p] = NoFile
           => dest \in {NoFile, File(Earlier, "executable")}
    /\ at[p] \in {"replace", "restore"} => backup[p] = File(Earlier, "executable")
    /\ at[p] = "discard" => dest = File(p, "executable")
    /\ at[p] = "placed"
           => dest = File(IF p \in Installed THEN Earlier ELSE p, "executable")

LonePlacerKnows == \A p \in Placers : Alone(p) => KnowsItsOutcome(p)

(* A placer about to discard its backup may find dest set aside again; then *)
(* somebody who is not about to discard holds what was there.               *)
DiscardIsSafe ==
    (\E p \in Placers : at[p] = "discard") /\ dest = NoFile
        => \E q \in Placers : at[q] # "discard" /\ backup[q] # NoFile

(* The inductive invariant: what is installed or set aside is whole, a     *)
(* success leaves nothing behind, and no placer discards the only          *)
(* executable, whoever else places, fails or dies (place.go).              *)
PlacementInv == TypeOK /\ InstalledIsWhole /\ SuccessLeavesNothing /\ DiscardIsSafe

=============================================================================
