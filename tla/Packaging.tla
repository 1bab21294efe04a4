----------------------------- MODULE Packaging -----------------------------
(***************************************************************************)
(* make package and make dist (internal/release/package.go,                 *)
(* cmd/package/main.go): a directory of four files and an archive of it,    *)
(* written again and again, from one build or another.  A run may fail at   *)
(* any operation, or be killed; the next one starts from what it left.      *)
(*                                                                         *)
(* A file holds what one build put there, in part or in whole.  The         *)
(* checksums hold a digest of each payload file, which is what was read.    *)
(***************************************************************************)
EXTENDS Naturals, Sequences

CONSTANTS
    Builds,     \* a manifest version with its binary
    NoFile

Payload == {"manifest", "binary", "database"}
Contents == [build : Builds, whole : BOOLEAN]
Digests == [Payload -> Contents]
SumsFiles == [digests : Digests, whole : BOOLEAN]
Archives == [file : [Payload -> Contents \cup {NoFile}], sums : SumsFiles \cup {NoFile},
             whole : BOOLEAN]

VARIABLES
    file,      \* the payload files of the output directory
    sums,      \* its checksums.txt
    journal,   \* is there a firstmate.db-journal?
    archive,   \* the .tar.gz
    run        \* the run: its build, next operation, names it will remove, is there an archive to write

vars == <<file, sums, journal, archive, run>>

Part(b) == [build |-> b, whole |-> FALSE]
Whole(b) == [build |-> b, whole |-> TRUE]

Steps == {"list", "clear", "manifest", "binary", "database", "sums", "archive"}
Ends == {"done", "refused", "failed", "killed"}
Names == Payload \cup {"checksums"}

Init ==
    /\ file = [n \in Payload |-> NoFile]
    /\ sums = NoFile
    /\ journal = FALSE
    /\ archive = NoFile
    /\ run \in [build : Builds, at : {"list"}, begun : {FALSE}, remove : {{}}, archives : BOOLEAN]

-----------------------------------------------------------------------------
At(step, begun) == run.at = step /\ run.begun = begun

(* An operation is begun, then finished; what it writes is there in part *)
(* in between.                                                           *)
Begins == run' = [run EXCEPT !.begun = TRUE]
Goes(step) == run' = [run EXCEPT !.at = step, !.begun = FALSE]

Start ==
    /\ run.at \in Ends
    /\ \E b \in Builds, a \in BOOLEAN :
          run' = [build |-> b, at |-> "list", begun |-> FALSE, remove |-> {}, archives |-> a]
    /\ UNCHANGED <<file, sums, journal, archive>>

Present == {n \in Payload : file[n] # NoFile} \cup (IF sums # NoFile THEN {"checksums"} ELSE {})

(* Mutant of List: only the names that are expected are looked at. *)
ListUnchecked ==
    /\ At("list", FALSE)
    /\ run' = [run EXCEPT !.at = "clear", !.remove = Present]
    /\ UNCHANGED <<file, sums, journal, archive>>

(* prepareOutput: any entry it does not manage is refused before the first *)
(* one is removed.                                                         *)
List ==
    /\ At("list", FALSE)
    /\ run' = IF journal THEN [run EXCEPT !.at = "refused"]
              ELSE [run EXCEPT !.at = "clear", !.remove = Present]
    /\ UNCHANGED <<file, sums, journal, archive>>

(* Mutant of ReadDirOrder: as the comment of Package names them. *)
ReadDirOrderOfComment == <<"manifest", "database", "binary", "checksums">>

(* os.ReadDir sorts by filename: checksums.txt, firstmate.db, plugin.json, *)
(* roca-firstmate.                                                         *)
ReadDirOrder == <<"checksums", "database", "manifest", "binary">>

First(names) ==
    ReadDirOrder[CHOOSE i \in DOMAIN ReadDirOrder :
        ReadDirOrder[i] \in names /\ \A j \in 1 .. i - 1 : ReadDirOrder[j] \notin names]

Clear ==
    /\ At("clear", FALSE)
    /\ IF run.remove = {}
       THEN Goes("manifest") /\ UNCHANGED <<file, sums>>
       ELSE LET n == First(run.remove) IN
            /\ run' = [run EXCEPT !.remove = @ \ {n}]
            /\ file' = [m \in Payload |-> IF m = n THEN NoFile ELSE file[m]]
            /\ sums' = IF n = "checksums" THEN NoFile ELSE sums
    /\ UNCHANGED <<journal, archive>>

(* os.WriteFile of the manifest, copyFile of the binary: the mode of either *)
(* is set before it is whole.                                               *)
Write(name, next) ==
    /\ \/ At(name, FALSE) /\ file' = [file EXCEPT ![name] = Part(run.build)] /\ Begins
       \/ At(name, TRUE) /\ file' = [file EXCEPT ![name] = Whole(run.build)] /\ Goes(next)
    /\ UNCHANGED <<sums, journal, archive>>

(* writeEmptyDatabase: each transaction of schema.Ensure keeps a rollback   *)
(* journal beside the file, since this connection does not ask for WAL.     *)
WriteDatabase ==
    /\ \/ /\ At("database", FALSE) /\ Begins
          /\ file' = [file EXCEPT !["database"] = Part(run.build)] /\ journal' \in BOOLEAN
       \/ /\ At("database", TRUE) /\ Goes("sums")
          /\ file' = [file EXCEPT !["database"] = Whole(run.build)] /\ journal' = FALSE
    /\ UNCHANGED <<sums, archive>>

AfterSums == IF run.archives THEN "archive" ELSE "done"

(* writeChecksums: the digest of each payload file, then checksums.txt. *)
WriteSums ==
    /\ \/ /\ At("sums", FALSE) /\ Begins /\ sums' = [digests |-> file, whole |-> FALSE]
       \/ /\ At("sums", TRUE) /\ Goes(AfterSums) /\ sums' = [digests |-> file, whole |-> TRUE]
    /\ UNCHANGED <<file, journal, archive>>

(* Archive: the file is created, which empties it, and filled in place. *)
WriteArchive ==
    /\ \/ At("archive", FALSE) /\ Begins
          /\ archive' = [file |-> file, sums |-> sums, whole |-> FALSE]
       \/ At("archive", TRUE) /\ Goes("done")
          /\ archive' = [file |-> file, sums |-> sums, whole |-> TRUE]
    /\ UNCHANGED <<file, sums, journal>>

-----------------------------------------------------------------------------
(* Mutant of Fail: main goes on after an error of Package. *)
FailUnchecked ==
    /\ run.at \in Steps \ {"archive"} /\ Goes(AfterSums)
    /\ journal' = (journal /\ run.at # "database")
    /\ UNCHANGED <<file, sums, archive>>

(* An error of any operation ends the run, and so does the failing of what  *)
(* was begun.  schema.Ensure rolls back, so that the journal goes.          *)
Fail ==
    /\ run.at \in Steps /\ Goes("failed")
    /\ journal' = (journal /\ run.at # "database")
    /\ UNCHANGED <<file, sums, archive>>

(* The process is killed. *)
Killed ==
    /\ run.at \in Steps /\ Goes("killed")
    /\ UNCHANGED <<file, sums, journal, archive>>

Next ==
    \/ Start \/ List \/ Clear
    \/ Write("manifest", "binary") \/ Write("binary", "database")
    \/ WriteDatabase \/ WriteSums \/ WriteArchive
    \/ Fail \/ Killed

Spec == Init /\ [][Next]_vars

-----------------------------------------------------------------------------
(* Types; a journal outlives only a run that was killed while it wrote the *)
(* database.                                                               *)
TypeOK ==
    /\ file \in [Payload -> Contents \cup {NoFile}]
    /\ sums \in SumsFiles \cup {NoFile}
    /\ archive \in Archives \cup {NoFile}
    /\ journal \in BOOLEAN
    /\ run \in [build : Builds, at : Steps \cup Ends, begun : BOOLEAN,
                remove : SUBSET Names, archives : BOOLEAN]
    /\ journal => run.at \in {"database", "list", "refused", "failed", "killed"}

OfOneBuild(files, b) == files = [n \in Payload |-> Whole(b)]

(* checksums.txt, when it is whole, is true of the files beside it, at any *)
(* point of any run and after any failure: a directory left half written   *)
(* cannot be installed.                                                    *)
ChecksumsTrue ==
    sums # NoFile /\ sums.whole => \E b \in Builds : OfOneBuild(file, b) /\ sums.digests = file

(* A whole archive is one build with its checksums, never a mixture of what *)
(* several runs left.                                                       *)
ArchiveIsOneBuild ==
    archive # NoFile /\ archive.whole
        => /\ archive.sums # NoFile /\ archive.sums.whole
           /\ archive.sums.digests = archive.file
           /\ \E b \in Builds : OfOneBuild(archive.file, b)

(* A run that ends well has written its own build, all of it. *)
DoneIsComplete ==
    run.at = "done" =>
        /\ OfOneBuild(file, run.build)
        /\ sums # NoFile /\ sums.whole
        /\ run.archives => archive # NoFile /\ archive.whole /\ archive.file = file

(* While the directory holds a file the packager did not put there (the     *)
(* journal a killed run left), no run removes or writes anything.           *)
RefusedUntouched ==
    [][journal /\ run.at # "database"
        => UNCHANGED <<file, sums, journal, archive>>]_vars

=============================================================================
