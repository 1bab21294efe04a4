------------------------------- MODULE Sweep --------------------------------
(***************************************************************************)
(* One total scan of data/ (Backfill) while the home's agents create,       *)
(* rewrite and remove files and directories under it.                       *)
(*                                                                         *)
(* Scribe takes the list of files as given and looks at several ingesters.  *)
(* Here one ingester walks: a directory is listed when the walk comes to    *)
(* it, an entry is looked at again when its turn comes, and between any two *)
(* of these steps the entry may be gone.  Siblings are visited in any       *)
(* order, where the program visits them in lexical order.                   *)
(*                                                                         *)
(* A file is its revision, as in Scribe: a number that grows with each      *)
(* rewrite and that no two states of the file share.                        *)
(***************************************************************************)
EXTENDS Naturals, Sequences

CONSTANTS
    Root,       \* data/
    Dirs,       \* the directories that may exist below data/
    Docs,       \* the Markdown entries that are regular files
    Specials,   \* the Markdown entries that are not (links, pipes)
    Others,     \* the entries without the extension .md
    Parent,     \* the directory of every entry
    MaxRev      \* bound on the rewrites of a file

Leaves == Docs \cup Specials \cup Others
Entries == Dirs \cup Leaves
Revs == 0 .. MaxRev

VARIABLES
    tree,    \* the entries that exist
    rev,     \* the revision each document is at, or was at when removed
    mirror,  \* the revision the is_current row of each document holds, 0 for none
    cursor,  \* the revision of its ingest_file_state row
    pc,      \* where the scan is
    agenda,  \* per open directory, the listed entries it has still to visit
    doc,     \* the document it is at
    fp,      \* the revision it fingerprinted
    body,    \* the revision it read
    calm     \* documents that exist since the scan began and were not touched

vars == <<tree, rev, mirror, cursor, pc, agenda, doc, fp, body, calm>>
files == <<tree, rev, calm>>
database == <<mirror, cursor>>
locals == <<agenda, doc, fp, body>>

Ended == {"done", "failed", "stopped"}

TypeOK ==
    /\ tree \subseteq Entries
    /\ \A e \in tree : Parent[e] \in tree \cup {Root}
    /\ rev \in [Docs -> Revs]
    /\ mirror \in [Docs -> Revs]
    /\ cursor \in [Docs -> Revs]
    /\ pc \in Ended \cup {"walk", "stat", "fingerprint", "read", "commit"}
    /\ agenda \in Seq(SUBSET Entries)
    /\ doc \in Docs
    /\ fp \in Revs /\ body \in Revs
    /\ calm \subseteq Docs \cap tree

Listing(d) == {e \in tree : Parent[e] = d}

Init ==
    /\ tree \in {t \in SUBSET Entries : \A e \in t : Parent[e] \in t \cup {Root}}
    /\ rev = [f \in Docs |-> IF f \in tree THEN 1 ELSE 0]
    /\ mirror = [f \in Docs |-> 0]
    /\ cursor = [f \in Docs |-> 0]
    /\ pc = "stopped"
    /\ agenda = <<>>
    /\ doc = CHOOSE f \in Docs : TRUE
    /\ fp = 0 /\ body = 0
    /\ calm = {}

-----------------------------------------------------------------------------
(***************************************************************************)
(* The home's agents.  A rename is a removal and a creation.                *)
(***************************************************************************)
Write(f) ==
    /\ Parent[f] \in tree \cup {Root} /\ rev[f] < MaxRev
    /\ tree' = tree \cup {f}
    /\ rev' = [rev EXCEPT ![f] = @ + 1]
    /\ calm' = calm \ {f}

Make(e) ==
    /\ e \notin Docs \cup tree /\ Parent[e] \in tree \cup {Root}
    /\ tree' = tree \cup {e}
    /\ UNCHANGED <<rev, calm>>

Remove(e) ==
    /\ e \in tree /\ Listing(e) = {}
    /\ tree' = tree \ {e}
    /\ calm' = calm \ {e}
    /\ UNCHANGED rev

Agents ==
    /\ \E e \in Entries : (e \in Docs /\ Write(e)) \/ Make(e) \/ Remove(e)
    /\ UNCHANGED <<database, pc, locals>>

-----------------------------------------------------------------------------
(* Backfill starts at data/, which is a directory and no link to one. *)
Begin ==
    /\ pc \in Ended
    /\ pc' = "walk"
    /\ agenda' = <<Listing(Root)>>
    /\ calm' = Docs \cap tree
    /\ UNCHANGED <<tree, rev, database, doc, fp, body>>

(* Mutant of Fail: what vanished is answered with fs.SkipDir, to be harmless. *)
FailBySkipping ==
    /\ pc' = "walk"
    /\ agenda' = SubSeq(agenda, 1, Len(agenda) - 1)
    /\ UNCHANGED <<files, database, doc, fp, body>>

(***************************************************************************)
(* Any error of the callback ends the walk, and Backfill with it.           *)
(***************************************************************************)
Fail ==
    /\ pc' = "failed"
    /\ agenda' = <<>>
    /\ UNCHANGED <<files, database, doc, fp, body>>

Top == agenda[Len(agenda)]
Listed(e) == pc = "walk" /\ agenda # <<>> /\ e \in Top
Visited(e) == [agenda EXCEPT ![Len(agenda)] = @ \ {e}]

(***************************************************************************)
(* A directory: the callback returns nil, then WalkDir lists it.  One that  *)
(* is gone by then calls back with the error.                               *)
(***************************************************************************)
VisitDir(d) ==
    /\ d \in Dirs /\ Listed(d)
    /\ IF d \in tree
       THEN /\ agenda' = Append(Visited(d), Listing(d))
            /\ UNCHANGED <<files, database, pc, doc, fp, body>>
       ELSE Fail

VisitOther(e) ==
    /\ e \in Others /\ Listed(e)
    /\ agenda' = Visited(e)
    /\ UNCHANGED <<files, database, pc, doc, fp, body>>

(***************************************************************************)
(* A Markdown entry: entry.Info fails when it is gone, and only a regular   *)
(* file goes on to IngestPath.                                              *)
(***************************************************************************)
VisitMarkdown(e) ==
    /\ e \in Docs \cup Specials /\ Listed(e)
    /\ IF e \notin tree THEN Fail
       ELSE /\ agenda' = Visited(e)
            /\ IF e \in Docs THEN doc' = e /\ pc' = "stat" ELSE UNCHANGED <<doc, pc>>
            /\ UNCHANGED <<files, database, fp, body>>

LeaveDir ==
    /\ pc = "walk"
    /\ IF agenda = <<>>
       THEN pc' = "done" /\ UNCHANGED agenda
       ELSE /\ Top = {}
            /\ agenda' = SubSeq(agenda, 1, Len(agenda) - 1)
            /\ UNCHANGED pc
    /\ UNCHANGED <<files, database, doc, fp, body>>

(***************************************************************************)
(* IngestPath.  os.Stat lets a vanished file pass as unchanged; the steps   *)
(* after it do not.  Whether the fingerprint of a missing file is an error  *)
(* is up to the library: if it is none, it is that of no revision, and      *)
(* reading the file fails, unless the file is back.                         *)
(***************************************************************************)
Stat ==
    /\ pc = "stat"
    /\ pc' = IF doc \in tree THEN "fingerprint" ELSE "walk"
    /\ UNCHANGED <<files, database, locals>>

Fingerprint ==
    /\ pc = "fingerprint"
    /\ \/ /\ doc \in tree
          /\ fp' = rev[doc]
          /\ pc' = IF cursor[doc] = rev[doc] THEN "walk" ELSE "read"
          /\ UNCHANGED <<files, database, agenda, doc, body>>
       \/ /\ doc \notin tree
          /\ fp' = 0
          /\ pc' = "read"
          /\ UNCHANGED <<files, database, agenda, doc, body>>
       \/ doc \notin tree /\ Fail

Read ==
    /\ pc = "read"
    /\ IF doc \in tree
       THEN /\ body' = rev[doc]
            /\ pc' = "commit"
            /\ UNCHANGED <<files, database, agenda, doc, fp>>
       ELSE Fail

(* Mutant of Commit: the cursor gets the fingerprint the file has at the end. *)
CommitLateCursor ==
    /\ pc = "commit"
    /\ mirror' = [mirror EXCEPT ![doc] = body]
    /\ cursor' = [cursor EXCEPT ![doc] = rev[doc]]
    /\ pc' = "walk"
    /\ UNCHANGED <<files, locals>>

Commit ==
    /\ pc = "commit"
    /\ mirror' = [mirror EXCEPT ![doc] = body]
    /\ cursor' = [cursor EXCEPT ![doc] = fp]
    /\ pc' = "walk"
    /\ UNCHANGED <<files, locals>>

(***************************************************************************)
(* A canceled context or a failing database: the transaction is rolled back *)
(* and what was committed before stays.                                     *)
(***************************************************************************)
Cancel ==
    /\ pc \notin Ended
    /\ pc' = "stopped"
    /\ agenda' = <<>>
    /\ UNCHANGED <<files, database, doc, fp, body>>

Walk ==
    \/ \E e \in Entries : VisitDir(e) \/ VisitOther(e) \/ VisitMarkdown(e)
    \/ LeaveDir \/ Stat \/ Fingerprint \/ Read \/ Commit

Next == Agents \/ Begin \/ Walk \/ Cancel

Spec == Init /\ [][Next]_vars

(***************************************************************************)
(* Scans are repeated (the retries of watch, the verbs, the nightly scan)   *)
(* and run to their end; nothing obliges the agents or a cancellation.      *)
(***************************************************************************)
FairSpec == Spec /\ WF_vars(Begin) /\ WF_vars(Walk)

-----------------------------------------------------------------------------
(***************************************************************************)
(* A scan that reports success has mirrored every regular Markdown file     *)
(* that was there all the time, whatever vanished or appeared around it     *)
(* ("Backfill mirrors every regular Markdown file below data/",             *)
(* scribe.go:225).                                                          *)
(***************************************************************************)
SweepIsTotal == pc = "done" => \A f \in calm : mirror[f] = rev[f]

(***************************************************************************)
(* Once the agents rest, the mirror comes to hold every document as it is,  *)
(* however many scans their removals made fail and whatever was rewritten   *)
(* between fingerprint and read.  Agents that never rest may make every     *)
(* scan fail.                                                               *)
(***************************************************************************)
SweepsCatchUp ==
    <>[](pc # "stopped") /\ <>[][FALSE]_<<tree, rev>> =>
        <>[](\A f \in Docs \cap tree : mirror[f] = rev[f])
=============================================================================
