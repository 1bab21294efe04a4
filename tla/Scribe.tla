------------------------------- MODULE Scribe -------------------------------
(***************************************************************************)
(* Mirroring the Markdown files of one home into versioned rows.            *)
(*                                                                         *)
(* Several ingesters work on one database: the verbs (scribe, attach,       *)
(* chart, follow, tick) sweep once without a fence; a resident watcher      *)
(* ingests under the watch seat and every commit of its is fenced.  An      *)
(* ingest is not atomic: fingerprint, cursor check, read and commit are     *)
(* separate steps, and the file may be rewritten between any two.           *)
(*                                                                         *)
(* A file is known by its revision, a number that grows with each rewrite;  *)
(* ContentOf gives the bytes.  The program never sees a revision: it        *)
(* compares contents (content_sha256) and fingerprints.  The fingerprint    *)
(* comes from a library; the tests of scribe (scribe_test.go:124-177)       *)
(* rewrite a file with equal size and times and expect it to be noticed,    *)
(* so it is taken to identify the content.                                  *)
(***************************************************************************)
EXTENDS Naturals

CONSTANTS
    Files,      \* Markdown paths below data/
    Verbs,      \* ingesters without a commit fence
    Watchers,   \* ingesters fenced by the watch seat
    Nobody,     \* no watcher owns the seat
    MaxRev,     \* bound on the rewrites of a file
    ContentOf,  \* the bytes of each revision
    Absent      \* the "bytes" of a revision in which the file is missing

Ingesters == Verbs \cup Watchers

Revs == 0 .. MaxRev

ASSUME IngesterAssumption == Verbs \cap Watchers = {} /\ Nobody \notin Watchers
ASSUME FilesAssumption == Files # {}
ASSUME MaxRevAssumption == MaxRev \in Nat
ASSUME ContentAssumption == ContentOf[0] = Absent

VARIABLES
    file,     \* the revision each file is at
    version,  \* the highest version row of each file, 0 for none
    current,  \* the revision whose bytes the is_current row holds
    cursor,   \* ingest_file_state: the revision that was fingerprinted
    owner,    \* the watcher whose token the seat carries
    mem,      \* Ingester.state: the cursor each ingester remembers
    todo,     \* the files each ingester has still to visit
    pc,       \* where each ingester is in IngestPath
    doc,      \* the file it is at
    fp,       \* the revision it fingerprinted
    body      \* the revision it read

vars == <<file, version, current, cursor, owner, mem, todo, pc, doc, fp, body>>
database == <<version, current, cursor>>
locals == <<mem, todo, pc, doc, fp, body>>

TypeOK ==
    /\ file \in [Files -> Revs]
    /\ version \in [Files -> Nat]
    /\ current \in [Files -> Revs]
    /\ cursor \in [Files -> Revs]
    /\ owner \in Watchers \cup {Nobody}
    /\ mem \in [Ingesters -> [Files -> Revs]]
    /\ todo \in [Ingesters -> SUBSET Files]
    /\ pc \in [Ingesters -> {"idle", "check", "read", "commit"}]
    /\ doc \in [Ingesters -> Files]
    /\ fp \in [Ingesters -> Revs]
    /\ body \in [Ingesters -> Revs]

Init ==
    /\ file = [f \in Files |-> 0]
    /\ version = [f \in Files |-> 0]
    /\ current = [f \in Files |-> 0]
    /\ cursor = [f \in Files |-> 0]
    /\ owner = Nobody
    /\ mem = [i \in Ingesters |-> cursor]
    /\ todo = [i \in Ingesters |-> {}]
    /\ pc = [i \in Ingesters |-> "idle"]
    /\ doc \in [Ingesters -> {CHOOSE f \in Files : TRUE}]
    /\ fp = [i \in Ingesters |-> 0]
    /\ body = [i \in Ingesters |-> 0]

(***************************************************************************)
(* Equal fingerprints, equal hashes: revision 0 stands for no cursor, which *)
(* equals nothing.                                                          *)
(***************************************************************************)
SameBytes(r, q) == r # 0 /\ q # 0 /\ ContentOf[r] = ContentOf[q]

Present(f) == ContentOf[file[f]] # Absent

Goto(i, label) == pc' = [pc EXCEPT ![i] = label]

(***************************************************************************)
(* The home's agents rewrite, remove or restore a file.                     *)
(***************************************************************************)
Rewrite(f) ==
    /\ file[f] < MaxRev
    /\ file' = [file EXCEPT ![f] = @ + 1]
    /\ UNCHANGED <<database, owner, locals>>

(***************************************************************************)
(* scribe.New loads the cursor and Backfill walks every file.               *)
(***************************************************************************)
Sweep(i) ==
    /\ mem' = [mem EXCEPT ![i] = cursor]
    /\ todo' = [todo EXCEPT ![i] = Files]
    /\ Goto(i, "idle")
    /\ UNCHANGED <<file, database, doc, fp, body>>

StartVerb(i) ==
    /\ i \in Verbs /\ pc[i] = "idle" /\ todo[i] = {}
    /\ Sweep(i)
    /\ UNCHANGED owner

(***************************************************************************)
(* A watcher gets the seat (TryAcquireSeat) and activates: a new ingester   *)
(* and a backfill.  Work of its earlier terms is gone, since standing down  *)
(* canceled the lease context it ran under; work of the previous owner is   *)
(* not, and meets the fence.                                                *)
(***************************************************************************)
TakeSeat(i) ==
    /\ i \in Watchers
    /\ owner' = i
    /\ Sweep(i)

(***************************************************************************)
(* A file event for the watcher that owns the seat (ingestWatchPath).       *)
(***************************************************************************)
Event(i, f) ==
    /\ owner = i /\ pc[i] = "idle"
    /\ todo' = [todo EXCEPT ![i] = @ \cup {f}]
    /\ UNCHANGED <<file, database, owner, mem, pc, doc, fp, body>>

(***************************************************************************)
(* IngestPath: os.Stat and TargetFingerprint.  A missing file is skipped.   *)
(***************************************************************************)
Skip(i, f) ==
    /\ pc[i] = "idle" /\ f \in todo[i] /\ ~Present(f)
    /\ todo' = [todo EXCEPT ![i] = @ \ {f}]
    /\ UNCHANGED <<file, database, owner, mem, pc, doc, fp, body>>

Fingerprint(i, f) ==
    /\ pc[i] = "idle" /\ f \in todo[i] /\ Present(f)
    /\ todo' = [todo EXCEPT ![i] = @ \ {f}]
    /\ doc' = [doc EXCEPT ![i] = f]
    /\ fp' = [fp EXCEPT ![i] = file[f]]
    /\ Goto(i, IF SameBytes(mem[i][f], file[f]) THEN "check" ELSE "read")
    /\ UNCHANGED <<file, database, owner, mem, body>>

(***************************************************************************)
(* persistedUnchanged: what memory calls unchanged is checked against the   *)
(* cursor in the database, and memory takes the database's value.           *)
(***************************************************************************)
CheckCursor(i) ==
    /\ pc[i] = "check"
    /\ mem' = [mem EXCEPT ![i][doc[i]] = cursor[doc[i]]]
    /\ Goto(i, IF SameBytes(cursor[doc[i]], fp[i]) THEN "idle" ELSE "read")
    /\ UNCHANGED <<file, database, owner, todo, doc, fp, body>>

ReadFile(i) ==
    /\ pc[i] = "read" /\ Present(doc[i])
    /\ body' = [body EXCEPT ![i] = file[doc[i]]]
    /\ Goto(i, "commit")
    /\ UNCHANGED <<file, database, owner, mem, todo, doc, fp>>

(***************************************************************************)
(* fenceCommit: only a watcher has a fence, and it must own the seat.       *)
(***************************************************************************)
PassesFence(i) == i \in Watchers => owner = i

(* Mutant of Commit: the cursor gets the fingerprint the file has at the end. *)
CommitLateCursor(i) ==
    /\ pc[i] = "commit" /\ PassesFence(i)
    /\ LET f == doc[i]
           same == SameBytes(current[f], body[i])
       IN  /\ version' = [version EXCEPT ![f] = IF same THEN @ ELSE @ + 1]
           /\ current' = [current EXCEPT ![f] = IF same THEN @ ELSE body[i]]
           /\ cursor' = [cursor EXCEPT ![f] = file[f]]
           /\ mem' = [mem EXCEPT ![i][f] = file[f]]
    /\ Goto(i, "idle")
    /\ UNCHANGED <<file, owner, todo, doc, fp, body>>

(* Mutant of Commit: the cursor is written although the fence refuses the rows. *)
CommitCursorUnfenced(i) ==
    /\ pc[i] = "commit"
    /\ LET f == doc[i]
           kept == ~PassesFence(i) \/ SameBytes(current[f], body[i])
       IN  /\ version' = [version EXCEPT ![f] = IF kept THEN @ ELSE @ + 1]
           /\ current' = [current EXCEPT ![f] = IF kept THEN @ ELSE body[i]]
           /\ cursor' = [cursor EXCEPT ![f] = fp[i]]
           /\ mem' = [mem EXCEPT ![i][f] = fp[i]]
    /\ Goto(i, "idle")
    /\ UNCHANGED <<file, owner, todo, doc, fp, body>>

(* Mutant of Commit: "unchanged" is decided by memory, before the transaction. *)
CommitByMemory(i) ==
    /\ pc[i] = "commit" /\ PassesFence(i)
    /\ LET f == doc[i]
           same == SameBytes(mem[i][f], body[i])
       IN  /\ version' = [version EXCEPT ![f] = IF same THEN @ ELSE @ + 1]
           /\ current' = [current EXCEPT ![f] = IF same THEN @ ELSE body[i]]
           /\ cursor' = [cursor EXCEPT ![f] = fp[i]]
           /\ mem' = [mem EXCEPT ![i][f] = fp[i]]
    /\ Goto(i, "idle")
    /\ UNCHANGED <<file, owner, todo, doc, fp, body>>

(***************************************************************************)
(* The ingest transaction.  Equal hashes only advance the cursor; otherwise *)
(* the current row is retired and the next version inserted (a trigger adds *)
(* its wakeup).                                                             *)
(***************************************************************************)
Commit(i) ==
    /\ pc[i] = "commit" /\ PassesFence(i)
    /\ LET f == doc[i]
           same == SameBytes(current[f], body[i])
       IN  /\ version' = [version EXCEPT ![f] = IF same THEN @ ELSE @ + 1]
           /\ current' = [current EXCEPT ![f] = IF same THEN @ ELSE body[i]]
           /\ cursor' = [cursor EXCEPT ![f] = fp[i]]
           /\ mem' = [mem EXCEPT ![i][f] = fp[i]]
    /\ Goto(i, "idle")
    /\ UNCHANGED <<file, owner, todo, doc, fp, body>>

(* Mutant of Abort: the ingester is left in the middle of its ingest. *)
AbortHangs(i) ==
    /\ pc[i] # "idle" \/ todo[i] # {}
    /\ todo' = [todo EXCEPT ![i] = {}]
    /\ Goto(i, "failed")
    /\ owner' = IF owner = i THEN Nobody ELSE owner
    /\ UNCHANGED <<file, database, mem, doc, fp, body>>

(***************************************************************************)
(* Any error ends the verb, or the watcher's term: the transaction is       *)
(* rolled back and the rest of the walk is not done.  A refused fence and a *)
(* canceled context are such errors.                                        *)
(***************************************************************************)
Abort(i) ==
    /\ pc[i] # "idle" \/ todo[i] # {}
    /\ todo' = [todo EXCEPT ![i] = {}]
    /\ Goto(i, "idle")
    /\ owner' = IF owner = i THEN Nobody ELSE owner
    /\ UNCHANGED <<file, database, mem, doc, fp, body>>

Step(i) ==
    \/ \E f \in Files : Event(i, f) \/ Skip(i, f) \/ Fingerprint(i, f)
    \/ StartVerb(i)
    \/ TakeSeat(i)
    \/ CheckCursor(i)
    \/ ReadFile(i)
    \/ Commit(i)
    \/ Abort(i)

Next == (\E f \in Files : Rewrite(f)) \/ (\E i \in Ingesters : Step(i))

Spec == Init /\ [][Next]_vars

-----------------------------------------------------------------------------
(***************************************************************************)
(* The file whose fingerprint the cursor holds was read no earlier than it  *)
(* was fingerprinted: the current row holds bytes the file had at or after  *)
(* the moment of the cursor.  This is why IngestPath fingerprints first.    *)
(***************************************************************************)
MirrorWithinCursor ==
    \A f \in Files : cursor[f] # 0 =>
        \E r \in cursor[f] .. file[f] : SameBytes(r, current[f])

(***************************************************************************)
(* What an ingest in flight holds: it reads the file after it fingerprinted *)
(* it, and neither is newer than the file.                                  *)
(***************************************************************************)
InFlight ==
    \A i \in Ingesters :
        /\ pc[i] # "idle" => fp[i] # 0 /\ fp[i] <= file[doc[i]]
        /\ pc[i] = "commit" => /\ fp[i] <= body[i] /\ body[i] <= file[doc[i]]
                               /\ body[i] # 0

(***************************************************************************)
(* The inductive invariant: within the types, what an ingest holds and what *)
(* the mirror holds are states the file had since its fingerprint, however  *)
(* ingests and rewrites interleave (IngestPath).                            *)
(***************************************************************************)
MirrorInv == TypeOK /\ InFlight /\ MirrorWithinCursor

(***************************************************************************)
(* A sweep that skips a file because its fingerprint is unchanged is right  *)
(* to do so: the current row holds the bytes of the file.                   *)
(***************************************************************************)
UnchangedMeansMirrored ==
    \A f \in Files : SameBytes(cursor[f], file[f]) => SameBytes(current[f], file[f])

(***************************************************************************)
(* A new version differs from the one it retires, whoever wrote that: an    *)
(* unchanged file makes neither a duplicate version nor a wakeup            *)
(* (README.md:164).                                                         *)
(***************************************************************************)
NoDuplicateVersion ==
    [][\A f \in Files : version'[f] # version[f] => ~SameBytes(current[f], current'[f])]_vars

(***************************************************************************)
(* The row marked current is never replaced by an earlier state of the      *)
(* file: "is_current = 1 on the latest file" (README.md:141).               *)
(***************************************************************************)
CurrentNeverRegresses ==
    [][\A f \in Files : current[f] <= current'[f]]_vars
=============================================================================
