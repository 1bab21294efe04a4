------------------------------- MODULE MCFiles -------------------------------
(***************************************************************************)
(* What the program does to files that others change, or that it leaves     *)
(* half written: it places its executable, packages a release, opens its    *)
(* database, sweeps data/ and watches it.  The five share no file, so that  *)
(* nothing one of them does can depend on when another does it: one of them *)
(* moves in each behaviour, the others stay at a start of theirs.           *)
(*                                                                         *)
(* Two builds are placed at once beside a process that runs from the        *)
(* installed file; two builds are packaged; a watcher and a verb open each  *)
(* kind of database; data/ has a task's directory that holds a document, a  *)
(* link and a file of another kind; two documents are watched through a     *)
(* channel of one event.                                                    *)
(***************************************************************************)
EXTENDS Placement, Naturals, Sequences

CONSTANTS
    p1, p2, p3, b1, b2, w1, v1, data, task, backlog, report, link, log,
    Releases,                                              \* Packaging's Builds
    Watches, Verbs, None, Originals, MaxFaults, MaxMirrored,   \* of Database
    Root, MaxRev,                                          \* of Sweep and FileSource
    Dirs, Docs, Specials, Others, Parent,                  \* of Sweep
    Depth,                                                 \* how deep below data/ an entry lies
    Paths, Capacity, MaxEnds                               \* of FileSource

MCParent == [e \in Dirs \cup Docs \cup Specials \cup Others |-> IF e = task THEN data ELSE task]
MCDepth == [e \in Dirs \cup Docs \cup Specials \cup Others |-> IF e = task THEN 1 ELSE 2]

VARIABLES
    part,                                              \* which of the five moves
    packed, sums, journal, archive, run,               \* Packaging
    disk, lock, work, script, place, pathOk, faults,   \* Database
    tree, rev, swept, cursor, pc, agenda, doc, fp, body, calm,   \* Sweep
    file, there, mirror, kind, term, sweep, events, error,       \* FileSource
    previous, current, look, left, changed, system, batch, stream, ends

K == INSTANCE Packaging WITH file <- packed, Builds <- Releases
D == INSTANCE Database WITH at <- place
S == INSTANCE Sweep WITH mirror <- swept
F == INSTANCE FileSource

(***************************************************************************)
(* What is on disk is no "no file"; data/ is a tree, an entry of which is   *)
(* of one kind; the lock tells a process from nobody; a channel has room    *)
(* for one event.                                                           *)
(***************************************************************************)
ASSUME ReleaseAssumption ==
    NoFile \notin K!Contents /\ NoFile \notin K!SumsFiles /\ NoFile \notin K!Archives

ASSUME TreeAssumption ==
    /\ Root \notin S!Entries /\ Docs # {}
    /\ Parent \in [S!Entries -> Dirs \cup {Root}] /\ Depth \in [S!Entries -> Nat]
    /\ \A e \in S!Entries : Parent[e] # Root => Depth[Parent[e]] < Depth[e]
    /\ Docs \cap (Dirs \cup Specials \cup Others) = {} /\ Dirs \cap (Specials \cup Others) = {}

ASSUME OriginalAssumption ==
    /\ None \notin D!Procs /\ MaxFaults \in Nat
    /\ Originals \subseteq {"new", "v1", "v2", "v3", "later", "foreign", "rowless", "clash"}

ASSUME SourceAssumption ==
    Root \notin Paths /\ Capacity \in Nat \ {0} /\ MaxRev \in Nat \ {0} /\ MaxEnds \in Nat

packaging == <<packed, sums, journal, archive, run>>
database == <<disk, lock, work, script, place, pathOk, faults>>
scan == <<tree, rev, swept, cursor, pc, agenda, doc, fp, body, calm>>
source == <<file, there, mirror, kind, term, sweep, events, error,
            previous, current, look, left, changed, system, batch, stream, ends>>
all == <<part, vars, packaging, database, scan, source>>

Parts == {"place", "package", "open", "sweep", "watch"}

AllInit ==
    /\ part \in Parts
    /\ Init /\ (part # "place" => dest = NoFile)
    /\ K!Init /\ (part # "package" => run.build = b1 /\ run.archives)
    /\ D!Init /\ (part # "open" => disk = D!NoDatabase)
    /\ S!Init /\ (part # "sweep" => tree = {})
    /\ F!Init /\ (part # "watch" => there = {})

(* A step of one part leaves the others alone. *)
Places(A) == part = "place" /\ A /\ UNCHANGED <<part, packaging, database, scan, source>>
Packages(A) == part = "package" /\ A /\ UNCHANGED <<part, vars, database, scan, source>>
Opens(A) == part = "open" /\ A /\ UNCHANGED <<part, vars, packaging, scan, source>>
Sweeps(A) == part = "sweep" /\ A /\ UNCHANGED <<part, vars, packaging, database, source>>
Follows(A) == part = "watch" /\ A /\ UNCHANGED <<part, vars, packaging, database, scan>>

AllNext ==
    Places(Next) \/ Packages(K!Next) \/ Opens(D!Next) \/ Sweeps(S!Next) \/ Follows(F!Next)

(* The fairness of each part, see FairSpec in its module. *)
Fairness ==
    /\ WF_all(Opens(D!PathIsMended))
    /\ \A p \in Watches \cup Verbs :
          /\ WF_all(Opens(D!Opens(p)))
          /\ SF_all(Opens(D!BeginEnsure(p))) /\ SF_all(Opens(D!BeginMigrate(p)))
    /\ WF_all(Sweeps(S!Begin)) /\ WF_all(Sweeps(S!Walk))
    /\ WF_all(Follows(F!Polling)) /\ WF_all(Follows(F!Native)) /\ WF_all(Follows(F!Read))

AllSpec == AllInit /\ [][AllNext]_all /\ Fairness

-----------------------------------------------------------------------------
(***************************************************************************)
(* Whatever runs failed or were killed, a release is of one build:          *)
(* checksums that are whole are true of the files beside them, a whole      *)
(* archive is one build with its checksums, and a run that ends well has    *)
(* written its own build, all of it (Package, Archive).                     *)
(***************************************************************************)
ReleaseIsOneBuild ==
    K!TypeOK /\ K!ChecksumsTrue /\ K!ArchiveIsOneBuild /\ K!DoneIsComplete

(***************************************************************************)
(* Wherever a creation or a migration stopped, what is committed is a whole *)
(* version, the scripts apply to it again, only version 3 is opened, and a  *)
(* document mirrored then queues its wakeup (EnsureContext).                *)
(***************************************************************************)
DatabaseIsWhole ==
    /\ D!TypeOK /\ D!CatalogMatchesVersion /\ D!OpenIsCurrent
    /\ D!ScriptsApply /\ D!MirroredIsQueued

(***************************************************************************)
(* What is not the program's to change stays: a directory with a foreign    *)
(* entry (prepareOutput), a database of another plugin or a later version,  *)
(* and the rows of one that is migrated (MigrateContext).                   *)
(***************************************************************************)
NothingIsOverwritten ==
    K!RefusedUntouched /\ D!OthersUntouched /\ D!MigrationKeepsRows

(***************************************************************************)
(* The mirror misses no document: a scan that reports success took every    *)
(* one that rested (Backfill), and while a source works, what the mirror    *)
(* lacks is on its way to it (internal/watch, pumpWatch).                   *)
(***************************************************************************)
NothingIsMissed ==
    S!TypeOK /\ S!SweepIsTotal /\ F!TypeOK /\ F!NothingForgotten

(* A watch that is not ended opens its database in the end (resident.go). *)
WatchOpens == part = "open" => D!WatchOpens

(* Once the agents rest, scans bring the mirror up to date (Backfill). *)
SweepsCatchUp == S!SweepsCatchUp

(* The source and its reader keep the promise of ChangeSource. *)
ImplementsSource == F!ImplementsSource
=============================================================================
