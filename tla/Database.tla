------------------------------ MODULE Database ------------------------------
(***************************************************************************)
(* Opening firstmate.db (main.go, schema.go, and the retries of watch in    *)
(* resident.go).  Several processes open one file at once: each creates the *)
(* schema if there is none (a first transaction), then migrates it to       *)
(* version 3 (a second one).  The SQL scripts are sequences of statements,  *)
(* run one by one on the copy of the database that the write transaction    *)
(* sees; an error, a cancelation or a death between two statements rolls    *)
(* the copy back.  Once open, a process mirrors documents.                  *)
(*                                                                         *)
(* An object of the catalog is named by its subject and its part, so that   *)
(* <<"task_artifact", "current">> is task_artifact_current.                 *)
(***************************************************************************)
EXTENDS Naturals, Sequences

CONSTANTS
    Watches,      \* resident watchers: they try again
    Verbs,        \* attach, chart, follow, tick, scribe: they fail
    None,         \* nobody holds the write lock
    Originals,    \* the databases found on disk, by name
    MaxFaults,    \* bound on deaths, input/output errors and path changes
    MaxMirrored   \* bound on the documents mirrored after opening

Procs == Watches \cup Verbs


VARIABLES
    disk,     \* the committed database: objects, rows, owner, version
    lock,     \* the process in a write transaction
    work,     \* the database as that transaction sees it
    script,   \* the statements it still has to run
    at,       \* where each process is
    pathOk,   \* the path names a regular file, or nothing
    faults    \* counts the faults

vars == <<disk, lock, work, script, at, pathOk, faults>>

Us == "roca-firstmate"
Families == {"working_set", "archive", "task_state", "operational_doc", "task_artifact"}

-----------------------------------------------------------------------------
(***************************************************************************)
(* The catalog.  layout tells declarations of one table apart: documents    *)
(* (1: names without "..", artifacts one level deep; 2: since version 2),   *)
(* wakeups (2: no handled_generation; 3: the CHECK that binds it).          *)
(***************************************************************************)
Table(s) == <<s, "table">>
NoTable == <<"", "">>
Object(kind, name, on, layout, into) ==
    [kind |-> kind, name |-> name, on |-> on, layout |-> layout, into |-> into]

Create(o) == [do |-> "create", object |-> o]
CreateTable(s, layout) == Create(Object("table", Table(s), Table(s), layout, NoTable))
CreateIndex(s, part) == Create(Object("index", <<s, part>>, Table(s), 1, NoTable))
CreateTrigger(s, part, into) == Create(Object("trigger", <<s, part>>, Table(s), 1, into))
WakeupTrigger(s) == CreateTrigger(s, "wakeup", Table("wakeups"))
PathTrigger(part) == CreateTrigger("task_artifact", part, NoTable)
Drop(name) == [do |-> "drop", name |-> name]
Rename(s, part) == [do |-> "rename", from |-> Table(s), to |-> <<s, part>>]
Copy(s, part) == [do |-> "copy", from |-> <<s, part>>, to |-> Table(s)]
SetVersion(v) == [do |-> "version", version |-> v]

(* Mutant of WakeupTriggers: one family has none. *)
WakeupTriggersOfFour ==
    <<WakeupTrigger("working_set"), WakeupTrigger("archive"), WakeupTrigger("task_state"),
      WakeupTrigger("operational_doc")>>

WakeupTriggers ==
    <<WakeupTrigger("working_set"), WakeupTrigger("archive"), WakeupTrigger("task_state"),
      WakeupTrigger("operational_doc"), WakeupTrigger("task_artifact")>>

Versioned(s, layout) == <<CreateTable(s, layout), CreateIndex(s, "current")>>

(* schema.sql: version 3 from nothing. *)
SchemaSQL ==
    <<CreateTable("plugin_schema", 1), SetVersion(3),
      CreateTable("homes", 1), CreateTable("tasks", 1)>>
    \o Versioned("working_set", 1) \o Versioned("archive", 1) \o Versioned("task_state", 1)
    \o Versioned("operational_doc", 2) \o Versioned("task_artifact", 2)
    \o <<CreateIndex("task_artifact", "task"),
         PathTrigger("path_insert"), PathTrigger("path_update"),
         CreateTable("ingest_file_state", 1),
         CreateIndex("ingest_file_state", "project"),
         CreateIndex("ingest_file_state", "source_agent"),
         CreateTable("wakeups", 3),
         CreateIndex("wakeups", "unhandled"), CreateIndex("wakeups", "generation"),
         CreateTable("seats", 1), CreateIndex("seats", "destination_lease")>>
    \o WakeupTriggers \o <<CreateTable("chart_cache", 1)>>

(* Mutants of Rebuild: the rows are not copied; the old table stays. *)
RebuildEmpty(s, layout, aside) ==
    <<Rename(s, aside), CreateTable(s, layout), Drop(<<s, aside>>)>>
RebuildKeepingOld(s, layout, aside) ==
    <<Rename(s, aside), CreateTable(s, layout), Copy(s, aside)>>

(* A table is rebuilt: set aside, declared again, copied, dropped. *)
Rebuild(s, layout, aside) ==
    <<Rename(s, aside), CreateTable(s, layout), Copy(s, aside), Drop(<<s, aside>>)>>

MigrationV1ToV2 ==
    <<CreateTable("ingest_file_state", 1),
      CreateIndex("ingest_file_state", "project"),
      CreateIndex("ingest_file_state", "source_agent")>>
    \o Rebuild("operational_doc", 2, "v1") \o <<CreateIndex("operational_doc", "current")>>
    \o Rebuild("task_artifact", 2, "v1")
    \o <<CreateIndex("task_artifact", "current"), CreateIndex("task_artifact", "task"),
         PathTrigger("path_insert"), PathTrigger("path_update")>>
    \o WakeupTriggers \o <<SetVersion(2)>>

DropWakeupTriggers ==
    <<Drop(<<"working_set", "wakeup">>), Drop(<<"archive", "wakeup">>),
      Drop(<<"task_state", "wakeup">>), Drop(<<"operational_doc", "wakeup">>),
      Drop(<<"task_artifact", "wakeup">>)>>

(* Mutant of MigrationV2ToV3: triggers are left in place, and follow the *)
(* renamed table that is dropped.                                        *)
MigrationV2ToV3KeepingTriggers ==
    <<Drop(<<"wakeups", "unhandled">>), Drop(<<"wakeups", "generation">>)>>
    \o Rebuild("wakeups", 3, "v2")
    \o <<CreateIndex("wakeups", "unhandled"), CreateIndex("wakeups", "generation"),
         CreateTable("seats", 1), CreateIndex("seats", "destination_lease"), SetVersion(3)>>

MigrationV2ToV3 ==
    DropWakeupTriggers
    \o <<Drop(<<"wakeups", "unhandled">>), Drop(<<"wakeups", "generation">>)>>
    \o Rebuild("wakeups", 3, "v2")
    \o <<CreateIndex("wakeups", "unhandled"), CreateIndex("wakeups", "generation"),
         CreateTable("seats", 1), CreateIndex("seats", "destination_lease")>>
    \o WakeupTriggers \o <<SetVersion(3)>>

-----------------------------------------------------------------------------
(***************************************************************************)
(* What SQLite does with a statement.  A row is of a table; handled and     *)
(* confirmed (handled_generation is its generation, not NULL) are for       *)
(* wakeups.                                                                 *)
(***************************************************************************)
Row(table, id, handled, confirmed) ==
    [table |-> table, id |-> id, handled |-> handled, confirmed |-> confirmed]

(* The row as an INSERT leaves it. *)
Inserted(table, id) == Row(table, id, FALSE, FALSE)

Names(d) == {o.name : o \in d.objects}
LayoutOf(d, t) == (CHOOSE o \in d.objects : o.name = t).layout
HasSchema(d) == Table("plugin_schema") \in Names(d)

(* The rows that the triggers on table t insert for the given ids. *)
Queued(d, t, ids) ==
    {Inserted(o.into, i) :
        o \in {g \in d.objects : g.kind = "trigger" /\ g.on = t /\ g.into # NoTable}, i \in ids}

(* An INSERT INTO t fails when a trigger inserts into a table that is gone. *)
Insertable(d, t) == \A o \in d.objects : o.on = t => o.into \in Names(d) \cup {NoTable}

(* handled_generation becomes CASE WHEN handled = 1 THEN generation END. *)
Copied(r, to) == [r EXCEPT !.table = to, !.confirmed = r.handled]

Accepts(layout, r) == layout = 3 => r.confirmed = r.handled

InTable(d, t) == {r \in d.rows : r.table = t}

Fails(s, d) ==
    \/ s.do = "create" /\ ( \/ s.object.name \in Names(d)
                            \/ s.object.kind # "table" /\ s.object.on \notin Names(d) )
    \/ s.do = "drop" /\ s.name \notin Names(d)
    \/ s.do = "rename" /\ (s.from \notin Names(d) \/ s.to \in Names(d))
    \/ s.do = "copy" /\ ( \/ {s.from, s.to} \ Names(d) # {}
                          \/ ~Insertable(d, s.to)
                          \/ \E r \in InTable(d, s.from) :
                                ~Accepts(LayoutOf(d, s.to), Copied(r, s.to)) )

Moved(name, s) == IF name = s.from THEN s.to ELSE name

(* Renaming a table takes along its indexes, its triggers, and the bodies *)
(* of the triggers that write to it; dropping it drops the first two.     *)
Result(s, d) ==
    CASE s.do = "create" -> [d EXCEPT !.objects = @ \cup {s.object}]
      [] s.do = "drop" -> [d EXCEPT !.objects = {o \in @ : s.name \notin {o.name, o.on}},
                                    !.rows = {r \in @ : r.table # s.name}]
      [] s.do = "rename" ->
            [d EXCEPT !.objects = {[o EXCEPT !.name = Moved(@, s), !.on = Moved(@, s),
                                             !.into = Moved(@, s)] : o \in @},
                      !.rows = {[r EXCEPT !.table = Moved(@, s)] : r \in @}]
      [] s.do = "copy" ->
            [d EXCEPT !.rows = @ \cup {Copied(r, s.to) : r \in InTable(d, s.from)}
                                 \cup Queued(d, s.to, {r.id : r \in InTable(d, s.from)})]
      [] s.do = "version" -> [d EXCEPT !.owner = Us, !.version = s.version]

-----------------------------------------------------------------------------
(***************************************************************************)
(* The databases a release of the program, or somebody else, left on disk.  *)
(***************************************************************************)
NoDatabase == [objects |-> {}, rows |-> {}, owner |-> "", version |-> 0]

Objects(statements) == {statements[i].object :
                           i \in {j \in DOMAIN statements : statements[j].do = "create"}}

(* The layouts the tests of the migrations fabricate (migration_test.go). *)
Layout3 == Objects(SchemaSQL)
Redeclared(objects, s, layout) ==
    {IF o.name = Table(s) THEN [o EXCEPT !.layout = layout] ELSE o : o \in objects}
Layout2 == Redeclared({o \in Layout3 : o.on # Table("seats")}, "wakeups", 2)
Layout1 ==
    Redeclared(Redeclared({o \in Layout2 : o.kind # "trigger"
                                           /\ o.on # Table("ingest_file_state")},
                          "operational_doc", 1), "task_artifact", 1)
LayoutAt(v) == CASE v = 1 -> Layout1 [] v = 2 -> Layout2 [] v = 3 -> Layout3

OldRows == {Inserted(Table("working_set"), 1), Inserted(Table("operational_doc"), 2),
            Inserted(Table("task_artifact"), 3), Row(Table("wakeups"), 8, TRUE, FALSE),
            Inserted(Table("wakeups"), 9)}
LastOldRow == 9

Of(owner, version, objects, rows) ==
    [objects |-> objects, rows |-> rows, owner |-> owner, version |-> version]

Original(name) ==
    CASE name = "new" -> NoDatabase
      [] name = "v1" -> Of(Us, 1, Layout1, OldRows)
      [] name = "v2" -> Of(Us, 2, Layout2, OldRows)
      [] name = "v3" -> Of(Us, 3, Layout3, {[r EXCEPT !.confirmed = r.handled] : r \in OldRows})
      [] name = "later" -> Of(Us, 4, Layout3, OldRows)
      [] name = "foreign" -> Of("other", 1, Objects(<<CreateTable("plugin_schema", 1)>>), {})
      [] name = "rowless" -> Of("", 0, Objects(<<CreateTable("plugin_schema", 1)>>), {})
      [] name = "clash" -> Of("", 0, Objects(<<CreateTable("chart_cache", 1)>>), {})

Init ==
    /\ disk \in {Original(name) : name \in Originals}
    /\ lock = None
    /\ work = NoDatabase
    /\ script = <<>>
    /\ at = [p \in Procs |-> "start"]
    /\ pathOk = TRUE
    /\ faults = 0

-----------------------------------------------------------------------------
Inside == {"ensuring", "migrating"}
Ended == {"failed", "gone"}

Goes(p, place) == at' = [at EXCEPT ![p] = place]

(* retryableDatabaseOpenError: only watch tries again. *)
AfterError(p, retryable) == Goes(p, IF retryable /\ p \in Watches THEN "waiting" ELSE "failed")

NoTransaction == lock' = None /\ work' = NoDatabase /\ script' = <<>>

(* Mutants of Rollback: the lock is not given back; the statements that *)
(* ran stay.                                                            *)
RollbackForgotten == UNCHANGED <<disk, lock, work, script>>
RollbackKeeping == disk' = work /\ NoTransaction

Rollback == NoTransaction /\ UNCHANGED disk

(* runWatch looks at the path before it opens the database for the first *)
(* time, and ends when it is not right.  A verb opens at once.           *)
FirstLook(p) ==
    /\ at[p] = "start"
    /\ Goes(p, IF p \in Watches /\ ~pathOk THEN "failed" ELSE "opening")
    /\ UNCHANGED <<disk, lock, work, script, pathOk, faults>>

(* validateDatabasePath inside openDatabaseContext, then the connection. *)
OpenFile(p) ==
    /\ at[p] = "opening"
    /\ IF pathOk THEN Goes(p, "ensure") ELSE AfterError(p, TRUE)
    /\ UNCHANGED <<disk, lock, work, script, pathOk, faults>>

Begins(p, place, statements) ==
    /\ lock = None
    /\ lock' = p /\ work' = disk /\ script' = statements
    /\ Goes(p, place)
    /\ UNCHANGED <<disk, pathOk, faults>>

(* missingPluginSchema: no table plugin_schema, or no row in it. *)
Missing(d) == ~HasSchema(d) \/ d.owner = ""

(* EnsureContext, first transaction: the row is read under the write lock. *)
BeginEnsure(p) ==
    /\ at[p] = "ensure"
    /\ Begins(p, "ensuring", IF Missing(disk) THEN SchemaSQL ELSE <<>>)

(* MigrateContext: a database of this plugin, of a known version. *)
Supported(d) == d.owner = Us /\ d.version \in 1 .. 3

(* Mutant of Upgrades: the loop ends after one version. *)
UpgradesOnce(version) ==
    CASE version = 1 -> MigrationV1ToV2 [] version = 2 -> MigrationV2ToV3 [] version = 3 -> <<>>

Upgrades(version) ==
    CASE version = 1 -> MigrationV1ToV2 \o MigrationV2ToV3
      [] version = 2 -> MigrationV2ToV3
      [] version = 3 -> <<>>

BeginMigrate(p) ==
    /\ at[p] = "migrate" /\ Supported(disk)
    /\ Begins(p, "migrating", Upgrades(disk.version))

(* The transaction is begun, read in, and rolled back. *)
RefuseMigrate(p) ==
    /\ at[p] = "migrate" /\ ~Supported(disk) /\ lock = None
    /\ AfterError(p, FALSE)
    /\ UNCHANGED <<disk, lock, work, script, pathOk, faults>>

(* busy_timeout passes while another process writes: SQLITE_BUSY. *)
BusyTimeout(p) ==
    /\ at[p] \in {"ensure", "migrate"} /\ lock # None
    /\ AfterError(p, TRUE)
    /\ UNCHANGED <<disk, lock, work, script, pathOk, faults>>

Statement(p) ==
    /\ lock = p /\ script # <<>>
    /\ IF Fails(Head(script), work)
       THEN Rollback /\ AfterError(p, FALSE)
       ELSE /\ work' = Result(Head(script), work)
            /\ script' = Tail(script)
            /\ UNCHANGED <<disk, lock, at>>
    /\ UNCHANGED <<pathOk, faults>>

Commit(p) ==
    /\ lock = p /\ script = <<>>
    /\ disk' = work /\ NoTransaction
    /\ Goes(p, IF at[p] = "ensuring" THEN "migrate" ELSE "open")
    /\ UNCHANGED <<pathOk, faults>>

(* watchRetryDuration has passed. *)
TryAgain(p) ==
    /\ at[p] = "waiting"
    /\ Goes(p, "opening")
    /\ UNCHANGED <<disk, lock, work, script, pathOk, faults>>

(* Scribe inserts a version row; the triggers of its table queue a wakeup. *)
Mirror(p) ==
    /\ at[p] = "open" /\ lock = None
    /\ \E f \in Families, id \in (LastOldRow + 1) .. (LastOldRow + MaxMirrored) :
          /\ \A r \in disk.rows : r.id # id
          /\ Table(f) \in Names(disk) /\ Insertable(disk, Table(f))
          /\ disk' = [disk EXCEPT !.rows = @ \cup {Inserted(Table(f), id)}
                                             \cup Queued(disk, Table(f), {id})]
    /\ UNCHANGED <<lock, work, script, at, pathOk, faults>>

-----------------------------------------------------------------------------
Faulty == faults < MaxFaults /\ faults' = faults + 1

(* A signal, a canceled context, or the death of the process. *)
Ends(p) ==
    /\ at[p] \notin Ended /\ Faulty
    /\ Goes(p, "gone")
    /\ IF lock = p THEN Rollback ELSE UNCHANGED <<disk, lock, work, script>>
    /\ UNCHANGED pathOk

Restart(p) ==
    /\ at[p] \in Ended
    /\ faults < MaxFaults /\ faults' = faults + 1
    /\ Goes(p, "start")
    /\ UNCHANGED <<disk, lock, work, script, pathOk>>

(* SQLITE_IOERR is tried again, SQLITE_FULL is not (retryableSQLiteCode). *)
InputOutputError(p) ==
    /\ lock = p /\ Faulty
    /\ Rollback
    /\ \E retryable \in BOOLEAN : AfterError(p, retryable)
    /\ UNCHANGED pathOk

PathBreaks ==
    /\ pathOk /\ Faulty /\ pathOk' = FALSE
    /\ UNCHANGED <<disk, lock, work, script, at>>

PathIsMended ==
    /\ ~pathOk /\ pathOk' = TRUE
    /\ UNCHANGED <<disk, lock, work, script, at, faults>>

Opens(p) ==
    \/ FirstLook(p) \/ OpenFile(p) \/ BeginEnsure(p) \/ BeginMigrate(p)
    \/ RefuseMigrate(p) \/ Statement(p) \/ Commit(p) \/ TryAgain(p)

Next ==
    \/ PathBreaks \/ PathIsMended
    \/ \E p \in Procs :
          \/ Opens(p) \/ BusyTimeout(p) \/ Mirror(p)
          \/ Ends(p) \/ Restart(p) \/ InputOutputError(p)

Spec == Init /\ [][Next]_vars

(***************************************************************************)
(* A process is scheduled, and a broken path is mended in the end.  A       *)
(* transaction of the schema is over long before busy_timeout, so that one  *)
(* who tries again and again does not meet a locked database every time.    *)
(***************************************************************************)
Fairness ==
    /\ WF_vars(PathIsMended)
    /\ \A p \in Procs : WF_vars(Opens(p)) /\ SF_vars(BeginEnsure(p)) /\ SF_vars(BeginMigrate(p))

FairSpec == Spec /\ Fairness

-----------------------------------------------------------------------------
Places == {"start", "opening", "ensure", "ensuring", "migrate", "migrating", "open",
           "waiting"} \cup Ended

(* Types; the write lock is held exactly by the process inside a schema *)
(* transaction (BEGIN IMMEDIATE to COMMIT or ROLLBACK).                 *)
TypeOK ==
    /\ disk.version \in 0 .. 4 /\ disk.owner \in {"", Us, "other"}
    /\ at \in [Procs -> Places]
    /\ {p \in Procs : at[p] \in Inside} = {lock} \ {None}
    /\ lock = None => work = NoDatabase /\ script = <<>>
    /\ pathOk \in BOOLEAN /\ faults \in 0 .. MaxFaults

Ours == disk.owner = Us /\ disk.version \in 1 .. 3

(* What is committed is a whole version: wherever a migration or a creation *)
(* stopped, the tables, indexes and triggers on disk are those of the       *)
(* version that plugin_schema says, so that the next open can go on; and a  *)
(* migrated database is laid out like one created by schema.sql.            *)
CatalogMatchesVersion == Ours => disk.objects = LayoutAt(disk.version)

(* EnsureContext returns only a database of version 3, whatever the other *)
(* processes did between its two transactions.                            *)
OpenIsCurrent == \A p \in Procs : at[p] = "open" => Ours /\ disk.version = 3

(* On a database of this program, or none, no statement of a script can    *)
(* fail: names are free, tables are there, copied rows meet the CHECKs.    *)
(* A failure would be final, since each later open meets it again.         *)
ScriptsApply ==
    lock # None /\ script # <<>> /\ (Ours \/ disk = NoDatabase)
        => ~Fails(Head(script), work)

(* After a migration every document mirrored is queued for companion, so  *)
(* the triggers were put back and write to the new table.                 *)
MirroredIsQueued ==
    \A r \in disk.rows :
        r.id > LastOldRow /\ r.table # Table("wakeups")
            => Inserted(Table("wakeups"), r.id) \in disk.rows

Contents(d) == {<<r.table, r.id, r.handled>> : r \in d.rows}

(* Creating and migrating keep the rows: no version or wakeup is lost, none *)
(* is queued again by copying, handled wakeups stay handled.                *)
MigrationKeepsRows ==
    [][disk'.objects # disk.objects => Contents(disk') = Contents(disk)]_vars

(* A database of another plugin, of a later version, or whose tables are in *)
(* the way of the schema is left as it was.                                 *)
OthersUntouched ==
    [][~Ours /\ disk # NoDatabase => disk' = disk]_vars

(* A watch that is not ended opens its database in the end: neither other *)
(* processes, nor their deaths, nor errors it tries again keep it out.    *)
WatchOpens ==
    \A w \in Watches :
        (Ours \/ disk = NoDatabase) /\ at[w] = "start"
            ~> at[w] \in {"open"} \cup Ended

=============================================================================
