------------------------------- MODULE Chart -------------------------------
(***************************************************************************)
(* The chart (chart.go): get-or-create of one cached summary.  GetOrCreate  *)
(* reads table after table, each with a query of its own and no transaction *)
(* around them, while Scribe and Nerve write.  The watermark it compares    *)
(* holds a count per table and the hash of what was just read.              *)
(*                                                                         *)
(* Three parts stand for the tables: a label of table "homes", which no     *)
(* count shows; the current documents; the unhandled wakeups.               *)
(***************************************************************************)
EXTENDS Naturals

CONSTANTS
    Readers,   \* invocations of chart and attach
    Labels,    \* labels of a home
    MaxDocs    \* bound on the versions mirrored

VARIABLES
    db,      \* label, documents, unhandled wakeups
    cache,   \* the row of chart_cache, if any
    chart,   \* per reader: step, body read, marks read, result
    quiet    \* the readers since whose start nothing was written (history)

vars == <<db, cache, chart, quiet>>

Bodies == [label : Labels, docs : 0 .. MaxDocs, open : 0 .. MaxDocs]
Marks == [docs : 0 .. MaxDocs, open : 0 .. MaxDocs, snapshot : Bodies]
NoCache == {}
Steps == {"homes", "docs", "open", "markDocs", "markOpen", "look", "store", "done"}

TypeOK ==
    /\ db \in Bodies
    /\ cache \subseteq [mark : Marks, body : Bodies]
    /\ chart \in [Readers -> [at : Steps, body : Bodies, mark : Marks, status :
                    {"none", "created", "cached", "regenerated"}, result : Bodies]]
    /\ quiet \subseteq Readers

Empty == [label |-> CHOOSE l \in Labels : TRUE, docs |-> 0, open |-> 0]
Starting == [at |-> "homes", body |-> Empty, status |-> "none", result |-> Empty,
             mark |-> [docs |-> 0, open |-> 0, snapshot |-> Empty]]

Init ==
    /\ db = Empty
    /\ cache = NoCache
    /\ chart = [r \in Readers |-> Starting]
    /\ quiet = Readers

-----------------------------------------------------------------------------
Write(contents) ==
    /\ db' = contents
    /\ quiet' = {}
    /\ UNCHANGED <<cache, chart>>

(* Scribe: a version and its wakeup, in one transaction. *)
Mirror == db.docs < MaxDocs /\ Write([db EXCEPT !.docs = @ + 1, !.open = @ + 1])

(* Nerve confirms a wakeup. *)
Handle == db.open > 0 /\ Write([db EXCEPT !.open = @ - 1])

(* scribe.New updates label and kind of a home, and not its recorded_at. *)
Relabel == \E l \in Labels \ {db.label} : Write([db EXCEPT !.label = l])

-----------------------------------------------------------------------------
At(r, step) == chart[r].at = step

Becomes(r, state) ==
    /\ chart' = [chart EXCEPT ![r] = state]
    /\ UNCHANGED <<db, quiet>>

Begin(r) ==
    /\ At(r, "done")
    /\ chart' = [chart EXCEPT ![r] = Starting]
    /\ quiet' = quiet \cup {r}
    /\ UNCHANGED <<db, cache>>

(***************************************************************************)
(* snapshot, query by query, then watermark, query by query.                *)
(***************************************************************************)
ReadHomes(r) ==
    /\ At(r, "homes") /\ UNCHANGED cache
    /\ Becomes(r, [chart[r] EXCEPT !.at = "docs", !.body.label = db.label])

ReadDocs(r) ==
    /\ At(r, "docs") /\ UNCHANGED cache
    /\ Becomes(r, [chart[r] EXCEPT !.at = "open", !.body.docs = db.docs])

ReadUnhandled(r) ==
    /\ At(r, "open") /\ UNCHANGED cache
    /\ Becomes(r, [chart[r] EXCEPT !.at = "markDocs", !.body.open = db.open])

MarkDocs(r) ==
    /\ At(r, "markDocs") /\ UNCHANGED cache
    /\ Becomes(r, [chart[r] EXCEPT !.at = "markOpen", !.mark.docs = db.docs])

(* Mutant of Watermark: counts only. *)
WatermarkOfCounts(docs, open, body) == [docs |-> docs, open |-> open, snapshot |-> Empty]

Watermark(docs, open, body) == [docs |-> docs, open |-> open, snapshot |-> body]

MarkUnhandled(r) ==
    /\ At(r, "markOpen") /\ UNCHANGED cache
    /\ Becomes(r, [chart[r] EXCEPT !.at = "look",
                     !.mark = Watermark(@.docs, db.open, chart[r].body)])

(***************************************************************************)
(* The row of chart_cache is served when its watermark matches; else it is  *)
(* replaced, by another statement.                                          *)
(***************************************************************************)
Look(r) ==
    /\ At(r, "look") /\ UNCHANGED cache
    /\ \/ /\ cache = NoCache
          /\ Becomes(r, [chart[r] EXCEPT !.at = "store", !.status = "created"])
       \/ \E row \in cache :
             IF row.mark = chart[r].mark
             THEN Becomes(r, [chart[r] EXCEPT !.at = "done", !.status = "cached",
                                              !.result = row.body])
             ELSE Becomes(r, [chart[r] EXCEPT !.at = "store", !.status = "regenerated"])

Store(r) ==
    /\ At(r, "store")
    /\ cache' = {[mark |-> chart[r].mark, body |-> chart[r].body]}
    /\ Becomes(r, [chart[r] EXCEPT !.at = "done", !.result = chart[r].body])

Fails(r) ==
    /\ chart[r].at # "done" /\ UNCHANGED cache
    /\ Becomes(r, [Starting EXCEPT !.at = "done"])

GetOrCreate(r) ==
    \/ Begin(r) \/ ReadHomes(r) \/ ReadDocs(r) \/ ReadUnhandled(r)
    \/ MarkDocs(r) \/ MarkUnhandled(r) \/ Look(r) \/ Store(r) \/ Fails(r)

Next == Mirror \/ Handle \/ Relabel \/ \E r \in Readers : GetOrCreate(r)

Spec == Init /\ [][Next]_vars

-----------------------------------------------------------------------------
(***************************************************************************)
(* A chart made while nothing is written shows the database as it is, even  *)
(* if the cache holds what another reader pieced together from several      *)
(* states, or stored late (GetOrCreate, store).                             *)
(***************************************************************************)
Answered(r) == At(r, "done") /\ chart[r].status # "none"

QuietChartIsCurrent ==
    \A r \in quiet : Answered(r) => chart[r].result = db
=============================================================================
