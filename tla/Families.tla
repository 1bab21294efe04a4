----------------------------- MODULE Families -------------------------------
(***************************************************************************)
(* Where a Markdown file goes: classify (scribe.go) picks one of five       *)
(* tables, and the checks and the trigger of schema.sql say what each table *)
(* takes.  The two are written down separately; a file that its table       *)
(* refuses makes every total scan of its home fail from then on.            *)
(*                                                                         *)
(* A path is the names of its directories below data/ and the name of the   *)
(* file: its words (what "-" separates) and its extension.  A kind is a     *)
(* sequence of words, too.                                                  *)
(***************************************************************************)
EXTENDS Naturals, Sequences

CONSTANTS
    Lower,   \* each word in lower case
    Clean,   \* each word without the signs around its letters and digits
    Dates    \* the triples of words that are a date

(***************************************************************************)
(* The three maps of scribe.go, each name its own kind.                     *)
(***************************************************************************)
WorkingSet == {<<"captain">>, <<"captain", "shared">>, <<"learnings">>, <<"projects">>, <<"secondmates">>}
Archives == {<<"captain", "archive">>, <<"memory", "archive">>, <<"note", "archive">>}
TaskState == {<<"backlog">>, <<"done", "archive">>}

CleanKind(word) == IF Clean[Lower[word]] = "" THEN "document" ELSE Clean[Lower[word]]

(* Mutant of DocumentKind: a date must have two words after it. *)
DocumentKindLater(words) ==
    IF Len(words) > 4 /\ SubSeq(words, 1, 3) \in Dates THEN CleanKind(words[4]) ELSE CleanKind(words[1])

DocumentKind(words) ==
    IF Len(words) >= 4 /\ SubSeq(words, 1, 3) \in Dates THEN CleanKind(words[4]) ELSE CleanKind(words[1])

Row(table, kind, task) == [table |-> table, kind |-> kind, task |-> task]
NoTask == ""

(* Mutant of Classify: the extension is compared without its case. *)
ClassifyAnyCase(path) ==
    LET name == path.words
    IN  IF path.dirs # <<>> THEN Row("task_artifact", <<DocumentKind(name)>>, path.dirs[1])
        ELSE CASE name \in WorkingSet -> Row("working_set", name, NoTask)
               [] name \in Archives   -> Row("archive", name, NoTask)
               [] name \in TaskState  -> Row("task_state", name, NoTask)
               [] OTHER               -> Row("operational_doc", <<DocumentKind(name)>>, NoTask)

(***************************************************************************)
(* classify: the directory decides first, then the exact name.              *)
(***************************************************************************)
Classify(path) ==
    LET name == path.words
        exact == path.ext = ".md"
    IN  IF path.dirs # <<>> THEN Row("task_artifact", <<DocumentKind(name)>>, path.dirs[1])
        ELSE CASE exact /\ name \in WorkingSet -> Row("working_set", name, NoTask)
               [] exact /\ name \in Archives   -> Row("archive", name, NoTask)
               [] exact /\ name \in TaskState  -> Row("task_state", name, NoTask)
               [] OTHER                        -> Row("operational_doc", <<DocumentKind(name)>>, NoTask)

-----------------------------------------------------------------------------
(***************************************************************************)
(* schema.sql: the paths and kinds the tables take.                         *)
(***************************************************************************)
Tables == {"working_set", "archive", "task_state", "operational_doc", "task_artifact"}

WorkingSetChecked == {<<"captain">>, <<"captain", "shared">>, <<"learnings">>, <<"projects">>, <<"secondmates">>}
ArchivesChecked == {<<"captain", "archive">>, <<"memory", "archive">>, <<"note", "archive">>}
TaskStateChecked == {<<"backlog">>, <<"done", "archive">>}

Listed(path, names) == path.dirs = <<>> /\ path.ext = ".md" /\ path.words \in names

TaskIds(path) == IF path.dirs = <<>> THEN {} ELSE {path.dirs[1]} \ {"", ".", ".."}

(* Mutant of TakesPath: root documents are not told apart by name. *)
TakesPathOfAnyName(table, path) ==
    CASE table = "working_set"     -> Listed(path, WorkingSetChecked)
      [] table = "archive"         -> Listed(path, ArchivesChecked)
      [] table = "task_state"      -> Listed(path, TaskStateChecked)
      [] table = "operational_doc" -> path.dirs = <<>>
      [] table = "task_artifact"   -> TaskIds(path) # {}

TakesPath(table, path) ==
    CASE table = "working_set"     -> Listed(path, WorkingSetChecked)
      [] table = "archive"         -> Listed(path, ArchivesChecked)
      [] table = "task_state"      -> Listed(path, TaskStateChecked)
      [] table = "operational_doc" ->
            path.dirs = <<>> /\ ~Listed(path, WorkingSetChecked \cup ArchivesChecked \cup TaskStateChecked)
      [] table = "task_artifact"   ->
            TaskIds(path) # {} /\ \A i \in DOMAIN path.dirs : path.dirs[i] # ".."

TakesKind(table, kind) ==
    CASE table = "working_set" -> kind \in WorkingSetChecked
      [] table = "archive"     -> kind \in ArchivesChecked
      [] table = "task_state"  -> kind \in TaskStateChecked
      [] OTHER                 -> TRUE

(* The trigger of task artifacts: the path starts with the literal task id. *)
TakesTask(path, task) ==
    IF path.dirs = <<>> THEN task = NoTask ELSE task \in TaskIds(path)

Takes(path, row) ==
    /\ TakesPath(row.table, path)
    /\ TakesKind(row.table, row.kind)
    /\ TakesTask(path, row.task)
=============================================================================
