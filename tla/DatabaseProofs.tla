--------------------------- MODULE DatabaseProofs ---------------------------
(***************************************************************************)
(* Opening firstmate.db, for any watches, verbs and databases found on      *)
(* disk: what the scripts of the schema leave, statement by statement; that *)
(* an interrupted opening leaves a whole version with the rows it had, and  *)
(* that only version 3 is opened.                                           *)
(***************************************************************************)
EXTENDS MCFiles, TLAPS

-----------------------------------------------------------------------------
(***************************************************************************)
(* What a script is made of.                                                *)
(***************************************************************************)
Words == {"plugin_schema", "homes", "tasks", "working_set", "archive", "task_state",
          "operational_doc", "task_artifact", "ingest_file_state", "wakeups", "seats",
          "chart_cache", "current", "task", "path_insert", "path_update", "project",
          "source_agent", "unhandled", "generation", "destination_lease", "wakeup", "v1", "v2"}
Creating ==
    {D!CreateTable(s, n) : s \in Words, n \in Nat}
    \cup {D!CreateIndex(s, name) : s \in Words, name \in Words}
    \cup {D!PathTrigger(name) : name \in Words} \cup {D!WakeupTrigger(s) : s \in Words}
    \cup {D!SetVersion(3)}
Statements ==
    Creating \cup {D!Drop(<<s, name>>) : s \in Words, name \in Words}
    \cup {D!Rename(s, name) : s \in Words, name \in Words}
    \cup {D!Copy(s, name) : s \in Words, name \in Words}
    \cup {D!SetVersion(2)}

Has(q, s) == \E i \in DOMAIN q : q[i] = s
EndsWith(q, s) == q # <<>> /\ q[Len(q)] = s

LEMMA Joined ==
    ASSUME NEW Kind, NEW a \in Seq(Kind), NEW b \in Seq(Kind)
    PROVE  /\ a \o b \in Seq(Kind)
           /\ \A s : Has(a, s) \/ Has(b, s) => Has(a \o b, s)
           /\ \A s : EndsWith(b, s) => EndsWith(a \o b, s)
<1>1. /\ a \o b \in Seq(Kind) /\ Len(a) \in Nat /\ Len(b) \in Nat /\ Len(a \o b) = Len(a) + Len(b)
      /\ DOMAIN (a \o b) = 1 .. Len(a) + Len(b) /\ DOMAIN a = 1 .. Len(a) /\ DOMAIN b = 1 .. Len(b)
      /\ \A i \in 1 .. Len(a) : (a \o b)[i] = a[i]
      /\ \A i \in 1 .. Len(b) : (a \o b)[Len(a) + i] = b[i]
  OBVIOUS
<1>2. \A s : Has(a, s) \/ Has(b, s) => Has(a \o b, s)
  <2>1. ASSUME NEW i \in 1 .. Len(a)
        PROVE  i \in 1 .. Len(a) + Len(b) /\ (a \o b)[i] = a[i]
    BY <1>1
  <2>2. ASSUME NEW i \in 1 .. Len(b)
        PROVE  Len(a) + i \in 1 .. Len(a) + Len(b) /\ (a \o b)[Len(a) + i] = b[i]
    BY <1>1
  <2> QED
    BY <1>1, <2>1, <2>2 DEF Has
<1>3. b # <<>> => Len(b) \in 1 .. Len(b) /\ a \o b # <<>>
  BY <1>1
<1> QED
  BY <1>1, <1>2, <1>3 DEF EndsWith

LEMMA Spelled ==
    /\ "plugin_schema" \in Words /\ "homes" \in Words /\ "tasks" \in Words
    /\ "working_set" \in Words /\ "archive" \in Words /\ "task_state" \in Words
    /\ "operational_doc" \in Words /\ "task_artifact" \in Words /\ "ingest_file_state" \in Words
    /\ "wakeups" \in Words /\ "seats" \in Words /\ "chart_cache" \in Words
    /\ "current" \in Words /\ "task" \in Words /\ "path_insert" \in Words
    /\ "path_update" \in Words /\ "project" \in Words /\ "source_agent" \in Words
    /\ "unhandled" \in Words /\ "generation" \in Words /\ "destination_lease" \in Words
    /\ "wakeup" \in Words /\ "v1" \in Words /\ "v2" \in Words
BY DEF Words

LEMMA Pieces ==
    /\ \A s \in Words, n \in Nat : D!CreateTable(s, n) \in Creating
    /\ \A s, name \in Words :
          /\ D!CreateIndex(s, name) \in Creating
          /\ D!PathTrigger(name) \in Creating /\ D!WakeupTrigger(s) \in Creating
          /\ D!Drop(<<s, name>>) \in Statements /\ D!Rename(s, name) \in Statements
          /\ D!Copy(s, name) \in Statements
    /\ D!SetVersion(3) \in Creating /\ D!SetVersion(2) \in Statements
    /\ Creating \subseteq Statements
<1> HIDE DEF Words
<1>1. \A s \in Words, n \in Nat : D!CreateTable(s, n) \in Creating
  BY SMT DEF Creating
<1>2. ASSUME NEW s \in Words, NEW name \in Words
      PROVE  /\ D!CreateIndex(s, name) \in Creating
             /\ D!PathTrigger(name) \in Creating /\ D!WakeupTrigger(s) \in Creating
  BY SMT DEF Creating
<1>3. ASSUME NEW s \in Words, NEW name \in Words
      PROVE  /\ D!Drop(<<s, name>>) \in Statements /\ D!Rename(s, name) \in Statements
             /\ D!Copy(s, name) \in Statements
  BY SMT DEF Statements
<1>4. D!SetVersion(3) \in Creating /\ D!SetVersion(2) \in Statements /\ Creating \subseteq Statements
  BY SMT DEF Creating, Statements
<1> QED
  BY <1>1, <1>2, <1>3, <1>4

LEMMA Singles ==
    ASSUME NEW Kind, NEW x \in Kind
    PROVE  <<x>> \in Seq(Kind) /\ Has(<<x>>, x) /\ EndsWith(<<x>>, x)
<1>1. <<x>> \in Seq(Kind) /\ DOMAIN <<x>> = 1 .. 1 /\ <<x>>[1] = x /\ Len(<<x>>) = 1 /\ <<x>> # <<>>
  OBVIOUS
<1> QED
  BY <1>1 DEF Has, EndsWith

(* schema.sql creates, and gives the version; it declares these two tables. *)
LEMMA SchemaScript ==
    /\ D!SchemaSQL \in Seq(Creating)
    /\ Has(D!SchemaSQL, D!CreateTable("plugin_schema", 1))
    /\ Has(D!SchemaSQL, D!SetVersion(3))
    /\ Has(D!SchemaSQL, D!CreateTable("chart_cache", 1))
<1> DEFINE p == D!CreateTable("plugin_schema", 1)
           v == D!SetVersion(3)
           x == D!CreateTable("chart_cache", 1)
<1>1. p \in Creating /\ v \in Creating /\ x \in Creating
  BY Spelled, Pieces
<1>2. ASSUME NEW s \in Words, NEW n \in Nat
      PROVE  D!Versioned(s, n) \in Seq(Creating)
  <2>1. D!CreateTable(s, n) \in Creating /\ D!CreateIndex(s, "current") \in Creating
    BY Spelled, Pieces
  <2> QED
    BY <2>1 DEF D!Versioned
<1>3. D!WakeupTriggers \in Seq(Creating)
  <2>1. /\ D!WakeupTrigger("working_set") \in Creating /\ D!WakeupTrigger("archive") \in Creating
        /\ D!WakeupTrigger("task_state") \in Creating /\ D!WakeupTrigger("operational_doc") \in Creating
        /\ D!WakeupTrigger("task_artifact") \in Creating
    BY Spelled, Pieces
  <2> QED
    BY <2>1 DEF D!WakeupTriggers
<1> DEFINE first == <<p, v, D!CreateTable("homes", 1), D!CreateTable("tasks", 1)>>
           middle == <<D!CreateIndex("task_artifact", "task"),
                       D!PathTrigger("path_insert"), D!PathTrigger("path_update"),
                       D!CreateTable("ingest_file_state", 1),
                       D!CreateIndex("ingest_file_state", "project"),
                       D!CreateIndex("ingest_file_state", "source_agent"),
                       D!CreateTable("wakeups", 3),
                       D!CreateIndex("wakeups", "unhandled"), D!CreateIndex("wakeups", "generation"),
                       D!CreateTable("seats", 1), D!CreateIndex("seats", "destination_lease")>>
           end == <<x>>
<1>4. first \in Seq(Creating) /\ Has(first, p) /\ Has(first, v)
  <2>1. D!CreateTable("homes", 1) \in Creating /\ D!CreateTable("tasks", 1) \in Creating
    BY Spelled, Pieces
  <2> HIDE DEF p, v
  <2>2. first \in Seq(Creating) /\ DOMAIN first = 1 .. 4 /\ first[1] = p /\ first[2] = v
    BY <1>1, <2>1
  <2> HIDE DEF first
  <2> QED
    BY <2>2 DEF Has
<1>5. middle \in Seq(Creating)
  <2>1. /\ D!CreateIndex("task_artifact", "task") \in Creating
        /\ D!PathTrigger("path_insert") \in Creating /\ D!PathTrigger("path_update") \in Creating
        /\ D!CreateTable("ingest_file_state", 1) \in Creating
        /\ D!CreateIndex("ingest_file_state", "project") \in Creating
        /\ D!CreateIndex("ingest_file_state", "source_agent") \in Creating
        /\ D!CreateTable("wakeups", 3) \in Creating
        /\ D!CreateIndex("wakeups", "unhandled") \in Creating
        /\ D!CreateIndex("wakeups", "generation") \in Creating
        /\ D!CreateTable("seats", 1) \in Creating
        /\ D!CreateIndex("seats", "destination_lease") \in Creating
    BY Spelled, Pieces
  <2> QED
    BY <2>1
<1>6. end \in Seq(Creating) /\ Has(end, x)
  BY <1>1, Singles
<1>7. D!SchemaSQL = first \o D!Versioned("working_set", 1) \o D!Versioned("archive", 1)
                    \o D!Versioned("task_state", 1) \o D!Versioned("operational_doc", 2)
                    \o D!Versioned("task_artifact", 2) \o middle \o D!WakeupTriggers \o end
  BY DEF D!SchemaSQL
<1> HIDE DEF first, middle, end, p, v, x
<1> DEFINE Good(q) == q \in Seq(Creating) /\ Has(q, p) /\ Has(q, v)
<1>8. ASSUME NEW q, Good(q), NEW r \in Seq(Creating) PROVE Good(q \o r)
  BY <1>8, Joined
<1> HIDE DEF Good
<1> DEFINE a == first \o D!Versioned("working_set", 1)
           b == a \o D!Versioned("archive", 1)
           c == b \o D!Versioned("task_state", 1)
           d == c \o D!Versioned("operational_doc", 2)
           e == d \o D!Versioned("task_artifact", 2)
           f == e \o middle
           g == f \o D!WakeupTriggers
<1>9. /\ D!Versioned("working_set", 1) \in Seq(Creating) /\ D!Versioned("archive", 1) \in Seq(Creating)
      /\ D!Versioned("task_state", 1) \in Seq(Creating)
      /\ D!Versioned("operational_doc", 2) \in Seq(Creating)
      /\ D!Versioned("task_artifact", 2) \in Seq(Creating)
  BY <1>2, Spelled
<1>10. Good(first)
  BY <1>4 DEF Good
<1>11. Good(g)
  BY <1>3, <1>5, <1>8, <1>9, <1>10, Zenon
<1> HIDE DEF g
<1>12. Good(g \o end) /\ Has(g \o end, x)
  BY <1>6, <1>8, <1>11, Joined DEF Good
<1> QED
  BY <1>7, <1>12 DEF Good, g, p, v, x

(* The scripts of the migrations, of every supported version, end in 3. *)
LEMMA UpgradeScript ==
    ASSUME NEW v \in 1 .. 3
    PROVE  /\ D!Upgrades(v) \in Seq(Statements)
           /\ v = 3 => D!Upgrades(v) = <<>>
           /\ v # 3 => EndsWith(D!Upgrades(v), D!SetVersion(3))
<1>1. ASSUME NEW s \in Words, NEW n \in Nat, NEW aside \in Words
      PROVE  D!Rebuild(s, n, aside) \in Seq(Statements)
  <2>1. /\ D!Rename(s, aside) \in Statements /\ D!CreateTable(s, n) \in Statements
        /\ D!Copy(s, aside) \in Statements /\ D!Drop(<<s, aside>>) \in Statements
    BY Pieces
  <2> QED
    BY <2>1 DEF D!Rebuild
<1>2. /\ D!Rebuild("operational_doc", 2, "v1") \in Seq(Statements)
      /\ D!Rebuild("task_artifact", 2, "v1") \in Seq(Statements)
      /\ D!Rebuild("wakeups", 3, "v2") \in Seq(Statements)
  BY <1>1, Spelled
<1>3. D!WakeupTriggers \in Seq(Statements)
  <2>1. /\ D!WakeupTrigger("working_set") \in Statements /\ D!WakeupTrigger("archive") \in Statements
        /\ D!WakeupTrigger("task_state") \in Statements
        /\ D!WakeupTrigger("operational_doc") \in Statements
        /\ D!WakeupTrigger("task_artifact") \in Statements
    BY Spelled, Pieces
  <2> QED
    BY <2>1 DEF D!WakeupTriggers
<1>4. D!DropWakeupTriggers \in Seq(Statements)
  <2>1. /\ D!Drop(<<"working_set", "wakeup">>) \in Statements
        /\ D!Drop(<<"archive", "wakeup">>) \in Statements
        /\ D!Drop(<<"task_state", "wakeup">>) \in Statements
        /\ D!Drop(<<"operational_doc", "wakeup">>) \in Statements
        /\ D!Drop(<<"task_artifact", "wakeup">>) \in Statements
    BY Spelled, Pieces
  <2> QED
    BY <2>1 DEF D!DropWakeupTriggers
<1>5. <<D!SetVersion(2)>> \in Seq(Statements)
      /\ <<D!SetVersion(3)>> \in Seq(Statements) /\ EndsWith(<<D!SetVersion(3)>>, D!SetVersion(3))
  BY Pieces, Singles
<1> DEFINE first == <<D!CreateTable("ingest_file_state", 1),
                      D!CreateIndex("ingest_file_state", "project"),
                      D!CreateIndex("ingest_file_state", "source_agent")>>
           docs == <<D!CreateIndex("operational_doc", "current")>>
           paths == <<D!CreateIndex("task_artifact", "current"), D!CreateIndex("task_artifact", "task"),
                      D!PathTrigger("path_insert"), D!PathTrigger("path_update")>>
           drops == <<D!Drop(<<"wakeups", "unhandled">>), D!Drop(<<"wakeups", "generation">>)>>
           seatsSQL == <<D!CreateIndex("wakeups", "unhandled"), D!CreateIndex("wakeups", "generation"),
                      D!CreateTable("seats", 1), D!CreateIndex("seats", "destination_lease")>>
<1>6. first \in Seq(Statements) /\ docs \in Seq(Statements)
  <2>1. /\ D!CreateTable("ingest_file_state", 1) \in Statements
        /\ D!CreateIndex("ingest_file_state", "project") \in Statements
        /\ D!CreateIndex("ingest_file_state", "source_agent") \in Statements
        /\ D!CreateIndex("operational_doc", "current") \in Statements
    BY Spelled, Pieces
  <2> QED
    BY <2>1
<1>7. paths \in Seq(Statements) /\ drops \in Seq(Statements)
  <2>1. /\ D!CreateIndex("task_artifact", "current") \in Statements
        /\ D!CreateIndex("task_artifact", "task") \in Statements
        /\ D!PathTrigger("path_insert") \in Statements /\ D!PathTrigger("path_update") \in Statements
        /\ D!Drop(<<"wakeups", "unhandled">>) \in Statements
        /\ D!Drop(<<"wakeups", "generation">>) \in Statements
    BY Spelled, Pieces
  <2> QED
    BY <2>1
<1>8. seatsSQL \in Seq(Statements)
  <2>1. /\ D!CreateIndex("wakeups", "unhandled") \in Statements
        /\ D!CreateIndex("wakeups", "generation") \in Statements
        /\ D!CreateTable("seats", 1) \in Statements
        /\ D!CreateIndex("seats", "destination_lease") \in Statements
    BY Spelled, Pieces
  <2> QED
    BY <2>1
<1>9. D!MigrationV1ToV2 = first \o D!Rebuild("operational_doc", 2, "v1") \o docs
          \o D!Rebuild("task_artifact", 2, "v1") \o paths \o D!WakeupTriggers \o <<D!SetVersion(2)>>
  BY DEF D!MigrationV1ToV2
<1>10. D!MigrationV2ToV3 = D!DropWakeupTriggers \o drops \o D!Rebuild("wakeups", 3, "v2")
          \o seatsSQL \o D!WakeupTriggers \o <<D!SetVersion(3)>>
  BY DEF D!MigrationV2ToV3
<1> HIDE DEF first, docs, paths, drops, seatsSQL
<1>11. \A q, r \in Seq(Statements) : q \o r \in Seq(Statements)
  BY Joined
<1>12. D!MigrationV1ToV2 \in Seq(Statements)
  BY <1>2, <1>3, <1>5, <1>6, <1>7, <1>9, <1>11, Zenon
<1>13. D!MigrationV2ToV3 \in Seq(Statements) /\ EndsWith(D!MigrationV2ToV3, D!SetVersion(3))
  <2> DEFINE most == D!DropWakeupTriggers \o drops \o D!Rebuild("wakeups", 3, "v2")
                       \o seatsSQL \o D!WakeupTriggers
  <2>1. most \in Seq(Statements)
    BY <1>2, <1>3, <1>4, <1>7, <1>8, <1>11, Zenon
  <2>2. D!MigrationV2ToV3 = most \o <<D!SetVersion(3)>>
    BY <1>10
  <2> HIDE DEF most
  <2> QED
    BY <1>5, <2>1, <2>2, Joined
<1>14. /\ D!MigrationV1ToV2 \o D!MigrationV2ToV3 \in Seq(Statements)
       /\ EndsWith(D!MigrationV1ToV2 \o D!MigrationV2ToV3, D!SetVersion(3))
  BY <1>12, <1>13, Joined
<1>15. <<>> \in Seq(Statements)
  OBVIOUS
<1>16. /\ D!Upgrades(1) = D!MigrationV1ToV2 \o D!MigrationV2ToV3
       /\ D!Upgrades(2) = D!MigrationV2ToV3 /\ D!Upgrades(3) = <<>>
  BY DEF D!Upgrades
<1>17. v = 1 \/ v = 2 \/ v = 3
  OBVIOUS
<1> QED
  BY <1>13, <1>14, <1>15, <1>16, <1>17

(* What a statement does to the row of plugin_schema, and to names. *)
IsDatabase(d) == d = D!Of(d.owner, d.version, d.objects, d.rows)

LEMMA Kinds ==
    /\ \A s \in Creating : s.do = "create" \/ s = D!SetVersion(3)
    /\ \A s \in Statements : s.do \in {"create", "drop", "rename", "copy"}
                             \/ s = D!SetVersion(2) \/ s = D!SetVersion(3)
<1>1. ASSUME NEW s \in Creating PROVE s.do = "create" \/ s = D!SetVersion(3)
  <2>1. CASE \E x \in Words, n \in Nat : s = D!CreateTable(x, n)
    BY <2>1 DEF D!CreateTable, D!Create
  <2>2. CASE \E x, name \in Words : s = D!CreateIndex(x, name)
    BY <2>2 DEF D!CreateIndex, D!Create
  <2>3. CASE \E x \in Words : s = D!PathTrigger(x) \/ s = D!WakeupTrigger(x)
    BY <2>3 DEF D!PathTrigger, D!WakeupTrigger, D!CreateTrigger, D!Create
  <2> HIDE DEF Words
  <2> QED
    BY <2>1, <2>2, <2>3 DEF Creating
<1>2. ASSUME NEW s \in Statements \ Creating
      PROVE  s.do \in {"drop", "rename", "copy"} \/ s = D!SetVersion(2)
  <2>1. CASE \E x, name \in Words : s = D!Drop(<<x, name>>)
    BY <2>1 DEF D!Drop
  <2>2. CASE \E x, name \in Words : s = D!Rename(x, name) \/ s = D!Copy(x, name)
    BY <2>2 DEF D!Rename, D!Copy
  <2> HIDE DEF Words
  <2> QED
    BY <2>1, <2>2 DEF Statements
<1> QED
  BY <1>1, <1>2

LEMMA Effect ==
    ASSUME NEW s \in Statements, NEW d, IsDatabase(d)
    PROVE  LET e == D!Result(s, d)
           IN  /\ IsDatabase(e)
               /\ \/ e.owner = d.owner /\ e.version = d.version /\ s.do # "version"
                  \/ e.owner = D!Us /\ s = D!SetVersion(e.version)
               /\ s \in Creating => D!Names(d) \subseteq D!Names(e)
<1>1. CASE s.do = "create"
  <2>0. PICK o : o = s.object
    OBVIOUS
  <2>1. D!Result(s, d) = [d EXCEPT !.objects = @ \cup {o}]
    BY <1>1, <2>0 DEF D!Result
  <2>2. D!Result(s, d) = D!Of(d.owner, d.version, d.objects \cup {o}, d.rows)
    BY <2>1 DEF IsDatabase, D!Of
  <2> QED
    BY <1>1, <2>2 DEF IsDatabase, D!Of, D!Names
<1>2. CASE s.do = "drop"
  <2>0. PICK o, r : o = {x \in d.objects : s.name \notin {x.name, x.on}}
                  /\ r = {x \in d.rows : x.table # s.name}
    OBVIOUS
  <2>1. D!Result(s, d) = [d EXCEPT !.objects = o, !.rows = r]
    BY <1>2, <2>0 DEF D!Result
  <2>2. D!Result(s, d) = D!Of(d.owner, d.version, o, r)
    BY <2>1 DEF IsDatabase, D!Of
  <2>3. s \notin Creating
    BY <1>2, Kinds DEF D!SetVersion
  <2> QED
    BY <1>2, <2>2, <2>3 DEF IsDatabase, D!Of
<1>3. CASE s.do = "rename"
  <2>0. PICK o, r : /\ o = {[x EXCEPT !.name = D!Moved(@, s), !.on = D!Moved(@, s),
                                    !.into = D!Moved(@, s)] : x \in d.objects}
                  /\ r = {[x EXCEPT !.table = D!Moved(@, s)] : x \in d.rows}
    OBVIOUS
  <2>1. D!Result(s, d) = [d EXCEPT !.objects = o, !.rows = r]
    BY <1>3, <2>0 DEF D!Result
  <2>2. D!Result(s, d) = D!Of(d.owner, d.version, o, r)
    BY <2>1 DEF IsDatabase, D!Of
  <2>3. s \notin Creating
    BY <1>3, Kinds DEF D!SetVersion
  <2> QED
    BY <1>3, <2>2, <2>3 DEF IsDatabase, D!Of
<1>4. CASE s.do = "copy"
  <2>0. PICK r : r = d.rows \cup {D!Copied(x, s.to) : x \in D!InTable(d, s.from)}
                          \cup D!Queued(d, s.to, {x.id : x \in D!InTable(d, s.from)})
    OBVIOUS
  <2>1. D!Result(s, d) = [d EXCEPT !.rows = r]
    BY <1>4, <2>0 DEF D!Result
  <2>2. D!Result(s, d) = D!Of(d.owner, d.version, d.objects, r)
    BY <2>1 DEF IsDatabase, D!Of
  <2>3. s \notin Creating
    BY <1>4, Kinds DEF D!SetVersion
  <2> QED
    BY <1>4, <2>2, <2>3 DEF IsDatabase, D!Of
<1>5. ASSUME NEW v, s = D!SetVersion(v)
      PROVE  /\ IsDatabase(D!Result(s, d)) /\ D!Result(s, d).owner = D!Us
             /\ D!Result(s, d).version = v /\ D!Names(D!Result(s, d)) = D!Names(d)
  <2>1. s.do = "version" /\ s.version = v
    BY <1>5 DEF D!SetVersion
  <2>2. D!Result(s, d) = [d EXCEPT !.owner = D!Us, !.version = v]
    BY <2>1 DEF D!Result
  <2>3. D!Result(s, d) = D!Of(D!Us, v, d.objects, d.rows)
    BY <2>2 DEF IsDatabase, D!Of
  <2> QED
    BY <2>3 DEF IsDatabase, D!Of, D!Names
<1> QED
  BY <1>1, <1>2, <1>3, <1>4, <1>5, Kinds

(***************************************************************************)
(* What is on disk is ours, nothing, or somebody else's.  A transaction on  *)
(* what is ours leaves it ours; one on what is somebody else's has nothing  *)
(* to do, or has a statement left that fails, since a name is taken; one on *)
(* nothing, and a migration, still have to write version 3, or have done so.*)
(***************************************************************************)
Strangers == {D!Original("later"), D!Original("foreign"), D!Original("rowless"), D!Original("clash")}

Blocked ==
    \E i \in DOMAIN script : script[i].do = "create" /\ script[i].object.name \in D!Names(work)

EnsuringInv ==
    /\ script \in Seq(Creating)
    /\ D!Ours => work.owner = D!Us /\ work.version \in {disk.version, 3}
    /\ disk = D!NoDatabase =>
          Has(script, D!SetVersion(3)) \/ (work.owner = D!Us /\ work.version = 3)
    /\ disk \in Strangers => (script = <<>> /\ work = disk) \/ Blocked

MigratingInv ==
    /\ script \in Seq(Statements) /\ D!Ours /\ work.owner = D!Us
    /\ (script = <<>> /\ work.version = 3) \/ EndsWith(script, D!SetVersion(3))
    /\ disk.version = 3 => script = <<>>

DatabaseInv ==
    /\ D!TypeOK /\ D!OpenIsCurrent
    /\ IsDatabase(disk) /\ (D!Ours \/ disk = D!NoDatabase \/ disk \in Strangers)
    /\ lock # None =>
          /\ IsDatabase(work)
          /\ place[lock] = "ensuring" => EnsuringInv
          /\ place[lock] = "migrating" => MigratingInv

LEMMA Held ==
    ASSUME D!TypeOK
    PROVE  /\ lock # None => lock \in D!Procs
           /\ \A p \in D!Procs : place[p] \in D!Inside <=> p = lock
<1>1. {p \in D!Procs : place[p] \in D!Inside} = {lock} \ {None}
  BY DEF D!TypeOK
<1> QED
  BY <1>1, OriginalAssumption

(* The databases of others: the schema finds their rows, or a name taken. *)
LEMMA Declares == \A s, n : D!CreateTable(s, n).do = "create" /\ D!CreateTable(s, n).object.name = D!Table(s)
BY DEF D!CreateTable, D!Create, D!Object

(* The owners a database can have: nobody has written its row, this plugin, another. *)
Nobody == ""
Owners == {"", D!Us, "other"}

LEMMA OwnersDiffer ==
    /\ Nobody \in Owners /\ D!Us \in Owners /\ "other" \in Owners
    /\ Nobody # D!Us /\ "other" # D!Us /\ "other" # Nobody
BY Zenon DEF Nobody, Owners, D!Us

LEMMA EmptyDatabase ==
    /\ IsDatabase(D!NoDatabase) /\ D!NoDatabase.version = 0 /\ D!NoDatabase.objects = {}
    /\ D!NoDatabase.owner = Nobody
    /\ \A d : d.owner = Nobody => D!Missing(d)
    /\ \A d : d.owner # Nobody /\ D!Table("plugin_schema") \in D!Names(d) => ~D!Missing(d)
<1>1. \A d : (d.owner = Nobody => D!Missing(d))
             /\ (d.owner # Nobody /\ D!Table("plugin_schema") \in D!Names(d) => ~D!Missing(d))
  BY Zenon DEF D!Missing, D!HasSchema, Nobody
<1>2. D!NoDatabase.owner = Nobody
  BY Zenon DEF D!NoDatabase, Nobody
<1>3. D!NoDatabase = D!Of(Nobody, 0, {}, {})
  BY Zenon DEF D!NoDatabase, D!Of, Nobody
<1>4. IsDatabase(D!NoDatabase) /\ D!NoDatabase.version = 0 /\ D!NoDatabase.objects = {}
  BY <1>3 DEF IsDatabase, D!Of
<1> QED
  BY <1>1, <1>2, <1>4

LEMMA OriginalsOf ==
    /\ D!Original("new") = D!NoDatabase
    /\ D!Original("v1") = D!Of(D!Us, 1, D!Layout1, D!OldRows)
    /\ D!Original("v2") = D!Of(D!Us, 2, D!Layout2, D!OldRows)
    /\ D!Original("v3") = D!Of(D!Us, 3, D!Layout3, {[r EXCEPT !.confirmed = r.handled] : r \in D!OldRows})
    /\ D!Original("later") = D!Of(D!Us, 4, D!Layout3, D!OldRows)
    /\ D!Original("foreign") = D!Of("other", 1, D!Objects(<<D!CreateTable("plugin_schema", 1)>>), {})
    /\ D!Original("rowless") = D!Of(Nobody, 0, D!Objects(<<D!CreateTable("plugin_schema", 1)>>), {})
    /\ D!Original("clash") = D!Of(Nobody, 0, D!Objects(<<D!CreateTable("chart_cache", 1)>>), {})
BY DEF D!Original, Nobody

LEMMA Known ==
    ASSUME NEW d \in Strangers
    PROVE  /\ IsDatabase(d) /\ d.version \in 0 .. 4 /\ d.owner \in Owners
           /\ ~(d.owner = D!Us /\ d.version \in 1 .. 3) /\ d # D!NoDatabase
           /\ \/ ~D!Missing(d)
              \/ D!Table("plugin_schema") \in D!Names(d) \/ D!Table("chart_cache") \in D!Names(d)
<1>1. \A o, v, c, r : /\ IsDatabase(D!Of(o, v, c, r)) /\ D!Of(o, v, c, r).owner = o
                      /\ D!Of(o, v, c, r).version = v /\ D!Of(o, v, c, r).objects = c
  BY DEF IsDatabase, D!Of
<1>2. ASSUME NEW q, NEW s, NEW n, Has(q, D!CreateTable(s, n))
      PROVE  \E x \in D!Objects(q) : x.name = D!Table(s)
  BY <1>2, Declares DEF Has, D!Objects
<1>3. \A s : \E x \in D!Objects(<<D!CreateTable(s, 1)>>) : x.name = D!Table(s)
  <2> TAKE s
  <2>1. Has(<<D!CreateTable(s, 1)>>, D!CreateTable(s, 1))
    BY Singles
  <2> QED
    BY <1>2, <2>1
<1>4. \E x \in D!Layout3 : x.name = D!Table("plugin_schema")
  BY <1>2, SchemaScript DEF D!Layout3
<1>5. \A s : (\E x \in d.objects : x.name = D!Table(s)) => D!Table(s) \in D!Names(d) /\ d # D!NoDatabase
  BY EmptyDatabase DEF D!Names
<1>6. CASE d = D!Original("later")
  <2>1. d = D!Of(D!Us, 4, D!Layout3, D!OldRows)
    BY <1>6, OriginalsOf
  <2>2. IsDatabase(d) /\ d.owner = D!Us /\ d.version = 4 /\ d.objects = D!Layout3
    BY <1>1, <2>1
  <2>3. D!Table("plugin_schema") \in D!Names(d) /\ d # D!NoDatabase
    BY <1>4, <1>5, <2>2
  <2> QED
    BY <2>2, <2>3, OwnersDiffer, EmptyDatabase
<1>7. CASE d = D!Original("foreign")
  <2>1. d = D!Of("other", 1, D!Objects(<<D!CreateTable("plugin_schema", 1)>>), {})
    BY <1>7, OriginalsOf
  <2>2. /\ IsDatabase(d) /\ d.owner = "other" /\ d.version = 1
        /\ d.objects = D!Objects(<<D!CreateTable("plugin_schema", 1)>>)
    BY <1>1, <2>1
  <2>3. D!Table("plugin_schema") \in D!Names(d) /\ d # D!NoDatabase
    BY <1>3, <1>5, <2>2
  <2> QED
    BY <2>2, <2>3, OwnersDiffer, EmptyDatabase
<1>8. CASE d = D!Original("rowless")
  <2>1. d = D!Of(Nobody, 0, D!Objects(<<D!CreateTable("plugin_schema", 1)>>), {})
    BY <1>8, OriginalsOf
  <2>2. /\ IsDatabase(d) /\ d.owner = Nobody /\ d.version = 0
        /\ d.objects = D!Objects(<<D!CreateTable("plugin_schema", 1)>>)
    BY <1>1, <2>1
  <2>3. D!Table("plugin_schema") \in D!Names(d) /\ d # D!NoDatabase
    BY <1>3, <1>5, <2>2
  <2> QED
    BY <2>2, <2>3, OwnersDiffer, EmptyDatabase
<1>9. CASE d = D!Original("clash")
  <2>1. d = D!Of(Nobody, 0, D!Objects(<<D!CreateTable("chart_cache", 1)>>), {})
    BY <1>9, OriginalsOf
  <2>2. /\ IsDatabase(d) /\ d.owner = Nobody /\ d.version = 0
        /\ d.objects = D!Objects(<<D!CreateTable("chart_cache", 1)>>)
    BY <1>1, <2>1
  <2>3. D!Table("chart_cache") \in D!Names(d) /\ d # D!NoDatabase
    BY <1>3, <1>5, <2>2
  <2> QED
    BY <2>2, <2>3, OwnersDiffer, EmptyDatabase
<1> QED
  BY <1>6, <1>7, <1>8, <1>9 DEF Strangers

DatabaseParts ==
    /\ disk.version \in 0 .. 4 /\ disk.owner \in Owners
    /\ place \in [D!Procs -> D!Places]
    /\ {p \in D!Procs : place[p] \in D!Inside} = {lock} \ {None}
    /\ lock = None => work = D!NoDatabase /\ script = <<>>
    /\ pathOk \in BOOLEAN /\ faults \in 0 .. MaxFaults

LEMMA DatabaseTyped == (D!TypeOK <=> DatabaseParts) /\ (D!TypeOK' <=> DatabaseParts')
BY Zenon DEF D!TypeOK, Owners, DatabaseParts

LEMMA DatabaseInit == D!Init => DatabaseInv
<1> SUFFICES ASSUME D!Init PROVE DatabaseInv
  OBVIOUS
<1>1. PICK name \in Originals : disk = D!Original(name)
  BY DEF D!Init
<1>2. \A v, c, r : /\ IsDatabase(D!Of(D!Us, v, c, r)) /\ D!Of(D!Us, v, c, r).owner = D!Us
                   /\ D!Of(D!Us, v, c, r).version = v
  BY DEF IsDatabase, D!Of
<1>3. /\ IsDatabase(disk) /\ (D!Ours \/ disk = D!NoDatabase \/ disk \in Strangers)
      /\ disk.version \in 0 .. 4 /\ disk.owner \in Owners
  <2>1. name \in {"new", "v1", "v2", "v3", "later", "foreign", "rowless", "clash"}
    BY OriginalAssumption
  <2>2. CASE name \in {"v1", "v2", "v3"}
    <3>1. \/ disk = D!Of(D!Us, 1, D!Layout1, D!OldRows)
          \/ disk = D!Of(D!Us, 2, D!Layout2, D!OldRows)
          \/ disk = D!Of(D!Us, 3, D!Layout3,
                         {[r EXCEPT !.confirmed = r.handled] : r \in D!OldRows})
      BY <1>1, <2>2, OriginalsOf
    <3>2. IsDatabase(disk) /\ disk.owner = D!Us /\ disk.version \in 1 .. 3
      BY <1>2, <3>1
    <3> QED
      BY <3>2, OwnersDiffer DEF D!Ours
  <2>3. CASE name = "new"
    <3>1. disk = D!NoDatabase
      BY <1>1, <2>3, OriginalsOf
    <3> QED
      BY <3>1, EmptyDatabase, OwnersDiffer
  <2>4. CASE name \in {"later", "foreign", "rowless", "clash"}
    <3>1. disk \in Strangers
      BY <1>1, <2>4 DEF Strangers
    <3> QED
      BY <3>1, Known
  <2> QED
    BY <2>1, <2>2, <2>3, <2>4
<1>4. /\ place = [p \in D!Procs |-> "start"] /\ lock = None /\ work = D!NoDatabase /\ script = <<>>
      /\ pathOk = TRUE /\ faults = 0
  BY DEF D!Init
<1>5. \A p \in D!Procs : place[p] = "start" /\ place[p] \notin D!Inside
  BY <1>4 DEF D!Inside
<1>6. {p \in D!Procs : place[p] \in D!Inside} = {lock} \ {None}
  BY <1>4, <1>5
<1>7. place \in [D!Procs -> D!Places] /\ pathOk \in BOOLEAN /\ faults \in 0 .. MaxFaults
  BY <1>4, OriginalAssumption DEF D!Places
<1>8. D!TypeOK
  BY <1>3, <1>4, <1>6, <1>7, DatabaseTyped DEF DatabaseParts
<1> QED
  BY <1>3, <1>4, <1>5, <1>8 DEF DatabaseInv, D!OpenIsCurrent

(* A process that is in no transaction moves elsewhere, or none does. *)
LEMMA MovedPlace ==
    ASSUME D!TypeOK, NEW p \in D!Procs, NEW x \in D!Places, place' = [place EXCEPT ![p] = x]
    PROVE  /\ place' \in [D!Procs -> D!Places] /\ place'[p] = x
           /\ \A q \in D!Procs \ {p} : place'[q] = place[q]
BY DEF D!TypeOK

LEMMA RestKeeps ==
    ASSUME DatabaseInv, UNCHANGED <<disk, lock, work, script>>,
           pathOk' \in BOOLEAN, faults' \in 0 .. MaxFaults,
           \/ UNCHANGED place
           \/ \E p \in D!Procs, x \in D!Places \ (D!Inside \cup {"open"}) :
                 place[p] \notin D!Inside /\ D!Goes(p, x)
    PROVE  DatabaseInv'
<1>1. D!TypeOK /\ D!OpenIsCurrent
  BY DEF DatabaseInv
<1>2. /\ place' \in [D!Procs -> D!Places]
      /\ \A q \in D!Procs : /\ place'[q] \in D!Inside <=> place[q] \in D!Inside
                            /\ place[q] \in D!Inside => place'[q] = place[q]
                            /\ place'[q] = "open" => place[q] = "open"
  <2>1. CASE UNCHANGED place
    BY <1>1, <2>1, DatabaseTyped DEF DatabaseParts
  <2>2. ASSUME NEW p \in D!Procs, NEW x \in D!Places \ (D!Inside \cup {"open"}),
               place[p] \notin D!Inside, D!Goes(p, x)
        PROVE  <1>2!1 /\ <1>2!2
    BY <1>1, <2>2, MovedPlace DEF D!Goes
  <2> QED
    BY <2>1, <2>2
<1>3. {p \in D!Procs : place'[p] \in D!Inside} = {p \in D!Procs : place[p] \in D!Inside}
  BY <1>2
<1>4. D!TypeOK'
  BY <1>1, <1>2, <1>3, DatabaseTyped DEF DatabaseParts
<1>5. D!OpenIsCurrent'
  BY <1>1, <1>2 DEF D!OpenIsCurrent, D!Ours
<1>6. lock # None => place'[lock] = place[lock]
  BY <1>1, <1>2, Held
<1>7. D!Ours' <=> D!Ours
  BY DEF D!Ours
<1>8. (EnsuringInv => EnsuringInv') /\ (MigratingInv => MigratingInv')
  BY <1>7 DEF EnsuringInv, MigratingInv, Blocked
<1> QED
  BY <1>4, <1>5, <1>6, <1>7, <1>8 DEF DatabaseInv

(* The process in the transaction leaves it, and what is on disk. *)
LEMMA RollbackKeeps ==
    ASSUME DatabaseInv, lock # None, D!Rollback,
           pathOk' \in BOOLEAN, faults' \in 0 .. MaxFaults,
           NEW x \in D!Places \ (D!Inside \cup {"open"}), D!Goes(lock, x)
    PROVE  DatabaseInv'
<1>1. D!TypeOK /\ D!OpenIsCurrent
  BY DEF DatabaseInv
<1>2. lock \in D!Procs /\ \A q \in D!Procs : place[q] \in D!Inside <=> q = lock
  BY <1>1, Held
<1>3. /\ place' \in [D!Procs -> D!Places] /\ place'[lock] = x
      /\ \A q \in D!Procs \ {lock} : place'[q] = place[q]
  BY <1>1, <1>2, MovedPlace DEF D!Goes
<1>4. lock' = None /\ work' = D!NoDatabase /\ script' = <<>> /\ UNCHANGED disk
  BY DEF D!Rollback, D!NoTransaction
<1>5. {p \in D!Procs : place'[p] \in D!Inside} = {lock'} \ {None}
  BY <1>2, <1>3, <1>4
<1>6. D!TypeOK'
  BY <1>1, <1>3, <1>4, <1>5, DatabaseTyped DEF DatabaseParts
<1>7. D!OpenIsCurrent' /\ (D!Ours' <=> D!Ours)
  BY <1>1, <1>3, <1>4 DEF D!OpenIsCurrent, D!Ours
<1> QED
  BY <1>4, <1>6, <1>7 DEF DatabaseInv

(* A transaction begins: it sees what is on disk. *)
LEMMA BeginKeeps ==
    ASSUME DatabaseInv, NEW p \in D!Procs, NEW x \in D!Inside, NEW statements,
           D!Begins(p, x, statements),
           x = "ensuring" => EnsuringInv', x = "migrating" => MigratingInv'
    PROVE  DatabaseInv'
<1>1. D!TypeOK /\ D!OpenIsCurrent
  BY DEF DatabaseInv
<1>2. /\ lock = None /\ lock' = p /\ work' = disk /\ UNCHANGED <<disk, pathOk, faults>>
      /\ place' = [place EXCEPT ![p] = x]
  BY DEF D!Begins, D!Goes
<1>3. x \in D!Places /\ x # "open" /\ p # None
  BY OriginalAssumption DEF D!Inside, D!Places
<1>4. /\ place' \in [D!Procs -> D!Places] /\ place'[p] = x
      /\ \A q \in D!Procs \ {p} : place'[q] = place[q]
  BY <1>1, <1>2, <1>3, MovedPlace
<1>5. \A q \in D!Procs : place[q] \notin D!Inside
  BY <1>1, <1>2, Held, OriginalAssumption
<1>6. {q \in D!Procs : place'[q] \in D!Inside} = {lock'} \ {None}
  BY <1>2, <1>3, <1>4, <1>5
<1>7. D!TypeOK'
  BY <1>1, <1>2, <1>3, <1>4, <1>6, DatabaseTyped DEF DatabaseParts
<1>8. D!OpenIsCurrent' /\ (D!Ours' <=> D!Ours)
  BY <1>1, <1>2, <1>3, <1>4 DEF D!OpenIsCurrent, D!Ours
<1> QED
  BY <1>2, <1>4, <1>7, <1>8 DEF DatabaseInv

LEMMA BeginEnsureKeeps ==
    ASSUME DatabaseInv, NEW p \in D!Procs, D!BeginEnsure(p)
    PROVE  DatabaseInv'
<1> PICK statements : statements = IF D!Missing(disk) THEN D!SchemaSQL ELSE <<>>
  OBVIOUS
<1>1. D!Begins(p, "ensuring", statements)
  BY DEF D!BeginEnsure
<1>2. work' = disk /\ script' = statements /\ UNCHANGED disk
  BY <1>1 DEF D!Begins
<1>3. script' \in Seq(Creating)
  BY <1>2, SchemaScript
<1>4. D!Ours' => work'.owner = D!Us /\ work'.version \in {disk'.version, 3}
  BY <1>2 DEF D!Ours
<1>5. disk' = D!NoDatabase => Has(script', D!SetVersion(3))
  BY <1>2, EmptyDatabase, SchemaScript
<1>6. disk' \in Strangers => (script' = <<>> /\ work' = disk') \/ Blocked'
  <2> SUFFICES ASSUME disk \in Strangers, D!Missing(disk) PROVE Blocked'
    BY <1>2
  <2>1. PICK s \in {"plugin_schema", "chart_cache"} : D!Table(s) \in D!Names(disk)
    BY Known
  <2>2. Has(D!SchemaSQL, D!CreateTable(s, 1))
    BY <2>1, SchemaScript
  <2>3. PICK i \in DOMAIN D!SchemaSQL : D!SchemaSQL[i] = D!CreateTable(s, 1)
    BY <2>2 DEF Has
  <2> QED
    BY <1>2, <2>1, <2>3, Declares DEF Blocked
<1>7. EnsuringInv'
  BY <1>3, <1>4, <1>5, <1>6 DEF EnsuringInv
<1> QED
  BY <1>1, <1>7, BeginKeeps DEF D!Inside

LEMMA BeginMigrateKeeps ==
    ASSUME DatabaseInv, NEW p \in D!Procs, D!BeginMigrate(p)
    PROVE  DatabaseInv'
<1>1. D!Begins(p, "migrating", D!Upgrades(disk.version)) /\ D!Supported(disk)
  BY DEF D!BeginMigrate
<1>2. work' = disk /\ script' = D!Upgrades(disk.version) /\ UNCHANGED disk
  BY <1>1 DEF D!Begins
<1>3. disk.owner = D!Us /\ disk.version \in 1 .. 3 /\ D!Ours'
  BY <1>1, <1>2 DEF D!Supported, D!Ours
<1>4. MigratingInv'
  BY <1>2, <1>3, UpgradeScript DEF MigratingInv
<1> QED
  BY <1>1, <1>4, BeginKeeps DEF D!Inside

LEMMA Tails ==
    ASSUME NEW Kind, NEW q \in Seq(Kind), q # <<>>
    PROVE  /\ Head(q) \in Kind /\ Tail(q) \in Seq(Kind)
           /\ \A s : Has(q, s) => s = Head(q) \/ Has(Tail(q), s)
           /\ \A s : EndsWith(q, s) => (Tail(q) = <<>> /\ Head(q) = s) \/ EndsWith(Tail(q), s)
<1>1. /\ Len(q) \in Nat \ {0} /\ Len(Tail(q)) = Len(q) - 1 /\ Head(q) = q[1] /\ q[1] \in Kind
      /\ DOMAIN q = 1 .. Len(q) /\ DOMAIN Tail(q) = 1 .. Len(q) - 1 /\ Tail(q) \in Seq(Kind)
      /\ \A i \in 1 .. Len(q) - 1 : Tail(q)[i] = q[i + 1]
      /\ (Len(q) = 1 <=> Tail(q) = <<>>)
  <2>1. Len(q) \in Nat /\ DOMAIN q = 1 .. Len(q) /\ Len(q) # 0
    OBVIOUS
  <2>2. Head(q) = q[1] /\ q[1] \in Kind /\ Tail(q) \in Seq(Kind) /\ Len(Tail(q)) = Len(q) - 1
    BY <2>1
  <2>3. DOMAIN Tail(q) = 1 .. Len(q) - 1 /\ \A i \in 1 .. Len(q) - 1 : Tail(q)[i] = q[i + 1]
    BY <2>1
  <2>4. Len(q) = 1 <=> Tail(q) = <<>>
    BY <2>1, <2>2
  <2> QED
    BY <2>1, <2>2, <2>3, <2>4
<1>2. ASSUME NEW i \in DOMAIN q, i # 1
      PROVE  i - 1 \in DOMAIN Tail(q) /\ Tail(q)[i - 1] = q[i]
  BY <1>1, <1>2
<1>3. \A s : Has(q, s) => s = Head(q) \/ Has(Tail(q), s)
  BY <1>1, <1>2 DEF Has
<1>4. Tail(q) # <<>> => Len(Tail(q)) \in 1 .. Len(q) - 1 /\ Tail(q)[Len(Tail(q))] = q[Len(q)]
  BY <1>1
<1> QED
  BY <1>1, <1>3, <1>4 DEF EndsWith

LEMMA StatementKeeps ==
    ASSUME DatabaseInv, lock # None, script # <<>>, ~D!Fails(Head(script), work),
           work' = D!Result(Head(script), work), script' = Tail(script),
           UNCHANGED <<disk, lock, place, pathOk, faults>>
    PROVE  DatabaseInv'
<1>1. D!TypeOK /\ D!OpenIsCurrent /\ IsDatabase(work)
  BY DEF DatabaseInv
<1>2. D!TypeOK'
  BY <1>1, DatabaseTyped DEF DatabaseParts
<1>3. D!OpenIsCurrent' /\ (D!Ours' <=> D!Ours)
  BY <1>1 DEF D!OpenIsCurrent, D!Ours
<1> PICK s, rest : s = Head(script) /\ rest = Tail(script)
  OBVIOUS
<1>4. ASSUME EnsuringInv
      PROVE  IsDatabase(work') /\ EnsuringInv'
  <2>1. s \in Creating /\ rest \in Seq(Creating) /\ s \in Statements
    BY <1>4, Tails, Pieces DEF EnsuringInv
  <2>2. /\ IsDatabase(work')
        /\ \/ work'.owner = work.owner /\ work'.version = work.version
           \/ work'.owner = D!Us /\ work'.version = 3
        /\ s = D!SetVersion(3) => work'.owner = D!Us /\ work'.version = 3
        /\ D!Names(work) \subseteq D!Names(work')
    <3>1. LET e == D!Result(s, work)
          IN  /\ IsDatabase(e)
              /\ \/ e.owner = work.owner /\ e.version = work.version /\ s.do # "version"
                 \/ e.owner = D!Us /\ s = D!SetVersion(e.version)
              /\ D!Names(work) \subseteq D!Names(e)
      BY <1>1, <2>1, Effect
    <3>2. s.do = "create" \/ s = D!SetVersion(3)
      BY <2>1, Kinds
    <3> QED
      BY <3>1, <3>2 DEF D!SetVersion
  <2>3. D!Ours => work'.owner = D!Us /\ work'.version \in {disk.version, 3}
    BY <1>4, <2>2 DEF EnsuringInv
  <2>4. disk = D!NoDatabase => Has(rest, D!SetVersion(3)) \/ (work'.owner = D!Us /\ work'.version = 3)
    BY <1>4, <2>2, Tails DEF EnsuringInv
  <2>5. ASSUME Blocked PROVE Blocked'
    <3>1. PICK i \in DOMAIN script : script[i].do = "create" /\ script[i].object.name \in D!Names(work)
      BY <2>5 DEF Blocked
    <3>2. Has(script, script[i])
      BY DEF Has
    <3>3. script[i] = s \/ Has(rest, script[i])
      BY <1>4, <3>2, Tails DEF EnsuringInv
    <3>4. script[i] # s
      BY <3>1 DEF D!Fails
    <3>5. PICK j \in DOMAIN rest : rest[j] = script[i]
      BY <3>3, <3>4 DEF Has
    <3> QED
      BY <2>2, <3>1, <3>5 DEF Blocked
  <2>6. disk \in Strangers => Blocked'
    BY <1>4, <2>5 DEF EnsuringInv
  <2> QED
    BY <1>3, <2>1, <2>2, <2>3, <2>4, <2>6 DEF EnsuringInv
<1>5. ASSUME MigratingInv
      PROVE  IsDatabase(work') /\ MigratingInv'
  <2>1. s \in Statements /\ rest \in Seq(Statements)
    BY <1>5, Tails DEF MigratingInv
  <2>2. LET e == D!Result(s, work)
        IN  /\ IsDatabase(e)
            /\ \/ e.owner = work.owner /\ e.version = work.version /\ s.do # "version"
               \/ e.owner = D!Us /\ s = D!SetVersion(e.version)
    BY <1>1, <2>1, Effect
  <2>3. /\ IsDatabase(work') /\ work'.owner = D!Us
        /\ s = D!SetVersion(3) => work'.version = 3
    BY <1>5, <2>2 DEF MigratingInv, D!SetVersion
  <2>4. (rest = <<>> /\ s = D!SetVersion(3)) \/ EndsWith(rest, D!SetVersion(3))
    BY <1>5, Tails DEF MigratingInv
  <2> QED
    BY <1>3, <1>5, <2>1, <2>3, <2>4 DEF MigratingInv
<1>6. place[lock] \in D!Inside
  BY <1>1, Held
<1> QED
  BY <1>2, <1>3, <1>4, <1>5, <1>6 DEF DatabaseInv, D!Inside

LEMMA CommitKeeps ==
    ASSUME DatabaseInv, NEW p \in D!Procs, lock # None, D!Commit(p)
    PROVE  DatabaseInv' /\ (~D!Ours /\ disk # D!NoDatabase => disk' = disk)
<1>1. /\ D!TypeOK /\ D!OpenIsCurrent /\ IsDatabase(work)
      /\ lock = p /\ script = <<>> /\ disk' = work /\ lock' = None
      /\ work' = D!NoDatabase /\ script' = <<>> /\ UNCHANGED <<pathOk, faults>>
  BY DEF DatabaseInv, D!Commit, D!NoTransaction
<1>2. \A q \in D!Procs : place[q] \in D!Inside <=> q = p
  BY <1>1, Held
<1> PICK x : x = IF place[p] = "ensuring" THEN "migrate" ELSE "open"
  OBVIOUS
<1>3. x \in D!Places /\ x \notin D!Inside
  BY DEF D!Places, D!Inside
<1>4. /\ place' \in [D!Procs -> D!Places] /\ place'[p] = x
      /\ \A q \in D!Procs \ {p} : place'[q] = place[q]
  BY <1>1, <1>3, MovedPlace DEF D!Commit, D!Goes
<1>5. {q \in D!Procs : place'[q] \in D!Inside} = {lock'} \ {None}
  BY <1>1, <1>2, <1>3, <1>4
<1>6. CASE place[p] = "ensuring"
  <2>1. EnsuringInv
    BY <1>1, <1>6 DEF DatabaseInv
  <2>2. ~Blocked /\ ~Has(script, D!SetVersion(3))
    BY <1>1 DEF Blocked, Has
  <2>3. D!Ours \/ disk = D!NoDatabase \/ disk \in Strangers
    BY DEF DatabaseInv
  <2>4. D!Ours => D!Ours' /\ (disk.version = 3 => disk'.version = 3)
    BY <1>1, <2>1 DEF EnsuringInv, D!Ours
  <2>5. disk = D!NoDatabase => D!Ours'
    BY <1>1, <2>1, <2>2 DEF EnsuringInv, D!Ours
  <2>6. disk \in Strangers => disk' = disk
    BY <1>1, <2>1, <2>2 DEF EnsuringInv
  <2>7. disk'.version \in 0 .. 4 /\ disk'.owner \in Owners /\ (D!Ours' \/ disk' \in Strangers)
    <3>1. CASE D!Ours'
      BY <3>1, OwnersDiffer DEF D!Ours
    <3>2. CASE disk \in Strangers
      BY <2>6, <3>2, Known
    <3> QED
      BY <2>3, <2>4, <2>5, <3>1, <3>2
  <2>8. D!TypeOK'
    BY <1>1, <1>4, <1>5, <2>7, DatabaseTyped DEF DatabaseParts
  <2>9. D!OpenIsCurrent'
    BY <1>1, <1>4, <1>6, <2>4 DEF D!OpenIsCurrent
  <2> QED
    BY <1>1, <2>3, <2>6, <2>7, <2>8, <2>9 DEF DatabaseInv
<1>7. CASE place[p] = "migrating"
  <2>1. MigratingInv
    BY <1>1, <1>7 DEF DatabaseInv
  <2>2. D!Ours /\ D!Ours' /\ disk'.version = 3
    BY <1>1, <2>1 DEF MigratingInv, D!Ours, EndsWith
  <2>3. D!TypeOK'
    BY <1>1, <1>4, <1>5, <2>2, OwnersDiffer, DatabaseTyped DEF DatabaseParts, D!Ours
  <2>4. D!OpenIsCurrent'
    BY <2>2 DEF D!OpenIsCurrent
  <2> QED
    BY <1>1, <2>2, <2>3, <2>4 DEF DatabaseInv
<1> QED
  BY <1>1, <1>2, <1>6, <1>7 DEF D!Inside

LEMMA MirrorKeeps ==
    ASSUME DatabaseInv, NEW p \in D!Procs, D!Mirror(p)
    PROVE  DatabaseInv' /\ D!Ours
<1>1. D!TypeOK /\ D!OpenIsCurrent /\ IsDatabase(disk) /\ lock = None
  BY DEF DatabaseInv, D!Mirror
<1>2. PICK rows : disk' = [disk EXCEPT !.rows = rows]
  BY DEF D!Mirror
<1>3. disk' = D!Of(disk.owner, disk.version, disk.objects, rows)
  BY <1>1, <1>2 DEF IsDatabase, D!Of
<1>4. IsDatabase(disk') /\ disk'.owner = disk.owner /\ disk'.version = disk.version
  BY <1>3 DEF IsDatabase, D!Of
<1>5. D!Ours /\ D!Ours' /\ UNCHANGED <<lock, work, script, place, pathOk, faults>>
  BY <1>1, <1>4 DEF D!OpenIsCurrent, D!Ours, D!Mirror
<1>6. D!TypeOK'
  BY <1>1, <1>4, <1>5, DatabaseTyped DEF DatabaseParts
<1>7. D!OpenIsCurrent'
  BY <1>1, <1>4, <1>5 DEF D!OpenIsCurrent, D!Ours
<1> QED
  BY <1>1, <1>4, <1>5, <1>6, <1>7 DEF DatabaseInv

LEMMA DatabaseStep ==
    DatabaseInv /\ [D!Next]_database
        => DatabaseInv' /\ (~D!Ours /\ disk # D!NoDatabase => disk' = disk)
<1> SUFFICES ASSUME DatabaseInv, [D!Next]_database
             PROVE  DatabaseInv' /\ (~D!Ours /\ disk # D!NoDatabase => disk' = disk)
  OBVIOUS
<1>1. D!TypeOK /\ faults \in 0 .. MaxFaults /\ pathOk \in BOOLEAN /\ MaxFaults \in Nat
  BY DatabaseTyped, OriginalAssumption DEF DatabaseInv, DatabaseParts
<1>2. \A y \in {"failed", "gone", "start", "opening", "ensure", "waiting"} :
          y \in D!Places \ (D!Inside \cup {"open"})
  BY DEF D!Places, D!Inside, D!Ended
<1>3. D!Faulty => faults' \in 0 .. MaxFaults
  BY <1>1 DEF D!Faulty
<1>4. CASE UNCHANGED database
  BY <1>1, <1>4, RestKeeps DEF database
<1>5. CASE D!PathBreaks \/ D!PathIsMended
  BY <1>1, <1>3, <1>5, RestKeeps DEF D!PathBreaks, D!PathIsMended
<1>6. ASSUME NEW p \in D!Procs,
             D!FirstLook(p) \/ D!OpenFile(p) \/ D!RefuseMigrate(p) \/ D!BusyTimeout(p)
             \/ D!TryAgain(p) \/ D!Restart(p)
      PROVE  DatabaseInv' /\ disk' = disk
  <2>1. /\ UNCHANGED <<disk, lock, work, script>> /\ pathOk' = pathOk
        /\ faults' \in 0 .. MaxFaults /\ place[p] \notin D!Inside
    <3>1. CASE D!Restart(p)
      BY <1>1, <3>1 DEF D!Restart, D!Inside, D!Ended
    <3>2. CASE D!FirstLook(p) \/ D!OpenFile(p) \/ D!TryAgain(p)
      BY <1>1, <3>2 DEF D!FirstLook, D!OpenFile, D!TryAgain, D!Inside
    <3>3. CASE D!RefuseMigrate(p) \/ D!BusyTimeout(p)
      BY <1>1, <3>3 DEF D!RefuseMigrate, D!BusyTimeout, D!Inside
    <3> QED
      BY <1>6, <3>1, <3>2, <3>3
  <2>2. \E y \in {"failed", "gone", "start", "opening", "ensure", "waiting"} : D!Goes(p, y)
    BY <1>6 DEF D!FirstLook, D!OpenFile, D!RefuseMigrate, D!BusyTimeout, D!TryAgain,
       D!Restart, D!AfterError
  <2>3. \E y \in D!Places \ (D!Inside \cup {"open"}) : D!Goes(p, y)
    BY <1>2, <2>2
  <2> QED
    BY <1>1, <2>1, <2>3, RestKeeps
<1>7. ASSUME NEW p \in D!Procs, D!BeginEnsure(p) \/ D!BeginMigrate(p)
      PROVE  DatabaseInv' /\ disk' = disk
  BY <1>7, BeginEnsureKeeps, BeginMigrateKeeps DEF D!BeginEnsure, D!BeginMigrate, D!Begins
<1>8. ASSUME NEW p \in D!Procs, lock = p, D!Rollback, pathOk' \in BOOLEAN, faults' \in 0 .. MaxFaults,
             NEW y \in {"failed", "gone", "waiting"}, D!Goes(p, y)
      PROVE  DatabaseInv' /\ disk' = disk
  <2>1. lock # None /\ y \in D!Places \ (D!Inside \cup {"open"})
    BY <1>2, <1>8, OriginalAssumption
  <2> QED
    BY <1>8, <2>1, RollbackKeeps DEF D!Rollback
<1>9. ASSUME NEW p \in D!Procs, D!Statement(p)
      PROVE  DatabaseInv' /\ disk' = disk
  <2>1. lock = p /\ lock # None /\ script # <<>> /\ UNCHANGED <<pathOk, faults>>
    BY <1>9, OriginalAssumption DEF D!Statement
  <2>2. CASE D!Fails(Head(script), work)
    <3>1. D!Rollback /\ \E y \in {"failed", "gone", "waiting"} : D!Goes(p, y)
      BY <1>9, <2>2 DEF D!Statement, D!AfterError
    <3> QED
      BY <1>1, <1>8, <2>1, <3>1
  <2>3. CASE ~D!Fails(Head(script), work)
    <3>1. /\ work' = D!Result(Head(script), work) /\ script' = Tail(script)
          /\ UNCHANGED <<disk, lock, place>>
      BY <1>9, <2>3 DEF D!Statement
    <3> QED
      BY <2>1, <2>3, <3>1, StatementKeeps
  <2> QED
    BY <2>2, <2>3
<1>10. ASSUME NEW p \in D!Procs, D!Commit(p)
       PROVE  DatabaseInv' /\ (~D!Ours /\ disk # D!NoDatabase => disk' = disk)
  <2>1. lock # None
    BY <1>10, OriginalAssumption DEF D!Commit
  <2> QED
    BY <1>10, <2>1, CommitKeeps
<1>11. ASSUME NEW p \in D!Procs, D!Mirror(p) PROVE DatabaseInv' /\ D!Ours
  BY <1>11, MirrorKeeps
<1>12. ASSUME NEW p \in D!Procs, D!Ends(p) PROVE DatabaseInv' /\ disk' = disk
  <2>1. D!Goes(p, "gone") /\ UNCHANGED pathOk /\ faults' \in 0 .. MaxFaults
    BY <1>3, <1>12 DEF D!Ends
  <2>2. CASE lock = p
    BY <1>1, <1>8, <1>12, <2>1, <2>2 DEF D!Ends
  <2>3. CASE lock # p
    <3>1. UNCHANGED <<disk, lock, work, script>> /\ place[p] \notin D!Inside
      BY <1>1, <1>12, <2>3, Held DEF D!Ends
    <3>2. "gone" \in D!Places \ (D!Inside \cup {"open"})
      BY <1>2
    <3> QED
      BY <1>1, <2>1, <3>1, <3>2, RestKeeps
  <2> QED
    BY <2>2, <2>3
<1>13. ASSUME NEW p \in D!Procs, D!InputOutputError(p) PROVE DatabaseInv' /\ disk' = disk
  <2>1. lock = p /\ D!Rollback /\ UNCHANGED pathOk /\ faults' \in 0 .. MaxFaults
    BY <1>3, <1>13 DEF D!InputOutputError
  <2>2. \E y \in {"failed", "gone", "waiting"} : D!Goes(p, y)
    BY <1>13 DEF D!InputOutputError, D!AfterError
  <2> QED
    BY <1>1, <1>8, <2>1, <2>2
<1> QED
  BY <1>4, <1>5, <1>6, <1>7, <1>9, <1>10, <1>11, <1>12, <1>13
  DEF D!Next, D!Opens, D!PathBreaks, D!PathIsMended, database


-----------------------------------------------------------------------------
(***************************************************************************)
(* A script runs from d to e if there are databases between them, each of   *)
(* which the next statement applies to and turns into the next.             *)
(***************************************************************************)
Between(c, q) ==
    \A k \in 1 .. Len(q) : ~D!Fails(q[k], c[k]) /\ c[k + 1] = D!Result(q[k], c[k])

RunsTo(q, d, e) == \E c : c[1] = d /\ c[Len(q) + 1] = e /\ Between(c, q)

LEMMA RunsNothing == \A d, e : RunsTo(<<>>, d, e) <=> d = e
<1> TAKE d, e
<1>1. Len(<<>>) = 0
  OBVIOUS
<1>2. RunsTo(<<>>, d, e) => d = e
  BY <1>1 DEF RunsTo
<1>3. RunsTo(<<>>, d, d)
  <2>1. PICK c : c = [k \in 1 .. 1 |-> d]
    OBVIOUS
  <2>2. c[1] = d /\ c[Len(<<>>) + 1] = d
    BY <1>1, <2>1
  <2>3. Between(c, <<>>)
    BY <1>1 DEF Between
  <2> QED
    BY <2>2, <2>3 DEF RunsTo
<1> QED
  BY <1>2, <1>3

LEMMA RunsOne ==
    ASSUME NEW s, NEW d, ~D!Fails(s, d)
    PROVE  RunsTo(<<s>>, d, D!Result(s, d))
<1> DEFINE c == [k \in 1 .. 2 |-> IF k = 1 THEN d ELSE D!Result(s, d)]
<1>1. c[1] = d /\ c[2] = D!Result(s, d)
  OBVIOUS
<1>2. Len(<<s>>) = 1 /\ <<s>>[1] = s
  OBVIOUS
<1> HIDE DEF c
<1>3. Between(c, <<s>>)
  BY <1>1, <1>2 DEF Between
<1> QED
  BY <1>1, <1>2, <1>3 DEF RunsTo

LEMMA RunsOn ==
    ASSUME NEW Kind, NEW q \in Seq(Kind), NEW r \in Seq(Kind), NEW d, NEW e, NEW f,
           RunsTo(q, d, e), RunsTo(r, e, f)
    PROVE  q \o r \in Seq(Kind) /\ RunsTo(q \o r, d, f)
<1> DEFINE m == Len(q)
           n == Len(r)
<1>1. /\ m \in Nat /\ n \in Nat /\ q \o r \in Seq(Kind) /\ Len(q \o r) = m + n
      /\ \A k \in 1 .. m : (q \o r)[k] = q[k]
      /\ \A k \in 1 .. n : (q \o r)[m + k] = r[k]
  OBVIOUS
<1> HIDE DEF m, n
<1>2. PICK a : a[1] = d /\ a[m + 1] = e /\ Between(a, q)
  BY DEF RunsTo, m
<1>3. PICK b : b[1] = e /\ b[n + 1] = f /\ Between(b, r)
  BY DEF RunsTo, n
<1> DEFINE c == [k \in 1 .. m + n + 1 |-> IF k <= m THEN a[k] ELSE b[k - m]]
<1>4. /\ \A k \in 1 .. m : c[k] = a[k] 
      /\ \A k \in 1 .. n + 1 : c[m + k] = b[k]
  BY <1>1
<1> HIDE DEF c
<1>5. c[1] = d /\ c[m + 1] = e /\ c[m + n + 1] = f
  <2>1. c[m + 1] = b[1] /\ c[m + (n + 1)] = b[n + 1]
    BY <1>1, <1>4
  <2>2. m # 0 => c[1] = a[1]
    BY <1>1, <1>4
  <2>3. m = 0 => d = e /\ c[1] = c[m + 1]
    BY <1>2
  <2>4. m + (n + 1) = m + n + 1
    BY <1>1
  <2> QED
    BY <1>2, <1>3, <2>1, <2>2, <2>3, <2>4
<1>6. ASSUME NEW k \in 1 .. m
      PROVE  ~D!Fails((q \o r)[k], c[k]) /\ c[k + 1] = D!Result((q \o r)[k], c[k])
  <2>1. ~D!Fails(q[k], a[k]) /\ a[k + 1] = D!Result(q[k], a[k])
    BY <1>2 DEF Between, m
  <2>2. c[k + 1] = a[k + 1]
    <3>1. k < m => k + 1 \in 1 .. m
      BY <1>1
    <3>2. k < m \/ k = m
      BY <1>1
    <3> QED
      BY <1>2, <1>4, <1>5, <3>1, <3>2
  <2> QED
    BY <1>1, <1>4, <2>1, <2>2
<1>7. ASSUME NEW j \in 1 .. n
      PROVE  ~D!Fails((q \o r)[m + j], c[m + j]) /\ c[m + j + 1] = D!Result((q \o r)[m + j], c[m + j])
  <2>1. ~D!Fails(r[j], b[j]) /\ b[j + 1] = D!Result(r[j], b[j])
    BY <1>3 DEF Between, n
  <2>2. c[m + j] = b[j] /\ c[m + j + 1] = b[j + 1]
    <3>1. j \in 1 .. n + 1 /\ j + 1 \in 1 .. n + 1 /\ m + j + 1 = m + (j + 1)
      BY <1>1
    <3> QED
      BY <1>4, <3>1
  <2> QED
    BY <1>1, <2>1, <2>2
<1>8. Between(c, q \o r)
  <2> SUFFICES ASSUME NEW k \in 1 .. m + n
               PROVE  ~D!Fails((q \o r)[k], c[k]) /\ c[k + 1] = D!Result((q \o r)[k], c[k])
    BY <1>1 DEF Between
  <2>1. k \in 1 .. m \/ \E j \in 1 .. n : k = m + j
    <3>1. k > m => k - m \in 1 .. n /\ k = m + (k - m)
      BY <1>1
    <3> QED
      BY <1>1, <3>1
  <2> QED
    BY <1>6, <1>7, <2>1
<1> QED
  BY <1>1, <1>5, <1>8 DEF RunsTo

LEMMA RunsHead ==
    ASSUME NEW Kind, NEW q \in Seq(Kind), q # <<>>, NEW d, NEW e, RunsTo(q, d, e)
    PROVE  ~D!Fails(Head(q), d) /\ RunsTo(Tail(q), D!Result(Head(q), d), e)
<1> DEFINE n == Len(q) - 1
<1>1. n \in Nat /\ Len(q) = n + 1 /\ Len(Tail(q)) = n
  OBVIOUS
<1>2. Head(q) = q[1] /\ \A k \in 1 .. n : Tail(q)[k] = q[k + 1]
  OBVIOUS
<1> HIDE DEF n
<1>3. PICK a : a[1] = d /\ a[n + 1 + 1] = e /\ Between(a, q)
  BY <1>1 DEF RunsTo
<1>4. \A k \in 1 .. n + 1 : ~D!Fails(q[k], a[k]) /\ a[k + 1] = D!Result(q[k], a[k])
  BY <1>1, <1>3 DEF Between
<1> DEFINE c == [k \in 1 .. n + 1 |-> a[k + 1]]
<1>5. \A k \in 1 .. n + 1 : c[k] = a[k + 1]
  OBVIOUS
<1> HIDE DEF c
<1>6. 1 \in 1 .. n + 1 /\ n + 1 \in 1 .. n + 1
  BY <1>1
<1>7. ~D!Fails(Head(q), d) /\ a[1 + 1] = D!Result(Head(q), d)
  BY <1>2, <1>3, <1>4, <1>6
<1>8. c[1] = D!Result(Head(q), d) /\ c[n + 1] = e
  BY <1>3, <1>5, <1>6, <1>7
<1>9. ASSUME NEW k \in 1 .. n
      PROVE  ~D!Fails(Tail(q)[k], c[k]) /\ c[k + 1] = D!Result(Tail(q)[k], c[k])
  <2>1. k \in 1 .. n + 1 /\ k + 1 \in 1 .. n + 1
    BY <1>1
  <2> QED
    BY <1>2, <1>4, <1>5, <2>1
<1>10. Between(c, Tail(q))
  BY <1>1, <1>9 DEF Between
<1> QED
  BY <1>1, <1>7, <1>8, <1>10 DEF RunsTo

-----------------------------------------------------------------------------
(***************************************************************************)
(* What each statement does to a database, part by part.                    *)
(***************************************************************************)
NamesOf(X) == {o.name : o \in X}

LEMMA OfIs ==
    \A o, v, X, r :
       /\ D!Of(o, v, X, r).owner = o /\ D!Of(o, v, X, r).version = v
       /\ D!Of(o, v, X, r).objects = X /\ D!Of(o, v, X, r).rows = r
       /\ D!Names(D!Of(o, v, X, r)) = NamesOf(X)
BY DEF D!Of, D!Names, NamesOf

LEMMA Creates ==
    ASSUME NEW o, NEW v, NEW X, NEW r, NEW s, s.do = "create"
    PROVE  /\ D!Result(s, D!Of(o, v, X, r)) = D!Of(o, v, X \cup {s.object}, r)
           /\ s.object.name \notin NamesOf(X)
              /\ (s.object.kind = "table" \/ s.object.on \in NamesOf(X))
                 => ~D!Fails(s, D!Of(o, v, X, r))
<1> DEFINE d == D!Of(o, v, X, r)
<1>1. d.objects = X /\ D!Names(d) = NamesOf(X)
  BY OfIs
<1>2. D!Result(s, d) = [d EXCEPT !.objects = X \cup {s.object}]
  BY <1>1 DEF D!Result
<1>3. [d EXCEPT !.objects = X \cup {s.object}] = D!Of(o, v, X \cup {s.object}, r)
  BY DEF D!Of
<1> HIDE DEF d
<1>4. s.object.name \notin NamesOf(X) /\ (s.object.kind = "table" \/ s.object.on \in NamesOf(X))
         => ~D!Fails(s, d)
  BY <1>1 DEF D!Fails
<1> QED
  BY <1>2, <1>3, <1>4 DEF d

LEMMA Versions ==
    ASSUME NEW o, NEW v, NEW X, NEW r, NEW w
    PROVE  RunsTo(<<D!SetVersion(w)>>, D!Of(o, v, X, r), D!Of(D!Us, w, X, r))
<1> PICK s : s = D!SetVersion(w)
  OBVIOUS
<1> PICK d : d = D!Of(o, v, X, r)
  OBVIOUS
<1> PICK e : e = D!Result(s, d)
  OBVIOUS
<1>1. s.do = "version" /\ s.version = w
  BY DEF D!SetVersion
<1>2. e = [d EXCEPT !.owner = D!Us, !.version = w]
  BY <1>1 DEF D!Result
<1>3. ~D!Fails(s, d)
  BY <1>1 DEF D!Fails
<1>4. RunsTo(<<s>>, d, e)
  BY <1>3, RunsOne
<1>5. d = D!Of(d.owner, d.version, X, r)
  BY DEF D!Of
<1>6. e = D!Of(D!Us, w, X, r)
  BY <1>2, <1>5 DEF D!Of
<1>7. d = D!Of(o, v, X, r) /\ s = D!SetVersion(w)
  OBVIOUS
<1> QED
  BY <1>4, <1>6, <1>7, Zenon

-----------------------------------------------------------------------------
(***************************************************************************)
(* The catalog is made of groups, each with names of its own.               *)
(***************************************************************************)
T(s, n) == D!CreateTable(s, n).object
I(s, p) == D!CreateIndex(s, p).object
P(p) == D!PathTrigger(p).object
W(s) == D!WakeupTrigger(s).object

LEMMA Objectives ==
    /\ \A s, n : /\ D!CreateTable(s, n).do = "create"
                 /\ T(s, n).kind = "table" /\ T(s, n).name = <<s, "table">>
                 /\ T(s, n).on = D!Table(s) /\ T(s, n).into = D!NoTable
    /\ \A s, p : /\ D!CreateIndex(s, p).do = "create"
                 /\ I(s, p).kind = "index" /\ I(s, p).name = <<s, p>>
                 /\ I(s, p).on = D!Table(s) /\ I(s, p).into = D!NoTable
    /\ \A p : /\ D!PathTrigger(p).do = "create"
              /\ P(p).kind = "trigger" /\ P(p).name = <<"task_artifact", p>>
              /\ P(p).on = D!Table("task_artifact") /\ P(p).into = D!NoTable
    /\ \A s : /\ D!WakeupTrigger(s).do = "create"
              /\ W(s).kind = "trigger" /\ W(s).name = <<s, "wakeup">>
              /\ W(s).on = D!Table(s) /\ W(s).into = D!Table("wakeups")
BY DEF T, I, P, W, D!CreateTable, D!CreateIndex, D!PathTrigger, D!WakeupTrigger, D!CreateTrigger,
   D!Create, D!Object, D!Table

LEMMA Named ==
    /\ \A s, n : T(s, n).name = <<s, "table">>
    /\ \A s, p : I(s, p).name = <<s, p>>
    /\ \A p : P(p).name = <<"task_artifact", p>>
    /\ \A s : W(s).name = <<s, "wakeup">>
BY Objectives

Docs2(s, n) == {T(s, n), I(s, "current")}
Base == {T("plugin_schema", 1)}
Homes == {T("homes", 1), T("tasks", 1)}
Cache == {T("chart_cache", 1)}
Mirrors == Docs2("working_set", 1) \cup Docs2("archive", 1) \cup Docs2("task_state", 1)
Core == Base \cup Homes \cup Mirrors \cup Cache
Written2 == Docs2("operational_doc", 2) \cup Docs2("task_artifact", 2)
Tasks == {I("task_artifact", "task"), P("path_insert"), P("path_update")}
Cursor == {T("ingest_file_state", 1), I("ingest_file_state", "project"),
           I("ingest_file_state", "source_agent")}
Queue(n) == {T("wakeups", n), I("wakeups", "unhandled"), I("wakeups", "generation")}
Seating == {T("seats", 1), I("seats", "destination_lease")}
Wakers == {W("working_set"), W("archive"), W("task_state"), W("operational_doc"), W("task_artifact")}

Full3 == Core \cup Written2 \cup Tasks \cup Cursor \cup Queue(3) \cup Seating \cup Wakers
Full2 == Core \cup Written2 \cup Tasks \cup Cursor \cup Queue(2) \cup Wakers
Full1 == Core \cup Docs2("operational_doc", 1) \cup Docs2("task_artifact", 1)
         \cup {I("task_artifact", "task")} \cup Queue(2)

LEMMA NamesOfBoth == NamesOf({}) = {} /\ \A X, Y : NamesOf(X \cup Y) = NamesOf(X) \cup NamesOf(Y)
BY DEF NamesOf

LEMMA GroupNames ==
    /\ NamesOf(Base) = {<<"plugin_schema", "table">>}
    /\ NamesOf(Homes) = {<<"homes", "table">>, <<"tasks", "table">>}
    /\ NamesOf(Cache) = {<<"chart_cache", "table">>}
    /\ \A s, n : NamesOf(Docs2(s, n)) = {<<s, "table">>, <<s, "current">>}
    /\ NamesOf(Tasks) = {<<"task_artifact", "task">>, <<"task_artifact", "path_insert">>,
                        <<"task_artifact", "path_update">>}
    /\ NamesOf(Cursor) = {<<"ingest_file_state", "table">>, <<"ingest_file_state", "project">>,
                         <<"ingest_file_state", "source_agent">>}
    /\ \A n : NamesOf(Queue(n)) = {<<"wakeups", "table">>, <<"wakeups", "unhandled">>,
                                   <<"wakeups", "generation">>}
    /\ NamesOf(Seating) = {<<"seats", "table">>, <<"seats", "destination_lease">>}
    /\ NamesOf(Wakers) = {<<"working_set", "wakeup">>, <<"archive", "wakeup">>,
                         <<"task_state", "wakeup">>, <<"operational_doc", "wakeup">>,
                         <<"task_artifact", "wakeup">>}
<1>1. NamesOf(Base) = {<<"plugin_schema", "table">>} /\ NamesOf(Cache) = {<<"chart_cache", "table">>}
  BY Named DEF NamesOf, Base, Cache
<1>2. /\ NamesOf(Homes) = {<<"homes", "table">>, <<"tasks", "table">>}
      /\ \A s, n : NamesOf(Docs2(s, n)) = {<<s, "table">>, <<s, "current">>}
      /\ NamesOf(Seating) = {<<"seats", "table">>, <<"seats", "destination_lease">>}
  BY Named DEF NamesOf, Homes, Docs2, Seating
<1>3. /\ NamesOf(Tasks) = {<<"task_artifact", "task">>, <<"task_artifact", "path_insert">>,
                        <<"task_artifact", "path_update">>}
      /\ NamesOf(Cursor) = {<<"ingest_file_state", "table">>, <<"ingest_file_state", "project">>,
                         <<"ingest_file_state", "source_agent">>}
      /\ \A n : NamesOf(Queue(n)) = {<<"wakeups", "table">>, <<"wakeups", "unhandled">>,
                                   <<"wakeups", "generation">>}
  BY Named DEF NamesOf, Tasks, Cursor, Queue
<1>4. NamesOf(Wakers) = {<<"working_set", "wakeup">>, <<"archive", "wakeup">>,
                         <<"task_state", "wakeup">>, <<"operational_doc", "wakeup">>,
                         <<"task_artifact", "wakeup">>}
  BY Named DEF NamesOf, Wakers
<1> QED
  BY <1>1, <1>2, <1>3, <1>4

LEMMA MirrorNames ==
    /\ NamesOf(Mirrors) = {<<"working_set", "table">>, <<"working_set", "current">>,
                          <<"archive", "table">>, <<"archive", "current">>,
                          <<"task_state", "table">>, <<"task_state", "current">>}
    /\ NamesOf(Written2) = {<<"operational_doc", "table">>, <<"operational_doc", "current">>,
                           <<"task_artifact", "table">>, <<"task_artifact", "current">>}
<1>1. \A s, n : NamesOf(Docs2(s, n)) = {<<s, "table">>, <<s, "current">>}
  BY GroupNames
<1>2. \A X, Y, Z : NamesOf(X \cup Y \cup Z) = NamesOf(X) \cup NamesOf(Y) \cup NamesOf(Z)
  BY DEF NamesOf
<1>3. NamesOf(Mirrors) = {<<"working_set", "table">>, <<"working_set", "current">>,
                            <<"archive", "table">>, <<"archive", "current">>,
                            <<"task_state", "table">>, <<"task_state", "current">>}
  BY ONLY <1>1, <1>2 DEF Mirrors
<1>4. NamesOf(Written2) = {<<"operational_doc", "table">>, <<"operational_doc", "current">>,
                           <<"task_artifact", "table">>, <<"task_artifact", "current">>}
  BY ONLY <1>1, NamesOfBoth DEF Written2
<1> QED
  BY <1>3, <1>4

LEMMA CoreNames ==
    NamesOf(Core) = NamesOf(Base) \cup NamesOf(Homes) \cup NamesOf(Mirrors) \cup NamesOf(Cache)
BY DEF Core, NamesOf

(***************************************************************************)
(* q declares the objects of G, on any database that has none of their      *)
(* names but has the tables N.                                              *)
(***************************************************************************)
Adds(q, G, N) ==
    /\ q \in Seq(Statements) /\ D!Objects(q) = G
    /\ \A o, v, X, r :
          NamesOf(X) \cap NamesOf(G) = {} /\ N \subseteq NamesOf(X)
              => RunsTo(q, D!Of(o, v, X, r), D!Of(o, v, X \cup G, r))

LEMMA ObjectsOfAll ==
    /\ \A q, r \in Seq(Statements) : D!Objects(q \o r) = D!Objects(q) \cup D!Objects(r)
    /\ \A s : D!Objects(<<s>>) = IF s.do = "create" THEN {s.object} ELSE {}
<1>1. ASSUME NEW q \in Seq(Statements), NEW r \in Seq(Statements)
      PROVE  D!Objects(q \o r) = D!Objects(q) \cup D!Objects(r)
  <2>1. /\ Len(q) \in Nat /\ Len(r) \in Nat /\ DOMAIN q = 1 .. Len(q) /\ DOMAIN r = 1 .. Len(r)
        /\ DOMAIN (q \o r) = 1 .. Len(q) + Len(r)
        /\ \A i \in 1 .. Len(q) : (q \o r)[i] = q[i]
        /\ \A i \in 1 .. Len(r) : (q \o r)[Len(q) + i] = r[i]
    OBVIOUS
  <2>2. \A i \in DOMAIN q : i \in DOMAIN (q \o r) /\ (q \o r)[i] = q[i]
    BY <2>1
  <2>3. \A i \in DOMAIN r : Len(q) + i \in DOMAIN (q \o r) /\ (q \o r)[Len(q) + i] = r[i]
    BY <2>1
  <2>4. ASSUME NEW i \in DOMAIN (q \o r)
        PROVE  i \in DOMAIN q \/ \E j \in DOMAIN r : i = Len(q) + j
    <3>1. i > Len(q) => i - Len(q) \in 1 .. Len(r) /\ i = Len(q) + (i - Len(q))
      BY <2>1
    <3> QED
      BY <2>1, <3>1
  <2>5. PICK a : a = q \o r
    OBVIOUS
  <2>6. D!Objects(a) \subseteq D!Objects(q) \cup D!Objects(r)
    <3> SUFFICES ASSUME NEW i \in DOMAIN a, a[i].do = "create"
                 PROVE  a[i].object \in D!Objects(q) \cup D!Objects(r)
      BY DEF D!Objects
    <3> QED
      BY <2>2, <2>3, <2>4, <2>5 DEF D!Objects
  <2>7. D!Objects(q) \subseteq D!Objects(a) /\ D!Objects(r) \subseteq D!Objects(a)
    BY <2>2, <2>3, <2>5 DEF D!Objects
  <2> QED
    BY <2>5, <2>6, <2>7
<1>2. \A s : D!Objects(<<s>>) = IF s.do = "create" THEN {s.object} ELSE {}
  <2> TAKE s
  <2>1. DOMAIN <<s>> = {1} /\ <<s>>[1] = s
    OBVIOUS
  <2> QED
    BY <2>1 DEF D!Objects
<1> QED
  BY <1>1, <1>2

LEMMA AddsOne ==
    ASSUME NEW s \in Statements, s.do = "create", NEW N,
           s.object.kind = "table" \/ s.object.on \in N
    PROVE  Adds(<<s>>, {s.object}, N)
<1>1. <<s>> \in Seq(Statements) /\ D!Objects(<<s>>) = {s.object}
  BY ObjectsOfAll, Singles
<1>2. ASSUME NEW o, NEW v, NEW X, NEW r, NamesOf(X) \cap NamesOf({s.object}) = {},
             N \subseteq NamesOf(X)
      PROVE  RunsTo(<<s>>, D!Of(o, v, X, r), D!Of(o, v, X \cup {s.object}, r))
  <2>1. s.object.name \notin NamesOf(X)
    BY <1>2 DEF NamesOf
  <2> QED
    BY <1>2, <2>1, Creates, RunsOne
<1> QED
  BY <1>1, <1>2 DEF Adds

LEMMA AddsOn ==
    ASSUME NEW q, NEW G, NEW N, Adds(q, G, N), NEW r, NEW H, NEW M, Adds(r, H, M),
           NamesOf(G) \cap NamesOf(H) = {}, M \subseteq N \cup NamesOf(G)
    PROVE  Adds(q \o r, G \cup H, N)
<1>1. q \in Seq(Statements) /\ r \in Seq(Statements) /\ q \o r \in Seq(Statements)
  BY Joined DEF Adds
<1>2. D!Objects(q \o r) = G \cup H
  BY <1>1, ObjectsOfAll DEF Adds
<1>3. ASSUME NEW o, NEW v, NEW X, NEW rows, NamesOf(X) \cap NamesOf(G \cup H) = {},
             N \subseteq NamesOf(X)
      PROVE  RunsTo(q \o r, D!Of(o, v, X, rows), D!Of(o, v, X \cup (G \cup H), rows))
  <2>1. /\ NamesOf(X) \cap NamesOf(G) = {} /\ NamesOf(X \cup G) \cap NamesOf(H) = {}
        /\ M \subseteq NamesOf(X \cup G)
    BY <1>3, NamesOfBoth
  <2>2. RunsTo(q, D!Of(o, v, X, rows), D!Of(o, v, X \cup G, rows))
    BY <1>3, <2>1 DEF Adds
  <2>3. RunsTo(r, D!Of(o, v, X \cup G, rows), D!Of(o, v, (X \cup G) \cup H, rows))
    BY <2>1 DEF Adds
  <2>4. (X \cup G) \cup H = X \cup (G \cup H)
    OBVIOUS
  <2> QED
    BY <1>1, <2>2, <2>3, <2>4, RunsOn
<1> QED
  BY <1>1, <1>2, <1>3 DEF Adds

LEMMA AddsPieces ==
    /\ \A N : \A s \in Words, n \in Nat : Adds(<<D!CreateTable(s, n)>>, {T(s, n)}, N)
    /\ \A s, p \in Words : Adds(<<D!CreateIndex(s, p)>>, {I(s, p)}, {<<s, "table">>})
    /\ \A p \in Words : Adds(<<D!PathTrigger(p)>>, {P(p)}, {<<"task_artifact", "table">>})
    /\ \A s \in Words : Adds(<<D!WakeupTrigger(s)>>, {W(s)}, {<<s, "table">>})
<1> HIDE DEF Words
<1>1. ASSUME NEW s \in Words, NEW n \in Nat, NEW N
      PROVE  Adds(<<D!CreateTable(s, n)>>, {T(s, n)}, N)
  <2>1. D!CreateTable(s, n) \in Statements /\ D!CreateTable(s, n).do = "create"
        /\ T(s, n).kind = "table"
    BY Pieces, Objectives
  <2> QED
    BY <2>1, AddsOne DEF T
<1>2. ASSUME NEW s \in Words, NEW p \in Words
      PROVE  Adds(<<D!CreateIndex(s, p)>>, {I(s, p)}, {<<s, "table">>})
  <2>1. D!CreateIndex(s, p) \in Statements /\ D!CreateIndex(s, p).do = "create"
        /\ I(s, p).on \in {<<s, "table">>}
    BY Pieces, Objectives DEF D!Table
  <2> QED
    BY <2>1, AddsOne DEF I
<1>3. ASSUME NEW p \in Words
      PROVE  Adds(<<D!PathTrigger(p)>>, {P(p)}, {<<"task_artifact", "table">>})
  <2>1. D!PathTrigger(p) \in Statements /\ D!PathTrigger(p).do = "create"
        /\ P(p).on \in {<<"task_artifact", "table">>}
    BY Pieces, Objectives DEF D!Table
  <2> QED
    BY <2>1, AddsOne DEF P
<1>4. ASSUME NEW s \in Words
      PROVE  Adds(<<D!WakeupTrigger(s)>>, {W(s)}, {<<s, "table">>})
  <2>1. D!WakeupTrigger(s) \in Statements /\ D!WakeupTrigger(s).do = "create"
        /\ W(s).on \in {<<s, "table">>}
    BY Pieces, Objectives DEF D!Table
  <2> QED
    BY <2>1, AddsOne DEF W
<1> QED
  BY <1>1, <1>2, <1>3, <1>4

LEMMA AddsTwo ==
    ASSUME NEW a, NEW x, NEW N, Adds(<<a>>, {x}, N), NEW b, NEW y, NEW M, Adds(<<b>>, {y}, M),
           x.name # y.name, M \subseteq N \cup {x.name}
    PROVE  Adds(<<a, b>>, {x, y}, N)
<1>1. <<a, b>> = <<a>> \o <<b>> /\ {x, y} = {x} \cup {y}
  OBVIOUS
<1>2. NamesOf({x}) = {x.name} /\ NamesOf({y}) = {y.name}
  BY DEF NamesOf
<1>3. Adds(<<a>> \o <<b>>, {x} \cup {y}, N)
  BY <1>2, AddsOn
<1> QED
  BY <1>1, <1>3

LEMMA AddsThree ==
    ASSUME NEW a, NEW x, NEW N, Adds(<<a>>, {x}, N), NEW b, NEW y, NEW M, Adds(<<b>>, {y}, M),
           NEW c, NEW z, NEW L, Adds(<<c>>, {z}, L),
           x.name # y.name, x.name # z.name, y.name # z.name,
           M \subseteq N \cup {x.name}, L \subseteq N \cup {x.name}
    PROVE  Adds(<<a, b, c>>, {x, y, z}, N)
<1>1. <<a, b, c>> = <<a, b>> \o <<c>> /\ {x, y, z} = {x, y} \cup {z}
  OBVIOUS
<1>2. NamesOf({x, y}) = {x.name, y.name} /\ NamesOf({z}) = {z.name}
  BY DEF NamesOf
<1>3. Adds(<<a, b>>, {x, y}, N)
  BY AddsTwo
<1>4. Adds(<<a, b>> \o <<c>>, {x, y} \cup {z}, N)
  BY <1>2, <1>3, AddsOn
<1> QED
  BY <1>1, <1>4

TasksSQL == <<D!CreateIndex("task_artifact", "task"),
              D!PathTrigger("path_insert"), D!PathTrigger("path_update")>>
CursorSQL == <<D!CreateTable("ingest_file_state", 1),
               D!CreateIndex("ingest_file_state", "project"),
               D!CreateIndex("ingest_file_state", "source_agent")>>
QueueSQL == <<D!CreateTable("wakeups", 3),
              D!CreateIndex("wakeups", "unhandled"), D!CreateIndex("wakeups", "generation")>>
SeatingSQL == <<D!CreateTable("seats", 1), D!CreateIndex("seats", "destination_lease")>>
TableOf(s) == {<<s, "table">>}
DocTables == TableOf("working_set") \cup TableOf("archive") \cup TableOf("task_state")
             \cup TableOf("operational_doc") \cup TableOf("task_artifact")

LEMMA AddsGroups ==
    /\ \A s \in Words, n \in Nat : Adds(D!Versioned(s, n), Docs2(s, n), {})
    /\ Adds(TasksSQL, Tasks, TableOf("task_artifact"))
    /\ Adds(CursorSQL, Cursor, {})
    /\ Adds(QueueSQL, Queue(3), {})
    /\ Adds(SeatingSQL, Seating, {})
    /\ Adds(D!WakeupTriggers, Wakers, DocTables)
    /\ Adds(<<D!CreateTable("homes", 1), D!CreateTable("tasks", 1)>>, Homes, {})
    /\ Adds(<<D!CreateTable("plugin_schema", 1)>>, Base, {})
    /\ Adds(<<D!CreateTable("chart_cache", 1)>>, Cache, {})
<1> USE Spelled
<1> HIDE DEF Words
<1>1. ASSUME NEW s \in Words, NEW n \in Nat PROVE Adds(D!Versioned(s, n), Docs2(s, n), {})
  <2>1. Adds(<<D!CreateTable(s, n)>>, {T(s, n)}, {})
    BY AddsPieces
  <2>2. Adds(<<D!CreateIndex(s, "current")>>, {I(s, "current")}, TableOf(s))
    BY AddsPieces DEF TableOf
  <2>3. T(s, n).name # I(s, "current").name /\ TableOf(s) \subseteq {} \cup {T(s, n).name}
    BY Named DEF TableOf
  <2> QED
    BY <2>1, <2>2, <2>3, AddsTwo DEF D!Versioned, Docs2
<1>2. Adds(TasksSQL, Tasks, TableOf("task_artifact"))
  <2>1. /\ Adds(<<D!CreateIndex("task_artifact", "task")>>, {I("task_artifact", "task")}, TableOf("task_artifact"))
        /\ Adds(<<D!PathTrigger("path_insert")>>, {P("path_insert")}, TableOf("task_artifact"))
        /\ Adds(<<D!PathTrigger("path_update")>>, {P("path_update")}, TableOf("task_artifact"))
    BY AddsPieces DEF TableOf
  <2>2. /\ I("task_artifact", "task").name # P("path_insert").name
        /\ I("task_artifact", "task").name # P("path_update").name
        /\ P("path_insert").name # P("path_update").name
    BY Named
  <2> QED
    BY <2>1, <2>2, AddsThree DEF TasksSQL, Tasks
<1>3. Adds(CursorSQL, Cursor, {})
  <2>1. /\ Adds(<<D!CreateTable("ingest_file_state", 1)>>, {T("ingest_file_state", 1)}, {})
        /\ Adds(<<D!CreateIndex("ingest_file_state", "project")>>,
                {I("ingest_file_state", "project")}, TableOf("ingest_file_state"))
        /\ Adds(<<D!CreateIndex("ingest_file_state", "source_agent")>>,
                {I("ingest_file_state", "source_agent")}, TableOf("ingest_file_state"))
    BY AddsPieces DEF TableOf
  <2>2. /\ T("ingest_file_state", 1).name # I("ingest_file_state", "project").name
        /\ T("ingest_file_state", 1).name # I("ingest_file_state", "source_agent").name
        /\ I("ingest_file_state", "project").name # I("ingest_file_state", "source_agent").name
        /\ TableOf("ingest_file_state") \subseteq {} \cup {T("ingest_file_state", 1).name}
    BY Named DEF TableOf
  <2> QED
    BY <2>1, <2>2, AddsThree DEF CursorSQL, Cursor
<1>4. Adds(QueueSQL, Queue(3), {})
  <2>1. /\ Adds(<<D!CreateTable("wakeups", 3)>>, {T("wakeups", 3)}, {})
        /\ Adds(<<D!CreateIndex("wakeups", "unhandled")>>, {I("wakeups", "unhandled")}, TableOf("wakeups"))
        /\ Adds(<<D!CreateIndex("wakeups", "generation")>>, {I("wakeups", "generation")}, TableOf("wakeups"))
    BY AddsPieces DEF TableOf
  <2>2. /\ T("wakeups", 3).name # I("wakeups", "unhandled").name
        /\ T("wakeups", 3).name # I("wakeups", "generation").name
        /\ I("wakeups", "unhandled").name # I("wakeups", "generation").name
        /\ TableOf("wakeups") \subseteq {} \cup {T("wakeups", 3).name}
    BY Named DEF TableOf
  <2> QED
    BY <2>1, <2>2, AddsThree DEF QueueSQL, Queue
<1>5. Adds(SeatingSQL, Seating, {})
  <2>1. /\ Adds(<<D!CreateTable("seats", 1)>>, {T("seats", 1)}, {})
        /\ Adds(<<D!CreateIndex("seats", "destination_lease")>>,
                {I("seats", "destination_lease")}, TableOf("seats"))
    BY AddsPieces DEF TableOf
  <2>2. /\ T("seats", 1).name # I("seats", "destination_lease").name
        /\ TableOf("seats") \subseteq {} \cup {T("seats", 1).name}
    BY Named DEF TableOf
  <2> QED
    BY <2>1, <2>2, AddsTwo DEF SeatingSQL, Seating
<1>6. Adds(D!WakeupTriggers, Wakers, DocTables)
  <2> DEFINE a == W("working_set")
             b == W("archive")
             c == W("task_state")
             d == W("operational_doc")
             e == W("task_artifact")
  <2>1. /\ Adds(<<D!WakeupTrigger("working_set")>>, {a}, TableOf("working_set"))
        /\ Adds(<<D!WakeupTrigger("archive")>>, {b}, TableOf("archive"))
        /\ Adds(<<D!WakeupTrigger("task_state")>>, {c}, TableOf("task_state"))
        /\ Adds(<<D!WakeupTrigger("operational_doc")>>, {d}, TableOf("operational_doc"))
        /\ Adds(<<D!WakeupTrigger("task_artifact")>>, {e}, TableOf("task_artifact"))
    BY AddsPieces DEF TableOf
  <2>2. /\ a.name # b.name /\ a.name # c.name /\ a.name # d.name /\ a.name # e.name
        /\ b.name # c.name /\ b.name # d.name /\ b.name # e.name
        /\ c.name # d.name /\ c.name # e.name /\ d.name # e.name
    BY Named
  <2> HIDE DEF a, b, c, d, e
  <2>3. \A q, G : Adds(q, G, TableOf("working_set")) => Adds(q, G, DocTables)
    BY DEF Adds, DocTables
  <2>4. /\ TableOf("archive") \subseteq DocTables /\ TableOf("task_state") \subseteq DocTables
        /\ TableOf("operational_doc") \subseteq DocTables /\ TableOf("task_artifact") \subseteq DocTables
    BY DEF DocTables
  <2>5. Adds(<<D!WakeupTrigger("working_set"), D!WakeupTrigger("archive"), D!WakeupTrigger("task_state")>>,
             {a, b, c}, DocTables)
    BY <2>1, <2>2, <2>3, <2>4, AddsThree
  <2>6. Adds(<<D!WakeupTrigger("operational_doc"), D!WakeupTrigger("task_artifact")>>, {d, e}, DocTables)
    <3>1. Adds(<<D!WakeupTrigger("operational_doc")>>, {d}, DocTables)
      BY <2>1, <2>4 DEF Adds
    <3> QED
      BY <2>1, <2>2, <2>4, <3>1, AddsTwo
  <2>7. NamesOf({a, b, c}) \cap NamesOf({d, e}) = {}
    BY <2>2 DEF NamesOf
  <2>8. Adds(<<D!WakeupTrigger("working_set"), D!WakeupTrigger("archive"), D!WakeupTrigger("task_state")>>
             \o <<D!WakeupTrigger("operational_doc"), D!WakeupTrigger("task_artifact")>>,
             {a, b, c} \cup {d, e}, DocTables)
    BY <2>5, <2>6, <2>7, AddsOn
  <2>9. Wakers = {a, b, c} \cup {d, e}
    BY DEF Wakers, a, b, c, d, e
  <2>10. D!WakeupTriggers =
            <<D!WakeupTrigger("working_set"), D!WakeupTrigger("archive"), D!WakeupTrigger("task_state")>>
            \o <<D!WakeupTrigger("operational_doc"), D!WakeupTrigger("task_artifact")>>
    BY DEF D!WakeupTriggers
  <2> QED
    BY <2>8, <2>9, <2>10
<1>7. Adds(<<D!CreateTable("homes", 1), D!CreateTable("tasks", 1)>>, Homes, {})
  <2> DEFINE x == T("homes", 1)
             y == T("tasks", 1)
             a == D!CreateTable("homes", 1)
             b == D!CreateTable("tasks", 1)
  <2>1. Adds(<<a>>, {x}, {}) /\ Adds(<<b>>, {y}, {})
    BY AddsPieces
  <2>2. x.name # y.name
    BY Named
  <2>3. Homes = {x, y}
    BY DEF Homes
  <2> HIDE DEF x, y, a, b
  <2>4. {} \subseteq {} \cup {x.name}
    OBVIOUS
  <2>5. Adds(<<a, b>>, {x, y}, {})
    BY ONLY <2>1, <2>2, <2>4, AddsTwo
  <2> QED
    BY <2>3, <2>5 DEF a, b
<1>8. /\ Adds(<<D!CreateTable("plugin_schema", 1)>>, Base, {})
      /\ Adds(<<D!CreateTable("chart_cache", 1)>>, Cache, {})
  BY AddsPieces DEF Base, Cache
<1> QED
  BY <1>1, <1>2, <1>3, <1>4, <1>5, <1>6, <1>7, <1>8

(***************************************************************************)
(* schema.sql on nothing gives a database of version 3.                     *)
(***************************************************************************)
LEMMA SchemaRuns ==
    /\ D!Layout3 = Full3
    /\ RunsTo(D!SchemaSQL, D!NoDatabase, D!Of(D!Us, 3, Full3, {}))
<1> USE Spelled
<1> DEFINE first == <<D!CreateTable("plugin_schema", 1)>>
           version == <<D!SetVersion(3)>>
           a == <<D!CreateTable("homes", 1), D!CreateTable("tasks", 1)>>
           b == D!Versioned("working_set", 1) \o D!Versioned("archive", 1) \o D!Versioned("task_state", 1)
           c == D!Versioned("operational_doc", 2) \o D!Versioned("task_artifact", 2)
           z == <<D!CreateTable("chart_cache", 1)>>
<1> HIDE DEF Words
<1>1. Adds(b, Mirrors, {})
  <2>1. /\ Adds(D!Versioned("working_set", 1), Docs2("working_set", 1), {})
        /\ Adds(D!Versioned("archive", 1), Docs2("archive", 1), {})
        /\ Adds(D!Versioned("task_state", 1), Docs2("task_state", 1), {})
    BY AddsGroups
  <2>2. /\ NamesOf(Docs2("working_set", 1)) \cap NamesOf(Docs2("archive", 1)) = {}
        /\ NamesOf(Docs2("working_set", 1) \cup Docs2("archive", 1)) \cap NamesOf(Docs2("task_state", 1)) = {}
    <3>1. \A s : NamesOf(Docs2(s, 1)) = {<<s, "table">>, <<s, "current">>}
      BY GroupNames
    <3> QED
      BY ONLY <3>1, NamesOfBoth
  <2>3. Adds(D!Versioned("working_set", 1) \o D!Versioned("archive", 1),
             Docs2("working_set", 1) \cup Docs2("archive", 1), {})
    BY ONLY <2>1, <2>2, AddsOn
  <2> QED
    BY ONLY <2>1, <2>2, <2>3, AddsOn DEF Mirrors
<1>2. Adds(c, Written2, {})
  <2>1. /\ Adds(D!Versioned("operational_doc", 2), Docs2("operational_doc", 2), {})
        /\ Adds(D!Versioned("task_artifact", 2), Docs2("task_artifact", 2), {})
    BY AddsGroups
  <2>2. NamesOf(Docs2("operational_doc", 2)) \cap NamesOf(Docs2("task_artifact", 2)) = {}
    BY GroupNames
  <2> QED
    BY <2>1, <2>2, AddsOn DEF Written2
<1> DEFINE G1 == Homes \cup Mirrors
           q1 == a \o b
           G2 == G1 \cup Written2
           q2 == q1 \o c
           G3 == G2 \cup Tasks
           q3 == q2 \o TasksSQL
           G4 == G3 \cup Cursor
           q4 == q3 \o CursorSQL
           G5 == G4 \cup Queue(3)
           q5 == q4 \o QueueSQL
           G6 == G5 \cup Seating
           q6 == q5 \o SeatingSQL
           G7 == G6 \cup Wakers
           q7 == q6 \o D!WakeupTriggers
           G8 == G7 \cup Cache
           q8 == q7 \o z
<1>3. /\ Adds(a, Homes, {}) /\ Adds(TasksSQL, Tasks, TableOf("task_artifact"))
      /\ Adds(CursorSQL, Cursor, {}) /\ Adds(QueueSQL, Queue(3), {}) /\ Adds(SeatingSQL, Seating, {})
      /\ Adds(D!WakeupTriggers, Wakers, DocTables) /\ Adds(z, Cache, {}) /\ Adds(first, Base, {})
  BY AddsGroups
<1>4. D!SchemaSQL = first \o version \o q8
  BY DEF D!SchemaSQL, TasksSQL, CursorSQL, QueueSQL, SeatingSQL, D!Versioned, D!WakeupTriggers
<1> HIDE DEF a, b, c, z, first, version
<1>5. Adds(q1, G1, {}) /\ NamesOf(G1) = NamesOf(Homes) \cup NamesOf(Mirrors)
  <2>1. NamesOf(Homes) \cap NamesOf(Mirrors) = {}
    BY ONLY MirrorNames, GroupNames
  <2> QED
    BY ONLY <1>1, <1>3, <2>1, AddsOn, NamesOfBoth
<1> HIDE DEF G1, q1
<1>6. Adds(q2, G2, {}) /\ NamesOf(G2) = NamesOf(Homes) \cup NamesOf(Mirrors) \cup NamesOf(Written2)
  <2>1. NamesOf(G1) \cap NamesOf(Written2) = {}
    BY ONLY <1>5, MirrorNames, GroupNames
  <2> QED
    BY ONLY <1>2, <1>3, <1>5, <2>1, AddsOn, NamesOfBoth
<1> HIDE DEF G2, q2
<1>7. /\ Adds(q3, G3, {})
      /\ NamesOf(G3) = NamesOf(Homes) \cup NamesOf(Mirrors) \cup NamesOf(Written2)
         \cup NamesOf(Tasks)
  <2>1. NamesOf(G2) \cap NamesOf(Tasks) = {}
    BY ONLY <1>6, MirrorNames, GroupNames
  <2>2. TableOf("task_artifact") \subseteq {} \cup NamesOf(G2)
    BY ONLY <1>6, MirrorNames DEF TableOf, DocTables
  <2> QED
    BY ONLY <1>2, <1>3, <1>6, <2>1, <2>2, AddsOn, NamesOfBoth
<1> HIDE DEF G3, q3
<1>8. /\ Adds(q4, G4, {})
      /\ NamesOf(G4) = NamesOf(Homes) \cup NamesOf(Mirrors) \cup NamesOf(Written2)
         \cup NamesOf(Tasks) \cup NamesOf(Cursor)
  <2>1. NamesOf(G3) \cap NamesOf(Cursor) = {}
    BY ONLY <1>7, MirrorNames, GroupNames
  <2> QED
    BY ONLY <1>2, <1>3, <1>7, <2>1, AddsOn, NamesOfBoth
<1> HIDE DEF G4, q4
<1>9. /\ Adds(q5, G5, {})
      /\ NamesOf(G5) = NamesOf(Homes) \cup NamesOf(Mirrors) \cup NamesOf(Written2)
         \cup NamesOf(Tasks) \cup NamesOf(Cursor) \cup NamesOf(Queue(3))
  <2>1. NamesOf(G4) \cap NamesOf(Queue(3)) = {}
    BY ONLY <1>8, MirrorNames, GroupNames
  <2> QED
    BY ONLY <1>2, <1>3, <1>8, <2>1, AddsOn, NamesOfBoth
<1> HIDE DEF G5, q5
<1>10. /\ Adds(q6, G6, {})
      /\ NamesOf(G6) = NamesOf(Homes) \cup NamesOf(Mirrors) \cup NamesOf(Written2)
         \cup NamesOf(Tasks) \cup NamesOf(Cursor) \cup NamesOf(Queue(3))
         \cup NamesOf(Seating)
  <2>1. NamesOf(G5) \cap NamesOf(Seating) = {}
    BY ONLY <1>9, MirrorNames, GroupNames
  <2> QED
    BY ONLY <1>2, <1>3, <1>9, <2>1, AddsOn, NamesOfBoth
<1> HIDE DEF G6, q6
<1>11. /\ Adds(q7, G7, {})
      /\ NamesOf(G7) = NamesOf(Homes) \cup NamesOf(Mirrors) \cup NamesOf(Written2)
         \cup NamesOf(Tasks) \cup NamesOf(Cursor) \cup NamesOf(Queue(3))
         \cup NamesOf(Seating) \cup NamesOf(Wakers)
  <2>1. NamesOf(G6) \cap NamesOf(Wakers) = {}
    BY ONLY <1>10, MirrorNames, GroupNames
  <2>2. DocTables \subseteq {} \cup NamesOf(G6)
    BY ONLY <1>10, MirrorNames DEF TableOf, DocTables
  <2> QED
    BY ONLY <1>2, <1>3, <1>10, <2>1, <2>2, AddsOn, NamesOfBoth
<1> HIDE DEF G7, q7
<1>12. /\ Adds(q8, G8, {})
      /\ NamesOf(G8) = NamesOf(Homes) \cup NamesOf(Mirrors) \cup NamesOf(Written2)
         \cup NamesOf(Tasks) \cup NamesOf(Cursor) \cup NamesOf(Queue(3))
         \cup NamesOf(Seating) \cup NamesOf(Wakers) \cup NamesOf(Cache)
  <2>1. NamesOf(G7) \cap NamesOf(Cache) = {}
    BY ONLY <1>11, MirrorNames, GroupNames
  <2> QED
    BY ONLY <1>2, <1>3, <1>11, <2>1, AddsOn, NamesOfBoth
<1>13. NamesOf(Base) \cap NamesOf(G8) = {}
  <2> DEFINE n == <<"plugin_schema", "table">>
  <2>1. /\ n \notin NamesOf(Homes) /\ n \notin NamesOf(Mirrors) /\ n \notin NamesOf(Written2)
        /\ n \notin NamesOf(Tasks) /\ n \notin NamesOf(Cursor)
    BY ONLY MirrorNames, GroupNames
  <2>2. /\ n \notin NamesOf(Queue(3)) /\ n \notin NamesOf(Seating)
        /\ n \notin NamesOf(Wakers) /\ n \notin NamesOf(Cache) /\ NamesOf(Base) = {n}
    BY ONLY GroupNames
  <2> HIDE DEF n
  <2> QED
    BY ONLY <1>12, <2>1, <2>2
<1>14. Full3 = Base \cup G8
  BY DEF Full3, Core, G8, G7, G6, G5, G4, G3, G2, G1
<1>15. version \in Seq(Statements) /\ D!Objects(version) = {}
  <2>1. D!SetVersion(3) \in Statements /\ D!SetVersion(3).do # "create"
    BY Pieces DEF D!SetVersion
  <2> QED
    BY <2>1, Singles, ObjectsOfAll DEF version
<1> HIDE DEF G8, q8
<1>16. /\ first \in Seq(Statements) /\ q8 \in Seq(Statements)
       /\ first \o version \in Seq(Statements)
       /\ D!Objects(first) = Base /\ D!Objects(q8) = G8
  BY <1>3, <1>12, <1>15, Joined DEF Adds
<1>17. D!Objects(D!SchemaSQL) = Full3
  BY <1>4, <1>14, <1>15, <1>16, ObjectsOfAll
<1>18. D!NoDatabase = D!Of(Nobody, 0, {}, {})
  BY Zenon DEF D!NoDatabase, D!Of, Nobody
<1>19. RunsTo(first, D!Of(Nobody, 0, {}, {}), D!Of(Nobody, 0, Base, {}))
  <2>1. {} \cup Base = Base /\ NamesOf({}) \cap NamesOf(Base) = {} /\ {} \subseteq NamesOf({})
    BY NamesOfBoth
  <2> QED
    BY <1>3, <2>1 DEF Adds
<1>20. RunsTo(version, D!Of(Nobody, 0, Base, {}), D!Of(D!Us, 3, Base, {}))
  BY Versions DEF version
<1>21. RunsTo(q8, D!Of(D!Us, 3, Base, {}), D!Of(D!Us, 3, Base \cup G8, {}))
  BY <1>12, <1>13 DEF Adds
<1>22. RunsTo(first \o version, D!Of(Nobody, 0, {}, {}), D!Of(D!Us, 3, Base, {}))
  BY <1>15, <1>16, <1>19, <1>20, RunsOn
<1>23. RunsTo(first \o version \o q8, D!Of(Nobody, 0, {}, {}), D!Of(D!Us, 3, Base \cup G8, {}))
  BY <1>16, <1>21, <1>22, RunsOn
<1> QED
  BY <1>4, <1>14, <1>17, <1>18, <1>23 DEF D!Layout3

(***************************************************************************)
(* The earlier layouts, group by group.                                     *)
(***************************************************************************)
LEMMA Sorted ==
    /\ \A s, n : T(s, n).on = <<s, "table">> /\ T(s, n).kind = "table"
    /\ \A s, p : I(s, p).on = <<s, "table">> /\ I(s, p).kind = "index"
    /\ \A p : P(p).on = <<"task_artifact", "table">> /\ P(p).kind = "trigger"
    /\ \A s : W(s).on = <<s, "table">> /\ W(s).kind = "trigger"
BY Objectives DEF D!Table

LEMMA GroupTables ==
    /\ \A x \in Base : x.on = <<"plugin_schema", "table">> /\ x.kind = "table"
    /\ \A x \in Homes : x.on \in {<<"homes", "table">>, <<"tasks", "table">>} /\ x.kind = "table"
    /\ \A x \in Cache : x.on = <<"chart_cache", "table">> /\ x.kind = "table"
    /\ \A s, n : \A x \in Docs2(s, n) : x.on = <<s, "table">> /\ x.kind \in {"table", "index"}
    /\ \A x \in Tasks : x.on = <<"task_artifact", "table">>
    /\ \A x \in Cursor : x.on = <<"ingest_file_state", "table">> /\ x.kind \in {"table", "index"}
    /\ \A n : \A x \in Queue(n) : x.on = <<"wakeups", "table">> /\ x.kind \in {"table", "index"}
    /\ \A x \in Seating : x.on = <<"seats", "table">> /\ x.kind \in {"table", "index"}
    /\ \A x \in Wakers : x.on \in DocTables /\ x.kind = "trigger"
<1>1. /\ \A x \in Base : x.on = <<"plugin_schema", "table">> /\ x.kind = "table"
      /\ \A x \in Homes : x.on \in {<<"homes", "table">>, <<"tasks", "table">>} /\ x.kind = "table"
      /\ \A x \in Cache : x.on = <<"chart_cache", "table">> /\ x.kind = "table"
  <2>1. \A x \in Base : x.on = <<"plugin_schema", "table">> /\ x.kind = "table"
    BY Sorted DEF Base
  <2>2. \A x \in Homes : x.on \in {<<"homes", "table">>, <<"tasks", "table">>} /\ x.kind = "table"
    BY Sorted DEF Homes
  <2>3. \A x \in Cache : x.on = <<"chart_cache", "table">> /\ x.kind = "table"
    BY Sorted DEF Cache
  <2> QED
    BY <2>1, <2>2, <2>3
<1>2. \A s, n : \A x \in Docs2(s, n) : x.on = <<s, "table">> /\ x.kind \in {"table", "index"}
  BY Sorted DEF Docs2
<1>3. /\ \A x \in Tasks : x.on = <<"task_artifact", "table">>
      /\ \A x \in Cursor : x.on = <<"ingest_file_state", "table">> /\ x.kind \in {"table", "index"}
  BY Sorted DEF Tasks, Cursor
<1>4. /\ \A n : \A x \in Queue(n) : x.on = <<"wakeups", "table">> /\ x.kind \in {"table", "index"}
      /\ \A x \in Seating : x.on = <<"seats", "table">> /\ x.kind \in {"table", "index"}
  BY Sorted DEF Queue, Seating
<1>5. \A x \in Wakers : x.on \in DocTables /\ x.kind = "trigger"
  BY Sorted DEF Wakers, DocTables, TableOf
<1> QED
  BY <1>1, <1>2, <1>3, <1>4, <1>5

LEMMA Redeclares ==
    ASSUME NEW X, NEW s, NEW m, NEW n, D!Table(s) \notin NamesOf(X)
    PROVE  D!Redeclared(X \cup {T(s, m)}, s, n) = X \cup {T(s, n)}
<1>1. [T(s, m) EXCEPT !.layout = n] = T(s, n) /\ T(s, m).name = D!Table(s)
  BY DEF T, D!CreateTable, D!Create, D!Object
<1>2. \A x \in X : x.name # D!Table(s)
  BY DEF NamesOf
<1> PICK t, u : t = T(s, m) /\ u = T(s, n)
  OBVIOUS
<1>3. [t EXCEPT !.layout = n] = u /\ t.name = D!Table(s)
  BY <1>1
<1>4. D!Redeclared(X \cup {t}, s, n) = X \cup {u}
  BY <1>2, <1>3 DEF D!Redeclared
<1> QED
  BY <1>4

QueueIndexes == {I("wakeups", "unhandled"), I("wakeups", "generation")}

LEMMA LayoutParts == D!Layout3 = Full3 /\ D!Layout2 = Full2 /\ D!Layout1 = Full1
<1> DEFINE Y == Core \cup Written2 \cup Tasks \cup Cursor \cup QueueIndexes \cup Wakers
           q3 == T("wakeups", 3)
           q2 == T("wakeups", 2)
<1>1. Full3 = Y \cup {q3} \cup Seating /\ Full2 = Y \cup {q2}
  BY DEF Full3, Full2, Queue, QueueIndexes
<1>2. \A x \in Y \cup {q3} : x.on # D!Table("seats")
  <2>1. \A x \in Base \cup Homes \cup Cache : x.on # <<"seats", "table">>
    BY GroupTables
  <2>2. \A x \in Mirrors \cup Written2 : x.on # <<"seats", "table">>
    BY GroupTables DEF Mirrors, Written2
  <2>3. \A x \in Tasks \cup Cursor \cup Queue(3) : x.on # <<"seats", "table">>
    BY GroupTables
  <2>4. \A x \in Wakers : x.on # <<"seats", "table">>
    BY GroupTables DEF DocTables, TableOf
  <2>5. QueueIndexes \cup {q3} \subseteq Queue(3)
    BY DEF QueueIndexes, Queue
  <2> HIDE DEF q3
  <2> QED
    BY <2>1, <2>2, <2>3, <2>4, <2>5 DEF Core, D!Table
<1>3. \A x \in Seating : x.on = D!Table("seats")
  BY GroupTables DEF D!Table
<1>4. D!Table("wakeups") \notin NamesOf(Y)
  <2> DEFINE n == <<"wakeups", "table">>
  <2>1. /\ n \notin NamesOf(Base) /\ n \notin NamesOf(Homes) /\ n \notin NamesOf(Cache)
        /\ n \notin NamesOf(Tasks) /\ n \notin NamesOf(Cursor) /\ n \notin NamesOf(Wakers)
    BY ONLY GroupNames
  <2>2. n \notin NamesOf(Mirrors) /\ n \notin NamesOf(Written2)
    BY ONLY MirrorNames
  <2>3. n \notin NamesOf(QueueIndexes)
    BY Named DEF NamesOf, QueueIndexes
  <2> HIDE DEF n
  <2>4. n \notin NamesOf(Y)
    BY ONLY <2>1, <2>2, <2>3 DEF NamesOf, Y, Core
  <2> QED
    BY <2>4 DEF n, D!Table
<1> HIDE DEF Y
<1>5. D!Layout2 = Full2
  <2>1. {x \in Full3 : x.on # D!Table("seats")} = Y \cup {q3}
    BY <1>1, <1>2, <1>3
  <2> QED
    BY <1>1, <1>4, <2>1, SchemaRuns, Redeclares DEF D!Layout2
<1> DEFINE Z == Core \cup {I("operational_doc", "current")} \cup {I("task_artifact", "current")}
                \cup {I("task_artifact", "task")} \cup Queue(2)
           o1 == T("operational_doc", 1)
           o2 == T("operational_doc", 2)
           t1 == T("task_artifact", 1)
           t2 == T("task_artifact", 2)
           Gone == {P("path_insert"), P("path_update")} \cup Wakers \cup Cursor
<1>6. Full2 = Z \cup {t2} \cup {o2} \cup Gone /\ Full1 = Z \cup {o1} \cup {t1}
  BY DEF Full2, Full1, Written2, Docs2, Tasks
<1>7. \A x \in Z \cup {t2} \cup {o2} : x.kind # "trigger" /\ x.on # D!Table("ingest_file_state")
  <2>1. \A x \in Base \cup Homes \cup Cache : x.kind # "trigger" /\ x.on # <<"ingest_file_state", "table">>
    BY GroupTables
  <2>2. \A x \in Mirrors \cup Written2 : x.kind # "trigger" /\ x.on # <<"ingest_file_state", "table">>
    BY GroupTables DEF Mirrors, Written2
  <2>3. \A x \in Queue(2) : x.kind # "trigger" /\ x.on # <<"ingest_file_state", "table">>
    BY GroupTables
  <2>4. /\ I("task_artifact", "task").kind # "trigger"
        /\ I("task_artifact", "task").on # <<"ingest_file_state", "table">>
    BY Sorted
  <2>5. {I("operational_doc", "current")} \cup {I("task_artifact", "current")} \cup {t2} \cup {o2}
            \subseteq Written2
    BY DEF Written2, Docs2
  <2> HIDE DEF t2, o2
  <2> QED
    BY <2>1, <2>2, <2>3, <2>4, <2>5 DEF Core, D!Table
<1>8. \A x \in Gone : x.kind = "trigger" \/ x.on = D!Table("ingest_file_state")
  <2>1. P("path_insert").kind = "trigger" /\ P("path_update").kind = "trigger"
    BY Sorted
  <2> QED
    BY <2>1, GroupTables DEF D!Table
<1>9. /\ D!Table("operational_doc") \notin NamesOf(Z) /\ D!Table("task_artifact") \notin NamesOf(Z)
      /\ o1.name # D!Table("task_artifact") /\ t2.name # D!Table("operational_doc")
  <2>1. ASSUME NEW n \in {<<"operational_doc", "table">>, <<"task_artifact", "table">>}
        PROVE  n \notin NamesOf(Z)
    <3>1. /\ n \notin NamesOf(Base) /\ n \notin NamesOf(Homes) /\ n \notin NamesOf(Cache)
          /\ n \notin NamesOf(Queue(2))
      BY ONLY <2>1, GroupNames
    <3>2. n \notin NamesOf(Mirrors)
      BY ONLY <2>1, MirrorNames
    <3>3. /\ I("operational_doc", "current").name # n /\ I("task_artifact", "current").name # n
          /\ I("task_artifact", "task").name # n
      BY <2>1, Named
    <3> QED
      BY ONLY <3>1, <3>2, <3>3 DEF NamesOf, Z, Core
  <2>2. o1.name # <<"task_artifact", "table">> /\ t2.name # <<"operational_doc", "table">>
    BY Named
  <2> QED
    BY <2>1, <2>2 DEF D!Table
<1> HIDE DEF Z, Gone, o1, o2, t1, t2
<1>10. {x \in Full2 : x.kind # "trigger" /\ x.on # D!Table("ingest_file_state")} = Z \cup {t2} \cup {o2}
  BY <1>6, <1>7, <1>8
<1>11. D!Redeclared(Z \cup {t2} \cup {o2}, "operational_doc", 1) = Z \cup {t2} \cup {o1}
  <2>1. D!Table("operational_doc") \notin NamesOf(Z \cup {t2})
    BY <1>9 DEF NamesOf
  <2> QED
    BY <2>1, Redeclares DEF o1, o2
<1>12. D!Redeclared(Z \cup {t2} \cup {o1}, "task_artifact", 1) = Z \cup {o1} \cup {t1}
  <2>1. D!Table("task_artifact") \notin NamesOf(Z \cup {o1})
    BY <1>9 DEF NamesOf
  <2>2. Z \cup {t2} \cup {o1} = Z \cup {o1} \cup {t2}
    OBVIOUS
  <2>3. D!Redeclared((Z \cup {o1}) \cup {t2}, "task_artifact", 1) = (Z \cup {o1}) \cup {t1}
    BY ONLY <2>1, Redeclares DEF t1, t2
  <2> QED
    BY <2>2, <2>3
<1>13. D!Layout1 = Full1
  BY <1>5, <1>6, <1>10, <1>11, <1>12 DEF D!Layout1
<1> QED
  BY <1>5, <1>13, SchemaRuns

-----------------------------------------------------------------------------
(***************************************************************************)
(* Indexes and triggers are dropped, a table is rebuilt: rows are rows of   *)
(* tables, so that none is lost.                                            *)
(***************************************************************************)
IsTable(t) == t = <<t[1], "table">>
IsObject(x) == x = D!Object(x.kind, x.name, x.on, x.layout, x.into) /\ IsTable(x.on)
GoodRows(rows) == \A r \in rows : IsTable(r.table) /\ r = D!Row(r.table, r.id, r.handled, r.confirmed)
ContentsOf(rows) == {<<r.table, r.id, r.handled>> : r \in rows}

(* q drops the objects of G, wherever they are. *)
Removes(q, G) ==
    /\ q \in Seq(Statements)
    /\ \A o, v, X, r :
          GoodRows(r) /\ (\A x \in X \cup G : IsTable(x.on)) /\ NamesOf(X) \cap NamesOf(G) = {}
              => RunsTo(q, D!Of(o, v, X \cup G, r), D!Of(o, v, X, r))

LEMMA RemovesOne ==
    ASSUME NEW s \in Words, NEW p \in Words, p # "table", NEW x, x.name = <<s, p>>
    PROVE  Removes(<<D!Drop(<<s, p>>)>>, {x})
<1> PICK n, q : n = <<s, p>> /\ q = D!Drop(n)
  OBVIOUS
<1>1. q.do = "drop" /\ q.name = n /\ q \in Statements
  BY Pieces DEF D!Drop
<1>2. \A t : IsTable(t) => t # n
  BY DEF IsTable
<1>3. ASSUME NEW o, NEW v, NEW X, NEW r, GoodRows(r), \A y \in X \cup {x} : IsTable(y.on),
             NamesOf(X) \cap NamesOf({x}) = {}
      PROVE  RunsTo(<<q>>, D!Of(o, v, X \cup {x}, r), D!Of(o, v, X, r))
  <2> PICK d : d = D!Of(o, v, X \cup {x}, r)
    OBVIOUS
  <2>1. d.objects = X \cup {x} /\ d.rows = r /\ x.name \in D!Names(d)
    BY OfIs DEF NamesOf
  <2>2. ~D!Fails(q, d)
    BY <1>1, <2>1 DEF D!Fails
  <2>3. {y \in d.objects : n \notin {y.name, y.on}} = X
    <3>1. \A y \in X : y.name # n /\ y.on # n
      BY <1>2, <1>3 DEF NamesOf
    <3> QED
      BY <2>1, <3>1
  <2>4. {y \in d.rows : y.table # n} = r
    BY <1>2, <1>3, <2>1 DEF GoodRows
  <2>5. D!Result(q, d) = [d EXCEPT !.objects = X, !.rows = r]
    BY <1>1, <2>3, <2>4 DEF D!Result
  <2>6. D!Result(q, d) = D!Of(o, v, X, r)
    BY <2>5 DEF D!Of
  <2> QED
    BY <2>2, <2>6, RunsOne
<1>4. <<q>> \in Seq(Statements)
  BY <1>1
<1> QED
  BY <1>3, <1>4 DEF Removes

LEMMA RemovesOn ==
    ASSUME NEW q, NEW G, Removes(q, G), NEW r, NEW H, Removes(r, H), NamesOf(G) \cap NamesOf(H) = {}
    PROVE  Removes(q \o r, G \cup H)
<1>1. q \in Seq(Statements) /\ r \in Seq(Statements) /\ q \o r \in Seq(Statements)
  BY Joined DEF Removes
<1>2. ASSUME NEW o, NEW v, NEW X, NEW rows, GoodRows(rows), \A x \in X \cup (G \cup H) : IsTable(x.on),
             NamesOf(X) \cap NamesOf(G \cup H) = {}
      PROVE  RunsTo(q \o r, D!Of(o, v, X \cup (G \cup H), rows), D!Of(o, v, X, rows))
  <2>1. NamesOf(X) \cap NamesOf(H) = {} /\ NamesOf(X \cup H) \cap NamesOf(G) = {}
    BY <1>2, NamesOfBoth
  <2>2. RunsTo(q, D!Of(o, v, (X \cup H) \cup G, rows), D!Of(o, v, X \cup H, rows))
    BY <1>2, <2>1 DEF Removes
  <2>3. RunsTo(r, D!Of(o, v, X \cup H, rows), D!Of(o, v, X, rows))
    BY <1>2, <2>1 DEF Removes
  <2>4. (X \cup H) \cup G = X \cup (G \cup H)
    OBVIOUS
  <2> QED
    BY <1>1, <2>2, <2>3, <2>4, RunsOn
<1> QED
  BY <1>1, <1>2 DEF Removes

(***************************************************************************)
(* A table set aside, declared anew, copied and dropped keeps the table, id *)
(* and handled of its rows; its indexes and triggers go with the old one.   *)
(***************************************************************************)
LEMMA RowIs ==
    ASSUME NEW t, NEW i, NEW h, NEW c, NEW r, r = D!Row(t, i, h, c)
    PROVE  /\ r.table = t /\ r.id = i /\ r.handled = h /\ r.confirmed = c
           /\ \A u : [r EXCEPT !.table = u] = D!Row(u, i, h, c)
           /\ \A u : D!Copied(r, u) = D!Row(u, i, h, h)
<1>1. r.table = t /\ r.id = i /\ r.handled = h /\ r.confirmed = c
  BY DEF D!Row
<1>2. ASSUME NEW u, NEW e, e = [r EXCEPT !.table = u]
      PROVE  e = D!Row(u, i, h, c)
  BY <1>2 DEF D!Row
<1>3. ASSUME NEW u, NEW e, e = [r EXCEPT !.table = u, !.confirmed = h]
      PROVE  e = D!Row(u, i, h, h)
  BY <1>3 DEF D!Row
<1> QED
  BY <1>1, <1>2, <1>3 DEF D!Copied

LEMMA ObjectIs ==
    ASSUME NEW k, NEW n, NEW t, NEW l, NEW i, NEW x, x = D!Object(k, n, t, l, i)
    PROVE  /\ x.kind = k /\ x.name = n /\ x.on = t /\ x.layout = l /\ x.into = i
           /\ \A m, u, j : [x EXCEPT !.name = m, !.on = u, !.into = j] = D!Object(k, m, u, l, j)
<1>1. x.kind = k /\ x.name = n /\ x.on = t /\ x.layout = l /\ x.into = i
  BY DEF D!Object
<1>2. ASSUME NEW m, NEW u, NEW j, NEW e, e = [x EXCEPT !.name = m, !.on = u, !.into = j]
      PROVE  e = D!Object(k, m, u, l, j)
  BY <1>2 DEF D!Object
<1> QED
  BY <1>1, <1>2

(* A table without a trigger that inserts queues nothing. *)
LEMMA QueuesNothing ==
    ASSUME NEW d, NEW t, NEW ids, \A x \in d.objects : x.on = t => x.into = D!NoTable
    PROVE  D!Queued(d, t, ids) = {}
<1>1. ASSUME NEW r \in D!Queued(d, t, ids) PROVE FALSE
  BY <1>1 DEF D!Queued
<1> QED
  BY <1>1

(* The rows that are left of those of the table t. *)
Recopied(rows, t) ==
    {r \in rows : r.table # t}
    \cup {D!Row(t, r.id, r.handled, r.handled) : r \in {x \in rows : x.table = t}}

LEMMA RecopiedKeeps ==
    ASSUME NEW rows, GoodRows(rows), NEW t, IsTable(t)
    PROVE  GoodRows(Recopied(rows, t)) /\ ContentsOf(Recopied(rows, t)) = ContentsOf(rows)
<1>1. \A i, h : IsTable(D!Row(t, i, h, h).table)
  BY RowIs
<1>2. \A i, h : D!Row(t, i, h, h) = D!Row(D!Row(t, i, h, h).table, D!Row(t, i, h, h).id,
                                          D!Row(t, i, h, h).handled, D!Row(t, i, h, h).confirmed)
  BY RowIs
<1>3. GoodRows(Recopied(rows, t))
  BY <1>1, <1>2 DEF GoodRows, Recopied
<1>4. ContentsOf(Recopied(rows, t)) \subseteq ContentsOf(rows)
  <2> SUFFICES ASSUME NEW r \in Recopied(rows, t)
               PROVE  <<r.table, r.id, r.handled>> \in ContentsOf(rows)
    BY DEF ContentsOf
  <2>1. CASE r \in rows
    BY <2>1 DEF ContentsOf
  <2>2. ASSUME NEW x \in rows, x.table = t, r = D!Row(t, x.id, x.handled, x.handled)
        PROVE  <<r.table, r.id, r.handled>> \in ContentsOf(rows)
    <3>1. r.table = x.table /\ r.id = x.id /\ r.handled = x.handled
      BY <2>2, RowIs
    <3> QED
      BY <3>1 DEF ContentsOf
  <2> QED
    BY <2>1, <2>2 DEF Recopied
<1>5. ContentsOf(rows) \subseteq ContentsOf(Recopied(rows, t))
  <2> SUFFICES ASSUME NEW x \in rows
               PROVE  <<x.table, x.id, x.handled>> \in ContentsOf(Recopied(rows, t))
    BY DEF ContentsOf
  <2>1. CASE x.table # t
    BY <2>1 DEF ContentsOf, Recopied
  <2>2. CASE x.table = t
    <3> PICK r : r = D!Row(t, x.id, x.handled, x.handled)
      OBVIOUS
    <3>1. r.table = x.table /\ r.id = x.id /\ r.handled = x.handled
      BY <2>2, RowIs
    <3>2. r \in Recopied(rows, t)
      BY <2>2 DEF Recopied
    <3> QED
      BY <3>1, <3>2 DEF ContentsOf
  <2> QED
    BY <2>1, <2>2
<1> QED
  BY <1>3, <1>4, <1>5

LEMMA RebuildRuns ==
    ASSUME NEW s \in Words, NEW n \in Nat, NEW aside \in {"v1", "v2"},
           NEW Rest, NEW Own, NEW rows, NEW o, NEW v, GoodRows(rows),
           \A x \in Rest \cup Own : IsObject(x),
           \A x \in Rest : /\ x.name \notin {D!Table(s), <<s, aside>>}
                           /\ x.on # D!Table(s) /\ x.into = D!NoTable,
           \A x \in Own : x.on = D!Table(s) /\ x.name # <<s, aside>>,
           D!Table(s) \in NamesOf(Own)
    PROVE  /\ D!Rebuild(s, n, aside) \in Seq(Statements)
           /\ RunsTo(D!Rebuild(s, n, aside), D!Of(o, v, Rest \cup Own, rows),
                     D!Of(o, v, Rest \cup {T(s, n)}, Recopied(rows, D!Table(s))))
<1> PICK t, a : t = D!Table(s) /\ a = <<s, aside>>
  OBVIOUS
<1>1. /\ IsTable(t) /\ \A u : IsTable(u) => u # a
      /\ D!NoTable # t /\ D!NoTable # a /\ t # a
  <2>1. IsTable(t)
    BY DEF IsTable, D!Table
  <2>2. "table" # aside
    OBVIOUS
  <2>3. \A u : IsTable(u) => u # a
    BY <2>2 DEF IsTable
  <2>4. D!NoTable[2] = Nobody /\ Nobody # "table" /\ Nobody # aside
    BY Zenon DEF D!NoTable, Nobody
  <2>5. t[2] = "table" /\ a[2] = aside
    BY DEF D!Table
  <2> QED
    BY <2>1, <2>2, <2>3, <2>4, <2>5
<1> DEFINE q1 == D!Rename(s, aside)
           q2 == D!CreateTable(s, n)
           q3 == D!Copy(s, aside)
           q4 == D!Drop(<<s, aside>>)
<1>2. /\ q1 \in Statements /\ q2 \in Statements /\ q3 \in Statements /\ q4 \in Statements
      /\ q1.do = "rename" /\ q1.from = t /\ q1.to = a
      /\ q2.do = "create" /\ q2.object = T(s, n)
      /\ q3.do = "copy" /\ q3.from = a /\ q3.to = t
      /\ q4.do = "drop" /\ q4.name = a
  <2>1. q1.do = "rename" /\ q1.from = t /\ q1.to = a
    BY DEF D!Rename
  <2>2. q3.do = "copy" /\ q3.from = a /\ q3.to = t
    BY DEF D!Copy
  <2>3. q4.do = "drop" /\ q4.name = a
    BY DEF D!Drop
  <2>4. q2.do = "create" /\ q2.object = T(s, n)
    BY Objectives DEF T
  <2>5. aside \in Words
    BY Spelled
  <2> QED
    BY <2>1, <2>2, <2>3, <2>4, <2>5, Pieces
<1> HIDE DEF q1, q2, q3, q4
<1> DEFINE Mv(y) == IF y = t THEN a ELSE y
           Shift(x) == [x EXCEPT !.name = Mv(@), !.on = Mv(@), !.into = Mv(@)]
           Moved == {Shift(x) : x \in Own}
           rows1 == {[r EXCEPT !.table = Mv(@)] : r \in rows}
           e1 == D!Of(o, v, Rest \cup Moved, rows1)
           e2 == D!Of(o, v, Rest \cup Moved \cup {T(s, n)}, rows1)
           rows3 == rows1 \cup {D!Copied(r, t) : r \in {x \in rows1 : x.table = a}}
           e3 == D!Of(o, v, Rest \cup Moved \cup {T(s, n)}, rows3)
           e4 == D!Of(o, v, Rest \cup {T(s, n)}, Recopied(rows, t))
<1>3. ASSUME NEW x, IsObject(x), NEW e, e = Shift(x)
      PROVE  e = D!Object(x.kind, Mv(x.name), Mv(x.on), x.layout, Mv(x.into))
  <2>1. x = D!Object(x.kind, x.name, x.on, x.layout, x.into)
    BY <1>3 DEF IsObject
  <2>2. e = [x EXCEPT !.name = Mv(x.name), !.on = Mv(x.on), !.into = Mv(x.into)]
    BY <1>3
  <2> HIDE DEF Mv
  <2> QED
    BY ONLY <2>1, <2>2 DEF D!Object
<1>4. ASSUME NEW x \in Rest PROVE Shift(x) = x
  <2> PICK e : e = Shift(x)
    OBVIOUS
  <2>1. e = D!Object(x.kind, Mv(x.name), Mv(x.on), x.layout, Mv(x.into))
    BY <1>3
  <2>2. Mv(x.name) = x.name /\ Mv(x.on) = x.on /\ Mv(x.into) = x.into
    BY <1>1
  <2>3. x = D!Object(x.kind, x.name, x.on, x.layout, x.into)
    BY DEF IsObject
  <2> HIDE DEF Mv
  <2> QED
    BY <2>1, <2>2, <2>3
<1>5. ASSUME NEW x \in Own
      PROVE  /\ Shift(x).on = a /\ Shift(x).name = Mv(x.name) /\ Shift(x).name # t
  <2> PICK e : e = Shift(x)
    OBVIOUS
  <2>1. e = D!Object(x.kind, Mv(x.name), Mv(x.on), x.layout, Mv(x.into))
    BY <1>3
  <2>2. Mv(x.on) = a /\ Mv(x.name) # t
    BY <1>1
  <2> HIDE DEF Mv
  <2>3. e.on = Mv(x.on) /\ e.name = Mv(x.name)
    BY ONLY <2>1 DEF D!Object
  <2> QED
    BY <2>2, <2>3
<1>6. /\ \A x \in Moved : x.on = a /\ x.name # t
      /\ a \in NamesOf(Moved)
  <2>1. \A x \in Moved : x.on = a /\ x.name # t
    BY <1>5
  <2>2. PICK x \in Own : x.name = t
    BY DEF NamesOf
  <2> PICK y : y = Shift(x)
    OBVIOUS
  <2>3. y.name = a /\ y \in Moved
    BY <1>5, <2>2
  <2> HIDE DEF Moved
  <2> QED
    BY <2>1, <2>3 DEF NamesOf
<1>7. rows1 = {IF r.table = t THEN D!Row(a, r.id, r.handled, r.confirmed) ELSE r : r \in rows}
  <2>1. ASSUME NEW r \in rows, NEW e, e = [r EXCEPT !.table = Mv(@)]
        PROVE  e = IF r.table = t THEN D!Row(a, r.id, r.handled, r.confirmed) ELSE r
    <3>1. r = D!Row(r.table, r.id, r.handled, r.confirmed)
      BY DEF GoodRows
    <3>2. e = D!Row(Mv(r.table), r.id, r.handled, r.confirmed)
      BY <2>1, <3>1 DEF D!Row
    <3> QED
      BY <3>1, <3>2
  <2> DEFINE Old(r) == [r EXCEPT !.table = Mv(@)]
             New(r) == IF r.table = t THEN D!Row(a, r.id, r.handled, r.confirmed) ELSE r
  <2>2. \A r \in rows : Old(r) = New(r)
    BY <2>1
  <2>3. rows1 = {Old(r) : r \in rows}
    OBVIOUS
  <2> HIDE DEF Old, rows1
  <2>4. rows1 = {New(r) : r \in rows}
    BY <2>2, <2>3
  <2> QED
    BY <2>4
<1>8. ~D!Fails(q1, D!Of(o, v, Rest \cup Own, rows)) /\ D!Result(q1, D!Of(o, v, Rest \cup Own, rows)) = e1
  <2> PICK d : d = D!Of(o, v, Rest \cup Own, rows)
    OBVIOUS
  <2>1. d.objects = Rest \cup Own /\ d.rows = rows /\ D!Names(d) = NamesOf(Rest \cup Own)
    BY OfIs
  <2>2. t \in D!Names(d) /\ a \notin D!Names(d)
    BY <2>1 DEF NamesOf
  <2>3. ~D!Fails(q1, d)
    BY <1>2, <2>2 DEF D!Fails
  <2>4. {Shift(x) : x \in d.objects} = Rest \cup Moved
    <3> HIDE DEF Shift
    <3> QED
      BY <1>4, <2>1
  <2> DEFINE Shifted(x) == [x EXCEPT !.name = D!Moved(@, q1), !.on = D!Moved(@, q1),
                                     !.into = D!Moved(@, q1)]
             Put(r) == [r EXCEPT !.table = D!Moved(@, q1)]
  <2>6. (\A x : Shifted(x) = Shift(x)) /\ \A r : Put(r) = [r EXCEPT !.table = Mv(@)]
    BY <1>2 DEF D!Moved
  <2>7. PICK oo, rr : oo = {Shifted(x) : x \in d.objects} /\ rr = {Put(r) : r \in d.rows}
    OBVIOUS
  <2>8. D!Result(q1, d) = [d EXCEPT !.objects = oo, !.rows = rr]
    BY <1>2, <2>7 DEF D!Result
  <2>9. oo = Rest \cup Moved /\ rr = rows1
    <3>1. oo = {Shift(x) : x \in d.objects}
      <4> HIDE DEF Shifted, Shift
      <4> QED
        BY <2>6, <2>7
    <3>2. rr = rows1
      <4> DEFINE Old(r) == [r EXCEPT !.table = Mv(@)]
      <4>1. rows1 = {Old(r) : r \in rows} /\ \A r : Put(r) = Old(r)
        BY <2>6
      <4> HIDE DEF Put, Old, rows1
      <4> QED
        BY <2>1, <2>7, <4>1
    <3> QED
      BY <2>4, <3>1, <3>2
  <2> HIDE DEF Moved, rows1
  <2>10. D!Result(q1, d) = e1
    BY <2>8, <2>9 DEF D!Of
  <2> QED
    BY <2>3, <2>10
<1> HIDE DEF Shift, Moved, rows1
<1>9. T(s, n).name = t /\ T(s, n).on = t /\ T(s, n).kind = "table" /\ T(s, n).into = D!NoTable
  BY Objectives DEF D!Table
<1>10. ~D!Fails(q2, e1) /\ D!Result(q2, e1) = e2
  <2>1. T(s, n).name \notin NamesOf(Rest \cup Moved)
    BY <1>6, <1>9 DEF NamesOf
  <2> QED
    BY <1>2, <1>9, <2>1, Creates
<1>11. \A r \in rows1 : r.table = a \/ (r \in rows /\ r.table # t /\ r.table # a)
  <2> SUFFICES ASSUME NEW r \in rows, NEW e, e = IF r.table = t THEN D!Row(a, r.id, r.handled, r.confirmed) ELSE r
               PROVE  e.table = a \/ (e \in rows /\ e.table # t /\ e.table # a)
    BY <1>7
  <2>1. r.table = t => e.table = a
    BY DEF D!Row
  <2>2. r.table # a
    BY <1>1 DEF GoodRows
  <2> QED
    BY <2>1, <2>2
<1>12. ~D!Fails(q3, e2) /\ D!Result(q3, e2) = e3
  <2> PICK d : d = e2
    OBVIOUS
  <2>1. /\ d.objects = Rest \cup Moved \cup {T(s, n)} /\ d.rows = rows1
        /\ D!Names(d) = NamesOf(Rest \cup Moved \cup {T(s, n)})
    BY OfIs
  <2>2. a \in D!Names(d) /\ t \in D!Names(d)
    BY <1>6, <1>9, <2>1 DEF NamesOf
  <2>3. \A x \in d.objects : x.on = t => x.into = D!NoTable
    BY <1>1, <1>6, <1>9, <2>1
  <2>4. D!Insertable(d, t)
    BY <2>3 DEF D!Insertable
  <2>5. \A ids : D!Queued(d, t, ids) = {}
    BY <2>3, QueuesNothing
  <2>6. D!InTable(d, a) = {x \in rows1 : x.table = a}
    BY <2>1 DEF D!InTable
  <2>7. \A r \in rows1 : r.table = a => \E x \in rows : r = D!Row(a, x.id, x.handled, x.confirmed)
    BY <1>1, <1>7 DEF GoodRows
  <2>8. ASSUME NEW r \in rows1, r.table = a
        PROVE  D!Accepts(D!LayoutOf(d, t), D!Copied(r, t))
    <3>1. PICK x \in rows : r = D!Row(a, x.id, x.handled, x.confirmed)
      BY <2>7, <2>8
    <3>2. D!Copied(r, t) = D!Row(t, x.id, x.handled, x.handled)
      BY <3>1, RowIs
    <3>3. D!Row(t, x.id, x.handled, x.handled).confirmed = D!Row(t, x.id, x.handled, x.handled).handled
      BY DEF D!Row
    <3> QED
      BY <3>2, <3>3 DEF D!Accepts
  <2>9. ~D!Fails(q3, d)
    BY <1>2, <2>2, <2>4, <2>6, <2>8 DEF D!Fails
  <2>10. D!Result(q3, d) = [d EXCEPT !.rows = rows3]
    <3> PICK rr : rr = d.rows \cup {D!Copied(r, q3.to) : r \in D!InTable(d, q3.from)}
                         \cup D!Queued(d, q3.to, {r.id : r \in D!InTable(d, q3.from)})
      OBVIOUS
    <3>1. D!Result(q3, d) = [d EXCEPT !.rows = rr]
      BY <1>2 DEF D!Result
    <3>2. D!Queued(d, q3.to, {r.id : r \in D!InTable(d, q3.from)}) = {}
      BY <1>2, <2>5
    <3>3. rr = rows3
      BY <1>2, <2>1, <2>6, <3>2
    <3> QED
      BY <3>1, <3>3
  <2> HIDE DEF rows3
  <2>11. D!Result(q3, d) = e3
    BY <2>10 DEF D!Of
  <2> QED
    BY <2>9, <2>11
<1>13. {r \in rows3 : r.table # a} = Recopied(rows, t)
  <2> DEFINE Old == {x \in rows1 : x.table = a}
  <2>1. {r \in rows1 : r.table # a} = {r \in rows : r.table # t}
    <3>1. ASSUME NEW r \in rows, r.table # t PROVE r \in rows1 /\ r.table # a
      BY <1>1, <1>7, <3>1 DEF GoodRows
    <3> QED
      BY <1>11, <3>1
  <2>2. \A r \in Old : \E x \in rows : x.table = t /\ r = D!Row(a, x.id, x.handled, x.confirmed)
    BY <1>1, <1>7 DEF GoodRows
  <2>3. ASSUME NEW x \in rows, x.table = t
        PROVE  D!Row(a, x.id, x.handled, x.confirmed) \in Old
    <3>1. D!Row(a, x.id, x.handled, x.confirmed).table = a
      BY DEF D!Row
    <3> QED
      BY <1>7, <2>3, <3>1
  <2> PICK C : C = {D!Copied(r, t) : r \in Old}
    OBVIOUS
  <2>4. C = {D!Row(t, x.id, x.handled, x.handled) : x \in {y \in rows : y.table = t}}
    <3>1. ASSUME NEW x \in rows, NEW r, r = D!Row(a, x.id, x.handled, x.confirmed)
          PROVE  D!Copied(r, t) = D!Row(t, x.id, x.handled, x.handled)
      BY <3>1, RowIs
    <3> HIDE DEF Old
    <3> QED
      BY <2>2, <2>3, <3>1
  <2>5. \A r \in C : r.table # a
    <3>1. \A i, h : D!Row(t, i, h, h).table = t
      BY DEF D!Row
    <3> QED
      BY <1>1, <2>4, <3>1
  <2>6. rows3 = rows1 \cup C
    OBVIOUS
  <2> HIDE DEF rows3
  <2> QED
    BY <2>1, <2>4, <2>5, <2>6 DEF Recopied
<1>14. ~D!Fails(q4, e3) /\ D!Result(q4, e3) = e4
  <2> PICK d : d = e3
    OBVIOUS
  <2> HIDE DEF rows3
  <2>1. /\ d.objects = Rest \cup Moved \cup {T(s, n)} /\ d.rows = rows3
        /\ D!Names(d) = NamesOf(Rest \cup Moved \cup {T(s, n)})
    BY OfIs
  <2>2. a \in D!Names(d)
    BY <1>6, <2>1 DEF NamesOf
  <2>3. {x \in d.objects : a \notin {x.name, x.on}} = Rest \cup {T(s, n)}
    <3>1. \A x \in Rest : x.name # a /\ x.on # a
      BY <1>1 DEF IsObject
    <3> QED
      BY <1>1, <1>6, <1>9, <2>1, <3>1
  <2>4. D!Result(q4, d) = [d EXCEPT !.objects = Rest \cup {T(s, n)}, !.rows = Recopied(rows, t)]
    BY <1>2, <1>13, <2>1, <2>3 DEF D!Result
  <2>5. D!Result(q4, d) = e4
    BY <2>4 DEF D!Of
  <2>6. ~D!Fails(q4, d)
    BY <1>2, <2>2 DEF D!Fails
  <2> QED
    BY <2>5, <2>6
<1> HIDE DEF e1, e2, e3, e4
<1>15. /\ RunsTo(<<q1>>, D!Of(o, v, Rest \cup Own, rows), e1) /\ RunsTo(<<q2>>, e1, e2)
       /\ RunsTo(<<q3>>, e2, e3) /\ RunsTo(<<q4>>, e3, e4)
  BY <1>8, <1>10, <1>12, <1>14, RunsOne
<1>16. <<q1>> \in Seq(Statements) /\ <<q2>> \in Seq(Statements) /\ <<q3>> \in Seq(Statements)
       /\ <<q4>> \in Seq(Statements)
  BY <1>2, Singles
<1>17. <<q1>> \o <<q2>> \in Seq(Statements) /\ RunsTo(<<q1>> \o <<q2>>, D!Of(o, v, Rest \cup Own, rows), e2)
  BY <1>15, <1>16, RunsOn
<1>18. <<q1>> \o <<q2>> \o <<q3>> \in Seq(Statements)
       /\ RunsTo(<<q1>> \o <<q2>> \o <<q3>>, D!Of(o, v, Rest \cup Own, rows), e3)
  BY <1>15, <1>16, <1>17, RunsOn
<1>19. <<q1>> \o <<q2>> \o <<q3>> \o <<q4>> \in Seq(Statements)
       /\ RunsTo(<<q1>> \o <<q2>> \o <<q3>> \o <<q4>>, D!Of(o, v, Rest \cup Own, rows), e4)
  BY <1>15, <1>16, <1>18, RunsOn
<1>20. D!Rebuild(s, n, aside) = <<q1>> \o <<q2>> \o <<q3>> \o <<q4>>
  BY DEF D!Rebuild, q1, q2, q3, q4
<1> QED
  BY <1>19, <1>20 DEF e4

-----------------------------------------------------------------------------
(***************************************************************************)
(* The migrations.  q turns a database of version v with the catalog X into *)
(* one of version w with the catalog Y, and keeps the rows.                 *)
(***************************************************************************)
Turns(q, v, X, w, Y) ==
    /\ q \in Seq(Statements)
    /\ \A rows :
          GoodRows(rows)
              => \E after : /\ GoodRows(after) /\ ContentsOf(after) = ContentsOf(rows)
                            /\ RunsTo(q, D!Of(D!Us, v, X, rows), D!Of(D!Us, w, Y, after))

LEMMA TurnsOn ==
    ASSUME NEW q, NEW r, NEW v, NEW w, NEW u, NEW X, NEW Y, NEW Z,
           Turns(q, v, X, w, Y), Turns(r, w, Y, u, Z)
    PROVE  Turns(q \o r, v, X, u, Z)
<1>1. q \in Seq(Statements) /\ r \in Seq(Statements) /\ q \o r \in Seq(Statements)
  BY Joined DEF Turns
<1>2. ASSUME NEW rows, GoodRows(rows)
      PROVE  \E after : /\ GoodRows(after) /\ ContentsOf(after) = ContentsOf(rows)
                        /\ RunsTo(q \o r, D!Of(D!Us, v, X, rows), D!Of(D!Us, u, Z, after))
  <2>1. PICK between : /\ GoodRows(between) /\ ContentsOf(between) = ContentsOf(rows)
                       /\ RunsTo(q, D!Of(D!Us, v, X, rows), D!Of(D!Us, w, Y, between))
    BY <1>2 DEF Turns
  <2>2. PICK after : /\ GoodRows(after) /\ ContentsOf(after) = ContentsOf(between)
                     /\ RunsTo(r, D!Of(D!Us, w, Y, between), D!Of(D!Us, u, Z, after))
    BY <2>1 DEF Turns
  <2>3. RunsTo(q \o r, D!Of(D!Us, v, X, rows), D!Of(D!Us, u, Z, after))
    BY <1>1, <2>1, <2>2, RunsOn
  <2> QED
    BY <2>1, <2>2, <2>3
<1> QED
  BY <1>1, <1>2 DEF Turns

LEMMA TurnsAdding ==
    ASSUME NEW q, NEW G, NEW N, Adds(q, G, N), NEW v, NEW X,
           NamesOf(X) \cap NamesOf(G) = {}, N \subseteq NamesOf(X)
    PROVE  Turns(q, v, X, v, X \cup G)
BY DEF Turns, Adds

LEMMA TurnsRemoving ==
    ASSUME NEW q, NEW G, Removes(q, G), NEW v, NEW X,
           \A x \in X \cup G : IsTable(x.on), NamesOf(X) \cap NamesOf(G) = {}
    PROVE  Turns(q, v, X \cup G, v, X)
BY DEF Turns, Removes

LEMMA TurnsVersion ==
    ASSUME NEW v, NEW w \in {2, 3}, NEW X
    PROVE  Turns(<<D!SetVersion(w)>>, v, X, w, X)
<1>1. <<D!SetVersion(w)>> \in Seq(Statements)
  <2>1. D!SetVersion(w) \in Statements
    BY Pieces
  <2> QED
    BY <2>1, Singles
<1> QED
  BY <1>1, Versions DEF Turns

(* What no trigger of inserts into is plain. *)
Plain(X) == \A x \in X : IsObject(x) /\ x.into = D!NoTable

LEMMA TurnsRebuilding ==
    ASSUME NEW s \in Words, NEW n \in Nat, NEW aside \in {"v1", "v2"}, NEW Rest, NEW Own, NEW v,
           Plain(Rest), Plain(Own),
           NamesOf(Rest) \cap {<<s, "table">>, <<s, aside>>} = {},
           \A x \in Rest : x.on # <<s, "table">>,
           \A x \in Own : x.on = <<s, "table">>,
           <<s, aside>> \notin NamesOf(Own), <<s, "table">> \in NamesOf(Own)
    PROVE  Turns(D!Rebuild(s, n, aside), v, Rest \cup Own, v, Rest \cup {T(s, n)})
<1>1. D!Table(s) = <<s, "table">> /\ IsTable(D!Table(s))
  BY DEF D!Table, IsTable
<1>2. /\ \A x \in Rest \cup Own : IsObject(x)
      /\ \A x \in Rest : /\ x.name \notin {D!Table(s), <<s, aside>>}
                         /\ x.on # D!Table(s) /\ x.into = D!NoTable
      /\ \A x \in Own : x.on = D!Table(s) /\ x.name # <<s, aside>>
      /\ D!Table(s) \in NamesOf(Own)
  BY <1>1 DEF Plain, NamesOf
<1>3. ASSUME NEW rows, GoodRows(rows)
      PROVE  /\ D!Rebuild(s, n, aside) \in Seq(Statements)
             /\ RunsTo(D!Rebuild(s, n, aside), D!Of(D!Us, v, Rest \cup Own, rows),
                       D!Of(D!Us, v, Rest \cup {T(s, n)}, Recopied(rows, D!Table(s))))
  BY <1>2, <1>3, RebuildRuns
<1>4. ASSUME NEW rows, GoodRows(rows)
      PROVE  /\ GoodRows(Recopied(rows, D!Table(s)))
             /\ ContentsOf(Recopied(rows, D!Table(s))) = ContentsOf(rows)
  BY <1>1, <1>4, RecopiedKeeps
<1>5. GoodRows({})
  BY DEF GoodRows
<1> QED
  BY <1>3, <1>4, <1>5 DEF Turns

(* Only the wakeup triggers insert into another table. *)
LEMMA PiecesPlain ==
    /\ \A s, n : IsObject(T(s, n)) /\ T(s, n).into = D!NoTable
    /\ \A s, p : IsObject(I(s, p)) /\ I(s, p).into = D!NoTable
    /\ \A p : IsObject(P(p)) /\ P(p).into = D!NoTable
    /\ \A s : IsObject(W(s)) /\ W(s).into = D!Table("wakeups")
<1>1. ASSUME NEW k, NEW m, NEW s, NEW l, NEW j, NEW x, x = D!Object(k, m, D!Table(s), l, j)
      PROVE  IsObject(x) /\ x.into = j
  <2>1. x.kind = k /\ x.name = m /\ x.on = D!Table(s) /\ x.layout = l /\ x.into = j
    BY <1>1 DEF D!Object
  <2> QED
    BY <1>1, <2>1 DEF IsObject, IsTable, D!Table
<1>2. \A s, n : T(s, n) = D!Object("table", D!Table(s), D!Table(s), n, D!NoTable)
  BY DEF T, D!CreateTable, D!Create
<1>3. \A s, p : I(s, p) = D!Object("index", <<s, p>>, D!Table(s), 1, D!NoTable)
  BY DEF I, D!CreateIndex, D!Create
<1>4. \A p : P(p) = D!Object("trigger", <<"task_artifact", p>>, D!Table("task_artifact"), 1, D!NoTable)
  BY DEF P, D!PathTrigger, D!CreateTrigger, D!Create
<1>5. \A s : W(s) = D!Object("trigger", <<s, "wakeup">>, D!Table(s), 1, D!Table("wakeups"))
  BY DEF W, D!WakeupTrigger, D!CreateTrigger, D!Create
<1>6. \A s, n : IsObject(T(s, n)) /\ T(s, n).into = D!NoTable
  <2> TAKE s, n
  <2> PICK x : x = T(s, n)
    OBVIOUS
  <2>1. x = D!Object("table", D!Table(s), D!Table(s), n, D!NoTable)
    BY <1>2
  <2> QED
    BY <1>1, <2>1
<1>7. \A s, p : IsObject(I(s, p)) /\ I(s, p).into = D!NoTable
  <2> TAKE s, p
  <2> PICK x : x = I(s, p)
    OBVIOUS
  <2>1. x = D!Object("index", <<s, p>>, D!Table(s), 1, D!NoTable)
    BY <1>3
  <2> QED
    BY <1>1, <2>1
<1>8. \A p : IsObject(P(p)) /\ P(p).into = D!NoTable
  <2> TAKE p
  <2> PICK s : s = "task_artifact"
    OBVIOUS
  <2> PICK x : x = P(p)
    OBVIOUS
  <2>1. x = D!Object("trigger", <<s, p>>, D!Table(s), 1, D!NoTable)
    BY <1>4
  <2> QED
    BY <1>1, <2>1
<1>9. \A s : IsObject(W(s)) /\ W(s).into = D!Table("wakeups")
  <2> TAKE s
  <2> PICK x : x = W(s)
    OBVIOUS
  <2>1. x = D!Object("trigger", <<s, "wakeup">>, D!Table(s), 1, D!Table("wakeups"))
    BY <1>5
  <2> QED
    BY <1>1, <2>1
<1> QED
  BY <1>6, <1>7, <1>8, <1>9

LEMMA GroupsPlain ==
    /\ Plain(Core) /\ Plain(Tasks) /\ Plain(Cursor) /\ Plain(Seating)
    /\ \A s, n : Plain(Docs2(s, n))
    /\ Plain(Written2)
    /\ \A n : Plain(Queue(n))
    /\ \A x \in Wakers : IsObject(x) /\ x.into = D!Table("wakeups")
<1>1. \A s, n : Plain(Docs2(s, n))
  BY PiecesPlain DEF Plain, Docs2
<1>2. \A X, Y : Plain(X) /\ Plain(Y) => Plain(X \cup Y)
  BY DEF Plain
<1>3. Plain(Base) /\ Plain(Homes) /\ Plain(Cache)
  BY PiecesPlain DEF Plain, Base, Homes, Cache
<1>4. Plain(Mirrors) /\ Plain(Written2)
  BY <1>1, <1>2 DEF Mirrors, Written2
<1>5. Plain(Core)
  BY <1>2, <1>3, <1>4 DEF Core
<1>6. Plain(Tasks) /\ Plain(Cursor) /\ Plain(Seating)
  BY PiecesPlain DEF Plain, Tasks, Cursor, Seating
<1>7. \A n : Plain(Queue(n))
  BY PiecesPlain DEF Plain, Queue
<1>8. \A x \in Wakers : IsObject(x) /\ x.into = D!Table("wakeups")
  BY PiecesPlain DEF Wakers
<1> QED
  BY <1>1, <1>4, <1>5, <1>6, <1>7, <1>8

(* The subjects and the parts of the names of each group. *)
LEMMA GroupSubjects ==
    /\ \A n \in NamesOf(Core) :
          /\ n[1] \notin {"operational_doc", "task_artifact", "ingest_file_state", "wakeups", "seats"}
          /\ n[2] \in {"table", "current"}
    /\ \A s, m : \A n \in NamesOf(Docs2(s, m)) : n[1] = s /\ n[2] \in {"table", "current"}
    /\ \A n \in NamesOf(Tasks) :
          n[1] = "task_artifact" /\ n[2] \in {"task", "path_insert", "path_update"}
    /\ \A n \in NamesOf(Cursor) :
          n[1] = "ingest_file_state" /\ n[2] \in {"table", "project", "source_agent"}
    /\ \A m : \A n \in NamesOf(Queue(m)) :
                 n[1] = "wakeups" /\ n[2] \in {"table", "unhandled", "generation"}
    /\ \A n \in NamesOf(Seating) : n[1] = "seats" /\ n[2] \in {"table", "destination_lease"}
    /\ \A n \in NamesOf(Wakers) : n[2] = "wakeup"
<1>1. \A n \in NamesOf(Base) \cup NamesOf(Homes) \cup NamesOf(Cache) :
         /\ n[1] \notin {"operational_doc", "task_artifact", "ingest_file_state", "wakeups", "seats"}
         /\ n[2] \in {"table", "current"}
  BY ONLY GroupNames
<1>2. \A n \in NamesOf(Mirrors) :
         /\ n[1] \notin {"operational_doc", "task_artifact", "ingest_file_state", "wakeups", "seats"}
         /\ n[2] \in {"table", "current"}
  BY ONLY MirrorNames
<1>3. \A n \in NamesOf(Core) :
         /\ n[1] \notin {"operational_doc", "task_artifact", "ingest_file_state", "wakeups", "seats"}
         /\ n[2] \in {"table", "current"}
  BY ONLY <1>1, <1>2, CoreNames
<1>4. \A s, m : \A n \in NamesOf(Docs2(s, m)) : n[1] = s /\ n[2] \in {"table", "current"}
  BY ONLY GroupNames
<1>5. \A n \in NamesOf(Tasks) :
         n[1] = "task_artifact" /\ n[2] \in {"task", "path_insert", "path_update"}
  BY ONLY GroupNames
<1>6. \A n \in NamesOf(Cursor) :
         n[1] = "ingest_file_state" /\ n[2] \in {"table", "project", "source_agent"}
  BY ONLY GroupNames
<1>7. \A m : \A n \in NamesOf(Queue(m)) :
                n[1] = "wakeups" /\ n[2] \in {"table", "unhandled", "generation"}
  BY ONLY GroupNames
<1>8. \A n \in NamesOf(Seating) : n[1] = "seats" /\ n[2] \in {"table", "destination_lease"}
  BY ONLY GroupNames
<1>9. \A n \in NamesOf(Wakers) : n[2] = "wakeup"
  BY ONLY GroupNames
<1> QED
  BY ONLY <1>3, <1>4, <1>5, <1>6, <1>7, <1>8, <1>9

(***************************************************************************)
(* From version 1 to 2: the cursors, the two tables of names, the triggers. *)
(* The script runs to its end on a database of version 1, whatever rows it  *)
(* has, leaves the catalog of version 2, and keeps the rows (the first      *)
(* script of MigrateContext).                                               *)
(***************************************************************************)
THEOREM FirstMigrationTurns == Turns(D!MigrationV1ToV2, 1, Full1, 2, Full2)
<1> HIDE DEF Words
<1> DEFINE pending == I("task_artifact", "task")
           Doc1 == Docs2("operational_doc", 1)
           Doc2 == Docs2("operational_doc", 2)
           Art1 == Docs2("task_artifact", 1) \cup {pending}
           Art2 == Docs2("task_artifact", 2)
           Rest1 == Core \cup Art1 \cup Queue(2) \cup Cursor
           Rest2 == Core \cup Doc2 \cup Queue(2) \cup Cursor
           All == Rest2 \cup Art2 \cup Tasks
           q2 == D!Rebuild("operational_doc", 2, "v1")
           q3 == <<D!CreateIndex("operational_doc", "current")>>
           q4 == D!Rebuild("task_artifact", 2, "v1")
           q5 == <<D!CreateIndex("task_artifact", "current")>>
<1>1. D!MigrationV1ToV2 = CursorSQL \o q2 \o q3 \o q4 \o q5 \o TasksSQL \o D!WakeupTriggers \o <<D!SetVersion(2)>>
  BY DEF D!MigrationV1ToV2, CursorSQL, TasksSQL, D!Rebuild, D!WakeupTriggers
<1>2. /\ Adds(CursorSQL, Cursor, {}) /\ Adds(TasksSQL, Tasks, TableOf("task_artifact"))
      /\ Adds(D!WakeupTriggers, Wakers, DocTables)
      /\ Adds(q3, {I("operational_doc", "current")}, TableOf("operational_doc"))
      /\ Adds(q5, {I("task_artifact", "current")}, TableOf("task_artifact"))
  BY AddsGroups, AddsPieces, Spelled DEF TableOf
<1>3. /\ Full1 \cup Cursor = Rest1 \cup Doc1
      /\ Rest1 \cup {T("operational_doc", 2)} \cup {I("operational_doc", "current")} = Rest2 \cup Art1
      /\ Rest2 \cup {T("task_artifact", 2)} \cup {I("task_artifact", "current")} = Rest2 \cup Art2
      /\ All \cup Wakers = Full2
  BY DEF Full1, Full2, Docs2, Written2
<1>4. /\ NamesOf(Doc1) = {<<"operational_doc", "table">>, <<"operational_doc", "current">>}
      /\ NamesOf(Doc2) = NamesOf(Doc1)
      /\ NamesOf(Art2) = {<<"task_artifact", "table">>, <<"task_artifact", "current">>}
      /\ NamesOf(Docs2("task_artifact", 1)) = NamesOf(Art2)
      /\ NamesOf({pending}) = {<<"task_artifact", "task">>}
  <2>1. \A s, n : NamesOf(Docs2(s, n)) = {<<s, "table">>, <<s, "current">>}
    BY GroupNames
  <2>2. NamesOf({pending}) = {<<"task_artifact", "task">>}
    BY Named DEF NamesOf
  <2> QED
    BY <2>1, <2>2
<1>5. NamesOf(Art1) = NamesOf(Art2) \cup NamesOf({pending})
  BY <1>4, NamesOfBoth
<1>s. /\ \A n \in NamesOf(Doc1) : n[1] = "operational_doc" /\ n[2] \in {"table", "current"}
      /\ \A n \in NamesOf(Doc2) : n[1] = "operational_doc" /\ n[2] \in {"table", "current"}
      /\ \A n \in NamesOf(Art2) : n[1] = "task_artifact" /\ n[2] \in {"table", "current"}
      /\ \A n \in NamesOf(Art1) : n[1] = "task_artifact"
  <2>1. \A n \in NamesOf(Doc1) : n[1] = "operational_doc" /\ n[2] \in {"table", "current"}
    BY ONLY <1>4
  <2>2. \A n \in NamesOf(Art2) : n[1] = "task_artifact" /\ n[2] \in {"table", "current"}
    BY ONLY <1>4
  <2>3. \A n \in NamesOf({pending}) : n[1] = "task_artifact"
    BY ONLY <1>4
  <2>4. \A n \in NamesOf(Art1) : n[1] = "task_artifact"
    BY ONLY <1>5, <2>2, <2>3
  <2>5. NamesOf(Doc2) = NamesOf(Doc1)
    BY ONLY <1>4
  <2> QED
    BY ONLY <2>1, <2>2, <2>4, <2>5
<1> HIDE DEF pending, Doc1, Doc2, Art2, q2, q3, q4, q5
<1>6. /\ Plain(Core) /\ Plain(Art1) /\ Plain(Doc1) /\ Plain(Doc2) /\ Plain(Queue(2)) /\ Plain(Cursor)
  <2>1. Plain(Doc1) /\ Plain(Doc2) /\ Plain(Docs2("task_artifact", 1)) /\ Plain(Tasks)
    BY GroupsPlain DEF Doc1, Doc2
  <2>2. Plain(Art1)
    BY <2>1 DEF Plain, Tasks, pending
  <2> QED
    BY <2>1, <2>2, GroupsPlain
<1>7. /\ \A x \in Doc1 : x.on = <<"operational_doc", "table">>
      /\ \A x \in Doc2 : x.on = <<"operational_doc", "table">>
      /\ \A x \in Art1 : x.on = <<"task_artifact", "table">>
  <2>1. pending.on = <<"task_artifact", "table">>
    BY Sorted DEF pending
  <2> QED
    BY <2>1, GroupTables DEF Doc1, Doc2
<1>8. \A X : X \in {Core, Queue(2), Cursor}
                => \A x \in X : x.on # <<"operational_doc", "table">> /\ x.on # <<"task_artifact", "table">>
  <2>1. \A x \in Core : x.on # <<"operational_doc", "table">> /\ x.on # <<"task_artifact", "table">>
    BY GroupTables DEF Core, Mirrors
  <2>2. \A x \in Queue(2) : x.on # <<"operational_doc", "table">> /\ x.on # <<"task_artifact", "table">>
    BY GroupTables
  <2>3. \A x \in Cursor : x.on # <<"operational_doc", "table">> /\ x.on # <<"task_artifact", "table">>
    BY GroupTables
  <2> QED
    BY <2>1, <2>2, <2>3
<1> HIDE DEF Art1
<1>9. /\ NamesOf(Rest1) = NamesOf(Core) \cup NamesOf(Art1) \cup NamesOf(Queue(2)) \cup NamesOf(Cursor)
      /\ NamesOf(Rest2) = NamesOf(Core) \cup NamesOf(Doc2) \cup NamesOf(Queue(2)) \cup NamesOf(Cursor)
      /\ NamesOf(All) = NamesOf(Rest2) \cup NamesOf(Art2) \cup NamesOf(Tasks)
      /\ NamesOf(Full1) = NamesOf(Core) \cup NamesOf(Doc1) \cup NamesOf(Art1) \cup NamesOf(Queue(2))
  <2>1. Full1 = Core \cup Doc1 \cup Art1 \cup Queue(2)
    BY DEF Full1, Doc1, Art1, pending
  <2>2. \A X, Y, Z : NamesOf(X \cup Y \cup Z) = NamesOf(X) \cup NamesOf(Y) \cup NamesOf(Z)
    BY DEF NamesOf
  <2>3. \A X, Y, Z, U : NamesOf(X \cup Y \cup Z \cup U)
                            = NamesOf(X) \cup NamesOf(Y) \cup NamesOf(Z) \cup NamesOf(U)
    BY DEF NamesOf
  <2> HIDE DEF Rest2
  <2>4. NamesOf(All) = NamesOf(Rest2) \cup NamesOf(Art2) \cup NamesOf(Tasks)
    BY <2>2
  <2> USE DEF Rest2
  <2> HIDE DEF All
  <2>5. NamesOf(Rest1) = NamesOf(Core) \cup NamesOf(Art1) \cup NamesOf(Queue(2)) \cup NamesOf(Cursor)
    BY ONLY <2>3 DEF Rest1
  <2>6. NamesOf(Rest2) = NamesOf(Core) \cup NamesOf(Doc2) \cup NamesOf(Queue(2)) \cup NamesOf(Cursor)
    BY ONLY <2>3 DEF Rest2
  <2>7. NamesOf(Full1) = NamesOf(Core) \cup NamesOf(Doc1) \cup NamesOf(Art1) \cup NamesOf(Queue(2))
    BY ONLY <2>1, <2>3
  <2> HIDE DEF Rest1, Rest2
  <2> QED
    BY ONLY <2>4, <2>5, <2>6, <2>7
<1> HIDE DEF All, Rest1, Rest2
<1>10. Turns(CursorSQL, 1, Full1, 1, Rest1 \cup Doc1)
  <2>1. NamesOf(Full1) \cap NamesOf(Cursor) = {}
    BY ONLY <1>s, <1>9, GroupSubjects
  <2>2. Turns(CursorSQL, 1, Full1, 1, Full1 \cup Cursor)
    BY <1>2, <2>1, TurnsAdding
  <2> QED
    BY <1>3, <2>2
<1>11. Turns(q2, 1, Rest1 \cup Doc1, 1, Rest1 \cup {T("operational_doc", 2)})
  <2>1. NamesOf(Rest1) \cap {<<"operational_doc", "table">>, <<"operational_doc", "v1">>} = {}
    BY ONLY <1>s, <1>9, GroupSubjects
  <2>2. \A x \in Rest1 : x.on # <<"operational_doc", "table">>
    BY ONLY <1>7, <1>8 DEF Rest1
  <2>3. Plain(Rest1)
    BY <1>6 DEF Plain, Rest1
  <2>4. <<"operational_doc", "v1">> \notin NamesOf(Doc1) /\ <<"operational_doc", "table">> \in NamesOf(Doc1)
    BY <1>4
  <2> QED
    BY <1>6, <1>7, <2>1, <2>2, <2>3, <2>4, TurnsRebuilding, Spelled DEF q2
<1>12. Turns(q3, 1, Rest1 \cup {T("operational_doc", 2)}, 1, Rest2 \cup Art1)
  <2> DEFINE X == Rest1 \cup {T("operational_doc", 2)}
  <2>1. NamesOf({T("operational_doc", 2)}) = {<<"operational_doc", "table">>}
        /\ NamesOf({I("operational_doc", "current")}) = {<<"operational_doc", "current">>}
    BY Named DEF NamesOf
  <2>2. NamesOf(X) = NamesOf(Rest1) \cup NamesOf({T("operational_doc", 2)})
    BY NamesOfBoth
  <2>3. NamesOf(X) \cap NamesOf({I("operational_doc", "current")}) = {}
    <3>1. \A n \in NamesOf(Rest1) : n[1] # "operational_doc"
      BY ONLY <1>s, <1>9, GroupSubjects
    <3>2. <<"operational_doc", "current">> \notin NamesOf(Rest1)
      BY ONLY <3>1
    <3>3. <<"operational_doc", "current">> # <<"operational_doc", "table">>
      OBVIOUS
    <3> QED
      BY ONLY <2>1, <2>2, <3>2, <3>3
  <2>4. TableOf("operational_doc") \subseteq NamesOf(X)
    BY <2>1, <2>2 DEF TableOf
  <2>5. Turns(q3, 1, X, 1, X \cup {I("operational_doc", "current")})
    BY <1>2, <2>3, <2>4, TurnsAdding
  <2> QED
    BY <1>3, <2>5
<1>13. Turns(q4, 1, Rest2 \cup Art1, 1, Rest2 \cup {T("task_artifact", 2)})
  <2>1. NamesOf(Rest2) \cap {<<"task_artifact", "table">>, <<"task_artifact", "v1">>} = {}
    BY ONLY <1>s, <1>9, GroupSubjects
  <2>2. \A x \in Rest2 : x.on # <<"task_artifact", "table">>
    BY ONLY <1>7, <1>8 DEF Rest2
  <2>3. Plain(Rest2)
    BY <1>6 DEF Plain, Rest2
  <2>4. <<"task_artifact", "v1">> \notin NamesOf(Art1) /\ <<"task_artifact", "table">> \in NamesOf(Art1)
    BY <1>4, <1>5
  <2> QED
    BY <1>6, <1>7, <2>1, <2>2, <2>3, <2>4, TurnsRebuilding, Spelled DEF q4
<1>14. Turns(q5, 1, Rest2 \cup {T("task_artifact", 2)}, 1, Rest2 \cup Art2)
  <2> DEFINE X == Rest2 \cup {T("task_artifact", 2)}
  <2>1. NamesOf({T("task_artifact", 2)}) = {<<"task_artifact", "table">>}
        /\ NamesOf({I("task_artifact", "current")}) = {<<"task_artifact", "current">>}
    BY Named DEF NamesOf
  <2>2. NamesOf(X) = NamesOf(Rest2) \cup NamesOf({T("task_artifact", 2)})
    BY NamesOfBoth
  <2>3. NamesOf(X) \cap NamesOf({I("task_artifact", "current")}) = {}
    <3>1. \A n \in NamesOf(Rest2) : n[1] # "task_artifact"
      BY ONLY <1>s, <1>9, GroupSubjects
    <3> QED
      BY ONLY <2>1, <2>2, <3>1
  <2>4. TableOf("task_artifact") \subseteq NamesOf(X)
    BY <2>1, <2>2 DEF TableOf
  <2>5. Turns(q5, 1, X, 1, X \cup {I("task_artifact", "current")})
    BY <1>2, <2>3, <2>4, TurnsAdding
  <2> QED
    BY <1>3, <2>5
<1>15. Turns(TasksSQL, 1, Rest2 \cup Art2, 1, All)
  <2>1. NamesOf(Rest2 \cup Art2) = NamesOf(Rest2) \cup NamesOf(Art2)
    BY NamesOfBoth
  <2>2. NamesOf(Rest2 \cup Art2) \cap NamesOf(Tasks) = {}
    BY ONLY <1>s, <1>9, <2>1, GroupSubjects
  <2>3. TableOf("task_artifact") \subseteq NamesOf(Rest2 \cup Art2)
    BY <1>4, <2>1 DEF TableOf
  <2> QED
    BY <1>2, <2>2, <2>3, TurnsAdding DEF All
<1>16. Turns(D!WakeupTriggers, 1, All, 1, Full2)
  <2>1. NamesOf(All) \cap NamesOf(Wakers) = {}
    <3>1. \A n \in NamesOf(Rest2) : n[2] # "wakeup"
      BY ONLY <1>s, <1>9, GroupSubjects
    <3>2. \A n \in NamesOf(Art2) \cup NamesOf(Tasks) : n[2] # "wakeup"
      BY ONLY <1>s, GroupSubjects
    <3>3. \A n \in NamesOf(Wakers) : n[2] = "wakeup"
      BY ONLY GroupSubjects
    <3> QED
      BY ONLY <1>9, <3>1, <3>2, <3>3
  <2>2. DocTables \subseteq NamesOf(All)
    <3>1. /\ TableOf("working_set") \cup TableOf("archive") \cup TableOf("task_state")
                \subseteq NamesOf(Mirrors)
          /\ NamesOf(Mirrors) \subseteq NamesOf(Core)
      BY ONLY CoreNames, MirrorNames DEF TableOf
    <3>2. TableOf("operational_doc") \subseteq NamesOf(Doc2)
      BY ONLY <1>4 DEF TableOf
    <3>3. TableOf("task_artifact") \subseteq NamesOf(Art2)
      BY ONLY <1>4 DEF TableOf
    <3> QED
      BY ONLY <1>9, <3>1, <3>2, <3>3 DEF DocTables
  <2>3. Turns(D!WakeupTriggers, 1, All, 1, All \cup Wakers)
    BY <1>2, <2>1, <2>2, TurnsAdding
  <2> QED
    BY <1>3, <2>3
<1>17. Turns(CursorSQL \o q2, 1, Full1, 1, Rest1 \cup {T("operational_doc", 2)})
  BY ONLY <1>10, <1>11, TurnsOn
<1>18. Turns(CursorSQL \o q2 \o q3, 1, Full1, 1, Rest2 \cup Art1)
  BY ONLY <1>12, <1>17, TurnsOn
<1>19. Turns(CursorSQL \o q2 \o q3 \o q4, 1, Full1, 1, Rest2 \cup {T("task_artifact", 2)})
  BY ONLY <1>13, <1>18, TurnsOn
<1>20. Turns(CursorSQL \o q2 \o q3 \o q4 \o q5, 1, Full1, 1, Rest2 \cup Art2)
  BY ONLY <1>14, <1>19, TurnsOn
<1>21. Turns(CursorSQL \o q2 \o q3 \o q4 \o q5 \o TasksSQL, 1, Full1, 1, All)
  BY ONLY <1>15, <1>20, TurnsOn
<1>22. Turns(CursorSQL \o q2 \o q3 \o q4 \o q5 \o TasksSQL \o D!WakeupTriggers, 1, Full1, 1, Full2)
  BY ONLY <1>16, <1>21, TurnsOn
<1>23. Turns(<<D!SetVersion(2)>>, 1, Full2, 2, Full2)
  BY TurnsVersion
<1>24. Turns(CursorSQL \o q2 \o q3 \o q4 \o q5 \o TasksSQL \o D!WakeupTriggers \o <<D!SetVersion(2)>>,
             1, Full1, 2, Full2)
  BY ONLY <1>22, <1>23, TurnsOn
<1> QED
  BY <1>1, <1>24

(* q drops five indexes or triggers at most: one at a time. *)
LEMMA DropsRemove ==
    /\ Removes(D!DropWakeupTriggers, Wakers)
    /\ Removes(<<D!Drop(<<"wakeups", "unhandled">>), D!Drop(<<"wakeups", "generation">>)>>, QueueIndexes)
<1> DEFINE a == W("working_set")
           b == W("archive")
           c == W("task_state")
           d == W("operational_doc")
           e == W("task_artifact")
           qa == <<D!Drop(<<"working_set", "wakeup">>)>>
           qb == <<D!Drop(<<"archive", "wakeup">>)>>
           qc == <<D!Drop(<<"task_state", "wakeup">>)>>
           qd == <<D!Drop(<<"operational_doc", "wakeup">>)>>
           qe == <<D!Drop(<<"task_artifact", "wakeup">>)>>
           x == I("wakeups", "unhandled")
           y == I("wakeups", "generation")
           qx == <<D!Drop(<<"wakeups", "unhandled">>)>>
           qy == <<D!Drop(<<"wakeups", "generation">>)>>
<1>1. /\ Removes(qa, {a}) /\ Removes(qb, {b}) /\ Removes(qc, {c}) /\ Removes(qd, {d}) /\ Removes(qe, {e})
      /\ Removes(qx, {x}) /\ Removes(qy, {y})
  <2>1. ASSUME NEW s \in Words PROVE Removes(<<D!Drop(<<s, "wakeup">>)>>, {W(s)})
    <3> HIDE DEF Words
    <3>1. W(s).name = <<s, "wakeup">> /\ "wakeup" \in Words
      BY Named, Spelled
    <3> QED
      BY <3>1, RemovesOne
  <2>2. ASSUME NEW p \in Words, p # "table" PROVE Removes(<<D!Drop(<<"wakeups", p>>)>>, {I("wakeups", p)})
    <3> HIDE DEF Words
    <3>1. I("wakeups", p).name = <<"wakeups", p>> /\ "wakeups" \in Words
      BY Named, Spelled
    <3> QED
      BY <2>2, <3>1, RemovesOne
  <2> HIDE DEF Words
  <2>3. /\ Removes(qa, {a}) /\ Removes(qb, {b}) /\ Removes(qc, {c}) /\ Removes(qd, {d})
        /\ Removes(qe, {e})
    BY <2>1, Spelled
  <2>4. Removes(qx, {x}) /\ Removes(qy, {y})
    BY <2>2, Spelled
  <2> QED
    BY <2>3, <2>4
<1>2. /\ D!DropWakeupTriggers = qa \o qb \o qc \o qd \o qe
      /\ <<D!Drop(<<"wakeups", "unhandled">>), D!Drop(<<"wakeups", "generation">>)>> = qx \o qy
  BY DEF D!DropWakeupTriggers
<1>3. /\ a.name # b.name /\ a.name # c.name /\ a.name # d.name /\ a.name # e.name
      /\ b.name # c.name /\ b.name # d.name /\ b.name # e.name
      /\ c.name # d.name /\ c.name # e.name /\ d.name # e.name
      /\ x.name # y.name
  BY Named
<1>4. /\ Wakers = {a} \cup {b} \cup {c} \cup {d} \cup {e}
      /\ QueueIndexes = {x} \cup {y}
  BY DEF Wakers, QueueIndexes
<1> HIDE DEF a, b, c, d, e, x, y, qa, qb, qc, qd, qe, qx, qy
<1>5. Removes(qa \o qb, {a} \cup {b})
  <2>1. NamesOf({a}) \cap NamesOf({b}) = {}
    BY <1>3 DEF NamesOf
  <2> QED
    BY <1>1, <2>1, RemovesOn
<1>6. Removes(qa \o qb \o qc, {a} \cup {b} \cup {c})
  <2>1. NamesOf({a} \cup {b}) \cap NamesOf({c}) = {}
    BY <1>3 DEF NamesOf
  <2> QED
    BY <1>1, <1>5, <2>1, RemovesOn
<1>7. Removes(qa \o qb \o qc \o qd, {a} \cup {b} \cup {c} \cup {d})
  <2>1. NamesOf({a} \cup {b} \cup {c}) \cap NamesOf({d}) = {}
    BY <1>3 DEF NamesOf
  <2> QED
    BY <1>1, <1>6, <2>1, RemovesOn
<1>8. Removes(qa \o qb \o qc \o qd \o qe, {a} \cup {b} \cup {c} \cup {d} \cup {e})
  <2>1. NamesOf({a} \cup {b} \cup {c} \cup {d}) \cap NamesOf({e}) = {}
    BY <1>3 DEF NamesOf
  <2> QED
    BY <1>1, <1>7, <2>1, RemovesOn
<1>9. Removes(qx \o qy, {x} \cup {y})
  <2>1. NamesOf({x}) \cap NamesOf({y}) = {}
    BY <1>3 DEF NamesOf
  <2> QED
    BY <1>1, <2>1, RemovesOn
<1> QED
  BY <1>2, <1>4, <1>8, <1>9

(***************************************************************************)
(* From version 2 to 3: the queue, without its triggers and indexes, is     *)
(* rebuilt; the seats are added.  The script runs to its end on a database  *)
(* of version 2, whatever rows it has, leaves the catalog of version 3, and *)
(* keeps the rows, each wakeup handled or not as it was (the second script  *)
(* of MigrateContext).                                                      *)
(***************************************************************************)
THEOREM SecondMigrationTurns == Turns(D!MigrationV2ToV3, 2, Full2, 3, Full3)
<1> HIDE DEF Words
<1> DEFINE Rest == Core \cup Written2 \cup Tasks \cup Cursor
           q2 == <<D!Drop(<<"wakeups", "unhandled">>), D!Drop(<<"wakeups", "generation">>)>>
           q3 == D!Rebuild("wakeups", 3, "v2")
           q4 == <<D!CreateIndex("wakeups", "unhandled"), D!CreateIndex("wakeups", "generation")>>
           old == T("wakeups", 2)
           new == T("wakeups", 3)
           All == Rest \cup Queue(3) \cup Seating
<1>1. D!MigrationV2ToV3 = D!DropWakeupTriggers \o q2 \o q3 \o q4 \o SeatingSQL \o D!WakeupTriggers
                          \o <<D!SetVersion(3)>>
  BY DEF D!MigrationV2ToV3, SeatingSQL, D!Rebuild, D!WakeupTriggers, D!DropWakeupTriggers
<1>2. /\ Adds(SeatingSQL, Seating, {}) /\ Adds(D!WakeupTriggers, Wakers, DocTables)
      /\ Adds(q4, QueueIndexes, TableOf("wakeups"))
  <2>1. /\ Adds(<<D!CreateIndex("wakeups", "unhandled")>>, {I("wakeups", "unhandled")}, TableOf("wakeups"))
        /\ Adds(<<D!CreateIndex("wakeups", "generation")>>, {I("wakeups", "generation")}, TableOf("wakeups"))
    BY AddsPieces, Spelled DEF TableOf
  <2>2. I("wakeups", "unhandled").name # I("wakeups", "generation").name
    BY Named
  <2>3. Adds(q4, QueueIndexes, TableOf("wakeups"))
    BY <2>1, <2>2, AddsTwo DEF QueueIndexes
  <2> QED
    BY <2>3, AddsGroups
<1>3. /\ Full2 = Rest \cup {old} \cup QueueIndexes \cup Wakers
      /\ Rest \cup {new} \cup QueueIndexes = Rest \cup Queue(3)
      /\ Full3 = All \cup Wakers
  BY DEF Full2, Full3, Queue, QueueIndexes
<1>4. /\ NamesOf({old}) = {<<"wakeups", "table">>} /\ NamesOf({new}) = NamesOf({old})
      /\ NamesOf(QueueIndexes) = {<<"wakeups", "unhandled">>, <<"wakeups", "generation">>}
  <2>1. NamesOf({old}) = {<<"wakeups", "table">>} /\ NamesOf({new}) = {<<"wakeups", "table">>}
    BY Named DEF NamesOf
  <2>2. NamesOf(QueueIndexes) = {<<"wakeups", "unhandled">>, <<"wakeups", "generation">>}
    BY Named DEF NamesOf, QueueIndexes
  <2> QED
    BY <2>1, <2>2
<1>5. old.on = <<"wakeups", "table">> /\ Plain({old}) /\ Plain(QueueIndexes) /\ Plain(Rest)
  <2>1. old.on = <<"wakeups", "table">>
    BY Sorted
  <2>2. Plain({old}) /\ Plain(QueueIndexes)
    BY PiecesPlain DEF Plain, QueueIndexes
  <2> HIDE DEF old
  <2> QED
    BY <2>1, <2>2, GroupsPlain DEF Plain
<1> HIDE DEF q2, q3, q4, old, new
<1>6. \A x \in Rest : x.on # <<"wakeups", "table">>
  <2>1. \A x \in Core : x.on # <<"wakeups", "table">>
    BY GroupTables DEF Core, Mirrors
  <2>2. \A x \in Written2 : x.on # <<"wakeups", "table">>
    BY GroupTables DEF Written2
  <2>3. \A x \in Tasks : x.on # <<"wakeups", "table">>
    BY GroupTables
  <2>4. \A x \in Cursor : x.on # <<"wakeups", "table">>
    BY GroupTables
  <2> QED
    BY ONLY <2>1, <2>2, <2>3, <2>4
<1>7. \A n \in NamesOf(Rest) : n[1] # "wakeups" /\ n[1] # "seats" /\ n[2] # "wakeup"
  <2>1. \A n \in NamesOf(Core) : n[1] # "wakeups" /\ n[1] # "seats" /\ n[2] # "wakeup"
    BY ONLY GroupSubjects
  <2>2. \A n \in NamesOf(Written2) : n[1] # "wakeups" /\ n[1] # "seats" /\ n[2] # "wakeup"
    BY ONLY MirrorNames
  <2>3. \A n \in NamesOf(Tasks) : n[1] # "wakeups" /\ n[1] # "seats" /\ n[2] # "wakeup"
    BY ONLY GroupSubjects
  <2>4. \A n \in NamesOf(Cursor) : n[1] # "wakeups" /\ n[1] # "seats" /\ n[2] # "wakeup"
    BY ONLY GroupSubjects
  <2>5. NamesOf(Rest) = NamesOf(Core) \cup NamesOf(Written2) \cup NamesOf(Tasks) \cup NamesOf(Cursor)
    BY DEF NamesOf
  <2> QED
    BY ONLY <2>1, <2>2, <2>3, <2>4, <2>5
<1>8. DocTables \subseteq NamesOf(Rest)
  <2>1. /\ TableOf("working_set") \cup TableOf("archive") \cup TableOf("task_state")
              \subseteq NamesOf(Mirrors)
        /\ NamesOf(Mirrors) \subseteq NamesOf(Core)
    BY ONLY CoreNames, MirrorNames DEF TableOf
  <2>2. TableOf("operational_doc") \cup TableOf("task_artifact") \subseteq NamesOf(Written2)
    BY ONLY MirrorNames DEF TableOf
  <2>3. NamesOf(Core) \subseteq NamesOf(Rest) /\ NamesOf(Written2) \subseteq NamesOf(Rest)
    BY DEF NamesOf
  <2> QED
    BY ONLY <2>1, <2>2, <2>3 DEF DocTables
<1> HIDE DEF Rest
<1>9. Turns(D!DropWakeupTriggers, 2, Full2, 2, Rest \cup {old} \cup QueueIndexes)
  <2> DEFINE X == Rest \cup {old} \cup QueueIndexes
  <2>1. \A x \in X \cup Wakers : IsTable(x.on)
    BY <1>5, GroupsPlain DEF Plain, IsObject
  <2>2. NamesOf(X) \cap NamesOf(Wakers) = {}
    <3>1. \A n \in NamesOf({old}) \cup NamesOf(QueueIndexes) : n[2] # "wakeup"
      BY ONLY <1>4
    <3>2. \A n \in NamesOf(Wakers) : n[2] = "wakeup"
      BY ONLY GroupSubjects
    <3>3. NamesOf(X) = NamesOf(Rest) \cup (NamesOf({old}) \cup NamesOf(QueueIndexes))
      BY DEF NamesOf
    <3> QED
      BY ONLY <1>7, <3>1, <3>2, <3>3
  <2> HIDE DEF X
  <2>3. Turns(D!DropWakeupTriggers, 2, X \cup Wakers, 2, X)
    BY ONLY <2>1, <2>2, DropsRemove, TurnsRemoving
  <2> QED
    BY ONLY <1>3, <2>3 DEF X
<1>10. Turns(q2, 2, Rest \cup {old} \cup QueueIndexes, 2, Rest \cup {old})
  <2>1. \A x \in (Rest \cup {old}) \cup QueueIndexes : IsTable(x.on)
    BY <1>5 DEF Plain, IsObject
  <2>2. NamesOf(Rest \cup {old}) \cap NamesOf(QueueIndexes) = {}
    <3>1. \A n \in NamesOf({old}) : n \notin NamesOf(QueueIndexes)
      BY ONLY <1>4
    <3>2. \A n \in NamesOf(QueueIndexes) : n[1] = "wakeups"
      BY ONLY <1>4
    <3> QED
      BY ONLY <1>7, <3>1, <3>2, NamesOfBoth
  <2>3. Removes(q2, QueueIndexes)
    BY DropsRemove DEF q2
  <2> QED
    BY ONLY <2>1, <2>2, <2>3, TurnsRemoving
<1>11. Turns(q3, 2, Rest \cup {old}, 2, Rest \cup {new})
  <2>1. NamesOf(Rest) \cap {<<"wakeups", "table">>, <<"wakeups", "v2">>} = {}
    BY ONLY <1>7
  <2>2. <<"wakeups", "v2">> \notin NamesOf({old}) /\ <<"wakeups", "table">> \in NamesOf({old})
    BY ONLY <1>4
  <2> QED
    BY <1>5, <1>6, <2>1, <2>2, TurnsRebuilding, Spelled DEF q3, new
<1>12. Turns(q4, 2, Rest \cup {new}, 2, Rest \cup Queue(3))
  <2>1. NamesOf(Rest \cup {new}) \cap NamesOf(QueueIndexes) = {}
    <3>1. \A n \in NamesOf({new}) : n \notin NamesOf(QueueIndexes)
      BY ONLY <1>4
    <3>2. \A n \in NamesOf(QueueIndexes) : n[1] = "wakeups"
      BY ONLY <1>4
    <3> QED
      BY ONLY <1>7, <3>1, <3>2, NamesOfBoth
  <2>2. TableOf("wakeups") \subseteq NamesOf(Rest \cup {new})
    BY ONLY <1>4, NamesOfBoth DEF TableOf
  <2> QED
    BY ONLY <1>2, <1>3, <2>1, <2>2, TurnsAdding
<1>13. Turns(SeatingSQL, 2, Rest \cup Queue(3), 2, All)
  <2>1. NamesOf(Rest \cup Queue(3)) \cap NamesOf(Seating) = {}
    <3>1. \A n \in NamesOf(Queue(3)) : n[1] = "wakeups"
      BY ONLY GroupSubjects
    <3>2. \A n \in NamesOf(Seating) : n[1] = "seats"
      BY ONLY GroupSubjects
    <3> QED
      BY ONLY <1>7, <3>1, <3>2, NamesOfBoth
  <2> QED
    BY ONLY <1>2, <2>1, TurnsAdding
<1>14. Turns(D!WakeupTriggers, 2, All, 2, Full3)
  <2>1. NamesOf(All) = NamesOf(Rest) \cup NamesOf(Queue(3)) \cup NamesOf(Seating)
    BY DEF NamesOf
  <2>2. NamesOf(All) \cap NamesOf(Wakers) = {}
    <3>1. \A n \in NamesOf(Queue(3)) \cup NamesOf(Seating) : n[2] # "wakeup"
      BY ONLY GroupSubjects
    <3>2. \A n \in NamesOf(Wakers) : n[2] = "wakeup"
      BY ONLY GroupSubjects
    <3> QED
      BY ONLY <1>7, <2>1, <3>1, <3>2
  <2>3. DocTables \subseteq NamesOf(All)
    BY ONLY <1>8, <2>1
  <2> HIDE DEF All
  <2>4. Turns(D!WakeupTriggers, 2, All, 2, All \cup Wakers)
    BY ONLY <1>2, <2>2, <2>3, TurnsAdding
  <2> QED
    BY <1>3, <2>4
<1> HIDE DEF All
<1>15. Turns(D!DropWakeupTriggers \o q2, 2, Full2, 2, Rest \cup {old})
  BY ONLY <1>9, <1>10, TurnsOn
<1>16. Turns(D!DropWakeupTriggers \o q2 \o q3, 2, Full2, 2, Rest \cup {new})
  BY ONLY <1>11, <1>15, TurnsOn
<1>17. Turns(D!DropWakeupTriggers \o q2 \o q3 \o q4, 2, Full2, 2, Rest \cup Queue(3))
  BY ONLY <1>12, <1>16, TurnsOn
<1>18. Turns(D!DropWakeupTriggers \o q2 \o q3 \o q4 \o SeatingSQL, 2, Full2, 2, All)
  BY ONLY <1>13, <1>17, TurnsOn
<1>19. Turns(D!DropWakeupTriggers \o q2 \o q3 \o q4 \o SeatingSQL \o D!WakeupTriggers, 2, Full2, 2, Full3)
  BY ONLY <1>14, <1>18, TurnsOn
<1>20. Turns(<<D!SetVersion(3)>>, 2, Full3, 3, Full3)
  BY TurnsVersion
<1>21. Turns(D!DropWakeupTriggers \o q2 \o q3 \o q4 \o SeatingSQL \o D!WakeupTriggers \o <<D!SetVersion(3)>>,
             2, Full2, 3, Full3)
  BY ONLY <1>19, <1>20, TurnsOn
<1> QED
  BY ONLY <1>1, <1>21

-----------------------------------------------------------------------------
(***************************************************************************)
(* What is on disk is a whole version, and what is left of the script will  *)
(* complete what the transaction sees to a whole version with its rows.     *)
(***************************************************************************)
IsWhole(d) ==
    /\ d.version \in 1 .. 3 /\ GoodRows(d.rows)
    /\ d = D!Of(D!Us, d.version, D!LayoutAt(d.version), d.rows)

(* Before version 3 no document is mirrored. *)
Older(rows) == \A r \in rows : ~(r.id > D!LastOldRow)

WholeInv ==
    /\ DatabaseInv /\ D!MirroredIsQueued
    /\ D!Ours => IsWhole(disk)
    /\ (D!Ours /\ disk.version = 3) \/ Older(disk.rows)
    /\ lock # None /\ (D!Ours \/ disk = D!NoDatabase) =>
          \E e : /\ RunsTo(script, work, e) /\ IsWhole(e) /\ ContentsOf(e.rows) = ContentsOf(disk.rows)
                 /\ e = disk \/ (e.version = 3 /\ disk.version # 3)

LEMMA LayoutsAt ==
    /\ D!LayoutAt(1) = Full1 /\ D!LayoutAt(2) = Full2 /\ D!LayoutAt(3) = Full3
    /\ \A v \in 1 .. 3 : D!Table("plugin_schema") \in NamesOf(D!LayoutAt(v))
<1>1. D!LayoutAt(1) = Full1 /\ D!LayoutAt(2) = Full2 /\ D!LayoutAt(3) = Full3
  BY LayoutParts DEF D!LayoutAt
<1>2. Base \subseteq Full1 /\ Base \subseteq Full2 /\ Base \subseteq Full3
  BY DEF Full1, Full2, Full3, Core
<1>3. D!Table("plugin_schema") \in NamesOf(Base)
  BY GroupNames DEF D!Table
<1>4. \A v \in 1 .. 3 : Base \subseteq D!LayoutAt(v)
  BY <1>1, <1>2
<1>5. \A X : Base \subseteq X => NamesOf(Base) \subseteq NamesOf(X)
  BY DEF NamesOf
<1> QED
  BY <1>1, <1>3, <1>4, <1>5

LEMMA WholeIs ==
    ASSUME NEW v \in 1 .. 3, NEW rows, GoodRows(rows)
    PROVE  /\ IsWhole(D!Of(D!Us, v, D!LayoutAt(v), rows))
           /\ D!Of(D!Us, v, D!LayoutAt(v), rows).version = v
           /\ D!Of(D!Us, v, D!LayoutAt(v), rows).rows = rows
BY OfIs DEF IsWhole

LEMMA InsertedIs ==
    ASSUME NEW t, NEW i
    PROVE  /\ D!Inserted(t, i).table = t /\ D!Inserted(t, i).id = i
           /\ IsTable(t) => GoodRows({D!Inserted(t, i)})
BY DEF D!Inserted, D!Row, GoodRows

LEMMA OldRowsGood ==
    /\ GoodRows(D!OldRows) /\ Older(D!OldRows)
    /\ LET now == {[r EXCEPT !.confirmed = r.handled] : r \in D!OldRows}
       IN  GoodRows(now) /\ Older(now)
<1> DEFINE now == {[r EXCEPT !.confirmed = r.handled] : r \in D!OldRows}
<1>1. \A s : IsTable(D!Table(s))
  BY DEF IsTable, D!Table
<1> DEFINE handled == D!Row(D!Table("wakeups"), 8, TRUE, FALSE)
<1>2. GoodRows({handled}) /\ handled.id = 8
  BY <1>1 DEF GoodRows, D!Row
<1>3. D!OldRows = {D!Inserted(D!Table("working_set"), 1), D!Inserted(D!Table("operational_doc"), 2),
                   D!Inserted(D!Table("task_artifact"), 3), handled,
                   D!Inserted(D!Table("wakeups"), 9)}
  BY Zenon DEF D!OldRows
<1> HIDE DEF handled
<1>4. \A r \in D!OldRows : GoodRows({r}) /\ r.id \in 1 .. 9
  <2>1. ASSUME NEW s, NEW i \in 1 .. 9, NEW r, r = D!Inserted(D!Table(s), i)
        PROVE  GoodRows({r}) /\ r.id \in 1 .. 9
    BY <1>1, <2>1, InsertedIs
  <2>2. ASSUME NEW r, r = handled
        PROVE  GoodRows({r}) /\ r.id \in 1 .. 9
    BY <1>2, <2>2
  <2>3. ASSUME NEW r \in D!OldRows
        PROVE  r = handled \/ \E s : \E i \in 1 .. 9 : r = D!Inserted(D!Table(s), i)
    BY <1>3, <2>3
  <2> QED
    BY <2>1, <2>2, <2>3
<1>5. GoodRows(D!OldRows) /\ Older(D!OldRows)
  BY <1>4 DEF GoodRows, Older, D!LastOldRow
<1>6. ASSUME NEW r \in D!OldRows, NEW e, e = [r EXCEPT !.confirmed = r.handled]
      PROVE  IsTable(e.table) /\ e = D!Row(e.table, e.id, e.handled, e.confirmed) /\ e.id = r.id
  <2>1. IsTable(r.table) /\ r = D!Row(r.table, r.id, r.handled, r.confirmed)
    BY <1>5 DEF GoodRows
  <2> QED
    BY <1>6, <2>1 DEF D!Row
<1>7. GoodRows(now) /\ Older(now)
  <2>1. ASSUME NEW e \in now PROVE \E r \in D!OldRows : e = [r EXCEPT !.confirmed = r.handled]
    OBVIOUS
  <2> HIDE DEF now
  <2>2. ASSUME NEW e \in now
        PROVE  /\ IsTable(e.table) /\ e = D!Row(e.table, e.id, e.handled, e.confirmed)
               /\ ~(e.id > D!LastOldRow)
    <3>1. PICK r \in D!OldRows : e = [r EXCEPT !.confirmed = r.handled]
      BY <2>1
    <3>2. e.id = r.id /\ IsTable(e.table) /\ e = D!Row(e.table, e.id, e.handled, e.confirmed)
      BY <1>6, <3>1
    <3> QED
      BY <1>5, <3>2 DEF Older
  <2> QED
    BY <2>2 DEF GoodRows, Older
<1> QED
  BY <1>5, <1>7

LEMMA WholeInit == D!Init => WholeInv
<1> SUFFICES ASSUME D!Init PROVE WholeInv
  OBVIOUS
<1>1. DatabaseInv /\ lock = None
  BY DatabaseInit DEF D!Init
<1>2. PICK name \in Originals : disk = D!Original(name)
  BY DEF D!Init
<1>3. name \in {"new", "v1", "v2", "v3", "later", "foreign", "rowless", "clash"}
  BY OriginalAssumption
<1>4. (D!Ours => IsWhole(disk)) /\ Older(disk.rows)
  <2> PICK now : now = {[r EXCEPT !.confirmed = r.handled] : r \in D!OldRows}
    OBVIOUS
  <2>1. GoodRows(D!OldRows) /\ Older(D!OldRows) /\ GoodRows(now) /\ Older(now) /\ Older({})
    BY OldRowsGood DEF Older
  <2>2. D!LayoutAt(1) = D!Layout1 /\ D!LayoutAt(2) = D!Layout2 /\ D!LayoutAt(3) = D!Layout3
    BY DEF D!LayoutAt
  <2>3. CASE name \in {"v1", "v2", "v3"}
    <3>1. \/ disk = D!Of(D!Us, 1, D!LayoutAt(1), D!OldRows)
          \/ disk = D!Of(D!Us, 2, D!LayoutAt(2), D!OldRows)
          \/ disk = D!Of(D!Us, 3, D!LayoutAt(3), now)
      BY <1>2, <2>2, <2>3, OriginalsOf
    <3>2. ASSUME NEW v \in 1 .. 3, NEW rows, GoodRows(rows), Older(rows),
                 disk = D!Of(D!Us, v, D!LayoutAt(v), rows)
          PROVE  IsWhole(disk) /\ Older(disk.rows)
      BY <3>2, WholeIs
    <3> QED
      BY <2>1, <3>1, <3>2
  <2>4. CASE name \notin {"v1", "v2", "v3"}
    <3>1. ~D!Ours
      <4>1. name = "new" => ~D!Ours
        BY <1>2, OriginalsOf, EmptyDatabase, OwnersDiffer DEF D!Ours
      <4>2. name # "new" => disk \in Strangers
        BY <1>2, <1>3, <2>4 DEF Strangers
      <4> QED
        BY <4>1, <4>2, Known DEF D!Ours
    <3>2. Older(disk.rows)
      <4>1. D!NoDatabase.rows = {}
        BY DEF D!NoDatabase
      <4>2. disk = D!NoDatabase \/ \E o, v, X : disk = D!Of(o, v, X, D!OldRows) \/ disk = D!Of(o, v, X, {})
        BY <1>2, <1>3, <2>4, OriginalsOf
      <4>3. disk.rows = {} \/ disk.rows = D!OldRows
        BY <4>1, <4>2, OfIs
      <4> QED
        BY <2>1, <4>3
    <3> QED
      BY <3>1, <3>2
  <2> QED
    BY <2>3, <2>4
<1>5. D!MirroredIsQueued
  BY <1>4 DEF D!MirroredIsQueued, Older
<1> QED
  BY <1>1, <1>4, <1>5 DEF WholeInv

(* The triggers of a mirrored document's table queue its wakeup. *)
LEMMA QueuedWhole ==
    ASSUME NEW d, IsWhole(d), d.version = 3, NEW f \in D!Families, NEW id
    PROVE  D!Queued(d, D!Table(f), {id}) = {D!Inserted(D!Table("wakeups"), id)}
<1>1. d.objects = Full3
  BY LayoutsAt, OfIs DEF IsWhole
<1>2. ASSUME NEW x \in Full3, x.into # D!NoTable PROVE x.into = D!Table("wakeups")
  <2>1. x \notin Wakers
          => x \in Core \/ x \in Written2 \/ x \in Tasks \/ x \in Cursor \/ x \in Queue(3) \/ x \in Seating
    BY DEF Full3
  <2>2. x \in Wakers
    BY <1>2, <2>1, GroupsPlain DEF Plain
  <2> QED
    BY <2>2, GroupsPlain
<1>3. PICK x \in Full3 : x.kind = "trigger" /\ x.on = D!Table(f) /\ x.into = D!Table("wakeups")
  <2>1. W(f) \in Wakers
    BY DEF Wakers, D!Families
  <2>2. W(f).kind = "trigger" /\ W(f).on = D!Table(f) /\ W(f).into = D!Table("wakeups")
    BY Objectives
  <2> QED
    BY <2>1, <2>2 DEF Full3
<1>4. D!Table("wakeups") # D!NoTable
  <2>1. D!NoTable[2] = Nobody /\ Nobody # "table"
    BY Zenon DEF D!NoTable, Nobody
  <2> QED
    BY <2>1 DEF D!Table
<1> DEFINE G == {g \in d.objects : g.kind = "trigger" /\ g.on = D!Table(f) /\ g.into # D!NoTable}
<1>5. x \in G /\ \A g \in G : g.into = D!Table("wakeups")
  BY <1>1, <1>2, <1>3, <1>4
<1>6. D!Queued(d, D!Table(f), {id}) = {D!Inserted(g.into, i) : g \in G, i \in {id}}
  BY DEF D!Queued
<1> HIDE DEF G
<1>7. {D!Inserted(g.into, i) : g \in G, i \in {id}} = {D!Inserted(D!Table("wakeups"), id)}
  BY <1>3, <1>5
<1> QED
  BY <1>6, <1>7

LEMMA WholeKept ==
    ASSUME WholeInv, DatabaseInv', UNCHANGED disk,
           (lock' # None => UNCHANGED <<work, script>> /\ lock # None)
    PROVE  WholeInv'
<1>1. D!Ours' <=> D!Ours
  BY DEF D!Ours
<1> QED
  BY <1>1 DEF WholeInv, D!MirroredIsQueued

LEMMA WholeBegins ==
    ASSUME WholeInv, DatabaseInv', NEW p \in D!Procs, NEW x, NEW statements,
           D!Begins(p, x, statements),
           D!Ours \/ disk = D!NoDatabase =>
              \E e : /\ RunsTo(statements, disk, e) /\ IsWhole(e)
                     /\ ContentsOf(e.rows) = ContentsOf(disk.rows)
                     /\ e = disk \/ (e.version = 3 /\ disk.version # 3)
    PROVE  WholeInv'
<1>1. work' = disk /\ script' = statements /\ UNCHANGED disk
  BY DEF D!Begins
<1>2. D!Ours' <=> D!Ours
  BY <1>1 DEF D!Ours
<1> QED
  BY <1>1, <1>2 DEF WholeInv, D!MirroredIsQueued

LEMMA WholeEnsures ==
    ASSUME WholeInv, DatabaseInv', NEW p \in D!Procs, D!BeginEnsure(p)
    PROVE  WholeInv'
<1> PICK statements : statements = IF D!Missing(disk) THEN D!SchemaSQL ELSE <<>>
  OBVIOUS
<1>1. D!Begins(p, "ensuring", statements)
  BY DEF D!BeginEnsure
<1>2. ASSUME D!Ours PROVE statements = <<>>
  <2>1. IsWhole(disk)
    BY <1>2 DEF WholeInv
  <2>2. disk.owner = D!Us /\ D!Names(disk) = NamesOf(D!LayoutAt(disk.version))
    BY <2>1, OfIs DEF IsWhole
  <2>3. D!Table("plugin_schema") \in D!Names(disk)
    BY <2>1, <2>2, LayoutsAt DEF IsWhole
  <2> QED
    BY <2>2, <2>3, EmptyDatabase, OwnersDiffer
<1>3. ASSUME disk = D!NoDatabase
      PROVE  \E e : /\ RunsTo(statements, disk, e) /\ IsWhole(e)
                    /\ ContentsOf(e.rows) = ContentsOf(disk.rows)
                    /\ e.version = 3 /\ disk.version # 3
  <2>1. statements = D!SchemaSQL /\ disk.version # 3
    BY <1>3, EmptyDatabase
  <2> PICK e : e = D!Of(D!Us, 3, D!LayoutAt(3), {})
    OBVIOUS
  <2>2. IsWhole(e) /\ e.version = 3 /\ e.rows = {}
    BY WholeIs DEF GoodRows
  <2>3. RunsTo(statements, disk, e)
    BY <1>3, <2>1, SchemaRuns, LayoutsAt
  <2>4. disk.rows = {}
    BY <1>3 DEF D!NoDatabase
  <2> QED
    BY <2>1, <2>2, <2>3, <2>4
<1>4. ASSUME D!Ours
      PROVE  RunsTo(statements, disk, disk) /\ IsWhole(disk)
  BY <1>2, <1>4, RunsNothing DEF WholeInv
<1> QED
  BY <1>1, <1>3, <1>4, WholeBegins

LEMMA WholeMigrates ==
    ASSUME WholeInv, DatabaseInv', NEW p \in D!Procs, D!BeginMigrate(p)
    PROVE  WholeInv'
<1>1. D!Begins(p, "migrating", D!Upgrades(disk.version)) /\ D!Ours
  BY DEF D!BeginMigrate, D!Supported, D!Ours
<1>2. IsWhole(disk)
  BY <1>1 DEF WholeInv
<1> PICK v, rows : v = disk.version /\ rows = disk.rows
  OBVIOUS
<1>3. v \in 1 .. 3 /\ GoodRows(rows) /\ disk = D!Of(D!Us, v, D!LayoutAt(v), rows)
  BY <1>2 DEF IsWhole
<1>4. ASSUME NEW after, GoodRows(after), ContentsOf(after) = ContentsOf(rows), v # 3,
             RunsTo(D!Upgrades(v), disk, D!Of(D!Us, 3, Full3, after))
      PROVE  \E e : /\ RunsTo(D!Upgrades(v), disk, e) /\ IsWhole(e)
                    /\ ContentsOf(e.rows) = ContentsOf(rows)
                    /\ e = disk \/ (e.version = 3 /\ v # 3)
  <2> PICK e : e = D!Of(D!Us, 3, D!LayoutAt(3), after)
    OBVIOUS
  <2>1. IsWhole(e) /\ e.version = 3 /\ e.rows = after
    BY <1>4, WholeIs
  <2>2. RunsTo(D!Upgrades(v), disk, e)
    BY <1>4, LayoutsAt
  <2> QED
    BY <1>4, <2>1, <2>2
<1>5. CASE v = 1
  <2>1. D!Upgrades(v) = D!MigrationV1ToV2 \o D!MigrationV2ToV3
    BY <1>5 DEF D!Upgrades
  <2>2. Turns(D!Upgrades(v), 1, Full1, 3, Full3)
    BY <2>1, FirstMigrationTurns, SecondMigrationTurns, TurnsOn
  <2>3. disk = D!Of(D!Us, 1, Full1, rows)
    BY <1>3, <1>5, LayoutsAt
  <2>4. PICK after : /\ GoodRows(after) /\ ContentsOf(after) = ContentsOf(rows)
                     /\ RunsTo(D!Upgrades(v), disk, D!Of(D!Us, 3, Full3, after))
    BY <1>3, <2>2, <2>3 DEF Turns
  <2> QED
    BY <1>1, <1>4, <1>5, <2>4, WholeBegins
<1>6. CASE v = 2
  <2>1. Turns(D!Upgrades(v), 2, Full2, 3, Full3)
    BY <1>6, SecondMigrationTurns DEF D!Upgrades
  <2>2. disk = D!Of(D!Us, 2, Full2, rows)
    BY <1>3, <1>6, LayoutsAt
  <2>3. PICK after : /\ GoodRows(after) /\ ContentsOf(after) = ContentsOf(rows)
                     /\ RunsTo(D!Upgrades(v), disk, D!Of(D!Us, 3, Full3, after))
    BY <1>3, <2>1, <2>2 DEF Turns
  <2> QED
    BY <1>1, <1>4, <1>6, <2>3, WholeBegins
<1>7. CASE v = 3
  <2>1. D!Upgrades(v) = <<>>
    BY <1>7 DEF D!Upgrades
  <2>2. RunsTo(D!Upgrades(v), disk, disk)
    BY <2>1, RunsNothing
  <2> QED
    BY <1>1, <1>2, <2>2, WholeBegins
<1> QED
  BY <1>3, <1>5, <1>6, <1>7

LEMMA ScriptOf ==
    ASSUME DatabaseInv, lock # None
    PROVE  script \in Seq(Statements)
<1>1. place[lock] \in D!Inside
  BY Held DEF DatabaseInv
<1>2. Seq(Creating) \subseteq Seq(Statements)
  <2>1. Creating \subseteq Statements
    BY Pieces
  <2> QED
    BY <2>1
<1> QED
  BY <1>1, <1>2 DEF DatabaseInv, EnsuringInv, MigratingInv, D!Inside

LEMMA WholeRuns ==
    ASSUME WholeInv, DatabaseInv', lock # None, script # <<>>,
           work' = D!Result(Head(script), work), script' = Tail(script), UNCHANGED <<disk, lock>>
    PROVE  WholeInv'
<1>1. D!Ours' <=> D!Ours
  BY DEF D!Ours
<1>2. script \in Seq(Statements)
  BY ScriptOf DEF WholeInv
<1>3. ASSUME NEW e, RunsTo(script, work, e) PROVE RunsTo(script', work', e)
  BY <1>2, <1>3, RunsHead
<1> QED
  BY <1>1, <1>3 DEF WholeInv, D!MirroredIsQueued

LEMMA WholeCommits ==
    ASSUME WholeInv, DatabaseInv', NEW p \in D!Procs, lock # None, D!Commit(p),
           ~D!Ours /\ disk # D!NoDatabase => disk' = disk
    PROVE  WholeInv' /\ ContentsOf(disk'.rows) = ContentsOf(disk.rows)
<1>1. script = <<>> /\ disk' = work /\ lock' = None
  BY DEF D!Commit, D!NoTransaction
<1>2. CASE disk' = disk
  <2>1. UNCHANGED disk /\ (lock' # None => UNCHANGED <<work, script>> /\ lock # None)
    BY <1>1, <1>2
  <2> QED
    BY <2>1, WholeKept
<1>3. CASE disk' # disk
  <2>1. D!Ours \/ disk = D!NoDatabase
    BY <1>3
  <2>2. PICK e : /\ RunsTo(script, work, e) /\ IsWhole(e) /\ ContentsOf(e.rows) = ContentsOf(disk.rows)
                 /\ e = disk \/ (e.version = 3 /\ disk.version # 3)
    BY <2>1 DEF WholeInv
  <2>3. disk' = e /\ e.version = 3 /\ disk.version # 3
    BY <1>1, <1>3, <2>2, RunsNothing
  <2>4. Older(disk.rows)
    BY <2>3 DEF WholeInv
  <2>5. Older(e.rows)
    <3> SUFFICES ASSUME NEW r \in e.rows PROVE ~(r.id > D!LastOldRow)
      BY DEF Older
    <3>1. <<r.table, r.id, r.handled>> \in ContentsOf(e.rows)
      BY DEF ContentsOf
    <3>2. <<r.table, r.id, r.handled>> \in ContentsOf(disk.rows)
      BY <2>2, <3>1
    <3>3. PICK x \in disk.rows : <<r.table, r.id, r.handled>> = <<x.table, x.id, x.handled>>
      BY <3>2 DEF ContentsOf
    <3> QED
      BY <2>4, <3>3 DEF Older
  <2>6. D!MirroredIsQueued'
    BY <2>3, <2>5 DEF D!MirroredIsQueued, Older
  <2>7. IsWhole(disk') /\ Older(disk'.rows)
    BY <2>2, <2>3, <2>5
  <2> QED
    BY <1>1, <2>2, <2>3, <2>6, <2>7 DEF WholeInv
<1> QED
  BY <1>2, <1>3

LEMMA WholeMirrors ==
    ASSUME WholeInv, DatabaseInv', NEW p \in D!Procs, D!Mirror(p)
    PROVE  WholeInv' /\ disk'.objects = disk.objects
<1>1. place[p] = "open" /\ lock = None /\ UNCHANGED lock
  BY DEF D!Mirror
<1>2. D!Ours /\ disk.version = 3
  BY <1>1 DEF WholeInv, DatabaseInv, D!OpenIsCurrent
<1>3. IsWhole(disk)
  BY <1>2 DEF WholeInv
<1>4. \E f \in D!Families : \E id : disk' = [disk EXCEPT !.rows = @ \cup {D!Inserted(D!Table(f), id)}
                                                                      \cup D!Queued(disk, D!Table(f), {id})]
  BY DEF D!Mirror
<1> PICK f \in D!Families :
         \E id : disk' = [disk EXCEPT !.rows = @ \cup {D!Inserted(D!Table(f), id)}
                                                 \cup D!Queued(disk, D!Table(f), {id})]
  BY <1>4
<1> PICK id : disk' = [disk EXCEPT !.rows = @ \cup {D!Inserted(D!Table(f), id)}
                                              \cup D!Queued(disk, D!Table(f), {id})]
  OBVIOUS
<1> PICK new, wake : new = D!Inserted(D!Table(f), id) /\ wake = D!Inserted(D!Table("wakeups"), id)
  OBVIOUS
<1> PICK rows : rows = disk.rows \cup {new} \cup {wake}
  OBVIOUS
<1>5. disk' = [disk EXCEPT !.rows = rows]
  <2>1. D!Queued(disk, D!Table(f), {id}) = {wake}
    BY <1>2, <1>3, QueuedWhole
  <2> QED
    BY <2>1
<1>6. new.id = id /\ wake.id = id /\ wake.table = D!Table("wakeups") /\ GoodRows({new}) /\ GoodRows({wake})
  <2>1. IsTable(D!Table(f)) /\ IsTable(D!Table("wakeups"))
    BY DEF IsTable, D!Table
  <2> QED
    BY <2>1, InsertedIs
<1>7. GoodRows(rows)
  BY <1>3, <1>6 DEF IsWhole, GoodRows
<1>8. disk' = D!Of(D!Us, 3, D!LayoutAt(3), rows) /\ disk'.objects = disk.objects
  BY <1>2, <1>3, <1>5 DEF IsWhole, D!Of
<1>9. IsWhole(disk') /\ disk'.version = 3 /\ disk'.rows = rows /\ D!Ours'
  <2> PICK d : d = D!Of(D!Us, 3, D!LayoutAt(3), rows)
    OBVIOUS
  <2>1. IsWhole(d) /\ d.version = 3 /\ d.rows = rows
    BY <1>7, WholeIs
  <2>2. d.owner = D!Us
    BY OfIs
  <2>3. disk' = d
    BY <1>8
  <2>4. IsWhole(disk') /\ disk'.version = 3 /\ disk'.rows = rows /\ disk'.owner = D!Us
    BY ONLY <2>1, <2>2, <2>3
  <2>5. D!Ours'
    BY <2>4 DEF D!Ours
  <2> QED
    BY <2>4, <2>5
<1>10. D!MirroredIsQueued'
  <2> SUFFICES ASSUME NEW r \in rows, r.id > D!LastOldRow, r.table # D!Table("wakeups")
               PROVE  D!Inserted(D!Table("wakeups"), r.id) \in rows
    BY <1>9 DEF D!MirroredIsQueued
  <2>1. CASE r \in disk.rows
    BY <2>1 DEF WholeInv, D!MirroredIsQueued
  <2>2. CASE r = new
    BY <1>6, <2>2
  <2>3. CASE r = wake
    BY <1>6, <2>3
  <2> QED
    BY <2>1, <2>2, <2>3
<1> QED
  BY <1>1, <1>8, <1>9, <1>10 DEF WholeInv

(***************************************************************************)
(* Every step keeps the invariant; one that changes the catalog keeps the   *)
(* contents of the rows.                                                    *)
(***************************************************************************)
LEMMA WholeStep ==
    WholeInv /\ [D!Next]_database
        => WholeInv' /\ (disk'.objects # disk.objects => ContentsOf(disk'.rows) = ContentsOf(disk.rows))
<1> SUFFICES ASSUME WholeInv, [D!Next]_database
             PROVE  /\ WholeInv'
                    /\ disk'.objects # disk.objects => ContentsOf(disk'.rows) = ContentsOf(disk.rows)
  OBVIOUS
<1>1. DatabaseInv /\ DatabaseInv' /\ (~D!Ours /\ disk # D!NoDatabase => disk' = disk)
  BY DatabaseStep DEF WholeInv
<1>2. ASSUME UNCHANGED <<disk, lock, work, script>> PROVE WholeInv' /\ disk' = disk
  BY <1>1, <1>2, WholeKept
<1>3. ASSUME D!Rollback PROVE WholeInv' /\ disk' = disk
  BY <1>1, <1>3, WholeKept DEF D!Rollback, D!NoTransaction
<1>4. CASE UNCHANGED database
  BY <1>2, <1>4 DEF database
<1>5. CASE D!PathBreaks \/ D!PathIsMended
  BY <1>2, <1>5 DEF D!PathBreaks, D!PathIsMended
<1>6. ASSUME NEW p \in D!Procs,
             D!FirstLook(p) \/ D!OpenFile(p) \/ D!RefuseMigrate(p) \/ D!BusyTimeout(p)
             \/ D!TryAgain(p) \/ D!Restart(p)
      PROVE  WholeInv' /\ disk' = disk
  <2>1. UNCHANGED <<disk, lock, work, script>>
    BY <1>6 DEF D!FirstLook, D!OpenFile, D!RefuseMigrate, D!BusyTimeout, D!TryAgain, D!Restart
  <2> QED
    BY <1>2, <2>1
<1>7. ASSUME NEW p \in D!Procs, D!BeginEnsure(p) \/ D!BeginMigrate(p)
      PROVE  WholeInv' /\ disk' = disk
  <2>1. disk' = disk
    BY <1>7 DEF D!BeginEnsure, D!BeginMigrate, D!Begins
  <2> QED
    BY <1>1, <1>7, <2>1, WholeEnsures, WholeMigrates
<1>8. ASSUME NEW p \in D!Procs, D!Statement(p)
      PROVE  WholeInv' /\ disk' = disk
  <2>1. lock = p /\ lock # None /\ script # <<>>
    BY <1>8, OriginalAssumption DEF D!Statement
  <2>2. CASE D!Fails(Head(script), work)
    BY <1>3, <1>8, <2>2 DEF D!Statement
  <2>3. CASE ~D!Fails(Head(script), work)
    <3>1. /\ work' = D!Result(Head(script), work) /\ script' = Tail(script)
          /\ UNCHANGED <<disk, lock>>
      BY <1>8, <2>3 DEF D!Statement
    <3> QED
      BY <1>1, <2>1, <3>1, WholeRuns
  <2> QED
    BY <2>2, <2>3
<1>9. ASSUME NEW p \in D!Procs, D!Commit(p)
      PROVE  WholeInv' /\ ContentsOf(disk'.rows) = ContentsOf(disk.rows)
  <2>1. lock # None
    BY <1>9, OriginalAssumption DEF D!Commit
  <2> QED
    BY <1>1, <1>9, <2>1, WholeCommits
<1>10. ASSUME NEW p \in D!Procs, D!Mirror(p) PROVE WholeInv' /\ disk'.objects = disk.objects
  BY <1>1, <1>10, WholeMirrors
<1>11. ASSUME NEW p \in D!Procs, D!Ends(p) PROVE WholeInv' /\ disk' = disk
  BY <1>2, <1>3, <1>11 DEF D!Ends
<1>12. ASSUME NEW p \in D!Procs, D!InputOutputError(p) PROVE WholeInv' /\ disk' = disk
  BY <1>3, <1>12 DEF D!InputOutputError
<1> QED
  BY <1>4, <1>5, <1>6, <1>7, <1>8, <1>9, <1>10, <1>11, <1>12
  DEF D!Next, D!Opens, D!PathBreaks, D!PathIsMended, database

(* The statement at the head of a script applies: what is left completes it. *)
LEMMA WholeImplies == WholeInv => D!TypeOK /\ D!CatalogMatchesVersion /\ D!OpenIsCurrent
                                  /\ D!ScriptsApply /\ D!MirroredIsQueued
<1> SUFFICES ASSUME WholeInv
             PROVE  D!CatalogMatchesVersion /\ D!ScriptsApply
  BY DEF WholeInv, DatabaseInv
<1>1. D!CatalogMatchesVersion
  <2> SUFFICES ASSUME D!Ours PROVE disk.objects = D!LayoutAt(disk.version)
    BY DEF D!CatalogMatchesVersion
  <2>1. IsWhole(disk)
    BY DEF WholeInv
  <2> QED
    BY <2>1, OfIs DEF IsWhole
<1>2. D!ScriptsApply
  <2> SUFFICES ASSUME lock # None, script # <<>>, D!Ours \/ disk = D!NoDatabase
               PROVE  ~D!Fails(Head(script), work)
    BY DEF D!ScriptsApply
  <2>1. PICK e : RunsTo(script, work, e)
    BY DEF WholeInv
  <2>2. script \in Seq(Statements)
    BY ScriptOf DEF WholeInv
  <2> QED
    BY <2>1, <2>2, RunsHead
<1> QED
  BY <1>1, <1>2
=============================================================================
