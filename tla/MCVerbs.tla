------------------------------- MODULE MCVerbs -------------------------------
(***************************************************************************)
(* What the verbs do with homes (Verbs), what the chart and the handoff     *)
(* they print are made from (Chart, Handoff), and what a command line and   *)
(* the path of a document stand for (HomePairing, Families).  Each is       *)
(* looked at by itself: one part moves in each behaviour, the others stay   *)
(* at a start of theirs.                                                    *)
(*                                                                         *)
(* Two homes: attach and tick for both, chart for the second alone, follow  *)
(* for a filter with an unregistered id in it, and for whatever there is;   *)
(* once with rewrites and before there is any seat, once with seats and     *)
(* homes that rest.                                                         *)
(* Two readers of the chart beside the writers.  Two handovers of tasks and *)
(* one in the root, two seconds of four instants.  Every command line of up *)
(* to two homes.  File names of up to four words, in the root and in        *)
(* directories of tasks.                                                    *)
(***************************************************************************)
EXTENDS Verbs, Families

CONSTANTS
    p1, p2, r1, r2, root, task1, task2,
    Readers, Labels, MaxDocs,                              \* of Chart
    RootDocs, Artifacts, MaxId, MaxSecond, Base, Width,    \* of Handoff
    HomeValues, IdValues, LabelValues, KindValues          \* of flags, Blank among them

-----------------------------------------------------------------------------
Line(verb, paths, ids) ==
    [verb |-> verb, env |-> [home |-> Blank, id |-> Blank],
     flags |-> [homes |-> paths, ids |-> ids, labels |-> <<>>, kinds |-> <<>>]]

MCLines ==
    {Line("attach", <<"harbor", "skiff">>, <<"h", "s">>),
     Line("tick", <<"skiff", "harbor">>, <<"s", "h">>),
     Line("chart", <<"skiff">>, <<"s">>),
     Line("follow", <<>>, <<"s", "x">>),
     Line("follow", <<>>, <<>>)}

UpToTwo(S) == {<<>>} \cup {<<a>> : a \in S} \cup {<<a, b>> : a, b \in S}

Calls == [verb : {"attach", "chart"},
          flags : [homes : UpToTwo(HomeValues), ids : UpToTwo(IdValues),
                   labels : UpToTwo(LabelValues), kinds : UpToTwo(KindValues)],
          env : [home : {Blank, "homeE"}, id : {Blank, "idE"}]]

Words == {"captain", "Captain", "archive", "backlog", "note", "handover", "_", "2026", "07", "14"}
MCLower == [w \in Words |-> IF w = "Captain" THEN "captain" ELSE w]
MCClean == [w \in Words |-> IF w = "_" THEN "" ELSE w]
MCDates == {<<"2026", "07", "14">>}

FileNames == {<<a>> : a \in Words} \cup {<<a, b>> : a, b \in Words}
           \cup {<<a, b, c>> : a, b, c \in Words} \cup {<<a, b, c, d>> : a, b, c, d \in Words}

Documents ==
    [dirs : {<<>>, <<"t1">>, <<"t1", "notes">>, <<"captain">>}, words : FileNames, ext : {".md", ".MD"}]

-----------------------------------------------------------------------------
VARIABLES
    part,                      \* which part moves
    db, cache, chart, quiet,   \* Chart
    now, current,              \* Handoff
    call, request,             \* a command line, and what HomePairing makes of it
    path, row                  \* a document, and what Families makes of it

C == INSTANCE Chart
H == INSTANCE Handoff

(***************************************************************************)
(* A home has a label; a handover is in one of two tables (Families).       *)
(***************************************************************************)
ASSUME ChartAssumption == Labels # {} /\ MaxDocs \in Nat

ASSUME HandoverAssumption ==
    /\ RootDocs \cap Artifacts = {} /\ MaxId \in Nat
    /\ MaxSecond \in Nat /\ Base \in 1 .. 10 /\ Width \in Nat \ {0}

(***************************************************************************)
(* The values of flags are not those of the environment, so that a mixture  *)
(* shows.                                                                   *)
(***************************************************************************)
ASSUME ValueAssumption == "homeE" \notin HomeValues /\ "idE" \notin IdValues

(***************************************************************************)
(* "handover" is a word in lower case, and no date begins with it.          *)
(***************************************************************************)
ASSUME WordAssumption ==
    /\ Clean[Lower["handover"]] = "handover"
    /\ <<"2026", "07", "14">> \in Dates /\ \A date \in Dates : date[1] # "handover"

charting == <<db, cache, chart, quiet>>
handing == <<now, current>>
reading == <<call, request, path, row>>
all == <<part, vars, charting, handing, reading>>

Parts == {"sweeps", "seats", "chart", "handoff", "call", "document"}
NoCall == CHOOSE c \in Calls : c.flags.homes = <<>>
NoDocument == [dirs |-> <<>>, words |-> <<"note">>, ext |-> ".md"]
Parsing == Refused("parsing")
Unread == Row("none", <<>>, NoTask)

AllInit ==
    /\ part \in Parts
    /\ Init /\ C!Init
    /\ H!Init /\ (part # "handoff" => now.fraction = [d \in 1 .. Width |-> 0])
    /\ call \in (IF part = "call" THEN Calls ELSE {NoCall}) /\ request = Parsing
    /\ path \in (IF part = "document" THEN Documents ELSE {NoDocument}) /\ row = Unread

Resolve ==
    /\ request = Parsing
    /\ request' = Request(call.verb, call.flags, call.env)
    /\ UNCHANGED <<call, path, row>>

ReadPath ==
    /\ row = Unread
    /\ row' = Classify(path)
    /\ UNCHANGED <<path, call, request>>

AllNext ==
    \/ part = "sweeps" /\ Next /\ seats' = {} /\ UNCHANGED <<part, charting, handing, reading>>
    \/ part = "seats" /\ Next /\ files' = Fresh /\ UNCHANGED <<part, charting, handing, reading>>
    \/ part = "chart" /\ C!Next /\ UNCHANGED <<part, vars, handing, reading>>
    \/ part = "handoff" /\ H!Next /\ UNCHANGED <<part, vars, charting, reading>>
    \/ part = "call" /\ Resolve /\ UNCHANGED <<part, vars, charting, handing>>
    \/ part = "document" /\ ReadPath /\ UNCHANGED <<part, vars, charting, handing>>

AllSpec == AllInit /\ [][AllNext]_all

Symmetry == Permutations(Procs) \cup Permutations(Readers)

-----------------------------------------------------------------------------
(***************************************************************************)
(* What attach and chart print is current: a chart made while nothing is    *)
(* written shows the database as it is, although a reader that was torn     *)
(* between two queries may have stored its own (GetOrCreate), and the       *)
(* handoff is of the second of the latest one, whatever the ids of the two  *)
(* tables it may be in (LastHandoff).                                       *)
(***************************************************************************)
PrintedIsCurrent ==
    /\ C!TypeOK /\ C!QuietChartIsCurrent
    /\ H!TypeOK /\ H!HandoffOfLatestSecond

Accepted == request.error = "none"
Flags == call.flags
Explicit == Flags.homes # <<>> \/ Flags.ids # <<>>
At(values, i) == IF Len(values) = 1 THEN values[1] ELSE values[i]

(***************************************************************************)
(* Pairs are positional: a home is mirrored under the id, and with the      *)
(* label and kind, that stand at its own place, one of which stands for     *)
(* all (README, "repeated --home PATH --home-id ID positional pairs").      *)
(***************************************************************************)
PairsArePositional ==
    Accepted /\ Flags.homes # <<>> =>
        /\ Len(request.pairs) = Len(Flags.homes) /\ Len(Flags.ids) = Len(Flags.homes)
        /\ \A i \in DOMAIN request.pairs :
              LET p == request.pairs[i]
              IN  /\ p.path = Flags.homes[i] /\ p.id = Flags.ids[i]
                  /\ Flags.labels # <<>> /\ At(Flags.labels, i) # Blank
                        => p.label = At(Flags.labels, i)
                  /\ Flags.kinds # <<>> /\ At(Flags.kinds, i) # Blank
                        => p.kind = At(Flags.kinds, i)

(***************************************************************************)
(* A home named on the command line never gets the identity of the          *)
(* environment, nor the other way round: its files would be mirrored as     *)
(* another home's (homes_test.go:76-103).                                   *)
(***************************************************************************)
EnvironmentIsNotMixed ==
    \A i \in DOMAIN request.pairs :
        (request.pairs[i].path = "homeE" <=> ~Explicit) /\ (request.pairs[i].id = "idE" <=> ~Explicit)

(***************************************************************************)
(* No home is mirrored, and no filter made, under a blank identity; a blank *)
(* filter would read as no filter or as a home nobody has.                  *)
(***************************************************************************)
IdentitiesAreNamed ==
    /\ \A i \in DOMAIN request.pairs : request.pairs[i].id # Blank
    /\ \A i \in DOMAIN request.filters : request.filters[i] # Blank
    /\ call.verb \notin FilterVerbs => request.filters = <<>> /\ (Accepted => request.pairs # <<>>)

(***************************************************************************)
(* The homes a verb works on are those it was given, under the identities   *)
(* they were given with: three ways in which resolveHomes could mix them.   *)
(***************************************************************************)
HomesAreAsGiven == PairsArePositional /\ EnvironmentIsNotMixed /\ IdentitiesAreNamed

(***************************************************************************)
(* The row Scribe makes of a file is taken by the table it goes to: no      *)
(* Markdown file makes the scan of its home fail (classify against the      *)
(* checks of schema.sql).                                                   *)
(***************************************************************************)
EveryDocumentFits == row # Unread => Takes(path, row)

(***************************************************************************)
(* The five families are a partition: a file that is mirrored is in the     *)
(* only table that would take it, so that no two tables hold it as current  *)
(* (README, "classifies every Markdown file ... into five families").       *)
(***************************************************************************)
FamiliesPartition == row # Unread => {t \in Tables : TakesPath(t, path)} = {row.table}

(***************************************************************************)
(* A handover that is named as one is found by LastHandoff, which asks for  *)
(* its kind: with the word first, or first after a date.                    *)
(***************************************************************************)
HandoversAreFound ==
    row # Unread /\ (path.words[1] = "handover"
                       \/ (Len(path.words) = 4 /\ path.words = <<"2026", "07", "14", "handover">>))
        => row.kind = <<"handover">>

(***************************************************************************)
(* The names in scribe.go, those in the checks of schema.sql and the one    *)
(* LastHandoff asks for agree on every document.                            *)
(***************************************************************************)
FamiliesAgree == EveryDocumentFits /\ FamiliesPartition /\ HandoversAreFound
=============================================================================
