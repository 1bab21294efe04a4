------------------------------ MODULE Handoff -------------------------------
(***************************************************************************)
(* Which handoff attach prints (LastHandoff, nerve.go).  Handovers are      *)
(* mirrored into two tables, root documents and task artifacts; the query   *)
(* takes the current rows of both, orders them by observed_at and then by   *)
(* id, and returns the first.  observed_at is an RFC3339Nano text, and an   *)
(* id says something within its own table only.                             *)
(***************************************************************************)
EXTENDS StampOrder

CONSTANTS
    RootDocs, Artifacts,   \* the handovers, by the table they go to
    MaxId                  \* bound on the rows of a table

Handovers == RootDocs \cup Artifacts

VARIABLES
    now,       \* the clock
    current    \* the is_current row of each handover that was mirrored

vars == <<now, current>>

TypeOK ==
    /\ now \in Stamps
    /\ DOMAIN current \subseteq Handovers
    /\ \A h \in DOMAIN current : current[h] \in [observed : Stamps, id : 1 .. MaxId]
    /\ \A g, h \in DOMAIN current :
          g # h /\ ({g, h} \subseteq RootDocs \/ {g, h} \subseteq Artifacts)
             => current[g].id # current[h].id

Init ==
    /\ now \in {s \in Stamps : s.second = 0}
    /\ current = <<>>

Passes ==
    /\ now' \in {s \in Stamps : Before(now, s)}
    /\ UNCHANGED current

(***************************************************************************)
(* Scribe mirrors a version: the row it retires is not current any more.    *)
(***************************************************************************)
(* The primary key SQLite assigns: above those of the rows of the table. *)
FreeId(table) ==
    CHOOSE n \in 1 .. (MaxId + 1) :
        /\ \A h \in DOMAIN current \cap table : current[h].id < n
        /\ n > 1 => \E h \in DOMAIN current \cap table : current[h].id = n - 1

Mirror(table, h) ==
    /\ h \in table /\ FreeId(table) <= MaxId
    /\ current' = [g \in DOMAIN current \cup {h} |->
          IF g = h THEN [observed |-> now, id |-> FreeId(table)] ELSE current[g]]
    /\ UNCHANGED now

Next ==
    \/ Passes
    \/ \E h \in RootDocs : Mirror(RootDocs, h)
    \/ \E h \in Artifacts : Mirror(Artifacts, h)

Spec == Init /\ [][Next]_vars

-----------------------------------------------------------------------------
(***************************************************************************)
(* ORDER BY observed_at DESC, id DESC LIMIT 1: any of the rows no other     *)
(* row comes before.                                                        *)
(***************************************************************************)
ComesFirst(r, s) ==
    \/ TextBefore(NanoText(s.observed), NanoText(r.observed))
    \/ r.observed = s.observed /\ r.id >= s.id

(* Mutant of LastHandoff: ORDER BY id DESC alone, as if ids told the time. *)
LastHandoffById ==
    {h \in DOMAIN current : \A g \in DOMAIN current : current[h].id >= current[g].id}

LastHandoff ==
    {h \in DOMAIN current : \A g \in DOMAIN current : ComesFirst(current[h], current[g])}

(***************************************************************************)
(* The handoff attach prints was mirrored in the second of the latest one.  *)
(***************************************************************************)
HandoffOfLatestSecond ==
    \A h \in LastHandoff, g \in DOMAIN current :
        current[g].observed.second <= current[h].observed.second
=============================================================================
