----------------------------- MODULE WakeupQueue -----------------------------
(***************************************************************************)
(* What the wakeup queue promises to the adapters that read it, whoever     *)
(* delivers: a wakeup is one row of table "wakeups"; it is printed before   *)
(* it is confirmed, and never again after.  Generations are consecutive     *)
(* numbers from 1 (nextGeneration, and the triggers of schema.sql, take the *)
(* maximum plus one, and rows are never deleted): the generation of a       *)
(* wakeup is its place in `rows'.                                           *)
(***************************************************************************)
EXTENDS Naturals, Sequences

CONSTANTS
    Wakeups,   \* what a row may hold
    MaxRows    \* bound on the rows ever inserted

VARIABLES
    rows,      \* the wakeups, by generation
    handled,   \* the generations whose row has handled = 1
    lines      \* how many lines were printed for each generation

vars == <<rows, handled, lines>>

Generations == 1 .. MaxRows

Init ==
    /\ rows = <<>>
    /\ handled = {}
    /\ lines = [g \in Generations |-> 0]

Add ==
    /\ Len(rows) < MaxRows
    /\ Len(rows') = Len(rows) + 1
    /\ SubSeq(rows', 1, Len(rows)) = rows
    /\ rows'[Len(rows')] \in Wakeups
    /\ UNCHANGED <<handled, lines>>

WriteLine(g) ==
    /\ g \in DOMAIN rows \ handled
    /\ lines' = [lines EXCEPT ![g] = @ + 1]
    /\ UNCHANGED <<rows, handled>>

Confirm(g) ==
    /\ g \in DOMAIN rows \ handled
    /\ lines[g] > 0
    /\ handled' = handled \cup {g}
    /\ UNCHANGED <<rows, lines>>

Next ==
    \/ Add
    \/ \E g \in Generations : WriteLine(g) \/ Confirm(g)

Spec == Init /\ [][Next]_vars
=============================================================================
