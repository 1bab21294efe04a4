---------------------------- MODULE ChangeSource ----------------------------
(***************************************************************************)
(* What a file source and the watcher that reads it promise together        *)
(* (watch.go: "Source emits changed Markdown paths"): the mirror changes    *)
(* only to what a file holds now, and a file that stays unlike its mirror   *)
(* is read again.                                                           *)
(***************************************************************************)
CONSTANTS Paths

VARIABLES
    file,     \* the revision of each path
    there,    \* the paths that exist
    mirror    \* the revision last ingested of each path

vars == <<file, there, mirror>>

Stale(p) == p \in there /\ mirror[p] # file[p]

Change ==
    /\ \E p \in Paths : \A q \in Paths \ {p} :
          file'[q] = file[q] /\ (q \in there' <=> q \in there)
    /\ UNCHANGED mirror

Ingest(p) ==
    /\ Stale(p)
    /\ mirror' = [mirror EXCEPT ![p] = file[p]]
    /\ UNCHANGED <<file, there>>

Next == Change \/ \E p \in Paths : Ingest(p)

Spec == [][Next]_vars /\ \A p \in Paths : WF_vars(Ingest(p))
=============================================================================
