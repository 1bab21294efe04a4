------------------------------ MODULE MCScribe ------------------------------
(***************************************************************************)
(* Instances of Scribe: a history of a file whose contents are all new, and *)
(* one in which the file is missing for a while.                            *)
(***************************************************************************)
EXTENDS Scribe, TLC

CONSTANTS captain, attach, w1, w2

FreshContents == [r \in Revs |-> IF r = 0 THEN Absent ELSE <<"bytes", r>>]

VanishingContents ==
    [r \in Revs |-> IF r \in {0, 2} THEN Absent ELSE <<"bytes", r>>]

Symmetry == Permutations(Watchers)
=============================================================================
