-------------------------- MODULE MCWatchResident --------------------------
(***************************************************************************)
(* Two sessions of one home.                                                *)
(***************************************************************************)
EXTENDS WatchResident

CONSTANTS s1, s2

=============================================================================
