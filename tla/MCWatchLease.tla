---------------------------- MODULE MCWatchLease ----------------------------
(***************************************************************************)
(* Three sessions of one home.  A stamp may be older than a whole lease, so *)
(* that late renewals and leases that are over when they start are reached. *)
(*                                                                         *)
(* WatchLease compares times where the database compares texts.  TLC        *)
(* evaluates here that the two orders agree for the layout of lease.go, on  *)
(* stamps of two seconds with three digits of a fraction in base three:     *)
(* enough for every place a zero can be dropped from.                       *)
(***************************************************************************)
EXTENDS WatchLease, StampOrder, TLC

CONSTANTS s1, s2, s3

ASSUME LayoutAssumption == LeaseTextOrdersTime /\ NanoTextOrdersSeconds

Symmetry == Permutations(Sessions)
=============================================================================
