------------------------------ MODULE MCNerve ------------------------------
(***************************************************************************)
(* Subscriptions for two homes: who follows what, from which workspace.     *)
(***************************************************************************)
EXTENDS Nerve

CONSTANTS f1, f2, h1, h2, t1, t2

Seat(id, h, w) == [id |-> id, home |-> h, ws |-> w]

Follow(to, filter, seatsOf) == [to |-> to, filter |-> filter, seats |-> seatsOf]

(* One follower reads all of companion, another only home h1 of it. *)
TwoReaders ==
    [f \in {f1, f2} |->
        IF f = f1 THEN Follow("companion", {}, {Seat("a", h2, "w1")})
                  ELSE Follow("companion", {h1}, {Seat("c", h1, "w2")})]

(* One follower per destination that has wakeups, in workspaces of their own. *)
OwnWorkspaces ==
    [f \in {f1, f2} |->
        IF f = f1 THEN Follow("companion", {}, {Seat("a", h1, "w1")})
                  ELSE Follow("captain", {}, {Seat("b", h1, "w2")})]

(* Both read companion for one home from one workspace, one with --seat-id. *)
ExplicitSeat ==
    [f \in {f1, f2} |->
        Follow("companion", {}, {Seat(IF f = f1 THEN "a" ELSE "c", h1, "w1")})]

(* One follower per destination in one workspace: they derive one seat. *)
OneWorkspace ==
    [f \in {f1, f2} |->
        IF f = f1 THEN Follow("companion", {}, {Seat("a", h1, "w1")})
                  ELSE Follow("captain", {}, {Seat("a", h1, "w1")})]
=============================================================================
