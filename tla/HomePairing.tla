---------------------------- MODULE HomePairing -----------------------------
(***************************************************************************)
(* Which homes a verb works on: the flags --home, --home-id, --label and    *)
(* --kind, each repeatable, and the environment (homes.go, verbs.go).       *)
(*                                                                         *)
(* A value is a string without spaces around it: the program trims each of  *)
(* them.  Blank is a value that was given and is empty.                     *)
(***************************************************************************)
EXTENDS Naturals, Sequences

Blank == ""

Refused(why) == [error |-> why, pairs |-> <<>>, filters |-> <<>>]
Paired(pairs) == [error |-> "none", pairs |-> pairs, filters |-> <<>>]
Filtered(ids) == [error |-> "none", pairs |-> <<>>, filters |-> ids]

OrElse(value, default) == IF value = Blank THEN default ELSE value

(***************************************************************************)
(* alignOptional: no value stands for n blanks, one for n of it.            *)
(***************************************************************************)
CanAlign(values, n) == Len(values) \in {0, n} \/ (Len(values) = 1 /\ n > 1)

(* Mutant of Align: the first value stands for all, also when there are more. *)
AlignFirst(values, n) == [i \in 1 .. n |-> IF values = <<>> THEN Blank ELSE values[1]]

Align(values, n) ==
    [i \in 1 .. n |-> CASE Len(values) = 0 -> Blank
                        [] Len(values) = 1 -> values[1]
                        [] OTHER -> values[i]]

PairHomes(homes, ids, labels, kinds) ==
    LET n == Len(homes)
    IN  IF Len(ids) # n THEN Refused("unbalanced")
        ELSE IF ~CanAlign(labels, n) THEN Refused("label")
        ELSE IF ~CanAlign(kinds, n) THEN Refused("kind")
        ELSE Paired([i \in 1 .. n |->
                 [path |-> homes[i], id |-> ids[i],
                  label |-> OrElse(Align(labels, n)[i], ids[i]),
                  kind |-> OrElse(Align(kinds, n)[i], "primary")]])

One(value) == IF value = Blank THEN <<>> ELSE <<value>>

(* Mutant of ResolveHomes: each flag falls back to the environment by itself. *)
ResolveHomesMixing(flags, env, filterOnly) ==
    LET homes == IF flags.homes = <<>> THEN One(env.home) ELSE flags.homes
        ids == IF flags.ids = <<>> THEN One(env.id) ELSE flags.ids
    IN  IF \E i \in DOMAIN flags.ids : flags.ids[i] = Blank THEN Refused("blank id")
        ELSE IF homes = <<>> /\ ~filterOnly THEN Refused("required")
        ELSE IF homes = <<>> THEN Filtered(ids)
        ELSE PairHomes(homes, ids, flags.labels, flags.kinds)

(* Mutant of ResolveHomes: a blank id is not refused. *)
ResolveHomesAnyId(flags, env, filterOnly) ==
    LET bare == flags.homes = <<>> /\ flags.ids = <<>>
        homes == IF bare THEN One(env.home) ELSE flags.homes
        ids == IF bare THEN One(env.id) ELSE flags.ids
    IN  IF homes = <<>> /\ ~filterOnly THEN Refused("required")
        ELSE IF homes = <<>> THEN Filtered(ids)
        ELSE PairHomes(homes, ids, flags.labels, flags.kinds)

(***************************************************************************)
(* resolveHomes.  The environment counts only when neither --home nor       *)
(* --home-id is given; ids without homes are a filter where the verb allows *)
(* one (chart and follow).                                                  *)
(***************************************************************************)
ResolveHomes(flags, env, filterOnly) ==
    LET bare == flags.homes = <<>> /\ flags.ids = <<>>
        homes == IF bare THEN One(env.home) ELSE flags.homes
        ids == IF bare THEN One(env.id) ELSE flags.ids
    IN  IF \E i \in DOMAIN flags.ids : flags.ids[i] = Blank THEN Refused("blank id")
        ELSE IF homes = <<>> /\ ~filterOnly THEN Refused("required")
        ELSE IF homes = <<>> THEN Filtered(ids)
        ELSE PairHomes(homes, ids, flags.labels, flags.kinds)

(***************************************************************************)
(* parseIngestHomes and parseOptionalHomes; scribe and watch resolve like   *)
(* the former (main.go).                                                    *)
(***************************************************************************)
FilterVerbs == {"chart", "follow"}
Request(verb, flags, env) == ResolveHomes(flags, env, verb \in FilterVerbs)
=============================================================================
