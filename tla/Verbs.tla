------------------------------- MODULE Verbs --------------------------------
(***************************************************************************)
(* The verbs that work on several homes at once: scribe, attach, follow,    *)
(* tick and chart (verbs.go, main.go).  A verb registers and sweeps its     *)
(* homes one after the other, attach and follow then register one seat per  *)
(* home, and only then does it answer.  Any step may fail and end the verb; *)
(* what it committed before stays.                                          *)
(*                                                                         *)
(* A home's files are one document, which is never gone.  The sweep of a    *)
(* home looks at them, reads them and commits what it read in three steps,  *)
(* and no verb has a fence: bytes that were read before a rewrite may be    *)
(* committed after another verb has mirrored the rewrite, and the mirror    *)
(* goes back (MCScribeRegress).  The sweeps of a resident watcher are those *)
(* of one more invocation of scribe: its fence only refuses commits.        *)
(* Scribe and Sweep model the sweep of several files, Nerve and Chart what  *)
(* happens once a verb answers; which homes a command line names is         *)
(* HomePairing's.                                                           *)
(***************************************************************************)
EXTENDS HomePairing, FiniteSets, SequencesExt

CONSTANTS
    Procs,     \* invocations; each has a workspace of its own
    Paths,     \* the homes
    Ids,       \* identities, of homes and in filters
    Lines,     \* the command lines in use: [verb, flags, env]
    MaxRev     \* bound on the rewrites of a home

Verbs == {"scribe", "attach", "follow", "tick", "chart"}
RequestOf == [line \in Lines |-> Request(line.verb, line.flags, line.env)]

AllPairs == UNION {Range(RequestOf[l].pairs) : l \in Lines}
Revs == 0 .. MaxRev
None == [path |-> Blank, rev |-> 0]

(***************************************************************************)
(* Nothing in the program refuses two homes of one id: their mirrors would  *)
(* overwrite each other.  An id is "stable local identity" of one home.     *)
(***************************************************************************)
ASSUME LinesAssumption ==
    /\ \A l \in Lines : l.verb \in Verbs /\ RequestOf[l].error = "none"
    /\ \A l \in Lines : l.flags.homes \in Seq(Paths) /\ l.flags.ids \in Seq(Ids)
    /\ \A l \in Lines : Range(RequestOf[l].filters) \subseteq Ids
    /\ \A p \in AllPairs : p.path \in Paths /\ p.id \in Ids
    /\ \A p, q \in AllPairs : p.path = q.path <=> p.id = q.id
    /\ MaxRev \in Nat \ {0}

VARIABLES
    files,   \* the revision of each home's files
    homes,   \* table homes
    mirror,  \* the current rows of each home: whose files, at which revision
    cursor,  \* ingest_file_state: the fingerprint each home was last swept at, 0: none
    seats,   \* table seats: the home and the workspace of each
    run      \* what each invocation is doing; since: the files when it started, 0 for
             \* a home of which somebody held older bytes then (history)

vars == <<files, homes, mirror, cursor, seats, run>>

Fresh == [h \in Paths |-> 1]
Never == [h \in Paths |-> 0]
Idle == [at |-> "idle", verb |-> "chart", pairs |-> <<>>, filters |-> <<>>, targets |-> <<>>,
         next |-> 1, known |-> 0, fp |-> 0, bytes |-> 0, since |-> Never]

(***************************************************************************)
(* In the sweep of a home: known is the cursor it loaded, fp the            *)
(* fingerprint it took and bytes the revision it read; 0 out of use.        *)
(***************************************************************************)
Sweeping == {"load", "fingerprint", "check", "read", "commit"}
Points == {"idle", "register", "list", "seats", "answer"} \cup Sweeping
Runs == [at : Points, verb : Verbs, pairs : Seq(AllPairs), filters : Seq(Ids),
         targets : Seq(Ids), next : Nat \ {0}, known : Revs, fp : Revs, bytes : Revs,
         since : [Paths -> Revs]]

TypeOK ==
    /\ files \in [Paths -> Revs \ {0}]
    /\ homes \subseteq Ids /\ IsFiniteSet(homes)
    /\ mirror \in [Ids -> [path : Paths \cup {Blank}, rev : Revs]]
    /\ \A i \in Ids : mirror[i] # None => i \in homes
    /\ cursor \in [Ids -> Revs]
    /\ seats \subseteq [home : homes, workspace : Procs]
    /\ run \in [Procs -> Runs]
    /\ \A p \in Procs :
          /\ run[p].at \in {"register"} \cup Sweeping => run[p].next \in DOMAIN run[p].pairs
          /\ run[p].at = "seats" => run[p].next \in DOMAIN run[p].targets

Init ==
    /\ files = Fresh
    /\ homes = {}
    /\ mirror = [i \in Ids |-> None]
    /\ cursor = [i \in Ids |-> 0]
    /\ seats = {}
    /\ run = [p \in Procs |-> Idle]

Rewrite(h) ==
    /\ files[h] < MaxRev
    /\ files' = [files EXCEPT ![h] = @ + 1]
    /\ UNCHANGED <<homes, mirror, cursor, seats, run>>

-----------------------------------------------------------------------------
(***************************************************************************)
(* Who is about to commit what it read of a home; the homes of which nobody *)
(* is about to commit anything but the files as they are.                   *)
(***************************************************************************)
PairOf(r) == r.pairs[r.next]
Target(r) == PairOf(r).path
Holds(r, h) == r.at = "commit" /\ Target(r) = h
Quiet == {h \in Paths : \A p \in Procs : Holds(run[p], h) => run[p].bytes = files[h]}

(***************************************************************************)
(* A verb parses its line and opens the database.  Only chart and follow    *)
(* may have no homes to refresh.                                            *)
(***************************************************************************)
Start(p, line) ==
    LET request == RequestOf[line]
    IN  /\ run[p].at = "idle"
        /\ run' = [run EXCEPT ![p] =
              [Idle EXCEPT !.verb = line.verb, !.pairs = request.pairs, !.filters = request.filters,
                           !.since = [h \in Paths |-> IF h \in Quiet THEN files[h] ELSE 0],
                           !.at = IF request.pairs # <<>> THEN "register"
                                  ELSE IF line.verb = "follow" THEN "list" ELSE "answer"]]
        /\ UNCHANGED <<files, homes, mirror, cursor, seats>>

(* scribe.New commits the home, and then loads its cursor. *)
RegisterHome(p) ==
    /\ run[p].at = "register"
    /\ homes' = homes \cup {PairOf(run[p]).id}
    /\ run' = [run EXCEPT ![p].at = "load"]
    /\ UNCHANGED <<files, mirror, cursor, seats>>

LoadCursor(p) ==
    /\ run[p].at = "load"
    /\ run' = [run EXCEPT ![p].at = "fingerprint",
                          ![p].known = cursor[PairOf(run[p]).id]]
    /\ UNCHANGED <<files, homes, mirror, cursor, seats>>

(***************************************************************************)
(* IngestPath: a fingerprint that is not the loaded one has the file read,  *)
(* one that is it has the cursor looked up again.                           *)
(***************************************************************************)
Fingerprint(p) ==
    /\ run[p].at = "fingerprint"
    /\ LET fp == files[Target(run[p])]
       IN  run' = [run EXCEPT ![p].at = IF run[p].known = fp THEN "check" ELSE "read",
                                 ![p].known = 0, ![p].fp = fp]
    /\ UNCHANGED <<files, homes, mirror, cursor, seats>>

(***************************************************************************)
(* After the last sweep, attach and follow go on to their seats.            *)
(***************************************************************************)
Subscribes(p) == run[p].verb \in {"attach", "follow"}

Emptied(r) == [r EXCEPT !.known = 0, !.fp = 0, !.bytes = 0]

AfterSweep(r) ==
    IF r.next < Len(r.pairs) THEN [Emptied(r) EXCEPT !.at = "register", !.next = @ + 1]
    ELSE IF r.verb \in {"attach", "follow"}
    THEN [Emptied(r) EXCEPT !.at = "seats", !.targets = [i \in DOMAIN r.pairs |-> r.pairs[i].id],
                            !.next = 1]
    ELSE [Emptied(r) EXCEPT !.at = "answer"]

(***************************************************************************)
(* persistedUnchanged: a home whose cursor still stands at the fingerprint  *)
(* is not read; another sweep may have moved it since it was loaded.        *)
(***************************************************************************)
CheckCursor(p) ==
    /\ run[p].at = "check"
    /\ run' = [run EXCEPT ![p] =
          IF cursor[PairOf(@).id] = @.fp THEN AfterSweep(@) ELSE [@ EXCEPT !.at = "read"]]
    /\ UNCHANGED <<files, homes, mirror, cursor, seats>>

(* Mutant of ReadFile: the bytes are those the fingerprint was taken of. *)
ReadFingerprinted(p) ==
    /\ run[p].at = "read"
    /\ run' = [run EXCEPT ![p].at = "commit", ![p].bytes = run[p].fp]
    /\ UNCHANGED <<files, homes, mirror, cursor, seats>>

ReadFile(p) ==
    /\ run[p].at = "read"
    /\ run' = [run EXCEPT ![p].at = "commit", ![p].bytes = files[Target(run[p])]]
    /\ UNCHANGED <<files, homes, mirror, cursor, seats>>

(* Mutant of Commit: every home is mirrored under the first id. *)
CommitUnderFirstId(p) ==
    /\ run[p].at = "commit"
    /\ LET id == run[p].pairs[1].id
       IN  /\ mirror' = [mirror EXCEPT ![id] = [path |-> Target(run[p]), rev |-> run[p].bytes]]
           /\ cursor' = [cursor EXCEPT ![id] = run[p].fp]
    /\ run' = [run EXCEPT ![p] = AfterSweep(@)]
    /\ UNCHANGED <<files, homes, seats>>

(* Mutant of Commit: the cursor is that of the files at the end. *)
CommitLateCursor(p) ==
    /\ run[p].at = "commit"
    /\ LET pair == PairOf(run[p])
       IN  /\ mirror' = [mirror EXCEPT ![pair.id] = [path |-> pair.path, rev |-> run[p].bytes]]
           /\ cursor' = [cursor EXCEPT ![pair.id] = files[pair.path]]
    /\ run' = [run EXCEPT ![p] = AfterSweep(@)]
    /\ UNCHANGED <<files, homes, seats>>

(***************************************************************************)
(* The transaction replaces the current row unless it has these very bytes, *)
(* older than it or newer, and moves the cursor to the fingerprint.         *)
(***************************************************************************)
Commit(p) ==
    /\ run[p].at = "commit"
    /\ LET pair == PairOf(run[p])
       IN  /\ mirror' = [mirror EXCEPT ![pair.id] = [path |-> pair.path, rev |-> run[p].bytes]]
           /\ cursor' = [cursor EXCEPT ![pair.id] = run[p].fp]
    /\ run' = [run EXCEPT ![p] = AfterSweep(@)]
    /\ UNCHANGED <<files, homes, seats>>

(***************************************************************************)
(* follow without homes: the filter, or every registered home.              *)
(***************************************************************************)
ListHomes(p) ==
    /\ run[p].at = "list"
    /\ LET ids == IF run[p].filters # <<>> THEN run[p].filters ELSE SetToSeq(homes)
       IN  run' = [run EXCEPT ![p] =
              IF ids = <<>> THEN Idle ELSE [@ EXCEPT !.at = "seats", !.targets = ids]]
    /\ UNCHANGED <<files, homes, mirror, cursor, seats>>

AfterSeat(r) ==
    IF r.next < Len(r.targets) THEN [r EXCEPT !.next = @ + 1] ELSE [r EXCEPT !.at = "answer"]

(* Mutant of RegisterSeat: a home that is not registered is passed over. *)
RegisterSeatOrSkip(p) ==
    /\ run[p].at = "seats"
    /\ LET id == run[p].targets[run[p].next]
       IN  seats' = IF id \in homes THEN seats \cup {[home |-> id, workspace |-> p]} ELSE seats
    /\ run' = [run EXCEPT ![p] = AfterSeat(@)]
    /\ UNCHANGED <<files, homes, mirror, cursor>>

(***************************************************************************)
(* registerSeats: a seat refers to a registered home (a foreign key), and   *)
(* an unknown id in the filter ends the verb with the seats before it kept. *)
(***************************************************************************)
RegisterSeat(p) ==
    /\ run[p].at = "seats"
    /\ LET id == run[p].targets[run[p].next]
       IN  IF id \in homes
           THEN /\ seats' = seats \cup {[home |-> id, workspace |-> p]}
                /\ run' = [run EXCEPT ![p] = AfterSeat(@)]
           ELSE UNCHANGED seats /\ run' = [run EXCEPT ![p] = Idle]
    /\ UNCHANGED <<files, homes, mirror, cursor>>

(***************************************************************************)
(* The chart, the handoff, the summary, the lines of a drain.  What a       *)
(* follower does from then on is Nerve's.                                   *)
(***************************************************************************)
Answer(p) ==
    /\ run[p].at = "answer"
    /\ run' = [run EXCEPT ![p] = Idle]
    /\ UNCHANGED <<files, homes, mirror, cursor, seats>>

(* Mutant of Ends: a home that cannot be swept does not stop the others. *)
EndsOrGoesOn(p) ==
    /\ run[p].at # "idle"
    /\ run' = [run EXCEPT ![p] = IF @.at \in Sweeping THEN AfterSweep(@) ELSE Idle]
    /\ UNCHANGED <<files, homes, mirror, cursor, seats>>

(***************************************************************************)
(* An error of any step, a signal, a crash.                                 *)
(***************************************************************************)
Ends(p) ==
    /\ run[p].at # "idle"
    /\ run' = [run EXCEPT ![p] = Idle]
    /\ UNCHANGED <<files, homes, mirror, cursor, seats>>

Next ==
    \/ \E h \in Paths : Rewrite(h)
    \/ \E p \in Procs :
          \/ \E line \in Lines : Start(p, line)
          \/ RegisterHome(p) \/ LoadCursor(p) \/ Fingerprint(p) \/ CheckCursor(p)
          \/ ReadFile(p) \/ Commit(p)
          \/ ListHomes(p) \/ RegisterSeat(p) \/ Answer(p) \/ Ends(p)

Spec == Init /\ [][Next]_vars

-----------------------------------------------------------------------------
(***************************************************************************)
(* "attach, chart, follow, and tick run Scribe's fingerprint sweep for each *)
(* supplied pair before answering" (README, Versioned mirror): a verb that  *)
(* answers, whoever else sweeps meanwhile, shows every write that preceded  *)
(* it, of each of its homes, under the id it was given with; but for the    *)
(* homes of which somebody held older bytes when it started, which may be   *)
(* committed at any time.  It does so although the mirror may have gone     *)
(* back before, and whatever cursor it loaded.                              *)
(***************************************************************************)
Shows(r, pair) ==
    mirror[pair.id].path = pair.path /\ mirror[pair.id].rev >= r.since[pair.path]

AnswersAreFresh ==
    \A p \in Procs : run[p].at = "answer" =>
        \A i \in DOMAIN run[p].pairs : Shows(run[p], run[p].pairs[i])

(***************************************************************************)
(* A subscriber owns a seat of every home it was told to follow, however    *)
(* its start was interleaved with registrations: one it has no seat for     *)
(* would go silent unnoticed.                                               *)
(***************************************************************************)
Named(r) == IF r.pairs # <<>> THEN {pair.id : pair \in Range(r.pairs)} ELSE Range(r.filters)

SubscribersAreSeated ==
    \A p \in Procs : run[p].at = "answer" /\ Subscribes(p) =>
        /\ Range(run[p].targets) # {}
        /\ \A i \in Named(run[p]) \cup Range(run[p].targets) : [home |-> i, workspace |-> p] \in seats

(***************************************************************************)
(* "An unchanged fingerprint creates neither a duplicate version nor a      *)
(* wakeup" (README, Versioned mirror): once a home is mirrored as it is,    *)
(* and nobody holds other bytes of it, no step of any sweep of it or of its *)
(* neighbours ends that while its files rest: no version is made, and       *)
(* nobody comes to hold bytes that would make one.                          *)
(***************************************************************************)
Settled(pair) ==
    mirror[pair.id] = [path |-> pair.path, rev |-> files[pair.path]] /\ pair.path \in Quiet

SettledHomesRest ==
    [][\A pair \in AllPairs :
          Settled(pair) /\ files'[pair.path] = files[pair.path] => Settled(pair)']_vars

(***************************************************************************)
(* The inductive invariant behind them.  A mirror holds a revision that its *)
(* home has had, and one no older than the cursor, so that whoever leaves a *)
(* home alone for its cursor may; what a sweep holds was on disk after its  *)
(* verb started; nobody comes to hold bytes older than the start of a verb  *)
(* which found the home quiet; and a verb keeps what it has swept of those  *)
(* homes and whose seats it has, up to where it is.                         *)
(***************************************************************************)
MirrorIsPast ==
    \A i \in Ids :
        /\ cursor[i] <= mirror[i].rev
        /\ mirror[i] = None \/
              \E pair \in AllPairs :
                  pair.id = i /\ pair.path = mirror[i].path /\ mirror[i].rev \in 1 .. files[pair.path]

SweptBy(r) == IF r.at \in {"register"} \cup Sweeping THEN 1 .. r.next - 1 ELSE DOMAIN r.pairs
SeatedBy(r) == IF r.at = "seats" THEN 1 .. r.next - 1 ELSE DOMAIN r.targets

Held(r) ==
    /\ r.at \in {"check", "read", "commit"} =>
          r.fp \in 1 .. files[Target(r)] /\ r.since[Target(r)] <= r.fp
    /\ r.at = "commit" => r.bytes \in r.fp .. files[Target(r)]

Keeps(r, p) ==
    /\ r.at \in Sweeping => PairOf(r).id \in homes
    /\ \A h \in Paths : r.since[h] <= files[h]
    /\ Held(r)
    /\ \A i \in SweptBy(r) : Shows(r, r.pairs[i])
    /\ r.at = "list" => r.pairs = <<>> /\ r.next = 1
    /\ r.at \in {"list", "seats"} => r.verb \in {"attach", "follow"}
    /\ r.at \in {"seats", "answer"} /\ r.verb \in {"attach", "follow"} =>
          /\ Range(r.targets) # {} /\ Named(r) \subseteq Range(r.targets)
          /\ \A i \in SeatedBy(r) : [home |-> r.targets[i], workspace |-> p] \in seats

(* Nobody holds bytes that are older than the start of r. *)
NoneOlder(r) ==
    \A h \in Paths : \A q \in Procs : Holds(run[q], h) => run[q].bytes >= r.since[h]

VerbsInv ==
    TypeOK /\ MirrorIsPast /\ \A p \in Procs : Keeps(run[p], p) /\ NoneOlder(run[p])
=============================================================================
