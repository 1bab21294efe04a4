------------------------------- MODULE Nerve -------------------------------
(***************************************************************************)
(* Nerve (nerve.go): subscription seats, follow, tick and the queue of      *)
(* wakeups in firstmate.db.                                                 *)
(*                                                                         *)
(* attach and follow are followers: they register their seats, watch the    *)
(* database files, and drain one destination.  tick is a process that runs  *)
(* the silence clock, drains what is orphaned, and ends.  Every transaction *)
(* is BEGIN IMMEDIATE: `tx' is the write lock of the database, held while a *)
(* line is printed; a statement outside a transaction needs it free.        *)
(*                                                                         *)
(* `seats' holds the subscription seats only: RegisterSeat refuses the      *)
(* prefix of watch seats and every query here skips them.  `era' counts the *)
(* refreshes of a row: it tells two values of last_seen_at apart, whose     *)
(* nanoseconds the clock of the model does not show.                        *)
(***************************************************************************)
EXTENDS Integers, Sequences, FiniteSets

CONSTANTS
    Followers,      \* invocations of attach and follow
    Ticks,          \* invocations of tick that may run at once
    Nobody,         \* nobody has the write lock
    Conf,           \* what each follower subscribes to, see ConfAssumption
    Lease, HeartbeatEvery, SilenceAfter,   \* durations
    PerSecond,      \* instants the clock tells apart in one second
    MaxClock,       \* bound on the clock
    MaxRows,        \* bound on the wakeups
    MaxEnds         \* bound on followers and ticks that end early

Destinations == {"captain", "companion", "machine"}

(***************************************************************************)
(* A follower has a destination, one seat per home -- an id, the home and   *)
(* the workspace -- and, when homes were only named, a filter: no home in   *)
(* the filter is no filter.                                                 *)
(***************************************************************************)
SeatsOf(f) == Conf[f].seats
Seats == UNION {SeatsOf(f) : f \in Followers}
HomesOf == {s.home : s \in Seats}
SeatIds == {s.id : s \in Seats}

ASSUME ConfAssumption ==
    \A f \in Followers : /\ Conf[f].to \in Destinations
                         /\ SeatsOf(f) # {} /\ IsFiniteSet(SeatsOf(f))
                         /\ Conf[f].filter \subseteq {s.home : s \in SeatsOf(f)}
ASSUME DurationAssumption ==
    /\ Lease \in Nat \ {0} /\ HeartbeatEvery \in Nat \ {0}
    /\ SilenceAfter \in Nat \ {0} /\ PerSecond \in Nat \ {0}
ASSUME BoundAssumption == MaxClock \in Nat /\ MaxRows \in Nat /\ MaxEnds \in Nat
ASSUME ProcessAssumption ==
    /\ Followers \cap Ticks = {}
    /\ Nobody \notin Followers \cup Ticks

VARIABLES
    clock,
    seats,     \* table seats, by seat_id
    rows,      \* table wakeups, by generation
    handled,   \* the generations with handled = 1
    lines,     \* lines printed per generation
    tx,        \* the open claim: who, which generation, how far
    fol,       \* followers: step, seats still to write, stamp, ticker
    moved,     \* followers whose database files moved since their last look
    signal,    \* followers with a signal in the one-place channel of their WAL source
    tk,        \* ticks: step, now, seats read, destination being drained
    last,      \* last line of each process and destination (history)
    ends       \* early ends left

vars == <<clock, seats, rows, handled, lines, tx, fol, moved, signal, tk, last, ends>>

Procs == Followers \cup Ticks
NoTx == [by |-> Nobody, gen |-> 0, stage |-> "claimed"]
Following(step, todo) == [at |-> step, todo |-> todo, stamp |-> 0, tick |-> 0]
IdleFollower == Following("idle", {})
Ticking(step, now) == [at |-> step, now |-> now, snap |-> {}, dest |-> 1]
IdleTick == Ticking("idle", 0)

(* The claim of a silence and its wakeup, and the row it is claimed in. *)
Wakeups ==
    [kind : {"document-mirrored"}, to : {"companion"}, home : HomesOf]
      \cup [kind : {"seat-silent"}, to : {"captain"}, home : HomesOf,
            seat : SeatIds, era : Nat, silence : 1 .. MaxClock]

Rows == [home : HomesOf, ws : {s.ws : s \in Seats},
         to : Destinations, seen : 0 .. MaxClock, until : 0 .. (MaxClock + Lease),
         era : Nat, silent : 0 .. MaxClock]

Readings == [id : SeatIds, home : HomesOf, seen : 0 .. MaxClock, era : Nat,
             silent : 0 .. MaxClock]

Claims == [by : Procs \cup {Nobody}, gen : 0 .. MaxRows, stage : {"claimed", "printed"}]

Followings ==
    [at : {"idle", "register", "source", "rise", "drain", "select", "beat"},
     todo : SUBSET Seats, stamp : 0 .. MaxClock, tick : Nat]

Tickings ==
    [at : {"idle", "read", "silence", "drain"}, now : 0 .. MaxClock,
     snap : SUBSET Readings, dest : 1 .. 3]

SeatsTyped == DOMAIN seats \subseteq SeatIds /\ \A i \in DOMAIN seats : seats[i] \in Rows

QueueTyped ==
    /\ rows \in Seq(Wakeups) /\ Len(rows) <= MaxRows
    /\ handled \subseteq DOMAIN rows
    /\ tx \in Claims

FollowersTyped ==
    /\ fol \in [Followers -> Followings]
    /\ \A f \in Followers : fol[f].todo \subseteq SeatsOf(f)
    /\ moved \subseteq Followers /\ signal \subseteq Followers

TicksTyped == tk \in [Ticks -> Tickings]

LinesTyped == lines \in [1 .. MaxRows -> 0 .. (MaxEnds + 1)]

HistoryTyped ==
    /\ last \in [Procs -> [Destinations -> 0 .. MaxRows]]
    /\ clock \in 0 .. MaxClock /\ ends \in 0 .. MaxEnds

TypeOK ==
    SeatsTyped /\ QueueTyped /\ FollowersTyped /\ TicksTyped /\ LinesTyped /\ HistoryTyped

Init ==
    /\ clock = 0
    /\ seats = <<>>
    /\ rows = <<>>
    /\ handled = {}
    /\ lines = [g \in 1 .. MaxRows |-> 0]
    /\ tx = NoTx
    /\ fol = [f \in Followers |-> IdleFollower]
    /\ moved = {}
    /\ signal = {}
    /\ tk = [k \in Ticks |-> IdleTick]
    /\ last = [p \in Procs |-> [d \in Destinations |-> 0]]
    /\ ends = MaxEnds

-----------------------------------------------------------------------------
(***************************************************************************)
(* Stamps are RFC3339Nano texts, and SQLite compares them byte by byte.  The*)
(* layout drops the zeros that end a fraction, and all of it for a whole    *)
(* second: that text ends in "Z" where the others go on with ".", so it     *)
(* comes after every text of its second.                                    *)
(***************************************************************************)
Second(t) == t \div PerSecond
Whole(t) == t % PerSecond = 0

TextAtMost(t, u) ==
    \/ t = u
    \/ Second(t) < Second(u)
    \/ Second(t) = Second(u) /\ ~Whole(t) /\ (Whole(u) \/ t < u)

LockFree == tx.by = Nobody

(* Mutant of DatabaseMoves: the source looks at the main file, and commits go to the WAL. *)
MainFileOnly == UNCHANGED moved

(* A commit moves the database files under every WAL source. *)
DatabaseMoves == moved' = {f \in Followers : fol[f].at \notin {"idle", "register", "source"}}

Put(id, row) == seats' = [i \in DOMAIN seats \cup {id} |-> IF i = id THEN row ELSE seats[i]]

NextEra(id) == IF id \in DOMAIN seats THEN seats[id].era + 1 ELSE 0

Passes ==
    /\ clock < MaxClock
    /\ clock' = clock + 1
    /\ UNCHANGED <<seats, rows, handled, lines, tx, fol, moved, signal, tk, last, ends>>

(***************************************************************************)
(* Scribe mirrors a document: a trigger queues one wakeup for companion.    *)
(***************************************************************************)
DocumentMirrored(h) ==
    /\ LockFree /\ Len(rows) < MaxRows
    /\ rows' = Append(rows, [kind |-> "document-mirrored", to |-> "companion", home |-> h])
    /\ DatabaseMoves
    /\ UNCHANGED <<clock, seats, handled, lines, tx, fol, signal, tk, last, ends>>

-----------------------------------------------------------------------------
(* Mutant of Start: the ticker runs from the start, before the first heartbeats. *)
StartTicking(f) ==
    /\ fol[f].at = "idle"
    /\ fol' = [fol EXCEPT ![f] = [Following("register", SeatsOf(f)) EXCEPT
                                     !.stamp = clock, !.tick = clock + HeartbeatEvery]]
    /\ last' = [last EXCEPT ![f] = [d \in Destinations |-> 0]]
    /\ UNCHANGED <<clock, seats, rows, handled, lines, tx, moved, signal, tk, ends>>

(***************************************************************************)
(* Followers.  Until the first heartbeats, stamp is the earliest time the   *)
(* next seat may be registered with.                                        *)
(***************************************************************************)
Start(f) ==
    /\ fol[f].at = "idle"
    /\ fol' = [fol EXCEPT ![f] = [Following("register", SeatsOf(f)) EXCEPT !.stamp = clock]]
    /\ last' = [last EXCEPT ![f] = [d \in Destinations |-> 0]]
    /\ UNCHANGED <<clock, seats, rows, handled, lines, tx, moved, signal, tk, ends>>

(***************************************************************************)
(* The upsert of RegisterSeat resolves a conflict on the seat id only.  Its *)
(* time is read before the wait for the write lock (registerSeats).         *)
(***************************************************************************)
KeyTaken(s) ==
    \E i \in DOMAIN seats \ {s.id} : seats[i].home = s.home /\ seats[i].ws = s.ws

RegisterSeat(f, s) ==
    /\ fol[f].at = "register" /\ s \in fol[f].todo
    /\ LockFree /\ ~KeyTaken(s)
    /\ \E now \in fol[f].stamp .. clock :
          Put(s.id, [home |-> s.home, ws |-> s.ws, to |-> Conf[f].to, seen |-> now,
                     until |-> now + Lease, era |-> NextEra(s.id), silent |-> 0])
    /\ fol' = [fol EXCEPT ![f].todo = @ \ {s}, ![f].stamp = clock,
                          ![f].at = IF fol[f].todo = {s} THEN "source" ELSE @]
    /\ DatabaseMoves
    /\ UNCHANGED <<clock, rows, handled, lines, tx, signal, tk, last, ends>>

(***************************************************************************)
(* newWALSource takes its first look before anything is drained; `now' for  *)
(* the first heartbeats is read next.                                       *)
(***************************************************************************)
OpenSource(f) ==
    /\ fol[f].at = "source"
    /\ fol' = [fol EXCEPT ![f].at = "rise", ![f].todo = SeatsOf(f), ![f].stamp = clock]
    /\ moved' = moved \ {f}
    /\ signal' = signal \ {f}
    /\ UNCHANGED <<clock, seats, rows, handled, lines, tx, tk, last, ends>>

(* Mutant of Heartbeat: a sign of life that does not extend the lease. *)
HeartbeatSeenOnly(f, s) ==
    /\ fol[f].at \in {"rise", "beat"} /\ s \in fol[f].todo
    /\ LockFree /\ s.id \in DOMAIN seats
    /\ Put(s.id, [seats[s.id] EXCEPT !.seen = fol[f].stamp, !.silent = 0, !.era = @ + 1])
    /\ fol' = [fol EXCEPT ![f].todo = @ \ {s},
          ![f].at = IF fol[f].todo # {s} THEN @ ELSE IF @ = "rise" THEN "drain" ELSE "select"]
    /\ DatabaseMoves
    /\ UNCHANGED <<clock, rows, handled, lines, tx, signal, tk, last, ends>>

(***************************************************************************)
(* heartbeat refreshes a seat by id: it leaves home and destination alone.  *)
(* On rise a drain follows, with the ticker started after it.               *)
(***************************************************************************)
Heartbeat(f, s) ==
    /\ fol[f].at \in {"rise", "beat"} /\ s \in fol[f].todo
    /\ LockFree /\ s.id \in DOMAIN seats
    /\ Put(s.id, [seats[s.id] EXCEPT !.seen = fol[f].stamp, !.silent = 0,
                                     !.until = fol[f].stamp + Lease, !.era = @ + 1])
    /\ fol' = [fol EXCEPT ![f].todo = @ \ {s},
          ![f].at = IF fol[f].todo # {s} THEN @ ELSE IF @ = "rise" THEN "drain" ELSE "select"]
    /\ DatabaseMoves
    /\ UNCHANGED <<clock, rows, handled, lines, tx, signal, tk, last, ends>>

(***************************************************************************)
(* The ticker hands out the time its tick was due, however late it is read; *)
(* ticks missed meanwhile are dropped.                                      *)
(***************************************************************************)
TickerFires(f) ==
    /\ fol[f].at = "select" /\ fol[f].tick <= clock
    /\ fol' = [fol EXCEPT ![f].at = "beat", ![f].todo = SeatsOf(f),
          ![f].stamp = fol[f].tick,
          ![f].tick = @ + HeartbeatEvery * (1 + (clock - @) \div HeartbeatEvery)]
    /\ UNCHANGED <<clock, seats, rows, handled, lines, tx, moved, signal, tk, last, ends>>

(***************************************************************************)
(* The WAL source polls; the channel keeps one signal.                      *)
(***************************************************************************)
Poll(f) ==
    /\ f \in moved
    /\ moved' = moved \ {f}
    /\ signal' = signal \cup {f}
    /\ UNCHANGED <<clock, seats, rows, handled, lines, tx, fol, tk, last, ends>>

Signaled(f) ==
    /\ fol[f].at = "select" /\ f \in signal
    /\ signal' = signal \ {f}
    /\ fol' = [fol EXCEPT ![f].at = "drain"]
    /\ UNCHANGED <<clock, seats, rows, handled, lines, tx, moved, tk, last, ends>>

-----------------------------------------------------------------------------
(***************************************************************************)
(* claimNext, for a destination and a filter of homes; drainOrphans adds a  *)
(* cutoff before which every seat of the destination must have expired.     *)
(***************************************************************************)
Pending(d, filter) ==
    {g \in DOMAIN rows \ handled : rows[g].to = d /\ (filter = {} \/ rows[g].home \in filter)}

(* Mutant of Orphaned: a seat is dead once it was seen, not once its lease is over. *)
OrphanedOnceSeen(d, cutoff) ==
    \A i \in DOMAIN seats : seats[i].to = d => TextAtMost(seats[i].seen, cutoff)

Orphaned(d, cutoff) ==
    \A i \in DOMAIN seats : seats[i].to = d => TextAtMost(seats[i].until, cutoff)

(* Mutant of Claim: the row is picked without the write lock. *)
ClaimUnlocked(p, candidates) ==
    /\ \E g \in candidates :
          /\ \A h \in candidates : g <= h
          /\ tx' = [by |-> p, gen |-> g, stage |-> "claimed"]
    /\ UNCHANGED <<clock, seats, rows, handled, lines, fol, moved, signal, tk, last, ends>>

(* Mutant of Claim: no ORDER BY generation. *)
ClaimAny(p, candidates) ==
    /\ LockFree
    /\ \E g \in candidates : tx' = [by |-> p, gen |-> g, stage |-> "claimed"]
    /\ UNCHANGED <<clock, seats, rows, handled, lines, fol, moved, signal, tk, last, ends>>

Claim(p, candidates) ==
    /\ LockFree
    /\ \E g \in candidates :
          /\ \A h \in candidates : g <= h
          /\ tx' = [by |-> p, gen |-> g, stage |-> "claimed"]
    /\ UNCHANGED <<clock, seats, rows, handled, lines, fol, moved, signal, tk, last, ends>>

FollowerClaims(f) ==
    /\ fol[f].at = "drain"
    /\ Claim(f, Pending(Conf[f].to, Conf[f].filter))

(* Nothing left: the follower returns to its loop. *)
Drained(f) ==
    /\ fol[f].at = "drain" /\ LockFree
    /\ Pending(Conf[f].to, Conf[f].filter) = {}
    /\ fol' = [fol EXCEPT ![f].at = "select",
                          ![f].tick = IF @ = 0 THEN clock + HeartbeatEvery ELSE @]
    /\ UNCHANGED <<clock, seats, rows, handled, lines, tx, moved, signal, tk, last, ends>>

DrainOrder == <<"captain", "companion", "machine">>
TickPending(k) ==
    LET d == DrainOrder[tk[k].dest]
    IN  IF Orphaned(d, tk[k].now) THEN Pending(d, {}) ELSE {}

TickClaims(k) == tk[k].at = "drain" /\ Claim(k, TickPending(k))

TickDrained(k) ==
    /\ tk[k].at = "drain" /\ LockFree
    /\ TickPending(k) = {}
    /\ tk' = [tk EXCEPT ![k] = IF tk[k].dest = 3 THEN IdleTick
                                ELSE [tk[k] EXCEPT !.dest = @ + 1]]
    /\ UNCHANGED <<clock, seats, rows, handled, lines, tx, fol, moved, signal, last, ends>>

(***************************************************************************)
(* drainDestination: print the line, then commit the claim.                 *)
(***************************************************************************)
PrintLine(p) ==
    /\ tx.by = p /\ tx.stage = "claimed"
    /\ tx' = [tx EXCEPT !.stage = "printed"]
    /\ lines' = [lines EXCEPT ![tx.gen] = @ + 1]
    /\ last' = [last EXCEPT ![p][rows[tx.gen].to] = tx.gen]
    /\ UNCHANGED <<clock, seats, rows, handled, fol, moved, signal, tk, ends>>

(* Mutant of Confirm: the claim is committed before the line is printed. *)
ConfirmFirst(p) ==
    /\ tx.by = p
    /\ handled' = handled \cup {tx.gen}
    /\ tx' = NoTx
    /\ DatabaseMoves
    /\ UNCHANGED <<clock, seats, rows, lines, fol, signal, tk, last, ends>>

Confirm(p) ==
    /\ tx.by = p /\ tx.stage = "printed"
    /\ handled' = handled \cup {tx.gen}
    /\ tx' = NoTx
    /\ DatabaseMoves
    /\ UNCHANGED <<clock, seats, rows, lines, fol, signal, tk, last, ends>>

-----------------------------------------------------------------------------
(***************************************************************************)
(* tick: `now' is read first; the silent seats are read without a lock.     *)
(***************************************************************************)
TickStart(k) ==
    /\ tk[k].at = "idle"
    /\ tk' = [tk EXCEPT ![k] = Ticking("read", clock)]
    /\ last' = [last EXCEPT ![k] = [d \in Destinations |-> 0]]
    /\ UNCHANGED <<clock, seats, rows, handled, lines, tx, fol, moved, signal, ends>>

ReadSilentSeats(k) ==
    /\ tk[k].at = "read"
    /\ tk' = [tk EXCEPT ![k].at = "silence",
          ![k].snap = {[id |-> i, home |-> seats[i].home, seen |-> seats[i].seen,
                        era |-> seats[i].era, silent |-> seats[i].silent] :
                          i \in {j \in DOMAIN seats : TextAtMost(seats[j].until, tk[k].now)}}]
    /\ UNCHANGED <<clock, seats, rows, handled, lines, tx, fol, moved, signal, last, ends>>

(***************************************************************************)
(* silenceClock for one seat that was read: the update claims the silence   *)
(* only if the row is still as it was, or a lower generation of it.         *)
(***************************************************************************)
Silence(k, s) == (tk[k].now - s.seen) \div SilenceAfter

(* Mutant of StillSilent: the generation already reported is not looked at. *)
StillSilentAnyGeneration(k, s) ==
    /\ s.id \in DOMAIN seats
    /\ seats[s.id].era = s.era
    /\ TextAtMost(seats[s.id].until, tk[k].now)

(* Mutant of StillSilent: the update trusts what was read before. *)
StillSilentAsRead(k, s) ==
    /\ s.id \in DOMAIN seats
    /\ seats[s.id].silent < Silence(k, s)

StillSilent(k, s) ==
    /\ s.id \in DOMAIN seats
    /\ seats[s.id].era = s.era
    /\ TextAtMost(seats[s.id].until, tk[k].now)
    /\ seats[s.id].silent < Silence(k, s)

NotDue(k, s) == Silence(k, s) < 1 \/ Silence(k, s) <= s.silent

SeatSkipped(k, s) ==
    /\ tk[k].at = "silence" /\ s \in tk[k].snap
    /\ NotDue(k, s) \/ (LockFree /\ ~StillSilent(k, s))
    /\ tk' = [tk EXCEPT ![k].snap = @ \ {s}]
    /\ UNCHANGED <<clock, seats, rows, handled, lines, tx, fol, moved, signal, last, ends>>

SeatSilent(k, s) ==
    /\ tk[k].at = "silence" /\ s \in tk[k].snap
    /\ ~NotDue(k, s) /\ LockFree /\ StillSilent(k, s)
    /\ Len(rows) < MaxRows
    /\ Put(s.id, [seats[s.id] EXCEPT !.silent = Silence(k, s)])
    /\ rows' = Append(rows, [kind |-> "seat-silent", to |-> "captain", home |-> s.home,
                             seat |-> s.id, era |-> s.era, silence |-> Silence(k, s)])
    /\ tk' = [tk EXCEPT ![k].snap = @ \ {s}]
    /\ DatabaseMoves
    /\ UNCHANGED <<clock, handled, lines, tx, fol, signal, last, ends>>

SilenceDone(k) ==
    /\ tk[k].at = "silence" /\ tk[k].snap = {}
    /\ tk' = [tk EXCEPT ![k].at = "drain"]
    /\ UNCHANGED <<clock, seats, rows, handled, lines, tx, fol, moved, signal, last, ends>>

-----------------------------------------------------------------------------
(***************************************************************************)
(* A process ends early: an error of a statement or of the output, a lock   *)
(* it waited for too long, a signal, a crash.  Its transaction is rolled    *)
(* back; a line that was printed stays printed.                             *)
(***************************************************************************)
EndsEarly(p) ==
    /\ ends > 0
    /\ ends' = ends - 1
    /\ tx' = IF tx.by = p THEN NoTx ELSE tx
    /\ IF p \in Followers
       THEN /\ fol[p].at # "idle"
            /\ fol' = [fol EXCEPT ![p] = IdleFollower]
            /\ moved' = moved \ {p}
            /\ signal' = signal \ {p}
            /\ UNCHANGED tk
       ELSE /\ tk[p].at # "idle"
            /\ tk' = [tk EXCEPT ![p] = IdleTick]
            /\ UNCHANGED <<fol, moved, signal>>
    /\ UNCHANGED <<clock, seats, rows, handled, lines, last>>

(* RegisterSeat meets the other unique key, and the follower ends. *)
RegisterRefused(f) ==
    /\ fol[f].at = "register" /\ LockFree
    /\ \E s \in fol[f].todo : KeyTaken(s)
    /\ fol' = [fol EXCEPT ![f] = IdleFollower]
    /\ UNCHANGED <<clock, seats, rows, handled, lines, tx, moved, signal, tk, last, ends>>

FollowerStep(f) ==
    \/ Start(f) \/ OpenSource(f) \/ RegisterRefused(f)
    \/ \E s \in SeatsOf(f) : RegisterSeat(f, s) \/ Heartbeat(f, s)
    \/ TickerFires(f) \/ Poll(f) \/ Signaled(f) \/ FollowerClaims(f) \/ Drained(f)

TickStep(k) ==
    \/ TickStart(k) \/ ReadSilentSeats(k) \/ SilenceDone(k)
    \/ \E s \in tk[k].snap : SeatSkipped(k, s) \/ SeatSilent(k, s)
    \/ TickClaims(k) \/ TickDrained(k)

Next ==
    \/ Passes
    \/ \E h \in HomesOf : DocumentMirrored(h)
    \/ \E f \in Followers : FollowerStep(f)
    \/ \E k \in Ticks : TickStep(k)
    \/ \E p \in Procs : PrintLine(p) \/ Confirm(p) \/ EndsEarly(p)

Spec == Init /\ [][Next]_vars

(***************************************************************************)
(* A follower that runs goes on: its poller ticks, its statements get the   *)
(* lock within busy_timeout or it ends, its reader takes the lines.         *)
(***************************************************************************)
Fairness ==
    /\ \A f \in Followers :
          /\ SF_vars(RegisterRefused(f) \/ \E s \in SeatsOf(f) : RegisterSeat(f, s))
          /\ SF_vars(\E s \in SeatsOf(f) : Heartbeat(f, s))
          /\ WF_vars(OpenSource(f)) /\ WF_vars(Poll(f))
          /\ SF_vars(Signaled(f)) /\ SF_vars(FollowerClaims(f)) /\ SF_vars(Drained(f))
    /\ \A p \in Procs : WF_vars(PrintLine(p)) /\ WF_vars(Confirm(p))

FairSpec == Spec /\ Fairness

-----------------------------------------------------------------------------
(***************************************************************************)
(* Followers, ticks and Scribe together implement the queue: every claim    *)
(* that is confirmed was printed first, none is printed once confirmed,     *)
(* whoever fails in between (claimNext, drainDestination).                  *)
(***************************************************************************)
(***************************************************************************)
(* What the queue keeps true between a line and its commit: the claim is a  *)
(* row nobody has confirmed, it is printed once it says so, and a row has   *)
(* one line more than the processes that ended only if it is handled or in  *)
(* the claim.  A process claims the first wakeup of what it drains, and all *)
(* it has left to drain comes after its last line.                          *)
(***************************************************************************)
ClaimIsPending == tx.by # Nobody => tx.gen \in DOMAIN rows \ handled

Printed(g) == tx.by # Nobody /\ tx.stage = "printed" /\ tx.gen = g

LinesCounted ==
    \A g \in 1 .. MaxRows :
        /\ Printed(g) => lines[g] > 0
        /\ lines[g] <= (MaxEnds - ends) + (IF g \in handled \/ Printed(g) THEN 1 ELSE 0)

At(p) == IF p \in Followers THEN fol[p].at ELSE tk[p].at
Drains(p) == IF p \in Followers THEN Conf[p].to ELSE DrainOrder[tk[p].dest]
ToDrain(p) ==
    IF p \in Followers THEN Pending(Drains(p), Conf[p].filter) ELSE Pending(Drains(p), {})

InOrder(p) ==
    /\ tx.by = p => /\ At(p) = "drain" /\ tx.gen \in ToDrain(p)
                    /\ \A g \in ToDrain(p) : tx.gen <= g
    /\ \A d \in Destinations : last[p][d] <= Len(rows)
    /\ At(p) # "idle" => \A g \in ToDrain(p) :
                            g > last[p][Drains(p)] \/ (tx.by = p /\ Printed(g))
    /\ p \in Ticks /\ At(p) # "idle" =>
          \A i \in DOMAIN DrainOrder : i > tk[p].dest => last[p][DrainOrder[i]] = 0

DeliveryInv == TypeOK /\ ClaimIsPending /\ LinesCounted /\ \A p \in Procs : InOrder(p)

Q == INSTANCE WakeupQueue

ImplementsQueue == Q!Spec

(***************************************************************************)
(* A line is repeated only when a process ended between a line and its      *)
(* commit: two drains never print one wakeup for any other reason.          *)
(***************************************************************************)
RepeatsExplained ==
    \A g \in DOMAIN rows : lines[g] <= 1 + (MaxEnds - ends)

(***************************************************************************)
(* One process prints the wakeups of a destination in generation order,     *)
(* whatever the others claim, roll back and confirm meanwhile (README,      *)
(* "global generation order").                                              *)
(***************************************************************************)
LinesInOrder ==
    [][\A p \in Procs, d \in Destinations :
          last'[p][d] # last[p][d] /\ last'[p][d] # 0 => last'[p][d] > last[p][d]]_vars

(***************************************************************************)
(* What tick delivers is orphaned until it is confirmed: no seat of the     *)
(* destination is live by the real clock, although tick compares with the   *)
(* time it was started at (drainOrphans).                                   *)
(***************************************************************************)
TickTakesOrphans ==
    tx.by \in Ticks =>
        \A i \in DOMAIN seats : seats[i].to = rows[tx.gen].to => seats[i].until <= clock

(***************************************************************************)
(* A follower that refreshed its seats less than a lease ago keeps its      *)
(* destination: tick does not drain under it.                               *)
(***************************************************************************)
Fresh(f) == fol[f].at \in {"drain", "select"} /\ clock < fol[f].stamp + Lease

LiveFollowerKeepsQueue ==
    tx.by \in Ticks => \A f \in Followers : Fresh(f) => Conf[f].to # rows[tx.gen].to

(***************************************************************************)
(* Each silence of a seat is reported once, however many ticks run at once: *)
(* one row per seat, last sign of life and silence generation.              *)
(***************************************************************************)
SilenceReportedOnce ==
    \A g, h \in DOMAIN rows :
        rows[g].kind = "seat-silent" /\ rows[g] = rows[h] => g = h

(***************************************************************************)
(* A seat that came back is not reported: its lease has run out when its    *)
(* silence is recorded, although tick read the seat earlier (silenceClock). *)
(***************************************************************************)
NoFalseSilence ==
    [][Len(rows') > Len(rows) /\ rows'[Len(rows')].kind = "seat-silent" =>
          LET row == rows'[Len(rows')]
          IN  seats[row.seat].until <= clock /\ seats[row.seat].era = row.era]_vars

(***************************************************************************)
(* What the seats and the clock keep true together.  Every stamp is of the  *)
(* past; a tick that holds a claim compared every seat of the destination   *)
(* with its own start; a silence that was reported is one its seat still    *)
(* records, or the seat has been refreshed since.                           *)
(***************************************************************************)
StampsArePast ==
    /\ \A i \in DOMAIN seats : seats[i].until <= clock + Lease
    /\ \A f \in Followers : fol[f].stamp <= clock
    /\ \A k \in Ticks : tk[k].now <= clock

ClaimOfOrphans == tx.by \in Ticks => Orphaned(rows[tx.gen].to, tk[tx.by].now)

SilencesRecorded ==
    \A g \in DOMAIN rows : rows[g].kind = "seat-silent" =>
        /\ rows[g].seat \in DOMAIN seats
        /\ \/ seats[rows[g].seat].era > rows[g].era
           \/ /\ seats[rows[g].seat].era = rows[g].era
              /\ seats[rows[g].seat].silent >= rows[g].silence

SilenceInv == StampsArePast /\ ClaimOfOrphans /\ SilencesRecorded /\ SilenceReportedOnce

(***************************************************************************)
(* With seats of its own, a follower that has sent its heartbeats has rows  *)
(* of its destination, with the lease of its last stamp; no stamp comes     *)
(* before the one the rows already have.                                    *)
(***************************************************************************)
OwnSeats ==
    \A f, g \in Followers :
        \A s \in SeatsOf(f), u \in SeatsOf(g) : s.id = u.id => f = g

SeatBeats(f, s) ==
    /\ fol[f].at # "idle" /\ (fol[f].at = "register" => s \notin fol[f].todo) =>
          s.id \in DOMAIN seats /\ seats[s.id].to = Conf[f].to
    /\ fol[f].at = "register" /\ s.id \in DOMAIN seats => seats[s.id].until <= fol[f].stamp + Lease
    /\ fol[f].at \in {"rise", "beat", "drain", "select"} =>
          /\ seats[s.id].until <= fol[f].stamp + Lease
          /\ s \notin fol[f].todo => seats[s.id].until = fol[f].stamp + Lease

StampsAscend(f) ==
    /\ fol[f].at \in {"drain", "select"} => fol[f].todo = {}
    /\ fol[f].tick = 0 \/ fol[f].stamp <= fol[f].tick
    /\ fol[f].at \in {"select", "beat"} => fol[f].tick # 0
    /\ fol[f].at \in {"idle", "register", "source", "rise"} => fol[f].tick = 0

BeatInv == \A f \in Followers : StampsAscend(f) /\ \A s \in SeatsOf(f) : SeatBeats(f, s)

(***************************************************************************)
(* A wakeup reaches its reader: as long as a follower stays, every wakeup   *)
(* of its destination and filter is in the end printed and confirmed, also  *)
(* one queued between two looks of its WAL source.                          *)
(***************************************************************************)
WakeupsReachFollower ==
    \A f \in Followers :
        <>[](fol[f].at # "idle") =>
            \A g \in 1 .. MaxRows :
                [](g \in DOMAIN rows /\ g \in Pending(Conf[f].to, Conf[f].filter)
                      => <>(g \in handled))

(***************************************************************************)
(* A heartbeat that is late, with a stamp the ticker made long ago, does    *)
(* not shorten the lease of its seat: one follower of a seat, restarted or  *)
(* not, only ever moves the lease forward (Follow, heartbeat).              *)
(***************************************************************************)
SeatLeaseMovesForward ==
    [][\A i \in DOMAIN seats : i \in DOMAIN seats' /\ seats'[i].until >= seats[i].until]_vars
=============================================================================
