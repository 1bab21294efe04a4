# roca-firstmate, specified and checked

This directory holds TLA+ specifications of roca-firstmate, the TLC
configurations that check them on small instances, and proofs that TLAPS
checks for every instance. Source paths are relative to the repository.

- [The system](#the-system)
- [Modules](#modules)
- [Runs](#runs)
- [Fairness, deadlock, bounds](#fairness-deadlock-bounds)
- [Proofs](#proofs)
- [What the checks say about the code](#what-the-checks-say-about-the-code)
- [Not modelled](#not-modelled)
- [Plan](#plan)

## The system

roca-firstmate mirrors the Markdown files of one or several "homes" into a
SQLite file, `firstmate.db`, and turns each new version into a wakeup that
subscribers read as a line. There is no server: every part is a short or long
lived process, and the database is all they share. Every transaction is
`BEGIN IMMEDIATE` (`_txlock=immediate`, `cmd/roca-firstmate/main.go:181`), so
the write lock of the file is the one synchronisation between processes.

| Component | State it keeps | Operations | What makes it correct |
|---|---|---|---|
| Watch seat lease, `internal/nerve/lease.go` | one row of `seats` per home: holder token, `lease_until` | `TryAcquireSeat`, `RenewSeat`, `ReleaseSeat`, `FenceSeat` | one holder at a time, no live lease taken, what was fenced stays owned until it commits |
| Stamps, `lease.go`, `nerve.go` | texts of two layouts | comparison by SQLite | the order of texts is the order of time |
| Scribe, `internal/scribe/scribe.go` | version tables, `is_current`, cursor `ingest_file_state`, an in-memory copy of the cursor | `New`, `Backfill`, `IngestPath` | a file skipped as unchanged is mirrored; no duplicate versions; current is the latest |
| Resident watcher, `cmd/roca-firstmate/resident.go` | one `leasedHome` per home, a channel of messages, an attempt timer | acquire, activate, pump, ingest, heartbeat, stand down, shut down | whoever holds the seat watches; no rewrite is missed; a home does not stay unwatched |
| Nerve, `internal/nerve/nerve.go` | `seats` of subscribers, queue `wakeups` | `RegisterSeat`, `Follow`, `DrainMatching`, `Tick` | delivery at least once and in order; orphans only; each silence once |
| WAL source, `internal/nerve/wal_poll.go` | the last look at the database files, a channel of one signal | poll, signal | a commit after the last claim wakes the follower |
| Chart, `internal/chart/chart.go` | the one row of `chart_cache` | `GetOrCreate` | a cached chart is served only when it is current |
| Verbs, `cmd/roca-firstmate/verbs.go`, `main.go` | what a call was given: homes, filters, seats | `scribe`, `attach`, `follow`, `tick`, `chart` | an answer is fresh for every home it names of which nobody held older bytes; a subscriber has a seat for each |
| Pairing, `cmd/roca-firstmate/homes.go` | none | `resolveHomes` from flags and environment | a home keeps the identity it was given with |
| Schema, `schema/` | tables, indexes, triggers, a version | create, migrate | what is committed is a whole version; no row is lost; a stranger's file stays |
| File source, `internal/watch/` | the last look at `data/`, or an FSEvents stream | events, errors, end | every change after it is open is on its way to the reader |
| Placement, `cmd/roca-firstmate/place.go` | the installed file, copies, backups | copy, rename, set aside, restore | there is always a whole executable |
| Packaging, `internal/release/`, `cmd/package/` | an output directory, an archive | clear, write, sum, archive | checksums and archives are of one build |
| Telemetry, test catalog | files | append; fixtures | see [Not modelled](#not-modelled) |

How they interact:

- `watch` processes compete for the watch seat of a home. The holder opens a
  file source, sweeps (`Backfill`), then ingests event by event. Its ingests
  commit only through `FenceSeat`, in the same transaction.
- the verbs `scribe`, `attach`, `follow`, `chart` and `tick` sweep the homes
  they were given once, **without** a fence, beside whatever watcher runs.
- an insert into a version table fires a trigger that queues a wakeup for
  `companion`. `tick` queues a wakeup for `captain` per silence of a seat.
- `attach` and `follow` register their seats, then drain their destination,
  waiting for changes of the database files; every 30 seconds they refresh
  the seats. `tick` drains the destinations that no live seat subscribes to.
- `attach` and `chart` read the tables, query by query, into the cached chart.

What is hard here: stamps are read before the wait for the write lock and used
after it; the steps of one ingest see different states of a file; four kinds
of goroutines share a struct under a mutex they release between steps; a line
is printed inside a transaction that may not commit; the readers of seats act
in a later transaction than the one they read in; files change under the walks
that list them; scripts and copies stop half way; processes die anywhere. The
hazards are listed one by one, with their lines and the properties that cover
them, in `PROJECT.json`.

## Modules

| Module | Models | Kind |
|---|---|---|
| `WatchLease` | the seat row of one home, and what each session believes of it | protocol |
| `StampOrder` | the two layouts of stamps and their order as text | pure operators |
| `Scribe` | ingests of one home by verbs and watchers | component |
| `WatchResident` | the goroutines of `watch`; implements `WatchLease` | component, refinement |
| `WakeupQueue` | what delivery promises | abstract |
| `Nerve` | followers, ticks, seats, the queue; implements `WakeupQueue` | component, refinement |
| `Chart` | get-or-create of the cached chart | component |
| `Handoff` | the handoff `attach` prints | component, on `StampOrder` |
| `Verbs` | the order in which verbs register, sweep, take seats, answer | composition, on `HomePairing` |
| `HomePairing` | flags and environment to homes | pure operators |
| `Families` | the family of a document in `scribe.go`, and in `schema.sql` | pure operators |
| `Sweep` | one walk of `data/` while it changes | component |
| `ChangeSource` | what a file source and its reader promise | abstract |
| `FileSource` | poller, FSEvents source, fallback, reader; implements `ChangeSource` | component, refinement |
| `Database` | opening, creating and migrating `firstmate.db` | component |
| `Placement` | `place` | component |
| `Packaging` | `Package` and `Archive` | component |
| `WatchLeaseProofs`, `ScribeProofs`, `WatchResidentProofs`, `VerbsProofs` | theorems about the module each is named after | proofs |
| `NerveProofs` | theorems about `Nerve`: its queue, then its seats | proofs |
| `AnswerProofs` | theorems about `StampOrder`, `Chart`, `Handoff`, `HomePairing`, `Families`, and about all of them in `MCVerbs` | proofs |
| `DatabaseProofs` | `Database`: what its scripts do, its invariants | proofs |
| `FilesProofs` | theorems about `Placement`, `Packaging`, `FileSource`, `Sweep`, and about all of them and `Database` in `MCFiles` | proofs |
| `MCWatchLease`, `MCScribe`, `MCWatchResident`, `MCNerve` | instances of one component each | |
| `MCVerbs`, `MCFiles` | instances of several, see below | |

The modules hold, each before the definition it changes, a few definitions
commented "Mutant of": the same operation with a plausible mistake in it. No
specification uses them. Put in the place of the original, each makes TLC find
a property violated, which shows that the property depends on the code.

### WatchLease

Time is not a variable. A deadline is kept as the time left until it, and a
caller's stamp by its age when it is used: `lease_until <= stamp` of
`TryAcquireSeat` is `seat.left <= -age`. A caller reads its clock before it
waits for the write lock, so `age` is any number up to `MaxDelay`. `up` are the
processes that run, `holding` and `left` what `leasedHome` says, `tx` an ingest
transaction between `BEGIN IMMEDIATE` and its end. `AcquireUnknown` is a commit
that succeeds while its caller gets an error. A restarted process draws a new
token and is another session.

`OneBeliever`, `BeliefBacked`, `FencedTxOwnsSeat`, `LockOfLiveSession`,
`LiveLeaseKept` say that at most one session acts, that its own deadline is
never later than the row's, that a fenced transaction keeps the seat until it
ends, that a dead process leaves no lock, and that a token is replaced only
after the lease is over by the real clock.

### StampOrder

`WatchLease` compares times where SQLite compares texts. `StampOrder` writes
both layouts as sequences of character codes and compares them byte by byte.
`MCWatchLease` has TLC evaluate (as an assumption) that the layout of
`lease.go` sorts like time, and that RFC3339Nano does so when the seconds
differ. Within a second RFC3339Nano does not: `Nerve` therefore compares the
stamps of subscription seats with `TextAtMost`.

### Scribe

A file is a revision number that grows with each rewrite; `ContentOf` gives
its bytes, `Absent` for a revision in which the file is missing. The program
never sees the revision: `SameBytes` stands for equal fingerprints and equal
hashes. The fingerprint is computed by a library that is not in the repository;
`scribe_test.go:124-177` expects it to notice rewrites with equal size and
times, so it is taken to identify the content.

| Action | Code in `scribe.go` |
|---|---|
| `Sweep` (`StartVerb`, `TakeSeat`) | `New` loads the cursor, `Backfill` lists the files |
| `Skip`, `Fingerprint` | `IngestPath` 299-321: stat, fingerprint, comparison with memory |
| `CheckCursor` | `persistedUnchanged` |
| `ReadFile` | 330-343 |
| `Commit` | the transaction 345-429, with `fenceCommit` |
| `Abort` | any error: the verb, or the watcher's term, ends |

A watcher that gets the seat starts over with a new ingester. What an earlier
term of its own had in flight is dropped, since standing down canceled the
context it ran under; what the previous holder has in flight meets the fence.

### WatchResident

One process is `home` (the struct `leasedHome`), `timer` (`attemptTimer`),
`beat` (the ticker of the heartbeat), `main` (the main loop), `inbox`
(channel `msgs`), and per term the step of its activation (`act`), its pump,
its open source and whether that source has noted a change. A section under
the mutex, with the database call it contains, is one action. Terms are named
by generations; a generation nobody refers to any more is used again, as the
code only asks whether two are equal.

`stale` says that the mirror lacks the last rewrite, `fresh` names the sweeps
and ingests in flight that began to read after it: those bring the mirror up
to date. Errors, stalls, broken sources, exits and deaths each consume one of
`MaxFaults`. What follows from another session's doing (a lost lease, a refused
fence) is no fault.

`L == INSTANCE WatchLease` maps `home` to its two fields `holding` and `left`.
An ingest transaction is one step here, so `tx` is always `NoTx`. The attempts
of a real process visit several homes one after the other; one home is
modelled.

### Nerve and WakeupQueue

`seats` is the table by seat id, `rows` the wakeups by generation, `tx` the
claim that is open (and the write lock). A follower goes through *register*,
*source* (the first look of the WAL source), *rise* (first heartbeats),
*drain*, *select*, *beat*; a tick through *read*, *silence*, *drain*. A line is
printed (`PrintLine`) between claim and commit (`Confirm`). `EndsEarly` is an
error, a signal or a crash of a process anywhere: the claim is rolled back and
the line stays printed. The stamp of a registration is any time since the one
before it, as it is read before the wait for the write lock; that of a heartbeat
is the follower's `stamp`. `era` counts the refreshes of a seat, without bound,
since two values of `last_seen_at` differ in nanoseconds that the clock of the
model does not show.

`WakeupQueue` is what an adapter may rely on: a row is printed before it is
confirmed and never after. Its state is part of the state of `Nerve`.

### Chart

Three parts stand for the tables: a label of a home (which no count of the
watermark shows), the current documents, the unhandled wakeups. Each query of
`snapshot` and `watermark` is an action, `Look` and `Store` are two more.
`quiet` remembers which readers have seen no write since they began.

### Verbs, HomePairing, Handoff, Families

`Verbs` looks at invocations from the outside: a verb resolves its homes with
the operators of `HomePairing`, then per home registers it and sweeps it
(`refreshMirrors`), takes its seats one by one (`RegisterSeat`), and answers. A
home is one document here; several are the subject of `Sweep`. Its sweep is the
steps of `New` and `IngestPath`, between which rewrites and other verbs fall:
`RegisterHome`, `LoadCursor`, `Fingerprint`, `CheckCursor`, `ReadFile`, `Commit`.
No verb has a fence, so that a `Commit` may bring back bytes that were read
before another verb mirrored newer ones (finding 3 below). An error or a death
(`Ends`) may come at any step. A seat refers to a registered home, so that a
filter with an unknown id ends `follow` half way. An id is assumed to name one
home (`LinesAssumption`). A resident watcher sweeps and ingests with the same
steps; its fence only refuses commits, as `Ends` may at any time.

Since older bytes that somebody holds may be committed at any time, what an
answer promises has a hypothesis: it is about the homes that were *quiet* when
the verb started (`Quiet`: nobody held other bytes of them than the file's).
Of those `AnswersAreFresh` says that the answer shows what was there at the
start, or later, although the mirror may have gone back before, although the
cursor that let the verb leave the file alone may have been written by any
other sweep, and whatever comes meanwhile. `SettledHomesRest` says that a home
that is mirrored as it is and quiet stays so until its files change: no sweep
makes a version of it, or comes to hold bytes that would.

`HomePairing` is `homes.go`: equal numbers of homes and ids, one label or kind
for all or one for each, the environment only when neither flag was given.
Values are strings that were trimmed.

`Handoff` mirrors handovers into the two tables `LastHandoff` reads, each with
ids of its own, at instants of `StampOrder`'s texts.

`Families` has both sides of a contract that no compiler checks: `Classify` is
`classify` of `scribe.go`, `Takes` the CHECKs and the path trigger of
`schema.sql`. A document is its directories, the words of its name and its
extension; the vocabulary is a constant.

### Sweep

The walk of `Backfill`: a directory is listed when the walk enters it, an entry
is looked at again in its turn, and agents create, rewrite and remove entries
between any two steps. `agenda` is the stack of listed directories. `Fail` is
the first error, which ends the scan. One ingester walks and commits; several
are `Scribe`'s subject.

### FileSource and ChangeSource

Opening a source tries FSEvents (`StartStream`) and falls back to polling
(`FallBack`). The poller's `Tick`, `See`, `WalkFails`, `WalkEnds`, `EmitChange`,
`LookEnds` are `markdownState` and `loop`; `TakeBatch`, `EmitBatch`, `ReportEnd`
are the loop of `platform_darwin.go`. The system may report a change by its
path, by its directory, or by a flag that events were dropped; it may close the
stream. The reader opens, sweeps, pumps, and starts again after an error or the
end of its term, as `WatchResident` does in more detail.

`ChangeSource` says what both promise: the mirror takes only what is there, and
a file that stays unlike its mirror is ingested. The refinement is the identity
on its three variables.

### Database

A script is a sequence of statements on a catalog of tables, indexes and
triggers; `work` is the copy a transaction sees. `BeginEnsure` is
`EnsureContext`, `BeginMigrate` `MigrateContext`, `Statement` and `Commit` run
the script, `Rollback` is what an error, a canceled context or a death leaves.
`Fails` has what can fail: a name that is taken or missing, a copied row the
CHECK of its new table refuses. SQLite's renaming of a table takes the triggers
that write to it along.
`Originals` are the databases found: none, version 1, 2 (as the tests fabricate
them), 3, a later one, one of another plugin, one without its row, one with a
table in the way. `watch` opens again after retryable errors, verbs do not.
Columns are not modelled, except where a layout decides what a copy may do.

### Placement and Packaging

Both are sequences of file operations, each of which may fail, or be the last of
its process. In `Placement` any number of processes place builds of their own;
`Rename` may be refused as on a system that cannot overwrite. In `Packaging`
one run follows another and starts from what the last one left; a file is in
part or whole, and a digest is the content it was taken from.

### MCVerbs and MCFiles

Each holds parts that share no state: nothing one part does can enable, disable
or change a step of another, so an interleaving of them shows no more than each
alone. A variable `part`, set at the start, says which part moves; the others
stay at a start of theirs. The invariants of all parts are checked in all
behaviours. In a behaviour in which a part rests, its liveness properties hold
trivially, or are only asked for where it moves (`WatchOpens`).

## Runs

| Run | Question | Bounds |
|---|---|---|
| `MCWatchLease` | do the lease statements keep one holder, whatever the age of stamps? | 3 sessions, lease 3, stamps up to 4 old |
| `MCScribeMixed` | does the mirror follow the file with fenced and unfenced ingesters? | 1 verb, 2 watchers, 1 file, 4 rewrites with a removal |
| `MCScribeRegress` | is current always the latest? **No** | 1 verb, 1 watcher |
| `MCWatchResident` | do the goroutines implement the lease, watch what they hold, lose nothing; does a home stay watched and its mirror current in the end? | 2 processes, 2 terms each, channel of 2, 1 fault, fair |
| `MCWatchResidentStandby` | does a standby wait? **Not after it was stood down** | same |
| `MCNerve` | is delivery at least once, in order, repeated only after a death? | 2 followers of one destination, 1 tick, 2 rows, 1 death, time stands still |
| `MCNerveTicks` | are ticks right about orphans and silences, and does a late heartbeat shorten no lease? | 1 follower, 2 ticks, 2 rows, 2 instants |
| `MCNerveLive` | does a wakeup reach a follower that stays? | 2 followers, one refused, 1 tick, 2 rows, fair |
| `MCNerveCollision` | does a follower own its subscription? **Not beside another of its workspace** | 2 followers |
| `MCNerveText` | does a live follower keep its queue? **Not at whole seconds** | 1 follower, 1 tick, 3 instants per second |
| `MCVerbs` | is what a verb answers fresh, current, and about the homes and documents it was given? | 2 invocations over 2 homes, 2 rewrites; 2 readers of the chart; 3 handovers in 2 seconds of 4 instants; command lines of up to 2 homes; names of up to 4 words |
| `MCFiles` | is what a file operation, a script or a walk leaves whole, or mended by the next; is no change of a file lost? | 3 placers; 2 releases; 8 kinds of database, a watcher and a verb, 3 faults; a tree of one directory and three files; 2 watched files, channel of 1 |

Some properties are conjunctions of named parts (`HomesAreAsGiven`,
`DatabaseIsWhole`, ...); `PROJECT.json` has a mutant for nearly every part.
`LeaseInv`, `MirrorInv`, `PlacementInv`, `ResidentInv` and `DeliveryInv` are
inductive invariants of the proofs, checked here on the small instances.

Why the bounds are enough:

- *WatchLease*: the two sessions of any conflict and one bystander; a stamp may
  be older than the lease, so that a lease granted is already over and a
  renewal is late. The proofs cover every other size.
- *Scribe*: files do not influence each other (cursor, current and version are
  per file), so one is enough. Four rewrites are one more than the steps of
  an ingest between which a rewrite can fall (fingerprint, read, commit), and
  include a removal and a return.
- *WatchResident*: two processes are a holder and a standby; two generations
  are the current and the previous term, and a term of which something is left
  keeps its name. A lease of two ticks with a renewal every tick has a tick in
  which the lease lives without its renewal. `MaxDelay` is 0 in the runs:
  what old stamps can do is the subject of `WatchLease`, which this module is
  shown to implement. One fault of any kind at any point is followed by
  everything the system does about it.
- *Nerve*: ordering and repetition do not depend on time, so `MCNerve` has
  none; two rows are enough to be in the wrong order, one death to repeat one.
  `MCNerveTicks` needs two ticks (each claims a silence), and a clock that
  moves twice: a lease ends, and the follower comes back or not.
- *Chart*: two readers, the one that leaves a torn or late row and the one that
  finds it.
- *Verbs*: two homes can be mixed up, two invocations can overtake each other:
  one holds older bytes, or moved the cursor, while the other sweeps and answers;
  the lines differ in the order of homes, in filters and in having neither. They
  run twice, as two parts of `MCVerbs`: with rewrites and no seats, and with
  seats and homes that rest. What a step does to seats depends on no file, and
  what it does to mirrors on no seat; the proofs have both at once.
- *Database*: one process that tries again and one that does not, from every
  kind of file; three faults are a death in each of the two transactions and
  one more on the way. The conflict of two openers needs two.
- *Placement*: two builds and one process that runs from the installed file; an
  overtaking placer may set aside what the first has just installed. The proofs
  cover any number.
- *Packaging*: two builds can be mixed; runs follow each other without bound.
- *Sweep*: a directory that goes while it is being visited, with one entry of
  each kind; documents do not depend on each other.
- *FileSource*: two files and a channel of one event, so that a source waits
  with one in its hands; one term or stream that ends early; a rewrite that may
  fall before, into or after any look.

`SYMMETRY` is used where no liveness is checked and no definition tells the
members apart: sessions, watchers, readers, invocations.

## Fairness, deadlock, bounds

`WatchResident.Fairness`: time passes; Go runs every runnable goroutine and
due timer, so every step of the main loop, activation, pump and heartbeat is
weakly fair; a database that is not failing answers an attempt. Faults,
rewrites and exits are not fair. `HomeGetsWatched` and `RewritesGetMirrored`
assume one session that serves for ever: without it nothing is promised.

`Nerve.Fairness`: a follower's steps go on. Those that need the write lock are
strongly fair: SQLite hands the lock to a waiter within `busy_timeout`, or the
statement fails and the process ends, which the property excludes (it speaks of
a follower that stays). Printing and committing are weakly fair: the reader of
the output takes its lines. A reader that stops does stop everything (see the
hazards). Ticks and the start of followers are not fair.

`MCFiles` puts together the fairness its parts state (`FairSpec` of `Database`,
`Sweep`, `FileSource`). A process that opens the database goes on, and a broken
path is mended. A transaction of the schema is over long before `busy_timeout`:
beginning one is strongly fair, or else two openers could meet each other's lock
at every attempt, for ever. Scans are repeated and go on; cancellations and
agents are not obliged to anything, and `SweepsCatchUp` assumes that the agents
rest and that cancellations end. The ticker ticks, FSEvents delivers, the source
and the reader run; streams and terms end a bounded number of times.

Deadlock is checked in `WatchLease` and `WatchResident`. It is not checked where
the system may really stop: `Scribe` ends when the file has its last revision
and nothing is left to ingest; the number of rows, instants and deaths is
bounded in `Nerve`, so that a tick that would add a row beyond `MaxRows` waits;
in `MCFiles` and `MCVerbs` processes end, a command line is resolved once, and
nothing is left to do when the last revision is mirrored.

Bounds in guards: `MaxDelay` (age of stamps), `MaxRev` (rewrites), `MaxFaults`,
`InboxSize` (16 in the code), `Generations`, `MaxClock`, `MaxRows`, `MaxEnds`,
`MaxDocs`, `MaxId`, `MaxSecond`, `MaxMirrored`, `Capacity` (256 in the code).

## Proofs

Checked by TLAPS for every value of the constants that meets the named
assumptions (`ASSUME`): tokens and processes differ from "none", durations are
positive and bounds natural numbers, verbs and watchers, followers and ticks are
disjoint, revision 0 has no bytes, "no file" is no file, the earlier build is
none of those being placed, a follower has a finite set of seats, a home has one
id and an id one home, `data/` is a tree (each directory is less deep than what
is in it), a database found is of one of the eight kinds, a home has a label, a
handover is in one of two tables, the values of flags are not those of the
environment, "handover" is a clean word that begins no date (2026-07-14 is one),
and, in `WatchResident`, a stamp is used before it is a lease old (`MaxDelay < Lease`: `watch` waits
250 ms for the write lock, `resident.go:27`, and its lease is two minutes unless
the environment sets another, `resident.go:24`; `WatchLease` has stamps of any
age). TLC evaluates all of
them on the instances. No theorem bounds the number of processes, homes,
documents, terms or messages.

`WatchLeaseProofs`. The invariant `LeaseInv` is
`TypeOK /\ BeliefBacked /\ LockOfLiveSession /\ FencedTxOwnsSeat`. `OneBeliever`
is not inductive: that two sessions do not believe says nothing about what the
row lets a third do. `BeliefBacked` is: whoever believes owns the row, and the
row's deadline is at least as late, so `TryAcquire` of another session, with a
stamp of any age, finds `seat.left > -age`. Two believers would both own the
row, hence `SingleBeliever`. `LockOfLiveSession` carries `FenceHoldsToCommit`
over `Crash`. `LeaseNotStolen` follows from the guard of the upsert and from
ages being natural numbers: a stamp is never ahead of the clock.

`ScribeProofs`. The invariant `MirrorInv` adds to the types that an ingest in flight holds
*fingerprint <= bytes read <= file* (`InFlight`). With it a commit keeps
`MirrorFollowsCursor`. `SkippedFilesAreMirrored` needs one assumption, that no
rewrite brings earlier bytes back: without it the cursor may match a file whose
mirror holds the bytes in between. `VersionsDiffer` needs only the comparison
inside the transaction. `FencedMirrorMovesForward` assumes that there are no
verbs: then the owner of the seat read its file after the current row was
written. With one verb `MCScribeRegress` refutes the same property.

`NerveProofs`, for any followers, ticks and deaths. `DeliveryInv` is the types,
`ClaimIsPending` (the open claim is of a row that is not confirmed; two claims
cannot be open), `LinesCounted` and the order of every process. That a line is
repeated only after a death is not inductive, since the one who confirms must
have printed: `LinesCounted` counts each line for its claim, its confirmation or
a process that ended with it. `InOrder` says where a drain stands: a row it may
still take is younger than the last it printed, unless it is the one it holds.
`LinesInOrder` is therefore about each process by itself: two followers of one
destination may print their lines in any order.
`ImplementsQueue` follows with it for every step: a step queues one wakeup,
opens a claim, prints, confirms, gives up, or does nothing the queue sees
(`QueueSteps`).

In its second half, about seats, `SilenceInv` says that no stamp is of the future, that the
row of a reported silence stays as it was until its seat is refreshed, and that
a claim of a tick had no live seat when it was opened, during which no seat can
be written since both need the lock. `SilencesReportedOnce` needs no more. The
text order of RFC3339Nano enters through one lemma: an earlier text is an earlier
second or the same. Hence what a tick takes is orphaned *to the second* for any
clock, and orphaned if instants are whole seconds (`PerSecond = 1`, a hypothesis
of three theorems; `MCNerveText` shows that it cannot be dropped). `BeatInv`
follows a follower through its heartbeats: the rows it has refreshed have the
lease of its stamp, those it has registered one that ends no later than a lease
from now, and stamps ascend, because the ticker's stamp is later than
the one before it. That holds only if no other follower writes these rows
(`OwnSeats`, a hypothesis of three theorems; `MCNerveCollision` shows that it
cannot be dropped either).

`WatchResidentProofs`, for any number of processes and generations, any channel
and any faults. None of `HolderIsWatching`, `SourcesAccounted`,
`RewriteIsPending` is inductive: each asks what the others know of the term.
`ResidentInv` is the three with the types and `HoldsInOrder`: who holds has a
term, who does not believes in no lease, a recorded source is open, one about to
be recorded is open and was not recorded before. A step of one process leaves to
the others what they hold, do and have to read (`OthersRest`); that leaves each
step of a process to look at by itself. `LeaseImplemented` shows step by step that the
goroutines do to the seat what `WatchLease` allows, so that the protocol's
theorems hold of them: `OneWatcherActs`, `NoWatcherIsRobbed`.

`VerbsProofs`, for any number of invocations, homes and command lines. What a
verb has swept may be swept again by another before it answers, and the mirror
may go back: a commit is not compared with what it replaces. That the answer is
fresh all the same rests on who can still hold what. `NoneOlder` says that
nobody holds bytes older than the start of a verb which found the home quiet: it
is true when the verb starts, and whoever reads the file later reads something
at least as new. `Held` says that what a sweep holds, fingerprint and bytes in
this order, was on disk after its verb started. `MirrorIsPast` says that a mirror
is no older than its cursor, of whichever sweep, so that leaving a home alone
for its cursor is as good as a commit. With these `Keeps` is inductive: up to the
point where a run stands in its lists, the quiet homes before it show what they
had when the run began (`SweptBy`, `Shows`) and the seats before it are in the
table (`SeatedBy`). `NothingUnsettlesAHome` needs of it only that whoever comes to
hold bytes of a home holds its files as they are (`HoldersAreNew`). That
`resolveHomes` gives as many pairs as homes, or a filter, is a lemma about the
operators of `HomePairing` (`RequestShape`).

`FilesProofs`. Each part is proved alone, and the steps of the others leave its
variables as they are (`Apart`).

- *Placement*, for any number of placers: `InstalledIsWhole` and
  `SuccessLeavesNothing` follow from the types, which say that a copy is finished
  before it is renamed and that a backup exists until the second rename is known.
  That an executable is kept does not: a placer discards its backup because it has
  installed its copy, but another may have set that copy aside meanwhile.
  `DiscardIsSafe` says that this other one then holds it and is not discarding, so
  `PlacementInv` is `TypeOK /\ InstalledIsWhole /\ SuccessLeavesNothing /\
  DiscardIsSafe`, and `ExecutableIsKept` follows step by step. For one placer
  alone `OutcomesAreTrue` says more: what it reports is what is there. It needs
  `KnowsItsOutcome`, how far the placer has come, and that nobody else moves
  (`LonePlacerKnows`).
- *Packaging*: `RunIsWhere` says what a run has written at each step, and that
  the old checksums go before any file they speak of. With it
  `ReleaseIsOneBuild` is inductive, over any sequence of runs and deaths.
- *FileSource*: `SourceInv` adds to `NothingForgotten` that a look has seen only
  what was there (`SeenIsPast`). `SourceStepsAllowed` is the safety half of
  `ImplementsSource`.
- *Sweep*: a document that rests was taken, or is in hand, or lies ahead of the
  walk: on the agenda, or below an existing directory that is, through existing
  directories (`Ahead`). When the agenda is empty that would be a set of
  directories without a topmost one, which the depth of a tree excludes; the
  argument is well-founded, and needs no recursion over the tree.

`DatabaseProofs`, for any watches, verbs, faults and any of the eight kinds of
database found. It has two invariants.

- `DatabaseInv` says that what is on disk is ours, nothing, or one of the
  strangers' files; and of the open transaction, that what is left of its script
  will write version 3 or has (`MigratingInv`, and `EnsuringInv` on an empty
  file), or, on a stranger's file, has nothing to do or will meet a name that is
  taken. Hence only version 3 is ever opened (`OnlyCurrentIsOpened`), and what is
  somebody else's is not changed (`OthersStayUntouched`): an interrupted script
  ends before its commit.
- `WholeInv` says that our database is a whole version (`IsWhole`: exactly the
  catalog of its version, around its rows), and of the open transaction, that
  what is left of its script runs to its end, on what the transaction sees, and
  completes it to a whole version with the rows that are on disk. That is what a
  commit needs, and a statement keeps it: it only takes the first step of a run
  that exists. Nothing has to be said of the states in between, in which tables
  are renamed and triggers gone.

That such a run exists when a transaction begins is about the scripts alone.
`RunsTo(q, d, e)` is a run of the statements `q` from `d` to `e`; runs are put
together as scripts are. The catalog falls into groups, one per piece of a script
(`Core`, `Written2`, `Cursor`, `Queue`, `Wakers`, ...), whose names, subjects and
layouts are lemmas; `Adds` and `Removes` say of a piece that it adds or drops a
group, from whatever catalog meets what it asks for. `Turns` says of a script that it
leads from one catalog to another and keeps the rows, whatever they are; the
rebuilding of a table (rename, create, copy, drop) is one lemma for any table
(`RebuildRuns`, `TurnsRebuilding`). Composed, they are `FirstMigrationTurns` and
`SecondMigrationTurns`. With `WholeStep` these give `DatabaseStaysWhole`
(`DatabaseIsWhole`, all of it) and `MigratedRowsStay`; the latter completes
`NothingOfOthersIsOverwritten`. That a mirrored document queues its wakeup needs
one fact more: before version 3 none is mirrored (`Older`).

`AnswerProofs`, parts of `MCVerbs` that share nothing (`Apart`, again).

- *Stamps*: two texts of one length are ordered by the first character in which
  they differ (`TextOrder`). `LeaseTextIs` spells out the layout of `lease.go`;
  hence `LeaseTextsSortLikeTime`, for any width. RFC3339Nano trims zeros, so its
  texts have no common length, and only the seconds sort (`NanoTextsSortSeconds`).
- *Chart*: that a quiet reader is right is not inductive, since it may be served
  a row that another, torn between two queries, has stored. `RowsAreTheirMarks`
  says that a row's body is the snapshot in its own watermark, `ReadsAsIs` what a
  reader has seen up to its step, and, if it is quiet, that this is still so: a
  row it is served matches its watermark, hence its body. The counts alone would
  not do: no count shows a label.
- *Handoff*: the latest by text is the latest to the second (`HandoffIsLate`);
  a free id of either table is one more than its largest (`FreeIdIs`).
- *HomePairing*: `ResolvedAsGiven` is about any flags, of any length.
- *Families*: `TablesTakeWhatIsClassified` is about any document whose
  directories have names (`Lies`: none is empty, a dot or two dots).
  `FamiliesAlwaysAgree` adds the kind of a handover.

What the proofs found in the models, and was corrected after the code:
`era` had a bound, under which a refreshed seat could look as it did before;
`HomePairing` asked the questions of `resolveHomes` in another order, which
mattered for a command line with two mistakes; the fingerprint of a file that is gone
kept the previous document's, which no run could tell apart; and `Families` chose
among cases that overlap, of which TLC takes the first and TLA+ any: `classify`
asks for the directory first, and now the model does.

Only model-checked: liveness (`WakeupsReachFollower`, `HomeGetsWatched`,
`RewritesGetMirrored`, `SweepsCatchUp`, `WatchOpens`) and the fairness half of
`ImplementsSource`, since fairness and `ENABLED` are out of the prover's reach.
Every other property of a passing run is a theorem,
five of them under a hypothesis named above: that no rewrite brings bytes back
(`UnchangedMeansMirrored`), that instants are whole seconds (`TickTakesOrphans`,
`NoFalseSilence`, `LiveFollowerKeepsQueue`), that followers have seats of their
own (`LiveFollowerKeepsQueue`, `SeatLeaseMovesForward`).

## What the checks say about the code

Four runs end in a violation; `PROJECT.json` quotes the lines.

1. **A standby may spin** (`MCWatchResidentStandby`). `nextWatchAttempt`
   prefers a `retryAt` that has passed to an observed deadline and answers 1 ms.
   A session that was stood down once and is now standby takes the write lock
   about a thousand times per second until the other lease ends.
2. **Text order of RFC3339Nano** (`MCNerveText`). A tick started at a whole
   second finds seats expired whose lease ends within that second.
3. **Current may step back** (`MCScribeRegress`). A verb commits bytes older
   than the watcher's. The next sweep or event of the file repairs it. A verb
   that answers in between, or has swept before and answers after, shows the
   older bytes: hence the hypothesis of `AnswersAreFresh`.
4. **One seat for two destinations** (`MCNerveCollision`). Followers of one
   workspace and home share a row whatever they follow.

Observations no run states as a property, since nothing in the repository
promises otherwise, or since a run above already shows their cause:

- A shutdown that cancels a renewal or an activation in flight stands the home
  down with a canceled context, so the seat is not released and the next session
  waits out the lease.
- Bytes restored between fingerprint and read, with their times, hide the
  version in between.
- A file that is removed between `os.Stat` and the reading of it fails its
  ingest and with it the scan (`scribe.go:299-333`), although the comment at
  `scribe.go:277` calls vanished files harmless. The next scan repairs it.
- A `data/` that is a link to a directory passes the check of the home
  (`scribe.go:148`), but `filepath.WalkDir` does not enter it: scans succeed and
  mirror nothing. In `Sweep` `data/` is a directory.
- Within one second `LastHandoff` (`nerve.go:206`) may print the older of two
  handovers, for the reason `MCNerveText` shows; `PrintedIsCurrent` therefore
  promises the second only.
- A placer whose second rename fails restores the earlier file, also over what
  another installed meanwhile; one that cannot remove its backup reports an
  error although its build is installed.
- A packaging run that is killed may leave `firstmate.db-journal` in its
  directory; later runs refuse that directory until somebody removes the file.
- Two homes given with one id are not refused (`homes.go:57`): each sweep would
  retire the other's documents.
- One home that cannot be swept keeps `tick` and `attach` from all others, and a
  verb that fails half way leaves the seats it has registered.

## Not modelled

- Rendering, flags other than homes, usage texts, exit codes: no state depends
  on them.
- Telemetry (`internal/watchlog`): appended and never read.
- The test catalog; `extractTarGz`, which only tests call; an archive path
  inside the output directory of a package.
- Several homes in one `watch` process: their structs are independent; they
  share the channel (its order and capacity are modelled for one) and the timer
  (the earliest attempt of any home, so one home can only make another's
  attempt come earlier).
- Steps of the wall clock: all processes run on one machine and read one clock.
- That wakeups of an orphaned destination are delivered in the end: ticks are
  started by hand or by cron, which the program cannot promise. What a tick that
  runs may take is checked.
- `FilterHomes` of the chart: reads only.
- The kqueue variant of the WAL source: its signals end in the channel of the
  poller's.
- Fingerprints that repeat: a fingerprint is taken to identify a revision.
- Links in the place of `data/` (see above). A listed file that is gone makes
  the poller's walk fail, as the fingerprint library is taken to report it.

## Plan

Done: the models of all components (see [Not modelled](#not-modelled) for what
they leave out), and proofs of their safety. What is left to TLC is liveness.
