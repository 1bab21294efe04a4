----------------------------- MODULE FileSource -----------------------------
(***************************************************************************)
(* The file source of a watched home (internal/watch) and its reader        *)
(* (resident.go).  Opening a source tries FSEvents and falls back to        *)
(* polling.                                                                 *)
(*                                                                         *)
(* Polling: at every tick the source walks data/, fingerprints each         *)
(* Markdown file, compares with its last look and hands on what differs.    *)
(* FSEvents: the system reports a change by the path of the file, by its    *)
(* directory, or not at all but for a flag that events were dropped; it     *)
(* delivers in batches, and may close the stream; the source hands on the   *)
(* paths of a batch, then the root if anything in it asks for a scan.       *)
(* Both wait while their channel is full.  Files are rewritten and removed  *)
(* at any point, also in the middle of a walk.                              *)
(*                                                                         *)
(* A revision is a number that grows; 0 is "not seen".  The fingerprint is  *)
(* taken to tell revisions apart.  Files do not depend on each other here,  *)
(* so any order is allowed where the program's is lexical.                  *)
(***************************************************************************)
EXTENDS Naturals, Sequences

CONSTANTS
    Paths,
    Root,       \* the path that asks for a complete scan, no file's
    Capacity,   \* of the channel of events (256 in the code), at least 1
    MaxRev,     \* bound on the revisions of a file
    MaxEnds     \* bound on the streams closed and the terms ended

VARIABLES
    file,      \* the revision of each path
    there,     \* the paths that exist
    mirror,    \* the revision last ingested
    kind,      \* the open source: none, poll, native
    term,      \* the reader: opening, sweeping, pumping
    sweep,     \* the files its sweep has still to read
    events,    \* the channel
    error,     \* an error is on its way to the reader
    previous,  \* poll: the state of the last complete look
    current,   \* poll: the state the walk has collected
    look,      \* poll: waiting for the tick, walking, emitting
    left,      \* poll: the files the walk has still to see
    changed,   \* poll: the paths still to be emitted
    system,    \* native: what the system has not delivered yet; Root: a scan is needed
    batch,     \* native: what is left of the batch in hand
    stream,    \* native: is the stream open?
    ends       \* counts streams closed and terms ended

files == <<file, there>>
reader == <<kind, term, sweep, ends>>
poll == <<previous, current, look, left, changed>>
native == <<system, batch, stream>>
vars == <<files, mirror, reader, events, error, poll, native>>

Revs == 0 .. MaxRev
Unseen == [p \in Paths |-> 0]

Init ==
    /\ file = [p \in Paths |-> 1] /\ there \in {{}, Paths}
    /\ mirror = Unseen
    /\ kind = "none" /\ term = "opening" /\ sweep = {}
    /\ events = <<>> /\ error = FALSE
    /\ previous = Unseen /\ current = Unseen
    /\ look = "waiting" /\ left = {} /\ changed = {}
    /\ system = {} /\ batch = {} /\ stream = FALSE
    /\ ends = 0

-----------------------------------------------------------------------------
(***************************************************************************)
(* The owner of the files.  While the stream is open a change is reported   *)
(* as its path, as its directory, or lost with a flag: the last two ask for *)
(* a scan.                                                                  *)
(***************************************************************************)
Reported(p) ==
    IF stream THEN \E e \in {p, Root} : system' = system \cup {e} ELSE UNCHANGED system

Rewrite(p) ==
    /\ file[p] < MaxRev
    /\ file' = [file EXCEPT ![p] = @ + 1] /\ there' = there \cup {p}
    /\ Reported(p)
    /\ UNCHANGED <<mirror, reader, events, error, poll, batch, stream>>

Remove(p) ==
    /\ p \in there /\ file[p] < MaxRev
    /\ there' = there \ {p}
    /\ Reported(p)
    /\ UNCHANGED <<file, mirror, reader, events, error, poll, batch, stream>>

(* The system closes the stream; what it has not delivered is lost. *)
StreamCloses ==
    /\ stream /\ ends < MaxEnds /\ ends' = ends + 1
    /\ stream' = FALSE /\ system' = {}
    /\ UNCHANGED <<files, mirror, kind, term, sweep, events, error, poll, batch>>

-----------------------------------------------------------------------------
(* What is handed on waits for room in the channel. *)
Room == Len(events) < Capacity

(***************************************************************************)
(* The polling source: markdownState, then loop.                            *)
(***************************************************************************)
Walks == look' = "walking" /\ left' = there /\ current' = Unseen

Tick ==
    /\ kind = "poll" /\ term # "opening" /\ look = "waiting" /\ Walks
    /\ UNCHANGED <<files, mirror, reader, events, error, previous, changed, native>>

See(p) ==
    /\ look = "walking" /\ p \in left \cap there
    /\ current' = [current EXCEPT ![p] = file[p]] /\ left' = left \ {p}
    /\ UNCHANGED <<files, mirror, reader, events, error, previous, look, changed, native>>

(* A listed file that is gone fails the walk: before the source is open the *)
(* activation fails, later the error is sent and previous stays.            *)
WalkFails(p) ==
    /\ look = "walking" /\ p \in left \ there
    /\ look' = "waiting" /\ error' = TRUE
    /\ UNCHANGED <<files, mirror, reader, events, previous, current, left, changed, native>>

(* Mutant of Differs: a path that was not there before is not compared. *)
DiffersFromKnown == {p \in Paths : previous[p] # 0 /\ current[p] \notin {0, previous[p]}}

Differs == {p \in Paths : current[p] \notin {0, previous[p]}}

WalkEnds ==
    /\ look = "walking" /\ left = {} /\ term # "opening"
    /\ look' = "emitting" /\ changed' = Differs
    /\ UNCHANGED <<files, mirror, reader, events, error, previous, current, left, native>>

EmitChange(p) ==
    /\ look = "emitting" /\ p \in changed /\ Room
    /\ events' = Append(events, p) /\ changed' = changed \ {p}
    /\ UNCHANGED <<files, mirror, reader, error, previous, current, look, left, native>>

LookEnds ==
    /\ look = "emitting" /\ changed = {}
    /\ previous' = current /\ look' = "waiting"
    /\ UNCHANGED <<files, mirror, reader, events, error, current, left, changed, native>>

Polling == Tick \/ WalkEnds \/ LookEnds \/ \E p \in Paths : See(p) \/ WalkFails(p) \/ EmitChange(p)

-----------------------------------------------------------------------------
(***************************************************************************)
(* The FSEvents source: loop.                                               *)
(***************************************************************************)
TakeBatch ==
    /\ stream /\ batch = {} /\ system # {}
    /\ batch' = system /\ system' = {}
    /\ UNCHANGED <<files, mirror, reader, events, error, poll, stream>>

(* Mutant of EmitBatch: a flag is skipped like a path that is no Markdown file. *)
EmitPathsOnly(e) ==
    /\ e \in batch /\ Room
    /\ events' = IF e = Root THEN events ELSE Append(events, e)
    /\ batch' = batch \ {e}
    /\ UNCHANGED <<files, mirror, reader, error, poll, system, stream>>

(* The paths of a batch first, the root last and once. *)
EmitBatch(e) ==
    /\ e \in batch /\ (e = Root => batch = {Root}) /\ Room
    /\ events' = Append(events, e) /\ batch' = batch \ {e}
    /\ UNCHANGED <<files, mirror, reader, error, poll, system, stream>>

(* The input channel is closed: errClosed, once, and both channels close; *)
(* the reader ends its term on whichever it sees first.                   *)
ReportEnd ==
    /\ kind = "native" /\ ~stream /\ batch = {} /\ ~error
    /\ error' = TRUE
    /\ UNCHANGED <<files, mirror, reader, events, poll, native>>

Native == TakeBatch \/ ReportEnd \/ \E e \in Paths \cup {Root} : EmitBatch(e)

-----------------------------------------------------------------------------
(***************************************************************************)
(* The reader.  It opens a source, sweeps, and only then takes events; an   *)
(* error, or the end of its lease, ends the term, and a new one begins.     *)
(***************************************************************************)
Ingests(p) == mirror' = [mirror EXCEPT ![p] = IF p \in there THEN file[p] ELSE @]

(* newPlatform: the stream starts, and reports what changes from now on; or *)
(* it does not, and newPolling takes its first look.                        *)
StartStream ==
    /\ kind = "none" /\ kind' = "native" /\ stream' = TRUE
    /\ term' = "sweeping" /\ sweep' = there
    /\ UNCHANGED <<files, mirror, ends, events, error, poll, system, batch>>

FallBack ==
    /\ kind = "none" /\ kind' = "poll" /\ Walks
    /\ UNCHANGED <<files, mirror, term, sweep, ends, events, error, previous, changed, native>>

FirstLookDone ==
    /\ kind = "poll" /\ term = "opening" /\ look = "walking" /\ left = {}
    /\ previous' = current /\ look' = "waiting"
    /\ term' = "sweeping" /\ sweep' = there
    /\ UNCHANGED <<files, mirror, kind, ends, events, error, current, left, changed, native>>

(* Backfill: a listed file that is gone fails the sweep, or is skipped. *)
SweepFile(p) ==
    /\ p \in sweep
    /\ Ingests(p) /\ sweep' = sweep \ {p}
    /\ UNCHANGED <<files, kind, term, ends, events, error, poll, native>>

StartPump ==
    /\ term = "sweeping" /\ sweep = {}
    /\ term' = "pumping"
    /\ UNCHANGED <<files, mirror, kind, sweep, ends, events, error, poll, native>>

(* A path is ingested; the root is a sweep in the place of an event. *)
TakeEvent ==
    /\ term = "pumping" /\ sweep = {} /\ events # <<>>
    /\ events' = Tail(events)
    /\ IF Head(events) = Root
       THEN sweep' = there /\ UNCHANGED mirror
       ELSE Ingests(Head(events)) /\ UNCHANGED sweep
    /\ UNCHANGED <<files, kind, term, ends, error, poll, native>>

Closes ==
    /\ kind' = "none" /\ term' = "opening" /\ sweep' = {}
    /\ events' = <<>> /\ error' = FALSE
    /\ previous' = Unseen /\ current' = Unseen /\ look' = "waiting" /\ left' = {} /\ changed' = {}
    /\ system' = {} /\ batch' = {} /\ stream' = FALSE
    /\ UNCHANGED <<files, mirror>>

(* The pump reads errors beside events, and ends its term on the first; an *)
(* activation that fails is tried again.                                   *)
TakeError ==
    /\ error /\ (term = "opening" \/ (term = "pumping" /\ sweep = {}))
    /\ Closes /\ UNCHANGED ends

(* A lost lease, a failing sweep or ingest, a restart. *)
TermEnds == ends < MaxEnds /\ ends' = ends + 1 /\ Closes

Read ==
    \/ StartStream \/ FallBack \/ FirstLookDone
    \/ StartPump \/ TakeEvent \/ TakeError \/ \E p \in Paths : SweepFile(p)

Next ==
    \/ Polling \/ Native \/ Read \/ TermEnds \/ StreamCloses
    \/ \E p \in Paths : Rewrite(p) \/ Remove(p)

Spec == Init /\ [][Next]_vars

(* The ticker ticks, the system delivers, the goroutine of the source and   *)
(* the reader run.                                                          *)
FairSpec == Spec /\ WF_vars(Polling) /\ WF_vars(Native) /\ WF_vars(Read)

-----------------------------------------------------------------------------
(* Types; the channel never holds more than its capacity, and only a native *)
(* source asks for scans.                                                   *)
TypeOK ==
    /\ file \in [Paths -> Revs \ {0}] /\ there \subseteq Paths
    /\ mirror \in [Paths -> Revs]
    /\ kind \in {"none", "poll", "native"} /\ (kind = "none" => term = "opening")
    /\ term \in {"opening", "sweeping", "pumping"} /\ sweep \subseteq Paths
    /\ events \in Seq(Paths \cup {Root}) /\ Len(events) <= Capacity
    /\ error \in BOOLEAN /\ ends \in 0 .. MaxEnds
    /\ previous \in [Paths -> Revs] /\ current \in [Paths -> Revs]
    /\ look \in {"waiting", "walking", "emitting"} /\ (look # "waiting" => kind = "poll")
    /\ left \subseteq Paths /\ changed \subseteq Paths
    /\ system \cup batch \subseteq Paths \cup {Root}
    /\ stream \in BOOLEAN /\ (stream => kind = "native")

Stale(p) == p \in there /\ mirror[p] # file[p]

Queued(e) == e \in changed \cup batch \/ \E i \in DOMAIN events : events[i] = e

(***************************************************************************)
(* While a source works, a file that the mirror lacks is about to be read,  *)
(* or its path, or a request for a scan, is on its way, or the look that is *)
(* going on or the next one will find it: no rewrite falls between two      *)
(* looks, between the first look and the sweep, or into a dropped event.    *)
(***************************************************************************)
NothingForgotten ==
    \A p \in Paths : Stale(p) /\ term # "opening" =>
        \/ p \in sweep \/ Queued(p) \/ Queued(Root)
        \/ kind = "poll" /\ previous[p] # file[p] /\ (look = "emitting" => current[p] # file[p])
        \/ kind = "native" /\ (stream => system \cap {p, Root} # {})

Abstract == INSTANCE ChangeSource

(***************************************************************************)
(* The source and its reader keep the promise of a file source, whichever   *)
(* kind is open, also when events are dropped and when the stream is closed *)
(* under them: the mirror takes only what is there, and a file does not     *)
(* stay unlike its mirror.                                                  *)
(***************************************************************************)
ImplementsSource == Abstract!Spec
=============================================================================
