--------------------------- MODULE WatchResident ---------------------------
(***************************************************************************)
(* The resident watcher (resident.go): what the goroutines of one process   *)
(* do with one home, for several processes that compete for its seat.       *)
(*                                                                         *)
(* A process is a main loop (attempts, file messages), a heartbeat, and for *)
(* every term of its lease an activation goroutine that sets up a file      *)
(* source, sweeps and then starts a pump.  They share the leasedHome struct *)
(* under its mutex; a section under the mutex is one action, with its one   *)
(* database call.  A term is named by its generation; the code only         *)
(* compares generations for equality here, so a number nobody refers to any *)
(* more is used again.                                                      *)
(*                                                                         *)
(* Deadlines are kept as the time left until them (see WatchLease), Zero is *)
(* the zero time.Time.                                                      *)
(***************************************************************************)
EXTENDS Integers, Sequences

CONSTANTS
    Sessions, NoSession,
    Lease, Retry, DueRetry, HeartbeatEvery,  \* durations, in ticks
    MaxDelay,     \* bound on the age of a stamp when it is used
    Generations,  \* names of terms
    InboxSize,    \* capacity of channel msgs
    MaxFaults     \* bound on errors, stalls, broken sources, exits and deaths

NoGen == 0
Zero == -1

ASSUME DurationAssumption ==
    /\ Lease \in Nat /\ Retry \in Nat /\ DueRetry \in Nat /\ HeartbeatEvery \in Nat
    /\ MaxDelay \in Nat /\ MaxDelay < Lease
ASSUME BoundAssumption == InboxSize \in Nat /\ MaxFaults \in Nat
ASSUME NameAssumption == NoGen \notin Generations /\ NoSession \notin Sessions

VARIABLES
    up,      \* sessions whose process runs
    seat,    \* the seat row: token, time left to lease_until
    home,    \* the leasedHome struct of each session
    timer,   \* attemptTimer: time left to the next attempt
    beat,    \* time left to the next heartbeat
    main,    \* where the main loop is, and for which term
    inbox,   \* channel msgs: file messages of the pumps
    act,     \* where the activation goroutine of each term is
    pump,    \* the terms whose pump goroutine runs
    open,    \* the terms whose file source is open
    noted,   \* the open sources with a change not yet handed on
    stale,   \* the mirror lacks the last rewrite of the home's files
    fresh,   \* sweeps and ingests in flight that began after that rewrite
    faults   \* faults left

vars == <<up, seat, home, timer, beat, main, inbox, act, pump, open, noted,
          stale, fresh, faults>>

Seats == [token : Sessions \cup {NoSession}, left : (-MaxDelay) .. Lease]

Homes == [holding : BOOLEAN, left : 0 .. Lease, gen : Generations \cup {NoGen},
          retryAt : Zero .. Retry, standby : Zero .. Lease,
          src : Generations \cup {NoGen}, prepared : BOOLEAN]

Places == [at : {"select", "ingest", "exit", "broken", "done"},
           gen : Generations \cup {NoGen}]

Messages == [gen : Generations, kind : {"path", "err"}]

ActSteps == {"none", "factory", "source", "record", "sweep", "renew"}

ClocksTyped ==
    /\ timer \in [Sessions -> 0 .. Retry]
    /\ beat \in [Sessions -> 0 .. HeartbeatEvery]
    /\ faults \in 0 .. MaxFaults

LoopsTyped ==
    /\ main \in [Sessions -> Places]
    /\ inbox \in [Sessions -> Seq(Messages)]
    /\ \A s \in Sessions : Len(inbox[s]) <= InboxSize

TermsTyped ==
    /\ act \in [Sessions -> [Generations -> ActSteps]]
    /\ pump \in [Sessions -> SUBSET Generations]
    /\ open \in [Sessions -> SUBSET Generations]
    /\ noted \in [Sessions -> SUBSET Generations]

MirrorTyped == stale \in BOOLEAN /\ fresh \subseteq Sessions \X Generations

TypeOK ==
    /\ up \subseteq Sessions
    /\ seat \in Seats
    /\ home \in [Sessions -> Homes]
    /\ ClocksTyped /\ LoopsTyped /\ TermsTyped /\ MirrorTyped

IdleHome == [holding |-> FALSE, left |-> 0, gen |-> NoGen, retryAt |-> Zero,
             standby |-> Zero, src |-> NoGen, prepared |-> FALSE]
Select == [at |-> "select", gen |-> NoGen]
NoActs == [g \in Generations |-> "none"]

Init ==
    /\ up = Sessions
    /\ seat = [token |-> NoSession, left |-> -MaxDelay]
    /\ home = [s \in Sessions |-> IdleHome]
    /\ timer = [s \in Sessions |-> 0]
    /\ beat = [s \in Sessions |-> HeartbeatEvery]
    /\ main = [s \in Sessions |-> Select]
    /\ inbox = [s \in Sessions |-> <<>>]
    /\ act = [s \in Sessions |-> NoActs]
    /\ pump = [s \in Sessions |-> {}]
    /\ open = [s \in Sessions |-> {}]
    /\ noted = [s \in Sessions |-> {}]
    /\ stale = TRUE
    /\ fresh = {}
    /\ faults = MaxFaults

-----------------------------------------------------------------------------
AtLeastZero(n) == IF n < 0 THEN 0 ELSE n
Least(a, b) == IF a < b THEN a ELSE b
Later(d) == IF d = Zero THEN Zero ELSE AtLeastZero(d - 1)
Ages == 0 .. MaxDelay

(***************************************************************************)
(* The main loop leaves when its context is canceled (stdin closed, signal),*)
(* and with the context on when it cannot print.  The lease context of a    *)
(* term is a child: standing down cancels it alone.                         *)
(***************************************************************************)
Serving(s) == main[s].at \in {"select", "ingest"}
Canceled(s) == main[s].at \in {"exit", "done"}
TermIsOn(s, g) == home[s].holding /\ home[s].gen = g
ContextLive(s, g) == TermIsOn(s, g) /\ ~Canceled(s)

(***************************************************************************)
(* watchHomeLease, and the fence of a transaction of this session.          *)
(***************************************************************************)
LeaseHeld(s, g) == TermIsOn(s, g) /\ 0 < home[s].left
Owns(s, age) == seat.token = s /\ -age < seat.left

(* Mutant of AttemptDelay: an observed deadline is waited for beyond the retry. *)
AttemptDelayUncapped(h) ==
    IF h.holding THEN Retry
    ELSE IF h.standby > 0 THEN h.standby
    ELSE IF h.retryAt = Zero THEN Retry ELSE h.retryAt

(***************************************************************************)
(* nextWatchAttempt, for the home as it will be; 1 ms is no tick at all.    *)
(***************************************************************************)
AttemptDelay(h) ==
    LET retryAt == IF h.retryAt = Zero THEN Retry ELSE h.retryAt
        standbyCounts == /\ h.standby # Zero
                         /\ h.retryAt = Zero \/ 0 < h.standby
                         /\ h.standby < retryAt
    IN  IF h.holding THEN Retry
        ELSE Least(Retry, IF standbyCounts THEN h.standby ELSE retryAt)

Fault == faults > 0 /\ faults' = faults - 1

(***************************************************************************)
(* ReleaseSeat by a session that held the home.  It fails when its context  *)
(* is canceled, and may fail in a run with faults; nobody tries again.      *)
(***************************************************************************)
Release(s, canceled) ==
    \/ /\ home[s].holding /\ seat.token = s /\ ~canceled
       /\ \E age \in Ages : seat' = [seat EXCEPT !.left = -age]
    \/ /\ ~home[s].holding \/ seat.token # s \/ canceled \/ MaxFaults > 0
       /\ UNCHANGED seat

(***************************************************************************)
(* standDownWatchHomeLocked.  Generation NoGen stands for any term; another *)
(* term than the current one is left alone.                                 *)
(***************************************************************************)
StoodDown(h, retryAt) ==
    [h EXCEPT !.holding = FALSE, !.left = 0, !.standby = Zero, !.src = NoGen,
              !.retryAt = retryAt]

StandDown(s, g, retryAt, canceled) ==
    IF g # NoGen /\ home[s].gen # g
    THEN UNCHANGED <<home, seat, open, noted>>
    ELSE /\ home' = [home EXCEPT ![s] = StoodDown(@, retryAt)]
         /\ open' = [open EXCEPT ![s] = @ \ {home[s].src}]
         /\ noted' = [noted EXCEPT ![s] = @ \ {home[s].src}]
         /\ Release(s, canceled)

-----------------------------------------------------------------------------
(***************************************************************************)
(* Time.  A heartbeat is not late unless the process is stalled, which is a *)
(* fault like any other.                                                    *)
(***************************************************************************)
Tick ==
    /\ IF \A s \in up : beat[s] > 0 \/ ~Serving(s) THEN UNCHANGED faults ELSE Fault
    /\ seat' = [seat EXCEPT !.left = IF @ <= -MaxDelay THEN @ ELSE @ - 1]
    /\ home' = [s \in Sessions |->
          [home[s] EXCEPT !.left = AtLeastZero(@ - 1), !.retryAt = Later(@),
                          !.standby = Later(@)]]
    /\ timer' = [s \in Sessions |-> AtLeastZero(timer[s] - 1)]
    /\ beat' = [s \in Sessions |-> AtLeastZero(beat[s] - 1)]
    /\ UNCHANGED <<up, main, inbox, act, pump, open, noted, stale, fresh>>

(***************************************************************************)
(* The files of the home change: every open source notes it.                *)
(***************************************************************************)
Rewrite ==
    /\ stale' = TRUE
    /\ fresh' = {}
    /\ noted' = open
    /\ UNCHANGED <<up, seat, home, timer, beat, main, inbox, act, pump, open, faults>>

-----------------------------------------------------------------------------
(***************************************************************************)
(* acquireWatchHomes, then attemptTimer.Reset(nextWatchAttempt(...)).       *)
(***************************************************************************)
AttemptDue(s) == s \in up /\ main[s].at = "select" /\ timer[s] = 0

Wants(s) == ~home[s].holding /\ home[s].retryAt <= 0

SetHome(s, h) ==
    /\ home' = [home EXCEPT ![s] = h]
    /\ timer' = [timer EXCEPT ![s] = AttemptDelay(h)]

AttemptSkipped(s) ==
    /\ AttemptDue(s) /\ ~Wants(s)
    /\ SetHome(s, home[s])
    /\ UNCHANGED <<up, seat, beat, main, inbox, act, pump, open, noted, stale,
                   fresh, faults>>

PrepareFailed(s) ==
    /\ AttemptDue(s) /\ Wants(s) /\ ~home[s].prepared
    /\ Fault
    /\ SetHome(s, [home[s] EXCEPT !.retryAt = Retry, !.standby = Zero])
    /\ UNCHANGED <<up, seat, beat, main, inbox, act, pump, open, noted, stale, fresh>>

(* The error may come after the row was taken: the commit is in doubt. *)
AttemptFailed(s) ==
    /\ AttemptDue(s) /\ Wants(s)
    /\ Fault
    /\ \E age \in Ages :
          LET due == home[s].standby # Zero /\ home[s].standby = 0
              delay == IF due THEN Least(Retry, DueRetry) ELSE Retry
          IN  /\ SetHome(s, [home[s] EXCEPT !.prepared = TRUE,
                                            !.retryAt = AtLeastZero(delay - age)])
              /\ \/ UNCHANGED seat
                 \/ /\ seat.left <= -age \/ seat.token = s
                    /\ seat' = [token |-> s, left |-> Lease - age]
    /\ UNCHANGED <<up, beat, main, inbox, act, pump, open, noted, stale, fresh>>

Standby(s) ==
    /\ AttemptDue(s) /\ Wants(s)
    /\ seat.token # s
    /\ \E age \in Ages : -age < seat.left
    /\ SetHome(s, [home[s] EXCEPT !.prepared = TRUE,
                                  !.standby = AtLeastZero(seat.left)])
    /\ UNCHANGED <<up, seat, beat, main, inbox, act, pump, open, noted, stale,
                   fresh, faults>>

(***************************************************************************)
(* A generation that the struct, a goroutine or a message still names.      *)
(***************************************************************************)
InUse(s, g) ==
    \/ home[s].gen = g \/ act[s][g] # "none" \/ g \in pump[s] \/ g \in open[s]
    \/ main[s].gen = g \/ \E k \in DOMAIN inbox[s] : inbox[s][k].gen = g

NextGeneration(s) == CHOOSE g \in Generations : ~InUse(s, g)

Acquire(s) ==
    /\ AttemptDue(s) /\ Wants(s)
    /\ \E g \in Generations : ~InUse(s, g)
    /\ \E age \in Ages :
          /\ seat.left <= -age \/ seat.token = s
          /\ seat' = [token |-> s, left |-> Lease - age]
          /\ SetHome(s, [home[s] EXCEPT
                !.prepared = TRUE, !.holding = TRUE, !.standby = Zero,
                !.left = Lease - age, !.gen = NextGeneration(s)])
    /\ act' = [act EXCEPT ![s][NextGeneration(s)] = "factory"]
    /\ UNCHANGED <<up, beat, main, inbox, pump, open, noted, stale, fresh, faults>>

-----------------------------------------------------------------------------
(***************************************************************************)
(* activateWatchHome, one term's goroutine.  Every step asks whether its    *)
(* term is still on before it touches the struct.                           *)
(***************************************************************************)
Go(s, g, step) == act' = [act EXCEPT ![s][g] = step]

(* An error of a step: stand the term down and end. *)
ActivationFails(s, g) ==
    /\ Go(s, g, "none")
    /\ StandDown(s, g, Retry, Canceled(s))
    /\ fresh' = fresh \ {<<s, g>>}
    /\ UNCHANGED <<up, timer, beat, main, inbox, pump, stale>>

(***************************************************************************)
(* scribe.New: a fenced transaction under the lease context.                *)
(***************************************************************************)
Factory(s, g) ==
    /\ act[s][g] = "factory"
    /\ \/ /\ ContextLive(s, g) /\ \E age \in Ages : Owns(s, age)
          /\ Go(s, g, "source")
          /\ UNCHANGED <<up, seat, home, timer, beat, main, inbox, pump, open,
                         noted, stale, fresh, faults>>
       \/ /\ ContextLive(s, g) /\ \A age \in Ages : Owns(s, age)
          /\ Fault
          /\ ActivationFails(s, g)
       \/ /\ ~ContextLive(s, g) \/ \E age \in Ages : ~Owns(s, age)
          /\ UNCHANGED faults
          /\ ActivationFails(s, g)

(***************************************************************************)
(* Publish the ingester if the term is on, then filewatch.New: the source   *)
(* is open, and notes changes, from here on.                                *)
(***************************************************************************)
OpenSource(s, g) ==
    /\ act[s][g] = "source"
    /\ \/ /\ ~TermIsOn(s, g)
          /\ Go(s, g, "none")
          /\ UNCHANGED <<up, seat, home, timer, beat, main, inbox, pump, open,
                         noted, stale, fresh, faults>>
       \/ /\ TermIsOn(s, g)
          /\ open' = [open EXCEPT ![s] = @ \cup {g}]
          /\ Go(s, g, "record")
          /\ UNCHANGED <<up, seat, home, timer, beat, main, inbox, pump, noted,
                         stale, fresh, faults>>
       \/ /\ TermIsOn(s, g)
          /\ Fault
          /\ ActivationFails(s, g)

(* Mutant of RecordSource: nobody asks whether the term is still on. *)
RecordSourceAlways(s, g) ==
    /\ act[s][g] = "record"
    /\ home' = [home EXCEPT ![s].src = g]
    /\ Go(s, g, "sweep")
    /\ fresh' = fresh \cup {<<s, g>>}
    /\ UNCHANGED <<up, seat, timer, beat, main, inbox, pump, open, noted, stale, faults>>

(***************************************************************************)
(* Record the source in the struct, or close it when the term has ended;    *)
(* then the backfill begins to read.                                        *)
(***************************************************************************)
RecordSource(s, g) ==
    /\ act[s][g] = "record"
    /\ IF TermIsOn(s, g)
       THEN /\ home' = [home EXCEPT ![s].src = g]
            /\ Go(s, g, "sweep")
            /\ fresh' = fresh \cup {<<s, g>>}
            /\ UNCHANGED <<open, noted>>
       ELSE /\ open' = [open EXCEPT ![s] = @ \ {g}]
            /\ noted' = [noted EXCEPT ![s] = @ \ {g}]
            /\ Go(s, g, "none")
            /\ UNCHANGED <<home, fresh>>
    /\ UNCHANGED <<up, seat, timer, beat, main, inbox, pump, stale, faults>>

(***************************************************************************)
(* The backfill ends: its commits are fenced, its context is the lease's.   *)
(* It brings the mirror up to date if it read everything after the last     *)
(* rewrite.                                                                 *)
(***************************************************************************)
SweepDone(s, g) ==
    /\ act[s][g] = "sweep"
    /\ \/ /\ ContextLive(s, g) /\ \E age \in Ages : Owns(s, age)
          /\ stale' = (stale /\ <<s, g>> \notin fresh)
          /\ fresh' = fresh \ {<<s, g>>}
          /\ Go(s, g, "renew")
          /\ UNCHANGED <<up, seat, home, timer, beat, main, inbox, pump, open,
                         noted, faults>>
       \/ /\ ContextLive(s, g) /\ \A age \in Ages : Owns(s, age)
          /\ Fault
          /\ ActivationFails(s, g)
       \/ /\ ~ContextLive(s, g) \/ \E age \in Ages : ~Owns(s, age)
          /\ UNCHANGED faults
          /\ ActivationFails(s, g)

(* Mutant of RenewSeat: the row is updated whatever its token. *)
RenewSeatAnyToken(s, retryAt) ==
    \E age \in Ages :
        /\ seat' = [seat EXCEPT !.left = Lease - age]
        /\ home' = [home EXCEPT ![s].left = Lease - age, ![s].retryAt = retryAt]

(***************************************************************************)
(* renewWatchSeat under the mutex: the row must still carry the token.      *)
(***************************************************************************)
RenewSeat(s, retryAt) ==
    /\ seat.token = s
    /\ \E age \in Ages :
          /\ home[s].left <= Lease - age
          /\ seat' = [token |-> s, left |-> Lease - age]
          /\ home' = [home EXCEPT ![s].left = Lease - age, ![s].retryAt = retryAt]

(* Mutant of StartPump: what the source noted during the sweep is thrown away. *)
StartPumpAfresh(s, g) ==
    /\ act[s][g] = "renew"
    /\ \/ /\ ~TermIsOn(s, g)
          /\ Go(s, g, "none")
          /\ UNCHANGED <<up, seat, home, timer, beat, main, inbox, pump, open,
                         noted, stale, fresh, faults>>
       \/ /\ ContextLive(s, g)
          /\ Go(s, g, "none")
          /\ RenewSeat(s, Zero)
          /\ pump' = [pump EXCEPT ![s] = @ \cup {g}]
          /\ noted' = [noted EXCEPT ![s] = @ \ {g}]
          /\ UNCHANGED <<up, timer, beat, main, inbox, open, stale, fresh, faults>>
       \/ /\ TermIsOn(s, g)
          /\ IF seat.token # s \/ Canceled(s) THEN UNCHANGED faults ELSE Fault
          /\ ActivationFails(s, g)

StartPump(s, g) ==
    /\ act[s][g] = "renew"
    /\ \/ /\ ~TermIsOn(s, g)
          /\ Go(s, g, "none")
          /\ UNCHANGED <<up, seat, home, timer, beat, main, inbox, pump, open,
                         noted, stale, fresh, faults>>
       \/ /\ ContextLive(s, g)
          /\ Go(s, g, "none")
          /\ RenewSeat(s, Zero)
          /\ pump' = [pump EXCEPT ![s] = @ \cup {g}]
          /\ UNCHANGED <<up, timer, beat, main, inbox, open, noted, stale, fresh, faults>>
       \/ /\ TermIsOn(s, g)
          /\ IF seat.token # s \/ Canceled(s) THEN UNCHANGED faults ELSE Fault
          /\ ActivationFails(s, g)

ActivationStep(s, g) ==
    s \in up /\ ( Factory(s, g) \/ OpenSource(s, g) \/ RecordSource(s, g)
                  \/ SweepDone(s, g) \/ StartPump(s, g) )

-----------------------------------------------------------------------------
(***************************************************************************)
(* heartbeatWatchHomes: renew what is held, or stand down.  Canceled in the *)
(* middle of a renewal, it stands down and cannot release the seat either;  *)
(* the cleanup waits for it.                                                *)
(***************************************************************************)
Heartbeat(s) ==
    /\ s \in up /\ beat[s] = 0
    /\ Serving(s) \/ main[s].at \in {"exit", "broken"}
    /\ beat' = [beat EXCEPT ![s] = HeartbeatEvery]
    /\ \/ /\ ~home[s].holding
          /\ UNCHANGED <<seat, home, open, noted, faults>>
       \/ /\ home[s].holding /\ ~Canceled(s)
          /\ RenewSeat(s, home[s].retryAt)
          /\ UNCHANGED <<open, noted, faults>>
       \/ /\ home[s].holding
          /\ IF seat.token # s \/ ~Serving(s) THEN UNCHANGED faults ELSE Fault
          /\ StandDown(s, home[s].gen, Retry, ~Serving(s))
    /\ UNCHANGED <<up, timer, main, inbox, act, pump, stale, fresh>>

-----------------------------------------------------------------------------
(***************************************************************************)
(* pumpWatch: hand a change on, or end on an error or the end of the source.*)
(* A pump whose context is canceled may still hand one message on.          *)
(***************************************************************************)
PumpPath(s, g) ==
    /\ s \in up /\ g \in pump[s] /\ g \in noted[s] /\ Len(inbox[s]) < InboxSize
    /\ inbox' = [inbox EXCEPT ![s] = Append(@, [gen |-> g, kind |-> "path"])]
    /\ noted' = [noted EXCEPT ![s] = @ \ {g}]
    /\ UNCHANGED <<up, seat, home, timer, beat, main, act, pump, open, stale,
                   fresh, faults>>

PumpError(s, g) ==
    /\ s \in up /\ g \in pump[s] /\ Len(inbox[s]) < InboxSize
    /\ IF g \in open[s] THEN Fault ELSE UNCHANGED faults
    /\ inbox' = [inbox EXCEPT ![s] = Append(@, [gen |-> g, kind |-> "err"])]
    /\ pump' = [pump EXCEPT ![s] = @ \ {g}]
    /\ UNCHANGED <<up, seat, home, timer, beat, main, act, open, noted, stale, fresh>>

PumpStops(s, g) ==
    /\ s \in up /\ g \in pump[s] /\ ~ContextLive(s, g)
    /\ pump' = [pump EXCEPT ![s] = @ \ {g}]
    /\ UNCHANGED <<up, seat, home, timer, beat, main, inbox, act, open, noted,
                   stale, fresh, faults>>

-----------------------------------------------------------------------------
(* Mutant of TakeMessage: the end of a source is only logged. *)
TakeMessageLogsErrors(s) ==
    /\ s \in up /\ main[s].at = "select" /\ inbox[s] # <<>>
    /\ inbox' = [inbox EXCEPT ![s] = Tail(@)]
    /\ LET msg == Head(inbox[s])
       IN  CASE msg.kind = "err" -> UNCHANGED <<seat, home, open, noted, main, fresh>>
             [] msg.kind = "path" /\ LeaseHeld(s, msg.gen) ->
                  /\ main' = [main EXCEPT ![s] = [at |-> "ingest", gen |-> msg.gen]]
                  /\ fresh' = fresh \cup {<<s, msg.gen>>}
                  /\ UNCHANGED <<seat, home, open, noted>>
             [] OTHER -> /\ StandDown(s, msg.gen, Retry, FALSE)
                         /\ UNCHANGED <<main, fresh>>
    /\ UNCHANGED <<up, timer, beat, act, pump, stale, faults>>

(***************************************************************************)
(* The main loop takes a message: a message of another term, of an expired  *)
(* lease or of a broken source stands its term down; a path is ingested.    *)
(***************************************************************************)
TakeMessage(s) ==
    /\ s \in up /\ main[s].at = "select" /\ inbox[s] # <<>>
    /\ inbox' = [inbox EXCEPT ![s] = Tail(@)]
    /\ LET msg == Head(inbox[s])
       IN  IF LeaseHeld(s, msg.gen) /\ msg.kind = "path"
           THEN /\ main' = [main EXCEPT ![s] = [at |-> "ingest", gen |-> msg.gen]]
                /\ fresh' = fresh \cup {<<s, msg.gen>>}
                /\ UNCHANGED <<seat, home, open, noted>>
           ELSE /\ StandDown(s, msg.gen, Retry, FALSE)
                /\ UNCHANGED <<main, fresh>>
    /\ UNCHANGED <<up, timer, beat, act, pump, stale, faults>>

IngestOK(s) ==
    /\ s \in up /\ main[s].at = "ingest"
    /\ ContextLive(s, main[s].gen) /\ \E age \in Ages : Owns(s, age)
    /\ stale' = (stale /\ <<s, main[s].gen>> \notin fresh)
    /\ fresh' = fresh \ {<<s, main[s].gen>>}
    /\ main' = [main EXCEPT ![s] = Select]
    /\ UNCHANGED <<up, seat, home, timer, beat, inbox, act, pump, open, noted, faults>>

IngestFailed(s) ==
    /\ s \in up /\ main[s].at = "ingest"
    /\ IF TermIsOn(s, main[s].gen) /\ \A age \in Ages : Owns(s, age)
       THEN Fault ELSE UNCHANGED faults
    /\ StandDown(s, main[s].gen, Retry, FALSE)
    /\ fresh' = fresh \ {<<s, main[s].gen>>}
    /\ main' = [main EXCEPT ![s] = Select]
    /\ UNCHANGED <<up, timer, beat, inbox, act, pump, stale>>

-----------------------------------------------------------------------------
(***************************************************************************)
(* The process ends: its goroutines, sources and messages are gone.         *)
(***************************************************************************)
Gone(s) ==
    /\ up' = up \ {s}
    /\ home' = [home EXCEPT ![s] = IdleHome]
    /\ timer' = [timer EXCEPT ![s] = 0]
    /\ beat' = [beat EXCEPT ![s] = HeartbeatEvery]
    /\ main' = [main EXCEPT ![s] = Select]
    /\ inbox' = [inbox EXCEPT ![s] = <<>>]
    /\ act' = [act EXCEPT ![s] = NoActs]
    /\ pump' = [pump EXCEPT ![s] = {}]
    /\ open' = [open EXCEPT ![s] = {}]
    /\ noted' = [noted EXCEPT ![s] = {}]
    /\ fresh' = {f \in fresh : f[1] # s}
    /\ UNCHANGED stale

(***************************************************************************)
(* The main loop leaves; its defers stop the heartbeat, stand the home down *)
(* with one bounded attempt to release the seat, and cancel every context.  *)
(***************************************************************************)
Exit(s) ==
    /\ s \in up /\ main[s].at = "select"
    /\ Fault
    /\ \E at \in {"exit", "broken"} :
          main' = [main EXCEPT ![s] = [at |-> at, gen |-> NoGen]]
    /\ UNCHANGED <<up, seat, home, timer, beat, inbox, act, pump, open, noted,
                   stale, fresh>>

Cleanup(s) ==
    /\ s \in up /\ main[s].at \in {"exit", "broken"}
    /\ StandDown(s, NoGen, Zero, FALSE)
    /\ main' = [main EXCEPT ![s].at = "done"]
    /\ UNCHANGED <<up, timer, beat, inbox, act, pump, stale, fresh, faults>>

End(s) ==
    /\ s \in up /\ main[s].at = "done"
    /\ Gone(s)
    /\ UNCHANGED <<seat, faults>>

Crash(s) ==
    /\ s \in up
    /\ Fault
    /\ Gone(s)
    /\ UNCHANGED seat

-----------------------------------------------------------------------------
MainStep(s) ==
    \/ AttemptSkipped(s) \/ PrepareFailed(s) \/ AttemptFailed(s) \/ Standby(s)
    \/ Acquire(s) \/ TakeMessage(s) \/ IngestOK(s) \/ IngestFailed(s)
    \/ Exit(s) \/ Cleanup(s) \/ End(s) \/ Crash(s)

PumpStep(s, g) == PumpPath(s, g) \/ PumpError(s, g) \/ PumpStops(s, g)

Next ==
    \/ Tick
    \/ Rewrite
    \/ \E s \in Sessions :
          \/ MainStep(s)
          \/ Heartbeat(s)
          \/ \E g \in Generations : ActivationStep(s, g) \/ PumpStep(s, g)

(***************************************************************************)
(* Go runs every runnable goroutine and every due timer, time passes, and a *)
(* database that is not failing answers.                                    *)
(***************************************************************************)
AttemptAnswered(s) == AttemptSkipped(s) \/ Standby(s) \/ Acquire(s)

Fairness ==
    /\ WF_vars(Tick)
    /\ \A s \in Sessions :
          /\ WF_vars(AttemptAnswered(s))
          /\ WF_vars(TakeMessage(s))
          /\ WF_vars(IngestOK(s) \/ IngestFailed(s))
          /\ WF_vars(Cleanup(s)) /\ WF_vars(End(s))
          /\ WF_vars(Heartbeat(s))
          /\ \A g \in Generations :
                WF_vars(ActivationStep(s, g)) /\ WF_vars(PumpStep(s, g))

Spec == Init /\ [][Next]_vars

FairSpec == Spec /\ Fairness

-----------------------------------------------------------------------------
(***************************************************************************)
(* The seat and what the sessions believe follow the lease protocol: every  *)
(* step of these goroutines is a step of WatchLease or none.  An ingest     *)
(* transaction is one step here, so its write lock is never seen taken.     *)
(***************************************************************************)
L == INSTANCE WatchLease WITH
    holding <- [s \in Sessions |-> home[s].holding],
    left <- [s \in Sessions |-> home[s].left],
    tx <- [by |-> NoSession, stage |-> "open"]

ImplementsLease == L!Spec

(***************************************************************************)
(* No two processes act for the home at the same time: the answer of        *)
(* watchHomeLease is yes for one of them at most.                           *)
(***************************************************************************)
OneActs ==
    \A s, t \in Sessions :
        LeaseHeld(s, home[s].gen) /\ LeaseHeld(t, home[t].gen) => s = t

(***************************************************************************)
(* Nobody sits on the seat without watching: as long as a session holds the *)
(* home (and so renews the lease for ever), its activation is under way,    *)
(* its pump runs, or the message that will stand it down is on its way.     *)
(***************************************************************************)
Told(s, g, kind) == \E k \in DOMAIN inbox[s] : inbox[s][k] = [gen |-> g, kind |-> kind]

IsWatching(s) ==
    home[s].holding /\ Serving(s) =>
        LET g == home[s].gen
        IN  act[s][g] # "none" \/ g \in pump[s] \/ Told(s, g, "err")

HolderIsWatching == \A s \in Sessions : IsWatching(s)

(***************************************************************************)
(* No file source is left open behind: an open source is the one of the     *)
(* term that holds the home, or its activation is about to record it or to  *)
(* close it.                                                                *)
(***************************************************************************)
AccountsForSources(s) ==
    /\ \A g \in open[s] : home[s].src = g \/ act[s][g] = "record"
    /\ home[s].src # NoGen => home[s].holding /\ home[s].src = home[s].gen

SourcesAccounted == \A s \in Sessions : AccountsForSources(s)

(***************************************************************************)
(* A rewrite is never missed by a session that holds the home: from the     *)
(* moment its source is recorded, whatever the mirror lacks is noted by the *)
(* source, queued, or being read.  (The source is opened before the sweep.) *)
(***************************************************************************)
WillCatchUp(s) ==
    stale /\ home[s].holding /\ home[s].src # NoGen =>
        LET g == home[s].gen
        IN  g \in noted[s] \/ <<s, g>> \in fresh \/ Told(s, g, "path")

RewriteIsPending == \A s \in Sessions : WillCatchUp(s)

(***************************************************************************)
(* What these rest on: a session holds the home for a term and believes in  *)
(* no lease otherwise; the source it recorded is open, and one that is      *)
(* about to be recorded is open and was not recorded before.                *)
(***************************************************************************)
HoldsInOrder(s) ==
    /\ home[s].holding => home[s].gen # NoGen
    /\ ~home[s].holding => home[s].left = 0
    /\ home[s].src # NoGen => home[s].src \in open[s]
    /\ \A g \in Generations :
          /\ act[s][g] = "record" => g \in open[s]
          /\ act[s][g] \in {"factory", "source", "record"} => home[s].src # g

(***************************************************************************)
(* The inductive invariant of the three properties above.                   *)
(***************************************************************************)
Watches(s) ==
    IsWatching(s) /\ AccountsForSources(s) /\ WillCatchUp(s) /\ HoldsInOrder(s)

ResidentInv == TypeOK /\ \A s \in Sessions : Watches(s)

(***************************************************************************)
(* A standby waits: after it found a live lease of another session, it does *)
(* not attempt again before its own retry time or the observed deadline.    *)
(***************************************************************************)
StandbyWaits ==
    [][\A s \in Sessions :
          Standby(s) /\ home'[s].standby > 0 => timer'[s] > 0]_vars

Serves(s) == s \in up /\ Serving(s)
Watching(s) == Serves(s) /\ LeaseHeld(s, home[s].gen) /\ home[s].gen \in pump[s]

(***************************************************************************)
(* If a session keeps serving, the home is in the end watched for good:     *)
(* when the holder exits, dies or loses its lease, a standby takes over,    *)
(* and a released or expired lease is inherited.                            *)
(***************************************************************************)
HomeGetsWatched ==
    (\E s \in Sessions : <>[]Serves(s)) => <>[](\E s \in Sessions : Watching(s))

(***************************************************************************)
(* And every rewrite is in the end mirrored, those made while nobody        *)
(* watched included.                                                        *)
(***************************************************************************)
RewritesGetMirrored ==
    (\E s \in Sessions : <>[]Serves(s)) => ([]<><<Rewrite>>_vars \/ <>[]~stale)
=============================================================================
