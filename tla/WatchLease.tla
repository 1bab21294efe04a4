----------------------------- MODULE WatchLease -----------------------------
(***************************************************************************)
(* The watch seat of one home: the row of table "seats" that concurrent     *)
(* resident sessions compete for, and what each session believes about it.  *)
(*                                                                         *)
(* Every statement of lease.go runs in a write transaction of one SQLite    *)
(* file (_txlock=immediate), so statements are serialised by the write      *)
(* lock.  A caller reads its clock BEFORE it queues for that lock: a stamp  *)
(* is up to MaxDelay ticks old when it is used, and `age' says how old.     *)
(*                                                                         *)
(* Deadlines are kept as the time left until them, so the clock itself is   *)
(* not a variable: lease_until = now + left.                                *)
(***************************************************************************)
EXTENDS Integers

CONSTANTS
    Sessions,   \* resident processes; a session is its 32-byte holder token
    NoSession,  \* no token: the seat row does not exist, nobody has the lock
    Lease,      \* lease duration, in ticks
    MaxDelay    \* bound on the age of a stamp: busy_timeout and scheduling

ASSUME NoSessionAssumption == NoSession \notin Sessions
ASSUME LeaseAssumption == Lease \in Nat \ {0}
ASSUME MaxDelayAssumption == MaxDelay \in Nat

VARIABLES
    up,       \* the sessions whose process runs
    seat,     \* the row: workspace_fingerprint, time left to lease_until
    holding,  \* leasedHome.holding of each session
    left,     \* time left to leasedHome.leaseUntil, 0 once it has passed
    tx        \* the open ingest transaction: who runs it, how far it is

vars == <<up, seat, holding, left, tx>>

NoTx == [by |-> NoSession, stage |-> "open"]

TypeOK ==
    /\ up \subseteq Sessions
    /\ seat \in [token : Sessions \cup {NoSession}, left : Int]
    /\ holding \in [Sessions -> BOOLEAN]
    /\ left \in [Sessions -> Nat]
    /\ tx \in [by : Sessions \cup {NoSession}, stage : {"open", "fenced"}]

(***************************************************************************)
(* A missing row is a row nobody owns that expired long ago: the upsert     *)
(* takes both in the same way.                                              *)
(***************************************************************************)
Init ==
    /\ up = Sessions
    /\ seat = [token |-> NoSession, left |-> -MaxDelay]
    /\ holding = [s \in Sessions |-> FALSE]
    /\ left = [s \in Sessions |-> 0]
    /\ tx = NoTx

(* Mutant of CanTake: a lease is taken over one instant before it ends. *)
CanTakeEarly(s, age) == seat.left <= 1 - age \/ seat.token = s

(***************************************************************************)
(* The WHERE clauses of the upsert of TryAcquireSeat, and of FenceSeat, for *)
(* a stamp of the given age.                                                *)
(***************************************************************************)
CanTake(s, age) == seat.left <= -age \/ seat.token = s

Fenced(s, age) == seat.token = s /\ -age < seat.left

(* Mutant of LockFree: transactions do not begin IMMEDIATE. *)
NoWriteLock == TRUE

LockFree == tx.by = NoSession

AtLeastZero(n) == IF n < 0 THEN 0 ELSE n

(***************************************************************************)
(* What watchHomeLease answers: may the session act on a file event?        *)
(***************************************************************************)
Believes(s) == holding[s] /\ 0 < left[s]

(***************************************************************************)
(* Time passes.  How long ago a lease expired matters up to MaxDelay.       *)
(***************************************************************************)
Tick ==
    /\ seat' = [seat EXCEPT !.left = IF @ <= -MaxDelay THEN @ ELSE @ - 1]
    /\ left' = [s \in Sessions |-> AtLeastZero(left[s] - 1)]
    /\ UNCHANGED <<up, holding, tx>>

(* Mutant of TryAcquire: the deadline is computed after the call, from a new stamp. *)
TryAcquireTwoStamps(s, age) ==
    /\ s \in up /\ ~holding[s] /\ LockFree
    /\ CanTake(s, age)
    /\ seat' = [token |-> s, left |-> Lease - age]
    /\ holding' = [holding EXCEPT ![s] = TRUE]
    /\ left' = [left EXCEPT ![s] = Lease]
    /\ UNCHANGED <<up, tx>>

(***************************************************************************)
(* acquireWatchHomes calls TryAcquireSeat with acquireNow, under the home's *)
(* mutex; the deadline it keeps is computed from the same stamp.            *)
(***************************************************************************)
TryAcquire(s, age) ==
    /\ s \in up /\ ~holding[s] /\ LockFree
    /\ CanTake(s, age)
    /\ seat' = [token |-> s, left |-> Lease - age]
    /\ holding' = [holding EXCEPT ![s] = TRUE]
    /\ left' = [left EXCEPT ![s] = AtLeastZero(Lease - age)]
    /\ UNCHANGED <<up, tx>>

(***************************************************************************)
(* The commit of TryAcquireSeat succeeds but its caller gets an error: the  *)
(* row is taken and the session does not know.                              *)
(***************************************************************************)
AcquireUnknown(s, age) ==
    /\ s \in up /\ ~holding[s] /\ LockFree
    /\ CanTake(s, age)
    /\ seat' = [token |-> s, left |-> Lease - age]
    /\ UNCHANGED <<up, holding, left, tx>>

(***************************************************************************)
(* RenewSeat asks for the token only, so an expired lease nobody took is    *)
(* revived.  Stamps of one session are taken under its mutex, in order, so  *)
(* a renewal never moves the deadline back.  renewWatchSeat keeps the new   *)
(* deadline only when it is still ahead.                                    *)
(***************************************************************************)
RenewRow(s, age) ==
    /\ s \in up /\ holding[s] /\ LockFree
    /\ seat.token = s
    /\ left[s] <= AtLeastZero(Lease - age)
    /\ seat' = [token |-> s, left |-> Lease - age]
    /\ UNCHANGED <<up, holding, tx>>

Renew(s, age) ==
    /\ RenewRow(s, age)
    /\ age < Lease
    /\ left' = [left EXCEPT ![s] = Lease - age]

RenewLate(s, age) ==
    /\ RenewRow(s, age)
    /\ Lease <= age
    /\ UNCHANGED left

(***************************************************************************)
(* standDownWatchHomeLocked: the session stops believing, then ReleaseSeat  *)
(* expires the row it owns; the release may fail and is not retried.        *)
(***************************************************************************)
Forget(s) ==
    /\ s \in up /\ holding[s]
    /\ holding' = [holding EXCEPT ![s] = FALSE]
    /\ left' = [left EXCEPT ![s] = 0]
    /\ UNCHANGED <<up, tx>>

StandDown(s, age) ==
    /\ Forget(s) /\ LockFree
    /\ seat' = [seat EXCEPT !.left = IF seat.token = s THEN -age ELSE @]

StandDownUnreleased(s) == Forget(s) /\ UNCHANGED seat

(***************************************************************************)
(* An ingest transaction of the session: BEGIN IMMEDIATE takes the write    *)
(* lock, FenceSeat reads the seat just before the commit.  A transaction    *)
(* whose fence fails, and one that meets any other error, is rolled back.   *)
(***************************************************************************)
BeginWrite(s) ==
    /\ s \in up /\ LockFree
    /\ tx' = [by |-> s, stage |-> "open"]
    /\ UNCHANGED <<up, seat, holding, left>>

(* Mutant of FenceSeat: a refused transaction is left open. *)
FenceSeatNoRollback(s, age) ==
    /\ tx.by = s /\ tx.stage = "open"
    /\ tx' = [by |-> s, stage |-> IF Fenced(s, age) THEN "fenced" ELSE "refused"]
    /\ UNCHANGED <<up, seat, holding, left>>

FenceSeat(s, age) ==
    /\ tx.by = s /\ tx.stage = "open"
    /\ tx' = IF Fenced(s, age) THEN [by |-> s, stage |-> "fenced"] ELSE NoTx
    /\ UNCHANGED <<up, seat, holding, left>>

EndWrite(s) ==
    /\ tx.by = s
    /\ tx' = NoTx
    /\ UNCHANGED <<up, seat, holding, left>>

(* Mutant of Crash: the lock outlives its process. *)
CrashKeepsLock(s) ==
    /\ s \in up
    /\ up' = up \ {s}
    /\ holding' = [holding EXCEPT ![s] = FALSE]
    /\ left' = [left EXCEPT ![s] = 0]
    /\ UNCHANGED <<seat, tx>>

(***************************************************************************)
(* The process dies: its transaction is rolled back, its beliefs are gone.  *)
(* A restarted process draws a new token: it is another session.            *)
(***************************************************************************)
Crash(s) ==
    /\ s \in up
    /\ up' = up \ {s}
    /\ holding' = [holding EXCEPT ![s] = FALSE]
    /\ left' = [left EXCEPT ![s] = 0]
    /\ tx' = IF tx.by = s THEN NoTx ELSE tx
    /\ UNCHANGED seat

SessionStep(s) ==
    \/ \E age \in 0 .. MaxDelay :
        \/ TryAcquire(s, age)
        \/ AcquireUnknown(s, age)
        \/ Renew(s, age)
        \/ RenewLate(s, age)
        \/ StandDown(s, age)
        \/ FenceSeat(s, age)
    \/ StandDownUnreleased(s)
    \/ BeginWrite(s)
    \/ EndWrite(s)
    \/ Crash(s)

Next == Tick \/ \E s \in Sessions : SessionStep(s)

Spec == Init /\ [][Next]_vars

-----------------------------------------------------------------------------
(***************************************************************************)
(* At most one session of a home acts on file events at any time, although  *)
(* each decides from its own memory and from a clock value that may be old  *)
(* (TryAcquireSeat, renewWatchSeat, watchHomeLease).                        *)
(***************************************************************************)
OneBeliever ==
    \A s, t \in Sessions : Believes(s) /\ Believes(t) => s = t

(***************************************************************************)
(* A session that believes it holds the home owns the row, and its deadline *)
(* is not later than the row's: standbys wait at least as long as it acts.  *)
(***************************************************************************)
BeliefBacked ==
    \A s \in Sessions : Believes(s) => seat.token = s /\ left[s] <= seat.left

(***************************************************************************)
(* A transaction that passed FenceSeat owns the seat until it commits:      *)
(* nobody can take the row over between the check and the commit.           *)
(***************************************************************************)
FencedTxOwnsSeat == tx.stage = "fenced" => seat.token = tx.by

(***************************************************************************)
(* The write lock is never left behind by a process that died, and a stage  *)
(* only exists under the lock (the rest of what FencedTxOwnsSeat needs).    *)
(***************************************************************************)
LockOfLiveSession ==
    /\ tx.by \in up \cup {NoSession}
    /\ tx.by = NoSession => tx.stage = "open"

(***************************************************************************)
(* The inductive invariant: within the types, every believer owns the row   *)
(* for as long as it believes, and every fenced transaction is that of a    *)
(* live process that owns the row, whatever the order of acquisitions,      *)
(* renewals, stand-downs, commits and deaths (lease.go, resident.go).       *)
(***************************************************************************)
LeaseInv == TypeOK /\ BeliefBacked /\ LockOfLiveSession /\ FencedTxOwnsSeat

(***************************************************************************)
(* A live lease is never taken away from its owner: the token of the row    *)
(* changes only when the lease has expired by the real clock, however old   *)
(* the stamp of the session that takes it (TryAcquireSeat).                 *)
(***************************************************************************)
LiveLeaseKept ==
    [][seat'.token # seat.token => seat.left <= 0]_vars
=============================================================================
