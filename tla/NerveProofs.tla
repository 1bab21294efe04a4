---------------------------- MODULE NerveProofs ----------------------------
(***************************************************************************)
(* Delivery of wakeups, then the leases and silences of seats, for any      *)
(* followers and ticks, any subscriptions and any number of processes that  *)
(* end early.                                                               *)
(***************************************************************************)
EXTENDS Nerve, TLAPS

(***************************************************************************)
(* A silence is at most the time since the last sign of life, counted in    *)
(* intervals of SilenceAfter (silenceClock).                                *)
(***************************************************************************)
LEMMA DivAtMost ==
    \A a \in Nat, b \in Nat \ {0} : a \div b \in Nat /\ a \div b <= a
OBVIOUS

LEMMA DivInt ==
    \A a \in Int, b \in Nat \ {0} : a \div b \in Int /\ (a <= 0 => a \div b <= 0)
OBVIOUS

LEMMA TickMoves ==
    \A a, c \in Nat, b \in Nat \ {0} :
        a <= c => /\ a + b * (1 + (c - a) \div b) \in Nat
                  /\ a + b * (1 + (c - a) \div b) > c
OBVIOUS

(***************************************************************************)
(* A refreshed row is a row.                                                *)
(***************************************************************************)
LEMMA RefreshedRow ==
    \A r \in Rows, n \in 0 .. MaxClock :
        [r EXCEPT !.seen = n, !.silent = 0, !.until = n + Lease, !.era = @ + 1] \in Rows
<1> TAKE r \in Rows, n \in 0 .. MaxClock
<1>1. [r EXCEPT !.seen = n, !.silent = 0] \in Rows
  <2>1. 0 \in 0 .. MaxClock
    BY BoundAssumption
  <2> QED
    BY <2>1 DEF Rows
<1>2. ASSUME NEW q \in Rows PROVE [q EXCEPT !.until = n + Lease, !.era = @ + 1] \in Rows
  <2>1. n + Lease \in 0 .. (MaxClock + Lease)
    BY BoundAssumption, DurationAssumption
  <2>2. q.era + 1 \in Nat
    BY DEF Rows
  <2> QED
    BY <2>1, <2>2 DEF Rows
<1>3. [[r EXCEPT !.seen = n, !.silent = 0] EXCEPT !.until = n + Lease, !.era = @ + 1] \in Rows
  BY <1>1, <1>2
<1> QED
  BY <1>3 DEF Rows

(***************************************************************************)
(* Everything but the count of lines stays in its type by itself, as long   *)
(* as an open claim is a row.                                               *)
(***************************************************************************)
Parts == SeatsTyped /\ QueueTyped /\ FollowersTyped /\ TicksTyped /\ HistoryTyped

LEMMA Typing == Parts /\ ClaimIsPending /\ [Next]_vars => Parts'
<1> SUFFICES ASSUME Parts, ClaimIsPending, [Next]_vars PROVE Parts'
  OBVIOUS
<1> USE DEF Parts
<1> USE DurationAssumption, BoundAssumption
<1>0. /\ UNCHANGED seats => SeatsTyped'
      /\ UNCHANGED <<rows, handled, tx>> => QueueTyped'
      /\ UNCHANGED <<fol, moved, signal>> => FollowersTyped'
      /\ UNCHANGED tk => TicksTyped'
      /\ UNCHANGED <<last, clock, ends>> => HistoryTyped'
      /\ DatabaseMoves /\ UNCHANGED <<fol, signal>> => FollowersTyped'
  BY DEF SeatsTyped, QueueTyped, FollowersTyped, TicksTyped, HistoryTyped, DatabaseMoves
<1>1. CASE Passes
  BY <1>0, <1>1 DEF Passes, HistoryTyped
<1>2. ASSUME NEW h \in HomesOf, DocumentMirrored(h) PROVE Parts'
  BY <1>0, <1>2 DEF DocumentMirrored, QueueTyped, Wakeups
<1>3. ASSUME NEW f \in Followers, FollowerStep(f) PROVE Parts'
  <2>0. SeatsOf(f) \subseteq Seats /\ fol[f] \in Followings /\ fol[f].todo \subseteq SeatsOf(f)
    BY DEF Seats, FollowersTyped
  <2>1. CASE Start(f)
    <3>1. FollowersTyped'
      BY <2>0, <2>1 DEF Start, FollowersTyped, Following, Followings, HistoryTyped
    <3>2. HistoryTyped'
      BY <2>1 DEF Start, HistoryTyped, Procs
    <3> QED
      BY <1>0, <2>1, <3>1, <3>2 DEF Start
  <2>2. CASE OpenSource(f)
    <3>1. FollowersTyped'
      BY <2>0, <2>2 DEF OpenSource, FollowersTyped, Followings, HistoryTyped
    <3> QED
      BY <1>0, <2>2, <3>1 DEF OpenSource
  <2>3. CASE RegisterRefused(f)
    <3>1. FollowersTyped'
      BY <2>3 DEF RegisterRefused, FollowersTyped, IdleFollower, Following, Followings
    <3> QED
      BY <1>0, <2>3, <3>1 DEF RegisterRefused
  <2>4. ASSUME NEW s \in SeatsOf(f), RegisterSeat(f, s) PROVE Parts'
    <3>1. FollowersTyped'
      <4>1. /\ clock \in 0 .. MaxClock
            /\ fol' = [fol EXCEPT ![f].todo = @ \ {s}, ![f].stamp = clock,
                                  ![f].at = IF fol[f].todo = {s} THEN "source" ELSE @]
            /\ DatabaseMoves /\ UNCHANGED signal
        BY <2>4 DEF RegisterSeat, HistoryTyped
      <4> QED
        BY <4>1 DEF DatabaseMoves, FollowersTyped, Followings
    <3>2. /\ s.id \in SeatIds /\ s.home \in HomesOf /\ Conf[f].to \in Destinations
          /\ s.ws \in {u.ws : u \in Seats}
      BY <2>0, ConfAssumption DEF SeatIds, HomesOf
    <3>3. NextEra(s.id) \in Nat
      BY DEF NextEra, SeatsTyped, Rows
    <3>4. PICK now \in fol[f].stamp .. clock :
             Put(s.id, [home |-> s.home, ws |-> s.ws, to |-> Conf[f].to, seen |-> now,
                        until |-> now + Lease, era |-> NextEra(s.id), silent |-> 0])
      BY <2>4 DEF RegisterSeat
    <3>5. now \in 0 .. MaxClock /\ now + Lease \in Nat
      BY <2>0, <3>4 DEF HistoryTyped, Followings
    <3>6. SeatsTyped'
      BY <3>2, <3>3, <3>4, <3>5 DEF Put, SeatsTyped, Rows
    <3> QED
      BY <1>0, <2>4, <3>1, <3>6 DEF RegisterSeat
  <2>5. ASSUME NEW s \in SeatsOf(f), Heartbeat(f, s) PROVE Parts'
    <3>1. FollowersTyped'
      BY <2>5 DEF Heartbeat, DatabaseMoves, FollowersTyped, Followings
    <3>2. fol[f].stamp \in 0 .. MaxClock
      BY <2>0 DEF Followings
    <3>3. [seats[s.id] EXCEPT !.seen = fol[f].stamp, !.silent = 0,
             !.until = fol[f].stamp + Lease, !.era = @ + 1] \in Rows
      BY <2>5, <3>2, RefreshedRow DEF Heartbeat, SeatsTyped
    <3>4. SeatsTyped'
      BY <2>5, <3>3 DEF Heartbeat, Put, SeatsTyped
    <3> QED
      BY <1>0, <2>5, <3>1, <3>4 DEF Heartbeat
  <2>6. CASE TickerFires(f)
    <3>1. FollowersTyped'
      BY <2>0, <2>6, TickMoves DEF TickerFires, FollowersTyped, Followings, HistoryTyped
    <3> QED
      BY <1>0, <2>6, <3>1 DEF TickerFires
  <2>7. CASE Poll(f) \/ Signaled(f)
    <3>1. FollowersTyped'
      BY <2>7 DEF Poll, Signaled, FollowersTyped, Followings
    <3> QED
      BY <1>0, <2>7, <3>1 DEF Poll, Signaled
  <2>8. CASE FollowerClaims(f)
    BY <1>0, <2>8 DEF FollowerClaims, Claim, Pending, QueueTyped, Claims, Procs
  <2>9. CASE Drained(f)
    <3>1. FollowersTyped'
      <4>1. (IF fol[f].tick = 0 THEN clock + HeartbeatEvery ELSE fol[f].tick) \in Nat
        BY <2>0 DEF HistoryTyped, Followings
      <4> QED
        BY <2>9, <4>1 DEF Drained, FollowersTyped, Followings
    <3> QED
      BY <1>0, <2>9, <3>1 DEF Drained
  <2> QED
    BY <1>3, <2>1, <2>2, <2>3, <2>4, <2>5, <2>6, <2>7, <2>8, <2>9 DEF FollowerStep
<1>4. ASSUME NEW k \in Ticks, TickStep(k) PROVE Parts'
  <2>0. tk[k] \in Tickings
    BY DEF TicksTyped
  <2>1. CASE TickStart(k)
    <3>1. TicksTyped'
      BY <2>1 DEF TickStart, Ticking, Tickings, TicksTyped, HistoryTyped
    <3>2. HistoryTyped'
      BY <2>1 DEF TickStart, HistoryTyped, Procs
    <3> QED
      BY <1>0, <2>1, <3>1, <3>2 DEF TickStart
  <2>2. CASE ReadSilentSeats(k)
    <3> DEFINE read == {[id |-> i, home |-> seats[i].home, seen |-> seats[i].seen,
                         era |-> seats[i].era, silent |-> seats[i].silent] :
                          i \in {j \in DOMAIN seats : TextAtMost(seats[j].until, tk[k].now)}}
    <3>1. read \in SUBSET Readings
      BY DEF Readings, SeatsTyped, Rows
    <3>2. tk' = [tk EXCEPT ![k].at = "silence", ![k].snap = read]
      BY <2>2 DEF ReadSilentSeats
    <3> HIDE DEF read
    <3>3. TicksTyped'
      BY <3>1, <3>2 DEF Tickings, TicksTyped
    <3> QED
      BY <1>0, <2>2, <3>3 DEF ReadSilentSeats
  <2>3. CASE SilenceDone(k)
    <3>1. TicksTyped'
      BY <2>3 DEF SilenceDone, Tickings, TicksTyped
    <3> QED
      BY <1>0, <2>3, <3>1 DEF SilenceDone
  <2>4. ASSUME NEW s \in tk[k].snap, SeatSkipped(k, s) PROVE Parts'
    <3>1. TicksTyped'
      BY <2>4 DEF SeatSkipped, Tickings, TicksTyped
    <3> QED
      BY <1>0, <2>4, <3>1 DEF SeatSkipped
  <2>5. ASSUME NEW s \in tk[k].snap, SeatSilent(k, s) PROVE Parts'
    <3>1. TicksTyped'
      BY <2>5 DEF SeatSilent, Tickings, TicksTyped
    <3>2. s \in Readings /\ tk[k].now \in 0 .. MaxClock
      BY <2>0 DEF Tickings
    <3>3. Silence(k, s) \in 1 .. MaxClock
      <4>1. tk[k].now - s.seen \in Int /\ tk[k].now - s.seen <= MaxClock
        BY <3>2 DEF Readings
      <4>2. Silence(k, s) \in Int /\ Silence(k, s) >= 1
        <5>1. Silence(k, s) \in Int
          BY <4>1, DivInt DEF Silence
        <5> QED
          BY <2>5, <5>1 DEF SeatSilent, NotDue
      <4>3. tk[k].now - s.seen \in Nat
        BY <4>1, <4>2, DivInt DEF Silence
      <4> QED
        BY <4>1, <4>2, <4>3, DivAtMost DEF Silence
    <3>4. SeatsTyped'
      <4>1. [seats[s.id] EXCEPT !.silent = Silence(k, s)] \in Rows
        <5>1. seats[s.id] \in Rows
          BY <2>5 DEF SeatSilent, StillSilent, SeatsTyped
        <5> QED
          BY <3>3, <5>1 DEF Rows
      <4> QED
        BY <2>5, <4>1 DEF SeatSilent, StillSilent, Put, SeatsTyped
    <3>5. QueueTyped'
      <4>1. [kind |-> "seat-silent", to |-> "captain", home |-> s.home, seat |-> s.id,
             era |-> s.era, silence |-> Silence(k, s)] \in Wakeups
        BY <3>2, <3>3 DEF Readings, Wakeups
      <4> QED
        BY <2>5, <4>1 DEF SeatSilent, QueueTyped
    <3> QED
      BY <1>0, <2>5, <3>1, <3>4, <3>5 DEF SeatSilent
  <2>6. CASE TickClaims(k)
    BY <1>0, <2>6 DEF TickClaims, Claim, TickPending, Pending, QueueTyped, Claims, Procs
  <2>7. CASE TickDrained(k)
    <3>1. TicksTyped'
      <4>1. (IF tk[k].dest = 3 THEN IdleTick ELSE [tk[k] EXCEPT !.dest = @ + 1]) \in Tickings
        BY <2>0 DEF IdleTick, Ticking, Tickings
      <4>2. PICK next \in Tickings : tk' = [tk EXCEPT ![k] = next]
        BY <2>7, <4>1 DEF TickDrained
      <4> QED
        BY <4>2 DEF TicksTyped
    <3> QED
      BY <1>0, <2>7, <3>1 DEF TickDrained
  <2> QED
    BY <1>4, <2>1, <2>2, <2>3, <2>4, <2>5, <2>6, <2>7 DEF TickStep
<1>5. ASSUME NEW p \in Procs, PrintLine(p) PROVE Parts'
  <2>1. QueueTyped'
    BY <1>5 DEF PrintLine, QueueTyped, Claims
  <2>2. HistoryTyped'
    BY <1>5 DEF PrintLine, QueueTyped, HistoryTyped, Claims
  <2> QED
    BY <1>0, <1>5, <2>1, <2>2 DEF PrintLine
<1>6. ASSUME NEW p \in Procs, Confirm(p) PROVE Parts'
  <2>1. QueueTyped'
    BY <1>6, ProcessAssumption DEF Confirm, NoTx, QueueTyped, Claims, ClaimIsPending, Procs
  <2> QED
    BY <1>0, <1>6, <2>1 DEF Confirm
<1>7. ASSUME NEW p \in Procs, EndsEarly(p) PROVE Parts'
  <2>1. FollowersTyped'
    BY <1>7 DEF EndsEarly, FollowersTyped, IdleFollower, Following, Followings
  <2>2. TicksTyped'
    BY <1>7 DEF EndsEarly, IdleTick, Ticking, Tickings, TicksTyped
  <2>3. QueueTyped' /\ HistoryTyped'
    BY <1>7 DEF EndsEarly, NoTx, Claims, QueueTyped, HistoryTyped
  <2> QED
    BY <1>0, <1>7, <2>1, <2>2, <2>3 DEF EndsEarly
<1>8. CASE UNCHANGED vars
  BY <1>0, <1>8 DEF vars
<1> QED
  BY <1>1, <1>2, <1>3, <1>4, <1>5, <1>6, <1>7, <1>8 DEF Next

(***************************************************************************)
(* What a step may do to the queue: nothing, queue one wakeup while no claim*)
(* is open, open a claim, print it, confirm it, or give it up.              *)
(***************************************************************************)
Queues == /\ LockFree /\ Len(rows) < MaxRows
          /\ \E w \in Wakeups : rows' = Append(rows, w)
          /\ UNCHANGED <<handled, lines, tx, ends>>
Opens(p) == /\ LockFree
            /\ \E g \in ToDrain(p) :
                  /\ \A h \in ToDrain(p) : g <= h
                  /\ tx' = [by |-> p, gen |-> g, stage |-> "claimed"]
            /\ UNCHANGED <<rows, handled, lines, ends>>

LEMMA QueueSteps ==
    TypeOK /\ QueueTyped' /\ [Next]_vars =>
        \/ UNCHANGED <<rows, handled, lines, tx, ends>>
        \/ Queues
        \/ \E p \in Procs : Opens(p) \/ PrintLine(p) \/ Confirm(p) \/ EndsEarly(p)
<1> SUFFICES ASSUME TypeOK, QueueTyped', [Next]_vars
             PROVE  \/ UNCHANGED <<rows, handled, lines, tx, ends>>
                    \/ Queues
                    \/ \E p \in Procs : Opens(p) \/ PrintLine(p) \/ Confirm(p) \/ EndsEarly(p)
  OBVIOUS
<1>1. ASSUME NEW h \in HomesOf, DocumentMirrored(h) PROVE Queues
  BY <1>1 DEF DocumentMirrored, Queues, Wakeups
<1>2. ASSUME NEW f \in Followers, FollowerClaims(f) PROVE Opens(f)
  BY <1>2 DEF FollowerClaims, Claim, Opens, ToDrain, Drains
<1>3. ASSUME NEW f \in Followers, FollowerStep(f), ~FollowerClaims(f)
      PROVE  UNCHANGED <<rows, handled, lines, tx, ends>>
  BY <1>3 DEF FollowerStep, Start, OpenSource, RegisterRefused, RegisterSeat, Heartbeat,
              TickerFires, Poll, Signaled, Drained
<1>4. ASSUME NEW k \in Ticks, NEW s \in tk[k].snap, SeatSilent(k, s) PROVE Queues
  <2>1. rows'[Len(rows) + 1] \in Wakeups
    BY <1>4 DEF SeatSilent, TypeOK, QueueTyped
  <2> QED
    BY <1>4, <2>1 DEF SeatSilent, Queues, TypeOK, QueueTyped
<1>5. ASSUME NEW k \in Ticks, TickClaims(k) PROVE Opens(k)
  BY <1>5, ProcessAssumption DEF TickClaims, Claim, TickPending, Opens, ToDrain, Drains
<1>6. ASSUME NEW k \in Ticks, TickStep(k), ~TickClaims(k),
             ~(\E s \in tk[k].snap : SeatSilent(k, s))
      PROVE  UNCHANGED <<rows, handled, lines, tx, ends>>
  BY <1>6 DEF TickStep, TickStart, ReadSilentSeats, SilenceDone, SeatSkipped, TickDrained
<1>7. CASE Passes \/ UNCHANGED vars
  BY <1>7 DEF Passes, vars
<1> QED
  BY <1>1, <1>2, <1>3, <1>4, <1>5, <1>6, <1>7 DEF Next, TickStep, Procs

(***************************************************************************)
(* A claim holds a row that is not handled until it is given up.            *)
(***************************************************************************)
LEMMA ClaimStep ==
    TypeOK /\ ClaimIsPending /\ [Next]_vars => ClaimIsPending'
<1> SUFFICES ASSUME TypeOK, ClaimIsPending, [Next]_vars PROVE ClaimIsPending'
  OBVIOUS
<1>0. QueueTyped'
  BY Typing DEF TypeOK, Parts
<1> USE ProcessAssumption DEF ClaimIsPending
<1>1. CASE UNCHANGED <<rows, handled, lines, tx, ends>>
  BY <1>1
<1>2. CASE Queues
  BY <1>2 DEF Queues, LockFree
<1>3. ASSUME NEW p \in Procs, Opens(p) PROVE ClaimIsPending'
  BY <1>3 DEF Opens, ToDrain, Pending
<1>4. ASSUME NEW p \in Procs, PrintLine(p) PROVE ClaimIsPending'
  BY <1>4 DEF PrintLine, TypeOK, QueueTyped, Claims
<1>5. ASSUME NEW p \in Procs, Confirm(p) \/ EndsEarly(p) PROVE ClaimIsPending'
  BY <1>5 DEF Confirm, EndsEarly, NoTx
<1> QED
  BY <1>0, <1>1, <1>2, <1>3, <1>4, <1>5, QueueSteps

(***************************************************************************)
(* A line is counted for its claim, its confirmation or the process that    *)
(* ended with it.                                                           *)
(***************************************************************************)
LEMMA CountStep ==
    TypeOK /\ ClaimIsPending /\ LinesCounted /\ [Next]_vars =>
        LinesTyped' /\ LinesCounted'
<1> SUFFICES ASSUME TypeOK, ClaimIsPending, LinesCounted, [Next]_vars
             PROVE  LinesTyped' /\ LinesCounted'
  OBVIOUS
<1> USE ProcessAssumption, BoundAssumption DEF LinesCounted, Printed
<1>t. QueueTyped'
  BY Typing DEF TypeOK, Parts
<1>0. ends \in 0 .. MaxEnds /\ lines \in [1 .. MaxRows -> 0 .. (MaxEnds + 1)] /\ tx \in Claims
  BY DEF TypeOK, HistoryTyped, LinesTyped, QueueTyped
<1>1. CASE UNCHANGED <<handled, lines, tx, ends>>
  BY <1>0, <1>1 DEF LinesTyped
<1>2. ASSUME NEW p \in Procs, Opens(p) PROVE LinesTyped' /\ LinesCounted'
  BY <1>0, <1>2 DEF Opens, LockFree, LinesTyped
<1>3. ASSUME NEW p \in Procs, PrintLine(p) PROVE LinesTyped' /\ LinesCounted'
  <2>1. tx.by # Nobody /\ tx.gen \in 1 .. MaxRows /\ tx.gen \notin handled
    BY <1>0, <1>3 DEF PrintLine, ClaimIsPending, TypeOK, QueueTyped, Procs
  <2>2. /\ lines' = [lines EXCEPT ![tx.gen] = @ + 1]
        /\ tx'.by = tx.by /\ tx'.gen = tx.gen /\ tx'.stage = "printed" /\ tx.stage = "claimed"
        /\ UNCHANGED <<handled, ends>>
    BY <1>0, <1>3 DEF PrintLine, Claims
  <2>3. lines[tx.gen] <= MaxEnds - ends
    BY <1>0, <2>1, <2>2
  <2>4. /\ lines[tx.gen] + 1 \in 0 .. (MaxEnds + 1) /\ lines'[tx.gen] = lines[tx.gen] + 1
        /\ \A g \in (1 .. MaxRows) \ {tx.gen} : lines'[g] = lines[g]
        /\ DOMAIN lines' = 1 .. MaxRows
    BY <1>0, <2>1, <2>2, <2>3
  <2>5. LinesTyped'
    BY <1>0, <2>1, <2>2, <2>4 DEF LinesTyped
  <2> QED
    BY <1>0, <2>1, <2>2, <2>4, <2>5
<1>4. ASSUME NEW p \in Procs, Confirm(p) PROVE LinesTyped' /\ LinesCounted'
  BY <1>0, <1>4 DEF Confirm, NoTx, LinesTyped, Procs
<1>5. ASSUME NEW p \in Procs, EndsEarly(p) PROVE LinesTyped' /\ LinesCounted'
  BY <1>0, <1>5 DEF EndsEarly, NoTx, LinesTyped
<1> QED
  BY <1>t, <1>1, <1>2, <1>3, <1>4, <1>5, QueueSteps DEF Queues

(***************************************************************************)
(* A process that does not move keeps its order, whatever the queue gains.  *)
(***************************************************************************)
Still(p) == At(p)' = At(p) /\ Drains(p)' = Drains(p) /\ last'[p] = last[p]
            /\ (p \in Ticks => tk'[p].dest = tk[p].dest)

LEMMA StillOrder ==
    ASSUME TypeOK, TypeOK', NEW p \in Procs, InOrder(p), Still(p),
           \/ UNCHANGED <<rows, handled, tx>>
           \/ Queues
           \/ \E q \in Procs \ {p} : Opens(q) \/ PrintLine(q) \/ Confirm(q) \/ EndsEarly(q)
    PROVE  InOrder(p)'
<1>1. Drains(p) \in Destinations /\ last[p] \in [Destinations -> 0 .. MaxRows]
  BY ConfAssumption DEF Drains, Destinations, DrainOrder, TypeOK, HistoryTyped, TicksTyped,
     Tickings, Procs
<1>2. rows \in Seq(Wakeups) /\ tx \in Claims /\ handled \subseteq DOMAIN rows
  BY DEF TypeOK, QueueTyped
<1>3. CASE UNCHANGED <<rows, handled, tx>>
  <2>1. ToDrain(p)' = ToDrain(p)
    BY <1>3 DEF Still, ToDrain, Pending
  <2> QED
    BY <1>3, <2>1 DEF InOrder, Still, Printed
<1>4. CASE Queues
  <2>1. tx.by # p /\ UNCHANGED tx
    BY <1>4, ProcessAssumption DEF Queues, LockFree, Procs
  <2>2. \A g \in ToDrain(p)' : g \in ToDrain(p) \/ g = Len(rows) + 1
    BY <1>2, <1>4 DEF Queues, Still, ToDrain, Pending
  <2>3. Len(rows') = Len(rows) + 1
    BY <1>2, <1>4 DEF Queues
  <2> QED
    BY <1>1, <1>2, <2>1, <2>2, <2>3 DEF InOrder, Still
<1>5. ASSUME NEW q \in Procs \ {p}, Opens(q) \/ PrintLine(q) \/ Confirm(q) \/ EndsEarly(q)
      PROVE  InOrder(p)'
  <2>1. rows' = rows /\ handled \subseteq handled'
    BY <1>5 DEF Opens, PrintLine, Confirm, EndsEarly
  <2>2. ToDrain(p)' \subseteq ToDrain(p)
    BY <2>1 DEF Still, ToDrain, Pending
  <2>3. (tx'.by = p => tx' = tx /\ handled' = handled) /\ (tx.by = p => tx' = tx)
    BY <1>2, <1>5, ProcessAssumption
    DEF Opens, PrintLine, Confirm, EndsEarly, LockFree, NoTx, Procs, Claims
  <2>4. handled' = handled => ToDrain(p)' = ToDrain(p)
    BY <2>1 DEF Still, ToDrain, Pending
  <2> QED
    BY <2>1, <2>2, <2>3, <2>4 DEF InOrder, Still, Printed
<1> QED
  BY <1>3, <1>4, <1>5

(***************************************************************************)
(* Every step keeps the order of every process.                             *)
(***************************************************************************)
LEMMA OrderStep ==
    ASSUME TypeOK, TypeOK', ClaimIsPending, NEW p \in Procs, InOrder(p), [Next]_vars
    PROVE  InOrder(p)'
<1> USE ProcessAssumption DEF Procs
<1>0. /\ Drains(p) \in Destinations /\ last[p] \in [Destinations -> 0 .. MaxRows]
      /\ rows \in Seq(Wakeups) /\ tx \in Claims
      /\ fol \in [Followers -> Followings] /\ tk \in [Ticks -> Tickings]
      /\ \A k \in Ticks : tk[k].dest \in 1 .. 3
  BY ConfAssumption DEF Drains, Destinations, DrainOrder, TypeOK, HistoryTyped, TicksTyped,
     FollowersTyped, Tickings, QueueTyped
<1>1. CASE Passes \/ UNCHANGED vars
  BY <1>1, StillOrder DEF Still, At, Drains, Passes, vars
<1>2. ASSUME NEW h \in HomesOf, DocumentMirrored(h) PROVE InOrder(p)'
  <2>1. Queues
    BY <1>2 DEF DocumentMirrored, Queues, Wakeups
  <2> QED
    BY <1>2, <2>1, StillOrder DEF Still, At, Drains, DocumentMirrored
<1>3. ASSUME NEW f \in Followers, FollowerStep(f), f # p PROVE InOrder(p)'
  <2>1. Still(p)
    <3>1. UNCHANGED tk /\ \A g \in Followers \ {f} : fol'[g] = fol[g]
      BY <1>0, <1>3 DEF FollowerStep, Start, OpenSource, RegisterRefused, RegisterSeat, Heartbeat,
         TickerFires, Poll, Signaled, Drained, FollowerClaims, Claim
    <3>2. last'[p] = last[p]
      BY <1>3 DEF FollowerStep, Start, OpenSource, RegisterRefused, RegisterSeat, Heartbeat,
         TickerFires, Poll, Signaled, Drained, FollowerClaims, Claim, TypeOK, HistoryTyped
    <3> QED
      BY <1>3, <3>1, <3>2 DEF Still, At, Drains
  <2>2. UNCHANGED <<rows, handled, tx>> \/ Opens(f)
    BY <1>3 DEF FollowerStep, Start, OpenSource, RegisterRefused, RegisterSeat, Heartbeat,
       TickerFires, Poll, Signaled, Drained, FollowerClaims, Claim, Opens, ToDrain, Drains
  <2> QED
    BY <1>3, <2>1, <2>2, StillOrder
<1>4. ASSUME NEW k \in Ticks, TickStep(k), k # p PROVE InOrder(p)'
  <2>1. Still(p)
    <3>1. UNCHANGED fol /\ \A j \in Ticks \ {k} : tk'[j] = tk[j]
      BY <1>0, <1>4 DEF TickStep, TickStart, ReadSilentSeats, SilenceDone, SeatSkipped, SeatSilent,
         TickDrained, TickClaims, Claim
    <3>2. last'[p] = last[p]
      BY <1>4 DEF TickStep, TickStart, ReadSilentSeats, SilenceDone, SeatSkipped, SeatSilent,
         TickDrained, TickClaims, Claim, TypeOK, HistoryTyped
    <3> QED
      BY <1>4, <3>1, <3>2 DEF Still, At, Drains
  <2>2. UNCHANGED <<rows, handled, tx>> \/ Queues \/ Opens(k)
    <3>1. CASE \E s \in tk[k].snap : SeatSilent(k, s)
      <4>1. rows'[Len(rows) + 1] \in Wakeups
        BY <1>0, <3>1 DEF SeatSilent, TypeOK, QueueTyped
      <4> QED
        BY <1>0, <3>1, <4>1 DEF SeatSilent, Queues
    <3>2. CASE TickClaims(k)
      BY <3>2 DEF TickClaims, Claim, TickPending, Opens, ToDrain, Drains
    <3> QED
      BY <1>4, <3>1, <3>2 DEF TickStep, TickStart, ReadSilentSeats, SilenceDone, SeatSkipped,
         TickDrained
  <2> QED
    BY <1>4, <2>1, <2>2, StillOrder
<1>5. ASSUME p \in Followers, FollowerStep(p) PROVE InOrder(p)'
  <2>1. CASE Start(p)
    <3>1. tx'.by # p /\ last'[p] = [d \in Destinations |-> 0] /\ rows' = rows
      BY <1>5, <2>1 DEF Start, InOrder, At, TypeOK, HistoryTyped
    <3>2. \A g \in ToDrain(p)' : g > 0
      BY <1>0, <3>1 DEF ToDrain, Pending
    <3>3. Drains(p)' = Drains(p)
      BY <1>5 DEF Drains
    <3> QED
      BY <1>0, <1>5, <3>1, <3>2, <3>3 DEF InOrder
  <2>2. ASSUME \/ OpenSource(p) \/ RegisterRefused(p) \/ TickerFires(p) \/ Poll(p)
               \/ Signaled(p) \/ Drained(p)
               \/ \E s \in SeatsOf(p) : RegisterSeat(p, s) \/ Heartbeat(p, s)
        PROVE  InOrder(p)'
    <3>1. /\ UNCHANGED <<rows, handled, tx, last>>
          /\ At(p)' = At(p) \/ (tx.by # p /\ At(p) # "idle")
      BY <1>0, <1>5, <2>2 DEF OpenSource, RegisterRefused, TickerFires, Poll, Signaled, Drained,
         RegisterSeat, Heartbeat, InOrder, At, LockFree
    <3>2. ToDrain(p)' = ToDrain(p) /\ Drains(p)' = Drains(p)
      BY <1>5, <3>1 DEF ToDrain, Pending, Drains
    <3> QED
      BY <1>5, <3>1, <3>2 DEF InOrder, Printed
  <2>3. CASE FollowerClaims(p)
    <3>1. /\ UNCHANGED <<rows, handled, last, fol>> /\ At(p) = "drain" /\ tx'.by = p
          /\ tx'.gen \in ToDrain(p) /\ \A g \in ToDrain(p) : tx'.gen <= g
          /\ tx.by # p
      BY <1>5, <2>3 DEF FollowerClaims, Claim, LockFree, ToDrain, Drains, At
    <3>2. ToDrain(p)' = ToDrain(p) /\ Drains(p)' = Drains(p) /\ At(p)' = At(p)
      BY <1>5, <3>1 DEF ToDrain, Pending, Drains, At
    <3> QED
      BY <1>5, <3>1, <3>2 DEF InOrder
  <2> QED
    BY <1>5, <2>1, <2>2, <2>3 DEF FollowerStep
<1>6. ASSUME p \in Ticks, TickStep(p) PROVE InOrder(p)'
  <2>1. CASE TickStart(p)
    <3>1. tx'.by # p /\ last'[p] = [d \in Destinations |-> 0] /\ rows' = rows
      BY <1>6, <2>1 DEF TickStart, InOrder, At, TypeOK, HistoryTyped
    <3>2. \A g \in ToDrain(p)' : g > 0
      BY <1>0, <3>1 DEF ToDrain, Pending
    <3>3. Drains(p)' \in Destinations
      BY <1>0, <1>6, <2>1 DEF TickStart, Drains, Ticking, DrainOrder, Destinations
    <3>4. \A i \in DOMAIN DrainOrder : DrainOrder[i] \in Destinations
      BY DEF DrainOrder, Destinations
    <3> QED
      BY <1>0, <1>6, <3>1, <3>2, <3>3, <3>4 DEF InOrder
  <2>2. CASE ReadSilentSeats(p) \/ SilenceDone(p) \/ \E s \in tk[p].snap : SeatSkipped(p, s)
    <3>1. /\ UNCHANGED <<rows, handled, tx, last>> /\ tk'[p].dest = tk[p].dest
          /\ tx.by # p /\ At(p) # "idle"
      BY <1>0, <1>6, <2>2 DEF ReadSilentSeats, SilenceDone, SeatSkipped, InOrder, At, Tickings
    <3>2. ToDrain(p)' = ToDrain(p) /\ Drains(p)' = Drains(p)
      BY <1>6, <3>1 DEF ToDrain, Pending, Drains
    <3> QED
      BY <1>6, <3>1, <3>2 DEF InOrder, Printed
  <2>3. ASSUME NEW s \in tk[p].snap, SeatSilent(p, s) PROVE InOrder(p)'
    <3>1. tk'[p].dest = tk[p].dest /\ At(p)' = At(p) /\ last' = last /\ UNCHANGED fol
      BY <1>0, <1>6, <2>3 DEF SeatSilent, At, Tickings
    <3>2. Queues
      <4>1. rows'[Len(rows) + 1] \in Wakeups
        BY <1>0, <2>3 DEF SeatSilent, TypeOK, QueueTyped
      <4> QED
        BY <1>0, <2>3, <4>1 DEF SeatSilent, Queues
    <3> QED
      BY <1>6, <3>1, <3>2, StillOrder DEF Still, Drains
  <2>4. CASE TickClaims(p)
    <3>1. /\ UNCHANGED <<rows, handled, last, tk>> /\ At(p) = "drain" /\ tx'.by = p
          /\ tx'.gen \in ToDrain(p) /\ \A g \in ToDrain(p) : tx'.gen <= g
          /\ tx.by # p
      BY <1>6, <2>4 DEF TickClaims, Claim, LockFree, TickPending, ToDrain, Drains, At
    <3>2. ToDrain(p)' = ToDrain(p) /\ Drains(p)' = Drains(p) /\ At(p)' = At(p)
      BY <1>6, <3>1 DEF ToDrain, Pending, Drains, At
    <3> QED
      BY <1>6, <3>1, <3>2 DEF InOrder
  <2>5. CASE TickDrained(p)
    <3>1. /\ UNCHANGED <<rows, handled, tx, last>> /\ tx.by # p /\ At(p) # "idle"
          /\ tk[p].dest \in 1 .. 3
          /\ At(p)' # "idle" => tk[p].dest # 3 /\ tk'[p].dest = tk[p].dest + 1
      BY <1>0, <1>6, <2>5 DEF TickDrained, LockFree, At, IdleTick, Ticking, Tickings
    <3>2. \A d \in Destinations : last'[p][d] <= Len(rows')
      BY <3>1 DEF InOrder
    <3>3. ASSUME At(p)' # "idle"
          PROVE  /\ last'[p][Drains(p)'] = 0
                 /\ \A i \in DOMAIN DrainOrder : i > tk'[p].dest => last'[p][DrainOrder[i]] = 0
      BY <1>6, <3>1, <3>3 DEF InOrder, Drains, DrainOrder
    <3>4. \A g \in ToDrain(p)' : g > 0
      BY <1>0, <3>1 DEF ToDrain, Pending
    <3> QED
      BY <3>1, <3>2, <3>3, <3>4 DEF InOrder
  <2> QED
    BY <1>6, <2>1, <2>2, <2>3, <2>4, <2>5 DEF TickStep
<1>7. ASSUME NEW q \in Procs, q # p, PrintLine(q) \/ Confirm(q) \/ EndsEarly(q)
      PROVE  InOrder(p)'
  <2>1. Still(p)
    BY <1>0, <1>7 DEF PrintLine, Confirm, EndsEarly, Still, At, Drains, TypeOK, HistoryTyped
  <2> QED
    BY <1>7, <2>1, StillOrder
<1>8. CASE PrintLine(p)
  <2>1. /\ tx.by = p /\ tx.stage = "claimed" /\ UNCHANGED <<rows, handled, fol, tk>>
        /\ tx'.by = p /\ tx'.gen = tx.gen /\ tx'.stage = "printed"
    BY <1>0, <1>8 DEF PrintLine, Claims
  <2>2. ToDrain(p)' = ToDrain(p) /\ Drains(p)' = Drains(p) /\ At(p)' = At(p)
    BY <2>1 DEF ToDrain, Pending, Drains, At
  <2>3. tx.gen \in ToDrain(p) /\ rows[tx.gen].to = Drains(p) /\ tx.gen <= Len(rows)
    BY <1>0, <2>1 DEF InOrder, ToDrain, Pending
  <2>4. /\ last'[p][Drains(p)] = tx.gen
        /\ \A d \in Destinations \ {Drains(p)} : last'[p][d] = last[p][d]
    BY <1>0, <1>8, <2>3 DEF PrintLine, TypeOK, HistoryTyped
  <2>5. \A g \in ToDrain(p) : g \in Nat /\ tx.gen <= g
    BY <1>0, <2>1 DEF InOrder, ToDrain, Pending
  <2>6. p \in Ticks => \A i \in DOMAIN DrainOrder : i > tk[p].dest =>
                          DrainOrder[i] \in Destinations \ {Drains(p)}
    BY <1>0 DEF Drains, DrainOrder, Destinations
  <2>7. \A d \in Destinations : last'[p][d] <= Len(rows)
    BY <2>3, <2>4 DEF InOrder
  <2>8. \A g \in ToDrain(p) : g > last'[p][Drains(p)] \/ Printed(g)'
    BY <1>0, <2>1, <2>4, <2>5 DEF Printed, Claims
  <2> QED
    BY <2>1, <2>2, <2>4, <2>5, <2>6, <2>7, <2>8 DEF InOrder
<1>9. CASE Confirm(p)
  <2>1. /\ UNCHANGED <<rows, fol, tk, last>> /\ tx'.by # p
        /\ tx.by = p /\ handled' = handled \cup {tx.gen}
    BY <1>0, <1>9 DEF Confirm, NoTx
  <2>2. ToDrain(p)' = ToDrain(p) \ {tx.gen} /\ Drains(p)' = Drains(p) /\ At(p)' = At(p)
    BY <2>1 DEF ToDrain, Pending, Drains, At
  <2> QED
    BY <2>1, <2>2 DEF InOrder, Printed
<1>10. CASE EndsEarly(p)
  <2>1. At(p)' = "idle" /\ tx'.by # p /\ UNCHANGED <<rows, last>>
    BY <1>0, <1>10 DEF EndsEarly, NoTx, IdleFollower, Following, IdleTick, Ticking, At
  <2> QED
    BY <2>1 DEF InOrder
<1> QED
  BY <1>1, <1>2, <1>3, <1>4, <1>5, <1>6, <1>7, <1>8, <1>9, <1>10 DEF Next

(***************************************************************************)
(* The delivery invariant holds in every state, for any followers, ticks,   *)
(* subscriptions and bounds.                                                *)
(***************************************************************************)
THEOREM Delivery == Spec => []DeliveryInv
<1>1. Init => DeliveryInv
  <2> SUFFICES ASSUME Init PROVE DeliveryInv
    OBVIOUS
  <2> USE BoundAssumption, ProcessAssumption DEF Init
  <2>1. SeatsTyped /\ QueueTyped
    BY DEF SeatsTyped, QueueTyped, Claims, NoTx
  <2>2. FollowersTyped /\ TicksTyped /\ LinesTyped /\ HistoryTyped
    BY DEF FollowersTyped, Followings, Following, IdleFollower, TicksTyped, Tickings, Ticking,
       IdleTick, LinesTyped, HistoryTyped
  <2>3. ClaimIsPending /\ LinesCounted
    BY DEF ClaimIsPending, LinesCounted, Printed, NoTx
  <2>4. ASSUME NEW p \in Procs PROVE InOrder(p)
    BY DEF InOrder, NoTx, At, IdleFollower, Following, IdleTick, Ticking, Procs
  <2> QED
    BY <2>1, <2>2, <2>3, <2>4 DEF DeliveryInv, TypeOK
<1>2. DeliveryInv /\ [Next]_vars => DeliveryInv'
  <2> SUFFICES ASSUME DeliveryInv, [Next]_vars PROVE DeliveryInv'
    OBVIOUS
  <2>1. TypeOK' /\ LinesCounted'
    BY Typing, CountStep DEF DeliveryInv, TypeOK, Parts
  <2>2. ClaimIsPending'
    BY ClaimStep DEF DeliveryInv
  <2>3. \A p \in Procs : InOrder(p)'
    BY <2>1, OrderStep DEF DeliveryInv
  <2> QED
    BY <2>1, <2>2, <2>3 DEF DeliveryInv, Procs
<1> QED
  BY <1>1, <1>2, PTL DEF Spec

(***************************************************************************)
(* A wakeup is printed once more than processes ended with it in their      *)
(* hands, whatever followers and ticks do at the same time.                 *)
(***************************************************************************)
THEOREM RepeatsAreExplained == Spec => []RepeatsExplained
<1>1. DeliveryInv => RepeatsExplained
  BY BoundAssumption
  DEF DeliveryInv, TypeOK, QueueTyped, HistoryTyped, LinesTyped, LinesCounted, RepeatsExplained
<1> QED
  BY <1>1, Delivery, PTL

(***************************************************************************)
(* One process prints the wakeups of a destination in generation order.     *)
(***************************************************************************)
THEOREM LinesComeInOrder == Spec => LinesInOrder
<1> DEFINE Ordered == \A p \in Procs, d \in Destinations :
                         last'[p][d] # last[p][d] /\ last'[p][d] # 0 => last'[p][d] > last[p][d]
<1>1. ASSUME DeliveryInv, DeliveryInv', [Next]_vars PROVE Ordered
  <2> SUFFICES ASSUME NEW p \in Procs, NEW d \in Destinations,
                      last'[p][d] # last[p][d], last'[p][d] # 0
               PROVE  last'[p][d] > last[p][d]
    OBVIOUS
  <2>0. last \in [Procs -> [Destinations -> 0 .. MaxRows]] /\ tx \in Claims
    BY <1>1 DEF DeliveryInv, TypeOK, HistoryTyped, QueueTyped
  <2>1. ASSUME NEW q \in Procs, PrintLine(q) PROVE last'[p][d] > last[p][d]
    <3>1. p = q /\ d = rows[tx.gen].to /\ last'[p][d] = tx.gen
      BY <2>0, <2>1 DEF PrintLine
    <3>2. /\ tx.by = p /\ At(p) = "drain" /\ tx.gen \in ToDrain(p) /\ ~Printed(tx.gen)
      BY <1>1, <2>1, <3>1 DEF PrintLine, DeliveryInv, InOrder, Printed
    <3>3. d = Drains(p)
      BY <3>1, <3>2 DEF ToDrain, Pending
    <3> QED
      BY <1>1, <3>1, <3>2, <3>3 DEF DeliveryInv, InOrder
  <2>2. ASSUME NEW f \in Followers, Start(f) \/ FollowerStep(f) PROVE FALSE
    BY <2>0, <2>2 DEF FollowerStep, Start, OpenSource, RegisterRefused, RegisterSeat, Heartbeat,
       TickerFires, Poll, Signaled, Drained, FollowerClaims, Claim, Procs
  <2>3. ASSUME NEW k \in Ticks, TickStep(k) PROVE FALSE
    BY <2>0, <2>3 DEF TickStep, TickStart, ReadSilentSeats, SilenceDone, SeatSkipped, SeatSilent,
       TickDrained, TickClaims, Claim, Procs
  <2> QED
    BY <1>1, <2>1, <2>2, <2>3 DEF Next, Passes, DocumentMirrored, Confirm, EndsEarly, vars
<1>2. DeliveryInv /\ DeliveryInv' /\ [Next]_vars => [Ordered]_vars
  BY <1>1
<1> QED
  BY <1>2, Delivery, PTL DEF LinesInOrder, Spec

(***************************************************************************)
(* Followers, ticks and Scribe together implement the queue: every wakeup   *)
(* is printed before it is confirmed and never again after, whoever fails   *)
(* in between.                                                              *)
(***************************************************************************)
THEOREM QueueImplemented == Spec => ImplementsQueue
<1>1. Init => Q!Init
  BY DEF Init, Q!Init, Q!Generations
<1>2. ASSUME DeliveryInv, DeliveryInv', [Next]_vars PROVE [Q!Next]_(Q!vars)
  <2>0. TypeOK /\ QueueTyped' /\ rows \in Seq(Wakeups) /\ Len(rows) <= MaxRows
    BY <1>2 DEF DeliveryInv, TypeOK, QueueTyped
  <2>1. CASE UNCHANGED <<rows, handled, lines>>
    BY <2>1 DEF Q!vars
  <2>2. CASE Queues
    <3>1. Q!Add
      BY <2>0, <2>2 DEF Queues, Q!Add
    <3> QED
      BY <3>1 DEF Q!Next
  <2>3. ASSUME NEW p \in Procs, PrintLine(p) \/ Confirm(p) PROVE Q!Next
    <3>1. tx.by # Nobody /\ tx.gen \in DOMAIN rows \ handled /\ tx.gen \in 1 .. MaxRows
      BY <1>2, <2>0, <2>3, ProcessAssumption, BoundAssumption
      DEF PrintLine, Confirm, DeliveryInv, ClaimIsPending, Procs
    <3>2. PrintLine(p) => Q!WriteLine(tx.gen)
      BY <3>1 DEF PrintLine, Q!WriteLine
    <3>3. Confirm(p) => Q!Confirm(tx.gen)
      BY <1>2, <3>1 DEF Confirm, Q!Confirm, DeliveryInv, LinesCounted, Printed
    <3> QED
      BY <2>3, <3>1, <3>2, <3>3 DEF Q!Next, Q!Generations
  <2>4. ASSUME NEW p \in Procs, Opens(p) \/ EndsEarly(p)
        PROVE  UNCHANGED <<rows, handled, lines>>
    BY <2>4 DEF Opens, EndsEarly
  <2> QED
    BY <1>2, <2>0, <2>1, <2>2, <2>3, <2>4, QueueSteps
<1>3. DeliveryInv /\ DeliveryInv' /\ [Next]_vars => [Q!Next]_(Q!vars)
  BY <1>2
<1> QED
  BY <1>1, <1>3, Delivery, PTL DEF ImplementsQueue, Q!Spec, Spec
-----------------------------------------------------------------------------
(***************************************************************************)
(* Leases and silences of subscription seats.  The cutoff of tick is        *)
(* compared as text: what it shows of the clock is exact when the clock has *)
(* no fractions of a second (PerSecond = 1), and true to the second         *)
(* otherwise.                                                               *)
(***************************************************************************)

(***************************************************************************)
(* What a step may do to the seats.                                         *)
(***************************************************************************)
SeatWritten ==
    \/ \E f \in Followers : \E s \in SeatsOf(f) : RegisterSeat(f, s) \/ Heartbeat(f, s)
    \/ \E k \in Ticks : \E s \in tk[k].snap : SeatSilent(k, s)

LEMMA SeatSteps == [Next]_vars => UNCHANGED seats \/ SeatWritten
<1>1. ASSUME NEW f \in Followers, FollowerStep(f) PROVE UNCHANGED seats \/ SeatWritten
  BY <1>1
  DEF SeatWritten, FollowerStep, Start, OpenSource, RegisterRefused, TickerFires, Poll, Signaled,
      FollowerClaims, Claim, Drained
<1>2. ASSUME NEW k \in Ticks, TickStep(k) PROVE UNCHANGED seats \/ SeatWritten
  BY <1>2
  DEF SeatWritten, TickStep, TickStart, ReadSilentSeats, SilenceDone, SeatSkipped, TickClaims, Claim,
      TickDrained
<1>3. ASSUME NEW p \in Procs, PrintLine(p) \/ Confirm(p) \/ EndsEarly(p) PROVE UNCHANGED seats
  BY <1>3 DEF PrintLine, Confirm, EndsEarly
<1> QED
  BY <1>1, <1>2, <1>3 DEF Next, vars, Passes, DocumentMirrored

LEMMA RowSteps ==
    [Next]_vars =>
        \/ UNCHANGED rows
        \/ \E h \in HomesOf : DocumentMirrored(h)
        \/ \E k \in Ticks : \E s \in tk[k].snap : SeatSilent(k, s)
<1>1. ASSUME NEW f \in Followers, FollowerStep(f) PROVE UNCHANGED rows
  BY <1>1
  DEF RegisterSeat, Heartbeat, FollowerStep, Start, OpenSource, RegisterRefused, TickerFires, Poll, Signaled,
      FollowerClaims, Claim, Drained
<1>2. ASSUME NEW k \in Ticks, TickStep(k)
      PROVE  UNCHANGED rows \/ \E s \in tk[k].snap : SeatSilent(k, s)
  BY <1>2
  DEF TickStep, TickStart, ReadSilentSeats, SilenceDone, SeatSkipped, TickClaims, Claim,
      TickDrained
<1>3. ASSUME NEW p \in Procs, PrintLine(p) \/ Confirm(p) \/ EndsEarly(p) PROVE UNCHANGED rows
  BY <1>3 DEF PrintLine, Confirm, EndsEarly
<1> QED
  BY <1>1, <1>2, <1>3 DEF Next, vars, Passes

LEMMA SeatWriteIsLocked == SeatWritten => LockFree /\ UNCHANGED <<tx, clock>>
BY DEF SeatWritten, RegisterSeat, Heartbeat, SeatSilent

LEMMA ClockSteps == [Next]_vars => Passes \/ UNCHANGED clock
<1>1. ASSUME NEW f \in Followers, FollowerStep(f) PROVE UNCHANGED clock
  BY <1>1
  DEF RegisterSeat, Heartbeat, FollowerStep, Start, OpenSource, RegisterRefused, TickerFires, Poll, Signaled,
      FollowerClaims, Claim, Drained
<1>2. ASSUME NEW k \in Ticks, TickStep(k) PROVE UNCHANGED clock
  BY <1>2
  DEF SeatSilent, TickStep, TickStart, ReadSilentSeats, SilenceDone, SeatSkipped, TickClaims, Claim,
      TickDrained
<1>3. ASSUME NEW p \in Procs, PrintLine(p) \/ Confirm(p) \/ EndsEarly(p) PROVE UNCHANGED clock
  BY <1>3 DEF PrintLine, Confirm, EndsEarly
<1> QED
  BY <1>1, <1>2, <1>3 DEF Next, vars, DocumentMirrored

(***************************************************************************)
(* What a step may do to a follower: one of them moves, by a step of its    *)
(* own or by ending; and to a tick, likewise.                               *)
(***************************************************************************)
LEMMA FollowersMove ==
    TypeOK /\ [Next]_vars =>
        \/ UNCHANGED fol
        \/ \E f \in Followers : /\ FollowerStep(f) \/ fol'[f] = IdleFollower
                               /\ \A g \in Followers \ {f} : fol'[g] = fol[g]
<1> SUFFICES ASSUME TypeOK, [Next]_vars
             PROVE  \/ UNCHANGED fol
                    \/ \E f \in Followers : /\ FollowerStep(f) \/ fol'[f] = IdleFollower
                                           /\ \A g \in Followers \ {f} : fol'[g] = fol[g]
  OBVIOUS
<1>0. fol \in [Followers -> Followings]
  BY DEF TypeOK, FollowersTyped
<1>1. ASSUME NEW f \in Followers, FollowerStep(f)
      PROVE  \A g \in Followers \ {f} : fol'[g] = fol[g]
  BY <1>0, <1>1
  DEF FollowerStep, Start, OpenSource, RegisterRefused, RegisterSeat, Heartbeat, TickerFires,
      Poll, Signaled, FollowerClaims, Claim, Drained
<1>2. ASSUME NEW p \in Procs, EndsEarly(p)
      PROVE  UNCHANGED fol \/ /\ p \in Followers /\ fol'[p] = IdleFollower
                              /\ \A g \in Followers \ {p} : fol'[g] = fol[g]
  BY <1>0, <1>2 DEF EndsEarly
<1>3. ASSUME NEW k \in Ticks, TickStep(k) PROVE UNCHANGED fol
  BY <1>3 DEF TickStep, TickStart, ReadSilentSeats, SilenceDone, SeatSkipped, SeatSilent,
     TickClaims, Claim, TickDrained
<1> QED
  BY <1>1, <1>2, <1>3 DEF Next, vars, Passes, DocumentMirrored, PrintLine, Confirm

LEMMA TicksMove ==
    TypeOK /\ [Next]_vars =>
        \/ UNCHANGED tk
        \/ \E k \in Ticks : /\ TickStep(k) \/ tk'[k] = IdleTick
                           /\ \A j \in Ticks \ {k} : tk'[j] = tk[j]
<1> SUFFICES ASSUME TypeOK, [Next]_vars
             PROVE  \/ UNCHANGED tk
                    \/ \E k \in Ticks : /\ TickStep(k) \/ tk'[k] = IdleTick
                                       /\ \A j \in Ticks \ {k} : tk'[j] = tk[j]
  OBVIOUS
<1>0. tk \in [Ticks -> Tickings]
  BY DEF TypeOK, TicksTyped
<1>1. ASSUME NEW k \in Ticks, TickStep(k) PROVE \A j \in Ticks \ {k} : tk'[j] = tk[j]
  BY <1>0, <1>1
  DEF TickStep, TickStart, ReadSilentSeats, SilenceDone, SeatSkipped, SeatSilent, TickClaims,
      Claim, TickDrained
<1>2. ASSUME NEW p \in Procs, EndsEarly(p)
      PROVE  UNCHANGED tk \/ /\ p \in Ticks /\ tk'[p] = IdleTick
                             /\ \A j \in Ticks \ {p} : tk'[j] = tk[j]
  BY <1>0, <1>2 DEF EndsEarly, Procs
<1>3. ASSUME NEW f \in Followers, FollowerStep(f) PROVE UNCHANGED tk
  BY <1>3 DEF FollowerStep, Start, OpenSource, RegisterRefused, RegisterSeat, Heartbeat,
     TickerFires, Poll, Signaled, FollowerClaims, Claim, Drained
<1> QED
  BY <1>1, <1>2, <1>3 DEF Next, vars, Passes, DocumentMirrored, PrintLine, Confirm

(***************************************************************************)
(* Put writes one row and keeps the others.                                 *)
(***************************************************************************)
LEMMA PutRow ==
    ASSUME NEW id, NEW row, Put(id, row)
    PROVE  /\ DOMAIN seats' = DOMAIN seats \cup {id} /\ seats'[id] = row
           /\ \A i \in DOMAIN seats \ {id} : seats'[i] = seats[i]
BY DEF Put

(***************************************************************************)
(* An earlier text is an earlier second; without fractions, no later time.  *)
(***************************************************************************)
LEMMA TextIsSecond ==
    \A t, u \in Nat : TextAtMost(t, u) => Second(t) <= Second(u)
BY DurationAssumption DEF TextAtMost, Second

LEMMA SecondsGrow ==
    \A t, u \in Nat : t <= u => Second(t) <= Second(u)
BY DurationAssumption DEF Second

LEMMA WholeSeconds ==
    ASSUME PerSecond = 1
    PROVE  \A t \in Nat : Second(t) = t
BY DEF Second

(***************************************************************************)
(* No stamp is of the future.                                               *)
(***************************************************************************)
LEMMA PastStep ==
    TypeOK /\ TypeOK' /\ StampsArePast /\ [Next]_vars => StampsArePast'
<1> SUFFICES ASSUME TypeOK, TypeOK', StampsArePast, [Next]_vars PROVE StampsArePast'
  OBVIOUS
<1>1. clock \in Nat /\ clock' \in Nat /\ clock <= clock'
  <2>1. clock \in Nat /\ clock' \in Nat
    BY BoundAssumption DEF TypeOK, HistoryTyped
  <2>2. clock' = clock \/ clock' = clock + 1
    BY ClockSteps DEF Passes
  <2> QED
    BY <2>1, <2>2
<1>2. \A i \in DOMAIN seats' : seats'[i].until <= clock' + Lease
  <2>0. /\ \A i \in DOMAIN seats : seats[i] \in Rows /\ seats[i].until \in Nat
        /\ \A i \in DOMAIN seats : seats[i].until <= clock + Lease
    BY DurationAssumption, BoundAssumption DEF TypeOK, SeatsTyped, Rows, StampsArePast
  <2>1. CASE UNCHANGED seats
    BY <1>1, <2>0, <2>1, DurationAssumption
  <2>2. ASSUME NEW f \in Followers, NEW s \in SeatsOf(f), RegisterSeat(f, s)
        PROVE  \A i \in DOMAIN seats' : seats'[i].until <= clock' + Lease
    BY <1>1, <2>0, <2>2, DurationAssumption DEF RegisterSeat, Put
  <2>3. ASSUME NEW f \in Followers, NEW s \in SeatsOf(f), Heartbeat(f, s)
        PROVE  \A i \in DOMAIN seats' : seats'[i].until <= clock' + Lease
    <3>1. fol[f].stamp \in Nat /\ fol[f].stamp <= clock
      BY BoundAssumption DEF TypeOK, FollowersTyped, Followings, StampsArePast
    <3>2. DOMAIN seats' = DOMAIN seats /\ seats'[s.id].until = fol[f].stamp + Lease
      BY <2>0, <2>3 DEF Heartbeat, Put, Rows
    <3>3. \A i \in DOMAIN seats \ {s.id} : seats'[i] = seats[i]
      BY <2>3, PutRow DEF Heartbeat
    <3> QED
      BY <1>1, <2>0, <3>1, <3>2, <3>3, DurationAssumption
  <2>4. ASSUME NEW k \in Ticks, NEW s \in tk[k].snap, SeatSilent(k, s)
        PROVE  \A i \in DOMAIN seats' : seats'[i].until <= clock' + Lease
    <3>1. /\ DOMAIN seats' = DOMAIN seats
          /\ \A i \in DOMAIN seats : seats'[i].until = seats[i].until
      BY <2>0, <2>4 DEF SeatSilent, StillSilent, Put, Rows
    <3> QED
      BY <1>1, <2>0, <3>1, DurationAssumption
  <2> QED
    BY <2>1, <2>2, <2>3, <2>4, SeatSteps DEF SeatWritten
<1>3. \A f \in Followers : fol'[f].stamp <= clock'
  <2>0. /\ fol \in [Followers -> Followings]
        /\ \A f \in Followers : fol[f].stamp \in Nat /\ fol[f].stamp <= clock
    BY BoundAssumption DEF TypeOK, FollowersTyped, Followings, StampsArePast
  <2>1. ASSUME NEW f \in Followers, FollowerStep(f) PROVE fol'[f].stamp <= clock'
    <3>1. CASE Start(f) \/ RegisterRefused(f)
      BY <1>1, <2>0, <3>1 DEF Start, RegisterRefused, IdleFollower, Following
    <3>2. CASE OpenSource(f) \/ TickerFires(f)
      BY <1>1, <2>0, <3>2 DEF OpenSource, TickerFires, Followings
    <3>3. CASE Poll(f) \/ Signaled(f) \/ FollowerClaims(f) \/ Drained(f)
      <4>1. fol'[f].stamp = fol[f].stamp
        BY <2>0, <3>3 DEF Poll, Signaled, FollowerClaims, Claim, Drained, Followings
      <4> QED
        BY <1>1, <2>0, <4>1
    <3>4. ASSUME NEW s \in SeatsOf(f), RegisterSeat(f, s) \/ Heartbeat(f, s)
          PROVE  fol'[f].stamp <= clock'
      <4>1. fol'[f].stamp = fol[f].stamp
        BY <2>0, <3>4 DEF RegisterSeat, Heartbeat, Followings
      <4> QED
        BY <1>1, <2>0, <4>1
    <3> QED
      BY <2>1, <3>1, <3>2, <3>3, <3>4 DEF FollowerStep
  <2>2. IdleFollower.stamp <= clock'
    BY <1>1 DEF IdleFollower, Following
  <2> QED
    BY <1>1, <2>0, <2>1, <2>2, FollowersMove
<1>4. \A k \in Ticks : tk'[k].now <= clock'
  <2>0. /\ tk \in [Ticks -> Tickings]
        /\ \A k \in Ticks : tk[k].now \in Nat /\ tk[k].now <= clock
    BY BoundAssumption DEF TypeOK, TicksTyped, Tickings, StampsArePast
  <2>1. ASSUME NEW k \in Ticks, TickStep(k) PROVE tk'[k].now <= clock'
    <3>1. CASE TickStart(k) \/ TickDrained(k)
      BY <1>1, <2>0, <3>1 DEF TickStart, TickDrained, IdleTick, Ticking, Tickings
    <3>2. CASE ReadSilentSeats(k) \/ SilenceDone(k) \/ TickClaims(k)
      <4>1. tk'[k].now = tk[k].now
        BY <2>0, <3>2 DEF ReadSilentSeats, SilenceDone, TickClaims, Claim, Tickings
      <4> QED
        BY <1>1, <2>0, <4>1
    <3>3. ASSUME NEW s \in tk[k].snap, SeatSkipped(k, s) \/ SeatSilent(k, s)
          PROVE  tk'[k].now <= clock'
      <4>1. tk'[k].now = tk[k].now
        BY <2>0, <3>3 DEF SeatSkipped, SeatSilent, Tickings
      <4> QED
        BY <1>1, <2>0, <4>1
    <3> QED
      BY <2>1, <3>1, <3>2, <3>3 DEF TickStep
  <2>2. IdleTick.now <= clock'
    BY <1>1 DEF IdleTick, Ticking
  <2> QED
    BY <1>1, <2>0, <2>1, <2>2, TicksMove
<1> QED
  BY <1>2, <1>3, <1>4 DEF StampsArePast

(***************************************************************************)
(* While a tick holds a claim, no seat is written, and the tick does not    *)
(* read the time again.                                                     *)
(***************************************************************************)
LEMMA OrphansStep ==
    DeliveryInv /\ DeliveryInv' /\ ClaimOfOrphans /\ [Next]_vars => ClaimOfOrphans'
<1> SUFFICES ASSUME DeliveryInv, DeliveryInv', ClaimOfOrphans, [Next]_vars, tx'.by \in Ticks
             PROVE  Orphaned(rows[tx.gen].to, tk[tx.by].now)'
  BY DEF ClaimOfOrphans
<1> USE ProcessAssumption
<1>0. /\ TypeOK /\ QueueTyped' /\ tx \in Claims /\ rows \in Seq(Wakeups)
      /\ tk \in [Ticks -> Tickings]
  BY DEF DeliveryInv, TypeOK, QueueTyped, TicksTyped
<1>1. CASE tx.by = Nobody
  <2>1. PICK k \in Ticks : TickClaims(k)
    <3>1. ASSUME NEW f \in Followers, FollowerStep(f) PROVE tx' = tx \/ tx'.by = f
      <4>1. CASE FollowerClaims(f)
        BY <4>1 DEF FollowerClaims, Claim
      <4> QED
        BY <3>1, <4>1
        DEF FollowerStep, Start, OpenSource, RegisterRefused, RegisterSeat, Heartbeat, TickerFires,
            Poll, Signaled, Drained
    <3>2. ASSUME NEW k \in Ticks, TickStep(k) PROVE tx' = tx \/ TickClaims(k)
      BY <3>2 DEF TickStep, TickStart, ReadSilentSeats, SilenceDone, SeatSkipped, SeatSilent,
         TickDrained
    <3>3. ASSUME NEW p \in Procs, PrintLine(p) \/ Confirm(p) \/ EndsEarly(p) PROVE tx' = tx
      BY <1>1, <3>3 DEF PrintLine, Confirm, EndsEarly, Procs
    <3>4. CASE Passes \/ UNCHANGED vars \/ \E h \in HomesOf : DocumentMirrored(h)
      BY <1>0, <1>1, <3>4 DEF Passes, vars, DocumentMirrored
    <3> QED
      BY <1>0, <1>1, <3>1, <3>2, <3>3, <3>4 DEF Next
  <2>2. PICK g \in TickPending(k) : tx' = [by |-> k, gen |-> g, stage |-> "claimed"]
    BY <2>1 DEF TickClaims, Claim
  <2>3. /\ Orphaned(DrainOrder[tk[k].dest], tk[k].now) /\ rows[g].to = DrainOrder[tk[k].dest]
        /\ UNCHANGED <<rows, tk, seats>> /\ tx'.by = k /\ tx'.gen = g
    BY <2>1, <2>2 DEF TickClaims, Claim, TickPending, Pending
  <2> QED
    BY <2>3 DEF Orphaned
<1>2. CASE tx.by # Nobody
  <2>1. tx'.by = tx.by /\ tx'.gen = tx.gen /\ rows' = rows /\ UNCHANGED seats
    <3>1. UNCHANGED seats
      BY <1>2, SeatSteps, SeatWriteIsLocked DEF LockFree
    <3>2. UNCHANGED <<rows, tx>> \/ \E p \in Procs : PrintLine(p) \/ Confirm(p) \/ EndsEarly(p)
      BY <1>0, <1>2, QueueSteps DEF Queues, Opens, LockFree
    <3> QED
      BY <1>0, <3>1, <3>2 DEF PrintLine, Confirm, EndsEarly, NoTx, Claims
  <2>2. At(tx.by) = "drain" /\ tk[tx.by].at = "drain"
    BY <1>0, <1>2, <2>1 DEF DeliveryInv, InOrder, At, Procs
  <2>3. tk'[tx.by].now = tk[tx.by].now
    <3>1. CASE \E p \in Procs : EndsEarly(p)
      BY <1>0, <1>2, <2>1, <3>1 DEF EndsEarly, NoTx, Procs
    <3>2. ASSUME NEW k \in Ticks, TickStep(k) PROVE k # tx.by /\ tk'[tx.by] = tk[tx.by]
      BY <1>0, <1>2, <2>1, <2>2, <3>2
      DEF TickStep, TickStart, ReadSilentSeats, SilenceDone, SeatSkipped, SeatSilent, TickClaims,
          Claim, TickDrained, LockFree
    <3>3. ASSUME NEW f \in Followers, FollowerStep(f) PROVE UNCHANGED tk
      BY <3>3
      DEF FollowerStep, Start, OpenSource, RegisterRefused, RegisterSeat, Heartbeat, TickerFires,
          Poll, Signaled, FollowerClaims, Claim, Drained
    <3> QED
      BY <3>1, <3>2, <3>3 DEF Next, vars, Passes, DocumentMirrored, PrintLine, Confirm
  <2> QED
    BY <1>2, <2>1, <2>3 DEF ClaimOfOrphans, Orphaned
<1> QED
  BY <1>1, <1>2

(***************************************************************************)
(* A reported silence stays recorded until its seat is refreshed, and the   *)
(* next report of the seat is of another era or a higher silence.           *)
(***************************************************************************)
LEMMA SilenceStep ==
    TypeOK /\ TypeOK' /\ SilencesRecorded /\ SilenceReportedOnce /\ [Next]_vars =>
        SilencesRecorded' /\ SilenceReportedOnce'
<1> SUFFICES ASSUME TypeOK, TypeOK', SilencesRecorded, SilenceReportedOnce, [Next]_vars
             PROVE  SilencesRecorded' /\ SilenceReportedOnce'
  OBVIOUS
<1>0. /\ rows \in Seq(Wakeups) /\ QueueTyped'
      /\ \A i \in DOMAIN seats : seats[i] \in Rows /\ seats[i].era \in Nat /\ seats[i].silent \in Nat
      /\ \A g \in DOMAIN rows : rows[g].kind = "seat-silent" =>
            rows[g].era \in Nat /\ rows[g].silence \in Nat
  BY BoundAssumption DEF TypeOK, QueueTyped, SeatsTyped, Rows, Wakeups
<1>1. CASE UNCHANGED <<rows, seats>>
  BY <1>1 DEF SilencesRecorded, SilenceReportedOnce
<1>2. ASSUME NEW h \in HomesOf, DocumentMirrored(h)
      PROVE  SilencesRecorded' /\ SilenceReportedOnce'
  <2>1. /\ UNCHANGED seats /\ DOMAIN rows' = DOMAIN rows \cup {Len(rows) + 1}
        /\ rows'[Len(rows) + 1].kind = "document-mirrored"
        /\ \A g \in DOMAIN rows : rows'[g] = rows[g]
    BY <1>0, <1>2 DEF DocumentMirrored
  <2> QED
    BY <2>1 DEF SilencesRecorded, SilenceReportedOnce
<1>3. ASSUME NEW f \in Followers, NEW s \in SeatsOf(f), RegisterSeat(f, s) \/ Heartbeat(f, s)
      PROVE  SilencesRecorded' /\ SilenceReportedOnce'
  <2>1. rows' = rows /\ DOMAIN seats \subseteq DOMAIN seats'
    BY <1>3 DEF RegisterSeat, Heartbeat, Put
  <2>2. \A i \in DOMAIN seats : seats'[i] = seats[i] \/ seats'[i].era = seats[i].era + 1
    <3>1. CASE RegisterSeat(f, s)
      BY <1>0, <3>1 DEF RegisterSeat, Put, NextEra
    <3>2. CASE Heartbeat(f, s)
      BY <1>0, <3>2 DEF Heartbeat, Put, Rows
    <3> QED
      BY <1>3, <3>1, <3>2
  <2> QED
    BY <1>0, <2>1, <2>2 DEF SilencesRecorded, SilenceReportedOnce
<1>4. ASSUME NEW k \in Ticks, NEW s \in tk[k].snap, SeatSilent(k, s)
      PROVE  SilencesRecorded' /\ SilenceReportedOnce'
  <2>1. /\ s.id \in DOMAIN seats /\ seats[s.id].era = s.era
        /\ seats[s.id].silent < Silence(k, s)
    BY <1>4 DEF SeatSilent, StillSilent
  <2>2. /\ DOMAIN seats' = DOMAIN seats /\ seats'[s.id].era = s.era
        /\ seats'[s.id].silent = Silence(k, s)
        /\ \A i \in DOMAIN seats \ {s.id} : seats'[i] = seats[i]
    BY <1>0, <1>4, <2>1 DEF SeatSilent, Put, Rows
  <2>3. /\ DOMAIN rows' = DOMAIN rows \cup {Len(rows) + 1} /\ Len(rows) + 1 \notin DOMAIN rows
        /\ rows'[Len(rows) + 1] = [kind |-> "seat-silent", to |-> "captain", home |-> s.home,
                                   seat |-> s.id, era |-> s.era, silence |-> Silence(k, s)]
        /\ \A g \in DOMAIN rows : rows'[g] = rows[g]
    BY <1>0, <1>4 DEF SeatSilent
  <2>4. Silence(k, s) \in Nat
    BY <1>0, <2>3, BoundAssumption DEF QueueTyped, Wakeups
  <2>5. SilencesRecorded'
    <3>1. \A g \in DOMAIN rows : rows[g].kind = "seat-silent" =>
            \/ seats'[rows[g].seat].era > rows[g].era
            \/ /\ seats'[rows[g].seat].era = rows[g].era
               /\ seats'[rows[g].seat].silent >= rows[g].silence
      BY <1>0, <2>1, <2>2, <2>4 DEF SilencesRecorded
    <3> QED
      BY <2>1, <2>2, <2>3, <2>4, <3>1 DEF SilencesRecorded
  <2>6. \A g \in DOMAIN rows : rows[g] # rows'[Len(rows) + 1]
    <3> SUFFICES ASSUME NEW g \in DOMAIN rows, rows[g] = rows'[Len(rows) + 1] PROVE FALSE
      OBVIOUS
    <3>1. /\ rows[g].kind = "seat-silent" /\ rows[g].seat = s.id /\ rows[g].era = s.era
          /\ rows[g].silence = Silence(k, s)
      BY <2>3
    <3> QED
      BY <1>0, <2>1, <2>4, <3>1 DEF SilencesRecorded
  <2>7. SilenceReportedOnce'
    BY <2>3, <2>6 DEF SilenceReportedOnce
  <2> QED
    BY <2>5, <2>7
<1> QED
  BY <1>1, <1>2, <1>3, <1>4, SeatSteps, RowSteps DEF SeatWritten

(***************************************************************************)
(* Stamps, claims of ticks and reported silences stay consistent for any    *)
(* number of followers and ticks.                                           *)
(***************************************************************************)
THEOREM Silences == Spec => []SilenceInv
<1>1. Init /\ DeliveryInv => SilenceInv
  BY DurationAssumption, ProcessAssumption
  DEF Init, SilenceInv, StampsArePast, ClaimOfOrphans, SilencesRecorded, SilenceReportedOnce,
      IdleFollower, Following, IdleTick, Ticking, NoTx
<1>2. DeliveryInv /\ DeliveryInv' /\ SilenceInv /\ [Next]_vars => SilenceInv'
  BY PastStep, OrphansStep, SilenceStep DEF SilenceInv, DeliveryInv
<1> QED
  BY <1>1, <1>2, Delivery, PTL DEF Spec

(***************************************************************************)
(* Each silence of a seat is reported once, however many ticks run at once. *)
(***************************************************************************)
THEOREM SilencesReportedOnce == Spec => []SilenceReportedOnce
<1>1. SilenceInv => SilenceReportedOnce
  BY DEF SilenceInv
<1> QED
  BY <1>1, Silences, PTL

(***************************************************************************)
(* What a tick holds in its claim is orphaned to the second by the clock of *)
(* that moment, although the tick compared with the time of its start.      *)
(***************************************************************************)
OrphanedToTheSecond ==
    tx.by \in Ticks =>
        \A i \in DOMAIN seats :
            seats[i].to = rows[tx.gen].to => Second(seats[i].until) <= Second(clock)

LEMMA OrphansBySecond == DeliveryInv /\ SilenceInv => OrphanedToTheSecond
<1> SUFFICES ASSUME DeliveryInv, SilenceInv, tx.by \in Ticks, NEW i \in DOMAIN seats,
                    seats[i].to = rows[tx.gen].to
             PROVE  Second(seats[i].until) <= Second(clock)
  BY DEF OrphanedToTheSecond
<1>1. /\ seats[i].until \in Nat /\ clock \in Nat
      /\ tk[tx.by].now \in Nat /\ tk[tx.by].now <= clock
  BY BoundAssumption, DurationAssumption
  DEF DeliveryInv, TypeOK, SeatsTyped, Rows, HistoryTyped, TicksTyped, Tickings, SilenceInv,
      StampsArePast
<1>2. TextAtMost(seats[i].until, tk[tx.by].now)
  BY DEF SilenceInv, ClaimOfOrphans, Orphaned
<1>3. Second(seats[i].until) <= Second(tk[tx.by].now) /\ Second(tk[tx.by].now) <= Second(clock)
  BY <1>1, <1>2, TextIsSecond, SecondsGrow
<1>4. \A t \in Nat : Second(t) \in Int
  BY DurationAssumption, DivInt DEF Second
<1> QED
  BY <1>1, <1>3, <1>4

THEOREM TickTakesOrphansToTheSecond == Spec => []OrphanedToTheSecond
BY OrphansBySecond, Delivery, Silences, PTL

(***************************************************************************)
(* With a clock of whole seconds, nothing a tick holds has a live seat.     *)
(***************************************************************************)
THEOREM TickTakesOnlyOrphans ==
    ASSUME PerSecond = 1
    PROVE  Spec => []TickTakesOrphans
<1>1. DeliveryInv /\ SilenceInv => TickTakesOrphans
  BY OrphansBySecond, WholeSeconds, BoundAssumption, DurationAssumption
  DEF OrphanedToTheSecond, TickTakesOrphans, DeliveryInv, TypeOK, SeatsTyped, Rows, HistoryTyped
<1> QED
  BY <1>1, Delivery, Silences, PTL

(***************************************************************************)
(* With a clock of whole seconds, a seat whose silence is recorded has run  *)
(* out of its lease, and has not been refreshed since it was read.          *)
(***************************************************************************)
THEOREM NoSilenceIsFalse ==
    ASSUME PerSecond = 1
    PROVE  Spec => NoFalseSilence
<1> DEFINE Honest == Len(rows') > Len(rows) /\ rows'[Len(rows')].kind = "seat-silent" =>
                        LET row == rows'[Len(rows')]
                        IN  seats[row.seat].until <= clock /\ seats[row.seat].era = row.era
<1>1. ASSUME DeliveryInv, DeliveryInv', SilenceInv, [Next]_vars PROVE Honest
  <2> SUFFICES ASSUME Len(rows') > Len(rows), rows'[Len(rows')].kind = "seat-silent"
               PROVE  /\ seats[rows'[Len(rows')].seat].until <= clock
                      /\ seats[rows'[Len(rows')].seat].era = rows'[Len(rows')].era
    OBVIOUS
  <2>0. rows \in Seq(Wakeups) /\ TypeOK
    BY <1>1 DEF DeliveryInv, TypeOK, QueueTyped
  <2>1. ASSUME NEW h \in HomesOf, DocumentMirrored(h) PROVE FALSE
    BY <2>0, <2>1 DEF DocumentMirrored
  <2>2. ASSUME NEW k \in Ticks, NEW s \in tk[k].snap, SeatSilent(k, s)
        PROVE  /\ seats[rows'[Len(rows')].seat].until <= clock
               /\ seats[rows'[Len(rows')].seat].era = rows'[Len(rows')].era
    <3>1. rows'[Len(rows')].seat = s.id /\ rows'[Len(rows')].era = s.era
      BY <2>0, <2>2 DEF SeatSilent
    <3>2. /\ s.id \in DOMAIN seats /\ seats[s.id].era = s.era
          /\ TextAtMost(seats[s.id].until, tk[k].now)
      BY <2>2 DEF SeatSilent, StillSilent
    <3>3. /\ seats[s.id].until \in Nat /\ tk[k].now \in Nat /\ clock \in Nat
          /\ tk[k].now <= clock
      BY <1>1, <2>0, <3>2, BoundAssumption, DurationAssumption
      DEF TypeOK, SeatsTyped, Rows, HistoryTyped, TicksTyped, Tickings, SilenceInv, StampsArePast
    <3>4. seats[s.id].until <= tk[k].now
      BY <3>2, <3>3, TextIsSecond, WholeSeconds
    <3> QED
      BY <3>1, <3>2, <3>3, <3>4
  <2> QED
    BY <1>1, <2>0, <2>1, <2>2, RowSteps
<1>2. DeliveryInv /\ DeliveryInv' /\ SilenceInv /\ [Next]_vars => [Honest]_vars
  BY <1>1
<1> QED
  BY <1>2, Delivery, Silences, PTL DEF NoFalseSilence, Spec

(***************************************************************************)
(* The rows of a follower with seats of its own are written by nobody else, *)
(* but for the silence that tick records.                                   *)
(***************************************************************************)
LEMMA OwnRowKept ==
    ASSUME OwnSeats, TypeOK, NEW f \in Followers, NEW s \in SeatsOf(f), [Next]_vars,
           ~FollowerStep(f)
    PROVE  /\ s.id \in DOMAIN seats' <=> s.id \in DOMAIN seats
           /\ s.id \in DOMAIN seats => /\ seats'[s.id].to = seats[s.id].to
                                      /\ seats'[s.id].until = seats[s.id].until
<1>1. CASE UNCHANGED seats
  BY <1>1
<1>2. ASSUME NEW g \in Followers, NEW u \in SeatsOf(g), RegisterSeat(g, u) \/ Heartbeat(g, u)
      PROVE  /\ s.id \in DOMAIN seats' <=> s.id \in DOMAIN seats
             /\ s.id \in DOMAIN seats => seats'[s.id] = seats[s.id]
  <2>1. u.id # s.id
    BY <1>2 DEF OwnSeats, FollowerStep
  <2> QED
    BY <1>2, <2>1 DEF RegisterSeat, Heartbeat, Put
<1>3. ASSUME NEW k \in Ticks, NEW q \in tk[k].snap, SeatSilent(k, q)
      PROVE  /\ s.id \in DOMAIN seats' <=> s.id \in DOMAIN seats
             /\ s.id \in DOMAIN seats => /\ seats'[s.id].to = seats[s.id].to
                                        /\ seats'[s.id].until = seats[s.id].until
  <2>1. \A i \in DOMAIN seats : seats[i] \in Rows
    BY DEF TypeOK, SeatsTyped
  <2>2. DOMAIN seats' = DOMAIN seats
    BY <1>3 DEF SeatSilent, StillSilent, Put
  <2>3. s.id \in DOMAIN seats => /\ seats'[s.id].to = seats[s.id].to
                                 /\ seats'[s.id].until = seats[s.id].until
    BY <1>3, <2>1 DEF SeatSilent, Put, Rows
  <2> QED
    BY <2>2, <2>3
<1> QED
  BY <1>1, <1>2, <1>3, SeatSteps DEF SeatWritten

(***************************************************************************)
(* Every follower keeps its rows and its stamps in order.                   *)
(***************************************************************************)
LEMMA BeatStep ==
    ASSUME OwnSeats, TypeOK, TypeOK', StampsArePast, BeatInv, [Next]_vars
    PROVE  BeatInv'
<1> SUFFICES ASSUME NEW f \in Followers
             PROVE  StampsAscend(f)' /\ \A s \in SeatsOf(f) : SeatBeats(f, s)'
  BY DEF BeatInv
<1>0. /\ fol \in [Followers -> Followings] /\ fol'[f] \in Followings /\ fol[f] \in Followings
      /\ fol[f].todo \subseteq SeatsOf(f)
      /\ fol[f].stamp \in Nat /\ fol[f].stamp <= clock /\ clock \in Nat
      /\ fol[f].tick \in Nat
      /\ \A i \in DOMAIN seats : seats[i] \in Rows /\ seats[i].until \in Nat
                              /\ seats[i].until <= clock + Lease
  BY BoundAssumption, DurationAssumption
  DEF TypeOK, FollowersTyped, Followings, SeatsTyped, Rows, HistoryTyped, StampsArePast
<1>1. StampsAscend(f) /\ \A s \in SeatsOf(f) : SeatBeats(f, s)
  BY DEF BeatInv
<1>2. CASE fol'[f] = fol[f] /\ ~FollowerStep(f)
  BY <1>0, <1>1, <1>2, OwnRowKept DEF StampsAscend, SeatBeats
<1>3. CASE fol'[f] = IdleFollower
  BY <1>3 DEF StampsAscend, SeatBeats, IdleFollower, Following
<1>4. CASE Start(f)
  <2>1. /\ fol'[f] = [Following("register", SeatsOf(f)) EXCEPT !.stamp = clock]
        /\ UNCHANGED seats
    BY <1>0, <1>4 DEF Start
  <2>2. /\ fol'[f].at = "register" /\ fol'[f].todo = SeatsOf(f)
        /\ fol'[f].stamp = clock /\ fol'[f].tick = 0
    BY <2>1 DEF Following
  <2> QED
    BY <1>0, <2>1, <2>2 DEF StampsAscend, SeatBeats
<1>5. CASE OpenSource(f)
  <2>1. /\ UNCHANGED seats /\ fol[f].at = "source" /\ fol'[f].at = "rise"
        /\ fol'[f].todo = SeatsOf(f) /\ fol'[f].stamp = clock /\ fol'[f].tick = fol[f].tick
    BY <1>0, <1>5 DEF OpenSource, Followings
  <2> QED
    BY <1>0, <1>1, <2>1 DEF StampsAscend, SeatBeats
<1>6. ASSUME NEW u \in SeatsOf(f), RegisterSeat(f, u)
      PROVE  StampsAscend(f)' /\ \A s \in SeatsOf(f) : SeatBeats(f, s)'
  <2>1. /\ fol[f].at = "register" /\ fol'[f].at \in {"register", "source"}
        /\ fol'[f].todo = fol[f].todo \ {u} /\ fol'[f].tick = fol[f].tick
        /\ fol'[f].at = "source" => fol[f].todo = {u}
        /\ fol'[f].stamp = clock
    BY <1>0, <1>6 DEF RegisterSeat, Followings
  <2>2. /\ DOMAIN seats' = DOMAIN seats \cup {u.id} /\ seats'[u.id].to = Conf[f].to
        /\ \A i \in DOMAIN seats \ {u.id} : seats'[i] = seats[i]
        /\ seats'[u.id].until <= clock + Lease
    BY <1>0, <1>6, DurationAssumption DEF RegisterSeat, Put
  <2>3. StampsAscend(f)'
    BY <1>1, <2>1 DEF StampsAscend
  <2>4. ASSUME NEW s \in SeatsOf(f) PROVE SeatBeats(f, s)'
    BY <1>0, <1>1, <2>1, <2>2 DEF SeatBeats
  <2> QED
    BY <2>3, <2>4
<1>7. ASSUME NEW u \in SeatsOf(f), Heartbeat(f, u)
      PROVE  StampsAscend(f)' /\ \A s \in SeatsOf(f) : SeatBeats(f, s)'
  <2>1. /\ fol[f].at \in {"rise", "beat"} /\ fol'[f].todo = fol[f].todo \ {u}
        /\ fol'[f].stamp = fol[f].stamp /\ fol'[f].tick = fol[f].tick
        /\ \/ fol'[f].at = fol[f].at
           \/ /\ fol[f].todo = {u}
              /\ fol'[f].at = IF fol[f].at = "rise" THEN "drain" ELSE "select"
    BY <1>0, <1>7 DEF Heartbeat, Followings
  <2>2. /\ DOMAIN seats' = DOMAIN seats /\ u.id \in DOMAIN seats
        /\ seats'[u.id].to = seats[u.id].to /\ seats'[u.id].until = fol[f].stamp + Lease
        /\ \A i \in DOMAIN seats \ {u.id} : seats'[i] = seats[i]
    BY <1>0, <1>7 DEF Heartbeat, Put, Rows
  <2>3. StampsAscend(f)'
    BY <1>1, <2>1 DEF StampsAscend
  <2>4. ASSUME NEW s \in SeatsOf(f) PROVE SeatBeats(f, s)'
    <3>1. CASE s.id = u.id
      BY <1>0, <1>1, <2>1, <2>2, <3>1, DurationAssumption DEF SeatBeats
    <3>2. CASE s.id # u.id
      BY <1>1, <2>1, <2>2, <3>2 DEF SeatBeats
    <3> QED
      BY <3>1, <3>2
  <2> QED
    BY <2>3, <2>4
<1>8. CASE TickerFires(f)
  <2>1. /\ UNCHANGED seats /\ fol[f].at = "select" /\ fol'[f].at = "beat"
        /\ fol'[f].todo = SeatsOf(f) /\ fol'[f].stamp = fol[f].tick
        /\ fol'[f].tick = fol[f].tick
             + HeartbeatEvery * (1 + (clock - fol[f].tick) \div HeartbeatEvery)
        /\ fol[f].tick <= clock
    BY <1>0, <1>8 DEF TickerFires, Followings
  <2>2. fol'[f].tick \in Nat /\ fol'[f].tick > clock
    BY <1>0, <2>1, TickMoves, DurationAssumption
  <2>3. fol[f].stamp <= fol[f].tick
    BY <1>1, <2>1 DEF StampsAscend
  <2>4. StampsAscend(f)'
    BY <1>0, <2>1, <2>2 DEF StampsAscend
  <2>5. ASSUME NEW s \in SeatsOf(f) PROVE SeatBeats(f, s)'
    BY <1>0, <1>1, <2>1, <2>3, DurationAssumption DEF SeatBeats
  <2> QED
    BY <2>4, <2>5
<1>9. CASE Poll(f) \/ FollowerClaims(f)
  BY <1>0, <1>1, <1>9 DEF Poll, FollowerClaims, Claim, StampsAscend, SeatBeats
<1>10. CASE Signaled(f) \/ Drained(f)
  <2>1. /\ UNCHANGED seats /\ fol'[f].todo = fol[f].todo /\ fol'[f].stamp = fol[f].stamp
        /\ fol[f].at \in {"drain", "select"} /\ fol'[f].at \in {"drain", "select"}
        /\ \/ fol'[f].tick = fol[f].tick /\ (fol[f].at = "select" \/ fol[f].tick # 0)
           \/ fol'[f].tick = clock + HeartbeatEvery
    BY <1>0, <1>10 DEF Signaled, Drained, Followings
  <2>2. StampsAscend(f)'
    BY <1>0, <1>1, <2>1, DurationAssumption DEF StampsAscend
  <2>3. ASSUME NEW s \in SeatsOf(f) PROVE SeatBeats(f, s)'
    BY <1>1, <2>1 DEF SeatBeats
  <2> QED
    BY <2>2, <2>3
<1>11. CASE RegisterRefused(f)
  BY <1>0, <1>3, <1>11 DEF RegisterRefused
<1>12. CASE FollowerStep(f)
  BY <1>4, <1>5, <1>6, <1>7, <1>8, <1>9, <1>10, <1>11, <1>12 DEF FollowerStep
<1> QED
  BY <1>2, <1>3, <1>12, FollowersMove

(***************************************************************************)
(* Followers with seats of their own keep their rows and stamps in order.   *)
(***************************************************************************)
THEOREM Beats ==
    ASSUME OwnSeats
    PROVE  Spec => []BeatInv
<1>1. Init => BeatInv
  BY DEF Init, BeatInv, StampsAscend, SeatBeats, IdleFollower, Following
<1>2. DeliveryInv /\ DeliveryInv' /\ SilenceInv /\ BeatInv /\ [Next]_vars => BeatInv'
  BY BeatStep DEF DeliveryInv, SilenceInv
<1> QED
  BY <1>1, <1>2, Delivery, Silences, PTL DEF Spec

(***************************************************************************)
(* A follower with seats of its own that sent its heartbeats less than a    *)
(* lease ago keeps its destination, with a clock of whole seconds.          *)
(***************************************************************************)
THEOREM LiveFollowersKeepTheirQueue ==
    ASSUME OwnSeats, PerSecond = 1
    PROVE  Spec => []LiveFollowerKeepsQueue
<1>1. ASSUME TickTakesOrphans, BeatInv, DeliveryInv PROVE LiveFollowerKeepsQueue
  <2> SUFFICES ASSUME tx.by \in Ticks, NEW f \in Followers, Fresh(f),
                      Conf[f].to = rows[tx.gen].to
               PROVE  FALSE
    BY DEF LiveFollowerKeepsQueue
  <2>1. PICK s \in SeatsOf(f) : TRUE
    BY ConfAssumption
  <2>2. StampsAscend(f) /\ SeatBeats(f, s)
    BY <1>1 DEF BeatInv
  <2>3. /\ s.id \in DOMAIN seats /\ seats[s.id].to = Conf[f].to
        /\ seats[s.id].until = fol[f].stamp + Lease
    BY <2>2 DEF Fresh, StampsAscend, SeatBeats
  <2>4. clock \in Nat /\ fol[f].stamp \in Nat
    BY <1>1, BoundAssumption
    DEF DeliveryInv, TypeOK, HistoryTyped, FollowersTyped, Followings
  <2> QED
    BY <1>1, <2>3, <2>4, DurationAssumption DEF TickTakesOrphans, Fresh
<1> QED
  BY <1>1, TickTakesOnlyOrphans, Beats, Delivery, PTL

(***************************************************************************)
(* With seats of its own a follower, restarted or late, only ever moves its *)
(* leases forward.                                                          *)
(***************************************************************************)
THEOREM SeatLeasesMoveForward ==
    ASSUME OwnSeats
    PROVE  Spec => SeatLeaseMovesForward
<1> DEFINE Forward == \A i \in DOMAIN seats :
                         i \in DOMAIN seats' /\ seats'[i].until >= seats[i].until
<1>1. ASSUME DeliveryInv, SilenceInv, BeatInv, [Next]_vars PROVE Forward
  <2>0. /\ \A i \in DOMAIN seats : /\ seats[i] \in Rows /\ seats[i].until \in Nat
                                 /\ seats[i].until <= clock + Lease
        /\ clock \in Nat
    BY <1>1, BoundAssumption, DurationAssumption
    DEF DeliveryInv, TypeOK, SeatsTyped, Rows, HistoryTyped, SilenceInv, StampsArePast
  <2>1. CASE UNCHANGED seats
    BY <2>0, <2>1
  <2>2. ASSUME NEW f \in Followers, NEW s \in SeatsOf(f), RegisterSeat(f, s) PROVE Forward
    <3>1. s.id \in DOMAIN seats => seats[s.id].until <= fol[f].stamp + Lease
      BY <1>1, <2>2 DEF BeatInv, SeatBeats, RegisterSeat
    <3>2. fol[f].stamp \in Nat
      BY <1>1, BoundAssumption DEF DeliveryInv, TypeOK, FollowersTyped, Followings
    <3>3. PICK now \in fol[f].stamp .. clock :
             /\ DOMAIN seats' = DOMAIN seats \cup {s.id} /\ seats'[s.id].until = now + Lease
             /\ \A i \in DOMAIN seats \ {s.id} : seats'[i] = seats[i]
      BY <2>2 DEF RegisterSeat, Put
    <3> QED
      BY <2>0, <3>1, <3>2, <3>3, DurationAssumption
  <2>3. ASSUME NEW f \in Followers, NEW s \in SeatsOf(f), Heartbeat(f, s) PROVE Forward
    <3>1. seats[s.id].until <= fol[f].stamp + Lease
      BY <1>1, <2>3 DEF BeatInv, SeatBeats, Heartbeat
    <3>2. /\ DOMAIN seats' = DOMAIN seats /\ seats'[s.id].until = fol[f].stamp + Lease
          /\ \A i \in DOMAIN seats \ {s.id} : seats'[i] = seats[i]
      BY <2>0, <2>3 DEF Heartbeat, Put, Rows
    <3>3. fol[f].stamp + Lease \in Nat
      BY <1>1, BoundAssumption, DurationAssumption
      DEF DeliveryInv, TypeOK, FollowersTyped, Followings
    <3> QED
      BY <2>0, <3>1, <3>2, <3>3
  <2>4. ASSUME NEW k \in Ticks, NEW s \in tk[k].snap, SeatSilent(k, s) PROVE Forward
    <3>1. /\ DOMAIN seats' = DOMAIN seats
          /\ \A i \in DOMAIN seats : seats'[i].until = seats[i].until
      BY <2>0, <2>4 DEF SeatSilent, StillSilent, Put, Rows
    <3> QED
      BY <2>0, <3>1
  <2> QED
    BY <1>1, <2>1, <2>2, <2>3, <2>4, SeatSteps DEF SeatWritten
<1>2. DeliveryInv /\ SilenceInv /\ BeatInv /\ [Next]_vars => [Forward]_vars
  BY <1>1
<1> QED
  BY <1>2, Delivery, Silences, Beats, PTL DEF SeatLeaseMovesForward, Spec
=============================================================================
