------------------------ MODULE WatchResidentProofs ------------------------
(***************************************************************************)
(* Whoever holds a home watches it, and misses no rewrite of it, for any    *)
(* number of processes, terms, messages and faults; and what the goroutines *)
(* do to the seat is what the lease protocol allows.                        *)
(***************************************************************************)
EXTENDS WatchResident, TLAPS

(***************************************************************************)
(* A message stays told while others come and go.                           *)
(***************************************************************************)
Has(q, m) == \E k \in DOMAIN q : q[k] = m

LEMMA AppendTells ==
    ASSUME NEW q \in Seq(Messages), NEW m \in Messages
    PROVE  /\ Append(q, m) \in Seq(Messages) /\ Len(Append(q, m)) = Len(q) + 1
           /\ Has(Append(q, m), m)
           /\ \A x : Has(q, x) => Has(Append(q, m), x)
BY DEF Has

LEMMA TailTells ==
    ASSUME NEW q \in Seq(Messages), q # <<>>
    PROVE  /\ Head(q) \in Messages
           /\ Tail(q) \in Seq(Messages) /\ Len(Tail(q)) = Len(q) - 1
           /\ \A x : Has(q, x) /\ x # Head(q) => Has(Tail(q), x)
<1>1. /\ Len(q) \in Nat \ {0} /\ Head(q) = q[1] /\ Head(q) \in Messages
      /\ Tail(q) \in Seq(Messages) /\ Len(Tail(q)) = Len(q) - 1
      /\ DOMAIN q = 1 .. Len(q) /\ DOMAIN Tail(q) = 1 .. Len(q) - 1
      /\ \A k \in 1 .. Len(q) - 1 : Tail(q)[k] = q[k + 1]
  OBVIOUS
<1>2. ASSUME NEW k \in DOMAIN q, q[k] # Head(q)
      PROVE  k - 1 \in DOMAIN Tail(q) /\ Tail(q)[k - 1] = q[k]
  BY <1>1, <1>2
<1> QED
  BY <1>1, <1>2 DEF Has

(***************************************************************************)
(* The struct of a home, field by field and as the code changes it.         *)
(***************************************************************************)
LEMMA FieldTyped ==
    \A h \in Homes :
        /\ \A b \in BOOLEAN : [h EXCEPT !.holding = b] \in Homes
        /\ \A b \in BOOLEAN : [h EXCEPT !.prepared = b] \in Homes
        /\ \A d \in 0 .. Lease : [h EXCEPT !.left = d] \in Homes
        /\ \A d \in Zero .. Retry : [h EXCEPT !.retryAt = d] \in Homes
        /\ \A d \in Zero .. Lease : [h EXCEPT !.standby = d] \in Homes
        /\ \A g \in Generations \cup {NoGen} : [h EXCEPT !.src = g] \in Homes
        /\ \A g \in Generations \cup {NoGen} : [h EXCEPT !.gen = g] \in Homes
BY DEF Homes

LEMMA Durations ==
    /\ 0 \in 0 .. Lease /\ Zero \in Zero .. Lease /\ 0 \in Zero .. Lease
    /\ Zero \in Zero .. Retry /\ Retry \in Zero .. Retry
    /\ \A age \in Ages : Lease - age \in 0 .. Lease /\ 0 < Lease - age
    /\ \A age \in Ages : -age \in (-MaxDelay) .. Lease
    /\ \A d \in Zero .. Lease : Later(d) \in Zero .. Lease
    /\ \A d \in Zero .. Retry : Later(d) \in Zero .. Retry
    /\ \A d \in 0 .. Lease : AtLeastZero(d - 1) \in 0 .. Lease
    /\ \A d \in (-MaxDelay) .. Lease : AtLeastZero(d) \in 0 .. Lease
    /\ \A age \in Ages : /\ AtLeastZero(Retry - age) \in 0 .. Retry
                         /\ AtLeastZero(Least(Retry, DueRetry) - age) \in 0 .. Retry
BY DurationAssumption DEF Zero, Ages, Later, AtLeastZero, Least

LEMMA StoodDownTyped ==
    ASSUME NEW h \in Homes, NEW d \in Zero .. Retry
    PROVE  StoodDown(h, d) \in Homes
<1>1. NoGen \in Generations \cup {NoGen}
  OBVIOUS
<1>2. [h EXCEPT !.holding = FALSE] \in Homes
  BY FieldTyped
<1>3. [h EXCEPT !.holding = FALSE, !.left = 0] \in Homes
  BY FieldTyped, Durations, <1>2, Zenon
<1>4. [h EXCEPT !.holding = FALSE, !.left = 0, !.standby = Zero] \in Homes
  BY FieldTyped, Durations, <1>3, Zenon
<1>5. [h EXCEPT !.holding = FALSE, !.left = 0, !.standby = Zero, !.src = NoGen] \in Homes
  BY FieldTyped, <1>1, <1>4, Zenon
<1> QED
  BY FieldTyped, <1>5, Zenon DEF StoodDown

LEMMA AcquiredTyped ==
    ASSUME NEW h \in Homes, NEW g \in Generations, NEW age \in Ages
    PROVE  [h EXCEPT !.prepared = TRUE, !.holding = TRUE, !.standby = Zero,
                     !.left = Lease - age, !.gen = g] \in Homes
<1>1. g \in Generations \cup {NoGen}
  OBVIOUS
<1>2. [h EXCEPT !.prepared = TRUE] \in Homes
  BY FieldTyped
<1>3. [h EXCEPT !.prepared = TRUE, !.holding = TRUE] \in Homes
  BY FieldTyped, <1>2, Zenon
<1>4. [h EXCEPT !.prepared = TRUE, !.holding = TRUE, !.standby = Zero] \in Homes
  BY FieldTyped, Durations, <1>3, Zenon
<1>5. [h EXCEPT !.prepared = TRUE, !.holding = TRUE, !.standby = Zero,
                !.left = Lease - age] \in Homes
  BY FieldTyped, Durations, <1>4, Zenon
<1> QED
  BY FieldTyped, <1>1, <1>5, Zenon

(***************************************************************************)
(* The attempts that do not take the seat, the renewal, and time.           *)
(***************************************************************************)
LEMMA WaitingTyped ==
    ASSUME NEW h \in Homes, NEW d \in Zero .. Retry, NEW e \in Zero .. Lease
    PROVE  /\ [h EXCEPT !.retryAt = d, !.standby = e] \in Homes
           /\ [h EXCEPT !.prepared = TRUE, !.retryAt = d] \in Homes
           /\ [h EXCEPT !.prepared = TRUE, !.standby = e] \in Homes
<1>1. [h EXCEPT !.retryAt = d] \in Homes /\ [h EXCEPT !.prepared = TRUE] \in Homes
  BY FieldTyped
<1> QED
  BY FieldTyped, <1>1, Zenon

LEMMA RenewedTyped ==
    ASSUME NEW h \in Homes, NEW l \in 0 .. Lease, NEW d \in Zero .. Retry
    PROVE  [h EXCEPT !.left = l, !.retryAt = d] \in Homes
<1>1. [h EXCEPT !.left = l] \in Homes
  BY FieldTyped
<1> QED
  BY FieldTyped, <1>1, Zenon

LEMMA PassedTyped ==
    ASSUME NEW h \in Homes
    PROVE  [h EXCEPT !.left = AtLeastZero(h.left - 1), !.retryAt = Later(h.retryAt),
                     !.standby = Later(h.standby)] \in Homes
<1>1. h.left \in 0 .. Lease /\ h.retryAt \in Zero .. Retry /\ h.standby \in Zero .. Lease
  BY DEF Homes
<1>2. [h EXCEPT !.left = AtLeastZero(h.left - 1)] \in Homes
  BY FieldTyped, Durations, <1>1
<1>3. [h EXCEPT !.left = AtLeastZero(h.left - 1), !.retryAt = Later(h.retryAt)] \in Homes
  BY FieldTyped, Durations, <1>1, <1>2, Zenon
<1> QED
  BY FieldTyped, Durations, <1>1, <1>3, Zenon

LEMMA AttemptDelayTyped ==
    ASSUME NEW h \in Homes
    PROVE  AttemptDelay(h) \in 0 .. Retry
<1>1. h.retryAt \in Zero .. Retry /\ h.standby \in Zero .. Lease
  BY DEF Homes
<1> QED
  BY <1>1, DurationAssumption DEF AttemptDelay, Least, Zero

-----------------------------------------------------------------------------
(***************************************************************************)
(* What the three ways to change the struct do: stand down, renew, attempt. *)
(***************************************************************************)
LEMMA StandDownEffect ==
    ASSUME TypeOK, NEW s \in Sessions, NEW g \in Generations \cup {NoGen},
           NEW d \in Zero .. Retry, NEW canceled, StandDown(s, g, d, canceled)
    PROVE  /\ home' \in [Sessions -> Homes]
           /\ open' \in [Sessions -> SUBSET Generations]
           /\ noted' \in [Sessions -> SUBSET Generations]
           /\ \A t \in Sessions \ {s} :
                 home'[t] = home[t] /\ open'[t] = open[t] /\ noted'[t] = noted[t]
           /\ \/ /\ g # NoGen /\ home[s].gen # g
                 /\ UNCHANGED <<home, seat, open, noted>>
              \/ /\ g = NoGen \/ home[s].gen = g
                 /\ home'[s] = StoodDown(home[s], d)
                 /\ open'[s] = open[s] \ {home[s].src}
                 /\ noted'[s] = noted[s] \ {home[s].src}
                 /\ \/ UNCHANGED seat
                    \/ /\ home[s].holding /\ seat.token = s
                       /\ \E age \in Ages : seat' = [seat EXCEPT !.left = -age]
<1>1. CASE g # NoGen /\ home[s].gen # g
  BY <1>1 DEF StandDown, TypeOK, TermsTyped
<1>2. CASE g = NoGen \/ home[s].gen = g
  <2>1. /\ home' = [home EXCEPT ![s] = StoodDown(home[s], d)]
        /\ open' = [open EXCEPT ![s] = @ \ {home[s].src}]
        /\ noted' = [noted EXCEPT ![s] = @ \ {home[s].src}]
        /\ Release(s, canceled)
    BY <1>2 DEF StandDown
  <2>2. \/ UNCHANGED seat
        \/ /\ home[s].holding /\ seat.token = s
           /\ \E age \in Ages : seat' = [seat EXCEPT !.left = -age]
    BY <2>1 DEF Release
  <2>3. StoodDown(home[s], d) \in Homes
    BY StoodDownTyped DEF TypeOK
  <2> QED
    BY <1>2, <2>1, <2>2, <2>3 DEF TypeOK, TermsTyped
<1> QED
  BY <1>1, <1>2

LEMMA RenewEffect ==
    ASSUME TypeOK, NEW s \in Sessions, NEW d \in Zero .. Retry, RenewSeat(s, d)
    PROVE  /\ home' \in [Sessions -> Homes]
           /\ seat.token = s
           /\ \A t \in Sessions \ {s} : home'[t] = home[t]
           /\ \E age \in Ages :
                 /\ home[s].left <= Lease - age
                 /\ seat' = [token |-> s, left |-> Lease - age]
                 /\ home'[s].left = Lease - age
           /\ home'[s].holding = home[s].holding /\ home'[s].gen = home[s].gen
           /\ home'[s].src = home[s].src
<1>1. PICK age \in Ages :
          /\ home[s].left <= Lease - age
          /\ seat' = [token |-> s, left |-> Lease - age]
          /\ home' = [home EXCEPT ![s].left = Lease - age, ![s].retryAt = d]
  BY DEF RenewSeat
<1>2. home' = [home EXCEPT ![s] = [home[s] EXCEPT !.left = Lease - age, !.retryAt = d]]
  BY <1>1 DEF TypeOK
<1>3. home[s] \in Homes
  BY DEF TypeOK
<1>4. [home[s] EXCEPT !.left = Lease - age, !.retryAt = d] \in Homes
  BY <1>3, Durations, RenewedTyped
<1>5. home'[s] = [home[s] EXCEPT !.left = Lease - age, !.retryAt = d]
  BY <1>2 DEF TypeOK
<1>6. /\ home'[s].left = Lease - age /\ home'[s].holding = home[s].holding
      /\ home'[s].gen = home[s].gen /\ home'[s].src = home[s].src
  BY <1>3, <1>5 DEF Homes
<1>7. seat.token = s
  BY DEF RenewSeat
<1>8. /\ home' \in [Sessions -> Homes]
      /\ \A t \in Sessions \ {s} : home'[t] = home[t]
  BY <1>2, <1>4 DEF TypeOK
<1> QED
  BY <1>1, <1>6, <1>7, <1>8

LEMMA SetHomeEffect ==
    ASSUME TypeOK, NEW s \in Sessions, NEW h \in Homes, SetHome(s, h)
    PROVE  /\ home' \in [Sessions -> Homes] /\ home'[s] = h
           /\ \A t \in Sessions \ {s} : home'[t] = home[t]
           /\ timer' \in [Sessions -> 0 .. Retry]
BY AttemptDelayTyped DEF SetHome, TypeOK, ClocksTyped

-----------------------------------------------------------------------------
(***************************************************************************)
(* Types.  First the steps of the main loop that attempt to take the seat.  *)
(***************************************************************************)
LEMMA FaultTyped == TypeOK /\ Fault => faults' \in 0 .. MaxFaults
BY BoundAssumption DEF TypeOK, ClocksTyped, Fault

LEMMA SeatTaken ==
    ASSUME NEW s \in Sessions, NEW age \in Ages
    PROVE  [token |-> s, left |-> Lease - age] \in Seats
BY DurationAssumption DEF Seats, Ages

LEMMA SeatReleased ==
    ASSUME TypeOK, NEW age \in Ages
    PROVE  [seat EXCEPT !.left = -age] \in Seats
BY DurationAssumption DEF TypeOK, Seats, Ages

Attempts(s) ==
    AttemptSkipped(s) \/ PrepareFailed(s) \/ AttemptFailed(s) \/ Standby(s) \/ Acquire(s)

LEMMA NextGenerationIsFree ==
    ASSUME NEW s \in Sessions, \E g \in Generations : ~InUse(s, g)
    PROVE  NextGeneration(s) \in Generations /\ ~InUse(s, NextGeneration(s))
BY DEF NextGeneration

LEMMA AttemptTyped ==
    ASSUME TypeOK, NEW s \in Sessions, Attempts(s)
    PROVE  TypeOK' /\ \A t \in Sessions \ {s} : home'[t] = home[t] /\ act'[t] = act[t]
<1>h. home[s] \in Homes /\ home[s].retryAt \in Zero .. Retry /\ home[s].standby \in Zero .. Lease
  BY DEF TypeOK, Homes
<1> DEFINE Moves == \E h \in Homes : SetHome(s, h)
<1>1. CASE AttemptSkipped(s)
  <2>1. Moves /\ UNCHANGED seat /\ UNCHANGED act /\ UNCHANGED faults
    BY <1>1, <1>h DEF AttemptSkipped
  <2> QED
    BY <1>1, <2>1, SetHomeEffect DEF AttemptSkipped, TypeOK, ClocksTyped, LoopsTyped, TermsTyped,
                                     MirrorTyped
<1>2. CASE PrepareFailed(s)
  <2>1. [home[s] EXCEPT !.retryAt = Retry, !.standby = Zero] \in Homes
    BY <1>h, WaitingTyped, Durations
  <2>2. Moves /\ UNCHANGED seat /\ UNCHANGED act /\ faults' \in 0 .. MaxFaults
    BY <1>2, <2>1, FaultTyped DEF PrepareFailed
  <2> QED
    BY <1>2, <2>2, SetHomeEffect DEF PrepareFailed, TypeOK, ClocksTyped, LoopsTyped, TermsTyped,
                                     MirrorTyped
<1>3. CASE AttemptFailed(s)
  <2>1. PICK age \in Ages :
            LET due == home[s].standby # Zero /\ home[s].standby = 0
                delay == IF due THEN Least(Retry, DueRetry) ELSE Retry
            IN  /\ SetHome(s, [home[s] EXCEPT !.prepared = TRUE,
                                              !.retryAt = AtLeastZero(delay - age)])
                /\ \/ UNCHANGED seat
                   \/ /\ seat.left <= -age \/ seat.token = s
                      /\ seat' = [token |-> s, left |-> Lease - age]
    BY <1>3 DEF AttemptFailed
  <2> DEFINE due == home[s].standby # Zero /\ home[s].standby = 0
             delay == IF due THEN Least(Retry, DueRetry) ELSE Retry
  <2>2. AtLeastZero(delay - age) \in Zero .. Retry
    BY Durations, DurationAssumption DEF Zero
  <2>3. [home[s] EXCEPT !.prepared = TRUE, !.retryAt = AtLeastZero(delay - age)] \in Homes
    BY <1>h, <2>2, WaitingTyped, Durations
  <2>4. Moves
    BY <2>1, <2>3
  <2>5. seat' \in Seats
    BY <2>1, SeatTaken DEF TypeOK
  <2> QED
    BY <1>3, <2>4, <2>5, SetHomeEffect, FaultTyped DEF AttemptFailed, TypeOK, ClocksTyped,
                                           LoopsTyped, TermsTyped, MirrorTyped
<1>4. CASE Standby(s)
  <2>1. AtLeastZero(seat.left) \in Zero .. Lease
    BY Durations, DurationAssumption DEF TypeOK, Seats, Zero
  <2>2. [home[s] EXCEPT !.prepared = TRUE, !.standby = AtLeastZero(seat.left)] \in Homes
    BY <1>h, <2>1, WaitingTyped, Durations
  <2>3. Moves /\ UNCHANGED seat /\ UNCHANGED act /\ UNCHANGED faults
    BY <1>4, <2>2 DEF Standby
  <2> QED
    BY <1>4, <2>3, SetHomeEffect DEF Standby, TypeOK, ClocksTyped, LoopsTyped, TermsTyped,
                                     MirrorTyped
<1>5. CASE Acquire(s)
  <2>1. NextGeneration(s) \in Generations
    BY <1>5, NextGenerationIsFree DEF Acquire
  <2>2. Moves /\ seat' \in Seats
    BY <1>5, <1>h, <2>1, AcquiredTyped, SeatTaken DEF Acquire
  <2>3. act' \in [Sessions -> [Generations -> ActSteps]]
    BY <1>5, <2>1 DEF Acquire, TypeOK, TermsTyped, ActSteps
  <2> QED
    BY <1>5, <2>2, <2>3, SetHomeEffect DEF Acquire, TypeOK, ClocksTyped, LoopsTyped, TermsTyped,
                                           MirrorTyped
<1> QED
  BY <1>1, <1>2, <1>3, <1>4, <1>5 DEF Attempts

(***************************************************************************)
(* The steps of an activation, and the heartbeat.                           *)
(***************************************************************************)
LEMMA GoTyped ==
    ASSUME TypeOK, NEW s \in Sessions, NEW g \in Generations, NEW step \in ActSteps,
           Go(s, g, step)
    PROVE  /\ act' \in [Sessions -> [Generations -> ActSteps]]
           /\ act'[s][g] = step
           /\ \A t \in Sessions, k \in Generations :
                 t # s \/ k # g => act'[t][k] = act[t][k]
           /\ \A t \in Sessions \ {s} : act'[t] = act[t]
<1>1. act \in [Sessions -> [Generations -> ActSteps]]
  BY DEF TypeOK, TermsTyped
<1>2. act' = [act EXCEPT ![s] = [act[s] EXCEPT ![g] = step]]
  BY DEF Go
<1>3. act[s] \in [Generations -> ActSteps]
  BY <1>1
<1> DEFINE moved == [act[s] EXCEPT ![g] = step]
<1>5. /\ moved \in [Generations -> ActSteps] /\ moved[g] = step
      /\ \A k \in Generations \ {g} : moved[k] = act[s][k]
  BY <1>3
<1>6. act' = [act EXCEPT ![s] = moved]
  BY <1>2
<1> HIDE DEF moved
<1>7. act' \in [Sessions -> [Generations -> ActSteps]] /\ act'[s] = moved
  BY <1>1, <1>5, <1>6
<1>8. \A t \in Sessions \ {s} : act'[t] = act[t]
  BY <1>1, <1>6
<1> QED
  BY <1>5, <1>7, <1>8

LEMMA StandDownTyped ==
    ASSUME TypeOK, NEW s \in Sessions, NEW g \in Generations \cup {NoGen},
           NEW d \in Zero .. Retry, NEW canceled, StandDown(s, g, d, canceled)
    PROVE  /\ seat' \in Seats
           /\ home' \in [Sessions -> Homes]
           /\ open' \in [Sessions -> SUBSET Generations]
           /\ noted' \in [Sessions -> SUBSET Generations]
<1>1. seat' \in Seats
  BY StandDownEffect, SeatReleased DEF TypeOK
<1> QED
  BY <1>1, StandDownEffect

LEMMA FailsTyped ==
    ASSUME TypeOK, NEW s \in Sessions, NEW g \in Generations, ActivationFails(s, g),
           faults' \in 0 .. MaxFaults
    PROVE  TypeOK'
<1>1. StandDown(s, g, Retry, Canceled(s)) /\ Go(s, g, "none")
  BY DEF ActivationFails
<1>2. /\ seat' \in Seats /\ home' \in [Sessions -> Homes]
      /\ open' \in [Sessions -> SUBSET Generations]
      /\ noted' \in [Sessions -> SUBSET Generations]
  BY <1>1, StandDownTyped, Durations
<1>3. act' \in [Sessions -> [Generations -> ActSteps]]
  BY <1>1, GoTyped DEF ActSteps
<1>4. ClocksTyped' /\ LoopsTyped' /\ MirrorTyped'
  BY DEF ActivationFails, TypeOK, ClocksTyped, LoopsTyped, MirrorTyped
<1> QED
  BY <1>2, <1>3, <1>4 DEF ActivationFails, TypeOK, TermsTyped

LEMMA ActivationTyped ==
    ASSUME TypeOK, NEW s \in Sessions, NEW g \in Generations, ActivationStep(s, g)
    PROVE  TypeOK'
<1>0. faults' \in 0 .. MaxFaults
  BY FaultTyped DEF ActivationStep, Factory, OpenSource, RecordSource, SweepDone, StartPump,
                    TypeOK, ClocksTyped
<1>1. CASE ActivationFails(s, g)
  BY <1>0, <1>1, FailsTyped
<1>2. ASSUME NEW step \in ActSteps, Go(s, g, step)
      PROVE  act' \in [Sessions -> [Generations -> ActSteps]]
  BY <1>2, GoTyped
<1>3. CASE Factory(s, g) /\ ~ActivationFails(s, g)
  BY <1>2, <1>3 DEF Factory, ActSteps, TypeOK, ClocksTyped, LoopsTyped, TermsTyped, MirrorTyped
<1>4. CASE OpenSource(s, g) /\ ~ActivationFails(s, g)
  <2>1. open' \in [Sessions -> SUBSET Generations]
    BY <1>4 DEF OpenSource, TypeOK, TermsTyped
  <2> QED
    BY <1>2, <1>4, <2>1 DEF OpenSource, ActSteps, TypeOK, ClocksTyped, LoopsTyped, TermsTyped,
                            MirrorTyped
<1>5. CASE RecordSource(s, g)
  <2>1. home' \in [Sessions -> Homes]
    <3>1. CASE TermIsOn(s, g)
      <4>1. home' = [home EXCEPT ![s].src = g]
        BY <1>5, <3>1 DEF RecordSource
      <4>2. [home[s] EXCEPT !.src = g] \in Homes
        BY FieldTyped DEF TypeOK
      <4> QED
        BY <4>1, <4>2 DEF TypeOK
    <3> QED
      BY <1>5, <3>1 DEF RecordSource, TypeOK
  <2>2. act' \in [Sessions -> [Generations -> ActSteps]]
    BY <1>2, <1>5 DEF RecordSource, ActSteps
  <2>3. TermsTyped'
    <3>1. /\ open' \in [Sessions -> SUBSET Generations]
          /\ noted' \in [Sessions -> SUBSET Generations]
      <4>1. \/ open' = open /\ noted' = noted
            \/ /\ open' = [open EXCEPT ![s] = @ \ {g}]
               /\ noted' = [noted EXCEPT ![s] = @ \ {g}]
        BY <1>5 DEF RecordSource
      <4> QED
        BY <4>1 DEF TypeOK, TermsTyped
    <3> QED
      BY <1>5, <2>2, <3>1 DEF RecordSource, TypeOK, TermsTyped
  <2>4. MirrorTyped'
    BY <1>5 DEF RecordSource, TypeOK, MirrorTyped
  <2> QED
    BY <1>5, <2>1, <2>3, <2>4 DEF RecordSource, TypeOK, ClocksTyped, LoopsTyped
<1>6. CASE SweepDone(s, g) /\ ~ActivationFails(s, g)
  <2>1. MirrorTyped'
    BY <1>6 DEF SweepDone, TypeOK, MirrorTyped
  <2> QED
    BY <1>2, <1>6, <2>1 DEF SweepDone, ActSteps, TypeOK, ClocksTyped, LoopsTyped, TermsTyped
<1>7. CASE StartPump(s, g) /\ ~ActivationFails(s, g)
  <2>1. act' \in [Sessions -> [Generations -> ActSteps]]
    BY <1>2, <1>7 DEF StartPump, ActSteps
  <2>2. CASE ~RenewSeat(s, Zero)
    BY <1>7, <2>1, <2>2 DEF StartPump, TypeOK, ClocksTyped, LoopsTyped, TermsTyped, MirrorTyped
  <2>3. CASE RenewSeat(s, Zero)
    <3>1. home' \in [Sessions -> Homes] /\ seat' \in Seats
      BY <2>3, RenewEffect, SeatTaken, Durations
    <3>2. TermsTyped' /\ UNCHANGED <<up, timer, beat, main, inbox, stale, fresh, faults>>
      BY <1>7, <2>1 DEF StartPump, TypeOK, TermsTyped
    <3> QED
      BY <3>1, <3>2 DEF TypeOK, ClocksTyped, LoopsTyped, MirrorTyped
  <2> QED
    BY <2>2, <2>3
<1> QED
  BY <1>1, <1>3, <1>4, <1>5, <1>6, <1>7 DEF ActivationStep

LEMMA HeartbeatTyped ==
    ASSUME TypeOK, NEW s \in Sessions, Heartbeat(s)
    PROVE  TypeOK'
<1>1. beat' \in [Sessions -> 0 .. HeartbeatEvery]
  BY DurationAssumption DEF Heartbeat, TypeOK, ClocksTyped
<1>2. faults' \in 0 .. MaxFaults
  BY FaultTyped DEF Heartbeat, TypeOK, ClocksTyped
<1>3. home[s].gen \in Generations \cup {NoGen} /\ home[s].retryAt \in Zero .. Retry
  BY DEF TypeOK, Homes
<1>4. /\ seat' \in Seats /\ home' \in [Sessions -> Homes]
      /\ open' \in [Sessions -> SUBSET Generations]
      /\ noted' \in [Sessions -> SUBSET Generations]
  <2>1. CASE UNCHANGED <<seat, home, open, noted>>
    BY <2>1 DEF TypeOK, TermsTyped
  <2>2. CASE RenewSeat(s, home[s].retryAt) /\ UNCHANGED <<open, noted>>
    BY <1>3, <2>2, RenewEffect, SeatTaken DEF TypeOK, TermsTyped
  <2>3. CASE StandDown(s, home[s].gen, Retry, ~Serving(s))
    BY <1>3, <2>3, StandDownTyped, Durations
  <2> QED
    BY <2>1, <2>2, <2>3 DEF Heartbeat
<1> QED
  BY <1>1, <1>2, <1>4 DEF Heartbeat, TypeOK, ClocksTyped, LoopsTyped, TermsTyped, MirrorTyped

(***************************************************************************)
(* Pumps, the main loop, the end of a process, time and rewrites.           *)
(***************************************************************************)
LEMMA PumpTyped ==
    ASSUME TypeOK, NEW s \in Sessions, NEW g \in Generations, PumpStep(s, g)
    PROVE  TypeOK'
<1>1. CASE PumpPath(s, g)
  <2>1. LoopsTyped'
    <3>1. /\ inbox' = [inbox EXCEPT ![s] = Append(@, [gen |-> g, kind |-> "path"])]
          /\ Len(inbox[s]) < InboxSize /\ UNCHANGED main
      BY <1>1 DEF PumpPath
    <3>2. [gen |-> g, kind |-> "path"] \in Messages /\ inbox[s] \in Seq(Messages)
      BY DEF Messages, TypeOK, LoopsTyped
    <3>3. Append(inbox[s], [gen |-> g, kind |-> "path"]) \in Seq(Messages)
      BY <3>2, AppendTells
    <3>4. Len(Append(inbox[s], [gen |-> g, kind |-> "path"])) <= InboxSize
      BY <3>1, <3>2, AppendTells, BoundAssumption
    <3> QED
      BY <3>1, <3>3, <3>4 DEF TypeOK, LoopsTyped
  <2> QED
    BY <1>1, <2>1 DEF PumpPath, TypeOK, ClocksTyped, TermsTyped, MirrorTyped
<1>2. CASE PumpError(s, g)
  <2>1. LoopsTyped'
    <3>1. /\ inbox' = [inbox EXCEPT ![s] = Append(@, [gen |-> g, kind |-> "err"])]
          /\ Len(inbox[s]) < InboxSize /\ UNCHANGED main
      BY <1>2 DEF PumpError
    <3>2. [gen |-> g, kind |-> "err"] \in Messages /\ inbox[s] \in Seq(Messages)
      BY DEF Messages, TypeOK, LoopsTyped
    <3>3. Append(inbox[s], [gen |-> g, kind |-> "err"]) \in Seq(Messages)
      BY <3>2, AppendTells
    <3>4. Len(Append(inbox[s], [gen |-> g, kind |-> "err"])) <= InboxSize
      BY <3>1, <3>2, AppendTells, BoundAssumption
    <3> QED
      BY <3>1, <3>3, <3>4 DEF TypeOK, LoopsTyped
  <2>2. faults' \in 0 .. MaxFaults
    BY <1>2, FaultTyped DEF PumpError, TypeOK, ClocksTyped
  <2> QED
    BY <1>2, <2>1, <2>2 DEF PumpError, TypeOK, ClocksTyped, TermsTyped, MirrorTyped
<1>3. CASE PumpStops(s, g)
  BY <1>3 DEF PumpStops, TypeOK, ClocksTyped, LoopsTyped, TermsTyped, MirrorTyped
<1> QED
  BY <1>1, <1>2, <1>3 DEF PumpStep

LEMMA MessageTyped ==
    ASSUME TypeOK, NEW s \in Sessions, TakeMessage(s)
    PROVE  TypeOK'
<1> DEFINE msg == Head(inbox[s])
<1>1. /\ msg \in Messages /\ msg.gen \in Generations
      /\ inbox' \in [Sessions -> Seq(Messages)]
      /\ \A t \in Sessions : Len(inbox'[t]) <= InboxSize
  <2>1. inbox' = [inbox EXCEPT ![s] = Tail(@)]
    BY DEF TakeMessage
  <2>2. inbox[s] \in Seq(Messages) /\ inbox[s] # <<>>
    BY DEF TakeMessage, TypeOK, LoopsTyped
  <2>3. Len(inbox[s]) \in Nat /\ Len(inbox[s]) <= InboxSize
    BY <2>2 DEF TypeOK, LoopsTyped
  <2>4. /\ msg \in Messages /\ Tail(inbox[s]) \in Seq(Messages)
        /\ Len(Tail(inbox[s])) <= InboxSize
    BY <2>2, <2>3, TailTells, BoundAssumption
  <2>5. msg.gen \in Generations
    BY <2>4 DEF Messages
  <2> QED
    BY <2>1, <2>4, <2>5 DEF TypeOK, LoopsTyped
<1>2. CASE LeaseHeld(s, msg.gen) /\ msg.kind = "path"
  <2>1. /\ main' = [main EXCEPT ![s] = [at |-> "ingest", gen |-> msg.gen]]
        /\ fresh' = fresh \cup {<<s, msg.gen>>}
        /\ UNCHANGED <<up, seat, home, timer, beat, act, pump, open, noted, stale, faults>>
    BY <1>2 DEF TakeMessage
  <2>2. LoopsTyped' /\ MirrorTyped'
    BY <1>1, <2>1 DEF TypeOK, LoopsTyped, MirrorTyped, Places
  <2> QED
    BY <2>1, <2>2 DEF TypeOK, ClocksTyped, TermsTyped
<1>3. CASE ~(LeaseHeld(s, msg.gen) /\ msg.kind = "path")
  <2>1. /\ StandDown(s, msg.gen, Retry, FALSE)
        /\ UNCHANGED <<up, timer, beat, main, act, pump, stale, fresh, faults>>
    BY <1>3 DEF TakeMessage
  <2>2. /\ seat' \in Seats /\ home' \in [Sessions -> Homes]
        /\ open' \in [Sessions -> SUBSET Generations]
        /\ noted' \in [Sessions -> SUBSET Generations]
    BY <1>1, <2>1, StandDownTyped, Durations
  <2> QED
    BY <1>1, <2>1, <2>2 DEF TypeOK, ClocksTyped, LoopsTyped, TermsTyped, MirrorTyped
<1> QED
  BY <1>2, <1>3

LEMMA LoopTyped ==
    ASSUME TypeOK, NEW s \in Sessions,
           IngestOK(s) \/ IngestFailed(s) \/ Exit(s) \/ Cleanup(s)
    PROVE  TypeOK'
<1>1. main' \in [Sessions -> Places]
  <2>1. ASSUME NEW p \in Places, main' = [main EXCEPT ![s] = p] PROVE main' \in [Sessions -> Places]
    BY <2>1 DEF TypeOK, LoopsTyped
  <2>2. /\ Select \in Places /\ [main[s] EXCEPT !.at = "done"] \in Places
        /\ \A at \in {"exit", "broken"} : [at |-> at, gen |-> NoGen] \in Places
    BY DEF TypeOK, LoopsTyped, Places, Select
  <2>3. CASE Cleanup(s)
    BY <2>1, <2>2, <2>3 DEF Cleanup
  <2>4. CASE IngestOK(s) \/ IngestFailed(s) \/ Exit(s)
    BY <2>1, <2>2, <2>4 DEF IngestOK, IngestFailed, Exit
  <2> QED
    BY <2>3, <2>4
<1>2. faults' \in 0 .. MaxFaults
  BY FaultTyped DEF IngestOK, IngestFailed, Exit, Cleanup, TypeOK, ClocksTyped
<1>3. main[s].gen \in Generations \cup {NoGen}
  BY DEF TypeOK, LoopsTyped, Places
<1>4. /\ seat' \in Seats /\ home' \in [Sessions -> Homes]
      /\ open' \in [Sessions -> SUBSET Generations]
      /\ noted' \in [Sessions -> SUBSET Generations]
  <2>1. CASE UNCHANGED <<seat, home, open, noted>>
    BY <2>1 DEF TypeOK, TermsTyped
  <2>2. CASE IngestFailed(s)
    BY <1>3, <2>2, StandDownTyped, Durations DEF IngestFailed
  <2>3. CASE Cleanup(s)
    BY <2>3, StandDownTyped, Durations DEF Cleanup
  <2> QED
    BY <2>1, <2>2, <2>3 DEF IngestOK, Exit
<1>5. MirrorTyped'
  BY DEF IngestOK, IngestFailed, Exit, Cleanup, TypeOK, MirrorTyped
<1> QED
  BY <1>1, <1>2, <1>4, <1>5 DEF IngestOK, IngestFailed, Exit, Cleanup, TypeOK, ClocksTyped,
                                LoopsTyped, TermsTyped

LEMMA GoneTyped ==
    ASSUME TypeOK, NEW s \in Sessions, End(s) \/ Crash(s)
    PROVE  TypeOK'
<1>1. Gone(s) /\ UNCHANGED seat /\ faults' \in 0 .. MaxFaults
  BY FaultTyped DEF End, Crash, TypeOK, ClocksTyped
<1>2. IdleHome \in Homes
  BY DurationAssumption DEF IdleHome, Homes, Zero
<1>3. ClocksTyped'
  BY <1>1, DurationAssumption DEF Gone, TypeOK, ClocksTyped
<1>4. LoopsTyped'
  BY <1>1, BoundAssumption DEF Gone, TypeOK, LoopsTyped, Select, Places
<1>5. TermsTyped'
  BY <1>1 DEF Gone, TypeOK, TermsTyped, NoActs, ActSteps
<1> QED
  BY <1>1, <1>2, <1>3, <1>4, <1>5 DEF Gone, TypeOK, MirrorTyped

LEMMA TimeTyped ==
    ASSUME TypeOK, Tick \/ Rewrite
    PROVE  TypeOK'
<1>1. CASE Tick
  <2>1. seat' \in Seats
    <3>1. seat.left \in (-MaxDelay) .. Lease
      BY DEF TypeOK, Seats
    <3>2. CASE seat.left <= -MaxDelay
      BY <1>1, <3>1, <3>2 DEF Tick, TypeOK, Seats
    <3>3. CASE ~(seat.left <= -MaxDelay)
      <4>1. seat.left - 1 \in (-MaxDelay) .. Lease
        BY <3>1, <3>3, DurationAssumption
      <4> QED
        BY <1>1, <3>3, <4>1 DEF Tick, TypeOK, Seats
    <3> QED
      BY <3>2, <3>3
  <2>2. home' \in [Sessions -> Homes]
    BY <1>1, PassedTyped DEF Tick, TypeOK
  <2>3. ClocksTyped'
    <3>1. faults' \in 0 .. MaxFaults
      BY <1>1, FaultTyped DEF Tick, TypeOK, ClocksTyped
    <3>2. /\ \A n \in 0 .. Retry : AtLeastZero(n - 1) \in 0 .. Retry
          /\ \A n \in 0 .. HeartbeatEvery : AtLeastZero(n - 1) \in 0 .. HeartbeatEvery
      BY DurationAssumption DEF AtLeastZero
    <3> QED
      BY <1>1, <3>1, <3>2 DEF Tick, TypeOK, ClocksTyped
  <2> QED
    BY <1>1, <2>1, <2>2, <2>3 DEF Tick, TypeOK, LoopsTyped, TermsTyped, MirrorTyped
<1>2. CASE Rewrite
  BY <1>2 DEF Rewrite, TypeOK, ClocksTyped, LoopsTyped, TermsTyped, MirrorTyped
<1> QED
  BY <1>1, <1>2

LEMMA Typing == TypeOK /\ [Next]_vars => TypeOK'
<1> SUFFICES ASSUME TypeOK, [Next]_vars PROVE TypeOK'
  OBVIOUS
<1>1. CASE UNCHANGED vars
  BY <1>1 DEF vars, TypeOK, ClocksTyped, LoopsTyped, TermsTyped, MirrorTyped
<1>2. ASSUME NEW s \in Sessions, MainStep(s) PROVE TypeOK'
  BY <1>2, AttemptTyped, MessageTyped, LoopTyped, GoneTyped DEF MainStep, Attempts
<1> QED
  BY <1>1, <1>2, TimeTyped, HeartbeatTyped, ActivationTyped, PumpTyped DEF Next

-----------------------------------------------------------------------------
(***************************************************************************)
(* A step of one process leaves what the others hold, do and have to read   *)
(* as it is.  It may bring the mirror up to date for them.                  *)
(***************************************************************************)
SessionStep(s) ==
    MainStep(s) \/ Heartbeat(s) \/ \E g \in Generations : ActivationStep(s, g) \/ PumpStep(s, g)

Untouched(t) ==
    /\ home'[t] = home[t] /\ main'[t] = main[t] /\ inbox'[t] = inbox[t] /\ act'[t] = act[t]
    /\ pump'[t] = pump[t] /\ open'[t] = open[t] /\ noted'[t] = noted[t]
    /\ stale' => stale
    /\ \A g \in Generations : <<t, g>> \in fresh => <<t, g>> \in fresh'

LEMMA FailsTouchesOne ==
    ASSUME TypeOK, NEW s \in Sessions, NEW g \in Generations, ActivationFails(s, g),
           NEW t \in Sessions \ {s}
    PROVE  Untouched(t)
<1>1. StandDown(s, g, Retry, Canceled(s)) /\ Go(s, g, "none")
  BY DEF ActivationFails
<1>2. home'[t] = home[t] /\ open'[t] = open[t] /\ noted'[t] = noted[t]
  BY <1>1, StandDownEffect, Durations
<1>3. act'[t] = act[t]
  BY <1>1, GoTyped DEF ActSteps
<1> QED
  BY <1>2, <1>3 DEF ActivationFails, Untouched

LEMMA OthersRest ==
    ASSUME TypeOK, NEW s \in Sessions, SessionStep(s), NEW t \in Sessions \ {s}
    PROVE  Untouched(t)
<1>1. CASE Attempts(s)
  <2>1. home'[t] = home[t] /\ act'[t] = act[t]
    BY <1>1, AttemptTyped
  <2>2. UNCHANGED <<main, inbox, pump, open, noted, stale, fresh>>
    BY <1>1 DEF Attempts, AttemptSkipped, PrepareFailed, AttemptFailed, Standby, Acquire
  <2> QED
    BY <2>1, <2>2 DEF Untouched
<1>2. CASE TakeMessage(s)
  <2>1. Head(inbox[s]).gen \in Generations
    BY <1>2, TailTells DEF TakeMessage, TypeOK, LoopsTyped, Messages
  <2>2. home'[t] = home[t] /\ open'[t] = open[t] /\ noted'[t] = noted[t]
    BY <1>2, <2>1, StandDownEffect, Durations DEF TakeMessage
  <2> QED
    BY <1>2, <2>2 DEF TakeMessage, Untouched, TypeOK, LoopsTyped
<1>3. CASE IngestOK(s) \/ Exit(s)
  <2>1. main'[t] = main[t] /\ UNCHANGED <<home, inbox, act, pump, open, noted>>
    BY <1>3 DEF IngestOK, Exit, TypeOK, LoopsTyped
  <2>2. stale' => stale
    BY <1>3, Zenon DEF IngestOK, Exit
  <2>3. \A g \in Generations : <<t, g>> \in fresh => <<t, g>> \in fresh'
    BY <1>3 DEF IngestOK, Exit
  <2> QED
    BY <2>1, <2>2, <2>3 DEF Untouched
<1>4. CASE IngestFailed(s) \/ Cleanup(s)
  <2>1. main[s].gen \in Generations \cup {NoGen}
    BY DEF TypeOK, LoopsTyped, Places
  <2>2. home'[t] = home[t] /\ open'[t] = open[t] /\ noted'[t] = noted[t]
    BY <1>4, <2>1, StandDownEffect, Durations DEF IngestFailed, Cleanup
  <2>3. main'[t] = main[t]
    BY <1>4 DEF IngestFailed, Cleanup, TypeOK, LoopsTyped
  <2>4. UNCHANGED <<inbox, act, pump, stale>>
    BY <1>4 DEF IngestFailed, Cleanup
  <2>5. \A g \in Generations : <<t, g>> \in fresh => <<t, g>> \in fresh'
    BY <1>4 DEF IngestFailed, Cleanup
  <2> QED
    BY <2>2, <2>3, <2>4, <2>5 DEF Untouched
<1>5. CASE End(s) \/ Crash(s)
  BY <1>5 DEF End, Crash, Gone, Untouched, TypeOK, LoopsTyped, TermsTyped
<1>6. CASE Heartbeat(s)
  <2>1. home[s].gen \in Generations \cup {NoGen} /\ home[s].retryAt \in Zero .. Retry
    BY DEF TypeOK, Homes
  <2>2. home'[t] = home[t] /\ open'[t] = open[t] /\ noted'[t] = noted[t]
    BY <1>6, <2>1, StandDownEffect, RenewEffect, Durations DEF Heartbeat
  <2> QED
    BY <1>6, <2>2 DEF Heartbeat, Untouched
<1>7. ASSUME NEW g \in Generations, ActivationStep(s, g) PROVE Untouched(t)
  <2>1. CASE ActivationFails(s, g)
    BY <2>1, FailsTouchesOne
  <2>2. ASSUME NEW step \in ActSteps, Go(s, g, step) PROVE act'[t] = act[t]
    BY <2>2, GoTyped
  <2>3. CASE (Factory(s, g) \/ OpenSource(s, g) \/ SweepDone(s, g)) /\ ~ActivationFails(s, g)
    <3>1. act'[t] = act[t]
      BY <2>2, <2>3 DEF Factory, OpenSource, SweepDone, ActSteps
    <3>2. open'[t] = open[t] /\ UNCHANGED <<home, main, inbox, pump, noted>>
      BY <2>3 DEF Factory, OpenSource, SweepDone, TypeOK, TermsTyped
    <3>3. stale' => stale
      BY <2>3, Zenon DEF Factory, OpenSource, SweepDone
    <3>4. \A k \in Generations : <<t, k>> \in fresh => <<t, k>> \in fresh'
      BY <2>3 DEF Factory, OpenSource, SweepDone
    <3> QED
      BY <3>1, <3>2, <3>3, <3>4 DEF Untouched
  <2>4. CASE RecordSource(s, g)
    <3>1. act'[t] = act[t]
      BY <2>2, <2>4 DEF RecordSource, ActSteps
    <3>2. home'[t] = home[t] /\ open'[t] = open[t] /\ noted'[t] = noted[t]
      BY <2>4 DEF RecordSource, TypeOK, TermsTyped
    <3> QED
      BY <2>4, <3>1, <3>2 DEF RecordSource, Untouched
  <2>5. CASE StartPump(s, g) /\ ~ActivationFails(s, g)
    <3>1. act'[t] = act[t]
      BY <2>2, <2>5 DEF StartPump, ActSteps
    <3>2. home'[t] = home[t] /\ pump'[t] = pump[t]
      BY <2>5, RenewEffect, Durations DEF StartPump, TypeOK, TermsTyped
    <3> QED
      BY <2>5, <3>1, <3>2 DEF StartPump, Untouched
  <2> QED
    BY <1>7, <2>1, <2>3, <2>4, <2>5 DEF ActivationStep
<1>8. ASSUME NEW g \in Generations, PumpStep(s, g) PROVE Untouched(t)
  BY <1>8 DEF PumpStep, PumpPath, PumpError, PumpStops, Untouched, TypeOK, LoopsTyped, TermsTyped
<1> QED
  BY <1>1, <1>2, <1>3, <1>4, <1>5, <1>6, <1>7, <1>8 DEF SessionStep, MainStep, Attempts

LEMMA UntouchedWatches ==
    ASSUME TypeOK, NEW t \in Sessions, Watches(t), Untouched(t)
    PROVE  Watches(t)'
<1>1. IsWatching(t)'
  BY DEF Watches, Untouched, IsWatching, Serving, Told
<1>2. AccountsForSources(t)' /\ HoldsInOrder(t)'
  BY DEF Watches, Untouched, AccountsForSources, HoldsInOrder
<1>3. WillCatchUp(t)'
  <2>1. home[t].gen \in Generations \cup {NoGen}
    BY DEF TypeOK, Homes
  <2> QED
    BY <2>1 DEF Watches, Untouched, WillCatchUp, HoldsInOrder, Told
<1> QED
  BY <1>1, <1>2, <1>3 DEF Watches

-----------------------------------------------------------------------------
LEMMA StandDownCases ==
    ASSUME TypeOK, NEW s \in Sessions, NEW g \in Generations \cup {NoGen},
           NEW d \in {Retry, Zero}, NEW canceled, StandDown(s, g, d, canceled)
    PROVE  \/ g # NoGen /\ home[s].gen # g /\ UNCHANGED <<home, seat, open, noted>>
           \/ home'[s] = StoodDown(home[s], d) /\ open'[s] = open[s] \ {home[s].src}
<1>1. d \in Zero .. Retry
  BY Durations
<1> QED
  BY <1>1, StandDownEffect

(***************************************************************************)
(* A session's own steps.  Those that stand it down, or end it, leave       *)
(* nothing to watch and close the source.                                   *)
(***************************************************************************)
LEMMA StoodDownWatches ==
    ASSUME TypeOK, NEW s \in Sessions, NEW d \in Zero .. Retry, Watches(s),
           home'[s] = StoodDown(home[s], d), open'[s] = open[s] \ {home[s].src},
           \A g \in Generations :
               act'[s][g] = act[s][g] \/ (act[s][g] # "record" /\ act'[s][g] = "none")
    PROVE  Watches(s)'
<1>1. home[s] \in Homes /\ open[s] \subseteq Generations
  BY DEF TypeOK, TermsTyped
<1>2. ~home'[s].holding /\ home'[s].left = 0 /\ home'[s].src = NoGen
  BY <1>1 DEF StoodDown, Homes
<1>3. IsWatching(s)' /\ WillCatchUp(s)'
  BY <1>2 DEF IsWatching, WillCatchUp
<1>4. AccountsForSources(s)'
  BY <1>1, <1>2 DEF Watches, AccountsForSources
<1>5. HoldsInOrder(s)'
  BY <1>1, <1>2, NameAssumption DEF Watches, HoldsInOrder
<1> QED
  BY <1>3, <1>4, <1>5 DEF Watches

LEMMA GoneWatches ==
    ASSUME TypeOK, NEW s \in Sessions, End(s) \/ Crash(s)
    PROVE  Watches(s)'
<1>1. home'[s] = IdleHome /\ open'[s] = {} /\ act'[s] = NoActs
  BY DEF End, Crash, Gone, TypeOK, TermsTyped
<1>2. ~home'[s].holding /\ home'[s].left = 0 /\ home'[s].src = NoGen
  BY <1>1 DEF IdleHome
<1> QED
  BY <1>1, <1>2 DEF Watches, IsWatching, AccountsForSources, WillCatchUp, HoldsInOrder, NoActs

(***************************************************************************)
(* Steps that leave the term as it is.                                      *)
(***************************************************************************)
SameTerm(s) ==
    /\ home'[s].holding = home[s].holding /\ home'[s].gen = home[s].gen
    /\ home'[s].src = home[s].src
    /\ ~home[s].holding => home'[s].left = home[s].left

LEMMA SameTermWatches ==
    ASSUME TypeOK, NEW s \in Sessions, Watches(s), SameTerm(s), open'[s] = open[s],
           UNCHANGED <<main, inbox, act, pump, noted, stale, fresh>>
    PROVE  Watches(s)'
BY DEF Watches, SameTerm, IsWatching, AccountsForSources, WillCatchUp, HoldsInOrder, Serving, Told

LEMMA AttemptWatches ==
    ASSUME TypeOK, NEW s \in Sessions, Watches(s), Attempts(s)
    PROVE  Watches(s)'
<1>h. home[s] \in Homes
  BY DEF TypeOK
<1>1. CASE ~Acquire(s)
  <2>1. UNCHANGED <<main, inbox, act, pump, open, noted, stale, fresh>>
    BY <1>1 DEF Attempts, AttemptSkipped, PrepareFailed, AttemptFailed, Standby
  <2>2. SameTerm(s)
    <3>1. ASSUME NEW h, SetHome(s, h), h.holding = home[s].holding, h.gen = home[s].gen,
                 h.src = home[s].src, h.left = home[s].left
          PROVE  SameTerm(s)
      BY <3>1 DEF SetHome, SameTerm, TypeOK
    <3>2. CASE AttemptSkipped(s)
      BY <3>1, <3>2 DEF AttemptSkipped
    <3>3. CASE PrepareFailed(s)
      <4>1. SetHome(s, [home[s] EXCEPT !.retryAt = Retry, !.standby = Zero])
        BY <3>3 DEF PrepareFailed
      <4> QED
        BY <1>h, <3>1, <4>1 DEF Homes
    <3>4. CASE AttemptFailed(s)
      <4>1. \E d : SetHome(s, [home[s] EXCEPT !.prepared = TRUE, !.retryAt = d])
        BY <3>4 DEF AttemptFailed
      <4> QED
        BY <1>h, <3>1, <4>1 DEF Homes
    <3>5. CASE Standby(s)
      <4>1. \E d : SetHome(s, [home[s] EXCEPT !.prepared = TRUE, !.standby = d])
        BY <3>5 DEF Standby
      <4> QED
        BY <1>h, <3>1, <4>1 DEF Homes
    <3> QED
      BY <1>1, <3>2, <3>3, <3>4, <3>5 DEF Attempts
  <2> QED
    BY <2>1, <2>2, SameTermWatches
<1>2. CASE Acquire(s)
  <2> DEFINE n == NextGeneration(s)
  <2>1. n \in Generations /\ act[s][n] = "none" /\ n \notin open[s]
    BY <1>2, NextGenerationIsFree DEF Acquire, InUse
  <2>2. PICK age \in Ages : SetHome(s, [home[s] EXCEPT
                !.prepared = TRUE, !.holding = TRUE, !.standby = Zero,
                !.left = Lease - age, !.gen = n])
    BY <1>2 DEF Acquire
  <2>3. home'[s] = [home[s] EXCEPT !.prepared = TRUE, !.holding = TRUE, !.standby = Zero,
                                   !.left = Lease - age, !.gen = n]
    BY <2>2 DEF SetHome, TypeOK
  <2>4. home'[s].holding /\ home'[s].gen = n /\ home'[s].src = home[s].src
    BY <1>h, <2>3 DEF Homes
  <2>5. home[s].src = NoGen
    BY <1>2 DEF Acquire, Wants, Watches, AccountsForSources
  <2>6. act' = [act EXCEPT ![s][n] = "factory"] /\ UNCHANGED open
    BY <1>2 DEF Acquire
  <2>7. act'[s][n] = "factory" /\ \A g \in Generations \ {n} : act'[s][g] = act[s][g]
    BY <2>1, <2>6 DEF TypeOK, TermsTyped
  <2>8. open[s] \subseteq Generations
    BY DEF TypeOK, TermsTyped
  <2>9. n # NoGen
    BY <2>1, NameAssumption
  <2>10. AccountsForSources(s)'
    BY <2>1, <2>4, <2>5, <2>6, <2>7, <2>8 DEF Watches, AccountsForSources
  <2>11. IsWatching(s)' /\ WillCatchUp(s)'
    BY <2>4, <2>5, <2>7 DEF IsWatching, WillCatchUp
  <2>12. HoldsInOrder(s)'
    BY <2>4, <2>5, <2>6, <2>7, <2>9, NameAssumption DEF Watches, HoldsInOrder
  <2> QED
    BY <2>10, <2>11, <2>12 DEF Watches
<1> QED
  BY <1>1, <1>2

LEMMA HeartbeatWatches ==
    ASSUME TypeOK, NEW s \in Sessions, Watches(s), Heartbeat(s)
    PROVE  Watches(s)'
<1>1. UNCHANGED <<main, inbox, act, pump, stale, fresh>>
  BY DEF Heartbeat
<1>2. home[s].gen \in Generations \cup {NoGen} /\ home[s].retryAt \in Zero .. Retry
  BY DEF TypeOK, Homes
<1>3. CASE UNCHANGED <<home, open, noted>>
  BY <1>1, <1>3, SameTermWatches DEF SameTerm
<1>4. CASE home[s].holding /\ RenewSeat(s, home[s].retryAt) /\ UNCHANGED <<open, noted>>
  <2>1. SameTerm(s)
    BY <1>2, <1>4, RenewEffect DEF SameTerm
  <2> QED
    BY <1>1, <1>4, <2>1, SameTermWatches
<1>5. CASE home[s].holding /\ StandDown(s, home[s].gen, Retry, ~Serving(s))
  <2>1. home'[s] = StoodDown(home[s], Retry) /\ open'[s] = open[s] \ {home[s].src}
    BY <1>2, <1>5, StandDownEffect, Durations
  <2> QED
    BY <1>1, <2>1, StoodDownWatches, Durations
<1> QED
  BY <1>3, <1>4, <1>5 DEF Heartbeat

(***************************************************************************)
(* An activation: its term is watched by it until its pump runs, or it is   *)
(* stood down; the source it opened is recorded or closed.                  *)
(***************************************************************************)
LEMMA FailsWatches ==
    ASSUME TypeOK, NEW s \in Sessions, NEW g \in Generations, Watches(s),
           ActivationFails(s, g), act[s][g] # "record"
    PROVE  Watches(s)'
<1>1. StandDown(s, g, Retry, Canceled(s)) /\ Go(s, g, "none")
  BY DEF ActivationFails
<1>2. g # NoGen
  BY NameAssumption
<1>3. /\ act'[s][g] = "none" /\ \A k \in Generations \ {g} : act'[s][k] = act[s][k]
      /\ UNCHANGED <<main, inbox, pump, stale>>
      /\ \A k \in Generations \ {g} : <<s, k>> \in fresh => <<s, k>> \in fresh'
  BY <1>1, GoTyped DEF ActivationFails, ActSteps
<1>4. CASE home[s].gen # g /\ UNCHANGED <<home, seat, open, noted>>
  <2>1. home[s].gen \in Generations \cup {NoGen} /\ open[s] \subseteq Generations
    BY DEF TypeOK, Homes, TermsTyped
  <2>2. IsWatching(s)'
    BY <1>3, <1>4, <2>1 DEF Watches, IsWatching, HoldsInOrder, Serving, Told
  <2>3. AccountsForSources(s)' /\ HoldsInOrder(s)'
    <3>1. \A k \in Generations : act'[s][k] = act[s][k] \/ act'[s][k] = "none"
      BY <1>3
    <3> QED
      BY <1>3, <1>4, <2>1, <3>1 DEF Watches, AccountsForSources, HoldsInOrder
  <2>4. WillCatchUp(s)'
    BY <1>3, <1>4, <2>1 DEF Watches, WillCatchUp, HoldsInOrder, Told
  <2> QED
    BY <2>2, <2>3, <2>4 DEF Watches
<1>5. CASE home'[s] = StoodDown(home[s], Retry) /\ open'[s] = open[s] \ {home[s].src}
  <2>1. \A k \in Generations :
            act'[s][k] = act[s][k] \/ (act[s][k] # "record" /\ act'[s][k] = "none")
    BY <1>3
  <2> QED
    BY <1>5, <2>1, StoodDownWatches, Durations
<1> QED
  BY <1>1, <1>2, <1>4, <1>5, StandDownEffect, Durations

LEMMA ActivationWatches ==
    ASSUME TypeOK, NEW s \in Sessions, NEW g \in Generations, Watches(s), ActivationStep(s, g)
    PROVE  Watches(s)'
<1>h. home[s] \in Homes /\ home[s].gen \in Generations \cup {NoGen} /\ open[s] \subseteq Generations
  BY DEF TypeOK, Homes, TermsTyped
<1>n. g # NoGen
  BY NameAssumption
<1>0. ASSUME NEW step \in ActSteps, Go(s, g, step)
      PROVE  act'[s][g] = step /\ \A k \in Generations \ {g} : act'[s][k] = act[s][k]
  BY <1>0, GoTyped
<1>1. CASE ActivationFails(s, g) /\ ~RecordSource(s, g)
  <2>1. act[s][g] # "record"
    BY <1>1 DEF ActivationStep, Factory, OpenSource, SweepDone, StartPump
  <2> QED
    BY <1>1, <2>1, FailsWatches
<1>2. CASE Factory(s, g) /\ ~ActivationFails(s, g)
  <2>1. /\ act'[s][g] = "source" /\ act[s][g] = "factory"
        /\ \A k \in Generations \ {g} : act'[s][k] = act[s][k]
        /\ UNCHANGED <<home, main, inbox, pump, open, noted, stale, fresh>>
    BY <1>0, <1>2 DEF Factory, ActSteps
  <2>2. IsWatching(s)'
    BY <1>h, <2>1 DEF Watches, IsWatching, HoldsInOrder, Serving, Told
  <2>3. AccountsForSources(s)' /\ HoldsInOrder(s)' /\ WillCatchUp(s)'
    BY <1>h, <2>1 DEF Watches, AccountsForSources, HoldsInOrder, WillCatchUp, Told
  <2> QED
    BY <2>2, <2>3 DEF Watches
<1>3. CASE OpenSource(s, g) /\ ~ActivationFails(s, g)
  <2>1. /\ act[s][g] = "source"
        /\ \A k \in Generations \ {g} : act'[s][k] = act[s][k]
        /\ UNCHANGED <<home, main, inbox, pump, noted, stale, fresh>>
        /\ \/ ~TermIsOn(s, g) /\ act'[s][g] = "none" /\ open'[s] = open[s]
           \/ TermIsOn(s, g) /\ act'[s][g] = "record" /\ open'[s] = open[s] \cup {g}
    BY <1>0, <1>3 DEF OpenSource, ActSteps, TypeOK, TermsTyped
  <2>2. IsWatching(s)'
    BY <1>h, <2>1 DEF Watches, IsWatching, HoldsInOrder, Serving, Told, TermIsOn
  <2>3. AccountsForSources(s)' /\ HoldsInOrder(s)' /\ WillCatchUp(s)'
    BY <1>h, <2>1 DEF Watches, AccountsForSources, HoldsInOrder, WillCatchUp, Told
  <2> QED
    BY <2>2, <2>3 DEF Watches
<1>4. CASE RecordSource(s, g) /\ TermIsOn(s, g)
  <2>1. /\ home' = [home EXCEPT ![s].src = g]
        /\ fresh' = fresh \cup {<<s, g>>}
        /\ UNCHANGED <<main, inbox, pump, open, noted, stale>>
    BY <1>4 DEF RecordSource
  <2>2. /\ act[s][g] = "record" /\ act'[s][g] = "sweep"
        /\ \A k \in Generations \ {g} : act'[s][k] = act[s][k]
    BY <1>0, <1>4 DEF RecordSource, ActSteps
  <2>3. home'[s] = [home[s] EXCEPT !.src = g]
    BY <2>1 DEF TypeOK
  <2>4. /\ home'[s].holding = home[s].holding /\ home'[s].gen = home[s].gen
        /\ home'[s].left = home[s].left /\ home'[s].src = g
    BY <1>h, <2>3 DEF Homes
  <2>5. home[s].gen = g /\ home[s].holding
    BY <1>4 DEF TermIsOn
  <2>6. /\ \A k \in open[s] : home[s].src = k \/ act[s][k] = "record"
        /\ home[s].src # NoGen => home[s].src = g
        /\ g \in open[s]
    BY <2>2, <2>5 DEF Watches, AccountsForSources, HoldsInOrder
  <2>7. IsWatching(s)' /\ WillCatchUp(s)'
    BY <2>1, <2>2, <2>4, <2>5 DEF IsWatching, WillCatchUp
  <2>8. AccountsForSources(s)'
    <3>1. \A k \in open[s] : k = g \/ act'[s][k] = "record"
      BY <1>h, <2>2, <2>6, NameAssumption
    <3> QED
      BY <2>1, <2>4, <2>5, <3>1 DEF AccountsForSources
  <2>9. HoldsInOrder(s)'
    BY <1>n, <2>1, <2>2, <2>4, <2>5, <2>6 DEF Watches, HoldsInOrder
  <2> QED
    BY <2>7, <2>8, <2>9 DEF Watches
<1>5. CASE RecordSource(s, g) /\ ~TermIsOn(s, g)
  <2>1. /\ open'[s] = open[s] \ {g} /\ noted'[s] = noted[s] \ {g}
        /\ UNCHANGED <<home, main, inbox, pump, stale, fresh>>
    BY <1>5 DEF RecordSource, TypeOK, TermsTyped
  <2>2. act'[s][g] = "none" /\ \A k \in Generations \ {g} : act'[s][k] = act[s][k]
    BY <1>0, <1>5 DEF RecordSource, ActSteps
  <2>3. ~(home[s].holding /\ home[s].gen = g) /\ home[s].src # g
    BY <1>5, <1>n DEF TermIsOn, Watches, AccountsForSources
  <2>4. IsWatching(s)'
    BY <1>h, <2>1, <2>2, <2>3 DEF Watches, IsWatching, HoldsInOrder, Serving, Told
  <2>5. AccountsForSources(s)' /\ HoldsInOrder(s)' /\ WillCatchUp(s)'
    <3>1. home[s].src # NoGen => home[s].gen # g
      BY <2>3 DEF Watches, AccountsForSources
    <3>2. WillCatchUp(s)'
      BY <2>1, <3>1 DEF Watches, WillCatchUp, Told
    <3>3. AccountsForSources(s)' /\ HoldsInOrder(s)'
      BY <1>h, <2>1, <2>2, <2>3 DEF Watches, AccountsForSources, HoldsInOrder
    <3> QED
      BY <3>2, <3>3
  <2> QED
    BY <2>4, <2>5 DEF Watches
<1>6. CASE SweepDone(s, g) /\ ~ActivationFails(s, g)
  <2>1. /\ act[s][g] = "sweep" /\ act'[s][g] = "renew"
        /\ \A k \in Generations \ {g} : act'[s][k] = act[s][k]
        /\ UNCHANGED <<home, main, inbox, pump, open, noted>>
    BY <1>0, <1>6 DEF SweepDone, ActSteps
  <2>2. stale' => stale /\ fresh' = fresh
    <3>1. stale' = (stale /\ <<s, g>> \notin fresh) /\ fresh' = fresh \ {<<s, g>>}
      BY <1>6, Zenon DEF SweepDone
    <3>2. stale' => stale /\ <<s, g>> \notin fresh
      BY <3>1, Zenon
    <3> QED
      BY <3>1, <3>2
  <2>3. IsWatching(s)'
    BY <1>h, <2>1 DEF Watches, IsWatching, HoldsInOrder, Serving, Told
  <2>4. AccountsForSources(s)' /\ HoldsInOrder(s)' /\ WillCatchUp(s)'
    BY <1>h, <2>1, <2>2 DEF Watches, AccountsForSources, HoldsInOrder, WillCatchUp, Told
  <2> QED
    BY <2>3, <2>4 DEF Watches
<1>7. CASE StartPump(s, g) /\ ~ActivationFails(s, g)
  <2>1. /\ act[s][g] = "renew"
        /\ \A k \in Generations \ {g} : act'[s][k] = act[s][k]
        /\ UNCHANGED <<main, inbox, open, noted, stale, fresh>>
    BY <1>0, <1>7 DEF StartPump, ActSteps
  <2>2. CASE ~TermIsOn(s, g)
    <3>1. UNCHANGED <<home, pump>> /\ act'[s][g] = "none"
      BY <1>0, <1>7, <2>2 DEF StartPump, ContextLive, ActSteps
    <3>2. IsWatching(s)'
      BY <1>h, <2>1, <2>2, <3>1 DEF Watches, IsWatching, HoldsInOrder, Serving, Told, TermIsOn
    <3>3. AccountsForSources(s)' /\ HoldsInOrder(s)'
      BY <1>h, <2>1, <3>1 DEF Watches, AccountsForSources, HoldsInOrder
    <3>4. WillCatchUp(s)'
      BY <2>1, <3>1 DEF Watches, WillCatchUp, Told
    <3> QED
      BY <3>2, <3>3, <3>4 DEF Watches
  <2>3. CASE TermIsOn(s, g)
    <3>1. RenewSeat(s, Zero) /\ pump' = [pump EXCEPT ![s] = @ \cup {g}] /\ act'[s][g] = "none"
      BY <1>0, <1>7, <2>3 DEF StartPump, ActSteps
    <3>2. SameTerm(s) /\ home[s].holding /\ home[s].gen = g
      BY <2>3, <3>1, RenewEffect, Durations DEF SameTerm, TermIsOn
    <3>3. g \in pump'[s]
      BY <3>1 DEF TypeOK, TermsTyped
    <3>4. IsWatching(s)'
      BY <3>2, <3>3 DEF IsWatching, SameTerm
    <3>5. AccountsForSources(s)' /\ HoldsInOrder(s)'
      BY <1>h, <2>1, <3>1, <3>2 DEF Watches, AccountsForSources, HoldsInOrder, SameTerm
    <3>6. WillCatchUp(s)'
      BY <2>1, <3>2 DEF Watches, WillCatchUp, SameTerm, Told
    <3> QED
      BY <3>4, <3>5, <3>6 DEF Watches
  <2> QED
    BY <2>2, <2>3
<1> QED
  BY <1>1, <1>2, <1>3, <1>4, <1>5, <1>6, <1>7 DEF ActivationStep

(***************************************************************************)
(* A pump hands a change on before it forgets it, and an error before it    *)
(* ends; the main loop reads a change before it forgets it, and stands the  *)
(* term of an error down.                                                   *)
(***************************************************************************)
LEMMA PumpWatches ==
    ASSUME TypeOK, NEW s \in Sessions, NEW g \in Generations, Watches(s), PumpStep(s, g)
    PROVE  Watches(s)'
<1>q. inbox[s] \in Seq(Messages)
  BY DEF TypeOK, LoopsTyped
<1>k. AccountsForSources(s)' /\ HoldsInOrder(s)'
  <2>1. UNCHANGED <<home, open, act>>
    BY DEF PumpStep, PumpPath, PumpError, PumpStops
  <2> QED
    BY <2>1 DEF Watches, AccountsForSources, HoldsInOrder
<1>1. ASSUME NEW kind \in {"path", "err"},
             inbox' = [inbox EXCEPT ![s] = Append(@, [gen |-> g, kind |-> kind])]
      PROVE  Told(s, g, kind)' /\ \A k, d : Told(s, k, d) => Told(s, k, d)'
  <2>1. [gen |-> g, kind |-> kind] \in Messages
    BY DEF Messages
  <2>2. inbox'[s] = Append(inbox[s], [gen |-> g, kind |-> kind])
    BY <1>1 DEF TypeOK, LoopsTyped
  <2>3. /\ Has(inbox'[s], [gen |-> g, kind |-> kind])
        /\ \A x : Has(inbox[s], x) => Has(inbox'[s], x)
    BY <1>q, <2>1, <2>2, AppendTells
  <2> QED
    BY <2>3 DEF Told, Has
<1>2. CASE PumpPath(s, g)
  <2>1. /\ UNCHANGED <<home, main, act, pump, stale, fresh>>
        /\ \A k \in Generations \ {g} : k \in noted[s] => k \in noted'[s]
    BY <1>2 DEF PumpPath, TypeOK, TermsTyped
  <2>2. Told(s, g, "path")' /\ \A k, d : Told(s, k, d) => Told(s, k, d)'
    BY <1>1, <1>2 DEF PumpPath
  <2>3. home[s].gen \in Generations \cup {NoGen}
    BY DEF TypeOK, Homes
  <2>4. IsWatching(s)'
    BY <2>1, <2>2 DEF Watches, IsWatching, Serving
  <2>5. WillCatchUp(s)'
    BY <2>1, <2>2, <2>3 DEF Watches, WillCatchUp, HoldsInOrder
  <2> QED
    BY <1>k, <2>4, <2>5 DEF Watches
<1>3. CASE PumpError(s, g)
  <2>1. /\ UNCHANGED <<home, main, act, noted, stale, fresh>>
        /\ \A k \in Generations \ {g} : k \in pump[s] => k \in pump'[s]
    BY <1>3 DEF PumpError, TypeOK, TermsTyped
  <2>2. Told(s, g, "err")' /\ \A k, d : Told(s, k, d) => Told(s, k, d)'
    BY <1>1, <1>3 DEF PumpError
  <2>3. home[s].gen \in Generations \cup {NoGen}
    BY DEF TypeOK, Homes
  <2>4. IsWatching(s)'
    BY <2>1, <2>2, <2>3 DEF Watches, IsWatching, HoldsInOrder, Serving
  <2>5. WillCatchUp(s)'
    BY <2>1, <2>2 DEF Watches, WillCatchUp
  <2> QED
    BY <1>k, <2>4, <2>5 DEF Watches
<1>4. CASE PumpStops(s, g)
  <2>1. /\ UNCHANGED <<home, main, inbox, act, noted, stale, fresh>>
        /\ \A k \in Generations \ {g} : k \in pump[s] => k \in pump'[s]
        /\ ~ContextLive(s, g)
    BY <1>4 DEF PumpStops, TypeOK, TermsTyped
  <2>2. home[s].gen \in Generations \cup {NoGen}
    BY DEF TypeOK, Homes
  <2>3. IsWatching(s)'
    BY <2>1, <2>2
    DEF Watches, IsWatching, HoldsInOrder, Serving, Canceled, ContextLive, TermIsOn, Told
  <2>4. WillCatchUp(s)'
    BY <2>1 DEF Watches, WillCatchUp, Told
  <2> QED
    BY <1>k, <2>3, <2>4 DEF Watches
<1> QED
  BY <1>2, <1>3, <1>4 DEF PumpStep

LEMMA MessageWatches ==
    ASSUME TypeOK, NEW s \in Sessions, Watches(s), TakeMessage(s)
    PROVE  Watches(s)'
<1> DEFINE msg == Head(inbox[s])
<1>1. inbox[s] \in Seq(Messages) /\ inbox[s] # <<>> /\ inbox'[s] = Tail(inbox[s])
  BY DEF TakeMessage, TypeOK, LoopsTyped
<1>2. msg \in Messages /\ msg = [gen |-> msg.gen, kind |-> msg.kind] /\ msg.gen \in Generations
  BY <1>1, TailTells DEF Messages
<1>3. \A g, kind : Told(s, g, kind) /\ (g # msg.gen \/ kind # msg.kind) => Told(s, g, kind)'
  <2>1. \A x : Has(inbox[s], x) /\ x # msg => Has(inbox'[s], x)
    BY <1>1, TailTells
  <2>2. \A g, kind : g # msg.gen \/ kind # msg.kind => [gen |-> g, kind |-> kind] # msg
    BY <1>2
  <2> QED
    BY <2>1, <2>2 DEF Told, Has
<1>4. UNCHANGED <<act, pump, stale>> /\ main[s].at = "select"
  BY DEF TakeMessage
<1>5. CASE LeaseHeld(s, msg.gen) /\ msg.kind = "path"
  <2>1. /\ UNCHANGED <<home, open, noted>>
        /\ fresh' = fresh \cup {<<s, msg.gen>>}
    BY <1>5 DEF TakeMessage
  <2>2. IsWatching(s)'
    BY <1>3, <1>4, <1>5, <2>1 DEF Watches, IsWatching, Serving
  <2>3. WillCatchUp(s)'
    BY <1>3, <1>4, <1>5, <2>1 DEF Watches, WillCatchUp, LeaseHeld, TermIsOn
  <2>4. AccountsForSources(s)' /\ HoldsInOrder(s)'
    BY <1>4, <2>1 DEF Watches, AccountsForSources, HoldsInOrder
  <2> QED
    BY <2>2, <2>3, <2>4 DEF Watches
<1>6. CASE ~(LeaseHeld(s, msg.gen) /\ msg.kind = "path")
  <2>1. StandDown(s, msg.gen, Retry, FALSE) /\ UNCHANGED <<main, fresh>>
    BY <1>6 DEF TakeMessage
  <2>2. msg.gen # NoGen
    BY <1>2, NameAssumption
  <2>3. CASE home[s].gen # msg.gen /\ UNCHANGED <<home, seat, open, noted>>
    <3>1. IsWatching(s)'
      BY <1>3, <1>4, <2>1, <2>3 DEF Watches, IsWatching, Serving
    <3>2. WillCatchUp(s)'
      BY <1>3, <1>4, <2>1, <2>3 DEF Watches, WillCatchUp
    <3>3. AccountsForSources(s)' /\ HoldsInOrder(s)'
      BY <1>4, <2>3 DEF Watches, AccountsForSources, HoldsInOrder
    <3> QED
      BY <3>1, <3>2, <3>3 DEF Watches
  <2>4. CASE home'[s] = StoodDown(home[s], Retry) /\ open'[s] = open[s] \ {home[s].src}
    BY <1>4, <2>4, StoodDownWatches, Durations
  <2> QED
    BY <1>2, <2>1, <2>3, <2>4, StandDownCases
<1> QED
  BY <1>5, <1>6

LEMMA LoopWatches ==
    ASSUME TypeOK, NEW s \in Sessions, Watches(s),
           IngestOK(s) \/ IngestFailed(s) \/ Exit(s) \/ Cleanup(s)
    PROVE  Watches(s)'
<1>1. CASE IngestOK(s)
  <2>1. /\ UNCHANGED <<home, inbox, act, pump, open, noted>>
        /\ main[s].at = "ingest"
    BY <1>1 DEF IngestOK
  <2>2. stale' => stale /\ fresh' = fresh
    <3>1. /\ stale' = (stale /\ <<s, main[s].gen>> \notin fresh)
          /\ fresh' = fresh \ {<<s, main[s].gen>>}
      BY <1>1, Zenon DEF IngestOK
    <3>2. stale' => stale /\ <<s, main[s].gen>> \notin fresh
      BY <3>1, Zenon
    <3> QED
      BY <3>1, <3>2
  <2>3. IsWatching(s)'
    BY <2>1 DEF Watches, IsWatching, Serving, Told
  <2>4. AccountsForSources(s)' /\ HoldsInOrder(s)' /\ WillCatchUp(s)'
    BY <2>1, <2>2 DEF Watches, AccountsForSources, HoldsInOrder, WillCatchUp, Told
  <2> QED
    BY <2>3, <2>4 DEF Watches
<1>2. CASE IngestFailed(s)
  <2>1. /\ StandDown(s, main[s].gen, Retry, FALSE) /\ main[s].at = "ingest"
        /\ fresh' = fresh \ {<<s, main[s].gen>>}
        /\ UNCHANGED <<inbox, act, pump, stale>>
    BY <1>2 DEF IngestFailed
  <2>2. main[s].gen \in Generations \cup {NoGen}
    BY DEF TypeOK, LoopsTyped, Places
  <2>3. CASE home[s].gen # main[s].gen /\ UNCHANGED <<home, seat, open, noted>>
    <3>1. IsWatching(s)'
      BY <2>1, <2>3 DEF Watches, IsWatching, Serving, Told
    <3>2. AccountsForSources(s)' /\ HoldsInOrder(s)' /\ WillCatchUp(s)'
      BY <2>1, <2>3 DEF Watches, AccountsForSources, HoldsInOrder, WillCatchUp, Told
    <3> QED
      BY <3>1, <3>2 DEF Watches
  <2>4. CASE home'[s] = StoodDown(home[s], Retry) /\ open'[s] = open[s] \ {home[s].src}
    BY <2>1, <2>4, StoodDownWatches, Durations
  <2> QED
    BY <2>1, <2>2, <2>3, <2>4, StandDownCases
<1>3. CASE Exit(s)
  <2>1. /\ UNCHANGED <<home, inbox, act, pump, open, noted, stale, fresh>>
        /\ main'[s].at \in {"exit", "broken"}
    BY <1>3 DEF Exit, TypeOK, LoopsTyped
  <2>2. IsWatching(s)'
    BY <2>1 DEF IsWatching, Serving
  <2>3. AccountsForSources(s)' /\ HoldsInOrder(s)' /\ WillCatchUp(s)'
    BY <2>1 DEF Watches, AccountsForSources, HoldsInOrder, WillCatchUp, Told
  <2> QED
    BY <2>2, <2>3 DEF Watches
<1>4. CASE Cleanup(s)
  <2>1. StandDown(s, NoGen, Zero, FALSE) /\ UNCHANGED act
    BY <1>4 DEF Cleanup
  <2>2. home'[s] = StoodDown(home[s], Zero) /\ open'[s] = open[s] \ {home[s].src}
    BY <2>1, StandDownCases
  <2> QED
    BY <2>1, <2>2, StoodDownWatches, Durations
<1> QED
  BY <1>1, <1>2, <1>3, <1>4

(***************************************************************************)
(* Time changes no term; a rewrite is noted by every open source.           *)
(***************************************************************************)
LEMMA TickWatches ==
    ASSUME TypeOK, NEW s \in Sessions, Watches(s), Tick
    PROVE  Watches(s)'
<1>1. home[s] \in Homes
  BY DEF TypeOK
<1>2. home'[s] = [home[s] EXCEPT !.left = AtLeastZero(home[s].left - 1),
                                 !.retryAt = Later(home[s].retryAt),
                                 !.standby = Later(home[s].standby)]
  BY DEF Tick
<1>3. /\ home'[s].holding = home[s].holding /\ home'[s].gen = home[s].gen
      /\ home'[s].src = home[s].src /\ home'[s].left = AtLeastZero(home[s].left - 1)
  BY <1>1, <1>2 DEF Homes
<1>4. home[s].left = 0 => home'[s].left = 0
  BY <1>3 DEF AtLeastZero
<1>5. UNCHANGED <<main, inbox, act, pump, open, noted, stale, fresh>>
  BY DEF Tick
<1>6. IsWatching(s)' /\ WillCatchUp(s)'
  BY <1>3, <1>5 DEF Watches, IsWatching, WillCatchUp, Serving, Told
<1>7. AccountsForSources(s)' /\ HoldsInOrder(s)'
  BY <1>3, <1>4, <1>5 DEF Watches, AccountsForSources, HoldsInOrder
<1> QED
  BY <1>6, <1>7 DEF Watches

LEMMA RewriteWatches ==
    ASSUME TypeOK, NEW s \in Sessions, Watches(s), Rewrite
    PROVE  Watches(s)'
<1>1. UNCHANGED <<home, main, inbox, act, pump, open>> /\ noted' = open
  BY DEF Rewrite
<1>2. IsWatching(s)'
  BY <1>1 DEF Watches, IsWatching, Serving, Told
<1>3. AccountsForSources(s)' /\ HoldsInOrder(s)'
  BY <1>1 DEF Watches, AccountsForSources, HoldsInOrder
<1>4. WillCatchUp(s)'
  BY <1>1 DEF Watches, WillCatchUp, AccountsForSources, HoldsInOrder
<1> QED
  BY <1>2, <1>3, <1>4 DEF Watches

LEMMA StutterWatches ==
    ASSUME NEW s \in Sessions, Watches(s), UNCHANGED vars
    PROVE  Watches(s)'
BY DEF vars, Watches, IsWatching, AccountsForSources, WillCatchUp, HoldsInOrder, Serving, Told

-----------------------------------------------------------------------------
LEMMA InitHolds == Init => ResidentInv
<1> SUFFICES ASSUME Init PROVE ResidentInv
  OBVIOUS
<1>1. IdleHome \in Homes /\ [token |-> NoSession, left |-> -MaxDelay] \in Seats
  BY DurationAssumption DEF IdleHome, Homes, Seats, Zero
<1>2. ClocksTyped /\ LoopsTyped /\ TermsTyped /\ MirrorTyped
  BY DurationAssumption, BoundAssumption
  DEF Init, ClocksTyped, LoopsTyped, TermsTyped, MirrorTyped, Select, Places, NoActs, ActSteps
<1>3. TypeOK
  BY <1>1, <1>2 DEF Init, TypeOK
<1>4. ASSUME NEW s \in Sessions PROVE Watches(s)
  BY DEF Init, IdleHome, NoActs, Watches, IsWatching, AccountsForSources, WillCatchUp, HoldsInOrder
<1> QED
  BY <1>3, <1>4 DEF ResidentInv

LEMMA StepKeeps == ResidentInv /\ [Next]_vars => ResidentInv'
<1> SUFFICES ASSUME ResidentInv, [Next]_vars PROVE ResidentInv'
  OBVIOUS
<1>1. TypeOK /\ TypeOK' /\ \A s \in Sessions : Watches(s)
  BY Typing DEF ResidentInv
<1>2. ASSUME NEW t \in Sessions PROVE Watches(t)'
  <2>1. CASE Tick \/ Rewrite \/ UNCHANGED vars
    BY <1>1, <2>1, TickWatches, RewriteWatches, StutterWatches
  <2>2. ASSUME NEW s \in Sessions, SessionStep(s), t # s PROVE Watches(t)'
    BY <1>1, <2>2, OthersRest, UntouchedWatches
  <2>3. CASE SessionStep(t)
    <3>1. CASE MainStep(t)
      BY <1>1, <3>1, AttemptWatches, MessageWatches, LoopWatches, GoneWatches DEF MainStep, Attempts
    <3>2. CASE Heartbeat(t)
      BY <1>1, <3>2, HeartbeatWatches
    <3>3. ASSUME NEW g \in Generations, ActivationStep(t, g) \/ PumpStep(t, g) PROVE Watches(t)'
      BY <1>1, <3>3, ActivationWatches, PumpWatches
    <3> QED
      BY <2>3, <3>1, <3>2, <3>3 DEF SessionStep
  <2> QED
    BY <2>1, <2>2, <2>3 DEF Next, SessionStep
<1> QED
  BY <1>1, <1>2 DEF ResidentInv

(***************************************************************************)
(* resident.go: the invariant from which the next four theorems follow.     *)
(***************************************************************************)
THEOREM Inductive == Spec => []ResidentInv
<1>1. Init => ResidentInv
  BY InitHolds
<1>2. ResidentInv /\ [Next]_vars => ResidentInv'
  BY StepKeeps
<1> QED
  BY <1>1, <1>2, PTL DEF Spec

(***************************************************************************)
(* leasedHome, the channel of messages and the timers keep their types: no  *)
(* deadline is further ahead than the lease, no attempt than the retry, and *)
(* the channel holds no more than it can.                                   *)
(***************************************************************************)
THEOREM ResidentTyped == Spec => []TypeOK
<1>1. ResidentInv => TypeOK
  BY DEF ResidentInv
<1> QED
  BY <1>1, Inductive, PTL

(***************************************************************************)
(* A session that serves and holds the home has an activation under way, a  *)
(* pump, or a message on its way that stands it down (activateWatchHome,    *)
(* pumpWatch, the main loop).                                               *)
(***************************************************************************)
THEOREM WhoHoldsWatches == Spec => []HolderIsWatching
<1>1. ResidentInv => HolderIsWatching
  BY DEF ResidentInv, Watches, HolderIsWatching
<1> QED
  BY <1>1, Inductive, PTL

(***************************************************************************)
(* Every file source that is open belongs to the term that is on, or to an  *)
(* activation that will record or close it (activateWatchHome,              *)
(* standDownWatchHomeLocked).                                               *)
(***************************************************************************)
THEOREM NoSourceIsLeftOpen == Spec => []SourcesAccounted
<1>1. ResidentInv => SourcesAccounted
  BY DEF ResidentInv, Watches, SourcesAccounted
<1> QED
  BY <1>1, Inductive, PTL

(***************************************************************************)
(* From the moment its source is recorded, what the mirror of a holder      *)
(* lacks is noted, queued, or being read (activateWatchHome opens before it *)
(* sweeps; pumpWatch and the main loop hand on before they forget).         *)
(***************************************************************************)
THEOREM NoRewriteIsMissed == Spec => []RewriteIsPending
<1>1. ResidentInv => RewriteIsPending
  BY DEF ResidentInv, Watches, RewriteIsPending
<1> QED
  BY <1>1, Inductive, PTL

-----------------------------------------------------------------------------
(***************************************************************************)
(* The lease protocol.  Its functions of holders and deadlines are fields   *)
(* of the structs.                                                          *)
(***************************************************************************)
Held == [s \in Sessions |-> home[s].holding]
Left == [s \in Sessions |-> home[s].left]

SameBeliefs(t) == home'[t].holding = home[t].holding /\ home'[t].left = home[t].left

LEMMA OneMoves ==
    ASSUME NEW s \in Sessions, \A t \in Sessions \ {s} : SameBeliefs(t)
    PROVE  /\ Held' = [Held EXCEPT ![s] = home'[s].holding]
           /\ Left' = [Left EXCEPT ![s] = home'[s].left]
BY DEF Held, Left, SameBeliefs

LEMMA NoneMoves ==
    ASSUME \A t \in Sessions : SameBeliefs(t), UNCHANGED <<up, seat>>
    PROVE  UNCHANGED L!vars
<1>1. Held' = Held /\ Left' = Left
  BY DEF Held, Left, SameBeliefs
<1> QED
  BY <1>1 DEF L!vars, Held, Left

LEMMA StandDownIsForget ==
    ASSUME TypeOK, NEW s \in Sessions, s \in up, Watches(s), NEW d \in {Retry, Zero},
           NEW g \in Generations \cup {NoGen}, NEW canceled, StandDown(s, g, d, canceled),
           UNCHANGED up
    PROVE  [L!Next]_(L!vars)
<1>0. d \in Zero .. Retry
  BY Durations
<1>1. /\ \A t \in Sessions \ {s} : home'[t] = home[t]
      /\ \/ UNCHANGED <<home, seat>>
         \/ /\ home'[s] = StoodDown(home[s], d)
            /\ \/ UNCHANGED seat
               \/ /\ home[s].holding /\ seat.token = s
                  /\ \E age \in Ages : seat' = [seat EXCEPT !.left = -age]
  BY <1>0, StandDownEffect
<1>2. CASE UNCHANGED <<home, seat>>
  BY <1>2, NoneMoves DEF SameBeliefs
<1>3. CASE home'[s] = StoodDown(home[s], d)
  <2>1. home'[s].holding = FALSE /\ home'[s].left = 0
    BY <1>3 DEF StoodDown, TypeOK, Homes
  <2>2. Held' = [Held EXCEPT ![s] = FALSE] /\ Left' = [Left EXCEPT ![s] = 0]
    BY <1>1, <2>1, OneMoves DEF SameBeliefs
  <2>3. CASE ~home[s].holding
    <3>1. home[s].left = 0 /\ home[s].holding = FALSE
      BY <2>3 DEF Watches, HoldsInOrder, TypeOK, Homes
    <3>2. UNCHANGED seat
      BY <1>1, <2>3
    <3> QED
      BY <1>1, <2>1, <2>3, <3>1, <3>2, NoneMoves DEF SameBeliefs
  <2>4. CASE home[s].holding
    <3>1. L!Forget(s)
      BY <2>2, <2>4 DEF L!Forget, Held, Left
    <3>2. CASE UNCHANGED seat
      BY <3>1, <3>2 DEF L!StandDownUnreleased, L!SessionStep, L!Next
    <3>3. ASSUME NEW age \in Ages, seat.token = s, seat' = [seat EXCEPT !.left = -age]
          PROVE  L!Next
      <4>1. L!StandDown(s, age)
        BY <3>1, <3>3 DEF L!StandDown, L!LockFree
      <4> QED
        BY <4>1 DEF L!SessionStep, L!Next, Ages
    <3> QED
      BY <1>1, <1>3, <2>4, <3>2, <3>3
  <2> QED
    BY <2>3, <2>4
<1> QED
  BY <1>1, <1>2, <1>3

LEMMA RenewIsRenew ==
    ASSUME TypeOK, NEW s \in Sessions, s \in up, home[s].holding, NEW d \in Zero .. Retry,
           RenewSeat(s, d), UNCHANGED up
    PROVE  [L!Next]_(L!vars)
<1>1. PICK age \in Ages :
          /\ home[s].left <= Lease - age
          /\ seat' = [token |-> s, left |-> Lease - age]
          /\ home'[s].left = Lease - age
  BY RenewEffect
<1>2. /\ seat.token = s /\ home'[s].holding = home[s].holding
      /\ \A t \in Sessions \ {s} : home'[t] = home[t]
  BY RenewEffect
<1>3. Held' = Held /\ Left' = [Left EXCEPT ![s] = Lease - age]
  <2>1. \A t \in Sessions \ {s} : SameBeliefs(t)
    BY <1>2 DEF SameBeliefs
  <2> QED
    BY <1>1, <1>2, <2>1, OneMoves DEF Held
<1>4. age < Lease /\ Lease - age = L!AtLeastZero(Lease - age)
  BY DurationAssumption DEF Ages, L!AtLeastZero
<1>5. L!Renew(s, age)
  BY <1>1, <1>2, <1>3, <1>4 DEF L!Renew, L!RenewRow, L!LockFree, Held, Left
<1> QED
  BY <1>5 DEF L!SessionStep, L!Next, Ages

(***************************************************************************)
(* Every step of a session is one of the protocol or leaves it alone.       *)
(***************************************************************************)
LEMMA AttemptIsLease ==
    ASSUME ResidentInv, NEW s \in Sessions, Attempts(s)
    PROVE  [L!Next]_(L!vars)
<1>0. TypeOK /\ Watches(s) /\ home[s] \in Homes
  BY DEF ResidentInv, TypeOK
<1>1. /\ s \in up /\ UNCHANGED up
      /\ \A t \in Sessions \ {s} : SameBeliefs(t)
  BY <1>0, AttemptTyped
  DEF Attempts, AttemptSkipped, PrepareFailed, AttemptFailed, Standby, Acquire, AttemptDue,
      SameBeliefs
<1>2. ASSUME NEW h, SetHome(s, h), h.holding = home[s].holding, h.left = home[s].left
      PROVE  SameBeliefs(s)
  BY <1>0, <1>2 DEF SetHome, SameBeliefs, TypeOK
<1>3. CASE AttemptSkipped(s)
  BY <1>1, <1>2, <1>3, NoneMoves DEF AttemptSkipped
<1>4. CASE PrepareFailed(s)
  <2>1. SetHome(s, [home[s] EXCEPT !.retryAt = Retry, !.standby = Zero]) /\ UNCHANGED seat
    BY <1>4 DEF PrepareFailed
  <2>2. SameBeliefs(s)
    BY <1>0, <1>2, <2>1 DEF Homes
  <2> QED
    BY <1>1, <2>1, <2>2, NoneMoves
<1>5. CASE Standby(s)
  <2>1. (\E d : SetHome(s, [home[s] EXCEPT !.prepared = TRUE, !.standby = d])) /\ UNCHANGED seat
    BY <1>5 DEF Standby
  <2>2. SameBeliefs(s)
    BY <1>0, <1>2, <2>1 DEF Homes
  <2> QED
    BY <1>1, <2>1, <2>2, NoneMoves
<1>6. CASE AttemptFailed(s)
  <2>1. PICK age \in Ages :
            /\ \E d : SetHome(s, [home[s] EXCEPT !.prepared = TRUE, !.retryAt = d])
            /\ \/ UNCHANGED seat
               \/ /\ seat.left <= -age \/ seat.token = s
                  /\ seat' = [token |-> s, left |-> Lease - age]
    BY <1>6 DEF AttemptFailed
  <2>2. SameBeliefs(s)
    BY <1>0, <1>2, <2>1 DEF Homes
  <2>3. CASE UNCHANGED seat
    BY <1>1, <2>2, <2>3, NoneMoves
  <2>4. CASE ~UNCHANGED seat
    <3>1. Held' = Held /\ Left' = Left
      BY <1>1, <2>2 DEF Held, Left, SameBeliefs
    <3>2. ~home[s].holding
      BY <1>6 DEF AttemptFailed, Wants
    <3>3. L!AcquireUnknown(s, age)
      BY <1>1, <2>1, <2>4, <3>1, <3>2 DEF L!AcquireUnknown, L!LockFree, L!CanTake, Held, Left
    <3> QED
      BY <3>3 DEF L!SessionStep, L!Next, Ages
  <2> QED
    BY <2>3, <2>4
<1>7. CASE Acquire(s)
  <2> DEFINE n == NextGeneration(s)
  <2>1. PICK age \in Ages :
            /\ seat.left <= -age \/ seat.token = s
            /\ seat' = [token |-> s, left |-> Lease - age]
            /\ SetHome(s, [home[s] EXCEPT !.prepared = TRUE, !.holding = TRUE,
                           !.standby = Zero, !.left = Lease - age, !.gen = n])
    BY <1>7 DEF Acquire
  <2>2. home'[s].holding = TRUE /\ home'[s].left = Lease - age
    BY <1>0, <2>1 DEF SetHome, TypeOK, Homes
  <2>3. Held' = [Held EXCEPT ![s] = TRUE] /\ Left' = [Left EXCEPT ![s] = Lease - age]
    BY <1>1, <2>2, OneMoves
  <2>4. Lease - age = L!AtLeastZero(Lease - age)
    BY DurationAssumption DEF Ages, L!AtLeastZero
  <2>5. ~home[s].holding
    BY <1>7 DEF Acquire, Wants
  <2>6. L!TryAcquire(s, age)
    BY <1>1, <2>1, <2>3, <2>4, <2>5 DEF L!TryAcquire, L!LockFree, L!CanTake, Held, Left
  <2> QED
    BY <2>6 DEF L!SessionStep, L!Next, Ages
<1> QED
  BY <1>3, <1>4, <1>5, <1>6, <1>7 DEF Attempts

LEMMA ActivationIsLease ==
    ASSUME ResidentInv, NEW s \in Sessions, NEW g \in Generations, ActivationStep(s, g)
    PROVE  [L!Next]_(L!vars)
<1>0. TypeOK /\ Watches(s) /\ s \in up
  BY DEF ResidentInv, ActivationStep
<1>1. CASE ActivationFails(s, g)
  BY <1>0, <1>1, StandDownIsForget DEF ActivationFails
<1>2. CASE UNCHANGED <<up, seat, home>>
  BY <1>2, NoneMoves DEF SameBeliefs
<1>3. CASE StartPump(s, g) /\ ~ActivationFails(s, g)
  <2>1. UNCHANGED up
    BY <1>3 DEF StartPump
  <2>2. UNCHANGED <<up, seat, home>> \/ (home[s].holding /\ RenewSeat(s, Zero))
    BY <1>3 DEF StartPump, ContextLive, TermIsOn
  <2> QED
    BY <1>0, <1>2, <2>1, <2>2, RenewIsRenew, Durations
<1>4. CASE RecordSource(s, g)
  <2>1. UNCHANGED <<up, seat>> /\ (home' = home \/ home' = [home EXCEPT ![s].src = g])
    BY <1>4 DEF RecordSource
  <2>2. ASSUME NEW t \in Sessions PROVE SameBeliefs(t)
    BY <1>0, <2>1 DEF SameBeliefs, TypeOK, Homes
  <2> QED
    BY <2>1, <2>2, NoneMoves
<1> QED
  BY <1>1, <1>2, <1>3, <1>4 DEF ActivationStep, Factory, OpenSource, SweepDone

LEMMA LoopIsLease ==
    ASSUME ResidentInv, NEW s \in Sessions,
           TakeMessage(s) \/ IngestOK(s) \/ IngestFailed(s) \/ Exit(s) \/ Cleanup(s)
             \/ Heartbeat(s)
    PROVE  [L!Next]_(L!vars)
<1>0. TypeOK /\ Watches(s)
  BY DEF ResidentInv
<1>1. /\ s \in up /\ UNCHANGED up
  BY DEF TakeMessage, IngestOK, IngestFailed, Exit, Cleanup, Heartbeat
<1>2. CASE UNCHANGED <<seat, home>>
  BY <1>1, <1>2, NoneMoves DEF SameBeliefs
<1>3. CASE TakeMessage(s) /\ ~UNCHANGED <<seat, home>>
  <2>1. Head(inbox[s]).gen \in Generations
    BY <1>0, <1>3, TailTells DEF TakeMessage, TypeOK, LoopsTyped, Messages
  <2>2. StandDown(s, Head(inbox[s]).gen, Retry, FALSE)
    BY <1>3 DEF TakeMessage
  <2> QED
    BY <1>0, <1>1, <2>1, <2>2, StandDownIsForget
<1>4. CASE IngestFailed(s)
  <2>1. main[s].gen \in Generations \cup {NoGen}
    BY <1>0 DEF TypeOK, LoopsTyped, Places
  <2> QED
    BY <1>0, <1>1, <1>4, <2>1, StandDownIsForget DEF IngestFailed
<1>5. CASE Cleanup(s)
  BY <1>0, <1>1, <1>5, StandDownIsForget DEF Cleanup
<1>6. CASE Heartbeat(s) /\ ~UNCHANGED <<seat, home>>
  <2>1. home[s].gen \in Generations \cup {NoGen} /\ home[s].retryAt \in Zero .. Retry
    BY <1>0 DEF TypeOK, Homes
  <2>2. \/ home[s].holding /\ RenewSeat(s, home[s].retryAt)
        \/ StandDown(s, home[s].gen, Retry, ~Serving(s))
    BY <1>6 DEF Heartbeat
  <2> QED
    BY <1>0, <1>1, <2>1, <2>2, RenewIsRenew, StandDownIsForget
<1> QED
  BY <1>2, <1>3, <1>4, <1>5, <1>6 DEF IngestOK, Exit

LEMMA GoneIsLease ==
    ASSUME TypeOK, NEW s \in Sessions, End(s) \/ Crash(s)
    PROVE  L!Next
<1>1. s \in up /\ up' = up \ {s} /\ UNCHANGED seat /\ home' = [home EXCEPT ![s] = IdleHome]
  BY DEF End, Crash, Gone
<1>2. home'[s].holding = FALSE /\ home'[s].left = 0
  BY <1>1 DEF TypeOK, IdleHome
<1>3. Held' = [Held EXCEPT ![s] = FALSE] /\ Left' = [Left EXCEPT ![s] = 0]
  <2>1. \A t \in Sessions \ {s} : SameBeliefs(t)
    BY <1>1 DEF SameBeliefs, TypeOK
  <2> QED
    BY <1>2, <2>1, OneMoves
<1>4. L!Crash(s)
  BY <1>1, <1>3, NameAssumption DEF L!Crash, Held, Left
<1> QED
  BY <1>4 DEF L!SessionStep, L!Next

LEMMA TickIsLease == TypeOK /\ Tick => L!Next
<1> SUFFICES ASSUME TypeOK, Tick PROVE L!Tick
  BY DEF L!Next
<1>1. \A s \in Sessions :
          home'[s].holding = home[s].holding
          /\ home'[s].left = L!AtLeastZero(home[s].left - 1)
  BY DEF Tick, TypeOK, Homes, AtLeastZero, L!AtLeastZero
<1> QED
  BY <1>1 DEF Tick, L!Tick

(***************************************************************************)
(* What the goroutines of resident.go do to the seat, and to what a session *)
(* believes of it, are acquisitions, renewals, stand-downs and ends of the  *)
(* lease protocol, whatever order they come in.                             *)
(***************************************************************************)
THEOREM LeaseImplemented == Spec => ImplementsLease
<1>1. Init => L!Init
  BY DEF Init, L!Init, L!NoTx, IdleHome
<1>2. ASSUME ResidentInv, [Next]_vars PROVE [L!Next]_(L!vars)
  <2>0. TypeOK
    BY <1>2 DEF ResidentInv
  <2>1. CASE UNCHANGED vars
    BY <2>1, NoneMoves DEF vars, SameBeliefs
  <2>2. CASE Rewrite
    BY <2>2, NoneMoves DEF Rewrite, SameBeliefs
  <2>3. ASSUME NEW s \in Sessions, MainStep(s) PROVE [L!Next]_(L!vars)
    BY <1>2, <2>0, <2>3, AttemptIsLease, LoopIsLease, GoneIsLease DEF MainStep, Attempts
  <2>4. ASSUME NEW s \in Sessions, NEW g \in Generations, PumpStep(s, g)
        PROVE  [L!Next]_(L!vars)
    BY <2>4, NoneMoves DEF PumpStep, PumpPath, PumpError, PumpStops, SameBeliefs
  <2> QED
    BY <1>2, <2>0, <2>1, <2>2, <2>3, <2>4, TickIsLease, LoopIsLease, ActivationIsLease DEF Next
<1>3. ResidentInv /\ [Next]_vars => [L!Next]_(L!vars)
  BY <1>2
<1> QED
  BY <1>1, <1>3, Inductive, PTL DEF ImplementsLease, L!Spec, Spec

-----------------------------------------------------------------------------
(***************************************************************************)
(* What is proved of the protocol holds of the goroutines that implement    *)
(* it.  P is the protocol together with its theorems.                       *)
(***************************************************************************)
P == INSTANCE WatchLeaseProofs WITH
    holding <- [s \in Sessions |-> home[s].holding],
    left <- [s \in Sessions |-> home[s].left],
    tx <- [by |-> NoSession, stage |-> "open"]

LEMMA ProtocolAssumptions ==
    P!NoSessionAssumption /\ P!LeaseAssumption /\ P!MaxDelayAssumption
BY NameAssumption, DurationAssumption
DEF P!NoSessionAssumption, P!LeaseAssumption, P!MaxDelayAssumption

LEMMA SameStep ==
    ASSUME NEW s \in Sessions, L!SessionStep(s)
    PROVE  P!SessionStep(s)
<1> USE DEF L!AtLeastZero, P!AtLeastZero, L!LockFree, P!LockFree, L!CanTake, P!CanTake,
            L!Forget, P!Forget, L!RenewRow, P!RenewRow, L!NoTx, P!NoTx
<1>1. ASSUME NEW age \in 0 .. MaxDelay
      PROVE  /\ L!TryAcquire(s, age) => P!TryAcquire(s, age)
             /\ L!AcquireUnknown(s, age) => P!AcquireUnknown(s, age)
             /\ L!Renew(s, age) => P!Renew(s, age)
             /\ L!RenewLate(s, age) => P!RenewLate(s, age)
             /\ L!StandDown(s, age) => P!StandDown(s, age)
             /\ L!FenceSeat(s, age) => P!FenceSeat(s, age)
  BY DEF L!TryAcquire, P!TryAcquire, L!AcquireUnknown, P!AcquireUnknown, L!Renew, P!Renew,
         L!RenewLate, P!RenewLate, L!StandDown, P!StandDown, L!FenceSeat, P!FenceSeat,
         L!Fenced, P!Fenced
<1>2. /\ L!StandDownUnreleased(s) => P!StandDownUnreleased(s)
      /\ L!BeginWrite(s) => P!BeginWrite(s)
      /\ L!EndWrite(s) => P!EndWrite(s)
      /\ L!Crash(s) => P!Crash(s)
  BY DEF L!StandDownUnreleased, P!StandDownUnreleased, L!BeginWrite, P!BeginWrite,
         L!EndWrite, P!EndWrite, L!Crash, P!Crash
<1> QED
  BY <1>1, <1>2 DEF L!SessionStep, P!SessionStep

LEMMA SameProtocol == L!Spec => P!Spec
<1>1. L!Init => P!Init
  BY DEF L!Init, P!Init, L!NoTx, P!NoTx
<1>2. [L!Next]_(L!vars) => [P!Next]_(P!vars)
  <2>1. L!Tick => P!Tick
    BY DEF L!Tick, P!Tick, L!AtLeastZero, P!AtLeastZero
  <2>2. UNCHANGED L!vars => UNCHANGED P!vars
    BY DEF L!vars, P!vars
  <2> QED
    BY <2>1, <2>2, SameStep DEF L!Next, P!Next
<1> QED
  BY <1>1, <1>2, PTL DEF L!Spec, P!Spec

(***************************************************************************)
(* At most one process acts on the file events of a home, whatever its      *)
(* goroutines do and whatever fails (watchHomeLease, resident.go).          *)
(***************************************************************************)
THEOREM OneWatcherActs == Spec => []OneActs
<1>1. P!OneBeliever => OneActs
  BY DEF P!OneBeliever, P!Believes, OneActs, LeaseHeld, TermIsOn
<1> QED
  BY <1>1, LeaseImplemented, SameProtocol, P!SingleBeliever, ProtocolAssumptions, PTL
  DEF ImplementsLease

(***************************************************************************)
(* No process takes the seat from another before the lease it was granted   *)
(* is over by the real clock.                                               *)
(***************************************************************************)
THEOREM NoWatcherIsRobbed == Spec => [][seat'.token # seat.token => seat.left <= 0]_seat
<1>1. P!LiveLeaseKept => [][seat'.token # seat.token => seat.left <= 0]_seat
  <2>1. [seat'.token # seat.token => seat.left <= 0]_(P!vars)
          => [seat'.token # seat.token => seat.left <= 0]_seat
    BY DEF P!vars
  <2> QED
    BY <2>1, PTL DEF P!LiveLeaseKept
<1> QED
  BY <1>1, LeaseImplemented, SameProtocol, P!LeaseNotStolen, ProtocolAssumptions, PTL
  DEF ImplementsLease

============================================================================
