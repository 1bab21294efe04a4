-------------------------- MODULE WatchLeaseProofs --------------------------
(***************************************************************************)
(* The safety of the watch lease for any set of sessions, any lease and     *)
(* stamps of any age.                                                       *)
(***************************************************************************)
EXTENDS WatchLease, TLAPS

(***************************************************************************)
(* Every value stays in its type.                                           *)
(***************************************************************************)
LEMMA TypeStep == TypeOK /\ [Next]_vars => TypeOK'
<1> SUFFICES ASSUME TypeOK, [Next]_vars PROVE TypeOK'
  OBVIOUS
<1> USE NoSessionAssumption, LeaseAssumption, MaxDelayAssumption
    DEF TypeOK, AtLeastZero
<1>1. CASE Tick
  BY <1>1 DEF Tick
<1>2. ASSUME NEW s \in Sessions, NEW age \in 0 .. MaxDelay, TryAcquire(s, age)
      PROVE  TypeOK'
  BY <1>2 DEF TryAcquire
<1>3. ASSUME NEW s \in Sessions, NEW age \in 0 .. MaxDelay, AcquireUnknown(s, age)
      PROVE  TypeOK'
  BY <1>3 DEF AcquireUnknown
<1>4. ASSUME NEW s \in Sessions, NEW age \in 0 .. MaxDelay, Renew(s, age)
      PROVE  TypeOK'
  BY <1>4 DEF Renew, RenewRow
<1>5. ASSUME NEW s \in Sessions, NEW age \in 0 .. MaxDelay, RenewLate(s, age)
      PROVE  TypeOK'
  BY <1>5 DEF RenewLate, RenewRow
<1>6. ASSUME NEW s \in Sessions, NEW age \in 0 .. MaxDelay, StandDown(s, age)
      PROVE  TypeOK'
  BY <1>6 DEF StandDown, Forget
<1>7. ASSUME NEW s \in Sessions, NEW age \in 0 .. MaxDelay, FenceSeat(s, age)
      PROVE  TypeOK'
  BY <1>7 DEF FenceSeat, NoTx
<1>8. ASSUME NEW s \in Sessions, StandDownUnreleased(s)
      PROVE  TypeOK'
  BY <1>8 DEF StandDownUnreleased, Forget
<1>9. ASSUME NEW s \in Sessions, BeginWrite(s) \/ EndWrite(s)
      PROVE  TypeOK'
  BY <1>9 DEF BeginWrite, EndWrite, NoTx
<1>10. ASSUME NEW s \in Sessions, Crash(s)
       PROVE  TypeOK'
  BY <1>10 DEF Crash, NoTx
<1>11. CASE UNCHANGED vars
  BY <1>11 DEF vars
<1> QED
  BY <1>1, <1>2, <1>3, <1>4, <1>5, <1>6, <1>7, <1>8, <1>9, <1>10, <1>11
  DEF Next, SessionStep

(***************************************************************************)
(* What a session remembers stays covered by the row.                       *)
(***************************************************************************)
LEMMA BeliefStep == LeaseInv /\ [Next]_vars => BeliefBacked'
<1> SUFFICES ASSUME LeaseInv, [Next]_vars PROVE BeliefBacked'
  OBVIOUS
<1> USE NoSessionAssumption, LeaseAssumption, MaxDelayAssumption
    DEF LeaseInv, TypeOK, BeliefBacked, Believes, AtLeastZero
<1>1. CASE Tick
  BY <1>1 DEF Tick
<1>2. ASSUME NEW s \in Sessions, NEW age \in 0 .. MaxDelay,
             TryAcquire(s, age) \/ AcquireUnknown(s, age)
      PROVE  BeliefBacked'
  \* whoever takes the row finds it expired, so nobody else believes
  <2>1. ASSUME NEW t \in Sessions, t # s PROVE ~(holding[t] /\ 0 < left[t])
    BY <1>2, <2>1 DEF TryAcquire, AcquireUnknown, CanTake
  <2>2. CASE TryAcquire(s, age)
    BY <2>1, <2>2 DEF TryAcquire
  <2>3. CASE AcquireUnknown(s, age)
    BY <2>1, <2>3 DEF AcquireUnknown
  <2> QED
    BY <1>2, <2>2, <2>3
<1>4. ASSUME NEW s \in Sessions, NEW age \in 0 .. MaxDelay, Renew(s, age)
      PROVE  BeliefBacked'
  BY <1>4 DEF Renew, RenewRow
<1>5. ASSUME NEW s \in Sessions, NEW age \in 0 .. MaxDelay, RenewLate(s, age)
      PROVE  BeliefBacked'
  BY <1>5 DEF RenewLate, RenewRow
<1>6. ASSUME NEW s \in Sessions, NEW age \in 0 .. MaxDelay, StandDown(s, age)
      PROVE  BeliefBacked'
  BY <1>6 DEF StandDown, Forget
<1>7. ASSUME NEW s \in Sessions, NEW age \in 0 .. MaxDelay, FenceSeat(s, age)
      PROVE  BeliefBacked'
  BY <1>7 DEF FenceSeat
<1>8. ASSUME NEW s \in Sessions, StandDownUnreleased(s)
      PROVE  BeliefBacked'
  BY <1>8 DEF StandDownUnreleased, Forget
<1>9. ASSUME NEW s \in Sessions, BeginWrite(s) \/ EndWrite(s)
      PROVE  BeliefBacked'
  BY <1>9 DEF BeginWrite, EndWrite
<1>10. ASSUME NEW s \in Sessions, Crash(s)
       PROVE  BeliefBacked'
  BY <1>10 DEF Crash
<1>11. CASE UNCHANGED vars
  BY <1>11 DEF vars
<1> QED
  BY <1>1, <1>2, <1>4, <1>5, <1>6, <1>7, <1>8, <1>9, <1>10, <1>11
  DEF Next, SessionStep

(***************************************************************************)
(* The write lock keeps the row still between a fence and its commit.       *)
(***************************************************************************)
LEMMA FenceStep ==
    LeaseInv /\ [Next]_vars => (LockOfLiveSession /\ FencedTxOwnsSeat)'
<1> SUFFICES ASSUME LeaseInv, [Next]_vars PROVE (LockOfLiveSession /\ FencedTxOwnsSeat)'
  OBVIOUS
<1> USE NoSessionAssumption
    DEF LeaseInv, TypeOK, LockOfLiveSession, FencedTxOwnsSeat, NoTx
<1>1. CASE Tick \/ UNCHANGED vars
  BY <1>1 DEF Tick, vars
<1>2. ASSUME NEW s \in Sessions, NEW age \in 0 .. MaxDelay,
             TryAcquire(s, age) \/ AcquireUnknown(s, age)
      PROVE  (LockOfLiveSession /\ FencedTxOwnsSeat)'
  \* only here the row changes hands, and only while nobody has the lock
  BY <1>2 DEF TryAcquire, AcquireUnknown, LockFree
<1>3. ASSUME NEW s \in Sessions, NEW age \in 0 .. MaxDelay,
             Renew(s, age) \/ RenewLate(s, age)
      PROVE  (LockOfLiveSession /\ FencedTxOwnsSeat)'
  BY <1>3 DEF Renew, RenewLate, RenewRow
<1>4. ASSUME NEW s \in Sessions, NEW age \in 0 .. MaxDelay, StandDown(s, age)
      PROVE  (LockOfLiveSession /\ FencedTxOwnsSeat)'
  BY <1>4 DEF StandDown, Forget
<1>5. ASSUME NEW s \in Sessions, NEW age \in 0 .. MaxDelay, FenceSeat(s, age)
      PROVE  (LockOfLiveSession /\ FencedTxOwnsSeat)'
  BY <1>5 DEF FenceSeat, Fenced
<1>6. ASSUME NEW s \in Sessions, StandDownUnreleased(s)
      PROVE  (LockOfLiveSession /\ FencedTxOwnsSeat)'
  BY <1>6 DEF StandDownUnreleased, Forget
<1>7. ASSUME NEW s \in Sessions, BeginWrite(s) \/ EndWrite(s) \/ Crash(s)
      PROVE  (LockOfLiveSession /\ FencedTxOwnsSeat)'
  BY <1>7 DEF BeginWrite, EndWrite, Crash
<1> QED
  BY <1>1, <1>2, <1>3, <1>4, <1>5, <1>6, <1>7 DEF Next, SessionStep

(***************************************************************************)
(* The invariant holds in every reachable state.                            *)
(***************************************************************************)
THEOREM Inductive == Spec => []LeaseInv
<1>1. Init => LeaseInv
  BY NoSessionAssumption, MaxDelayAssumption
  DEF Init, Believes, LeaseInv, TypeOK, BeliefBacked, LockOfLiveSession,
      FencedTxOwnsSeat, NoTx
<1>2. LeaseInv /\ [Next]_vars => LeaseInv'
  BY TypeStep, BeliefStep, FenceStep DEF LeaseInv
<1> QED
  BY <1>1, <1>2, PTL DEF Spec

(***************************************************************************)
(* Every variable keeps its type.                                           *)
(***************************************************************************)
THEOREM TypeCorrect == Spec => []TypeOK
BY Inductive, PTL DEF LeaseInv

(***************************************************************************)
(* Two sessions never act for one home at the same time, for any number of  *)
(* sessions, any lease and stamps that are any amount of time old: if two   *)
(* believed, both would own the row.                                        *)
(***************************************************************************)
THEOREM SingleBeliever == Spec => []OneBeliever
<1>1. LeaseInv => OneBeliever
  BY DEF LeaseInv, TypeOK, BeliefBacked, OneBeliever, Believes
<1> QED
  BY <1>1, Inductive, PTL

(***************************************************************************)
(* What FenceSeat saw still holds when the transaction commits.             *)
(***************************************************************************)
THEOREM FenceHoldsToCommit == Spec => []FencedTxOwnsSeat
BY Inductive, PTL DEF LeaseInv

(***************************************************************************)
(* No step takes the row from an owner whose lease is running.              *)
(***************************************************************************)
THEOREM LeaseNotStolen == Spec => LiveLeaseKept
<1>1. ASSUME LeaseInv, [Next]_vars, seat'.token # seat.token
      PROVE  seat.left <= 0
  <2> USE <1>1 DEF LeaseInv, TypeOK
  <2>1. PICK s \in Sessions, age \in 0 .. MaxDelay :
             TryAcquire(s, age) \/ AcquireUnknown(s, age)
    BY DEF Next, SessionStep, vars, Tick, Renew, RenewLate, RenewRow,
           StandDown, StandDownUnreleased, Forget, FenceSeat, BeginWrite,
           EndWrite, Crash
  <2> QED
    BY <2>1 DEF TryAcquire, AcquireUnknown, CanTake
<1>2. LeaseInv /\ [Next]_vars => (seat'.token # seat.token => seat.left <= 0)
  BY <1>1
<1> QED
  BY <1>2, Inductive, PTL DEF Spec, LiveLeaseKept
=============================================================================
