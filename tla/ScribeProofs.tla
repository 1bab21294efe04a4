---------------------------- MODULE ScribeProofs ----------------------------
(***************************************************************************)
(* The mirror follows the files, for any number of files, verbs and         *)
(* watchers and any history of rewrites.                                    *)
(***************************************************************************)
EXTENDS Scribe, TLAPS

(***************************************************************************)
(* Every value stays in its type: no action of an ingester or of the home   *)
(* writes anything else.                                                    *)
(***************************************************************************)
LEMMA Typing == TypeOK /\ [Next]_vars => TypeOK'
<1> SUFFICES ASSUME TypeOK, [Next]_vars PROVE TypeOK'
  OBVIOUS
<1> USE MaxRevAssumption DEF TypeOK, Revs, Goto, database, locals
<1>1. ASSUME NEW f \in Files, Rewrite(f) PROVE TypeOK'
  BY <1>1 DEF Rewrite
<1>2. ASSUME NEW i \in Ingesters, NEW f \in Files,
             Event(i, f) \/ Skip(i, f) \/ Fingerprint(i, f)
      PROVE  TypeOK'
  <2>1. todo' \in [Ingesters -> SUBSET Files]
    <3>1. todo[i] \cup {f} \in SUBSET Files /\ todo[i] \ {f} \in SUBSET Files
      OBVIOUS
    <3>2. \/ todo' = [todo EXCEPT ![i] = todo[i] \cup {f}]
          \/ todo' = [todo EXCEPT ![i] = todo[i] \ {f}]
      BY <1>2 DEF Event, Skip, Fingerprint
    <3> QED
      BY <3>1, <3>2
  <2>2. CASE Event(i, f) \/ Skip(i, f)
    BY <2>1, <2>2 DEF Event, Skip
  <2>3. CASE Fingerprint(i, f)
    BY <2>1, <2>3 DEF Fingerprint
  <2> QED
    BY <1>2, <2>2, <2>3
<1>3. ASSUME NEW i \in Ingesters, StartVerb(i) \/ TakeSeat(i) PROVE TypeOK'
  <2>1. /\ Sweep(i)
        /\ owner' \in Watchers \cup {Nobody}
    BY <1>3 DEF StartVerb, TakeSeat
  <2>2. mem' \in [Ingesters -> [Files -> Revs]]
    BY <2>1 DEF Sweep
  <2>3. todo' \in [Ingesters -> SUBSET Files]
    BY <2>1 DEF Sweep
  <2> QED
    BY <2>1, <2>2, <2>3 DEF Sweep
<1>4. ASSUME NEW i \in Ingesters, CheckCursor(i) PROVE TypeOK'
  <2>1. mem' \in [Ingesters -> [Files -> Revs]]
    BY <1>4 DEF CheckCursor
  <2>2. pc' \in [Ingesters -> {"idle", "check", "read", "commit"}]
    BY <1>4 DEF CheckCursor
  <2> QED
    BY <1>4, <2>1, <2>2 DEF CheckCursor
<1>5. ASSUME NEW i \in Ingesters, ReadFile(i) PROVE TypeOK'
  BY <1>5 DEF ReadFile
<1>6. ASSUME NEW i \in Ingesters, Commit(i) PROVE TypeOK'
  BY <1>6 DEF Commit
<1>7. ASSUME NEW i \in Ingesters, Abort(i) PROVE TypeOK'
  BY <1>7 DEF Abort
<1>8. CASE UNCHANGED vars
  BY <1>8 DEF vars
<1> QED
  BY <1>1, <1>2, <1>3, <1>4, <1>5, <1>6, <1>7, <1>8 DEF Next, Step

(***************************************************************************)
(* A file only moves on.                                                    *)
(***************************************************************************)
LEMMA FileGrows ==
    TypeOK /\ [Next]_vars => \A f \in Files : file[f] <= file'[f]
<1> SUFFICES ASSUME TypeOK, [Next]_vars, NEW f \in Files
             PROVE  file[f] <= file'[f]
  OBVIOUS
<1> USE MaxRevAssumption DEF TypeOK, Revs
<1>1. ASSUME NEW g \in Files, Rewrite(g) PROVE file[f] <= file'[f]
  BY <1>1 DEF Rewrite
<1>2. CASE file' = file
  BY <1>2
<1> QED
  BY <1>1, <1>2
  DEF Next, Step, vars, Event, Skip, Fingerprint, StartVerb, TakeSeat, Sweep,
      CheckCursor, ReadFile, Commit, Abort

(***************************************************************************)
(* What IngestPath holds between its steps stays no newer than the file,    *)
(* and what it read no older than what it fingerprinted.                    *)
(***************************************************************************)
LEMMA InFlightStep == TypeOK /\ InFlight /\ [Next]_vars => InFlight'
<1> SUFFICES ASSUME TypeOK, InFlight, [Next]_vars PROVE InFlight'
  OBVIOUS
<1>0. /\ TypeOK'
      /\ \A f \in Files : file[f] <= file'[f]
  BY Typing, FileGrows
<1> USE MaxRevAssumption DEF TypeOK, InFlight, Revs, Goto, database, locals
<1>1. ASSUME NEW f \in Files, Rewrite(f) PROVE InFlight'
  BY <1>0, <1>1 DEF Rewrite
<1>2. ASSUME NEW i \in Ingesters, NEW f \in Files, Event(i, f) \/ Skip(i, f)
      PROVE  InFlight'
  BY <1>2 DEF Event, Skip
<1>3. ASSUME NEW i \in Ingesters, NEW f \in Files, Fingerprint(i, f)
      PROVE  InFlight'
  <2>1. file[f] # 0
    BY <1>3, ContentAssumption DEF Fingerprint, Present
  <2> QED
    BY <1>3, <2>1 DEF Fingerprint
<1>4. ASSUME NEW i \in Ingesters, StartVerb(i) \/ TakeSeat(i) PROVE InFlight'
  BY <1>4 DEF StartVerb, TakeSeat, Sweep
<1>5. ASSUME NEW i \in Ingesters, CheckCursor(i) PROVE InFlight'
  BY <1>5 DEF CheckCursor
<1>6. ASSUME NEW i \in Ingesters, ReadFile(i) PROVE InFlight'
  <2>1. fp[i] # 0 /\ fp[i] <= file[doc[i]]
    BY <1>6 DEF ReadFile
  <2>2. /\ body' = [body EXCEPT ![i] = file[doc[i]]]
        /\ pc' = [pc EXCEPT ![i] = "commit"]
        /\ UNCHANGED <<file, fp, doc>>
    BY <1>6 DEF ReadFile
  <2> QED
    BY <2>1, <2>2
<1>7. ASSUME NEW i \in Ingesters, Commit(i) PROVE InFlight'
  BY <1>7 DEF Commit
<1>8. ASSUME NEW i \in Ingesters, Abort(i) PROVE InFlight'
  BY <1>8 DEF Abort
<1>9. CASE UNCHANGED vars
  BY <1>9 DEF vars
<1> QED
  BY <1>1, <1>2, <1>3, <1>4, <1>5, <1>6, <1>7, <1>8, <1>9 DEF Next, Step

(***************************************************************************)
(* A commit writes the cursor it fingerprinted with bytes read later, and a *)
(* rewrite only makes the file newer: the mirror stays within the cursor.   *)
(***************************************************************************)
LEMMA MirrorStep == MirrorInv /\ [Next]_vars => MirrorWithinCursor'
<1> SUFFICES ASSUME MirrorInv, [Next]_vars, NEW f \in Files, cursor'[f] # 0
             PROVE  \E r \in cursor'[f] .. file'[f] :
                        SameBytes(r, current'[f])
  BY DEF MirrorWithinCursor, SameBytes
<1> USE MaxRevAssumption DEF MirrorInv, TypeOK, Revs, MirrorWithinCursor
<1>0. TypeOK' /\ file[f] <= file'[f]
  BY Typing, FileGrows
<1>1. CASE cursor'[f] = cursor[f] /\ current'[f] = current[f]
  BY <1>0, <1>1
<1>2. ASSUME NEW i \in Ingesters, Commit(i), doc[i] = f
      PROVE  \E r \in cursor'[f] .. file'[f] : SameBytes(r, current'[f])
  \* the revision that was read lies between the fingerprint and the file
  <2>1. fp[i] <= body[i] /\ body[i] <= file[f] /\ body[i] # 0
    BY <1>2 DEF Commit, InFlight
  <2>2. cursor'[f] = fp[i] /\ file' = file
    BY <1>2 DEF Commit
  <2>3. SameBytes(body[i], current'[f])
    BY <1>2, <2>1 DEF Commit, SameBytes
  <2> QED
    BY <2>1, <2>2, <2>3
<1>3. ASSUME NEW i \in Ingesters, Commit(i), doc[i] # f
      PROVE  cursor'[f] = cursor[f] /\ current'[f] = current[f]
  BY <1>3 DEF Commit
<1> QED
  BY <1>1, <1>2, <1>3
  DEF Next, Step, vars, database, Rewrite, Event, Skip, Fingerprint,
      StartVerb, TakeSeat, Sweep, CheckCursor, ReadFile, Abort

(***************************************************************************)
(* The three facts hold in every reachable state.                           *)
(***************************************************************************)
THEOREM Inductive == Spec => []MirrorInv
<1>1. Init => MirrorInv
  <2> SUFFICES ASSUME Init PROVE MirrorInv
    OBVIOUS
  <2>1. (CHOOSE f \in Files : TRUE) \in Files
    BY FilesAssumption
  <2> QED
    BY <2>1, MaxRevAssumption
    DEF Init, MirrorInv, TypeOK, InFlight, MirrorWithinCursor, Revs
<1>2. MirrorInv /\ [Next]_vars => MirrorInv'
  BY Typing, InFlightStep, MirrorStep DEF MirrorInv
<1> QED
  BY <1>1, <1>2, PTL DEF Spec

(***************************************************************************)
(* Every variable keeps its type.                                           *)
(***************************************************************************)
THEOREM TypeCorrect == Spec => []TypeOK
BY Inductive, PTL DEF MirrorInv

(***************************************************************************)
(* The current row always holds bytes the file had at or after the moment   *)
(* the cursor was fingerprinted, however ingests and rewrites interleave.   *)
(***************************************************************************)
THEOREM MirrorFollowsCursor == Spec => []MirrorWithinCursor
BY Inductive, PTL DEF MirrorInv

(***************************************************************************)
(* If no rewrite brings old bytes back, a sweep never skips a file whose    *)
(* mirror is stale: the cursor can then only equal the file's fingerprint   *)
(* if it was taken from the file as it is, and what was read afterwards is  *)
(* the file as it is.                                                       *)
(***************************************************************************)
THEOREM SkippedFilesAreMirrored ==
    ASSUME \A r, q \in Revs : ContentOf[r] = ContentOf[q] => r = q
    PROVE  Spec => []UnchangedMeansMirrored
<1>1. MirrorInv => UnchangedMeansMirrored
  <2> SUFFICES ASSUME MirrorInv, NEW f \in Files, SameBytes(cursor[f], file[f])
               PROVE  SameBytes(current[f], file[f])
    BY DEF UnchangedMeansMirrored
  <2> USE MaxRevAssumption DEF MirrorInv, TypeOK, Revs, SameBytes
  <2>1. cursor[f] = file[f] /\ cursor[f] # 0
    OBVIOUS
  <2>2. PICK r \in cursor[f] .. file[f] : SameBytes(r, current[f])
    BY <2>1 DEF MirrorWithinCursor
  <2>3. r = file[f]
    BY <2>1, <2>2
  <2> QED
    BY <2>2, <2>3
<1> QED
  BY <1>1, Inductive, PTL

(***************************************************************************)
(* No commit adds a version with the bytes of the version it retires: the   *)
(* comparison is made inside the transaction that inserts.                  *)
(***************************************************************************)
THEOREM VersionsDiffer == Spec => NoDuplicateVersion
<1>1. ASSUME TypeOK, [Next]_vars, NEW f \in Files, version'[f] # version[f]
      PROVE  ~SameBytes(current[f], current'[f])
  <2> USE <1>1 DEF TypeOK
  <2>1. PICK i \in Ingesters : Commit(i)
    BY DEF Next, Step, vars, database, Rewrite, Event, Skip, Fingerprint,
           StartVerb, TakeSeat, Sweep, CheckCursor, ReadFile, Abort
  <2>2. doc[i] = f /\ ~SameBytes(current[f], body[i])
    BY <2>1 DEF Commit
  <2>3. current'[f] = body[i]
    BY <2>1, <2>2 DEF Commit
  <2> QED
    BY <2>2, <2>3
<1>2. TypeOK /\ [Next]_vars
        => \A f \in Files : version'[f] # version[f]
                            => ~SameBytes(current[f], current'[f])
  BY <1>1
<1> QED
  BY <1>2, TypeCorrect, PTL DEF Spec, NoDuplicateVersion

-----------------------------------------------------------------------------
(***************************************************************************)
(* What makes the mirror move forward when every ingester is fenced: the    *)
(* owner of the seat read its file after the current row was written.       *)
(***************************************************************************)
OwnerIsFresh ==
    /\ \A f \in Files : current[f] <= file[f]
    /\ \A i \in Watchers :
          owner = i /\ pc[i] = "commit" => current[doc[i]] <= body[i]

(***************************************************************************)
(* Without verbs, only the owner of the seat can commit, and what it read   *)
(* is no older than the current row: the owner read it after it took the    *)
(* seat.                                                                    *)
(***************************************************************************)
LEMMA OwnerStep ==
    ASSUME Verbs = {}, MirrorInv, OwnerIsFresh, [Next]_vars
    PROVE  OwnerIsFresh' /\ \A f \in Files : current[f] <= current'[f]
<1> USE MaxRevAssumption
    DEF OwnerIsFresh, MirrorInv, TypeOK, Revs, Goto, database, locals, Ingesters
<1> DEFINE Goal == OwnerIsFresh' /\ \A f \in Files : current[f] <= current'[f]
<1>1. ASSUME NEW f \in Files, Rewrite(f) PROVE Goal
  BY <1>1 DEF Rewrite
<1>2. ASSUME NEW i \in Ingesters, NEW f \in Files,
             Event(i, f) \/ Skip(i, f) \/ Fingerprint(i, f)
      PROVE  Goal
  BY <1>2 DEF Event, Skip, Fingerprint
<1>3. ASSUME NEW i \in Ingesters, StartVerb(i) \/ TakeSeat(i) PROVE Goal
  BY <1>3 DEF StartVerb, TakeSeat, Sweep
<1>4. ASSUME NEW i \in Ingesters, CheckCursor(i) PROVE Goal
  BY <1>4 DEF CheckCursor
<1>5. ASSUME NEW i \in Ingesters, ReadFile(i) PROVE Goal
  BY <1>5 DEF ReadFile
<1>6. ASSUME NEW i \in Ingesters, Commit(i) PROVE Goal
  <2>1. i \in Watchers /\ owner = i
    BY <1>6 DEF Commit, PassesFence, Ingesters
  <2>2. current[doc[i]] <= body[i] /\ body[i] <= file[doc[i]]
    BY <1>6, <2>1 DEF Commit, InFlight
  <2>3. ASSUME NEW f \in Files
        PROVE  current[f] <= current'[f] /\ current'[f] <= file'[f]
    BY <1>6, <2>2 DEF Commit
  <2>4. ASSUME NEW j \in Watchers, owner' = j PROVE pc'[j] # "commit"
    BY <1>6, <2>1, <2>4 DEF Commit
  <2> QED
    BY <2>3, <2>4
<1>7. ASSUME NEW i \in Ingesters, Abort(i) PROVE Goal
  BY <1>7, IngesterAssumption DEF Abort
<1>8. CASE UNCHANGED vars
  BY <1>8 DEF vars
<1> QED
  BY <1>1, <1>2, <1>3, <1>4, <1>5, <1>6, <1>7, <1>8 DEF Next, Step

(***************************************************************************)
(* With fenced ingesters only, is_current never moves back to an earlier    *)
(* state of the file.  (One verb that ingests without a fence is enough to  *)
(* lose this.)                                                              *)
(***************************************************************************)
THEOREM FencedMirrorMovesForward ==
    ASSUME Verbs = {}
    PROVE  Spec => CurrentNeverRegresses
<1>1. Init => OwnerIsFresh
  BY DEF Init, OwnerIsFresh, Ingesters
<1>2. MirrorInv /\ OwnerIsFresh /\ [Next]_vars
        => OwnerIsFresh' /\ \A f \in Files : current[f] <= current'[f]
  BY OwnerStep
<1> QED
  BY <1>1, <1>2, Inductive, PTL DEF Spec, CurrentNeverRegresses
=============================================================================
