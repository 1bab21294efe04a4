----------------------------- MODULE VerbsProofs -----------------------------
(***************************************************************************)
(* What the verbs promise of the homes they were given, for any number of   *)
(* invocations, homes, command lines and rewrites: an answer is fresh, a    *)
(* subscriber has its seats, and a home that is mirrored as it is rests.    *)
(***************************************************************************)
EXTENDS Verbs, FiniteSetTheorems, TLAPS

(***************************************************************************)
(* pairHomes: as many pairs as homes, and no filter.                        *)
(***************************************************************************)
LEMMA PairedShape ==
    ASSUME NEW given, NEW ids, NEW labels, NEW kinds, Len(given) \in Nat,
           PairHomes(given, ids, labels, kinds).error = "none"
    PROVE  LET r == PairHomes(given, ids, labels, kinds)
           IN  /\ r.filters = <<>> /\ DOMAIN r.pairs = 1 .. Len(given)
               /\ r.pairs \in Seq(Range(r.pairs))
<1> DEFINE r == PairHomes(given, ids, labels, kinds)
           f == [i \in 1 .. Len(given) |->
                   [path |-> given[i], id |-> ids[i],
                    label |-> OrElse(Align(labels, Len(given))[i], ids[i]),
                    kind |-> OrElse(Align(kinds, Len(given))[i], "primary")]]
<1>1. r = Paired(f) \/ \E why : why # "none" /\ r = Refused(why)
  BY Zenon DEF PairHomes
<1>2. r = Paired(f)
  BY <1>1 DEF Refused
<1>3. f = [i \in 1 .. Len(given) |-> f[i]] /\ DOMAIN f = 1 .. Len(given)
  OBVIOUS
<1> HIDE DEF f, r
<1>4. r.pairs = f /\ r.filters = <<>>
  BY <1>2 DEF Paired
<1>5. \A i \in 1 .. Len(given) : f[i] \in Range(f)
  BY <1>3 DEF Range
<1>6. f \in Seq(Range(f))
  BY <1>3, <1>5
<1> QED
  BY <1>3, <1>4, <1>6 DEF r

(***************************************************************************)
(* resolveHomes: what it accepts is a list of pairs, as long as that of the *)
(* homes, or a filter; only the verbs that can do without homes get none.   *)
(***************************************************************************)
LEMMA RequestShape ==
    ASSUME NEW l \in Lines
    PROVE  /\ RequestOf[l].pairs \in Seq(AllPairs)
           /\ RequestOf[l].filters \in Seq(Ids)
           /\ RequestOf[l].pairs = <<>> => l.verb \in FilterVerbs
<1> DEFINE r == Request(l.verb, l.flags, l.env)
           bare == l.flags.homes = <<>> /\ l.flags.ids = <<>>
           given == IF bare THEN One(l.env.home) ELSE l.flags.homes
           ids == IF bare THEN One(l.env.id) ELSE l.flags.ids
<1>1. RequestOf[l] = r /\ r.error = "none"
  BY LinesAssumption DEF RequestOf
<1>2. Len(given) \in Nat /\ Len(ids) \in Nat
  BY LinesAssumption DEF One
<1>3. \/ given = <<>> /\ l.verb \in FilterVerbs /\ r = Filtered(ids)
      \/ given # <<>> /\ r = PairHomes(given, ids, l.flags.labels, l.flags.kinds)
  BY <1>1 DEF Request, ResolveHomes, Refused
<1>4. CASE given = <<>> /\ l.verb \in FilterVerbs /\ r = Filtered(ids)
  <2>1. r.pairs = <<>> /\ r.filters = ids
    BY <1>4 DEF Filtered
  <2>2. ids \in Seq(Range(ids))
    <3>1. CASE bare
      <4> DEFINE v == l.env.id
      <4>1. ids = <<>> \/ ids = <<v>>
        BY <3>1 DEF One
      <4>2. <<v>> \in Seq(Range(<<v>>))
        <5>1. v \in Range(<<v>>)
          BY DEF Range
        <5> QED
          BY <5>1
      <4>3. <<>> \in Seq(Range(<<>>))
        OBVIOUS
      <4> HIDE DEF ids, v
      <4> QED
        BY <4>1, <4>2, <4>3
    <3>2. CASE ~bare
      BY <3>2, LinesAssumption DEF Range
    <3> QED
      BY <3>1, <3>2
  <2>3. Range(ids) \subseteq Ids
    BY <1>1, <2>1, LinesAssumption
  <2>4. ids \in Seq(Ids)
    BY <2>2, <2>3
  <2>5. <<>> \in Seq(AllPairs)
    OBVIOUS
  <2> HIDE DEF r, ids, given
  <2> QED
    BY <1>1, <1>4, <2>1, <2>4, <2>5
<1>5. CASE given # <<>> /\ r = PairHomes(given, ids, l.flags.labels, l.flags.kinds)
  <2>1. r.filters = <<>> /\ DOMAIN r.pairs = 1 .. Len(given) /\ r.pairs \in Seq(Range(r.pairs))
    <3> HIDE DEF r, given, ids
    <3> QED
      BY <1>1, <1>2, <1>5, PairedShape
  <2>2. Len(given) # 0
    BY <1>5, LinesAssumption DEF One
  <2>4. Range(r.pairs) \subseteq AllPairs
    BY <1>1 DEF AllPairs
  <2>5. r.pairs # <<>>
    BY <1>2, <2>1, <2>2
  <2> QED
    BY <1>1, <2>1, <2>4, <2>5
<1> QED
  BY <1>3, <1>4, <1>5

(***************************************************************************)
(* The registered homes in some order.                                      *)
(***************************************************************************)
LEMMA ListedHomes ==
    ASSUME NEW S \in SUBSET Ids, IsFiniteSet(S)
    PROVE  SetToSeq(S) \in Seq(Ids)
<1>1. Cardinality(S) \in Nat /\ ExistsBijection(1 .. Cardinality(S), S)
  BY FS_CardinalityType
<1>2. \E f \in [1 .. Cardinality(S) -> S] : IsInjective(f)
  BY <1>1, Zenon DEF ExistsBijection, Bijection, Injection, Surjection
<1>3. SetToSeq(S) \in [1 .. Cardinality(S) -> S]
  BY <1>2, Zenon DEF SetToSeq
<1> QED
  BY <1>1, <1>3

(***************************************************************************)
(* A pair of the same identity is one of the same home.                     *)
(***************************************************************************)
LEMMA PairFacts ==
    ASSUME NEW p \in AllPairs
    PROVE  /\ p.path \in Paths /\ p.id \in Ids
           /\ \A q \in AllPairs : p.path = q.path <=> p.id = q.id
BY LinesAssumption

LEMMA Revisions == Revs \ {0} \subseteq Nat \ {0} /\ 1 \in Revs \ {0} /\ 0 \in Revs
BY LinesAssumption DEF Revs

(***************************************************************************)
(* The parts of the invariant: the tables, where a run stands in its lists. *)
(***************************************************************************)
TablesOK ==
    /\ files \in [Paths -> Revs \ {0}]
    /\ homes \subseteq Ids /\ IsFiniteSet(homes)
    /\ mirror \in [Ids -> [path : Paths \cup {Blank}, rev : Revs]]
    /\ \A i \in Ids : mirror[i] # None => i \in homes
    /\ cursor \in [Ids -> Revs]
    /\ seats \subseteq [home : homes, workspace : Procs]
    /\ MirrorIsPast

InRange(r) ==
    /\ r.at \in {"register"} \cup Sweeping => r.next \in DOMAIN r.pairs
    /\ r.at = "seats" => r.next \in DOMAIN r.targets

LEMMA Parts ==
    VerbsInv <=> /\ TablesOK
                 /\ run \in [Procs -> Runs]
                 /\ \A p \in Procs : InRange(run[p]) /\ Keeps(run[p], p) /\ NoneOlder(run[p])
BY DEF VerbsInv, TypeOK, TablesOK, InRange

LEMMA RunFields ==
    ASSUME NEW r \in Runs
    PROVE  /\ r.at \in Points /\ r.verb \in Verbs
           /\ r.pairs \in Seq(AllPairs) /\ r.filters \in Seq(Ids) /\ r.targets \in Seq(Ids)
           /\ r.next \in Nat \ {0} /\ r.since \in [Paths -> Revs]
           /\ r.known \in Revs /\ r.fp \in Revs /\ r.bytes \in Revs
           /\ \A a \in Points : [r EXCEPT !.at = a] \in Runs
           /\ \A n \in Nat \ {0} : [r EXCEPT !.next = n] \in Runs
           /\ \A t \in Seq(Ids) : [r EXCEPT !.targets = t] \in Runs
           /\ \A v \in Revs : /\ [r EXCEPT !.known = v] \in Runs
                             /\ [r EXCEPT !.fp = v] \in Runs /\ [r EXCEPT !.bytes = v] \in Runs
BY DEF Runs

LEMMA IdleRun == Idle \in Runs /\ Idle.at = "idle" /\ Idle.pairs = <<>> /\ Idle.since = Never
<1>1. Never \in [Paths -> Revs] /\ 0 \in Revs
  BY Revisions DEF Never
<1>2. "idle" \in Points /\ "chart" \in Verbs /\ 1 \in Nat \ {0}
  BY DEF Points, Verbs
<1>3. <<>> \in Seq(AllPairs) /\ <<>> \in Seq(Ids)
  OBVIOUS
<1> HIDE DEF Never
<1> QED
  BY <1>1, <1>2, <1>3 DEF Idle, Runs

(***************************************************************************)
(* The pair that is swept is one of those that were given.                  *)
(***************************************************************************)
LEMMA SweptPair ==
    ASSUME VerbsInv, NEW p \in Procs, run[p].at \in {"register"} \cup Sweeping
    PROVE  /\ PairOf(run[p]) \in AllPairs /\ PairOf(run[p]).id \in Ids
           /\ Target(run[p]) = PairOf(run[p]).path /\ Target(run[p]) \in Paths
<1>1. run[p] \in Runs /\ InRange(run[p])
  BY Parts
<1>2. run[p].pairs \in Seq(AllPairs)
  BY <1>1, RunFields
<1>3. PairOf(run[p]) \in AllPairs
  BY <1>1, <1>2 DEF InRange, PairOf
<1> QED
  BY <1>3, PairFacts DEF Target

(***************************************************************************)
(* The types of what is compared: revisions, all of them numbers.           *)
(***************************************************************************)
LEMMA Numbers ==
    ASSUME VerbsInv, NEW p \in Procs
    PROVE  /\ \A h \in Paths : /\ files[h] \in Nat \ {0} /\ run[p].since[h] \in Nat
                               /\ run[p].since[h] <= files[h]
           /\ run[p].known \in Nat /\ run[p].fp \in Nat /\ run[p].bytes \in Nat
<1>1. run[p] \in Runs /\ Keeps(run[p], p) /\ TablesOK
  BY Parts
<1> QED
  BY <1>1, RunFields, LinesAssumption DEF TablesOK, Revs, Keeps

(***************************************************************************)
(* What a step may do to the tables: files move on, homes and seats are     *)
(* never removed, and a mirror is replaced by what a sweep holds of it.     *)
(***************************************************************************)
Mirrors(p) ==
    /\ run[p].at = "commit"
    /\ mirror' = [mirror EXCEPT ![PairOf(run[p]).id] =
                     [path |-> PairOf(run[p]).path, rev |-> run[p].bytes]]

Forward ==
    /\ \A h \in Paths : files[h] <= files'[h]
    /\ homes \subseteq homes'
    /\ seats \subseteq seats'
    /\ mirror' = mirror \/ \E p \in Procs : Mirrors(p)

(***************************************************************************)
(* A home that was swept since a verb started stays as new as its start,    *)
(* whoever commits what it holds of it, unless that is older than the start.*)
(***************************************************************************)
LEMMA ShownStaysShown ==
    ASSUME VerbsInv, Forward, NEW since, NEW pair \in AllPairs,
           \A q \in Procs : Holds(run[q], pair.path) => run[q].bytes >= since[pair.path],
           mirror[pair.id].path = pair.path, mirror[pair.id].rev >= since[pair.path]
    PROVE  mirror'[pair.id].path = pair.path /\ mirror'[pair.id].rev >= since[pair.path]
<1>1. CASE mirror' = mirror
  BY <1>1
<1>2. ASSUME NEW q \in Procs, Mirrors(q)
      PROVE  mirror'[pair.id].path = pair.path /\ mirror'[pair.id].rev >= since[pair.path]
  <2> DEFINE other == PairOf(run[q])
  <2>1. other \in AllPairs /\ other.id \in Ids /\ Target(run[q]) = other.path
    BY <1>2, SweptPair DEF Mirrors, Sweeping
  <2>2. pair.id \in Ids /\ (other.path = pair.path <=> other.id = pair.id)
    BY <2>1, PairFacts
  <2>3. mirror \in [Ids -> [path : Paths \cup {Blank}, rev : Revs]]
    BY Parts DEF TablesOK
  <2>4. /\ mirror' = [mirror EXCEPT ![other.id] = [path |-> other.path, rev |-> run[q].bytes]]
        /\ run[q].at = "commit"
    BY <1>2 DEF Mirrors
  <2> HIDE DEF other
  <2>5. CASE other.id = pair.id
    <3>1. mirror'[pair.id] = [path |-> other.path, rev |-> run[q].bytes]
      BY <2>2, <2>3, <2>4, <2>5
    <3>2. run[q].bytes >= since[pair.path]
      BY <2>1, <2>2, <2>4, <2>5 DEF Holds
    <3> QED
      BY <2>2, <2>5, <3>1, <3>2
  <2>6. CASE other.id # pair.id
    BY <2>2, <2>3, <2>4, <2>6
  <2> QED
    BY <2>5, <2>6
<1> QED
  BY <1>1, <1>2 DEF Forward

LEMMA SweptStays ==
    ASSUME VerbsInv, Forward, TablesOK', NEW p \in Procs
    PROVE  /\ \A h \in Paths : run[p].since[h] <= files'[h]
           /\ \A i \in SweptBy(run[p]) :
                 /\ mirror'[run[p].pairs[i].id].path = run[p].pairs[i].path
                 /\ mirror'[run[p].pairs[i].id].rev >= run[p].since[run[p].pairs[i].path]
<1> DEFINE r == run[p]
<1>1. r \in Runs /\ InRange(r) /\ Keeps(r, p) /\ NoneOlder(r)
  BY Parts
<1>2. r.pairs \in Seq(AllPairs) /\ r.since \in [Paths -> Revs] /\ r.next \in Nat \ {0}
  BY <1>1, RunFields
<1>3. SweptBy(r) \subseteq DOMAIN r.pairs
  BY <1>1, <1>2 DEF SweptBy, InRange
<1>5. ASSUME NEW h \in Paths PROVE r.since[h] <= files'[h]
  <2>1. r.since[h] \in Nat /\ files[h] \in Nat /\ files'[h] \in Nat /\ r.since[h] <= files[h]
    BY <1>2, Numbers, LinesAssumption DEF TablesOK, Revs
  <2> QED
    BY <2>1 DEF Forward
<1>6. ASSUME NEW i \in SweptBy(r)
      PROVE  /\ mirror'[r.pairs[i].id].path = r.pairs[i].path
             /\ mirror'[r.pairs[i].id].rev >= r.since[r.pairs[i].path]
  <2>1. r.pairs[i] \in AllPairs /\ r.pairs[i].path \in Paths
    BY <1>2, <1>3, PairFacts
  <2>2. /\ mirror[r.pairs[i].id].path = r.pairs[i].path
        /\ mirror[r.pairs[i].id].rev >= r.since[r.pairs[i].path]
    BY <1>1 DEF Keeps, Shows
  <2>3. \A q \in Procs : Holds(run[q], r.pairs[i].path) => run[q].bytes >= r.since[r.pairs[i].path]
    BY <1>1, <2>1 DEF NoneOlder
  <2> HIDE DEF r
  <2> QED
    BY <2>1, <2>2, <2>3, ShownStaysShown
<1> QED
  BY <1>5, <1>6

(***************************************************************************)
(* A run that rests keeps what it has.                                      *)
(***************************************************************************)
LEMMA RestingKeeps ==
    ASSUME VerbsInv, Forward, TablesOK', NEW p \in Procs, run'[p] = run[p]
    PROVE  InRange(run[p])' /\ Keeps(run[p], p)'
<1>1. InRange(run[p]) /\ Keeps(run[p], p)
  BY Parts
<1>2. InRange(run[p])'
  BY <1>1 DEF InRange
<1>3. Held(run[p])'
  <2> SUFFICES ASSUME run[p].at \in {"check", "read", "commit"}
               PROVE  /\ run[p].fp \in 1 .. files'[Target(run[p])]
                      /\ run[p].since[Target(run[p])] <= run[p].fp
                      /\ run[p].at = "commit" => run[p].bytes \in run[p].fp .. files'[Target(run[p])]
    BY DEF Held, Target, PairOf
  <2> DEFINE h == Target(run[p])
  <2>1. h \in Paths
    BY SweptPair DEF Sweeping
  <2>2. /\ run[p].fp \in 1 .. files[h] /\ run[p].since[h] <= run[p].fp
        /\ run[p].at = "commit" => run[p].bytes \in run[p].fp .. files[h]
    BY <1>1 DEF Keeps, Held
  <2>3. files[h] \in Nat /\ files'[h] \in Nat /\ files[h] <= files'[h]
    BY <2>1, Numbers, LinesAssumption DEF Forward, TablesOK, Revs
  <2> HIDE DEF h
  <2> QED
    BY <2>2, <2>3, Numbers DEF h
<1>4. Keeps(run[p], p)'
  BY <1>1, <1>3, SweptStays DEF Keeps, Shows, SweptBy, SeatedBy, Named, PairOf, Forward
<1> QED
  BY <1>2, <1>4

(***************************************************************************)
(* A step of one run: the others rest.  What it newly holds of a home it    *)
(* has read in this step, and whoever starts knows who holds older bytes.   *)
(***************************************************************************)
LEMMA OneRunMoves ==
    ASSUME VerbsInv, Forward, TablesOK', files' = files, NEW p \in Procs, NEW r \in Runs,
           run' = [run EXCEPT ![p] = r], InRange(r), Keeps(run[p], p)',
           r.at = "commit" => r.bytes = files[Target(r)],
           r.since = run[p].since \/ NoneOlder(r)
    PROVE  VerbsInv'
<1>1. run \in [Procs -> Runs]
  BY Parts
<1>2. /\ run' \in [Procs -> Runs] /\ run'[p] = r
      /\ \A q \in Procs \ {p} : run'[q] = run[q]
  BY <1>1
<1>3. \A q \in Procs : InRange(run[q])' /\ Keeps(run[q], q)'
  <2> SUFFICES ASSUME NEW q \in Procs PROVE InRange(run[q])' /\ Keeps(run[q], q)'
    OBVIOUS
  <2>1. CASE q = p
    <3>1. InRange(run[p])'
      BY <1>2 DEF InRange
    <3> QED
      BY <2>1, <3>1
  <2>2. CASE q # p
    BY <1>2, <2>2, RestingKeeps
  <2> QED
    BY <2>1, <2>2
<1>4. ASSUME NEW a \in Procs, NEW h \in Paths, NEW q \in Procs, Holds(run'[q], h)
      PROVE  run'[q].bytes >= run'[a].since[h]
  <2>1. run'[a].since[h] <= files[h] /\ run'[a].since[h] \in Nat /\ files[h] \in Nat
    <3>1. run'[a].since[h] <= files'[h]
      BY <1>3 DEF Keeps
    <3>2. run'[a] \in Runs
      BY <1>2
    <3> QED
      BY <3>1, <3>2, RunFields, Numbers, LinesAssumption DEF Revs
  <2>2. CASE q = p
    <3>1. run'[q].bytes = files[h]
      BY <1>2, <1>4, <2>2 DEF Holds
    <3> QED
      BY <2>1, <3>1
  <2>3. CASE q # p
    <3>1. run'[q] = run[q] /\ Holds(run[q], h)
      BY <1>2, <1>4, <2>3
    <3>2. NoneOlder(run[a]) /\ NoneOlder(run[p])
      BY Parts
    <3>3. CASE a # p
      BY <1>2, <3>1, <3>2, <3>3 DEF NoneOlder
    <3>4. CASE a = p
      BY <1>2, <3>1, <3>2, <3>4 DEF NoneOlder
    <3> QED
      BY <3>3, <3>4
  <2> QED
    BY <2>2, <2>3
<1>5. \A q \in Procs : NoneOlder(run[q])'
  BY <1>4 DEF NoneOlder, Holds, Target, PairOf
<1>6. VerbsInv' <=> /\ TablesOK'
                    /\ run' \in [Procs -> Runs]
                    /\ \A q \in Procs : InRange(run[q])' /\ Keeps(run[q], q)' /\ NoneOlder(run[q])'
  BY DEF VerbsInv, TypeOK, TablesOK, InRange
<1> QED
  BY <1>2, <1>3, <1>5, <1>6

(***************************************************************************)
(* Steps that leave the tables alone.                                       *)
(***************************************************************************)
LEMMA TablesRest ==
    ASSUME VerbsInv, UNCHANGED <<files, homes, mirror, cursor, seats>>
    PROVE  TablesOK' /\ Forward
<1>1. TablesOK
  BY Parts
<1>2. \A h \in Paths : files[h] \in Nat
  BY <1>1, LinesAssumption DEF TablesOK, Revs
<1> QED
  BY <1>1, <1>2 DEF TablesOK, MirrorIsPast, Forward

LEMMA IdleKeeps ==
    ASSUME VerbsInv, NEW p \in Procs, UNCHANGED <<files, homes, mirror, cursor, seats>>,
           run' = [run EXCEPT ![p] = Idle]
    PROVE  VerbsInv'
<1>1. run'[p] = Idle
  BY Parts
<1>2. \A h \in Paths : Idle.since[h] = 0 /\ Idle.since[h] <= files'[h]
  <2> SUFFICES ASSUME NEW h \in Paths PROVE 0 <= files[h]
    BY IdleRun DEF Never
  <2> QED
    BY Numbers
<1>3. SweptBy(Idle) = {}
  BY IdleRun DEF SweptBy, Sweeping
<1>4. Keeps(run[p], p)'
  BY <1>1, <1>2, <1>3, IdleRun DEF Keeps, Held, SweptBy, Sweeping
<1>5. InRange(Idle)
  BY IdleRun DEF InRange, Sweeping
<1>6. NoneOlder(Idle)
  <2>1. \A q \in Procs : run[q].bytes \in Nat
    BY Numbers
  <2> QED
    BY <1>2, <2>1 DEF NoneOlder
<1> QED
  BY <1>4, <1>5, <1>6, IdleRun, TablesRest, OneRunMoves

(***************************************************************************)
(* main.go: a verb that has homes to refresh begins with them; only chart   *)
(* and follow may have none, and follow then asks the database.             *)
(***************************************************************************)
LEMMA StartKeeps ==
    ASSUME VerbsInv, NEW p \in Procs, NEW line \in Lines, Start(p, line)
    PROVE  VerbsInv'
<1> DEFINE request == RequestOf[line]
           point == IF request.pairs # <<>> THEN "register"
                    ELSE IF line.verb = "follow" THEN "list" ELSE "answer"
           since == [h \in Paths |-> IF h \in Quiet THEN files[h] ELSE 0]
           r == [Idle EXCEPT !.verb = line.verb, !.pairs = request.pairs,
                             !.filters = request.filters, !.since = since, !.at = point]
<1>1. /\ run' = [run EXCEPT ![p] = r]
      /\ UNCHANGED <<files, homes, mirror, cursor, seats>>
  BY DEF Start
<1>2. /\ r.at = point /\ r.verb = line.verb /\ r.pairs = request.pairs /\ r.since = since
      /\ r.filters = request.filters /\ r.targets = <<>> /\ r.next = 1
  BY DEF Idle
<1>3. /\ request.pairs \in Seq(AllPairs) /\ request.filters \in Seq(Ids)
      /\ request.pairs = <<>> => line.verb \in FilterVerbs
  BY RequestShape
<1>4. /\ since \in [Paths -> Revs]
      /\ \A h \in Paths : since[h] <= files[h] /\ (h \notin Quiet => since[h] = 0)
      /\ \A h \in Quiet : since[h] = files[h]
  <2>1. files \in [Paths -> Revs \ {0}] /\ 0 \in Revs /\ \A h \in Paths : files[h] \in Nat
    BY Parts, Revisions, LinesAssumption DEF TablesOK, Revs
  <2>2. \A h \in Quiet : h \in Paths
    BY DEF Quiet
  <2> QED
    BY <2>1, <2>2
<1>5. point \in {"register", "list", "answer"} /\ line.verb \in Verbs
  BY LinesAssumption
<1>6. <<>> \in Seq(Ids) /\ 1 \in Nat \ {0} /\ point \in Points
  BY <1>5 DEF Points
<1>7. /\ point = "register" <=> request.pairs # <<>>
      /\ point = "list" => request.pairs = <<>> /\ line.verb = "follow"
      /\ point = "answer" => request.pairs = <<>> /\ line.verb \notin {"attach", "follow"}
  BY <1>3, <1>5 DEF FilterVerbs
<1>8. request.pairs # <<>> => 1 \in DOMAIN request.pairs
  BY <1>3
<1>9. request.pairs = <<>> => DOMAIN request.pairs = {}
  OBVIOUS
<1> HIDE DEF request, point, since
<1>10. r \in Runs
  BY <1>3, <1>4, <1>5, <1>6, Revisions DEF Idle, Runs
<1>16. NoneOlder(r)
  <2> SUFFICES ASSUME NEW h \in Paths, NEW q \in Procs, Holds(run[q], h)
               PROVE  run[q].bytes >= r.since[h]
    BY DEF NoneOlder
  <2>1. r.since = since /\ run[q].bytes \in Nat /\ files[h] \in Nat
    BY <1>2, Numbers
  <2>2. h \in Quiet => run[q].bytes = files[h]
    BY DEF Quiet
  <2> QED
    BY <1>4, <2>1, <2>2
<1> HIDE DEF r
<1>11. InRange(r)
  BY <1>2, <1>5, <1>7, <1>8 DEF InRange, Sweeping
<1>12. SweptBy(r) = {}
  BY <1>2, <1>5, <1>7, <1>9 DEF SweptBy, Sweeping
<1>13. run'[p] = r
  BY <1>1, <1>10, Parts
<1>14. SweptBy(run'[p]) = {} /\ files' = files
  BY <1>1, <1>12, <1>13
<1>15. Keeps(run[p], p)'
  BY <1>2, <1>4, <1>5, <1>7, <1>13, <1>14 DEF Keeps, Held, SweptBy, Sweeping
<1> QED
  BY <1>1, <1>2, <1>5, <1>10, <1>11, <1>15, <1>16, TablesRest, OneRunMoves

(***************************************************************************)
(* scribe.New: the home is there before it is swept.                        *)
(***************************************************************************)
LEMMA RegisterHomeKeeps ==
    ASSUME VerbsInv, NEW p \in Procs, RegisterHome(p) PROVE VerbsInv'
<1> DEFINE old == run[p]
           id == PairOf(old).id
           r == [old EXCEPT !.at = "load"]
<1>1. /\ old \in Runs /\ InRange(old) /\ Keeps(old, p) /\ old.at = "register"
      /\ run' = [run EXCEPT ![p] = r]
      /\ homes' = homes \cup {id} /\ UNCHANGED <<files, mirror, cursor, seats>>
  BY Parts DEF RegisterHome
<1>2. /\ old.pairs \in Seq(AllPairs) /\ old.next \in DOMAIN old.pairs
      /\ r \in Runs /\ r.at = "load" /\ r.next = old.next /\ r.pairs = old.pairs
      /\ r.since = old.since
  <2>1. r \in Runs
    BY <1>1, RunFields DEF Points, Sweeping
  <2>2. r.at = "load" /\ r.next = old.next /\ r.pairs = old.pairs /\ r.since = old.since
    BY <1>1 DEF Runs
  <2> QED
    BY <1>1, <2>1, <2>2, RunFields DEF InRange, Sweeping
<1>3. id \in Ids
  BY <1>1, SweptPair
<1>4. TablesOK
  BY Parts
<1>5. IsFiniteSet(homes')
  BY <1>1, <1>4, FS_AddElement DEF TablesOK
<1>6. TablesOK'
  BY <1>1, <1>3, <1>4, <1>5 DEF TablesOK, MirrorIsPast
<1>7. Forward
  BY <1>1, <1>4, LinesAssumption DEF Forward, TablesOK, Revs
<1>8. run'[p] = r
  BY <1>1, Parts
<1>9. SweptBy(r) = SweptBy(old)
  BY <1>1, <1>2 DEF SweptBy, Sweeping
<1>10. /\ \A h \in Paths : r.since[h] <= files'[h]
       /\ \A i \in SweptBy(r) : /\ mirror'[r.pairs[i].id].path = r.pairs[i].path
                               /\ mirror'[r.pairs[i].id].rev >= r.since[r.pairs[i].path]
  BY <1>2, <1>6, <1>7, <1>9, SweptStays
<1>11. PairOf(r).id \in homes'
  BY <1>1, <1>2 DEF PairOf
<1> HIDE DEF r, id, old
<1>12. Keeps(run[p], p)'
  BY <1>2, <1>8, <1>10, <1>11 DEF Keeps, Held, Shows, SweptBy, PairOf, Sweeping
<1>13. InRange(r)
  BY <1>2 DEF InRange, Sweeping
<1>14. r.at # "commit" /\ r.since = run[p].since
  BY <1>2 DEF old
<1> QED
  BY <1>1, <1>2, <1>14, <1>6, <1>7, <1>12, <1>13, OneRunMoves

(***************************************************************************)
(* A step from one point of a sweep to another, of the same home.           *)
(***************************************************************************)
LEMMA SweepMoves ==
    ASSUME VerbsInv, NEW p \in Procs, UNCHANGED <<files, homes, mirror, cursor, seats>>,
           NEW r \in Runs, run' = [run EXCEPT ![p] = r],
           run[p].at \in Sweeping, r.at \in Sweeping, Held(r),
           r.pairs = run[p].pairs, r.next = run[p].next, r.since = run[p].since,
           r.at = "commit" => r.bytes = files[Target(r)]
    PROVE  VerbsInv'
<1>1. run[p] \in Runs /\ InRange(run[p]) /\ Keeps(run[p], p) /\ run'[p] = r
  BY Parts
<1>2. TablesOK' /\ Forward
  BY TablesRest
<1>3. InRange(r)
  BY <1>1 DEF InRange, Sweeping
<1>4. SweptBy(r) = SweptBy(run[p])
  BY DEF SweptBy
<1>5. Held(run[p])'
  BY <1>1 DEF Held, Target, PairOf
<1>6. SweptBy(run[p])' = SweptBy(run[p]) /\ run'[p].at \notin {"list", "seats", "answer"}
  BY <1>1, <1>4 DEF SweptBy, Sweeping
<1>7. \A i \in SweptBy(run[p])' : Shows(run[p], run[p].pairs[i])'
  BY <1>1, <1>6 DEF Keeps, Shows
<1>8. Keeps(run[p], p)'
  BY <1>1, <1>5, <1>6, <1>7 DEF Keeps, PairOf
<1> QED
  BY <1>2, <1>3, <1>8, OneRunMoves

(***************************************************************************)
(* scribe.New: the cursor, as it is now.                                    *)
(***************************************************************************)
LEMMA LoadCursorKeeps ==
    ASSUME VerbsInv, NEW p \in Procs, LoadCursor(p) PROVE VerbsInv'
<1> DEFINE old == run[p]
           v == cursor[PairOf(old).id]
           a == [old EXCEPT !.at = "fingerprint"]
           r == [a EXCEPT !.known = v]
<1>1. /\ old \in Runs /\ old.at = "load" /\ UNCHANGED <<files, homes, mirror, cursor, seats>>
      /\ run \in [Procs -> Runs] /\ TablesOK
  BY Parts DEF LoadCursor
<1>2. v \in Revs
  BY <1>1, SweptPair DEF Sweeping, TablesOK
<1>3. run' = [run EXCEPT ![p] = r]
  BY <1>1 DEF LoadCursor
<1> HIDE DEF v
<1>4. r \in Runs
  <2>1. a \in Runs
    BY <1>1, RunFields DEF Points, Sweeping
  <2> HIDE DEF a
  <2> QED
    BY <1>2, <2>1, RunFields
<1>5. /\ r.at = "fingerprint" /\ r.pairs = old.pairs /\ r.next = old.next
      /\ r.since = old.since
  BY <1>1 DEF Runs
<1> HIDE DEF r
<1>6. Held(r)
  BY <1>5 DEF Held
<1> QED
  BY <1>1, <1>3, <1>4, <1>5, <1>6, SweepMoves DEF Sweeping

(***************************************************************************)
(* IngestPath: the fingerprint is of the files after the start.             *)
(***************************************************************************)
LEMMA FingerprintKeeps ==
    ASSUME VerbsInv, NEW p \in Procs, Fingerprint(p) PROVE VerbsInv'
<1> DEFINE old == run[p]
           v == files[Target(old)]
           point == IF old.known = v THEN "check" ELSE "read"
           a == [old EXCEPT !.at = point]
           b == [a EXCEPT !.known = 0]
           r == [b EXCEPT !.fp = v]
<1>1. /\ old \in Runs /\ old.at = "fingerprint" /\ UNCHANGED <<files, homes, mirror, cursor, seats>>
      /\ run \in [Procs -> Runs] /\ TablesOK
  BY Parts DEF Fingerprint
<1>2. Target(old) \in Paths
  BY <1>1, SweptPair DEF Sweeping
<1>3. /\ v \in Revs /\ v \in 1 .. files[Target(old)] /\ old.since[Target(old)] <= v
  BY <1>1, <1>2, Numbers DEF TablesOK
<1>4. run' = [run EXCEPT ![p] = r]
  BY <1>1 DEF Fingerprint
<1>5. point \in {"check", "read"}
  OBVIOUS
<1> HIDE DEF v, point
<1>6. r \in Runs
  <2>1. a \in Runs
    BY <1>1, <1>5, RunFields DEF Points, Sweeping
  <2> HIDE DEF a
  <2>2. b \in Runs
    BY <2>1, RunFields, Revisions
  <2> HIDE DEF b
  <2> QED
    BY <1>3, <2>2, RunFields
<1>7. /\ r.at = point /\ r.pairs = old.pairs /\ r.next = old.next
      /\ r.since = old.since /\ r.fp = v
  BY <1>1 DEF Runs
<1> HIDE DEF r
<1>8. Held(r)
  BY <1>3, <1>5, <1>7 DEF Held, Target, PairOf
<1> QED
  BY <1>1, <1>4, <1>5, <1>6, <1>7, <1>8, SweepMoves DEF Sweeping

(***************************************************************************)
(* os.ReadFile: what is read is no older than its fingerprint.              *)
(***************************************************************************)
LEMMA ReadFileKeeps ==
    ASSUME VerbsInv, NEW p \in Procs, ReadFile(p) PROVE VerbsInv'
<1> DEFINE old == run[p]
           v == files[Target(old)]
           a == [old EXCEPT !.at = "commit"]
           r == [a EXCEPT !.bytes = v]
<1>1. /\ old \in Runs /\ old.at = "read" /\ UNCHANGED <<files, homes, mirror, cursor, seats>>
      /\ run \in [Procs -> Runs] /\ TablesOK /\ Keeps(old, p)
  BY Parts DEF ReadFile
<1>2. Target(old) \in Paths
  BY <1>1, SweptPair DEF Sweeping
<1>3. v \in Revs /\ old.fp \in 1 .. v /\ old.since[Target(old)] <= old.fp /\ v \in Nat
  BY <1>1, <1>2, Numbers DEF TablesOK, Keeps, Held
<1>4. run' = [run EXCEPT ![p] = r]
  BY <1>1 DEF ReadFile
<1> HIDE DEF v
<1>5. r \in Runs
  <2>1. a \in Runs
    BY <1>1, RunFields DEF Points, Sweeping
  <2> HIDE DEF a
  <2> QED
    BY <1>3, <2>1, RunFields
<1>6. /\ r.at = "commit" /\ r.pairs = old.pairs /\ r.next = old.next
      /\ r.since = old.since /\ r.fp = old.fp /\ r.bytes = v
  BY <1>1 DEF Runs
<1> HIDE DEF r
<1>7. Target(r) = Target(old)
  BY <1>6 DEF Target, PairOf
<1>8. v = files[Target(old)]
  BY DEF v
<1>9. Held(r)
  BY <1>3, <1>6, <1>7, <1>8 DEF Held
<1> QED
  BY <1>1, <1>4, <1>5, <1>6, <1>7, <1>8, <1>9, SweepMoves DEF Sweeping

(***************************************************************************)
(* The end of a sweep: with the last one every home of the verb is as new   *)
(* as its start.                                                            *)
(***************************************************************************)
LEMMA AfterSweepKeeps ==
    ASSUME VerbsInv, Forward, TablesOK', UNCHANGED <<files, homes, seats>>,
           NEW p \in Procs, run[p].at \in Sweeping,
           run' = [run EXCEPT ![p] = AfterSweep(run[p])],
           mirror'[PairOf(run[p]).id].path = PairOf(run[p]).path,
           mirror'[PairOf(run[p]).id].rev >= run[p].since[PairOf(run[p]).path]
    PROVE  VerbsInv'
<1> DEFINE old == run[p]
           e == Emptied(old)
           r == AfterSweep(old)
           pair == old.pairs[old.next]
<1>1. /\ old \in Runs /\ InRange(old) /\ Keeps(old, p) /\ old.at \in Sweeping
      /\ run' = [run EXCEPT ![p] = r] /\ run'[p] = r
  BY Parts
<1>2. /\ old.pairs \in Seq(AllPairs) /\ old.next \in DOMAIN old.pairs
      /\ old.since \in [Paths -> Revs] /\ old.next \in Nat \ {0} /\ Len(old.pairs) \in Nat
      /\ DOMAIN old.pairs = 1 .. Len(old.pairs)
  BY <1>1, RunFields DEF InRange
<1>3. /\ e \in Runs /\ e.at = old.at /\ e.pairs = old.pairs /\ e.next = old.next
      /\ e.since = old.since /\ e.verb = old.verb
  <2> DEFINE a == [old EXCEPT !.known = 0]
             b == [a EXCEPT !.fp = 0]
  <2>1. a \in Runs
    BY <1>1, RunFields, Revisions
  <2>2. e = [b EXCEPT !.bytes = 0]
    BY DEF Emptied
  <2> HIDE DEF a
  <2>3. b \in Runs
    BY <2>1, RunFields, Revisions
  <2> HIDE DEF b
  <2>4. e \in Runs
    BY <2>2, <2>3, RunFields, Revisions
  <2> QED
    BY <1>1, <2>4 DEF Runs, Emptied
<1>4. /\ \A h \in Paths : old.since[h] <= files[h]
      /\ \A i \in 1 .. old.next - 1 : /\ mirror'[old.pairs[i].id].path = old.pairs[i].path
                                    /\ mirror'[old.pairs[i].id].rev >= old.since[old.pairs[i].path]
  BY <1>1, SweptStays DEF SweptBy, Keeps
<1>5. mirror'[pair.id].path = pair.path /\ mirror'[pair.id].rev >= old.since[pair.path]
  BY DEF PairOf
<1>6. \A i \in 1 .. old.next : /\ mirror'[old.pairs[i].id].path = old.pairs[i].path
                               /\ mirror'[old.pairs[i].id].rev >= old.since[old.pairs[i].path]
  <2> SUFFICES ASSUME NEW i \in 1 .. old.next
               PROVE  /\ mirror'[old.pairs[i].id].path = old.pairs[i].path
                      /\ mirror'[old.pairs[i].id].rev >= old.since[old.pairs[i].path]
    OBVIOUS
  <2>1. CASE i = old.next
    BY <1>5, <2>1
  <2>2. CASE i # old.next
    <3>1. i \in 1 .. old.next - 1
      BY <1>2, <2>2
    <3> QED
      BY <1>4, <3>1
  <2> QED
    BY <2>1, <2>2
<1>7. CASE old.next < Len(old.pairs)
  <2> DEFINE next == [[e EXCEPT !.at = "register"] EXCEPT !.next = old.next + 1]
  <2>1. r = next
    BY <1>3, <1>7 DEF AfterSweep
  <2>2. next \in Runs
    <3> DEFINE a == [e EXCEPT !.at = "register"]
    <3>1. a \in Runs
      BY <1>3, RunFields DEF Points
    <3>2. old.next + 1 \in Nat \ {0}
      BY <1>2
    <3> HIDE DEF a, e, old
    <3>3. [a EXCEPT !.next = old.next + 1] \in Runs
      BY <3>1, <3>2, RunFields, Zenon
    <3> QED
      BY <3>3 DEF a
  <2>3. /\ next.at = "register" /\ next.next = old.next + 1 /\ next.pairs = old.pairs
        /\ next.since = old.since
    BY <1>3 DEF Runs
  <2> HIDE DEF r, next, pair, old, e
  <2>4. SweptBy(next) = 1 .. old.next
    BY <1>2, <2>3 DEF SweptBy, Sweeping
  <2>5. InRange(next)
    BY <1>2, <1>7, <2>3 DEF InRange, Sweeping
  <2>6. run'[p] = next /\ SweptBy(run'[p]) = 1 .. old.next
    BY <1>1, <2>1, <2>4
  <2>7. Keeps(run[p], p)'
    BY <1>3, <1>4, <1>6, <2>3, <2>6 DEF Keeps, Held, Shows, SweptBy, Sweeping
  <2>8. next.at # "commit" /\ next.since = run[p].since
    BY <1>3, <2>3 DEF old
  <2> QED
    BY <1>1, <1>3, <2>1, <2>2, <2>5, <2>7, <2>8, OneRunMoves
<1>8. CASE ~(old.next < Len(old.pairs)) /\ old.verb \in {"attach", "follow"}
  <2> DEFINE ids == [i \in DOMAIN old.pairs |-> old.pairs[i].id]
             next == [[[e EXCEPT !.at = "seats"] EXCEPT !.targets = ids] EXCEPT !.next = 1]
  <2>1. r = next
    BY <1>8 DEF AfterSweep
  <2>2. ids \in Seq(Ids)
    <3>1. \A i \in DOMAIN old.pairs : old.pairs[i].id \in Ids
      BY <1>2, PairFacts
    <3> QED
      BY <1>2, <3>1
  <2>3. old.next = Len(old.pairs) /\ 1 \in DOMAIN old.pairs /\ old.pairs # <<>>
    BY <1>2, <1>8
  <2>4. /\ DOMAIN ids = DOMAIN old.pairs /\ 1 \in DOMAIN ids
        /\ \A i \in DOMAIN old.pairs : ids[i] = old.pairs[i].id
    BY <2>3
  <2> HIDE DEF ids
  <2>5. next \in Runs
    <3> DEFINE a == [e EXCEPT !.at = "seats"]
               b == [a EXCEPT !.targets = ids]
    <3>1. a \in Runs
      BY <1>3, RunFields DEF Points
    <3> HIDE DEF a
    <3>2. b \in Runs
      BY <2>2, <3>1, RunFields
    <3> HIDE DEF b
    <3>3. 1 \in Nat \ {0}
      OBVIOUS
    <3>4. [b EXCEPT !.next = 1] \in Runs
      BY <3>2, <3>3, RunFields, Zenon
    <3> QED
      BY <3>4 DEF a, b
  <2>6. /\ next.at = "seats" /\ next.next = 1 /\ next.pairs = old.pairs
        /\ next.since = old.since /\ next.targets = ids /\ next.verb = old.verb
    BY <1>3 DEF Runs
  <2> HIDE DEF r, next, pair, old, e
  <2>7. SweptBy(next) = 1 .. old.next /\ SeatedBy(next) = {}
    BY <1>2, <2>3, <2>6 DEF SweptBy, SeatedBy, Sweeping
  <2>8. InRange(next)
    BY <2>4, <2>6 DEF InRange, Sweeping
  <2>9. Range(ids) # {} /\ Named(next) \subseteq Range(ids)
    BY <2>3, <2>4, <2>6 DEF Range, Named
  <2>10. /\ run'[p] = next /\ SweptBy(run'[p]) = 1 .. old.next /\ SeatedBy(run'[p]) = {}
         /\ Named(run'[p]) \subseteq Range(ids)
    BY <1>1, <2>1, <2>7, <2>9
  <2>11. Keeps(run[p], p)'
    BY <1>3, <1>4, <1>6, <1>8, <2>6, <2>9, <2>10 DEF Keeps, Held, Shows, SweptBy, Sweeping, SeatedBy, Named
  <2>12. next.at # "commit" /\ next.since = run[p].since
    BY <1>3, <2>6 DEF old
  <2> QED
    BY <1>1, <1>3, <2>1, <2>5, <2>8, <2>11, <2>12, OneRunMoves
<1>9. CASE ~(old.next < Len(old.pairs)) /\ old.verb \notin {"attach", "follow"}
  <2> DEFINE next == [e EXCEPT !.at = "answer"]
  <2>1. r = next
    BY <1>9 DEF AfterSweep
  <2>2. next \in Runs
    BY <1>3, RunFields DEF Points
  <2>3. /\ next.at = "answer" /\ next.pairs = old.pairs /\ next.since = old.since
        /\ next.verb = old.verb
    BY <1>3 DEF Runs
  <2>4. old.next = Len(old.pairs)
    BY <1>2, <1>9
  <2> HIDE DEF r, next, pair, old, e
  <2>5. SweptBy(next) = 1 .. old.next
    BY <1>2, <2>3, <2>4 DEF SweptBy, Sweeping
  <2>6. run'[p] = next /\ SweptBy(run'[p]) = 1 .. old.next
    BY <1>1, <2>1, <2>5
  <2>7. Keeps(run[p], p)' /\ InRange(next)
    BY <1>3, <1>4, <1>6, <1>9, <2>3, <2>6 DEF Keeps, Held, Shows, SweptBy, Sweeping, InRange
  <2>8. next.at # "commit" /\ next.since = run[p].since
    BY <1>3, <2>3 DEF old
  <2> QED
    BY <1>1, <1>3, <2>1, <2>2, <2>7, <2>8, OneRunMoves
<1> QED
  BY <1>7, <1>8, <1>9

(***************************************************************************)
(* persistedUnchanged: a cursor at a fingerprint that was taken after the   *)
(* start means a mirror that is no older.                                   *)
(***************************************************************************)
LEMMA CheckCursorKeeps ==
    ASSUME VerbsInv, NEW p \in Procs, CheckCursor(p) PROVE VerbsInv'
<1> DEFINE old == run[p]
           pair == PairOf(old)
           r == [old EXCEPT !.at = "read"]
<1>1. /\ old \in Runs /\ old.at = "check" /\ UNCHANGED <<files, homes, mirror, cursor, seats>>
      /\ run \in [Procs -> Runs] /\ TablesOK /\ Keeps(old, p)
      /\ run' = [run EXCEPT ![p] = IF cursor[pair.id] = old.fp THEN AfterSweep(old) ELSE r]
  BY Parts DEF CheckCursor
<1>2. pair \in AllPairs /\ pair.id \in Ids /\ pair.path \in Paths /\ Target(old) = pair.path
  BY <1>1, SweptPair DEF Sweeping
<1>3. old.fp \in 1 .. files[pair.path] /\ old.since[pair.path] <= old.fp
  BY <1>1, <1>2 DEF Keeps, Held
<1>4. CASE cursor[pair.id] = old.fp
  <2>1. cursor[pair.id] <= mirror[pair.id].rev
    BY <1>1, <1>2 DEF TablesOK, MirrorIsPast
  <2>2. /\ mirror[pair.id].rev \in Nat /\ files[pair.path] \in Nat
        /\ old.since[pair.path] \in Nat
    BY <1>1, <1>2, Numbers, LinesAssumption DEF TablesOK, Revs
  <2>3. mirror[pair.id].rev # 0 /\ mirror[pair.id].rev >= old.since[pair.path]
    <3> HIDE DEF pair, old
    <3> QED
      BY <1>3, <1>4, <2>1, <2>2
  <2>4. mirror[pair.id] # None
    BY <2>3 DEF None
  <2>5. PICK q \in AllPairs : q.id = pair.id /\ q.path = mirror[pair.id].path
    BY <1>1, <1>2, <2>4 DEF TablesOK, MirrorIsPast
  <2>6. mirror[pair.id].path = pair.path
    BY <1>2, <2>5, PairFacts
  <2>7. TablesOK' /\ Forward
    BY <1>1, TablesRest
  <2>8. run' = [run EXCEPT ![p] = AfterSweep(run[p])]
    BY <1>1, <1>4
  <2>9. run[p].at \in Sweeping /\ mirror' = mirror /\ UNCHANGED <<files, homes, seats>>
    BY <1>1 DEF Sweeping
  <2> QED
    BY <2>3, <2>6, <2>7, <2>8, <2>9, AfterSweepKeeps
<1>5. CASE cursor[pair.id] # old.fp
  <2>1. r \in Runs
    BY <1>1, RunFields DEF Points, Sweeping
  <2>2. /\ r.at = "read" /\ r.pairs = old.pairs /\ r.next = old.next
        /\ r.since = old.since /\ r.fp = old.fp
    BY <1>1 DEF Runs
  <2>3. run' = [run EXCEPT ![p] = r]
    BY <1>1, <1>5
  <2> HIDE DEF r
  <2>4. Held(r)
    BY <1>2, <1>3, <2>2 DEF Held, Target, PairOf
  <2> QED
    BY <1>1, <2>1, <2>2, <2>3, <2>4, SweepMoves DEF Sweeping
<1> QED
  BY <1>4, <1>5

(***************************************************************************)
(* The transaction: what was read becomes the current row, and the cursor   *)
(* stands at a fingerprint that is no newer.                                *)
(***************************************************************************)
LEMMA CommitTables ==
    ASSUME VerbsInv, NEW p \in Procs, Commit(p)
    PROVE  LET pair == PairOf(run[p])
           IN  /\ pair \in AllPairs /\ Mirrors(p)
               /\ mirror'[pair.id] = [path |-> pair.path, rev |-> run[p].bytes]
               /\ run[p].bytes >= run[p].since[pair.path]
               /\ UNCHANGED <<files, homes, seats>>
               /\ TablesOK' /\ Forward
<1> DEFINE pair == PairOf(run[p])
           fp == run[p].fp
           bytes == run[p].bytes
<1>1. run[p] \in Runs /\ Keeps(run[p], p) /\ TablesOK
  BY Parts
<1>2. /\ run[p].at = "commit" /\ Mirrors(p) /\ UNCHANGED <<files, homes, seats>>
      /\ mirror' = [mirror EXCEPT ![pair.id] = [path |-> pair.path, rev |-> bytes]]
      /\ cursor' = [cursor EXCEPT ![pair.id] = fp]
  BY DEF Commit, Mirrors
<1>3. pair \in AllPairs /\ pair.id \in Ids /\ pair.path \in Paths /\ Target(run[p]) = pair.path
  BY <1>2, SweptPair DEF Sweeping
<1>4. pair.id \in homes
  BY <1>1, <1>2 DEF Keeps, Sweeping
<1>5. /\ fp \in 1 .. files[pair.path] /\ bytes \in fp .. files[pair.path]
      /\ run[p].since[pair.path] <= fp /\ files[pair.path] \in Nat /\ run[p].since[pair.path] \in Nat
  BY <1>1, <1>2, <1>3, Numbers DEF Keeps, Held
<1>6. bytes \in Revs /\ fp \in Revs
  BY <1>1, RunFields
<1> HIDE DEF pair, fp, bytes
<1>7. bytes \in 1 .. files[pair.path] /\ fp <= bytes /\ bytes >= run[p].since[pair.path]
  BY <1>5
<1>8. /\ mirror'[pair.id] = [path |-> pair.path, rev |-> bytes] /\ cursor'[pair.id] = fp
      /\ \A i \in Ids \ {pair.id} : mirror'[i] = mirror[i] /\ cursor'[i] = cursor[i]
      /\ mirror' \in [Ids -> [path : Paths \cup {Blank}, rev : Revs]] /\ cursor' \in [Ids -> Revs]
  BY <1>1, <1>2, <1>3, <1>6 DEF TablesOK
<1>9. MirrorIsPast'
  <2> SUFFICES ASSUME NEW i \in Ids
               PROVE  /\ cursor'[i] <= mirror'[i].rev
                      /\ mirror'[i] # None =>
                            \E q \in AllPairs : q.id = i /\ q.path = mirror'[i].path
                                                /\ mirror'[i].rev \in 1 .. files[q.path]
    BY <1>2 DEF MirrorIsPast
  <2>1. CASE i = pair.id
    <3>1. mirror'[i].path = pair.path /\ mirror'[i].rev = bytes /\ cursor'[i] = fp
      BY <1>8, <2>1
    <3> QED
      BY <1>3, <1>7, <2>1, <3>1
  <2>2. CASE i # pair.id
    BY <1>1, <1>8, <2>2 DEF TablesOK, MirrorIsPast
  <2> QED
    BY <2>1, <2>2
<1>10. \A i \in Ids : mirror'[i] # None => i \in homes
  BY <1>1, <1>4, <1>8 DEF TablesOK
<1>11. TablesOK'
  BY <1>1, <1>2, <1>8, <1>9, <1>10 DEF TablesOK
<1>12. Forward
  <2>1. \A h \in Paths : files[h] <= files[h]
    BY Numbers
  <2> QED
    BY <1>2, <2>1 DEF Forward
<1> QED
  BY <1>2, <1>3, <1>7, <1>8, <1>11, <1>12 DEF pair, bytes

LEMMA CommitKeeps ==
    ASSUME VerbsInv, NEW p \in Procs, Commit(p) PROVE VerbsInv'
<1>1. run' = [run EXCEPT ![p] = AfterSweep(run[p])] /\ run[p].at \in Sweeping
  BY DEF Commit, Sweeping
<1>2. /\ mirror'[PairOf(run[p]).id].path = PairOf(run[p]).path
      /\ mirror'[PairOf(run[p]).id].rev >= run[p].since[PairOf(run[p]).path]
      /\ UNCHANGED <<files, homes, seats>> /\ TablesOK' /\ Forward
  <2> DEFINE pair == PairOf(run[p])
             bytes == run[p].bytes
  <2>1. /\ mirror'[pair.id] = [path |-> pair.path, rev |-> bytes] /\ bytes >= run[p].since[pair.path]
        /\ UNCHANGED <<files, homes, seats>> /\ TablesOK' /\ Forward
    BY CommitTables
  <2> HIDE DEF pair, bytes
  <2>2. mirror'[pair.id].path = pair.path /\ mirror'[pair.id].rev >= run[p].since[pair.path]
    BY <2>1
  <2> QED
    BY <2>1, <2>2 DEF pair
<1> QED
  BY <1>1, <1>2, AfterSweepKeeps

(***************************************************************************)
(* follow: the filter, or the homes that are registered.                    *)
(***************************************************************************)
LEMMA ListHomesKeeps ==
    ASSUME VerbsInv, NEW p \in Procs, ListHomes(p) PROVE VerbsInv'
<1> DEFINE old == run[p]
           ids == IF old.filters # <<>> THEN old.filters ELSE SetToSeq(homes)
           r == [[old EXCEPT !.at = "seats"] EXCEPT !.targets = ids]
<1>1. /\ old \in Runs /\ Keeps(old, p) /\ old.at = "list"
      /\ UNCHANGED <<files, homes, mirror, cursor, seats>>
      /\ run' = [run EXCEPT ![p] = IF ids = <<>> THEN Idle ELSE r]
      /\ TablesOK
  BY Parts DEF ListHomes
<1>2. CASE ids = <<>>
  BY <1>1, <1>2, IdleKeeps
<1>3. CASE ids # <<>>
  <2>1. ids \in Seq(Ids)
    BY <1>1, RunFields, ListedHomes DEF TablesOK
  <2>2. old.pairs = <<>> /\ old.next = 1 /\ old.verb \in {"attach", "follow"}
    BY <1>1 DEF Keeps
  <2>3. old.filters # <<>> => ids = old.filters
    OBVIOUS
  <2> HIDE DEF ids
  <2>4. r \in Runs
    <3> DEFINE a == [old EXCEPT !.at = "seats"]
    <3>1. a \in Runs
      BY <1>1, RunFields DEF Points
    <3> HIDE DEF a
    <3>2. [a EXCEPT !.targets = ids] \in Runs
      BY <2>1, <3>1, RunFields
    <3> QED
      BY <3>2 DEF a
  <2>5. /\ r.at = "seats" /\ r.targets = ids /\ r.pairs = <<>> /\ r.next = 1
        /\ r.filters = old.filters /\ r.since = old.since /\ r.verb = old.verb
    BY <1>1, <2>2 DEF Runs
  <2>6. \A h \in Paths : old.since[h] <= files[h]
    BY <1>1 DEF Keeps
  <2>7. 1 \in DOMAIN ids /\ Range(ids) # {}
    BY <1>3, <2>1 DEF Range
  <2>8. run' = [run EXCEPT ![p] = r] /\ run'[p] = r
    BY <1>1, <1>3, Parts
  <2> HIDE DEF r, old
  <2>9. SweptBy(r) = {} /\ SeatedBy(r) = {} /\ Named(r) \subseteq Range(ids)
    BY <2>3, <2>5 DEF SweptBy, SeatedBy, Named, Range, Sweeping
  <2>10. SweptBy(run'[p]) = {} /\ SeatedBy(run'[p]) = {} /\ Named(run'[p]) \subseteq Range(ids)
    BY <2>8, <2>9
  <2>11. Keeps(run[p], p)'
    BY <1>1, <2>5, <2>6, <2>7, <2>8, <2>10, <2>2
       DEF Keeps, Held, SweptBy, SeatedBy, Named, Sweeping
  <2>12. InRange(r)
    BY <2>5, <2>7 DEF InRange, Sweeping
  <2>13. r.at # "commit" /\ r.since = run[p].since
    BY <2>5 DEF old
  <2> QED
    BY <1>1, <2>4, <2>8, <2>11, <2>12, <2>13, TablesRest, OneRunMoves
<1> QED
  BY <1>2, <1>3

(***************************************************************************)
(* registerSeats: a seat of each target, or the end.                        *)
(***************************************************************************)
LEMMA RegisterSeatKeeps ==
    ASSUME VerbsInv, NEW p \in Procs, RegisterSeat(p) PROVE VerbsInv'
<1> DEFINE old == run[p]
           id == old.targets[old.next]
<1>1. /\ old \in Runs /\ InRange(old) /\ Keeps(old, p) /\ old.at = "seats" /\ TablesOK
      /\ UNCHANGED <<files, homes, mirror, cursor>>
  BY Parts DEF RegisterSeat
<1>2. CASE id \notin homes
  BY <1>1, <1>2, IdleKeeps DEF RegisterSeat
<1>3. CASE id \in homes
  <2> DEFINE further == [old EXCEPT !.next = old.next + 1]
             last == [old EXCEPT !.at = "answer"]
             r == IF old.next < Len(old.targets) THEN further ELSE last
  <2>1. /\ seats' = seats \cup {[home |-> id, workspace |-> p]}
        /\ run' = [run EXCEPT ![p] = r] /\ run'[p] = r
    <3>1. seats' = seats \cup {[home |-> id, workspace |-> p]} /\ run' = [run EXCEPT ![p] = AfterSeat(old)]
      BY <1>3, Zenon DEF RegisterSeat
    <3>2. r = AfterSeat(old)
      BY DEF AfterSeat
    <3> HIDE DEF r
    <3> QED
      BY <3>1, <3>2, Parts
  <2>2. TablesOK'
    BY <1>1, <1>3, <2>1 DEF TablesOK, MirrorIsPast
  <2>3. Forward
    BY <1>1, <2>1, LinesAssumption DEF TablesOK, Forward, Revs
  <2>4. /\ old.targets \in Seq(Ids) /\ old.next \in Nat \ {0}
        /\ old.next \in 1 .. Len(old.targets) /\ Len(old.targets) \in Nat
    BY <1>1, RunFields DEF InRange
  <2>5. further \in Runs /\ last \in Runs
    <3>1. old.next + 1 \in Nat \ {0} /\ "answer" \in Points
      BY <2>4 DEF Points
    <3> QED
      BY <1>1, <3>1, RunFields, Zenon
  <2>6. /\ r.pairs = old.pairs /\ r.since = old.since /\ r.targets = old.targets
        /\ r.filters = old.filters /\ r.verb = old.verb
        /\ r.at = (IF old.next < Len(old.targets) THEN "seats" ELSE "answer")
        /\ old.next < Len(old.targets) => r.next = old.next + 1
    BY <1>1 DEF Runs
  <2>7. r \in Runs
    BY <2>5
  <2>8. /\ \A h \in Paths : old.since[h] <= files'[h]
        /\ \A i \in DOMAIN old.pairs :
              /\ mirror'[old.pairs[i].id].path = old.pairs[i].path
              /\ mirror'[old.pairs[i].id].rev >= old.since[old.pairs[i].path]
    BY <1>1, <2>2, <2>3, SweptStays DEF SweptBy, Sweeping
  <2>9. /\ old.verb \in {"attach", "follow"}
        /\ Range(old.targets) # {} /\ Named(old) \subseteq Range(old.targets)
        /\ \A i \in 1 .. old.next - 1 : [home |-> old.targets[i], workspace |-> p] \in seats
    BY <1>1 DEF Keeps, SeatedBy
  <2>10. \A i \in 1 .. old.next : [home |-> old.targets[i], workspace |-> p] \in seats'
    <3> SUFFICES ASSUME NEW i \in 1 .. old.next
                 PROVE  [home |-> old.targets[i], workspace |-> p] \in seats'
      OBVIOUS
    <3>1. CASE i = old.next
      BY <2>1, <3>1
    <3>2. CASE i # old.next
      BY <2>1, <2>4, <2>9, <3>2
    <3> QED
      BY <3>1, <3>2
  <2> HIDE DEF r, further, last, old, id
  <2>11. SweptBy(r) = DOMAIN old.pairs /\ SeatedBy(r) = 1 .. old.next /\ Named(r) = Named(old)
    BY <2>4, <2>6 DEF SweptBy, SeatedBy, Named, Sweeping
  <2>12. /\ SweptBy(run'[p]) = DOMAIN old.pairs /\ SeatedBy(run'[p]) = 1 .. old.next
         /\ Named(run'[p]) = Named(old)
    BY <2>1, <2>11
  <2>13. Keeps(run[p], p)'
    <3>1. \A i \in SweptBy(run[p])' : Shows(run[p], run[p].pairs[i])'
      BY <2>1, <2>6, <2>8, <2>12 DEF Shows, SweptBy, Sweeping
    <3>2. \A i \in SeatedBy(run[p])' : [home |-> run'[p].targets[i], workspace |-> p] \in seats'
      BY <2>1, <2>6, <2>10, <2>12 DEF SeatedBy
    <3>3. Named(run[p])' \subseteq Range(run'[p].targets)
      BY <2>1, <2>6, <2>9, <2>12 DEF Named
    <3>4. run'[p].at \in {"seats", "answer"}
      BY <2>1, <2>6
    <3> QED
      BY <2>1, <2>6, <2>8, <2>9, <3>1, <3>2, <3>3, <3>4 DEF Keeps, Held, Sweeping
  <2>14. InRange(r)
    BY <2>4, <2>6 DEF InRange, Sweeping
  <2>15. r.at # "commit" /\ r.since = run[p].since
    BY <2>6 DEF old
  <2> QED
    BY <1>1, <2>1, <2>2, <2>3, <2>7, <2>13, <2>14, <2>15, OneRunMoves
<1> QED
  BY <1>2, <1>3

LEMMA RewriteKeeps ==
    ASSUME VerbsInv, NEW h \in Paths, Rewrite(h) PROVE VerbsInv'
<1>1. TablesOK /\ run \in [Procs -> Runs]
  BY Parts
<1>2. files[h] \in Nat \ {0} /\ files[h] < MaxRev /\ MaxRev \in Nat
  BY <1>1, LinesAssumption DEF TablesOK, Revs, Rewrite
<1>3. /\ files' \in [Paths -> Revs \ {0}]
      /\ \A g \in Paths : files[g] <= files'[g] /\ files[g] \in Nat /\ files'[g] \in Nat
  BY <1>1, <1>2 DEF TablesOK, Revs, Rewrite
<1>4. MirrorIsPast'
  <2> SUFFICES ASSUME NEW i \in Ids, mirror[i] # None
               PROVE  \E q \in AllPairs : q.id = i /\ q.path = mirror[i].path
                                         /\ mirror[i].rev \in 1 .. files'[q.path]
    BY <1>1 DEF TablesOK, MirrorIsPast, Rewrite
  <2>1. PICK q \in AllPairs : q.id = i /\ q.path = mirror[i].path /\ mirror[i].rev \in 1 .. files[q.path]
    BY <1>1 DEF TablesOK, MirrorIsPast
  <2>2. q.path \in Paths
    BY PairFacts
  <2>3. mirror[i].rev \in 1 .. files'[q.path]
    BY <1>3, <2>1, <2>2
  <2> QED
    BY <2>1, <2>3
<1>5. TablesOK'
  BY <1>1, <1>3, <1>4 DEF TablesOK, Rewrite
<1>6. Forward
  BY <1>3 DEF Forward, Rewrite
<1>7. \A p \in Procs : InRange(run[p])' /\ Keeps(run[p], p)'
  BY <1>5, <1>6, RestingKeeps DEF Rewrite
<1>8. \A p \in Procs : NoneOlder(run[p])'
  BY Parts DEF Rewrite, NoneOlder, Holds, Target, PairOf
<1> QED
  BY <1>1, <1>5, <1>7, <1>8 DEF VerbsInv, TypeOK, TablesOK, InRange, Rewrite

LEMMA InitHolds == Init => VerbsInv
<1> SUFFICES ASSUME Init PROVE VerbsInv
  OBVIOUS
<1>1. TablesOK
  <2>1. files \in [Paths -> Revs \ {0}]
    BY Revisions DEF Init, Fresh
  <2>2. homes \subseteq Ids /\ IsFiniteSet(homes)
    BY FS_EmptySet DEF Init
  <2>3. /\ mirror \in [Ids -> [path : Paths \cup {Blank}, rev : Revs]]
        /\ cursor \in [Ids -> Revs] /\ \A i \in Ids : cursor[i] <= mirror[i].rev
    BY Revisions DEF Init, None
  <2> QED
    BY <2>1, <2>2, <2>3 DEF Init, TablesOK, MirrorIsPast
<1>2. run \in [Procs -> Runs] /\ \A p \in Procs : run[p] = Idle
  BY IdleRun DEF Init
<1>3. \A h \in Paths : Never[h] = 0 /\ 0 <= files[h]
  BY DEF Init, Fresh, Never
<1>4. SweptBy(Idle) = {}
  BY IdleRun DEF SweptBy, Sweeping
<1>5. \A p \in Procs : InRange(run[p]) /\ Keeps(run[p], p) /\ NoneOlder(run[p])
  BY <1>2, <1>3, <1>4, IdleRun DEF InRange, Keeps, Held, NoneOlder, Holds, Sweeping
<1> QED
  BY <1>1, <1>2, <1>5, Parts

LEMMA StepKeeps == VerbsInv /\ [Next]_vars => VerbsInv'
<1> SUFFICES ASSUME VerbsInv, [Next]_vars PROVE VerbsInv'
  OBVIOUS
<1>1. CASE UNCHANGED vars
  <2>1. TablesOK' /\ Forward /\ run' = run
    BY <1>1, TablesRest DEF vars
  <2>2. \A p \in Procs : InRange(run[p])' /\ Keeps(run[p], p)'
    BY <2>1, RestingKeeps
  <2>3. run' \in [Procs -> Runs]
    BY <2>1, Parts
  <2>4. \A p \in Procs : NoneOlder(run[p])'
    BY <2>1, Parts DEF NoneOlder, Holds, Target, PairOf
  <2> QED
    BY <2>1, <2>2, <2>3, <2>4 DEF VerbsInv, TypeOK, TablesOK, InRange
<1>2. ASSUME NEW h \in Paths, Rewrite(h) PROVE VerbsInv'
  BY <1>2, RewriteKeeps
<1>3. ASSUME NEW p \in Procs, NEW line \in Lines, Start(p, line) PROVE VerbsInv'
  BY <1>3, StartKeeps
<1>4. ASSUME NEW p \in Procs,
             \/ RegisterHome(p) \/ LoadCursor(p) \/ Fingerprint(p) \/ CheckCursor(p)
             \/ ReadFile(p) \/ Commit(p) \/ ListHomes(p) \/ RegisterSeat(p)
      PROVE  VerbsInv'
  BY <1>4, RegisterHomeKeeps, LoadCursorKeeps, FingerprintKeeps, CheckCursorKeeps, ReadFileKeeps,
     CommitKeeps, ListHomesKeeps, RegisterSeatKeeps
<1>5. ASSUME NEW p \in Procs, Answer(p) \/ Ends(p) PROVE VerbsInv'
  BY <1>5, IdleKeeps DEF Answer, Ends
<1> QED
  BY <1>1, <1>2, <1>3, <1>4, <1>5 DEF Next

(***************************************************************************)
(* verbs.go, main.go: the inductive invariant, for any number of running    *)
(* verbs, homes and rewrites, whoever fails at whatever step: bytes that    *)
(* were read before a rewrite may be committed after another verb mirrored  *)
(* it, and a verb relies only on homes nobody held older bytes of when it   *)
(* started.                                                                 *)
(***************************************************************************)
THEOREM Inductive == Spec => []VerbsInv
BY InitHolds, StepKeeps, PTL DEF Spec

(***************************************************************************)
(* refreshMirrors before the answer: a verb that answers shows every write  *)
(* that preceded it, of each of its homes of which nobody held older bytes  *)
(* when it started, whatever other verbs read and commit between its own    *)
(* sweep and its answer, and whatever cursor it trusted.                    *)
(***************************************************************************)
THEOREM EveryAnswerIsFresh == Spec => []AnswersAreFresh
<1>1. VerbsInv => AnswersAreFresh
  BY DEF VerbsInv, Keeps, AnswersAreFresh, SweptBy, Sweeping
<1> QED
  BY <1>1, Inductive, PTL

(***************************************************************************)
(* registerSeats before the answer: a subscriber has a seat of every home   *)
(* it named, and of at least one.                                           *)
(***************************************************************************)
THEOREM EverySubscriberIsSeated == Spec => []SubscribersAreSeated
<1>1. ASSUME VerbsInv, NEW p \in Procs, run[p].at = "answer", Subscribes(p)
      PROVE  /\ Range(run[p].targets) # {}
             /\ \A i \in Named(run[p]) \cup Range(run[p].targets) :
                    [home |-> i, workspace |-> p] \in seats
  <2>1. Keeps(run[p], p)
    BY <1>1 DEF VerbsInv
  <2>2. /\ Range(run[p].targets) # {} /\ Named(run[p]) \subseteq Range(run[p].targets)
        /\ \A i \in DOMAIN run[p].targets : [home |-> run[p].targets[i], workspace |-> p] \in seats
    BY <1>1, <2>1 DEF Keeps, SeatedBy, Subscribes
  <2> QED
    BY <2>2 DEF Range
<1>2. VerbsInv => SubscribersAreSeated
  BY <1>1 DEF SubscribersAreSeated
<1> QED
  BY <1>2, Inductive, PTL

(***************************************************************************)
(* Whoever comes to hold bytes of a home holds the files as they are.       *)
(***************************************************************************)
LEMMA HoldersAreNew ==
    ASSUME VerbsInv, Next, NEW q \in Procs, NEW h \in Paths, Holds(run'[q], h)
    PROVE  \/ run'[q] = run[q]
           \/ run'[q].bytes = files[h]
<1>1. run \in [Procs -> Runs]
  BY Parts
<1>2. ASSUME NEW p \in Procs, ReadFile(p)
      PROVE  run'[q] = run[q] \/ run'[q].bytes = files[h]
  <2>1. CASE q # p
    BY <1>1, <1>2, <2>1 DEF ReadFile
  <2>2. CASE q = p
    <3>1. /\ run'[q].bytes = files[Target(run[q])]
          /\ run'[q].pairs = run[q].pairs /\ run'[q].next = run[q].next
      BY <1>1, <1>2, <2>2 DEF ReadFile, Runs
    <3> QED
      BY <3>1 DEF Holds, Target, PairOf
  <2> QED
    BY <2>1, <2>2
<1>3. ASSUME NEW p \in Procs, run'[p].at # "commit", \A o \in Procs \ {p} : run'[o] = run[o]
      PROVE  run'[q] = run[q]
  BY <1>3 DEF Holds
<1>4. \A r \in Runs : AfterSweep(r).at \in {"register", "seats", "answer"}
  BY DEF AfterSweep, Emptied, Runs
<1>5. ASSUME NEW p \in Procs, CheckCursor(p) \/ Commit(p) PROVE run'[q] = run[q]
  <2>1. run[p] \in Runs
    BY <1>1
  <2>2. run'[p].at # "commit" /\ \A o \in Procs \ {p} : run'[o] = run[o]
    BY <1>1, <1>4, <1>5, <2>1 DEF CheckCursor, Commit, Runs
  <2> QED
    BY <1>3, <2>2
<1>6. ASSUME NEW p \in Procs, RegisterHome(p) \/ LoadCursor(p) \/ Fingerprint(p) PROVE run'[q] = run[q]
  <2>1. run'[p].at # "commit" /\ \A o \in Procs \ {p} : run'[o] = run[o]
    BY <1>1, <1>6 DEF RegisterHome, LoadCursor, Fingerprint, Runs
  <2> QED
    BY <1>3, <2>1
<1>7. ASSUME NEW p \in Procs, ListHomes(p) \/ RegisterSeat(p) \/ Answer(p) \/ Ends(p)
      PROVE  run'[q] = run[q]
  <2>1. Idle.at = "idle"
    BY DEF Idle
  <2>2. \A r \in Runs : r.at = "seats" => AfterSeat(r).at \in {"seats", "answer"}
    BY DEF AfterSeat, Runs
  <2>3. \A r \in Runs : \A ids : [r EXCEPT !.at = "seats", !.targets = ids].at = "seats"
    BY DEF Runs
  <2>4. run[p] \in Runs
    BY <1>1
  <2>5. CASE ListHomes(p)
    <3>1. run'[p].at # "commit" /\ \A o \in Procs \ {p} : run'[o] = run[o]
      BY <1>1, <2>1, <2>3, <2>4, <2>5 DEF ListHomes
    <3> QED
      BY <1>3, <3>1
  <2>6. CASE RegisterSeat(p)
    <3>1. run'[p].at # "commit" /\ \A o \in Procs \ {p} : run'[o] = run[o]
      BY <1>1, <2>1, <2>2, <2>4, <2>6 DEF RegisterSeat
    <3> QED
      BY <1>3, <3>1
  <2>7. CASE Answer(p) \/ Ends(p)
    <3>1. run'[p].at # "commit" /\ \A o \in Procs \ {p} : run'[o] = run[o]
      BY <1>1, <2>1, <2>7 DEF Answer, Ends
    <3> QED
      BY <1>3, <3>1
  <2> QED
    BY <1>7, <2>5, <2>6, <2>7
<1>8. ASSUME NEW p \in Procs, NEW line \in Lines, Start(p, line) PROVE run'[q] = run[q]
  <2>1. run'[p].at # "commit" /\ \A o \in Procs \ {p} : run'[o] = run[o]
    BY <1>1, <1>8 DEF Start, Idle
  <2> QED
    BY <1>3, <2>1
<1>9. ASSUME NEW g \in Paths, Rewrite(g) PROVE run'[q] = run[q]
  BY <1>9 DEF Rewrite
<1> QED
  BY <1>2, <1>5, <1>6, <1>7, <1>8, <1>9 DEF Next

(***************************************************************************)
(* Backfill of a home whose current row has the bytes its files have: no    *)
(* version is made and nobody comes to hold other bytes, whatever verbs     *)
(* run over it and over its neighbours.                                     *)
(***************************************************************************)
THEOREM NothingUnsettlesAHome == Spec => SettledHomesRest
<1>1. ASSUME VerbsInv, Next, NEW pair \in AllPairs, Settled(pair),
             files'[pair.path] = files[pair.path]
      PROVE  Settled(pair)'
  <2>1. /\ pair.path \in Paths /\ pair.id \in Ids
        /\ mirror[pair.id] = [path |-> pair.path, rev |-> files[pair.path]]
        /\ \A q \in Procs : Holds(run[q], pair.path) => run[q].bytes = files[pair.path]
    BY <1>1, PairFacts DEF Settled, Quiet
  <2>2. mirror'[pair.id] = mirror[pair.id]
    <3>1. ASSUME NEW p \in Procs, Commit(p) PROVE mirror'[pair.id] = mirror[pair.id]
      <4> DEFINE other == PairOf(run[p])
      <4>1. /\ other \in AllPairs /\ other.id \in Ids /\ run[p].at = "commit"
            /\ mirror' = [mirror EXCEPT ![other.id] = [path |-> other.path, rev |-> run[p].bytes]]
            /\ Target(run[p]) = other.path
            /\ mirror \in [Ids -> [path : Paths \cup {Blank}, rev : Revs]]
        BY <1>1, <3>1, CommitTables, PairFacts, Parts DEF Mirrors, Target, TablesOK
      <4>2. other.path = pair.path <=> other.id = pair.id
        BY <4>1, PairFacts
      <4> HIDE DEF other
      <4>3. CASE other.id = pair.id
        <5>1. run[p].bytes = files[pair.path]
          BY <2>1, <4>1, <4>2, <4>3 DEF Holds
        <5> QED
          BY <2>1, <4>1, <4>2, <4>3, <5>1
      <4>4. CASE other.id # pair.id
        BY <2>1, <4>1, <4>4
      <4> QED
        BY <4>3, <4>4
    <3>2. mirror' = mirror \/ \E p \in Procs : Commit(p)
      BY <1>1 DEF Next, Rewrite, Start, RegisterHome, LoadCursor, Fingerprint, CheckCursor, ReadFile,
                  ListHomes, RegisterSeat, Answer, Ends
    <3> QED
      BY <3>1, <3>2
  <2>3. \A q \in Procs : Holds(run'[q], pair.path) => run'[q].bytes = files[pair.path]
    BY <1>1, <2>1, HoldersAreNew
  <2>4. \A q \in Procs : Holds(run[q], pair.path)' => run'[q].bytes = files'[pair.path]
    BY <1>1, <2>3 DEF Holds, Target, PairOf
  <2> QED
    BY <1>1, <2>1, <2>2, <2>4 DEF Settled, Quiet
<1>2. VerbsInv /\ [Next]_vars
        => [\A pair \in AllPairs :
               Settled(pair) /\ files'[pair.path] = files[pair.path] => Settled(pair)']_vars
  BY <1>1
<1> QED
  BY <1>2, Inductive, PTL DEF Spec, SettledHomesRest

==============================================================================
