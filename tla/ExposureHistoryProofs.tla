------------------------- MODULE ExposureHistoryProofs -------------------------
(***************************************************************************)
(* For every set of classifications, lifetimes, scenarios and policies and *)
(* any amount of evidence: the history of a subject has its types, what a  *)
(* run reports as lost are the days on which classical was last seen       *)
(* accepted, and no later run takes one of them back.                      *)
(*                                                                         *)
(* First the walk over a sorted timeline is proved to cover exactly those  *)
(* days, then what a row reports; then that the document only grows, by    *)
(* evidence of the day, so that whatever a run has read is a beginning of  *)
(* what a later run reads.                                                 *)
(***************************************************************************)
EXTENDS ExposureHistory, FiniteSetTheorems, WellFoundedInduction, TLAPS

-----------------------------------------------------------------------------
(* Sets of dates and of positions. *)

(* A set of dates that is not empty has an earliest one. *)
LEMMA EarliestExists ==
    ASSUME NEW S \in SUBSET Nat, S # {}
    PROVE  /\ EarliestOf(S) \in S
           /\ \A e \in S : EarliestOf(S) <= e
<1>1. PICK x \in S : \A y \in S : <<y, x>> \notin OpToRel(<, Nat)
  BY NatLessThanWellFounded, WFMin, Zenon
<1>2. \A y \in S : ~(y < x)
  BY <1>1 DEF OpToRel
<1>3. \A y \in S : x <= y
  BY <1>2
<1> QED
  BY <1>3 DEF EarliestOf

(* A set of positions that is not empty has a last one. *)
LEMMA LastExists ==
    ASSUME NEW n \in Nat, NEW S \in SUBSET (1 .. n), S # {}
    PROVE  \E x \in S : \A y \in S : y <= x
<1> DEFINE R == {n - x : x \in S}
<1>a. \A x \in S : x \in Nat /\ n - x \in Nat
  OBVIOUS
<1>1. R \in SUBSET Nat /\ R # {}
  BY <1>a
<1>2. EarliestOf(R) \in R /\ \A e \in R : EarliestOf(R) <= e
  BY <1>1, EarliestExists
<1>3. PICK x \in S : EarliestOf(R) = n - x
  BY <1>2
<1>4. \A y \in S : n - x <= n - y
  BY <1>2, <1>3
<1> QED
  BY <1>4

(* And a first one. *)
LEMMA FirstExists ==
    ASSUME NEW n \in Nat, NEW S \in SUBSET (1 .. n), S # {}
    PROVE  \E x \in S : \A y \in S : x <= y
<1>1. S \in SUBSET Nat
  OBVIOUS
<1> QED
  BY <1>1, EarliestExists

-----------------------------------------------------------------------------
(* What a row holds. *)

(* A record carries the inputs it was calculated from. *)
LEMMA KeepsInputs == \A inputs : Evaluate(inputs).inputs = inputs
BY DEF Evaluate, Unbounded

WindowsFor(inputs) ==
    WindowsOf(inputs.migrations, StartDate(inputs),
              Deadline(inputs.binding, inputs.z), inputs.asOf)
BandOf(inputs) ==
    BandFor(ShorBroken(inputs.context), CurrentlyStopped(inputs.migrations),
            WindowsFor(inputs), Deadline(inputs.binding, inputs.z), inputs.asOf)
Decided(inputs) ==
    /\ inputs.context.fnState # "UNKNOWN" /\ inputs.binding # None
    /\ StartDate(inputs) # None
    /\ InferredInputs(inputs.context) = {} \/ inputs.policy.acceptInferred
    /\ ShorBroken(inputs.context) # None

(* Only a decided row has a band other than UNBOUNDED. *)
LEMMA BandedIsDecided ==
    ASSUME NEW inputs, Evaluate(inputs).band # "UNBOUNDED"
    PROVE  Decided(inputs)
BY DEF Evaluate, Unbounded, Decided

(* What a decided row holds. *)
LEMMA DecidedIs ==
    ASSUME NEW inputs, Decided(inputs)
    PROVE  /\ Evaluate(inputs).start = StartDate(inputs)
           /\ Evaluate(inputs).deadline = Deadline(inputs.binding, inputs.z)
           /\ Evaluate(inputs).band = BandOf(inputs)
           /\ Evaluate(inputs).band # "UNBOUNDED"
           /\ Evaluate(inputs).conditional = None
           /\ Evaluate(inputs).windows =
                 IF BandOf(inputs) \in {"BLEEDING", "UNSAVABLE"}
                   THEN WindowsFor(inputs) ELSE {}
<1>1. Evaluate(inputs) =
         [band |-> BandOf(inputs), qualifiers |-> Qualifiers(inputs.migrations),
          windows |-> IF BandOf(inputs) \in {"BLEEDING", "UNSAVABLE"}
                        THEN WindowsFor(inputs) ELSE {},
          deadline |-> Deadline(inputs.binding, inputs.z), conditional |-> None,
          start |-> StartDate(inputs), inputs |-> inputs]
  BY DEF Evaluate, Decided, BandOf, WindowsFor
<1>2. BandOf(inputs) # "UNBOUNDED"
  BY DEF BandOf, BandFor
<1> QED
  BY <1>1, <1>2

-----------------------------------------------------------------------------
(* The inductive invariant. *)

PolicyType == [mode : {"SINCE_CONFIRMED", "SINCE_POSSIBLE", "SINCE_DATE"},
               since : Days \union {None},
               acceptInferred : BOOLEAN, acceptGoLive : BOOLEAN]

Inputs == [asOf : Days, z : Scenarios, policy : PolicyType, context : Contexts,
           temporal : Temporals, binding : Nat \union {None}, migrations : Seq(Events)]

(* Events are appended as they happen. *)
Dated(ms) == \A i, j \in DOMAIN ms : i <= j => ms[i].at <= ms[j].at

(* KNOWN evidence was seen on the traffic path, no earlier than first_observed. *)
Observed(ms, temporal) ==
    KnownIn(ms) # {} =>
        /\ temporal.firstObserved # None
        /\ temporal.firstObserved.state = "KNOWN"
        /\ \A k \in KnownIn(ms) : temporal.firstObserved.value <= ms[k].at

Documented(inputs) ==
    /\ inputs \in Inputs
    /\ Dated(inputs.migrations)
    /\ Observed(inputs.migrations, inputs.temporal)

(* What was read at asOf is a beginning of what is read later. *)
Grew(inputs, ms, temporal) ==
    /\ DOMAIN inputs.migrations \subseteq DOMAIN ms
    /\ \A k \in DOMAIN inputs.migrations : ms[k] = inputs.migrations[k]
    /\ \A k \in DOMAIN ms \ DOMAIN inputs.migrations : inputs.asOf <= ms[k].at
    /\ \A f \in {"notBefore", "goLive", "snapshot", "firstObserved"} :
          inputs.temporal[f] # None => temporal[f] = inputs.temporal[f]

SubjectType == [context : Contexts, temporal : Temporals,
                bindingKey : Keys \union {None}, migrations : Seq(Events)]

(* The document: its evidence is dated by the days on which it was added,  *)
(* and first_observed is no later than any of it.                          *)
SubjectInv ==
    /\ today \in Days
    /\ subject \in SubjectType
    /\ Dated(subject.migrations)
    /\ Observed(subject.migrations, subject.temporal)
    /\ \A i \in DOMAIN subject.migrations : subject.migrations[i].at <= today
    /\ subject.temporal.firstObserved # None =>
          /\ subject.temporal.firstObserved.state = "KNOWN"
          /\ subject.temporal.firstObserved.value <= today

(* What is stored was calculated from documented inputs, by today. *)
RecordInv(row) ==
    row # None =>
        /\ row = Evaluate(row.inputs)
        /\ Documented(row.inputs) /\ row.inputs.policy \in Policies
        /\ row.inputs.asOf <= today

(* The document has gone on from what a run has read. *)
GrewInv(row) ==
    row # None => Grew(row.inputs, subject.migrations, subject.temporal)

RunsInv ==
    /\ runs \in Seq({Evaluate(inputs) : inputs \in Inputs} \union {None})
    /\ \A i \in DOMAIN runs : RecordInv(runs[i]) /\ GrewInv(runs[i])
    /\ \A i, j \in DOMAIN runs : i < j /\ runs[i] # None /\ runs[j] # None =>
          Grew(runs[i].inputs, runs[j].inputs.migrations, runs[j].inputs.temporal)

HistoryInv == SubjectInv /\ RunsInv

-----------------------------------------------------------------------------
(* One row: the walk over its evidence, its start and its band. *)

(* A row has a band, and a conditional band or none. *)
LEMMA BandType ==
    ASSUME NEW inputs
    PROVE  /\ Evaluate(inputs).band \in Bands
           /\ Evaluate(inputs).conditional \in Bands \union {None}
<1>1. ASSUME NEW broken, NEW stopped, NEW windows, NEW deadline, NEW asOf
      PROVE  BandFor(broken, stopped, windows, deadline, asOf) \in Bands
  BY DEF BandFor, Bands
<1> QED
  BY <1>1 DEF Evaluate, Unbounded, Bands

(* The earliest of some dates is one of them, if there is any.             *)
LEMMA EarliestDateIs ==
    ASSUME NEW fields \in SUBSET DateFields
    PROVE  /\ EarliestDate(fields) \in Days \union {None}
           /\ \A f \in fields \ {None} :
                 EarliestDate(fields) # None /\ EarliestDate(fields) <= f.value
           /\ EarliestDate(fields) # None =>
                 \E f \in fields \ {None} : EarliestDate(fields) = f.value
<1> DEFINE dated == {f.value : f \in fields \ {None}}
<1>1. dated \in SUBSET Days /\ dated \in SUBSET Nat
  BY BoundAssumption DEF DateFields, Days
<1>2. None \notin Days
  BY LifetimeAssumption, BoundAssumption DEF Days
<1>3. CASE dated = {}
  BY <1>3 DEF EarliestDate
<1>4. CASE dated # {}
  <2>1. EarliestOf(dated) \in dated /\ \A e \in dated : EarliestOf(dated) <= e
    BY <1>1, <1>4, EarliestExists
  <2>2. EarliestDate(fields) = EarliestOf(dated)
    BY <1>4 DEF EarliestDate
  <2> HIDE DEF dated
  <2>3. EarliestDate(fields) \in Days /\ EarliestDate(fields) # None
    BY <1>1, <1>2, <2>1, <2>2
  <2> QED
    BY <2>1, <2>2, <2>3 DEF dated
<1> QED
  BY <1>3, <1>4

(* Where the interval of an opening begins. *)
Lo(ms, start, o) == IF o = 0 THEN start ELSE ms[o].at

(* KNOWN events are stops or classical, and have dates. *)
LEMMA KnownType ==
    ASSUME NEW ms \in Seq(Events)
    PROVE  /\ KnownIn(ms) \subseteq 1 .. Len(ms)
           /\ StopsIn(ms) \subseteq KnownIn(ms)
           /\ ClassicalIn(ms) \subseteq KnownIn(ms)
           /\ StopsIn(ms) \cap ClassicalIn(ms) = {}
           /\ KnownIn(ms) = StopsIn(ms) \union ClassicalIn(ms)
           /\ \A k \in KnownIn(ms) : k \in Nat \ {0} /\ ms[k].at \in Nat /\ ms[k] \in Events
           /\ Openings(ms) \subseteq {0} \union ClassicalIn(ms)
<1>1. KnownIn(ms) \subseteq 1 .. Len(ms)
  BY DEF KnownIn
<1>2. StopsIn(ms) \subseteq KnownIn(ms) /\ ClassicalIn(ms) \subseteq KnownIn(ms)
  BY DEF StopsIn, ClassicalIn
<1>3. StopsIn(ms) \cap ClassicalIn(ms) = {} /\ KnownIn(ms) = StopsIn(ms) \union ClassicalIn(ms)
  BY DEF StopsIn, ClassicalIn
<1>4. \A k \in KnownIn(ms) : k \in Nat \ {0} /\ ms[k] \in Events
  BY <1>1
<1>5. \A k \in KnownIn(ms) : ms[k].at \in Nat
  BY <1>4, BoundAssumption DEF Events, Days
<1>6. Openings(ms) \subseteq {0} \union ClassicalIn(ms)
  BY DEF Openings
<1> QED
  BY <1>1, <1>2, <1>3, <1>4, <1>5, <1>6

(* The end of an interval. *)
LEMMA ClosingIs ==
    ASSUME NEW ms \in Seq(Events), NEW asOf \in Nat, NEW o
    PROVE  LET hi == EarliestOf({asOf} \union ClosingDates(ms, o))
           IN  /\ hi \in Nat /\ hi <= asOf
               /\ hi \in {asOf} \union ClosingDates(ms, o)
               /\ \A c \in ClosingDates(ms, o) : hi <= c
               /\ ClosingDates(ms, o) \subseteq Nat
<1>1. ClosingDates(ms, o) \subseteq Nat
  BY KnownType DEF ClosingDates
<1> DEFINE S == {asOf} \union ClosingDates(ms, o)
<1>2. S \in SUBSET Nat /\ S # {}
  BY <1>1
<1> HIDE DEF S
<1>3. EarliestOf(S) \in S /\ \A e \in S : EarliestOf(S) <= e
  BY <1>2, EarliestExists
<1> QED
  BY <1>1, <1>2, <1>3 DEF S

(* The days of the windows, by the interval they lie in. *)
LEMMA InSomeWindow ==
    ASSUME NEW ms \in Seq(Events), NEW start \in Int, NEW deadline \in Int,
           NEW asOf \in Nat, NEW d \in Nat
    PROVE  (\E w \in WindowsOf(ms, start, deadline, asOf) : w.lo <= d /\ d < w.hi)
           <=> \E o \in Openings(ms) :
                   /\ Lo(ms, start, o) <= d /\ deadline <= d /\ d < asOf
                   /\ \A c \in ClosingDates(ms, o) : d < c
<1> DEFINE Hi(o) == EarliestOf({asOf} \union ClosingDates(ms, o))
           I(o) == [lo |-> Lo(ms, start, o), hi |-> Hi(o)]
           W(i) == [lo |-> Larger(i.lo, deadline), hi |-> Smaller(i.hi, asOf)]
<1>1. ASSUME NEW o \in Openings(ms)
      PROVE  Lo(ms, start, o) \in Int
  BY KnownType DEF Lo
<1>2. \A o \in Openings(ms) :
          /\ Hi(o) \in Nat /\ Hi(o) <= asOf
          /\ Hi(o) \in {asOf} \union ClosingDates(ms, o)
          /\ \A c \in ClosingDates(ms, o) : Hi(o) <= c /\ c \in Nat
  BY ClosingIs
<1>3. ExposureIntervals(ms, start, asOf) = {w \in {I(o) : o \in Openings(ms)} : w.lo <= w.hi}
  BY DEF ExposureIntervals, Lo
<1>4. WindowsOf(ms, start, deadline, asOf)
          = {w \in {W(i) : i \in ExposureIntervals(ms, start, asOf)} : w.lo < w.hi}
  BY DEF WindowsOf
<1> HIDE DEF Hi
<1>5. ASSUME NEW o \in Openings(ms)
      PROVE  /\ W(I(o)).lo = (IF Lo(ms, start, o) >= deadline THEN Lo(ms, start, o) ELSE deadline)
             /\ W(I(o)).hi = Hi(o)
  BY <1>1, <1>2, <1>5 DEF Larger, Smaller
<1>6. ASSUME NEW w \in WindowsOf(ms, start, deadline, asOf), w.lo <= d, d < w.hi
      PROVE  \E o \in Openings(ms) :
                   /\ Lo(ms, start, o) <= d /\ deadline <= d /\ d < asOf
                   /\ \A c \in ClosingDates(ms, o) : d < c
  <2>1. PICK o \in Openings(ms) : w = W(I(o))
    BY <1>3, <1>4
  <2> HIDE DEF W, I
  <2>2. Lo(ms, start, o) <= d /\ deadline <= d /\ d < Hi(o)
    BY <1>1, <1>5, <1>6, <2>1
  <2>3. d < asOf /\ \A c \in ClosingDates(ms, o) : d < c
    BY <1>2, <2>2
  <2> QED
    BY <2>2, <2>3
<1>7. ASSUME NEW o \in Openings(ms), Lo(ms, start, o) <= d, deadline <= d, d < asOf,
             \A c \in ClosingDates(ms, o) : d < c
      PROVE  \E w \in WindowsOf(ms, start, deadline, asOf) : w.lo <= d /\ d < w.hi
  <2>1. d < Hi(o)
    BY <1>2, <1>7
  <2>2. Lo(ms, start, o) <= Hi(o)
    BY <1>1, <1>2, <1>7, <2>1
  <2>3. I(o) \in ExposureIntervals(ms, start, asOf)
    BY <1>3, <2>2
  <2>4. W(I(o)).lo <= d /\ d < W(I(o)).hi
    BY <1>1, <1>5, <1>7, <2>1
  <2>5. W(I(o)).lo < W(I(o)).hi
    BY <1>1, <1>2, <1>5, <2>4
  <2>6. W(I(o)) \in WindowsOf(ms, start, deadline, asOf)
    BY <1>4, <2>3, <2>5
  <2> QED
    BY <2>4, <2>6
<1> QED
  BY <1>6, <1>7

(* Evidence that was appended as it happened is sorted by its positions. *)
LEMMA SortsByPosition ==
    ASSUME NEW ms \in Seq(Events), Dated(ms), NEW i \in KnownIn(ms), NEW j \in KnownIn(ms)
    PROVE  SortsBefore(ms, i, j) <=> i < j
<1>1. i \in DOMAIN ms /\ j \in DOMAIN ms /\ i \in Nat /\ j \in Nat
  BY KnownType DEF KnownIn
<1>2. ms[i].at \in Nat /\ ms[j].at \in Nat
  BY KnownType
<1>3. (i <= j => ms[i].at <= ms[j].at) /\ (j <= i => ms[j].at <= ms[i].at)
  BY <1>1 DEF Dated
<1> QED
  BY <1>1, <1>2, <1>3 DEF SortsBefore

(* The walk loses exactly the days on which classical was last seen accepted. *)
LEMMA WalkCovers ==
    ASSUME NEW ms \in Seq(Events), Dated(ms), NEW start \in Int, NEW deadline \in Int,
           NEW asOf \in Nat, \A k \in KnownIn(ms) : start <= ms[k].at, NEW d \in Nat
    PROVE  (\E w \in WindowsOf(ms, start, deadline, asOf) : w.lo <= d /\ d < w.hi)
           <=> start <= d /\ deadline <= d /\ d < asOf /\ ClassicalOn(ms, d)
<1> DEFINE past == {i \in KnownIn(ms) : ms[i].at <= d}
           Covers(o) == /\ Lo(ms, start, o) <= d /\ deadline <= d /\ d < asOf
                        /\ \A c \in ClosingDates(ms, o) : d < c
<1>0. (\E w \in WindowsOf(ms, start, deadline, asOf) : w.lo <= d /\ d < w.hi)
          <=> \E o \in Openings(ms) : Covers(o)
  BY InSomeWindow
<1> USE KnownType
<1>1. past \subseteq 1 .. Len(ms) /\ past \subseteq KnownIn(ms) /\ Len(ms) \in Nat
  OBVIOUS
<1>2. ClassicalOn(ms, d)
          <=> \A i \in past : (\A j \in past : ~(i < j)) => ms[i].classical
  BY <1>1, SortsByPosition DEF ClassicalOn
<1>3. ASSUME NEW o \in Openings(ms), Covers(o)
      PROVE  start <= d /\ ClassicalOn(ms, d)
  <2>1. start <= d
    <3>1. CASE o = 0
      BY <1>3, <3>1 DEF Lo
    <3>2. CASE o # 0
      <4>1. o \in KnownIn(ms) /\ ms[o].at <= d
        BY <1>3, <3>2 DEF Lo
      <4> QED
        BY <4>1
    <3> QED
      BY <3>1, <3>2
  <2>2. ASSUME NEW i \in past, \A j \in past : ~(i < j), ~ms[i].classical
        PROVE  FALSE
    <3>1. i \in StopsIn(ms) /\ ms[i].at <= d /\ ms[i].at \in Nat
      BY <2>2 DEF StopsIn
    <3>2. o # 0
      <4>1. o = 0 => ms[i].at \in ClosingDates(ms, o)
        BY <3>1 DEF ClosingDates
      <4> QED
        BY <1>3, <3>1, <4>1
    <3>3. o \in ClassicalIn(ms) /\ o \in past
      BY <1>3, <3>2 DEF Lo
    <3>4. ~(i < o)
      BY <2>2, <3>3
    <3>5. ~SortsBefore(ms, o, i)
      <4>1. SortsBefore(ms, o, i) => ms[i].at \in ClosingDates(ms, o)
        BY <3>1 DEF ClosingDates
      <4> QED
        BY <1>3, <3>1, <4>1
    <3>6. ~(o < i)
      BY <3>1, <3>3, <3>5, SortsByPosition
    <3>7. o = i
      BY <3>3, <3>4, <3>6, <1>1
    <3> QED
      BY <3>1, <3>3, <3>7
  <2> QED
    BY <1>2, <2>1, <2>2
<1>4. ASSUME start <= d, deadline <= d, d < asOf, ClassicalOn(ms, d)
      PROVE  \E o \in Openings(ms) : Covers(o)
  <2> DEFINE stops == {s \in past : s \in StopsIn(ms)}
  <2>1. CASE stops = {}
    <3>1. 0 \in Openings(ms) /\ Lo(ms, start, 0) <= d
      BY <1>4 DEF Openings, Lo
    <3>2. \A c \in ClosingDates(ms, 0) : d < c
      BY <2>1 DEF ClosingDates
    <3> QED
      BY <1>4, <3>1, <3>2
  <2>2. CASE stops # {}
    <3>1. PICK s \in stops : \A t \in stops : t <= s
      <4>1. stops \in SUBSET (1 .. Len(ms))
        BY <1>1
      <4> HIDE DEF stops
      <4> QED
        BY <1>1, <2>2, <4>1, LastExists
    <3>2. PICK i \in past : \A j \in past : j <= i
      <4>1. past # {} /\ past \in SUBSET (1 .. Len(ms))
        BY <1>1, <2>2
      <4> HIDE DEF past
      <4> QED
        BY <1>1, <4>1, LastExists
    <3>3. ms[i].classical
      BY <1>1, <1>2, <1>4, <3>2
    <3>4. s < i
      BY <1>1, <3>1, <3>2, <3>3 DEF StopsIn
    <3> DEFINE after == {k \in KnownIn(ms) : s < k}
    <3>5. PICK o \in after : \A k \in after : o <= k
      <4>1. after # {} /\ after \in SUBSET (1 .. Len(ms))
        BY <1>1, <3>4
      <4> HIDE DEF after
      <4> QED
        BY <1>1, <4>1, FirstExists
    <3>6. o \in KnownIn(ms) /\ s < o /\ o <= i /\ o \in Nat /\ i \in Nat /\ s \in Nat
      BY <1>1, <3>1, <3>4, <3>5
    <3>7. o \in past
      <4>1. ms[o].at <= ms[i].at
        BY <1>1, <3>6 DEF Dated
      <4> QED
        BY <3>6, <4>1
    <3>8. o \in ClassicalIn(ms)
      <4>1. o \notin stops
        BY <3>1, <3>6
      <4> QED
        BY <3>6, <3>7, <4>1
    <3>9. o \in Openings(ms)
      <4>1. s \in KnownIn(ms) /\ s \in StopsIn(ms)
        BY <3>1
      <4>2. SortsBefore(ms, s, o)
        BY <3>6, <4>1, SortsByPosition
      <4>3. \A k \in KnownIn(ms) : ~(SortsBefore(ms, s, k) /\ SortsBefore(ms, k, o))
        BY <3>5, <3>6, <4>1, SortsByPosition
      <4> QED
        BY <3>8, <4>1, <4>2, <4>3 DEF Openings
    <3>10. Lo(ms, start, o) <= d
      BY <3>6, <3>7 DEF Lo
    <3>11. ASSUME NEW t \in StopsIn(ms), o = 0 \/ SortsBefore(ms, o, t)
           PROVE  d < ms[t].at
      <4>1. o < t
        BY <3>6, <3>11, SortsByPosition
      <4>2. t \notin stops
        BY <3>1, <3>6, <4>1
      <4> QED
        BY <4>2
    <3>12. \A c \in ClosingDates(ms, o) : d < c
      BY <3>11 DEF ClosingDates
    <3> QED
      BY <1>4, <3>9, <3>10, <3>12
  <2> QED
    BY <2>1, <2>2
<1>5. \A o : Covers(o) => deadline <= d /\ d < asOf
  OBVIOUS
<1> HIDE KnownType
<1> HIDE DEF past, Covers
<1> QED
  BY <1>0, <1>3, <1>4, <1>5

-----------------------------------------------------------------------------
(* A row with a band has everything its band is calculated from. *)
(* A start read from the evidence is no later than any KNOWN event. *)
LEMMA StartIs ==
    ASSUME NEW inputs, Documented(inputs)
    PROVE  /\ StartDate(inputs) \in Days \union {None}
           /\ inputs.policy.mode # "SINCE_DATE" /\ StartDate(inputs) # None =>
                 \A k \in KnownIn(inputs.migrations) :
                    StartDate(inputs) <= inputs.migrations[k].at
<1> DEFINE t == inputs.temporal
           ms == inputs.migrations
           possible == {t.notBefore, t.goLive, t.snapshot, t.firstObserved}
           confirmed == {f \in {t.firstObserved} \ {None} : f.state = "KNOWN"}
                        \union {f \in {t.goLive} \ {None} :
                                   /\ inputs.policy.acceptGoLive
                                   /\ f.state \in {"DECLARED", "KNOWN"}}
<1>1. /\ t \in Temporals /\ ms \in Seq(Events)
      /\ inputs.policy.since \in Days \union {None}
      /\ inputs.policy \in PolicyType
  BY DEF Documented, Inputs, PolicyType
<1>2. /\ t.notBefore \in DateFields /\ t.goLive \in DateFields
      /\ t.snapshot \in DateFields /\ t.firstObserved \in DateFields
  BY <1>1 DEF Temporals
<1>3. possible \in SUBSET DateFields /\ confirmed \in SUBSET DateFields
  BY <1>2
<1>4. StartDate(inputs) =
         CASE inputs.policy.mode = "SINCE_DATE" -> inputs.policy.since
           [] inputs.policy.mode = "SINCE_POSSIBLE" -> EarliestDate(possible)
           [] OTHER -> EarliestDate(confirmed)
  BY DEF StartDate, PossibleSince, ConfirmedSince
<1>5. KnownIn(ms) # {} =>
         /\ t.firstObserved # None
         /\ t.firstObserved \in possible /\ t.firstObserved \in confirmed
         /\ t.firstObserved.value \in Nat
         /\ \A k \in KnownIn(ms) : t.firstObserved.value <= ms[k].at
  BY <1>2, BoundAssumption DEF Documented, Observed, DateFields, Days
<1> HIDE DEF possible, confirmed
<1>6. /\ EarliestDate(possible) \in Days \union {None}
      /\ EarliestDate(confirmed) \in Days \union {None}
  BY <1>3, EarliestDateIs
<1>7. StartDate(inputs) \in Days \union {None}
  BY <1>1, <1>4, <1>6
<1>8. ASSUME inputs.policy.mode # "SINCE_DATE", StartDate(inputs) # None,
             NEW k \in KnownIn(ms)
      PROVE  StartDate(inputs) <= ms[k].at
  <2>1. StartDate(inputs) \in Nat /\ ms[k].at \in Nat
    BY <1>1, <1>7, <1>8, KnownType, BoundAssumption DEF Days
  <2>2. t.firstObserved \in possible \ {None} /\ t.firstObserved \in confirmed \ {None}
    BY <1>5, <1>8
  <2>3. StartDate(inputs) <= t.firstObserved.value
    BY <1>3, <1>4, <1>8, <2>2, EarliestDateIs
  <2> QED
    BY <1>5, <1>8, <2>1, <2>3
<1> QED
  BY <1>7, <1>8

(* A decided row of a broken exchange reports every window there is. *)
LEMMA KeepsItsWindows ==
    ASSUME NEW inputs, Documented(inputs), Decided(inputs), ShorBroken(inputs.context) = TRUE
    PROVE  /\ StartDate(inputs) \in Days /\ StartDate(inputs) \in Nat
           /\ Deadline(inputs.binding, inputs.z) \in Int
           /\ inputs.asOf \in Nat
           /\ inputs.migrations \in Seq(Events) /\ Dated(inputs.migrations)
           /\ Evaluate(inputs).windows = WindowsFor(inputs)
<1> DEFINE ms == inputs.migrations
           start == StartDate(inputs)
           deadline == Deadline(inputs.binding, inputs.z)
<1>1. ms \in Seq(Events) /\ Dated(ms) /\ inputs.asOf \in Nat
  BY BoundAssumption DEF Documented, Inputs, Days
<1>2. start \in Days /\ start \in Nat
  BY StartIs, BoundAssumption DEF Decided, Days
<1>3. deadline \in Int
  <2>1. inputs.binding \in Nat /\ inputs.z \in Int
    BY ScenarioAssumption DEF Documented, Inputs, Decided
  <2> QED
    BY <2>1 DEF Deadline
<1> HIDE DEF start, deadline
<1>4. WindowsOf(ms, start, deadline, inputs.asOf) # {} =>
         BandOf(inputs) \in {"BLEEDING", "UNSAVABLE"}
  <2>1. ASSUME NEW w \in WindowsOf(ms, start, deadline, inputs.asOf)
        PROVE  deadline < inputs.asOf
    <3>1. PICK i \in ExposureIntervals(ms, start, inputs.asOf) :
              /\ w = [lo |-> Larger(i.lo, deadline), hi |-> Smaller(i.hi, inputs.asOf)]
              /\ w.lo < w.hi
      BY <2>1 DEF WindowsOf
    <3>2. PICK o \in Openings(ms) :
              i = [lo |-> Lo(ms, start, o),
                   hi |-> EarliestOf({inputs.asOf} \union ClosingDates(ms, o))]
      BY <3>1 DEF ExposureIntervals, Lo
    <3>3. i.lo \in Int
      BY <1>1, <1>2, <3>2, KnownType DEF Lo
    <3>4. i.hi \in Nat
      BY <1>1, <3>2, ClosingIs
    <3> QED
      BY <1>1, <1>3, <3>1, <3>3, <3>4 DEF Larger, Smaller
  <2>2. BandOf(inputs) =
           BandFor(TRUE, CurrentlyStopped(ms), WindowsOf(ms, start, deadline, inputs.asOf),
                   deadline, inputs.asOf)
    BY DEF BandOf, WindowsFor, start, deadline
  <2>3. CurrentlyStopped(ms) \in BOOLEAN
    BY DEF CurrentlyStopped
  <2> QED
    BY <1>1, <1>3, <2>1, <2>2, <2>3 DEF BandFor
<1>5. Evaluate(inputs).windows = WindowsFor(inputs)
  BY <1>4, DecidedIs DEF WindowsFor, start, deadline
<1> QED
  BY <1>1, <1>2, <1>3, <1>5 DEF start, deadline

(* The days it loses. *)
LEMMA LosesTheDays ==
    ASSUME NEW inputs, Documented(inputs), inputs.policy.mode # "SINCE_DATE",
           Decided(inputs), ShorBroken(inputs.context) = TRUE
    PROVE  LostDays(Evaluate(inputs)) =
                {d \in Days : /\ StartDate(inputs) <= d
                              /\ Deadline(inputs.binding, inputs.z) <= d
                              /\ d < inputs.asOf
                              /\ ClassicalOn(inputs.migrations, d)}
<1> DEFINE ms == inputs.migrations
           start == StartDate(inputs)
           deadline == Deadline(inputs.binding, inputs.z)
<1>0. /\ start \in Nat /\ deadline \in Int /\ inputs.asOf \in Nat
      /\ ms \in Seq(Events) /\ Dated(ms)
  BY KeepsItsWindows, Zenon
<1>1. start \in Int
  BY <1>0
<1>2. \A k \in KnownIn(ms) : start <= ms[k].at
  BY StartIs DEF Decided
<1>3. Evaluate(inputs).windows = WindowsOf(ms, start, deadline, inputs.asOf)
  BY KeepsItsWindows DEF WindowsFor
<1> HIDE DEF start, deadline
<1>4. ASSUME NEW d \in Days
      PROVE  (\E w \in WindowsOf(ms, start, deadline, inputs.asOf) : w.lo <= d /\ d < w.hi)
             <=> start <= d /\ deadline <= d /\ d < inputs.asOf /\ ClassicalOn(ms, d)
  <2>1. d \in Nat
    BY BoundAssumption DEF Days
  <2> QED
    BY <1>0, <1>1, <1>2, <2>1, WalkCovers
<1> QED
  BY <1>3, <1>4 DEF LostDays, start, deadline

(* A decided row knows whether its family is broken. *)
LEMMA ShorType ==
    ASSUME NEW inputs, Documented(inputs), Decided(inputs)
    PROVE  ShorBroken(inputs.context) \in {TRUE, FALSE}
<1>1. inputs.context.family \in Families
  BY ContextAssumption DEF Documented, Inputs
<1> QED
  BY <1>1 DEF ShorBroken, Families, Decided

(* A row that is not decided, or not of a broken exchange, loses no day. *)
LEMMA OthersLoseNothing ==
    ASSUME NEW inputs, ~Decided(inputs) \/ ShorBroken(inputs.context) = FALSE
    PROVE  Evaluate(inputs).windows = {} /\ LostDays(Evaluate(inputs)) = {}
<1>1. Evaluate(inputs).windows = {}
  <2>1. CASE ~Decided(inputs)
    <3>1. Evaluate(inputs).band = "UNBOUNDED"
      BY <2>1, BandedIsDecided
    <3>2. CASE inputs.context.fnState = "UNKNOWN" \/ inputs.binding = None
      BY <3>2 DEF Evaluate, Unbounded
    <3>3. CASE ~(inputs.context.fnState = "UNKNOWN" \/ inputs.binding = None)
      BY <2>1, <3>3 DEF Evaluate, Unbounded, Decided
    <3> QED
      BY <3>2, <3>3
  <2>2. CASE Decided(inputs) /\ ShorBroken(inputs.context) = FALSE
    <3>1. BandOf(inputs) = "SAFE"
      BY <2>2 DEF BandOf, BandFor
    <3> QED
      BY <2>2, <3>1, DecidedIs
  <2> QED
    BY <2>1, <2>2
<1> QED
  BY <1>1 DEF LostDays

-----------------------------------------------------------------------------
(* The document only grows, and is read as it is. *)

(* An event has a date. *)
LEMMA EventType == ASSUME NEW ms \in Seq(Events), NEW i \in DOMAIN ms
                   PROVE  ms[i] \in Events /\ ms[i].at \in Days /\ ms[i].at \in Nat
<1>1. ms[i] \in Events
  OBVIOUS
<1> QED
  BY <1>1, BoundAssumption DEF Events, Days

(* The types of the document's parts. *)
LEMMA SubjectParts ==
    ASSUME SubjectInv
    PROVE  /\ today \in Days /\ today \in Nat
           /\ subject.migrations \in Seq(Events)
           /\ subject.temporal \in Temporals
           /\ subject.temporal.firstObserved \in DateFields
           /\ \A i \in DOMAIN subject.migrations : subject.migrations[i].at \in Nat
<1>1. today \in Days /\ today \in Nat
  BY BoundAssumption DEF SubjectInv, Days
<1>2. subject.migrations \in Seq(Events) /\ subject.temporal \in Temporals
  BY DEF SubjectInv, SubjectType
<1>3. subject.temporal.firstObserved \in DateFields
  BY <1>2 DEF Temporals
<1> QED
  BY <1>1, <1>2, <1>3, EventType

(* Nothing is known and nothing is stored at first. *)
LEMMA InitHistory == Init => HistoryInv
<1> SUFFICES ASSUME Init PROVE HistoryInv
  OBVIOUS
<1>1. today \in Days
  BY BoundAssumption DEF Init, Days
<1>2. /\ subject.migrations = <<>> /\ subject.temporal.firstObserved = None
      /\ subject \in SubjectType
  <2>1. PICK context \in Contexts :
            subject = [context |-> context,
                       temporal |-> [notBefore |-> None, goLive |-> None,
                                     snapshot |-> None, firstObserved |-> None],
                       bindingKey |-> None, migrations |-> <<>>]
    BY DEF Init
  <2>2. subject.temporal \in Temporals
    BY <2>1 DEF Temporals, DateFields
  <2> QED
    BY <2>1, <2>2 DEF SubjectType
<1>4. SubjectInv
  BY <1>1, <1>2 DEF SubjectInv, Dated, Observed, KnownIn
<1>3. RunsInv
  BY DEF Init, RunsInv
<1> QED
  BY <1>3, <1>4 DEF HistoryInv

(* A step that leaves the stored runs alone, and grows the document. *)
LEMMA RunsSeeGrowth ==
    ASSUME SubjectInv, RunsInv, today' \in Days, today <= today', runs' = runs,
           subject' \in SubjectType,
           DOMAIN subject.migrations \subseteq DOMAIN subject'.migrations,
           \A k \in DOMAIN subject.migrations :
               subject'.migrations[k] = subject.migrations[k],
           \A k \in DOMAIN subject'.migrations \ DOMAIN subject.migrations :
               subject'.migrations[k].at = today,
           \A f \in {"notBefore", "goLive", "snapshot", "firstObserved"} :
               subject.temporal[f] # None => subject'.temporal[f] = subject.temporal[f]
    PROVE  RunsInv'
<1>1. ASSUME NEW i \in DOMAIN runs
      PROVE  RecordInv(runs[i])' /\ GrewInv(runs[i])'
  <2>1. CASE runs[i] = None
    BY <2>1 DEF RecordInv, GrewInv
  <2>2. CASE runs[i] # None
    <3>1. /\ runs[i] = Evaluate(runs[i].inputs) /\ Documented(runs[i].inputs)
          /\ runs[i].inputs.policy \in Policies
          /\ runs[i].inputs.asOf <= today
          /\ Grew(runs[i].inputs, subject.migrations, subject.temporal)
      BY <2>2 DEF RunsInv, RecordInv, GrewInv
    <3>2. runs[i].inputs.asOf \in Int /\ today \in Int /\ today' \in Int
      BY <3>1, BoundAssumption DEF Documented, Inputs, SubjectInv, Days
    <3>3. runs[i].inputs.asOf <= today'
      BY <3>1, <3>2
    <3>4. RecordInv(runs[i])'
      BY <3>1, <3>3 DEF RecordInv
    <3>5. Grew(runs[i].inputs, subject'.migrations, subject'.temporal)
      BY <3>1 DEF Grew
    <3> QED
      BY <3>4, <3>5 DEF GrewInv
  <2> QED
    BY <2>1, <2>2
<1> QED
  BY <1>1 DEF RunsInv

(* The dates after an observation on the traffic path. *)
Bounded(temporal) ==
    [temporal EXCEPT !.firstObserved = FirstObserved(temporal.firstObserved)]

(* They hold a KNOWN first_observed, and nothing that was there is lost. *)
LEMMA BoundedIs ==
    ASSUME SubjectInv
    PROVE  LET old == subject.temporal
               new == Bounded(old)
           IN  /\ new \in Temporals
               /\ new.firstObserved # None
               /\ new.firstObserved.state = "KNOWN" /\ new.firstObserved.value <= today
               /\ old.firstObserved # None => new.firstObserved = old.firstObserved
               /\ new.notBefore = old.notBefore /\ new.goLive = old.goLive
               /\ new.snapshot = old.snapshot
<1> DEFINE old == subject.temporal
           first == FirstObserved(old.firstObserved)
<1>1. old \in Temporals /\ old.firstObserved \in DateFields
  BY DEF SubjectInv, SubjectType, Temporals
<1>2. today \in Days /\ today \in Nat
  BY BoundAssumption DEF SubjectInv, Days
<1>3. CASE old.firstObserved = None
  <2>1. first = [value |-> today, state |-> "KNOWN"]
    BY <1>3 DEF FirstObserved
  <2>2. first \in [value : Days, state : FieldStates]
    BY <1>2, <2>1 DEF FieldStates
  <2>5. first # None
    BY <2>2, DateAssumption
  <2> HIDE DEF first
  <2>3. Bounded(old) = [old EXCEPT !.firstObserved = first]
    BY DEF Bounded, first
  <2>4. Bounded(old) \in Temporals /\ Bounded(old).firstObserved = first
    BY <1>1, <2>2, <2>3 DEF Temporals, DateFields
  <2>6. /\ Bounded(old).notBefore = old.notBefore /\ Bounded(old).goLive = old.goLive
        /\ Bounded(old).snapshot = old.snapshot
    BY <1>1, <2>3 DEF Temporals
  <2> QED
    BY <1>2, <1>3, <2>1, <2>4, <2>5, <2>6
<1>4. CASE old.firstObserved # None
  <2>1. Bounded(old) = old
    BY <1>1, <1>4 DEF Bounded, FirstObserved, Temporals
  <2> QED
    BY <1>1, <1>4, <2>1 DEF SubjectInv
<1> QED
  BY <1>3, <1>4

(* Evidence of today joins the document: from a probe, which also bounds   *)
(* first_observed, or INFERRED from a configuration file.                  *)
LEMMA EvidenceGrows ==
    ASSUME SubjectInv, RunsInv, NEW e \in Events, e.at = today,
           NEW temporal,
           \/ temporal = Bounded(subject.temporal)
           \/ temporal = subject.temporal /\ e.status # "KNOWN",
           subject' \in SubjectType,
           subject'.migrations = Append(subject.migrations, e),
           subject'.temporal = temporal,
           UNCHANGED <<today, runs>>
    PROVE  HistoryInv'
<1> DEFINE ms == subject.migrations
           more == Append(ms, e)
           n == Len(ms) + 1
<1>1. /\ ms \in Seq(Events) /\ Dated(ms) /\ Observed(ms, subject.temporal)
      /\ today \in Days /\ today \in Nat
      /\ \A i \in DOMAIN ms : ms[i].at <= today /\ ms[i].at \in Nat
  BY SubjectParts DEF SubjectInv
<1>2. /\ more \in Seq(Events) /\ DOMAIN more = DOMAIN ms \union {n} /\ DOMAIN ms = 1 .. Len(ms)
      /\ more[n] = e /\ n \notin DOMAIN ms
      /\ \A i \in DOMAIN ms : more[i] = ms[i]
  BY <1>1
<1> HIDE DEF more
<1>3. \A i \in DOMAIN more : more[i].at <= today /\ more[i].at \in Nat
  BY <1>1, <1>2
<1>4. Dated(more)
  <2> SUFFICES ASSUME NEW i \in DOMAIN more, NEW j \in DOMAIN more, i <= j
               PROVE  more[i].at <= more[j].at
    BY DEF Dated
  <2>1. CASE j = n
    BY <1>2, <1>3, <2>1
  <2>2. CASE j # n
    <3>1. i \in DOMAIN ms /\ j \in DOMAIN ms
      BY <1>2, <2>2
    <3> QED
      BY <1>1, <1>2, <3>1 DEF Dated
  <2> QED
    BY <2>1, <2>2
<1>5. KnownIn(more) \subseteq KnownIn(ms) \union {n}
  BY <1>2 DEF KnownIn
<1>6. /\ temporal.firstObserved # None =>
           temporal.firstObserved.state = "KNOWN" /\ temporal.firstObserved.value <= today
      /\ e.status = "KNOWN" \/ subject.temporal.firstObserved # None => temporal.firstObserved # None
      /\ subject.temporal.firstObserved # None =>
           temporal.firstObserved = subject.temporal.firstObserved
      /\ temporal.notBefore = subject.temporal.notBefore
      /\ temporal.goLive = subject.temporal.goLive
      /\ temporal.snapshot = subject.temporal.snapshot
  BY BoundedIs DEF SubjectInv
<1>7. Observed(more, temporal)
  <2> SUFFICES ASSUME NEW k \in KnownIn(more)
               PROVE  /\ temporal.firstObserved # None
                      /\ temporal.firstObserved.state = "KNOWN"
                      /\ temporal.firstObserved.value <= more[k].at
    BY DEF Observed
  <2>1. CASE k = n
    BY <1>2, <1>6, <2>1 DEF KnownIn
  <2>2. CASE k # n
    <3>1. k \in KnownIn(ms) /\ more[k] = ms[k]
      BY <1>2, <1>5, <2>2 DEF KnownIn
    <3>2. /\ subject.temporal.firstObserved # None
          /\ subject.temporal.firstObserved.value <= ms[k].at
      BY <1>1, <3>1 DEF Observed
    <3> QED
      BY <1>6, <3>1, <3>2
  <2> QED
    BY <2>1, <2>2
<1>8. SubjectInv'
  BY <1>1, <1>3, <1>4, <1>6, <1>7 DEF SubjectInv, more
<1>9. RunsInv'
  <2>1. \A f \in {"notBefore", "goLive", "snapshot", "firstObserved"} :
            subject.temporal[f] # None => temporal[f] = subject.temporal[f]
    BY <1>6
  <2>2. \A k \in DOMAIN subject'.migrations \ DOMAIN ms : subject'.migrations[k].at = today
    BY <1>2 DEF more
  <2>3. /\ DOMAIN ms \subseteq DOMAIN subject'.migrations
        /\ \A k \in DOMAIN ms : subject'.migrations[k] = ms[k]
    BY <1>2 DEF more
  <2>4. today' \in Days /\ today <= today'
    BY <1>1
  <2> QED
    BY <2>1, <2>2, <2>3, <2>4, RunsSeeGrowth
<1> QED
  BY <1>8, <1>9 DEF HistoryInv

(* A step that leaves the evidence and first_observed alone, and states    *)
(* other dates at most once.                                               *)
LEMMA DatesGrow ==
    ASSUME SubjectInv, RunsInv, today' \in Days, today <= today', runs' = runs,
           subject' \in SubjectType, subject'.migrations = subject.migrations,
           subject'.temporal.firstObserved = subject.temporal.firstObserved,
           \A f \in {"notBefore", "goLive", "snapshot"} :
               subject.temporal[f] # None => subject'.temporal[f] = subject.temporal[f]
    PROVE  HistoryInv'
<1>1. /\ today \in Nat /\ today' \in Nat
      /\ \A i \in DOMAIN subject.migrations : subject.migrations[i].at \in Nat
      /\ subject.temporal.firstObserved \in DateFields
  BY SubjectParts, BoundAssumption DEF Days
<1>2. subject.temporal.firstObserved # None => subject.temporal.firstObserved.value \in Nat
  BY <1>1, BoundAssumption DEF DateFields, Days
<1>3. SubjectInv'
  BY <1>1, <1>2 DEF SubjectInv, Observed
<1>4. RunsInv'
  BY RunsSeeGrowth
<1> QED
  BY <1>3, <1>4 DEF HistoryInv

(* What a run reads is documented, and is where the document is now. *)
LEMMA RunReadsTheDocument ==
    ASSUME SubjectInv, NEW asOf \in 0 .. today, NEW z \in Scenarios, NEW policy \in Policies,
           ~Skipped
    PROVE  LET inputs == InputsFor(asOf, z, policy)
           IN  /\ Documented(inputs) /\ inputs.policy \in Policies /\ inputs.asOf <= today
               /\ Grew(inputs, subject.migrations, subject.temporal)
<1> DEFINE inputs == InputsFor(asOf, z, policy)
<1>1. /\ inputs.asOf = asOf /\ inputs.migrations = subject.migrations
      /\ inputs.temporal = subject.temporal /\ inputs.policy = policy
  BY DEF InputsFor
<1>2. BindingOf(subject.bindingKey) \in Nat \union {None}
  <2>1. subject.bindingKey \in Keys \union {None}
    BY DEF SubjectInv, SubjectType
  <2> QED
    BY <2>1, LifetimeAssumption DEF BindingOf
<1>3. asOf \in Days /\ asOf <= today
  BY SubjectParts, BoundAssumption DEF Days
<1>4. policy \in PolicyType
  BY PolicyAssumption DEF PolicyType
<1>5. inputs \in Inputs
  BY <1>2, <1>3, <1>4, SubjectParts DEF InputsFor, Inputs, SubjectInv, SubjectType
<1>6. Documented(inputs)
  BY <1>1, <1>5 DEF Documented, SubjectInv
<1>7. Grew(inputs, subject.migrations, subject.temporal)
  BY <1>1 DEF Grew
<1> QED
  BY <1>1, <1>3, <1>6, <1>7

(* A run is stored with what it read. *)
LEMMA LedgerRunKeeps ==
    ASSUME HistoryInv, NEW asOf \in 0 .. today, NEW z \in Scenarios, NEW policy \in Policies,
           LedgerRun(asOf, z, policy)
    PROVE  HistoryInv'
<1> DEFINE row == RowFor(asOf, z, policy)
           Stored == {Evaluate(inputs) : inputs \in Inputs} \union {None}
           n == Len(runs) + 1
<1>1. SubjectInv /\ RunsInv /\ UNCHANGED <<today, subject>> /\ runs' = Append(runs, row)
  BY DEF HistoryInv, LedgerRun
<1>2. row = None \/ /\ row = Evaluate(row.inputs) /\ Documented(row.inputs)
                    /\ row.inputs.policy \in Policies /\ row.inputs.asOf <= today
                    /\ Grew(row.inputs, subject.migrations, subject.temporal)
                    /\ row.inputs.migrations = subject.migrations
                    /\ row.inputs.temporal = subject.temporal
  <2>1. CASE Skipped
    BY <2>1 DEF RowFor
  <2>2. CASE ~Skipped
    <3>1. row = Evaluate(InputsFor(asOf, z, policy))
      BY <2>2 DEF RowFor
    <3>2. row.inputs = InputsFor(asOf, z, policy)
      BY <3>1, KeepsInputs
    <3>3. /\ row.inputs.migrations = subject.migrations
          /\ row.inputs.temporal = subject.temporal
      BY <3>2 DEF InputsFor
    <3> HIDE DEF row
    <3> QED
      BY <1>1, <2>2, <3>1, <3>2, <3>3, RunReadsTheDocument
  <2> QED
    BY <2>1, <2>2
<1> HIDE DEF row
<1>3. row \in Stored
  BY <1>2 DEF Documented
<1>4. runs \in Seq(Stored)
  BY <1>1 DEF RunsInv
<1> HIDE DEF Stored
<1>5. /\ runs' \in Seq(Stored) /\ DOMAIN runs' = DOMAIN runs \union {n}
      /\ runs'[n] = row /\ DOMAIN runs = 1 .. Len(runs) /\ Len(runs) \in Nat
      /\ \A i \in DOMAIN runs : runs'[i] = runs[i]
  BY <1>1, <1>3, <1>4
<1>6. SubjectInv'
  BY <1>1 DEF SubjectInv
<1>7. ASSUME NEW i \in DOMAIN runs'
      PROVE  RecordInv(runs[i])' /\ GrewInv(runs[i])'
  <2>1. CASE i = n
    BY <1>1, <1>2, <1>5, <2>1 DEF RecordInv, GrewInv
  <2>2. CASE i # n
    <3>1. i \in DOMAIN runs /\ runs'[i] = runs[i]
      BY <1>5, <2>2
    <3>2. RecordInv(runs[i]) /\ GrewInv(runs[i])
      BY <1>1, <3>1 DEF RunsInv
    <3> QED
      BY <1>1, <3>1, <3>2 DEF RecordInv, GrewInv
  <2> QED
    BY <2>1, <2>2
<1>8. ASSUME NEW i \in DOMAIN runs', NEW j \in DOMAIN runs', i < j,
             runs'[i] # None, runs'[j] # None
      PROVE  Grew(runs'[i].inputs, runs'[j].inputs.migrations, runs'[j].inputs.temporal)
  <2>1. i \in DOMAIN runs /\ runs'[i] = runs[i]
    BY <1>5, <1>8
  <2>2. CASE j = n
    <3>1. Grew(runs[i].inputs, subject.migrations, subject.temporal)
      BY <1>1, <1>8, <2>1 DEF RunsInv, GrewInv
    <3> QED
      BY <1>2, <1>5, <1>8, <2>1, <2>2, <3>1
  <2>3. CASE j # n
    <3>1. j \in DOMAIN runs /\ runs'[j] = runs[j]
      BY <1>5, <2>3
    <3> QED
      BY <1>1, <1>8, <2>1, <3>1 DEF RunsInv
  <2> QED
    BY <2>2, <2>3
<1>9. RunsInv'
  BY <1>5, <1>7, <1>8 DEF RunsInv, Stored
<1> QED
  BY <1>6, <1>9 DEF HistoryInv

(* Every step keeps the invariant. *)
LEMMA NextHistory == HistoryInv /\ [Next]_vars => HistoryInv'
<1> SUFFICES ASSUME HistoryInv, [Next]_vars PROVE HistoryInv'
  OBVIOUS
<1>1. SubjectInv /\ RunsInv
  BY DEF HistoryInv
<1>2. subject \in SubjectType /\ today \in Days /\ today \in Nat
  BY <1>1, SubjectParts DEF SubjectInv
<1>3. CASE NextDay
  <2>1. today' \in Days /\ today <= today' /\ subject' = subject /\ runs' = runs
    BY <1>2, <1>3, BoundAssumption DEF NextDay, Days
  <2> QED
    BY <1>1, <1>2, <2>1, DatesGrow
<1>4. ASSUME NEW v \in Vantages, NEW group \in Groups, NEW tested \in BOOLEAN,
             NEW accepted \in BOOLEAN, Observe(v, group, tested, accepted)
      PROVE  HistoryInv'
  <2> DEFINE e == EvidenceFrom(v, group, tested, accepted)
  <2>1. e \in Events /\ e.at = today
    BY <1>2, GroupAssumption DEF EvidenceFrom, Events
  <2> HIDE DEF e
  <2>2. /\ subject' = [subject EXCEPT !.migrations = Append(subject.migrations, e),
                          !.temporal.firstObserved = FirstObserved(subject.temporal.firstObserved)]
        /\ UNCHANGED <<today, runs>>
    BY <1>4 DEF Observe, e
  <2>3. /\ subject'.migrations = Append(subject.migrations, e)
        /\ subject'.temporal = Bounded(subject.temporal)
        /\ subject'.context = subject.context /\ subject'.bindingKey = subject.bindingKey
    BY <1>2, <2>2 DEF SubjectType, Bounded
  <2>4. Bounded(subject.temporal) \in Temporals /\ Append(subject.migrations, e) \in Seq(Events)
    BY <1>1, <2>1, BoundedIs, SubjectParts
  <2>5. subject' \in SubjectType
    <3>1. subject' = [subject EXCEPT !.migrations = Append(subject.migrations, e),
                                     !.temporal = Bounded(subject.temporal)]
      BY <1>2, <2>2 DEF SubjectType, Bounded
    <3> QED
      BY <1>2, <2>4, <3>1 DEF SubjectType
  <2> QED
    BY <1>1, <2>1, <2>2, <2>3, <2>5, EvidenceGrows
<1>5. ASSUME NEW v \in Vantages, Configure(v)
      PROVE  HistoryInv'
  <2> DEFINE e == [vantage |-> v, at |-> today, group |-> "hybrid",
                   classical |-> FALSE, status |-> "INFERRED"]
  <2>1. e \in Events /\ e.at = today /\ e.status # "KNOWN"
    BY <1>2 DEF Events
  <2> HIDE DEF e
  <2>2. /\ subject' = [subject EXCEPT !.migrations = Append(subject.migrations, e)]
        /\ UNCHANGED <<today, runs>>
    BY <1>5 DEF Configure, e
  <2>3. Append(subject.migrations, e) \in Seq(Events)
    BY <1>1, <2>1, SubjectParts
  <2>4. /\ subject' \in SubjectType /\ subject'.temporal = subject.temporal
        /\ subject'.migrations = Append(subject.migrations, e)
    BY <1>2, <2>2, <2>3 DEF SubjectType
  <2> QED
    BY <1>1, <2>1, <2>2, <2>4, EvidenceGrows
<1>6. ASSUME NEW field \in Stated, NEW d \in 0 .. today, StateDate(field, d)
      PROVE  HistoryInv'
  <2> DEFINE date == [value |-> d, state |-> IF field = "goLive" THEN "DECLARED" ELSE "KNOWN"]
             temporal == [subject.temporal EXCEPT ![field] = date]
  <2>1. date \in DateFields
    BY <1>2, BoundAssumption DEF DateFields, FieldStates, Days
  <2> HIDE DEF date
  <2>2. field \in {"notBefore", "goLive", "snapshot"} /\ subject.temporal[field] = None
    BY <1>6, StatedAssumption DEF StateDate
  <2>3. /\ temporal \in Temporals /\ temporal.firstObserved = subject.temporal.firstObserved
        /\ \A f \in {"notBefore", "goLive", "snapshot"} :
              subject.temporal[f] # None => temporal[f] = subject.temporal[f]
    <3>1. subject.temporal \in Temporals
      BY <1>1, SubjectParts
    <3>2. CASE field = "notBefore"
      BY <2>1, <2>2, <3>1, <3>2 DEF Temporals
    <3>3. CASE field = "goLive"
      BY <2>1, <2>2, <3>1, <3>3 DEF Temporals
    <3>4. CASE field = "snapshot"
      BY <2>1, <2>2, <3>1, <3>4 DEF Temporals
    <3> QED
      BY <2>2, <3>2, <3>3, <3>4
  <2>4. subject' = [subject EXCEPT !.temporal = temporal] /\ UNCHANGED <<today, runs>>
    BY <1>6 DEF StateDate, date
  <2> HIDE DEF temporal
  <2>5. /\ subject' \in SubjectType /\ subject'.temporal = temporal
        /\ subject'.migrations = subject.migrations
    BY <1>2, <2>3, <2>4 DEF SubjectType
  <2> QED
    BY <1>1, <1>2, <2>3, <2>4, <2>5, DatesGrow
<1>7. ASSUME NEW key \in Keys, Declare(key)
      PROVE  HistoryInv'
  <2>1. subject' = [subject EXCEPT !.bindingKey = key] /\ UNCHANGED <<today, runs>>
    BY <1>7 DEF Declare
  <2>2. /\ subject' \in SubjectType /\ subject'.temporal = subject.temporal
        /\ subject'.migrations = subject.migrations
    BY <1>2, <2>1 DEF SubjectType
  <2> QED
    BY <1>1, <1>2, <2>1, <2>2, DatesGrow
<1>8. ASSUME NEW context \in Contexts, Reclassify(context)
      PROVE  HistoryInv'
  <2>1. subject' = [subject EXCEPT !.context = context] /\ UNCHANGED <<today, runs>>
    BY <1>8 DEF Reclassify
  <2>2. /\ subject' \in SubjectType /\ subject'.temporal = subject.temporal
        /\ subject'.migrations = subject.migrations
    BY <1>2, <2>1 DEF SubjectType
  <2> QED
    BY <1>1, <1>2, <2>1, <2>2, DatesGrow
<1>9. CASE UNCHANGED vars
  BY <1>1, <1>2, <1>9, DatesGrow DEF vars
<1> QED
  BY <1>3, <1>4, <1>5, <1>6, <1>7, <1>8, <1>9, LedgerRunKeeps DEF Next

(* It holds throughout. *)
LEMMA HistoryIsInductive == Spec => []HistoryInv
BY InitHistory, NextHistory, PTL DEF Spec

-----------------------------------------------------------------------------
(* One row beside another: on more evidence, or under another policy. *)

(* More dated fields, no later start. *)
LEMMA MoreDatesAreEarlier ==
    ASSUME NEW fields \in SUBSET DateFields, NEW more \in SUBSET DateFields,
           fields \ {None} \subseteq more, EarliestDate(fields) # None
    PROVE  EarliestDate(more) # None /\ EarliestDate(more) <= EarliestDate(fields)
<1>1. PICK f \in fields \ {None} : EarliestDate(fields) = f.value
  BY EarliestDateIs
<1>2. f \in more \ {None}
  BY <1>1
<1> QED
  BY <1>1, <1>2, EarliestDateIs

(* The fields a start is read from. *)
PossibleFields(t) == {t.notBefore, t.goLive, t.snapshot, t.firstObserved}
ConfirmedFields(t, acceptGoLive) ==
    {f \in {t.firstObserved} \ {None} : f.state = "KNOWN"}
    \union {f \in {t.goLive} \ {None} : acceptGoLive /\ f.state \in {"DECLARED", "KNOWN"}}

(* What confirms a start also makes it possible. *)
LEMMA FieldsAre ==
    ASSUME NEW t \in Temporals, NEW accept
    PROVE  /\ PossibleFields(t) \in SUBSET DateFields
           /\ ConfirmedFields(t, accept) \in SUBSET DateFields
           /\ ConfirmedFields(t, accept) \subseteq PossibleFields(t)
BY DEF Temporals, PossibleFields, ConfirmedFields

(* The start as the earliest of those fields. *)
LEMMA StartReads ==
    ASSUME NEW inputs
    PROVE  StartDate(inputs) =
             CASE inputs.policy.mode = "SINCE_DATE" -> inputs.policy.since
               [] inputs.policy.mode = "SINCE_POSSIBLE" -> EarliestDate(PossibleFields(inputs.temporal))
               [] OTHER -> EarliestDate(ConfirmedFields(inputs.temporal, inputs.policy.acceptGoLive))
BY DEF StartDate, PossibleSince, ConfirmedSince, PossibleFields, ConfirmedFields

(* Under one policy, what the document has gained moves no start later.    *)
LEMMA StartGrows ==
    ASSUME NEW inputs, NEW later, Documented(inputs), Documented(later),
           later.policy = inputs.policy, StartDate(inputs) # None,
           Grew(inputs, later.migrations, later.temporal)
    PROVE  StartDate(later) <= StartDate(inputs)
<1> DEFINE accept == inputs.policy.acceptGoLive
           t == inputs.temporal
           u == later.temporal
<1>1. t \in Temporals /\ u \in Temporals /\ inputs.policy.since \in Days \union {None}
  BY DEF Documented, Inputs, PolicyType
<1>2. /\ t.notBefore # None => u.notBefore = t.notBefore
      /\ t.goLive # None => u.goLive = t.goLive
      /\ t.snapshot # None => u.snapshot = t.snapshot
      /\ t.firstObserved # None => u.firstObserved = t.firstObserved
  BY DEF Grew
<1>3. /\ PossibleFields(t) \ {None} \subseteq PossibleFields(u)
      /\ ConfirmedFields(t, accept) \ {None} \subseteq ConfirmedFields(u, accept)
  BY <1>2 DEF PossibleFields, ConfirmedFields
<1>4. CASE inputs.policy.mode = "SINCE_DATE"
  <2>1. StartDate(inputs) = inputs.policy.since /\ StartDate(later) = inputs.policy.since
    BY <1>4, StartReads
  <2>2. inputs.policy.since \in Nat
    BY <1>1, <2>1, BoundAssumption DEF Days
  <2> QED
    BY <2>1, <2>2
<1>5. CASE inputs.policy.mode = "SINCE_POSSIBLE"
  <2>1. /\ StartDate(inputs) = EarliestDate(PossibleFields(t))
        /\ StartDate(later) = EarliestDate(PossibleFields(u))
    BY <1>5, StartReads
  <2> QED
    BY <1>1, <1>3, <2>1, FieldsAre, MoreDatesAreEarlier
<1>6. CASE inputs.policy.mode \notin {"SINCE_DATE", "SINCE_POSSIBLE"}
  <2>1. /\ StartDate(inputs) = EarliestDate(ConfirmedFields(t, accept))
        /\ StartDate(later) = EarliestDate(ConfirmedFields(u, accept))
    BY <1>6, StartReads
  <2> QED
    BY <1>1, <1>3, <2>1, FieldsAre, MoreDatesAreEarlier
<1> QED
  BY <1>4, <1>5, <1>6

(* What is read later has the earlier evidence, and new evidence after it. *)
LEMMA GrewKnown ==
    ASSUME NEW inputs, NEW ms \in Seq(Events), NEW temporal, Grew(inputs, ms, temporal),
           inputs.migrations \in Seq(Events)
    PROVE  LET old == inputs.migrations
           IN  /\ KnownIn(old) \subseteq KnownIn(ms)
               /\ StopsIn(old) \subseteq StopsIn(ms) /\ ClassicalIn(old) \subseteq ClassicalIn(ms)
               /\ \A k \in KnownIn(old) : ms[k] = old[k] /\ ms[k].at = old[k].at
               /\ \A k \in KnownIn(ms) \ KnownIn(old) :
                     k \notin DOMAIN old /\ inputs.asOf <= ms[k].at
               /\ \A k \in StopsIn(ms) \ StopsIn(old) : k \in KnownIn(ms) \ KnownIn(old)
               /\ \A k \in ClassicalIn(ms) \ ClassicalIn(old) : k \in KnownIn(ms) \ KnownIn(old)
BY DEF Grew, KnownIn, StopsIn, ClassicalIn

(* So a day that the walk loses before asOf is lost for good.              *)
LEMMA WalkIsMonotone ==
    ASSUME NEW inputs, NEW ms \in Seq(Events), NEW temporal, Grew(inputs, ms, temporal),
           inputs.migrations \in Seq(Events), inputs.asOf \in Nat,
           NEW start \in Nat, NEW earlier \in Nat, earlier <= start,
           NEW d \in Nat, d < inputs.asOf,
           NEW o \in Openings(inputs.migrations), Lo(inputs.migrations, start, o) <= d,
           \A c \in ClosingDates(inputs.migrations, o) : d < c
    PROVE  /\ o \in Openings(ms) /\ Lo(ms, earlier, o) <= d
           /\ \A c \in ClosingDates(ms, o) : d < c
<1> DEFINE old == inputs.migrations
<1>1. /\ KnownIn(old) \subseteq KnownIn(ms)
      /\ StopsIn(old) \subseteq StopsIn(ms) /\ ClassicalIn(old) \subseteq ClassicalIn(ms)
      /\ \A k \in KnownIn(old) : ms[k].at = old[k].at
      /\ \A k \in KnownIn(ms) \ KnownIn(old) : inputs.asOf <= ms[k].at
      /\ \A k \in StopsIn(ms) \ StopsIn(old) : k \in KnownIn(ms) \ KnownIn(old)
  BY GrewKnown
<1>2. \A k \in KnownIn(ms) \ KnownIn(old) : d < ms[k].at
  BY <1>1, KnownType
<1>3. Openings(old) \subseteq {0} \union ClassicalIn(old) /\ ClassicalIn(old) \subseteq KnownIn(old)
      /\ StopsIn(old) \subseteq KnownIn(old) /\ StopsIn(ms) \subseteq KnownIn(ms)
      /\ \A k \in KnownIn(old) : k \in Nat \ {0} /\ old[k].at \in Nat
  BY KnownType
<1>4. ASSUME NEW i \in KnownIn(old), NEW j \in KnownIn(old)
      PROVE  SortsBefore(ms, i, j) <=> SortsBefore(old, i, j)
  BY <1>1 DEF SortsBefore
<1>5. o # 0 => ms[o].at = old[o].at /\ ms[o].at <= d /\ o \in KnownIn(old)
  BY <1>1, <1>3 DEF Lo
<1>6. Lo(ms, earlier, o) <= d
  BY <1>5 DEF Lo
<1>7. o \in Openings(ms)
  <2>1. CASE o = 0
    BY <2>1 DEF Openings
  <2>2. CASE o # 0
    <3>1. o \in ClassicalIn(old) /\ o \in KnownIn(old)
      BY <1>3, <2>2
    <3>2. PICK s \in StopsIn(old) :
              /\ SortsBefore(old, s, o)
              /\ \A k \in KnownIn(old) : ~(SortsBefore(old, s, k) /\ SortsBefore(old, k, o))
      BY <2>2 DEF Openings
    <3>3. s \in KnownIn(old) /\ s \in StopsIn(ms) /\ SortsBefore(ms, s, o)
      BY <1>1, <1>3, <1>4, <3>1, <3>2
    <3>4. ASSUME NEW k \in KnownIn(ms), SortsBefore(ms, s, k), SortsBefore(ms, k, o)
          PROVE  FALSE
      <4>1. CASE k \in KnownIn(old)
        BY <1>4, <3>1, <3>2, <3>3, <3>4, <4>1
      <4>2. CASE k \notin KnownIn(old)
        <5>1. d < ms[k].at /\ ms[k].at \in Nat /\ ms[o].at \in Nat
          BY <1>1, <1>2, <3>1, <4>2, KnownType
        <5> QED
          BY <1>5, <2>2, <3>4, <5>1 DEF SortsBefore
      <4> QED
        BY <4>1, <4>2
    <3> QED
      BY <1>1, <3>1, <3>3, <3>4 DEF Openings
  <2> QED
    BY <2>1, <2>2
<1>8. ASSUME NEW t \in StopsIn(ms), o = 0 \/ SortsBefore(ms, o, t)
      PROVE  d < ms[t].at
  <2>1. CASE t \in KnownIn(old)
    <3>1. t \in StopsIn(old)
      BY <1>1, <2>1
    <3>2. o = 0 \/ SortsBefore(old, o, t)
      BY <1>4, <1>5, <1>8, <2>1
    <3>3. old[t].at \in ClosingDates(old, o)
      BY <3>1, <3>2 DEF ClosingDates
    <3> QED
      BY <1>1, <2>1, <3>3
  <2>2. CASE t \notin KnownIn(old)
    BY <1>2, <1>3, <2>2
  <2> QED
    BY <2>1, <2>2
<1>9. \A c \in ClosingDates(ms, o) : d < c
  BY <1>8 DEF ClosingDates
<1> QED
  BY <1>6, <1>7, <1>9

-----------------------------------------------------------------------------
(* The theorems. *)

(* Every variable, and the band and conditional band of every stored row,  *)
(* has its type, whatever joins the document and whenever ledger-run reads *)
(* it.                                                                     *)
THEOREM TypeCorrect == Spec => []TypeOK
<1>1. HistoryInv => TypeOK
  <2> SUFFICES ASSUME HistoryInv PROVE TypeOK
    OBVIOUS
  <2>1. today \in Days /\ subject \in SubjectType
    BY DEF HistoryInv, SubjectInv
  <2>2. ASSUME NEW i \in DOMAIN runs, runs[i] # None
        PROVE  runs[i].band \in Bands /\ runs[i].conditional \in Bands \union {None}
    <3>1. runs[i] = Evaluate(runs[i].inputs)
      BY <2>2 DEF HistoryInv, RunsInv, RecordInv
    <3> QED
      BY <3>1, BandType
  <2> QED
    BY <2>1, <2>2 DEF TypeOK, SubjectType
<1> QED
  BY <1>1, HistoryIsInductive, PTL

(* A row of the set is a run that was stored. *)
LEMMA RowsAreRecords ==
    ASSUME HistoryInv, NEW row \in Rows
    PROVE  /\ row = Evaluate(row.inputs) /\ Documented(row.inputs)
           /\ row.inputs.policy \in Policies
BY DEF HistoryInv, RunsInv, RecordInv, Rows

(* The windows of a banded row are the days, from its start and its        *)
(* deadline on and before as_of, on which classical was last seen          *)
(* accepted, when no policy sets the start by hand (SINCE_DATE).           *)
THEOREM WindowsAreLostDays ==
    ASSUME \A policy \in Policies : policy.mode # "SINCE_DATE"
    PROVE  Spec => []WindowsAreTheLostDays
<1>1. HistoryInv => WindowsAreTheLostDays
  <2> SUFFICES ASSUME HistoryInv, NEW row \in Rows, row.band # "UNBOUNDED",
                      ShorBroken(row.inputs.context)
               PROVE  LostDays(row) =
                        {d \in Days : /\ row.start <= d /\ row.deadline <= d
                                      /\ d < row.inputs.asOf
                                      /\ ClassicalOn(row.inputs.migrations, d)}
    BY DEF WindowsAreTheLostDays
  <2>1. /\ row = Evaluate(row.inputs) /\ Documented(row.inputs)
        /\ row.inputs.policy.mode # "SINCE_DATE"
    BY RowsAreRecords
  <2>2. Decided(row.inputs)
    BY <2>1, BandedIsDecided
  <2>3. ShorBroken(row.inputs.context) = TRUE
    BY <2>1, <2>2, ShorType
  <2>4. row.start = StartDate(row.inputs)
        /\ row.deadline = Deadline(row.inputs.binding, row.inputs.z)
    BY <2>1, <2>2, DecidedIs
  <2> QED
    BY <2>1, <2>2, <2>3, <2>4, LosesTheDays
<1> QED
  BY <1>1, HistoryIsInductive, PTL

(* Migrating recovers nothing: a day that a run reports as lost is lost in *)
(* every later run of the same question, whatever was observed, stated or  *)
(* reopened in between.                                                    *)
THEOREM LostStaysLost == Spec => []NothingIsRecovered
<1>1. HistoryInv => NothingIsRecovered
  <2> SUFFICES ASSUME HistoryInv, NEW i \in DOMAIN runs, NEW j \in DOMAIN runs, i < j,
                      runs[i] # None, runs[j] # None, SameQuestion(runs[i], runs[j]),
                      NEW d \in LostDays(runs[i])
               PROVE  d \in LostDays(runs[j])
    BY DEF NothingIsRecovered
  <2> DEFINE old == runs[i].inputs
             new == runs[j].inputs
  <2>1. /\ runs[i] = Evaluate(old) /\ Documented(old)
        /\ runs[j] = Evaluate(new) /\ Documented(new)
        /\ Grew(old, new.migrations, new.temporal)
    BY DEF HistoryInv, RunsInv, RecordInv
  <2>2. /\ Decided(old) /\ Decided(new) /\ new.context = old.context
        /\ new.policy = old.policy /\ old.asOf <= new.asOf
    BY <2>1, BandedIsDecided DEF SameQuestion
  <2> HIDE DEF old, new
  <2>3. ShorBroken(old.context) = TRUE
    BY <2>1, <2>2, ShorType, OthersLoseNothing
  <2>4. /\ StartDate(old) \in Nat /\ StartDate(new) \in Nat
        /\ old.asOf \in Nat /\ new.asOf \in Nat
        /\ old.migrations \in Seq(Events) /\ new.migrations \in Seq(Events)
        /\ Deadline(old.binding, old.z) \in Int
        /\ Evaluate(old).windows = WindowsFor(old) /\ Evaluate(new).windows = WindowsFor(new)
    BY <2>1, <2>2, <2>3, KeepsItsWindows
  <2>5. Deadline(new.binding, new.z) = Deadline(old.binding, old.z)
    BY <2>1, <2>2, DecidedIs DEF SameQuestion
  <2>6. StartDate(new) <= StartDate(old)
    BY <2>1, <2>2, StartGrows DEF Decided
  <2>7. d \in Days /\ d \in Nat /\ \E w \in WindowsFor(old) : w.lo <= d /\ d < w.hi
    BY <2>1, <2>4, BoundAssumption DEF LostDays, Days
  <2>8. PICK o \in Openings(old.migrations) :
            /\ Lo(old.migrations, StartDate(old), o) <= d
            /\ Deadline(old.binding, old.z) <= d /\ d < old.asOf
            /\ \A c \in ClosingDates(old.migrations, o) : d < c
    BY <2>4, <2>7, InSomeWindow DEF WindowsFor
  <2>9. /\ o \in Openings(new.migrations)
        /\ Lo(new.migrations, StartDate(new), o) <= d
        /\ \A c \in ClosingDates(new.migrations, o) : d < c
    BY <2>1, <2>4, <2>6, <2>7, <2>8, WalkIsMonotone
  <2>10. d < new.asOf
    BY <2>2, <2>4, <2>7, <2>8
  <2>11. \E w \in WindowsFor(new) : w.lo <= d /\ d < w.hi
    BY <2>4, <2>5, <2>7, <2>8, <2>9, <2>10, InSomeWindow DEF WindowsFor
  <2> QED
    BY <2>1, <2>4, <2>7, <2>11 DEF LostDays
<1> QED
  BY <1>1, HistoryIsInductive, PTL

(* The diff of two stored runs names new evidence: MIGRATED needs a KNOWN  *)
(* stop, REGRESSED a KNOWN classical negotiation, that the older run did   *)
(* not have (diff._classify asks the stored evidence again).               *)
THEOREM DiffNamesEvidence == Spec => []DiffNamesNewEvidence
<1>1. HistoryInv => DiffNamesNewEvidence
  <2> SUFFICES ASSUME HistoryInv, NEW i \in DOMAIN runs, NEW j \in DOMAIN runs, i < j,
                      runs[i] # None, runs[j] # None
               PROVE  /\ Classify(runs[i], runs[j]) = "MIGRATED" =>
                            \E k \in NewIn(runs[i], runs[j]) : ~runs[j].inputs.migrations[k].classical
                      /\ Classify(runs[i], runs[j]) = "REGRESSED" =>
                            \E k \in NewIn(runs[i], runs[j]) : runs[j].inputs.migrations[k].classical
    BY DEF DiffNamesNewEvidence
  <2> DEFINE old == runs[i].inputs.migrations
             new == runs[j].inputs.migrations
  <2>1. /\ old \in Seq(Events) /\ new \in Seq(Events) /\ Dated(new)
        /\ Grew(runs[i].inputs, new, runs[j].inputs.temporal)
    BY DEF HistoryInv, RunsInv, RecordInv, Documented, Inputs
  <2>2. NewIn(runs[i], runs[j]) = {k \in KnownIn(new) : k \notin DOMAIN old}
    BY DEF NewIn
  <2>3. Classify(runs[i], runs[j]) = "MIGRATED"
            => ~CurrentlyStopped(old) /\ CurrentlyStopped(new)
    BY DEF Classify, RowStopped
  <2>4. Classify(runs[i], runs[j]) = "REGRESSED"
            => CurrentlyStopped(old) /\ ~CurrentlyStopped(new)
    BY DEF Classify, RowStopped
  <2>5. /\ StopsIn(old) \subseteq StopsIn(new) /\ ClassicalIn(old) \subseteq ClassicalIn(new)
        /\ \A k \in KnownIn(old) : new[k].at = old[k].at
        /\ \A k \in StopsIn(new) \ StopsIn(old) : k \in KnownIn(new) /\ k \notin DOMAIN old
        /\ \A k \in ClassicalIn(new) \ ClassicalIn(old) : k \in KnownIn(new) /\ k \notin DOMAIN old
    <3>1. /\ StopsIn(old) \subseteq StopsIn(new) /\ ClassicalIn(old) \subseteq ClassicalIn(new)
          /\ \A k \in KnownIn(old) : new[k] = old[k] /\ new[k].at = old[k].at
          /\ \A k \in KnownIn(new) \ KnownIn(old) :
                k \notin DOMAIN old /\ runs[i].inputs.asOf <= new[k].at
          /\ \A k \in StopsIn(new) \ StopsIn(old) : k \in KnownIn(new) \ KnownIn(old)
          /\ \A k \in ClassicalIn(new) \ ClassicalIn(old) : k \in KnownIn(new) \ KnownIn(old)
      BY <2>1, GrewKnown, Zenon
    <3> HIDE DEF old, new
    <3> QED
      BY <3>1
  <2> HIDE DEF old, new
  <2>6. /\ StopsIn(old) \subseteq KnownIn(old) /\ ClassicalIn(old) \subseteq KnownIn(old)
        /\ StopsIn(new) \subseteq KnownIn(new) /\ ClassicalIn(new) \subseteq KnownIn(new)
        /\ KnownIn(old) \subseteq 1 .. Len(old) /\ KnownIn(new) \subseteq 1 .. Len(new)
        /\ \A k \in KnownIn(new) : new[k].at \in Nat /\ k \in Nat
        /\ DOMAIN old = 1 .. Len(old) /\ DOMAIN new = 1 .. Len(new)
        /\ Len(old) \in Nat /\ Len(new) \in Nat
    BY <2>1, KnownType
  <2>7. Reopened(old) => Reopened(new)
    BY <2>5, <2>6 DEF Reopened
  <2>8. ASSUME ~CurrentlyStopped(old), CurrentlyStopped(new)
        PROVE  \E k \in KnownIn(new) : k \notin DOMAIN old /\ ~new[k].classical
    <3>1. StopsIn(old) = {}
      BY <2>7, <2>8 DEF CurrentlyStopped
    <3>2. PICK k \in StopsIn(new) : TRUE
      BY <2>8 DEF CurrentlyStopped
    <3>3. k \in KnownIn(new) /\ k \notin DOMAIN old
      BY <2>5, <3>1, <3>2
    <3> QED
      BY <3>2, <3>3 DEF StopsIn
  <2>9. ASSUME CurrentlyStopped(old), ~CurrentlyStopped(new)
        PROVE  \E k \in KnownIn(new) : k \notin DOMAIN old /\ new[k].classical
    <3>1. Reopened(new) /\ ~Reopened(old)
      BY <2>5, <2>9 DEF CurrentlyStopped
    <3>2. PICK s \in StopsIn(new), c \in ClassicalIn(new) : new[c].at > new[s].at
      BY <3>1 DEF Reopened
    <3>3. c \notin DOMAIN old
      <4> SUFFICES ASSUME c \in DOMAIN old PROVE FALSE
        OBVIOUS
      <4>1. c \in ClassicalIn(old)
        BY <2>5, <3>2
      <4>2. CASE s \in StopsIn(old)
        BY <2>5, <2>6, <3>1, <3>2, <4>1, <4>2 DEF Reopened
      <4>3. CASE s \notin StopsIn(old)
        <5>1. s \notin DOMAIN old /\ s \in DOMAIN new /\ c \in DOMAIN new
          BY <2>5, <2>6, <3>2, <4>3
        <5>2. DOMAIN old \subseteq DOMAIN new
          BY <2>1 DEF Grew, old
        <5>3. c <= s
          BY <2>6, <5>1
        <5>4. new[c].at <= new[s].at
          BY <2>1, <5>1, <5>3 DEF Dated
        <5> QED
          BY <2>6, <3>2, <5>4
      <4> QED
        BY <4>2, <4>3
    <3> QED
      BY <2>6, <3>2, <3>3 DEF ClassicalIn
  <2> QED
    BY <2>2, <2>3, <2>4, <2>8, <2>9 DEF old, new
<1> QED
  BY <1>1, HistoryIsInductive, PTL

(* A row with a window that reaches as_of is BLEEDING: the walk that makes *)
(* the windows and currently_stopped, which _band_for reads, agree on      *)
(* evidence that is dated before as_of and on different days.              *)
THEOREM OpenWindowsBleed == Spec => []OpenWindowBleeds
<1>1. HistoryInv => OpenWindowBleeds
  <2> SUFFICES ASSUME HistoryInv, NEW row \in Rows,
                      NEW w \in row.windows, w.hi = row.inputs.asOf,
                      \A i, j \in KnownIn(row.inputs.migrations) :
                         /\ row.inputs.migrations[i].at < row.inputs.asOf
                         /\ row.inputs.migrations[i].at = row.inputs.migrations[j].at => i = j
               PROVE  row.band = "BLEEDING"
    BY DEF OpenWindowBleeds
  <2> DEFINE inputs == row.inputs
             ms == inputs.migrations
             start == StartDate(inputs)
             deadline == Deadline(inputs.binding, inputs.z)
  <2>1. row = Evaluate(inputs) /\ Documented(inputs)
    BY RowsAreRecords
  <2> HIDE DEF inputs
  <2>2. Decided(inputs) /\ ShorBroken(inputs.context) = TRUE
    BY <2>1, OthersLoseNothing, ShorType
  <2>3. /\ start \in Nat /\ deadline \in Int /\ inputs.asOf \in Nat
        /\ ms \in Seq(Events) /\ Evaluate(inputs).windows = WindowsFor(inputs)
    BY <2>1, <2>2, KeepsItsWindows
  <2>4. /\ row.band = BandOf(inputs)
        /\ row.windows = IF BandOf(inputs) \in {"BLEEDING", "UNSAVABLE"}
                           THEN WindowsFor(inputs) ELSE {}
    BY <2>1, <2>2, DecidedIs
  <2>5. w \in WindowsOf(ms, start, deadline, inputs.asOf)
    BY <2>1, <2>3 DEF WindowsFor
  <2>6. ASSUME CurrentlyStopped(ms)
        PROVE  FALSE
    <3>1. PICK i \in ExposureIntervals(ms, start, inputs.asOf) :
              /\ w = [lo |-> Larger(i.lo, deadline), hi |-> Smaller(i.hi, inputs.asOf)]
      BY <2>5 DEF WindowsOf
    <3>2. PICK o \in Openings(ms) :
              i = [lo |-> Lo(ms, start, o),
                   hi |-> EarliestOf({inputs.asOf} \union ClosingDates(ms, o))]
      BY <3>1 DEF ExposureIntervals, Lo
    <3>3. /\ i.hi \in Nat /\ i.hi <= inputs.asOf
          /\ \A c \in ClosingDates(ms, o) : i.hi <= c /\ c \in Nat
      BY <2>3, <3>2, ClosingIs
    <3>4. i.hi = inputs.asOf
      BY <2>3, <3>1, <3>3 DEF Smaller, inputs
    <3>5. ASSUME NEW t \in StopsIn(ms), o = 0 \/ SortsBefore(ms, o, t)
          PROVE  FALSE
      <4>1. ms[t].at \in ClosingDates(ms, o)
        BY <3>5 DEF ClosingDates
      <4>2. t \in KnownIn(ms) /\ ms[t].at \in Nat
        BY <2>3, KnownType
      <4>3. ms[t].at < inputs.asOf
        BY <4>2 DEF inputs
      <4> QED
        BY <2>3, <3>3, <3>4, <4>1, <4>2, <4>3
    <3>6. o # 0
      BY <2>6, <3>5 DEF CurrentlyStopped
    <3>7. PICK s \in StopsIn(ms) : SortsBefore(ms, s, o) /\ o \in ClassicalIn(ms)
      BY <3>6 DEF Openings
    <3>8. /\ s \in KnownIn(ms) /\ o \in KnownIn(ms) /\ s # o
          /\ ms[s].at \in Nat /\ ms[o].at \in Nat
      BY <2>3, <3>7, KnownType
    <3>9. ms[s].at # ms[o].at
      BY <3>8 DEF inputs
    <3>10. ms[o].at > ms[s].at
      BY <3>7, <3>8, <3>9 DEF SortsBefore
    <3> QED
      BY <2>6, <3>7, <3>10 DEF CurrentlyStopped, Reopened
  <2>7. BandOf(inputs) # "UNSAVABLE"
    BY <2>2, <2>6 DEF BandOf, BandFor
  <2> QED
    BY <2>4, <2>7
<1> QED
  BY <1>1, HistoryIsInductive, PTL

(* The same inputs under another policy. *)
LEMMA UnderPolicy ==
    ASSUME NEW inputs, Documented(inputs), NEW policy \in PolicyType, NEW other,
           other = [inputs EXCEPT !.policy = policy]
    PROVE  /\ Documented(other)
           /\ other.asOf = inputs.asOf /\ other.z = inputs.z /\ other.policy = policy
           /\ other.context = inputs.context /\ other.temporal = inputs.temporal
           /\ other.binding = inputs.binding /\ other.migrations = inputs.migrations
<1>1. inputs \in Inputs
  BY DEF Documented
<1>2. /\ other \in Inputs
      /\ other.asOf = inputs.asOf /\ other.z = inputs.z /\ other.policy = policy
      /\ other.context = inputs.context /\ other.temporal = inputs.temporal
      /\ other.binding = inputs.binding /\ other.migrations = inputs.migrations
  BY <1>1 DEF Inputs
<1> QED
  BY <1>2 DEF Documented

(* The conditional band of a row that its policy leaves UNBOUNDED is the   *)
(* band the ledger gives under a policy that accepts INFERRED inputs.      *)
THEOREM ConditionalIsAccepted == Spec => []ConditionalIsTheAcceptedBand
<1>1. HistoryInv => ConditionalIsTheAcceptedBand
  <2> SUFFICES ASSUME HistoryInv, NEW row \in Rows, row.conditional # None,
                      ShorBroken(row.inputs.context) # None
               PROVE  row.conditional =
                        Evaluate([row.inputs EXCEPT !.policy.acceptInferred = TRUE]).band
    BY DEF ConditionalIsTheAcceptedBand
  <2> DEFINE inputs == row.inputs
             policy == [inputs.policy EXCEPT !.acceptInferred = TRUE]
             other == [inputs EXCEPT !.policy.acceptInferred = TRUE]
  <2>1. row = Evaluate(inputs) /\ Documented(inputs)
    BY RowsAreRecords
  <2> HIDE DEF inputs
  <2>2. inputs \in Inputs /\ inputs.policy \in PolicyType
    BY <2>1 DEF Documented, Inputs
  <2>3. /\ policy \in PolicyType /\ policy.acceptInferred = TRUE
        /\ policy.mode = inputs.policy.mode /\ policy.since = inputs.policy.since
        /\ policy.acceptGoLive = inputs.policy.acceptGoLive
    BY <2>2 DEF PolicyType
  <2>4. other = [inputs EXCEPT !.policy = policy]
    BY <2>2 DEF Inputs
  <2> HIDE DEF policy, other
  <2>5. /\ other.asOf = inputs.asOf /\ other.z = inputs.z /\ other.policy = policy
        /\ other.context = inputs.context /\ other.temporal = inputs.temporal
        /\ other.binding = inputs.binding /\ other.migrations = inputs.migrations
    BY <2>1, <2>3, <2>4, UnderPolicy
  <2>6. StartDate(other) = StartDate(inputs)
    BY <2>3, <2>5, StartReads
  <2>7. /\ inputs.context.fnState # "UNKNOWN" /\ inputs.binding # None
        /\ StartDate(inputs) # None
        /\ row.conditional = BandOf(inputs)
    <3>1. ~(inputs.context.fnState = "UNKNOWN" \/ inputs.binding = None)
      BY <2>1 DEF Evaluate, Unbounded
    <3>2. StartDate(inputs) # None
      BY <2>1, <3>1 DEF Evaluate, Unbounded
    <3>3. ~Decided(inputs)
      BY <2>1, DecidedIs
    <3>4. row = Unbounded(inputs, Qualifiers(inputs.migrations),
                          Deadline(inputs.binding, inputs.z),
                          BandFor(AssumeBroken(ShorBroken(inputs.context)),
                                  CurrentlyStopped(inputs.migrations), WindowsFor(inputs),
                                  Deadline(inputs.binding, inputs.z), inputs.asOf),
                          StartDate(inputs))
      BY <2>1, <3>1, <3>2, <3>3 DEF Evaluate, Decided, WindowsFor, inputs
    <3>5. AssumeBroken(ShorBroken(inputs.context)) = ShorBroken(inputs.context)
      BY DEF AssumeBroken, inputs
    <3> QED
      BY <3>1, <3>2, <3>4, <3>5 DEF Unbounded, BandOf
  <2>8. Decided(other)
    BY <2>3, <2>5, <2>6, <2>7 DEF Decided, inputs
  <2>9. BandOf(other) = BandOf(inputs)
    BY <2>5, <2>6 DEF BandOf, WindowsFor
  <2>10. Evaluate(other).band = BandOf(inputs)
    BY <2>8, <2>9, DecidedIs
  <2> QED
    BY <2>7, <2>10 DEF other, inputs
<1> QED
  BY <1>1, HistoryIsInductive, PTL

(* A row that assumes capture since the surface was possible               *)
(* (SINCE_POSSIBLE) loses every day the confirmed one loses.               *)
THEOREM PossiblePessimistic == Spec => []PossibleIsPessimistic
<1>1. HistoryInv => PossibleIsPessimistic
  <2> SUFFICES ASSUME HistoryInv, NEW row \in Rows, row.inputs.policy.mode = "SINCE_CONFIRMED"
               PROVE  LostDays(row) \subseteq
                        LostDays(Evaluate([row.inputs EXCEPT !.policy.mode = "SINCE_POSSIBLE"]))
    BY DEF PossibleIsPessimistic
  <2> DEFINE inputs == row.inputs
             policy == [inputs.policy EXCEPT !.mode = "SINCE_POSSIBLE"]
             other == [inputs EXCEPT !.policy.mode = "SINCE_POSSIBLE"]
  <2>1. row = Evaluate(inputs) /\ Documented(inputs)
    BY RowsAreRecords
  <2>a. inputs.policy.mode = "SINCE_CONFIRMED"
    OBVIOUS
  <2> HIDE DEF inputs
  <2>2. inputs \in Inputs /\ inputs.policy \in PolicyType /\ inputs.temporal \in Temporals
    BY <2>1 DEF Documented, Inputs
  <2>3. /\ policy \in PolicyType /\ policy.mode = "SINCE_POSSIBLE"
        /\ policy.acceptInferred = inputs.policy.acceptInferred
    BY <2>2 DEF PolicyType
  <2>4. other = [inputs EXCEPT !.policy = policy]
    BY <2>2 DEF Inputs
  <2> HIDE DEF policy, other
  <2>5. /\ Documented(other)
        /\ other.asOf = inputs.asOf /\ other.z = inputs.z /\ other.policy = policy
        /\ other.context = inputs.context /\ other.temporal = inputs.temporal
        /\ other.binding = inputs.binding /\ other.migrations = inputs.migrations
    BY <2>1, <2>3, <2>4, UnderPolicy
  <2>6. CASE Decided(inputs) /\ ShorBroken(inputs.context) # FALSE
    <3>1. ShorBroken(inputs.context) = TRUE
      BY <2>1, <2>6, ShorType
    <3>2. /\ StartDate(inputs) = EarliestDate(
                 ConfirmedFields(inputs.temporal, inputs.policy.acceptGoLive))
          /\ StartDate(other) = EarliestDate(PossibleFields(inputs.temporal))
      BY <2>a, <2>3, <2>5, StartReads
    <3>3. StartDate(other) # None /\ StartDate(other) <= StartDate(inputs)
      BY <2>2, <2>6, <3>2, FieldsAre, MoreDatesAreEarlier DEF Decided
    <3>4. Decided(other)
      BY <2>3, <2>5, <2>6, <3>3 DEF Decided
    <3>5. ShorBroken(other.context) = TRUE
      BY <2>5, <3>1
    <3>6. StartDate(inputs) \in Nat /\ StartDate(other) \in Nat
      BY <2>1, <2>5, <2>6, <3>1, <3>4, <3>5, KeepsItsWindows
    <3>7. LostDays(row) =
            {d \in Days : /\ StartDate(inputs) <= d
                          /\ Deadline(inputs.binding, inputs.z) <= d
                          /\ d < inputs.asOf
                          /\ ClassicalOn(inputs.migrations, d)}
      BY <2>a, <2>1, <2>6, <3>1, LosesTheDays
    <3>8. LostDays(Evaluate(other)) =
            {d \in Days : /\ StartDate(other) <= d
                          /\ Deadline(inputs.binding, inputs.z) <= d
                          /\ d < inputs.asOf
                          /\ ClassicalOn(inputs.migrations, d)}
      BY <2>3, <2>5, <3>4, <3>5, LosesTheDays
    <3>9. \A d \in Days : d \in Nat
      BY BoundAssumption DEF Days
    <3>10. LostDays(row) \subseteq LostDays(Evaluate(other))
      BY <3>3, <3>6, <3>7, <3>8, <3>9
    <3> QED
      BY <3>10 DEF other, inputs
  <2>7. CASE ~(Decided(inputs) /\ ShorBroken(inputs.context) # FALSE)
    BY <2>1, <2>7, OthersLoseNothing
  <2> QED
    BY <2>6, <2>7
<1> QED
  BY <1>1, HistoryIsInductive, PTL

-----------------------------------------------------------------------------
(* Evidence that is not KNOWN. *)

UpTo(ms, i) == {j \in KnownIn(ms) : j <= i}

(* The KNOWN events stand in KnownOnly in the order they have in the       *)
(* timeline.                                                               *)
LEMMA KnownOnlyIs ==
    ASSUME NEW ms \in Seq(Events)
    PROVE  \E n \in Nat : \E e \in [1 .. n -> KnownIn(ms)] :
             /\ \A i \in KnownIn(ms) : \E k \in 1 .. n : e[k] = i
             /\ \A k, l \in 1 .. n : k < l <=> e[k] < e[l]
             /\ KnownOnly(ms) = [k \in 1 .. n |-> ms[e[k]]]
<1> DEFINE K == KnownIn(ms)
           n == Cardinality(K)
           count == [i \in K |-> Cardinality(UpTo(ms, i))]
           Nth(k) == CHOOSE i \in K : Cardinality(UpTo(ms, i)) = k
           e == [k \in 1 .. n |-> Nth(k)]
<1>1. /\ Len(ms) \in Nat /\ K \in SUBSET (1 .. Len(ms))
  BY DEF KnownIn
<1>2. IsFiniteSet(K) /\ n \in Nat
  <2>1. IsFiniteSet(1 .. Len(ms))
    BY <1>1, FS_Interval
  <2> QED
    BY <1>1, <2>1, FS_Subset, FS_CardinalityType
<1>3. KnownOnly(ms) = [k \in 1 .. n |-> ms[Nth(k)]]
  BY DEF KnownOnly, KnownIn, UpTo
<1>4. \A i \in K : i \in Nat
  BY <1>1
<1>5. \A i \in K : UpTo(ms, i) \in SUBSET K /\ i \in UpTo(ms, i)
  BY <1>4 DEF UpTo
<1> HIDE DEF K
<1>6. \A i \in K : IsFiniteSet(UpTo(ms, i)) /\ Cardinality(UpTo(ms, i)) \in 1 .. n
  <2> SUFFICES ASSUME NEW i \in K
               PROVE  IsFiniteSet(UpTo(ms, i)) /\ Cardinality(UpTo(ms, i)) \in 1 .. n
    OBVIOUS
  <2>1. IsFiniteSet(UpTo(ms, i)) /\ Cardinality(UpTo(ms, i)) <= Cardinality(K)
    BY <1>2, <1>5, FS_Subset
  <2>2. Cardinality(UpTo(ms, i)) \in Nat /\ Cardinality(UpTo(ms, i)) # 0
    BY <1>5, <2>1, FS_CardinalityType, FS_EmptySet
  <2> QED
    BY <1>2, <2>1, <2>2
<1>7. ASSUME NEW i \in K, NEW j \in K, i < j
      PROVE  Cardinality(UpTo(ms, i)) < Cardinality(UpTo(ms, j))
  <2>1. UpTo(ms, i) \in SUBSET UpTo(ms, j) /\ j \in UpTo(ms, j) /\ j \notin UpTo(ms, i)
    BY <1>4, <1>7, <1>1 DEF UpTo, K
  <2>2. Cardinality(UpTo(ms, i)) <= Cardinality(UpTo(ms, j))
        /\ Cardinality(UpTo(ms, i)) # Cardinality(UpTo(ms, j))
    BY <1>6, <2>1, FS_Subset
  <2>3. Cardinality(UpTo(ms, i)) \in Int /\ Cardinality(UpTo(ms, j)) \in Int
    BY <1>2, <1>6
  <2> QED
    BY <2>2, <2>3
<1> HIDE DEF n
<1>8. \A i, j \in K : i < j <=> count[i] < count[j]
  <2> SUFFICES ASSUME NEW i \in K, NEW j \in K PROVE i < j <=> count[i] < count[j]
    OBVIOUS
  <2>1. i \in Nat /\ j \in Nat /\ count[i] \in Int /\ count[j] \in Int
    BY <1>2, <1>4, <1>6
  <2>2. i < j \/ i = j \/ j < i
    BY <2>1
  <2>3. i < j => count[i] < count[j]
    BY <1>7
  <2>4. j < i => count[j] < count[i]
    BY <1>7
  <2> HIDE DEF count
  <2> QED
    BY <2>1, <2>2, <2>3, <2>4
<1>9. \A i, j \in K : count[i] = count[j] => i = j
  <2> SUFFICES ASSUME NEW i \in K, NEW j \in K, count[i] = count[j] PROVE i = j
    OBVIOUS
  <2>1. i \in Nat /\ j \in Nat /\ count[i] \in Int /\ count[j] \in Int
    BY <1>2, <1>4, <1>6
  <2> HIDE DEF count
  <2> QED
    BY <1>8, <2>1
<1>10. count \in Surjection(K, 1 .. n)
  <2>1. count \in [K -> 1 .. n]
    BY <1>6
  <2>2. count \in Injection(K, 1 .. n)
    BY <1>9, <2>1 DEF Injection, IsInjective
  <2>3. IsFiniteSet(1 .. n) /\ Cardinality(1 .. n) = n
    BY <1>2, FS_Interval
  <2> HIDE DEF count
  <2> QED
    BY <1>2, <2>2, <2>3, FS_Injection DEF n
<1>11. \A k \in 1 .. n : Nth(k) \in K /\ count[Nth(k)] = k
  BY <1>10 DEF Surjection
<1> HIDE DEF Nth, count
<1>12. e \in [1 .. n -> K] /\ \A k \in 1 .. n : e[k] = Nth(k)
  BY <1>11
<1> HIDE DEF e
<1>13. \A i \in K : \E k \in 1 .. n : e[k] = i
  <2> SUFFICES ASSUME NEW i \in K PROVE \E k \in 1 .. n : e[k] = i
    OBVIOUS
  <2>1. count[i] \in 1 .. n
    BY <1>6 DEF count
  <2> QED
    BY <1>9, <1>11, <1>12, <2>1
<1>14. \A k, l \in 1 .. n : k < l <=> e[k] < e[l]
  BY <1>8, <1>11, <1>12
<1>15. KnownOnly(ms) = [k \in 1 .. n |-> ms[e[k]]]
  BY <1>3, <1>12
<1> QED
  BY <1>2, <1>12, <1>13, <1>14, <1>15 DEF K

(* What the ledger reads of a timeline it reads of its KNOWN events.       *)
LEMMA KnownIsRead ==
    ASSUME NEW ms \in Seq(Events)
    PROVE  /\ Qualifiers(KnownOnly(ms)) = Qualifiers(ms)
           /\ CurrentlyStopped(KnownOnly(ms)) = CurrentlyStopped(ms)
           /\ \A start, deadline, asOf :
                 WindowsOf(KnownOnly(ms), start, deadline, asOf) = WindowsOf(ms, start, deadline, asOf)
<1> DEFINE ks == KnownOnly(ms)
<1>0. PICK n \in Nat : \E e \in [1 .. n -> KnownIn(ms)] :
             /\ \A i \in KnownIn(ms) : \E k \in 1 .. n : e[k] = i
             /\ \A k, l \in 1 .. n : k < l <=> e[k] < e[l]
             /\ ks = [k \in 1 .. n |-> ms[e[k]]]
  BY KnownOnlyIs
<1>1. PICK e \in [1 .. n -> KnownIn(ms)] :
             /\ \A i \in KnownIn(ms) : \E k \in 1 .. n : e[k] = i
             /\ \A k, l \in 1 .. n : k < l <=> e[k] < e[l]
             /\ ks = [k \in 1 .. n |-> ms[e[k]]]
  BY <1>0
<1>2. DOMAIN ks = 1 .. n /\ \A k \in 1 .. n : ks[k] = ms[e[k]] /\ e[k] \in KnownIn(ms)
  BY <1>1
<1> HIDE DEF ks
<1>3. KnownIn(ks) = 1 .. n
  BY <1>2 DEF KnownIn
<1>4. \A k \in 1 .. n : /\ k \in StopsIn(ks) <=> e[k] \in StopsIn(ms)
                        /\ k \in ClassicalIn(ks) <=> e[k] \in ClassicalIn(ms)
  BY <1>2, <1>3 DEF StopsIn, ClassicalIn
<1>5. /\ StopsIn(ks) \subseteq 1 .. n /\ ClassicalIn(ks) \subseteq 1 .. n
      /\ StopsIn(ms) \subseteq KnownIn(ms) /\ ClassicalIn(ms) \subseteq KnownIn(ms)
  BY <1>3 DEF StopsIn, ClassicalIn
<1>6. \A k, l \in 1 .. n : SortsBefore(ks, k, l) <=> SortsBefore(ms, e[k], e[l])
  BY <1>1, <1>2 DEF SortsBefore
<1>7. Reopened(ks) <=> Reopened(ms)
  <2>1. ASSUME NEW s \in StopsIn(ks), NEW c \in ClassicalIn(ks), ks[c].at > ks[s].at
        PROVE  Reopened(ms)
    BY <1>2, <1>4, <1>5, <2>1 DEF Reopened
  <2>2. ASSUME NEW s \in StopsIn(ms), NEW c \in ClassicalIn(ms), ms[c].at > ms[s].at
        PROVE  Reopened(ks)
    <3>1. PICK k \in 1 .. n : e[k] = s
      BY <1>1, <1>5
    <3>2. PICK l \in 1 .. n : e[l] = c
      BY <1>1, <1>5
    <3>3. k \in StopsIn(ks) /\ l \in ClassicalIn(ks) /\ ks[l].at > ks[k].at
      BY <1>2, <1>4, <2>2, <3>1, <3>2
    <3> QED
      BY <3>3 DEF Reopened
  <2> QED
    BY <2>1, <2>2 DEF Reopened
<1>8. Partial(ks) <=> Partial(ms)
  <2>1. ASSUME NEW c \in ClassicalIn(ks), ks[c].group # None PROVE Partial(ms)
    BY <1>2, <1>4, <1>5, <2>1 DEF Partial
  <2>2. ASSUME NEW c \in ClassicalIn(ms), ms[c].group # None PROVE Partial(ks)
    <3>1. PICK l \in 1 .. n : e[l] = c
      BY <1>1, <1>5
    <3>2. l \in ClassicalIn(ks) /\ ks[l].group # None
      BY <1>2, <1>4, <2>2, <3>1
    <3> QED
      BY <3>2 DEF Partial
  <2> QED
    BY <2>1, <2>2 DEF Partial
<1>9. StopsIn(ks) = {} <=> StopsIn(ms) = {}
  <2>1. ASSUME NEW s \in StopsIn(ks) PROVE StopsIn(ms) # {}
    BY <1>4, <1>5
  <2>2. ASSUME NEW s \in StopsIn(ms) PROVE StopsIn(ks) # {}
    <3>1. PICK k \in 1 .. n : e[k] = s
      BY <1>1, <1>5
    <3> QED
      BY <1>4, <3>1
  <2> QED
    BY <2>1, <2>2
<1>10. Qualifiers(ks) = Qualifiers(ms)
  BY <1>7, <1>8, <1>9 DEF Qualifiers
<1>11. CurrentlyStopped(ks) = CurrentlyStopped(ms)
  BY <1>7, <1>9 DEF CurrentlyStopped
<1>12. ClosingDates(ks, 0) = ClosingDates(ms, 0)
  <2>1. ASSUME NEW s \in StopsIn(ks) PROVE ks[s].at \in ClosingDates(ms, 0)
    BY <1>2, <1>4, <1>5 DEF ClosingDates
  <2>2. ASSUME NEW s \in StopsIn(ms) PROVE ms[s].at \in ClosingDates(ks, 0)
    <3>1. PICK k \in 1 .. n : e[k] = s
      BY <1>1, <1>5
    <3>2. k \in StopsIn(ks) /\ ks[k].at = ms[s].at
      BY <1>2, <1>4, <3>1
    <3> QED
      BY <3>2 DEF ClosingDates
  <2> QED
    BY <2>1, <2>2 DEF ClosingDates
<1>13. ASSUME NEW o \in 1 .. n PROVE ClosingDates(ks, o) = ClosingDates(ms, e[o])
  <2>0. o # 0 /\ e[o] # 0
    BY <1>2 DEF KnownIn
  <2>1. ASSUME NEW s \in StopsIn(ks), SortsBefore(ks, o, s) PROVE ks[s].at \in ClosingDates(ms, e[o])
    BY <1>2, <1>4, <1>5, <1>6, <2>1 DEF ClosingDates
  <2>2. ASSUME NEW s \in StopsIn(ms), SortsBefore(ms, e[o], s) PROVE ms[s].at \in ClosingDates(ks, o)
    <3>1. PICK k \in 1 .. n : e[k] = s
      BY <1>1, <1>5
    <3>2. k \in StopsIn(ks) /\ ks[k].at = ms[s].at /\ SortsBefore(ks, o, k)
      BY <1>2, <1>4, <1>6, <2>2, <3>1
    <3> QED
      BY <3>2 DEF ClosingDates
  <2> QED
    BY <2>0, <2>1, <2>2 DEF ClosingDates
<1>14. \A o \in 1 .. n : o \in Openings(ks) <=> e[o] \in Openings(ms)
  <2> SUFFICES ASSUME NEW o \in 1 .. n PROVE o \in Openings(ks) <=> e[o] \in Openings(ms)
    OBVIOUS
  <2> DEFINE Opens(es, c) == \E s \in StopsIn(es) :
                 /\ SortsBefore(es, s, c)
                 /\ \A k \in KnownIn(es) : ~(SortsBefore(es, s, k) /\ SortsBefore(es, k, c))
  <2>0. o # 0 /\ e[o] # 0
    BY <1>2 DEF KnownIn
  <2>1. /\ o \in Openings(ks) <=> o \in ClassicalIn(ks) /\ Opens(ks, o)
        /\ e[o] \in Openings(ms) <=> e[o] \in ClassicalIn(ms) /\ Opens(ms, e[o])
    BY <2>0 DEF Openings
  <2>2. ASSUME Opens(ks, o) PROVE Opens(ms, e[o])
    <3>1. PICK s \in StopsIn(ks) :
                 /\ SortsBefore(ks, s, o)
                 /\ \A k \in KnownIn(ks) : ~(SortsBefore(ks, s, k) /\ SortsBefore(ks, k, o))
      BY <2>2
    <3>2. s \in 1 .. n /\ e[s] \in StopsIn(ms) /\ SortsBefore(ms, e[s], e[o])
      BY <1>4, <1>5, <1>6, <3>1
    <3>3. ASSUME NEW i \in KnownIn(ms)
          PROVE  ~(SortsBefore(ms, e[s], i) /\ SortsBefore(ms, i, e[o]))
      <4>1. PICK k \in 1 .. n : e[k] = i
        BY <1>1
      <4>2. ~(SortsBefore(ks, s, k) /\ SortsBefore(ks, k, o))
        BY <1>3, <3>1
      <4> QED
        BY <1>6, <3>2, <4>1, <4>2
    <3> QED
      BY <3>2, <3>3
  <2>3. ASSUME Opens(ms, e[o]) PROVE Opens(ks, o)
    <3>1. PICK i \in StopsIn(ms) :
                 /\ SortsBefore(ms, i, e[o])
                 /\ \A j \in KnownIn(ms) : ~(SortsBefore(ms, i, j) /\ SortsBefore(ms, j, e[o]))
      BY <2>3
    <3>2. PICK s \in 1 .. n : e[s] = i
      BY <1>1, <1>5
    <3>3. s \in StopsIn(ks) /\ SortsBefore(ks, s, o)
      BY <1>4, <1>6, <3>1, <3>2
    <3>4. ASSUME NEW k \in KnownIn(ks) PROVE ~(SortsBefore(ks, s, k) /\ SortsBefore(ks, k, o))
      BY <1>2, <1>3, <1>6, <3>1, <3>2
    <3> QED
      BY <3>3, <3>4
  <2> QED
    BY <1>4, <2>1, <2>2, <2>3
<1>15. \A start, asOf : ExposureIntervals(ks, start, asOf) = ExposureIntervals(ms, start, asOf)
  <2> SUFFICES ASSUME NEW start, NEW asOf
               PROVE  ExposureIntervals(ks, start, asOf) = ExposureIntervals(ms, start, asOf)
    OBVIOUS
  <2> DEFINE Span(es, o) == [lo |-> IF o = 0 THEN start ELSE es[o].at,
                             hi |-> EarliestOf({asOf} \union ClosingDates(es, o))]
  <2>1. /\ ExposureIntervals(ks, start, asOf) = {w \in {Span(ks, o) : o \in Openings(ks)} : w.lo <= w.hi}
        /\ ExposureIntervals(ms, start, asOf) = {w \in {Span(ms, o) : o \in Openings(ms)} : w.lo <= w.hi}
    BY DEF ExposureIntervals
  <2>2. Span(ks, 0) = Span(ms, 0)
    BY <1>12
  <2>3. ASSUME NEW o \in 1 .. n PROVE Span(ks, o) = Span(ms, e[o])
    <3>1. o # 0 /\ e[o] # 0 /\ ks[o].at = ms[e[o]].at
      BY <1>2 DEF KnownIn
    <3> QED
      BY <1>13, <3>1
  <2> HIDE DEF Span
  <2>4. Openings(ks) \subseteq {0} \union 1 .. n /\ Openings(ms) \subseteq {0} \union KnownIn(ms)
        /\ 0 \in Openings(ks) /\ 0 \in Openings(ms)
    BY <1>5 DEF Openings
  <2>5. {Span(ks, o) : o \in Openings(ks)} = {Span(ms, o) : o \in Openings(ms)}
    <3>1. ASSUME NEW o \in Openings(ks) PROVE \E i \in Openings(ms) : Span(ks, o) = Span(ms, i)
      BY <1>14, <2>2, <2>3, <2>4
    <3>2. ASSUME NEW i \in Openings(ms) PROVE \E o \in Openings(ks) : Span(ks, o) = Span(ms, i)
      <4>1. CASE i = 0
        BY <2>2, <2>4, <4>1
      <4>2. CASE i # 0
        <5>1. PICK o \in 1 .. n : e[o] = i
          BY <1>1, <2>4, <4>2
        <5> QED
          BY <1>14, <2>3, <5>1
      <4> QED
        BY <4>1, <4>2
    <3> QED
      BY <3>1, <3>2
  <2> QED
    BY <2>1, <2>5
<1>16. ASSUME NEW start, NEW deadline, NEW asOf
       PROVE  WindowsOf(ks, start, deadline, asOf) = WindowsOf(ms, start, deadline, asOf)
  BY <1>15 DEF WindowsOf
<1> QED
  BY <1>10, <1>11, <1>16 DEF ks

(* A configuration file stops nothing: without its INFERRED evidence every *)
(* row has the band, the windows, the qualifiers and the conditional band  *)
(* it has with it, for timelines of any length (KNOWN only, in             *)
(* _sorted_known and the walk over it).                                    *)
THEOREM ConfigurationsStopNothing == Spec => []ConfigurationStopsNothing
<1>1. HistoryInv => ConfigurationStopsNothing
  <2> SUFFICES ASSUME HistoryInv, NEW row \in Rows
               PROVE  LET alone == Evaluate([row.inputs EXCEPT
                                       !.migrations = KnownOnly(row.inputs.migrations)])
                      IN  /\ row.band = alone.band /\ row.windows = alone.windows
                          /\ row.qualifiers = alone.qualifiers
                          /\ row.conditional = alone.conditional
    BY DEF ConfigurationStopsNothing
  <2> DEFINE inputs == row.inputs
             known == KnownOnly(inputs.migrations)
             other == [inputs EXCEPT !.migrations = known]
  <2>1. row = Evaluate(inputs) /\ Documented(inputs)
    BY RowsAreRecords
  <2> HIDE DEF inputs
  <2>2. inputs \in Inputs /\ inputs.migrations \in Seq(Events)
    BY <2>1 DEF Documented, Inputs
  <2>3. /\ Qualifiers(known) = Qualifiers(inputs.migrations)
        /\ CurrentlyStopped(known) = CurrentlyStopped(inputs.migrations)
        /\ \A start, deadline, asOf :
              WindowsOf(known, start, deadline, asOf)
                = WindowsOf(inputs.migrations, start, deadline, asOf)
    BY <2>2, KnownIsRead
  <2> HIDE DEF known
  <2>4. /\ other.asOf = inputs.asOf /\ other.z = inputs.z /\ other.policy = inputs.policy
        /\ other.context = inputs.context /\ other.temporal = inputs.temporal
        /\ other.binding = inputs.binding /\ other.migrations = known
    BY <2>2 DEF Inputs
  <2> HIDE DEF other
  <2>5. StartDate(other) = StartDate(inputs)
    BY <2>4 DEF StartDate
  <2>6. WindowsOf(known, StartDate(inputs), Deadline(inputs.binding, inputs.z), inputs.asOf)
          = WindowsOf(inputs.migrations, StartDate(inputs), Deadline(inputs.binding, inputs.z), inputs.asOf)
    BY <2>3
  <2>7. /\ Evaluate(inputs).band = Evaluate(other).band
        /\ Evaluate(inputs).windows = Evaluate(other).windows
        /\ Evaluate(inputs).qualifiers = Evaluate(other).qualifiers
        /\ Evaluate(inputs).conditional = Evaluate(other).conditional
    BY <2>3, <2>4, <2>5, <2>6 DEF Evaluate, Unbounded
  <2> QED
    BY <2>1, <2>7 DEF inputs, other, known
<1> QED
  BY <1>1, HistoryIsInductive, PTL
=============================================================================
