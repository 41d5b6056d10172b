----------------------------- MODULE ClosureProofs -----------------------------
(***************************************************************************)
(* The closure engine, for every set of rows, cited lifetimes and          *)
(* scenarios, and whatever the operator answers: the rows stay observed    *)
(* LedgerInputs; an answer takes its input off the row and no band is lost *)
(* again; what a task promises is at least as bad as what is found; and a  *)
(* row that has lost nothing under some Z has lost nothing under a later   *)
(* one.                                                                    *)
(***************************************************************************)
EXTENDS Closure, FiniteSetTheorems, WellFoundedInduction, TLAPS

-----------------------------------------------------------------------------
(* What a row of the confidentiality ledger holds. *)

(* A set of dates that is not empty has an earliest one. *)
LEMMA EarliestExists ==
    ASSUME NEW S \in SUBSET Nat, S # {}
    PROVE  /\ EarliestOf(S) \in S
           /\ \A e \in S : EarliestOf(S) <= e
<1>1. PICK x \in S : \A y \in S : <<y, x>> \notin OpToRel(<, Nat)
  BY NatLessThanWellFounded, WFMin, Zenon
<1>2. \A y \in S : ~(y < x)
  BY <1>1 DEF OpToRel
<1>3. \A y \in S : x <= y
  BY <1>2
<1> QED
  BY <1>3 DEF EarliestOf

WindowsFor(inputs) ==
    WindowsOf(inputs.migrations, StartDate(inputs),
              Deadline(inputs.binding, inputs.z), inputs.asOf)
BandOf(inputs) ==
    BandFor(ShorBroken(inputs.context), CurrentlyStopped(inputs.migrations),
            WindowsFor(inputs), Deadline(inputs.binding, inputs.z), inputs.asOf)
Decided(inputs) ==
    /\ inputs.context.fnState # "UNKNOWN" /\ inputs.binding # None
    /\ StartDate(inputs) # None
    /\ InferredInputs(inputs.context) = {} \/ inputs.policy.acceptInferred
    /\ ShorBroken(inputs.context) # None

(* Only a decided row has a band other than UNBOUNDED. *)
LEMMA BandedIsDecided ==
    ASSUME NEW inputs, Evaluate(inputs).band # "UNBOUNDED"
    PROVE  Decided(inputs)
BY DEF Evaluate, Unbounded, Decided

(* What a decided row holds. *)
LEMMA DecidedIs ==
    ASSUME NEW inputs, Decided(inputs)
    PROVE  /\ Evaluate(inputs).start = StartDate(inputs)
           /\ Evaluate(inputs).deadline = Deadline(inputs.binding, inputs.z)
           /\ Evaluate(inputs).band = BandOf(inputs)
           /\ Evaluate(inputs).band # "UNBOUNDED"
           /\ Evaluate(inputs).conditional = None
           /\ Evaluate(inputs).windows =
                 IF BandOf(inputs) \in {"BLEEDING", "UNSAVABLE"}
                   THEN WindowsFor(inputs) ELSE {}
<1>1. Evaluate(inputs) =
         [band |-> BandOf(inputs), qualifiers |-> Qualifiers(inputs.migrations),
          windows |-> IF BandOf(inputs) \in {"BLEEDING", "UNSAVABLE"}
                        THEN WindowsFor(inputs) ELSE {},
          deadline |-> Deadline(inputs.binding, inputs.z), conditional |-> None,
          start |-> StartDate(inputs), inputs |-> inputs]
  BY DEF Evaluate, Decided, BandOf, WindowsFor
<1>2. BandOf(inputs) # "UNBOUNDED"
  BY DEF BandOf, BandFor
<1> QED
  BY <1>1, <1>2

-----------------------------------------------------------------------------
(* Two rows that differ in Z only. *)

(* An interval has two dates. *)
LEMMA IntervalType ==
    ASSUME NEW ms, \A i \in DOMAIN ms : ms[i].at \in Nat,
           NEW start \in Nat, NEW asOf \in Nat,
           NEW w \in ExposureIntervals(ms, start, asOf)
    PROVE  w.lo \in Nat /\ w.hi \in Nat
<1>1. PICK o \in Openings(ms) :
          w = [lo |-> IF o = 0 THEN start ELSE ms[o].at,
               hi |-> EarliestOf({asOf} \union ClosingDates(ms, o))]
  BY DEF ExposureIntervals
<1>2. o = 0 \/ o \in DOMAIN ms
  BY DEF Openings, ClassicalIn, KnownIn
<1>3. ClosingDates(ms, o) \subseteq Nat
  BY DEF ClosingDates, StopsIn, KnownIn
<1> DEFINE S == {asOf} \union ClosingDates(ms, o)
<1>4. S \in SUBSET Nat /\ S # {}
  BY <1>3
<1> HIDE DEF S
<1>5. EarliestOf(S) \in Nat
  BY <1>4, EarliestExists
<1> QED
  BY <1>1, <1>2, <1>5 DEF S

(* What is lost after a deadline is lost after an earlier one. *)
LEMMA EarlierDeadlineLosesMore ==
    ASSUME NEW ms, \A i \in DOMAIN ms : ms[i].at \in Nat,
           NEW start \in Nat, NEW asOf \in Nat,
           NEW late \in Int, NEW early \in Int, early <= late,
           WindowsOf(ms, start, late, asOf) # {}
    PROVE  WindowsOf(ms, start, early, asOf) # {}
<1>1. PICK i \in ExposureIntervals(ms, start, asOf) :
          Larger(i.lo, late) < Smaller(i.hi, asOf)
  BY DEF WindowsOf
<1>2. i.lo \in Nat /\ i.hi \in Nat
  BY IntervalType
<1>3. Larger(i.lo, early) < Smaller(i.hi, asOf)
  BY <1>1, <1>2 DEF Larger, Smaller
<1> DEFINE w == [lo |-> Larger(i.lo, early), hi |-> Smaller(i.hi, asOf)]
<1>4. w \in WindowsOf(ms, start, early, asOf)
  BY <1>3 DEF WindowsOf
<1> QED
  BY <1>4

Lost(record) == record.band \in {"BLEEDING", "UNSAVABLE"}

(* The inputs a deadline is compared with are numbers. *)
Numbered(inputs) ==
    /\ inputs.asOf \in Nat /\ inputs.z \in Int
    /\ inputs.binding # None => inputs.binding \in Nat
    /\ StartDate(inputs) # None => StartDate(inputs) \in Nat
    /\ \A i \in DOMAIN inputs.migrations : inputs.migrations[i].at \in Nat
    /\ inputs.context.family \in {TRUE, FALSE, None}

(* Of two rows that differ in Z only, the one with the later Z has lost    *)
(* nothing the other has not (compute_ledger, risk/sensitivity.py).        *)
LEMMA LaterZLosesNoMoreOf ==
    ASSUME NEW late, NEW early, Numbered(late), Numbered(early),
           early.z < late.z,
           early.asOf = late.asOf, early.policy = late.policy,
           early.context = late.context, early.temporal = late.temporal,
           early.binding = late.binding, early.migrations = late.migrations,
           Lost(Evaluate(late))
    PROVE  Lost(Evaluate(early))
<1> DEFINE ms == late.migrations
           start == StartDate(late)
           asOf == late.asOf
           D == Deadline(late.binding, late.z)
           E == Deadline(early.binding, early.z)
           stopped == CurrentlyStopped(ms)
<1>1. Decided(late)
  BY BandedIsDecided DEF Lost
<1>2. StartDate(early) = start
  BY DEF StartDate
<1>3. Decided(early)
  BY <1>1, <1>2 DEF Decided
<1>4. /\ start \in Nat /\ asOf \in Nat /\ D \in Int /\ E \in Int /\ E < D
      /\ \A i \in DOMAIN ms : ms[i].at \in Nat
  BY <1>1 DEF Numbered, Decided, Deadline
<1>5. stopped \in BOOLEAN
  BY DEF CurrentlyStopped
<1>6. Lost([band |-> BandOf(late)])
  BY <1>1, DecidedIs DEF Lost
<1>7. ShorBroken(late.context) = TRUE
  <2>1. ShorBroken(late.context) \in {TRUE, FALSE}
    BY <1>1 DEF ShorBroken, Numbered, Decided
  <2>2. CASE ShorBroken(late.context) = FALSE
    BY <1>6, <2>2 DEF Lost, BandOf, BandFor
  <2> QED
    BY <2>1, <2>2
<1>8. BandOf(late) = BandFor(TRUE, stopped, WindowsOf(ms, start, D, asOf), D, asOf)
  BY <1>7 DEF BandOf, WindowsFor
<1>9. BandOf(early) = BandFor(TRUE, stopped, WindowsOf(ms, start, E, asOf), E, asOf)
  BY <1>2, <1>7 DEF BandOf, WindowsFor
<1> DEFINE lost == WindowsOf(ms, start, D, asOf)
           more == WindowsOf(ms, start, E, asOf)
<1>10. lost # {} => more # {}
  <2>1. E <= D
    BY <1>4
  <2> HIDE DEF D, E, start, asOf, ms
  <2> QED
    BY <1>4, <2>1, EarlierDeadlineLosesMore
<1> HIDE DEF lost, more, D, E, start, asOf, stopped, ms
<1>11. BandFor(TRUE, stopped, lost, D, asOf) \in {"BLEEDING", "UNSAVABLE"}
  <2>1. BandOf(late) \in {"BLEEDING", "UNSAVABLE"}
    BY <1>6 DEF Lost
  <2> QED
    BY <1>8, <2>1 DEF lost, D, start, asOf, stopped, ms
<1>12. BandFor(TRUE, stopped, more, E, asOf) \in {"BLEEDING", "UNSAVABLE"}
  <2>1. CASE stopped
    <3>1. lost # {}
      BY <1>11, <2>1 DEF BandFor
    <3> QED
      BY <1>10, <2>1, <3>1 DEF BandFor
  <2>2. CASE ~stopped
    <3>1. asOf > D
      BY <1>4, <1>11, <2>2 DEF BandFor
    <3>2. asOf > E
      BY <1>4, <3>1
    <3> QED
      BY <1>4, <2>2, <3>2 DEF BandFor
  <2> QED
    BY <1>5, <2>1, <2>2
<1>13. BandOf(early) \in {"BLEEDING", "UNSAVABLE"}
  BY <1>9, <1>12 DEF more, E, start, asOf, stopped, ms
<1> QED
  BY <1>3, <1>13, DecidedIs DEF Lost

-----------------------------------------------------------------------------
(* The rows of the queue. *)

Keys == {"function", "algorithm_family", "inferred_algorithm", "inferred_function",
         "data_class_binding", "start_confirmed", "start_possible",
         "migration_observation", "signed_at", "authenticity_lifetime"}

(* Only what the catalogue names is asked for. *)
LEMMA MissingAreKeys == ASSUME NEW inputs PROVE MissingInputs(inputs) \subseteq Keys
<1>1. AuthMissing(inputs) \subseteq Keys /\ ConfidentialityMissing(inputs) \subseteq Keys
  BY DEF AuthMissing, ConfidentialityMissing, InferredMissing, Keys
<1> QED
  BY <1>1 DEF MissingInputs, BlockingInputs, Keys

(* The earliest of some dates, when there is one, is a date. *)
LEMMA EarliestDateType ==
    ASSUME NEW fields \in SUBSET DateFields
    PROVE  EarliestDate(fields) \in Nat \union {None}
<1> DEFINE dated == {f.value : f \in fields \ {None}}
<1>1. dated \in SUBSET Nat
  BY DEF DateFields
<1> HIDE DEF dated
<1>2. dated # {} => EarliestOf(dated) \in Nat
  BY <1>1, EarliestExists
<1> QED
  BY <1>2 DEF EarliestDate, dated

LEMMA DatesType ==
    ASSUME NEW inputs \in LedgerInputs
    PROVE  /\ PossibleSince(inputs.temporal) \in Nat \union {None}
           /\ StartDate(inputs) \in Nat \union {None}
           /\ AdmissibleDates(inputs) \subseteq Nat
           /\ inputs.asOf \in Nat
<1> DEFINE t == inputs.temporal
           possible == {t.notBefore, t.goLive, t.snapshot, t.firstObserved}
           confirmed == {f \in {t.firstObserved} \ {None} : f.state = "KNOWN"}
                        \union {f \in {t.goLive} \ {None} :
                                   /\ inputs.policy.acceptGoLive
                                   /\ f.state \in {"DECLARED", "KNOWN"}}
<1>1. /\ t.notBefore \in DateFields /\ t.goLive \in DateFields
      /\ t.snapshot \in DateFields /\ t.firstObserved \in DateFields
      /\ inputs.policy.since \in Nat \union {None} /\ inputs.asOf \in Nat
  BY DEF LedgerInputs, TemporalType, PolicyType
<1>2. possible \in SUBSET DateFields /\ confirmed \in SUBSET DateFields
  BY <1>1
<1>3. /\ PossibleSince(t) = EarliestDate(possible)
      /\ ConfirmedSince(t, inputs.policy.acceptGoLive) = EarliestDate(confirmed)
  BY DEF PossibleSince, ConfirmedSince
<1> HIDE DEF possible, confirmed, t
<1>4. /\ PossibleSince(t) \in Nat \union {None}
      /\ ConfirmedSince(t, inputs.policy.acceptGoLive) \in Nat \union {None}
  BY <1>2, <1>3, EarliestDateType
<1>5. StartDate(inputs) \in Nat \union {None}
  BY <1>1, <1>4 DEF StartDate, t
<1>6. AdmissibleDates(inputs) \subseteq Nat
  <2>1. PossibleDates(inputs) # {} => PossibleSince(t) \in Nat
    BY <1>4 DEF PossibleDates, t
  <2> QED
    BY <1>1, <2>1 DEF AdmissibleDates, t
<1> QED
  BY <1>1, <1>4, <1>5, <1>6 DEF t

-----------------------------------------------------------------------------
(* An answer leaves LedgerInputs. *)

LEMMA NewContext ==
    ASSUME NEW inputs \in LedgerInputs, NEW context \in ContextType
    PROVE  [inputs EXCEPT !.context = context] \in LedgerInputs
BY DEF LedgerInputs

LEMMA NewTemporal ==
    ASSUME NEW inputs \in LedgerInputs, NEW temporal \in TemporalType
    PROVE  [inputs EXCEPT !.temporal = temporal] \in LedgerInputs
BY DEF LedgerInputs

LEMMA DatedType ==
    ASSUME NEW day \in Nat, NEW state \in EpistemicState
    PROVE  Dated(day, state) \in DateFields
<1>1. [value |-> day, state |-> state] \in [value : Nat, state : EpistemicState]
  OBVIOUS
<1> QED
  BY <1>1, Zenon DEF Dated, DateFields

LEMMA ContextAnswers ==
    ASSUME NEW inputs \in LedgerInputs,
           NEW key \in {"function", "algorithm_family", "inferred_function",
                        "inferred_algorithm"},
           NEW answer \in Answers(key, inputs)
    PROVE  answer \in LedgerInputs
<1>0. inputs.context \in ContextType
  BY DEF LedgerInputs
<1> DEFINE c == inputs.context
<1>1. ASSUME NEW context \in ContextType, answer = [inputs EXCEPT !.context = context]
      PROVE  answer \in LedgerInputs
  BY <1>1, NewContext
<1>2. CASE key = "function"
  <2>1. PICK fn \in {"KEY_ESTABLISHMENT", "HYBRID_KEX", "SIGNATURE_AUTH"} :
            answer = [inputs EXCEPT !.context = [c EXCEPT !.fn = fn, !.fnState = "KNOWN"]]
    BY <1>2 DEF Answers, Classified
  <2> DEFINE context == [c EXCEPT !.fn = fn, !.fnState = "KNOWN"]
  <2>2. context \in ContextType
    BY <1>0 DEF ContextType, EpistemicState, CryptoFunction
  <2>3. answer = [inputs EXCEPT !.context = context]
    BY <2>1, Zenon
  <2> HIDE DEF context
  <2> QED
    BY <1>1, <2>2, <2>3
<1>3. CASE key = "algorithm_family"
  <2>1. PICK broken \in BOOLEAN :
            answer = [inputs EXCEPT
                         !.context = [c EXCEPT !.family = broken, !.familyState = "KNOWN"]]
    BY <1>3 DEF Answers, AlgorithmCandidates, WithFamily
  <2> DEFINE context == [c EXCEPT !.family = broken, !.familyState = "KNOWN"]
  <2>2. context \in ContextType
    BY <1>0 DEF ContextType, EpistemicState, CryptoFunction
  <2>3. answer = [inputs EXCEPT !.context = context]
    BY <2>1, Zenon
  <2> HIDE DEF context
  <2> QED
    BY <1>1, <2>2, <2>3
<1>4. ASSUME NEW field \in {"fnState", "familyState"}, answer = Certain(inputs, field)
      PROVE  answer \in LedgerInputs
  <2> DEFINE context == [c EXCEPT ![field] = "KNOWN"]
  <2>1. context \in ContextType
    BY <1>0 DEF ContextType, EpistemicState, CryptoFunction
  <2>2. answer = [inputs EXCEPT !.context = context]
    BY <1>4, Zenon DEF Certain
  <2> HIDE DEF context
  <2> QED
    BY <1>1, <2>1, <2>2
<1>5. CASE key = "inferred_function"
  <2>1. answer = Certain(inputs, "fnState")
    BY <1>5 DEF Answers
  <2> QED
    BY <1>4, <2>1
<1>6. CASE key = "inferred_algorithm"
  <2>1. answer = Certain(inputs, "familyState")
    BY <1>6 DEF Answers
  <2> QED
    BY <1>4, <2>1
<1> QED
  BY <1>2, <1>3, <1>5, <1>6

LEMMA DateAnswers ==
    ASSUME NEW inputs \in LedgerInputs,
           NEW key \in {"start_confirmed", "start_possible", "signed_at",
                        "migration_observation"},
           NEW answer \in Answers(key, inputs)
    PROVE  answer \in LedgerInputs
<1>1. ASSUME NEW field \in {"notBefore", "goLive", "firstObserved"}, NEW day \in Nat,
             NEW state \in {"KNOWN", "DECLARED"},
             answer = [inputs EXCEPT
                          !.temporal = [inputs.temporal EXCEPT ![field] = Dated(day, state)]]
      PROVE  answer \in LedgerInputs
  <2>1. Dated(day, state) \in DateFields
    BY DatedType DEF EpistemicState
  <2>2. inputs.temporal \in TemporalType
    BY DEF LedgerInputs
  <2>3. [inputs.temporal EXCEPT ![field] = Dated(day, state)] \in TemporalType
    BY <2>1, <2>2 DEF TemporalType
  <2> DEFINE temporal == [inputs.temporal EXCEPT ![field] = Dated(day, state)]
  <2>4. answer = [inputs EXCEPT !.temporal = temporal]
    BY <1>1, Zenon
  <2> HIDE DEF temporal
  <2>5. temporal \in TemporalType
    BY <2>3 DEF temporal
  <2> QED
    BY <2>4, <2>5, NewTemporal
<1>2. CASE key = "start_confirmed"
  BY <1>1, <1>2, DatesType DEF Answers, Stated
<1>3. CASE key = "start_possible"
  BY <1>1, <1>3, DatesType DEF Answers, Stated
<1>4. CASE key = "signed_at"
  <2>1. PICK day \in Nat : answer = [inputs EXCEPT !.signedAt = day]
    BY <1>4, DatesType DEF Answers
  <2> QED
    BY <2>1 DEF LedgerInputs
<1>5. CASE key = "migration_observation"
  <2> DEFINE ms == inputs.migrations
             t == inputs.temporal
             now == inputs.asOf
             Seen(m, accepted) == [m EXCEPT !.status = "KNOWN", !.at = now,
                                            !.classical = accepted]
  <2> DEFINE Probe(accepted) ==
                 [i \in DOMAIN ms |-> IF ~IsClaim(ms[i]) THEN ms[i] ELSE Seen(ms[i], accepted)]
             observed == IF t.firstObserved # None THEN t
                         ELSE [t EXCEPT !.firstObserved = Dated(inputs.asOf, "KNOWN")]
  <2>1. PICK accepted \in BOOLEAN :
            answer = [inputs EXCEPT !.migrations = Probe(accepted), !.temporal = observed]
    BY <1>5 DEF Answers, Probed
  <2>2. ms \in Seq(EventType) /\ inputs.asOf \in Nat /\ t \in TemporalType
    BY DEF LedgerInputs
  <2>3. Probe(accepted) \in Seq(EventType)
    <3>1. Len(ms) \in Nat /\ DOMAIN ms = 1 .. Len(ms)
      BY <2>2
    <3>2. ASSUME NEW m \in EventType PROVE Seen(m, accepted) \in EventType
      <4>1. now \in Nat
        BY <2>2
      <4> HIDE DEF now
      <4> QED
        BY <4>1 DEF EventType, EpistemicState
    <3>3. \A i \in 1 .. Len(ms) : ms[i] \in EventType
      BY <2>2
    <3> HIDE DEF Seen
    <3>4. \A i \in 1 .. Len(ms) :
             (IF ~IsClaim(ms[i]) THEN ms[i] ELSE Seen(ms[i], accepted)) \in EventType
      BY <3>2, <3>3
    <3>5. Probe(accepted) \in [1 .. Len(ms) -> EventType]
      BY <3>1, <3>4
    <3> QED
      BY <3>5
  <2>4. observed \in TemporalType
    <3>1. Dated(inputs.asOf, "KNOWN") \in DateFields
      BY <2>2, DatedType DEF EpistemicState
    <3> QED
      BY <2>2, <3>1 DEF TemporalType
  <2> HIDE DEF Probe, observed
  <2> QED
    BY <2>1, <2>3, <2>4 DEF LedgerInputs
<1> QED
  BY <1>2, <1>3, <1>4, <1>5

LEMMA LifetimeAnswers ==
    ASSUME NEW inputs \in LedgerInputs,
           NEW key \in {"data_class_binding", "authenticity_lifetime"},
           NEW answer \in Answers(key, inputs)
    PROVE  answer \in LedgerInputs
<1>1. CASE key = "data_class_binding"
  <2>1. PICK x \in Lifetimes :
            answer = [inputs EXCEPT !.binding = x, !.authenticity = None]
    BY <1>1 DEF Answers, WithBinding
  <2>2. x \in Nat
    BY CitedAssumption
  <2> QED
    BY <2>1, <2>2 DEF LedgerInputs
<1>2. CASE key = "authenticity_lifetime"
  <2>1. PICK a \in Authenticities :
            answer = [inputs EXCEPT !.binding = 0, !.authenticity = a]
    BY <1>2 DEF Answers
  <2>2. a \in Nat
    BY CitedAssumption
  <2> QED
    BY <2>1, <2>2 DEF LedgerInputs
<1> QED
  BY <1>1, <1>2

LEMMA AnswersAreInputs ==
    ASSUME NEW inputs \in LedgerInputs, NEW key \in Keys, NEW answer \in Answers(key, inputs)
    PROVE  answer \in LedgerInputs
BY ContextAnswers, DateAnswers, LifetimeAnswers DEF Keys

RowsInv == rows \in [Rows -> LedgerInputs \union {None}]

(* Whatever the operator collects or refutes, each row is LedgerInputs or  *)
(* gone.                                                                   *)
THEOREM RowsAreInputs == Spec => []RowsInv
<1>1. Init => RowsInv
  BY SubjectAssumption DEF Init, RowsInv
<1>2. RowsInv /\ [Next]_vars => RowsInv'
  <2> SUFFICES ASSUME RowsInv, [Next]_vars PROVE RowsInv'
    OBVIOUS
  <2>1. ASSUME NEW task \in Heads
        PROVE  /\ task.key \in Keys /\ task.rows \subseteq Rows
               /\ \A r \in task.rows : rows[r] \in LedgerInputs
    <3>1. PICK r \in Rows : \E key \in MissingInputs(rows[r]) : task = TaskOf(key)
      BY DEF Heads, Queue
    <3>2. PICK key \in MissingInputs(rows[r]) : task = TaskOf(key)
      BY <3>1
    <3>3. key \in Keys
      BY MissingAreKeys
    <3>4. task.key = key /\ task.rows = Waiting(key)
      BY <3>2 DEF TaskOf
    <3> QED
      BY <3>3, <3>4 DEF Waiting, RowsInv
  <2>2. CASE Collect
    <3>1. PICK task \in Heads : \E r \in task.rows :
              \E answer \in Answers(task.key, rows[r]) : rows' = [rows EXCEPT ![r] = answer]
      BY <2>2 DEF Collect
    <3>2. PICK r \in task.rows :
              \E answer \in Answers(task.key, rows[r]) : rows' = [rows EXCEPT ![r] = answer]
      BY <3>1
    <3>3. PICK answer \in Answers(task.key, rows[r]) : rows' = [rows EXCEPT ![r] = answer]
      BY <3>2
    <3>4. answer \in LedgerInputs
      BY <2>1, AnswersAreInputs
    <3> QED
      BY <3>3, <3>4 DEF RowsInv
  <2>3. CASE Refute
    BY <2>3 DEF Refute, RowsInv
  <2>4. CASE UNCHANGED vars
    BY <2>4 DEF vars, RowsInv
  <2> QED
    BY <2>2, <2>3, <2>4 DEF Next
<1> QED
  BY <1>1, <1>2, PTL DEF Spec

-----------------------------------------------------------------------------
(* The row under another Z. *)

LostRank(record) == BandRank(record.band) <= 1

(* A signature that must be made again under some Z must be under an       *)
(* earlier one.                                                            *)
LEMMA LaterZResignsNoMore ==
    ASSUME NEW inputs \in LedgerInputs, IsAuth(inputs), NEW y \in Int, NEW z \in Int, y < z,
           LostRank(UnderScenario(inputs, z))
    PROVE  LostRank(UnderScenario(inputs, y))
<1> DEFINE At(d) == [inputs EXCEPT !.z = d]
<1>1. \A d \in Int : /\ At(d).z = d /\ At(d).context = inputs.context
                     /\ At(d).authenticity = inputs.authenticity
                     /\ At(d).signedAt = inputs.signedAt /\ At(d).policy = inputs.policy
  BY DEF LedgerInputs
<1>2. \A d \in Int : UnderScenario(inputs, d) = AuthEvaluate(At(d))
  BY <1>1 DEF UnderScenario, RecordOf, IsAuth
<1> HIDE DEF At
<1> DEFINE Resigns(d) ==
        /\ inputs.context.fnState # "UNKNOWN"
        /\ inputs.authenticity # None /\ inputs.authenticity # 0 /\ inputs.signedAt # None
        /\ ~(inputs.context.fnState = "INFERRED" /\ ~inputs.policy.acceptInferred)
        /\ inputs.signedAt + inputs.authenticity > d
<1>3. ASSUME NEW d \in Int, LostRank(AuthEvaluate(At(d))) PROVE Resigns(d)
  <2>1. AuthEvaluate(At(d)).band = "RESIGN_BEFORE_Z"
    BY <1>3 DEF LostRank, BandRank, AuthEvaluate, AuthRecord, AuthBand
  <2> QED
    BY <1>1, <2>1 DEF AuthEvaluate, AuthRecord, AuthBand, RequiredUntil
<1>4. ASSUME NEW d \in Int, Resigns(d) PROVE LostRank(AuthEvaluate(At(d)))
  BY <1>1, <1>4 DEF LostRank, BandRank, AuthEvaluate, AuthRecord, AuthBand, RequiredUntil
<1>5. Resigns(z)
  BY <1>2, <1>3
<1>6. Resigns(y)
  BY <1>5 DEF LedgerInputs
<1> QED
  BY <1>2, <1>4, <1>6

LEMMA LaterZBleedsNoMore ==
    ASSUME NEW inputs \in LedgerInputs, ~IsAuth(inputs), NEW y \in Int, NEW z \in Int, y < z,
           LostRank(UnderScenario(inputs, z))
    PROVE  LostRank(UnderScenario(inputs, y))
<1> DEFINE At(d) == [inputs EXCEPT !.z = d]
<1>1. ASSUME NEW d \in Int
      PROVE  /\ At(d).z = d /\ At(d).context = inputs.context
             /\ At(d).asOf = inputs.asOf /\ At(d).policy = inputs.policy
             /\ At(d).temporal = inputs.temporal /\ At(d).binding = inputs.binding
             /\ At(d).migrations = inputs.migrations /\ At(d) \in LedgerInputs
  BY DEF LedgerInputs
<1>2. \A d \in Int : UnderScenario(inputs, d) = Evaluate(At(d))
  BY <1>1 DEF UnderScenario, RecordOf, IsAuth
<1> HIDE DEF At
<1>3. ASSUME NEW d \in Int PROVE Numbered(At(d))
  <2>1. StartDate(At(d)) \in Nat \union {None}
    BY <1>1, DatesType
  <2>2. /\ inputs.asOf \in Nat /\ inputs.binding \in Nat \union {None}
        /\ inputs.context.family \in {TRUE, FALSE, None}
    BY DEF LedgerInputs, ContextType
  <2>3. \A i \in DOMAIN inputs.migrations : inputs.migrations[i].at \in Nat
    <3>1. inputs.migrations \in Seq(EventType)
      BY DEF LedgerInputs
    <3>2. \A i \in DOMAIN inputs.migrations : inputs.migrations[i] \in EventType
      BY <3>1
    <3> QED
      BY <3>2 DEF EventType
  <2> QED
    BY <1>1, <2>1, <2>2, <2>3 DEF Numbered
<1>4. Evaluate(At(z)).band \in
          {"UNBOUNDED", "BLEEDING", "UNSAVABLE", "SAVABLE", "SAFE"}
  BY DEF Evaluate, Unbounded, BandFor
<1>5. Lost(Evaluate(At(z)))
  BY <1>2, <1>4 DEF Lost, LostRank, BandRank
<1>6. Lost(Evaluate(At(y)))
  BY <1>1, <1>3, <1>5, LaterZLosesNoMoreOf
<1> QED
  BY <1>2, <1>6 DEF Lost, LostRank, BandRank

(* A flip between scenarios goes one way, for every row the operator's     *)
(* answers lead to (risk/sensitivity.py): what is not lost under some Z is *)
(* not lost under a later one.                                             *)
THEOREM FlipsGoOneWay == Spec => []LaterZLosesNoMore
<1>1. RowsInv => LaterZLosesNoMore
  <2> SUFFICES ASSUME RowsInv, NEW r \in Rows, rows[r] # None,
                      NEW y \in Scenarios, NEW z \in Scenarios, y < z,
                      BandRank(UnderScenario(rows[r], z).band) <= 1
               PROVE  BandRank(UnderScenario(rows[r], y).band) <= 1
    BY DEF LaterZLosesNoMore
  <2>1. rows[r] \in LedgerInputs /\ y \in Int /\ z \in Int
    BY CitedAssumption DEF RowsInv
  <2> QED
    BY <2>1, LaterZResignsNoMore, LaterZBleedsNoMore DEF LostRank
<1> QED
  BY <1>1, RowsAreInputs, PTL
-----------------------------------------------------------------------------
(* What an answer takes off a row. *)

(* An input a row is asked for is one it does not have. *)
LEMMA MissingMeans ==
    ASSUME NEW inputs, NEW key \in MissingInputs(inputs)
    PROVE  /\ key # "migration_observation" => RecordOf(inputs).band = "UNBOUNDED"
           /\ key = "migration_observation" => Claims(inputs.migrations) # {}
           /\ key = "function" => inputs.context.fnState = "UNKNOWN"
           /\ key \in {"signed_at", "authenticity_lifetime"} => IsAuth(inputs)
           /\ key = "authenticity_lifetime" => inputs.authenticity = None
           /\ key = "signed_at" => inputs.authenticity # None /\ inputs.signedAt = None
           /\ key = "inferred_function" => inputs.context.fnState = "INFERRED"
           /\ key = "inferred_algorithm" => inputs.context.familyState = "INFERRED"
           /\ key \in {"data_class_binding", "start_confirmed", "start_possible",
                        "inferred_algorithm", "algorithm_family"} =>
                 ~IsAuth(inputs) /\ inputs.context.fnState # "UNKNOWN"
           /\ key = "data_class_binding" => inputs.binding = None
           /\ key \in {"start_confirmed", "start_possible"} =>
                 inputs.binding # None /\ RecordOf(inputs).start = None
           /\ key = "start_possible" => inputs.policy.mode = "SINCE_POSSIBLE"
           /\ key = "start_confirmed" => inputs.policy.mode # "SINCE_POSSIBLE"
           /\ key = "algorithm_family" =>
                 /\ inputs.binding # None /\ RecordOf(inputs).start # None
                 /\ InferredMissing(inputs.context) = {}
<1>1. key = "migration_observation" \/ key \in BlockingInputs(inputs)
  BY DEF MissingInputs
<1>2. key = "migration_observation" => Claims(inputs.migrations) # {}
  <2>1. "migration_observation" \notin BlockingInputs(inputs)
    BY DEF BlockingInputs, AuthMissing, ConfidentialityMissing, InferredMissing
  <2> QED
    BY <2>1 DEF MissingInputs
<1>3. CASE key \in BlockingInputs(inputs) /\ inputs.context.fnState = "UNKNOWN"
  BY <1>3 DEF BlockingInputs
<1>4. CASE /\ key \in BlockingInputs(inputs) /\ inputs.context.fnState # "UNKNOWN"
           /\ IsAuth(inputs)
  <2>1. key \in AuthMissing(inputs) /\ RecordOf(inputs).band = "UNBOUNDED"
    BY <1>4 DEF BlockingInputs
  <2> QED
    BY <1>4, <2>1 DEF AuthMissing
<1>5. CASE /\ key \in BlockingInputs(inputs) /\ inputs.context.fnState # "UNKNOWN"
           /\ ~IsAuth(inputs)
  <2>1. key \in ConfidentialityMissing(inputs) /\ RecordOf(inputs).band = "UNBOUNDED"
    BY <1>5 DEF BlockingInputs
  <2>2. CASE inputs.binding = None
    BY <1>5, <2>1, <2>2 DEF ConfidentialityMissing
  <2>3. CASE inputs.binding # None /\ RecordOf(inputs).start = None
    BY <1>5, <2>1, <2>3 DEF ConfidentialityMissing
  <2>4. CASE /\ inputs.binding # None /\ RecordOf(inputs).start # None
             /\ InferredMissing(inputs.context) # {}
    <3>1. key \in InferredMissing(inputs.context)
      BY <2>1, <2>4 DEF ConfidentialityMissing
    <3> QED
      BY <1>5, <2>1, <3>1 DEF InferredMissing
  <2>5. CASE /\ inputs.binding # None /\ RecordOf(inputs).start # None
             /\ InferredMissing(inputs.context) = {}
    BY <1>5, <2>1, <2>5 DEF ConfidentialityMissing
  <2> QED
    BY <2>2, <2>3, <2>4, <2>5
<1>6. CASE key = "migration_observation"
  BY <1>2, <1>6
<1> QED
  BY <1>1, <1>3, <1>4, <1>5, <1>6

(* The start of a row that has a usage and a lifetime is its StartDate. *)
LEMMA StartOf ==
    ASSUME NEW inputs, ~IsAuth(inputs), inputs.context.fnState # "UNKNOWN",
           inputs.binding # None
    PROVE  RecordOf(inputs).start = StartDate(inputs)
BY DEF RecordOf, Evaluate, Unbounded

(* A date that is among the fields is no earlier than the earliest. *)
LEMMA EarliestDateIs ==
    ASSUME NEW fields \in SUBSET DateFields, NEW f \in fields, f # None
    PROVE  /\ EarliestDate(fields) \in Nat /\ EarliestDate(fields) <= f.value
           /\ \E g \in fields : g # None /\ EarliestDate(fields) = g.value
<1> DEFINE dated == {g.value : g \in fields \ {None}}
<1>1. dated \in SUBSET Nat /\ f.value \in dated
  BY DEF DateFields
<1>2. EarliestDate(fields) = EarliestOf(dated)
  BY <1>1 DEF EarliestDate
<1> HIDE DEF dated
<1>3. /\ EarliestDate(fields) \in dated
      /\ \A d \in dated : EarliestDate(fields) <= d
  BY <1>1, <1>2, EarliestExists
<1> QED
  BY <1>1, <1>3 DEF dated

(* A missing start asked for under a mode of its own. *)
LEMMA StartAnswered ==
    ASSUME NEW inputs \in LedgerInputs, NEW key \in {"start_confirmed", "start_possible"},
           key \in MissingInputs(inputs), NEW answer \in Answers(key, inputs)
    PROVE  /\ answer.context = inputs.context /\ answer.binding = inputs.binding
           /\ StartDate(answer) \in Nat
<1> DEFINE t == inputs.temporal
<1>1. t \in TemporalType /\ inputs.policy \in PolicyType /\ inputs.asOf \in Nat
  BY DEF LedgerInputs
<1>2. \A day \in Nat : \A state \in {"KNOWN", "DECLARED"} :
         /\ Dated(day, state) \in DateFields /\ Dated(day, state) # None
         /\ Dated(day, state).state = state
  <2> SUFFICES ASSUME NEW day \in Nat, NEW state \in {"KNOWN", "DECLARED"}
               PROVE  /\ Dated(day, state) \in DateFields /\ Dated(day, state) # None
                      /\ Dated(day, state).state = state
    OBVIOUS
  <2>1. Dated(day, state) \in [value : Nat, state : EpistemicState]
    BY DEF Dated, EpistemicState
  <2> QED
    BY <2>1, NoneAssumption DEF Dated, DateFields
<1>3. AdmissibleDates(inputs) \subseteq Nat
  BY DatesType
<1>4. CASE key = "start_possible"
  <2>1. PICK day \in AdmissibleDates(inputs) :
          answer = [inputs EXCEPT !.temporal = [t EXCEPT !.notBefore = Dated(day, "KNOWN")]]
    BY <1>4 DEF Answers, Stated
  <2> DEFINE d == Dated(day, "KNOWN")
             u == [t EXCEPT !.notBefore = d]
  <2>2. d \in DateFields /\ d # None
    BY <1>2, <1>3
  <2> HIDE DEF d
  <2>3. u \in TemporalType /\ u.notBefore = d
    BY <1>1, <2>2 DEF TemporalType
  <2>4. answer.temporal = u /\ answer.policy = inputs.policy
        /\ answer.context = inputs.context /\ answer.binding = inputs.binding
    BY <2>1 DEF LedgerInputs, d
  <2> HIDE DEF u
  <2>5. PossibleSince(u) \in Nat
    <3> DEFINE fields == {u.notBefore, u.goLive, u.snapshot, u.firstObserved}
    <3>1. fields \in SUBSET DateFields /\ d \in fields
      BY <2>3 DEF TemporalType
    <3>2. PossibleSince(u) = EarliestDate(fields)
      BY DEF PossibleSince
    <3> HIDE DEF fields
    <3> QED
      BY <2>2, <3>1, <3>2, EarliestDateIs
  <2>6. answer.policy.mode = "SINCE_POSSIBLE"
    BY <1>4, <2>4, MissingMeans
  <2>7. StartDate(answer) = PossibleSince(u)
    BY <2>4, <2>6 DEF StartDate
  <2> QED
    BY <2>4, <2>5, <2>7
<1>5. CASE key = "start_confirmed"
  <2>0. StartDate(inputs) = None /\ inputs.policy.mode # "SINCE_POSSIBLE"
    BY <1>5, MissingMeans, StartOf
  <2>1. inputs.policy.mode = "SINCE_CONFIRMED"
    BY <1>1, <2>0 DEF StartDate, PolicyType
  <2>2. ASSUME NEW field \in {"firstObserved", "goLive"}, NEW day \in Nat,
               NEW state \in {"KNOWN", "DECLARED"},
               field = "firstObserved" => state = "KNOWN",
               field = "goLive" => inputs.policy.acceptGoLive,
               answer = [inputs EXCEPT !.temporal = [t EXCEPT ![field] = Dated(day, state)]]
        PROVE  /\ answer.context = inputs.context /\ answer.binding = inputs.binding
               /\ StartDate(answer) \in Nat
    <3> DEFINE d == Dated(day, state)
               u == [t EXCEPT ![field] = d]
    <3>1. d \in DateFields /\ d # None /\ d.state = state
      BY <1>2
    <3>2. answer.temporal = u /\ answer.policy = inputs.policy
          /\ answer.context = inputs.context /\ answer.binding = inputs.binding
      BY <2>2 DEF LedgerInputs
    <3> HIDE DEF d
    <3>3. u \in TemporalType /\ u[field] = d
      BY <1>1, <3>1 DEF TemporalType
    <3> HIDE DEF u
    <3> DEFINE fields == {f \in {u.firstObserved} \ {None} : f.state = "KNOWN"}
                         \union {f \in {u.goLive} \ {None} :
                                    /\ inputs.policy.acceptGoLive
                                    /\ f.state \in {"DECLARED", "KNOWN"}}
    <3>4. fields \in SUBSET DateFields
      BY <3>3 DEF TemporalType
    <3>5. d \in fields
      BY <2>2, <3>1, <3>3
    <3>6. StartDate(answer) = EarliestDate(fields)
      BY <2>1, <3>2 DEF StartDate, ConfirmedSince
    <3> HIDE DEF fields
    <3> QED
      BY <3>1, <3>2, <3>4, <3>5, <3>6, EarliestDateIs
  <2> QED
    BY <1>1, <1>3, <1>5, <2>2 DEF Answers, Stated
<1> QED
  BY <1>4, <1>5

(* A field more leaves the earliest date, or is it. *)
LEMMA OneMoreDate ==
    ASSUME NEW fields \in SUBSET DateFields, NEW d \in DateFields, d # None,
           EarliestDate(fields) # None
    PROVE  EarliestDate(fields \union {d}) \in {EarliestDate(fields), d.value}
<1>1. PICK f \in fields : f # None
  BY DEF EarliestDate
<1>2. PICK h \in fields : h # None /\ EarliestDate(fields) = h.value
  BY <1>1, EarliestDateIs
<1> DEFINE more == fields \union {d}
<1>3. more \in SUBSET DateFields /\ d \in more /\ h \in more
  OBVIOUS
<1>4. PICK g \in more : g # None /\ EarliestDate(more) = g.value
  BY <1>3, EarliestDateIs
<1>5. EarliestDate(more) <= h.value
  BY <1>2, <1>3, EarliestDateIs
<1> HIDE DEF more
<1>6. CASE g = d
  BY <1>4, <1>6 DEF more
<1>7. CASE g \in fields
  <2>1. EarliestDate(fields) <= g.value
    BY <1>4, <1>7, EarliestDateIs
  <2>2. g.value \in Nat /\ h.value \in Nat
    BY <1>2, <1>4, <1>7 DEF DateFields
  <2>3. EarliestDate(more) = EarliestDate(fields)
    BY <1>2, <1>4, <1>5, <2>1, <2>2
  <2> QED
    BY <2>3 DEF more
<1> QED
  BY <1>4, <1>6, <1>7 DEF more

(* What a probe leaves as it was, and what it finds. *)
LEMMA ProbedIs ==
    ASSUME NEW inputs \in LedgerInputs, NEW answer \in Probed(inputs)
    PROVE  /\ answer.asOf = inputs.asOf /\ answer.z = inputs.z
           /\ answer.context = inputs.context /\ answer.policy = inputs.policy
           /\ answer.binding = inputs.binding /\ answer.signedAt = inputs.signedAt
           /\ answer.authenticity = inputs.authenticity
           /\ DOMAIN answer.migrations = DOMAIN inputs.migrations
           /\ \A i \in DOMAIN inputs.migrations :
                 IF IsClaim(inputs.migrations[i])
                   THEN /\ answer.migrations[i].status = "KNOWN"
                        /\ answer.migrations[i].at = inputs.asOf
                   ELSE answer.migrations[i] = inputs.migrations[i]
           /\ inputs.temporal.firstObserved # None => answer.temporal = inputs.temporal
           /\ inputs.temporal.firstObserved = None =>
                 answer.temporal =
                    [inputs.temporal EXCEPT !.firstObserved = Dated(inputs.asOf, "KNOWN")]
<1> DEFINE ms == inputs.migrations
           t == inputs.temporal
           Seen(m, accepted) == [m EXCEPT !.status = "KNOWN", !.at = inputs.asOf,
                                          !.classical = accepted]
           Probe(accepted) ==
               [i \in DOMAIN ms |-> IF ~IsClaim(ms[i]) THEN ms[i] ELSE Seen(ms[i], accepted)]
           observed == IF t.firstObserved # None THEN t
                       ELSE [t EXCEPT !.firstObserved = Dated(inputs.asOf, "KNOWN")]
<1>1. PICK accepted \in BOOLEAN :
          answer = [inputs EXCEPT !.migrations = Probe(accepted), !.temporal = observed]
  BY DEF Probed
<1>2. \A m \in EventType : /\ Seen(m, accepted).status = "KNOWN"
                           /\ Seen(m, accepted).at = inputs.asOf
  BY DEF EventType
<1>3. \A i \in DOMAIN ms : ms[i] \in EventType
  BY DEF LedgerInputs
<1> HIDE DEF Seen
<1>4. /\ DOMAIN Probe(accepted) = DOMAIN ms
      /\ \A i \in DOMAIN ms :
            IF IsClaim(ms[i])
              THEN Probe(accepted)[i].status = "KNOWN" /\ Probe(accepted)[i].at = inputs.asOf
              ELSE Probe(accepted)[i] = ms[i]
  BY <1>2, <1>3
<1>5. /\ t.firstObserved # None => observed = t
      /\ t.firstObserved = None =>
            observed = [t EXCEPT !.firstObserved = Dated(inputs.asOf, "KNOWN")]
  OBVIOUS
<1> HIDE DEF Probe, observed
<1>6. /\ answer.migrations = Probe(accepted) /\ answer.temporal = observed
      /\ answer.asOf = inputs.asOf /\ answer.z = inputs.z
      /\ answer.context = inputs.context /\ answer.policy = inputs.policy
      /\ answer.binding = inputs.binding /\ answer.signedAt = inputs.signedAt
      /\ answer.authenticity = inputs.authenticity
  BY <1>1 DEF LedgerInputs
<1> QED
  BY <1>4, <1>5, <1>6

(* A probe starts a surface no earlier than before, or on the day of it. *)
LEMMA ProbedStart ==
    ASSUME NEW inputs \in LedgerInputs, NEW answer \in Probed(inputs),
           StartDate(inputs) # None
    PROVE  StartDate(answer) \in {StartDate(inputs), inputs.asOf}
<1> DEFINE t == inputs.temporal
           u == answer.temporal
           d == Dated(inputs.asOf, "KNOWN")
<1>1. t \in TemporalType /\ inputs.policy \in PolicyType /\ inputs.asOf \in Nat
  BY DEF LedgerInputs
<1>2. answer.policy = inputs.policy
  BY ProbedIs
<1>3. d \in DateFields /\ d # None /\ d.state = "KNOWN" /\ d.value = inputs.asOf
  <2>1. d \in [value : Nat, state : EpistemicState]
    BY <1>1 DEF Dated, EpistemicState
  <2> QED
    BY <2>1, NoneAssumption DEF Dated, DateFields
<1>4. CASE t.firstObserved # None
  <2>1. u = t
    BY <1>4, ProbedIs
  <2> QED
    BY <1>2, <2>1 DEF StartDate
<1>5. CASE t.firstObserved = None
  <2>1. u = [t EXCEPT !.firstObserved = d]
    BY <1>5, ProbedIs
  <2> HIDE DEF d
  <2>2. /\ u.firstObserved = d /\ u.notBefore = t.notBefore
        /\ u.goLive = t.goLive /\ u.snapshot = t.snapshot
    BY <1>1, <2>1 DEF TemporalType
  <2> HIDE DEF u
  <2>3. CASE inputs.policy.mode = "SINCE_DATE"
    BY <1>2, <2>3 DEF StartDate
  <2>4. CASE inputs.policy.mode = "SINCE_POSSIBLE"
    <3> DEFINE fields == {t.notBefore, t.goLive, t.snapshot, t.firstObserved}
               fields2 == {u.notBefore, u.goLive, u.snapshot, u.firstObserved}
    <3>1. fields \in SUBSET DateFields
      BY <1>1 DEF TemporalType
    <3>2. fields2 \ {None} = (fields \union {d}) \ {None}
      BY <1>5, <2>2
    <3>3. StartDate(inputs) = EarliestDate(fields) /\ StartDate(answer) = EarliestDate(fields2)
      BY <1>2, <2>4 DEF StartDate, PossibleSince, u
    <3> HIDE DEF fields, fields2
    <3>4. EarliestDate(fields2) = EarliestDate(fields \union {d})
      BY <3>2 DEF EarliestDate
    <3> QED
      BY <1>3, <3>1, <3>3, <3>4, OneMoreDate
  <2>5. CASE inputs.policy.mode \notin {"SINCE_DATE", "SINCE_POSSIBLE"}
    <3> DEFINE lives == {f \in {t.goLive} \ {None} :
                            /\ inputs.policy.acceptGoLive
                            /\ f.state \in {"DECLARED", "KNOWN"}}
               fields == {f \in {t.firstObserved} \ {None} : f.state = "KNOWN"} \union lives
               fields2 == {f \in {u.firstObserved} \ {None} : f.state = "KNOWN"} \union lives
    <3>1. fields \in SUBSET DateFields
      BY <1>1 DEF TemporalType
    <3>2. fields2 = fields \union {d}
      BY <1>3, <1>5, <2>2
    <3>3. StartDate(inputs) = EarliestDate(fields) /\ StartDate(answer) = EarliestDate(fields2)
      BY <1>2, <2>2, <2>5 DEF StartDate, ConfirmedSince, u
    <3> HIDE DEF fields, fields2
    <3> QED
      BY <1>3, <3>1, <3>2, <3>3, OneMoreDate
  <2> QED
    BY <2>3, <2>4, <2>5
<1> QED
  BY <1>4, <1>5

(* The answer to a task is not asked for again. *)
LEMMA AnswerTakesTheInput ==
    ASSUME NEW inputs \in LedgerInputs, NEW key \in Keys, key \in MissingInputs(inputs),
           NEW answer \in Answers(key, inputs)
    PROVE  key \notin MissingInputs(answer)
<1> SUFFICES ASSUME key \in MissingInputs(answer) PROVE FALSE
  OBVIOUS
<1>0. inputs.context \in ContextType /\ answer \in LedgerInputs
  BY AnswersAreInputs DEF LedgerInputs
<1> DEFINE c == inputs.context
<1>1. CASE key = "function"
  <2>1. PICK fn \in {"KEY_ESTABLISHMENT", "HYBRID_KEX", "SIGNATURE_AUTH"} :
            answer = [inputs EXCEPT !.context = [c EXCEPT !.fn = fn, !.fnState = "KNOWN"]]
    BY <1>1 DEF Answers, Classified
  <2>2. answer.context.fnState = "KNOWN"
    BY <1>0, <2>1 DEF LedgerInputs, ContextType
  <2> QED
    BY <1>1, <2>2, MissingMeans
<1>2. CASE key = "algorithm_family"
  <2>1. PICK broken \in BOOLEAN :
            answer = [inputs EXCEPT
                         !.context = [c EXCEPT !.family = broken, !.familyState = "KNOWN"]]
    BY <1>2 DEF Answers, AlgorithmCandidates, WithFamily
  <2>2. /\ answer.context.familyState = "KNOWN" /\ answer.context.family = broken
        /\ answer.context.fnState = c.fnState /\ answer.context.fn = c.fn
        /\ answer.binding = inputs.binding /\ answer.temporal = inputs.temporal
        /\ answer.policy = inputs.policy
    BY <1>0, <2>1 DEF LedgerInputs, ContextType
  <2>3. /\ ~IsAuth(inputs) /\ c.fnState # "UNKNOWN" /\ inputs.binding # None
        /\ RecordOf(inputs).start # None /\ InferredMissing(c) = {}
    BY <1>2, MissingMeans
  <2>4. StartDate(answer) # None
    <3>1. StartDate(inputs) # None
      BY <2>3, StartOf
    <3> QED
      BY <2>2, <3>1 DEF StartDate
  <2>5. c.fnState # "INFERRED"
    BY <2>3 DEF InferredMissing
  <2>6. InferredInputs(answer.context) = {}
    BY <2>2, <2>5 DEF InferredInputs
  <2>7. ShorBroken(answer.context) # None
    BY <2>2, NoneAssumption DEF ShorBroken
  <2>8. Evaluate(answer).band # "UNBOUNDED"
    BY <2>2, <2>3, <2>4, <2>6, <2>7, DecidedIs DEF Decided
  <2>9. RecordOf(answer) = Evaluate(answer)
    BY <2>2, <2>3 DEF RecordOf, IsAuth
  <2>10. RecordOf(answer).band = "UNBOUNDED"
    BY <1>2, MissingMeans
  <2> QED
    BY <2>8, <2>9, <2>10
<1>3. CASE key = "inferred_function"
  <2>1. answer = [inputs EXCEPT !.context = [c EXCEPT !["fnState"] = "KNOWN"]]
    BY <1>3 DEF Answers, Certain
  <2>2. answer.context.fnState = "KNOWN"
    BY <1>0, <2>1 DEF LedgerInputs, ContextType
  <2> QED
    BY <1>3, <2>2, MissingMeans
<1>4. CASE key = "inferred_algorithm"
  <2>1. answer = [inputs EXCEPT !.context = [c EXCEPT !["familyState"] = "KNOWN"]]
    BY <1>4 DEF Answers, Certain
  <2>2. answer.context.familyState = "KNOWN"
    BY <1>0, <2>1 DEF LedgerInputs, ContextType
  <2> QED
    BY <1>4, <2>2, MissingMeans
<1>5. CASE key = "data_class_binding"
  <2>1. PICK x \in Lifetimes : answer = WithBinding(inputs, x)
    BY <1>5 DEF Answers
  <2>2. answer.binding = x /\ x # None
    BY <2>1, CitedAssumption, NoneAssumption DEF WithBinding, LedgerInputs
  <2> QED
    BY <1>5, <2>2, MissingMeans
<1>6. CASE key \in {"start_confirmed", "start_possible"}
  <2>1. StartDate(answer) \in Nat
    BY <1>6, StartAnswered
  <2>2. /\ ~IsAuth(answer) /\ answer.context.fnState # "UNKNOWN"
        /\ answer.binding # None /\ RecordOf(answer).start = None
    BY <1>6, MissingMeans
  <2>3. StartDate(answer) = None
    BY <2>2, StartOf
  <2> QED
    BY <2>1, <2>3, NoneAssumption
<1>7. CASE key = "migration_observation"
  <2>1. answer \in Probed(inputs)
    BY <1>7 DEF Answers
  <2>2. PICK i \in DOMAIN answer.migrations : IsClaim(answer.migrations[i])
    BY <1>7, MissingMeans DEF Claims
  <2>3. i \in DOMAIN inputs.migrations
    BY <2>1, <2>2, ProbedIs
  <2>4. IF IsClaim(inputs.migrations[i])
          THEN answer.migrations[i].status = "KNOWN"
          ELSE answer.migrations[i] = inputs.migrations[i]
    BY <2>1, <2>3, ProbedIs
  <2> QED
    BY <2>2, <2>4 DEF IsClaim
<1>8. CASE key = "signed_at"
  <2>1. PICK day \in AdmissibleDates(inputs) : answer = [inputs EXCEPT !.signedAt = day]
    BY <1>8 DEF Answers
  <2>2. answer.signedAt = day /\ day # None
    BY <2>1, DatesType, NoneAssumption DEF LedgerInputs
  <2> QED
    BY <1>8, <2>2, MissingMeans
<1>9. CASE key = "authenticity_lifetime"
  <2>1. PICK a \in Authenticities : answer = [inputs EXCEPT !.binding = 0, !.authenticity = a]
    BY <1>9 DEF Answers
  <2>2. answer.authenticity = a /\ a # None
    BY <2>1, CitedAssumption, NoneAssumption DEF LedgerInputs
  <2> QED
    BY <1>9, <2>2, MissingMeans
<1> QED
  BY <1>1, <1>2, <1>3, <1>4, <1>5, <1>6, <1>7, <1>8, <1>9 DEF Keys

(* A probe does not take a band back. *)
LEMMA ProbedStaysBounded ==
    ASSUME NEW inputs \in LedgerInputs, NEW answer \in Probed(inputs),
           RecordOf(inputs).band # "UNBOUNDED"
    PROVE  RecordOf(answer).band # "UNBOUNDED"
<1>1. /\ answer.z = inputs.z /\ answer.context = inputs.context
      /\ answer.policy = inputs.policy /\ answer.binding = inputs.binding
      /\ answer.signedAt = inputs.signedAt /\ answer.authenticity = inputs.authenticity
  BY ProbedIs
<1>2. IsAuth(answer) <=> IsAuth(inputs)
  BY <1>1 DEF IsAuth
<1>3. CASE IsAuth(inputs)
  <2>1. AuthBand(answer) = AuthBand(inputs)
    BY <1>1 DEF AuthBand, RequiredUntil
  <2>2. AuthEvaluate(answer).band = AuthEvaluate(inputs).band
    BY <1>1, <2>1 DEF AuthEvaluate, AuthRecord
  <2> QED
    BY <1>2, <1>3, <2>2 DEF RecordOf
<1>4. CASE ~IsAuth(inputs)
  <2>1. Decided(inputs)
    BY <1>4, BandedIsDecided DEF RecordOf
  <2>2. StartDate(answer) # None
    <3>1. StartDate(inputs) # None /\ inputs.asOf \in Nat
      BY <2>1 DEF Decided, LedgerInputs
    <3> QED
      BY <3>1, ProbedStart, NoneAssumption
  <2>3. Decided(answer)
    BY <1>1, <2>1, <2>2 DEF Decided
  <2> QED
    BY <1>2, <1>4, <2>3, DecidedIs DEF RecordOf
<1> QED
  BY <1>3, <1>4

(* The rows of a task wait on its key. *)
LEMMA HeadsAre ==
    ASSUME RowsInv, NEW task \in Queue
    PROVE  /\ task.key \in Keys /\ task.rows = Waiting(task.key)
           /\ task = TaskOf(task.key)
           /\ \A r \in task.rows : /\ r \in Rows /\ rows[r] # None /\ rows[r] \in LedgerInputs
                                   /\ task.key \in MissingInputs(rows[r])
<1>1. PICK r \in Rows : \E key \in MissingInputs(rows[r]) : task = TaskOf(key)
  BY DEF Queue
<1>2. PICK key \in MissingInputs(rows[r]) : task = TaskOf(key)
  BY <1>1
<1>3. key \in Keys
  BY MissingAreKeys
<1>4. task.key = key /\ task.rows = Waiting(key)
  BY <1>2 DEF TaskOf
<1> QED
  BY <1>2, <1>3, <1>4 DEF Waiting, RowsInv

(* What is known is not asked for again, and no answer turns a band back   *)
(* to UNBOUNDED (_missing_inputs and the bands it is read beside).         *)
THEOREM AnswersAreKept == Spec => AnswersLast
<1> DEFINE Kept == \A r \in Rows :
          rows'[r] # rows[r] /\ rows'[r] # None =>
              /\ MissingInputs(rows[r]) \ MissingInputs(rows'[r]) # {}
              /\ RecordOf(rows[r]).band # "UNBOUNDED" => RecordOf(rows'[r]).band # "UNBOUNDED"
<1>1. RowsInv /\ Next => Kept
  <2> SUFFICES ASSUME RowsInv, Next, NEW q \in Rows, rows'[q] # rows[q], rows'[q] # None
               PROVE  /\ MissingInputs(rows[q]) \ MissingInputs(rows'[q]) # {}
                      /\ RecordOf(rows[q]).band # "UNBOUNDED" =>
                            RecordOf(rows'[q]).band # "UNBOUNDED"
    OBVIOUS
  <2>1. CASE Collect
    <3>1. PICK task \in Heads : \E r \in task.rows :
              \E answer \in Answers(task.key, rows[r]) : rows' = [rows EXCEPT ![r] = answer]
      BY <2>1 DEF Collect
    <3>2. PICK r \in task.rows :
              \E answer \in Answers(task.key, rows[r]) : rows' = [rows EXCEPT ![r] = answer]
      BY <3>1
    <3>3. PICK answer \in Answers(task.key, rows[r]) : rows' = [rows EXCEPT ![r] = answer]
      BY <3>2
    <3>4. /\ task.key \in Keys /\ r \in Rows /\ rows[r] \in LedgerInputs
          /\ task.key \in MissingInputs(rows[r])
      BY HeadsAre DEF Heads
    <3>5. q = r /\ rows'[q] = answer
      BY <3>3, <3>4 DEF RowsInv
    <3>6. task.key \notin MissingInputs(answer)
      BY <3>4, AnswerTakesTheInput
    <3>7. ASSUME RecordOf(rows[r]).band # "UNBOUNDED" PROVE RecordOf(answer).band # "UNBOUNDED"
      <4>1. task.key = "migration_observation"
        BY <3>4, <3>7, MissingMeans
      <4>2. answer \in Probed(rows[r])
        BY <4>1 DEF Answers
      <4> QED
        BY <3>4, <3>7, <4>2, ProbedStaysBounded
    <3> QED
      BY <3>4, <3>5, <3>6, <3>7
  <2>2. CASE Refute
    <3>1. PICK task \in Heads : \E r \in task.rows : rows' = [rows EXCEPT ![r] = None]
      BY <2>2 DEF Refute
    <3>2. PICK r \in task.rows : rows' = [rows EXCEPT ![r] = None]
      BY <3>1
    <3> QED
      BY <3>2 DEF RowsInv
  <2> QED
    BY <2>1, <2>2 DEF Next
<1>2. RowsInv /\ [Next]_vars => [Kept]_vars
  BY <1>1
<1> QED
  BY <1>2, RowsAreInputs, PTL DEF Spec, AnswersLast

-----------------------------------------------------------------------------
(* The largest of some numbers. *)

(* Numbers under a bound have a largest one. *)
LEMMA MaxExists ==
    ASSUME NEW S \in SUBSET Nat, S # {}, NEW b \in Nat, \A s \in S : s <= b
    PROVE  /\ MaxOf(S) \in S
           /\ \A s \in S : s <= MaxOf(S)
<1> DEFINE T == {b - s : s \in S}
<1>1. T \in SUBSET Nat /\ T # {}
  <2>1. \A s \in S : b - s \in Nat
    OBVIOUS
  <2> QED
    BY <2>1
<1> HIDE DEF T
<1>2. EarliestOf(T) \in T /\ \A e \in T : EarliestOf(T) <= e
  BY <1>1, EarliestExists
<1>3. PICK m \in S : EarliestOf(T) = b - m
  BY <1>2 DEF T
<1>4. \A s \in S : b - m <= b - s
  BY <1>2, <1>3 DEF T
<1>5. \A s \in S : s <= m
  BY <1>4
<1> QED
  BY <1>5 DEF MaxOf

(* Finitely many numbers have a bound. *)
LEMMA FiniteBound ==
    ASSUME NEW R, IsFiniteSet(R), NEW f \in [R -> Nat]
    PROVE  \E b \in Nat : \A r \in R : f[r] <= b
<1>1. PICK n \in Nat : ExistsBijection(1 .. n, R)
  BY FS_NatBijection
<1>2. PICK g \in [1 .. n -> R] : \A r \in R : \E k \in 1 .. n : g[k] = r
  BY <1>1 DEF ExistsBijection, Bijection, Surjection
<1> DEFINE p == [k \in 1 .. n |-> f[g[k]]]
           bad == {k \in 0 .. n : \A b \in Nat : ~(\A j \in 1 .. k : p[j] <= b)}
<1>3. p \in [1 .. n -> Nat] /\ \A k \in 1 .. n : p[k] = f[g[k]]
  BY <1>2
<1> HIDE DEF p
<1>4. bad \in SUBSET Nat
  OBVIOUS
<1>5. \A k \in 0 .. n : k \notin bad <=> \E b \in Nat : \A j \in 1 .. k : p[j] <= b
  OBVIOUS
<1>6. bad \subseteq 0 .. n
  OBVIOUS
<1> HIDE DEF bad
<1>7. bad = {}
  <2> SUFFICES ASSUME bad # {} PROVE FALSE
    OBVIOUS
  <2> DEFINE k == EarliestOf(bad)
  <2>1. k \in bad /\ \A j \in bad : k <= j
    BY <1>4, EarliestExists
  <2> HIDE DEF k
  <2>2. k \in 0 .. n
    BY <1>6, <2>1
  <2>3. k # 0
    <3>1. \A j \in 1 .. 0 : p[j] <= 0
      OBVIOUS
    <3>2. 0 \in 0 .. n /\ 0 \in Nat
      OBVIOUS
    <3>3. 0 \notin bad
      BY <1>5, <3>1, <3>2
    <3> QED
      BY <2>1, <3>3
  <2>4. k \in 1 .. n /\ k - 1 \in 0 .. n /\ k - 1 \notin bad
    <3>1. k \in 1 .. n /\ k - 1 \in 0 .. n /\ ~(k <= k - 1)
      BY <2>2, <2>3
    <3> QED
      BY <2>1, <3>1
  <2>5. PICK b \in Nat : \A j \in 1 .. (k - 1) : p[j] <= b
    BY <1>5, <2>4
  <2>6. PICK c \in Nat : b <= c /\ p[k] <= c
    <3>1. p[k] \in Nat
      BY <1>3, <2>4
    <3>2. CASE p[k] <= b
      BY <3>2
    <3>3. CASE b <= p[k]
      BY <3>1, <3>3
    <3> QED
      BY <3>1, <3>2, <3>3
  <2>7. ASSUME NEW j \in 1 .. k PROVE p[j] <= c
    <3>1. j \in 1 .. n /\ (j = k \/ j \in 1 .. (k - 1))
      BY <2>4
    <3>2. p[j] \in Nat
      BY <1>3, <3>1
    <3> QED
      BY <2>5, <2>6, <3>1, <3>2
  <2> QED
    BY <1>5, <2>1, <2>2, <2>7
<1>8. n \in 0 .. n
  OBVIOUS
<1>9. PICK b \in Nat : \A j \in 1 .. n : p[j] <= b
  BY <1>5, <1>7, <1>8
<1> QED
  BY <1>2, <1>3, <1>9

-----------------------------------------------------------------------------
(* The band and the windows of any inputs a task tries. *)

LEMMA InputsAreNumbered == ASSUME NEW inputs \in LedgerInputs PROVE Numbered(inputs)
<1>1. StartDate(inputs) \in Nat \union {None}
  BY DatesType
<1>2. /\ inputs.asOf \in Nat /\ inputs.z \in Int /\ inputs.binding \in Nat \union {None}
      /\ inputs.context.family \in {TRUE, FALSE, None}
  BY DEF LedgerInputs, ContextType
<1>3. \A i \in DOMAIN inputs.migrations : inputs.migrations[i].at \in Nat
  <2>1. inputs.migrations \in Seq(EventType)
    BY DEF LedgerInputs
  <2>2. \A i \in DOMAIN inputs.migrations : inputs.migrations[i] \in EventType
    BY <2>1
  <2> QED
    BY <2>2 DEF EventType
<1> QED
  BY <1>1, <1>2, <1>3 DEF Numbered

LEMMA BandsAre ==
    ASSUME NEW inputs
    PROVE  /\ RecordOf(inputs).band \in
                 {"UNBOUNDED", "BLEEDING", "UNSAVABLE", "SAVABLE", "SAFE",
                  "RESIGN_BEFORE_Z", "ROTATE_BEFORE_Z", "SAFE_UNTIL_Z"}
           /\ BandRank(RecordOf(inputs).band) \in 0 .. 4
<1>1. AuthBand(inputs) \in {"RESIGN_BEFORE_Z", "ROTATE_BEFORE_Z", "SAFE_UNTIL_Z"}
  BY DEF AuthBand
<1>2. AuthEvaluate(inputs).band \in
         {"UNBOUNDED", "RESIGN_BEFORE_Z", "ROTATE_BEFORE_Z", "SAFE_UNTIL_Z"}
  BY <1>1 DEF AuthEvaluate, AuthRecord
<1>3. Evaluate(inputs).band \in {"UNBOUNDED", "BLEEDING", "UNSAVABLE", "SAVABLE", "SAFE"}
  BY DEF Evaluate, Unbounded, BandFor
<1>4. RecordOf(inputs).band \in
         {"UNBOUNDED", "BLEEDING", "UNSAVABLE", "SAVABLE", "SAFE",
          "RESIGN_BEFORE_Z", "ROTATE_BEFORE_Z", "SAFE_UNTIL_Z"}
  BY <1>2, <1>3 DEF RecordOf
<1> QED
  BY <1>4 DEF BandRank

(* A window lies between day 0 and the day of the run. *)
LEMMA WindowType ==
    ASSUME NEW ms, \A i \in DOMAIN ms : ms[i].at \in Nat,
           NEW start \in Nat, NEW asOf \in Nat, NEW deadline \in Int,
           NEW w \in WindowsOf(ms, start, deadline, asOf)
    PROVE  /\ w.lo \in Nat /\ w.hi \in Nat /\ w.lo < w.hi /\ w.hi <= asOf /\ deadline <= w.lo
           /\ w.hi - w.lo \in Nat /\ w.hi - w.lo <= asOf
<1>1. PICK i \in ExposureIntervals(ms, start, asOf) :
          w = [lo |-> Larger(i.lo, deadline), hi |-> Smaller(i.hi, asOf)] /\ w.lo < w.hi
  BY DEF WindowsOf
<1>2. i.lo \in Nat /\ i.hi \in Nat
  BY IntervalType
<1> QED
  BY <1>1, <1>2 DEF Larger, Smaller

(* The windows a row reports. *)
LEMMA RecordWindows ==
    ASSUME NEW inputs, Numbered(inputs)
    PROVE  /\ RecordOf(inputs).windows =
                 IF ~IsAuth(inputs) /\ RecordOf(inputs).band \in {"BLEEDING", "UNSAVABLE"}
                   THEN WindowsFor(inputs) ELSE {}
           /\ \A w \in RecordOf(inputs).windows :
                 w.hi - w.lo \in Nat /\ w.hi - w.lo <= inputs.asOf
<1>1. CASE IsAuth(inputs)
  BY <1>1 DEF RecordOf, AuthEvaluate, AuthRecord
<1>2. CASE ~IsAuth(inputs) /\ ~Decided(inputs)
  <2>1. Evaluate(inputs).band = "UNBOUNDED"
    BY <1>2, BandedIsDecided
  <2>2. Evaluate(inputs).windows = {}
    BY <2>1 DEF Evaluate, Unbounded, BandFor
  <2> QED
    BY <1>2, <2>1, <2>2 DEF RecordOf
<1>3. CASE ~IsAuth(inputs) /\ Decided(inputs)
  <2>1. /\ RecordOf(inputs).band = BandOf(inputs)
        /\ RecordOf(inputs).windows = IF BandOf(inputs) \in {"BLEEDING", "UNSAVABLE"}
                                        THEN WindowsFor(inputs) ELSE {}
    BY <1>3, DecidedIs DEF RecordOf
  <2>2. /\ StartDate(inputs) \in Nat /\ Deadline(inputs.binding, inputs.z) \in Int
        /\ inputs.asOf \in Nat
    BY <1>3 DEF Decided, Numbered, Deadline
  <2>3. \A w \in WindowsFor(inputs) : w.hi - w.lo \in Nat /\ w.hi - w.lo <= inputs.asOf
    BY <2>2, WindowType DEF WindowsFor, Numbered
  <2> QED
    BY <1>3, <2>1, <2>3
<1> QED
  BY <1>1, <1>2, <1>3

LEMMA LongestIs ==
    ASSUME NEW inputs, Numbered(inputs)
    PROVE  /\ LongestWindow(RecordOf(inputs)) \in Nat
           /\ LongestWindow(RecordOf(inputs)) <= inputs.asOf
           /\ \A w \in RecordOf(inputs).windows : w.hi - w.lo <= LongestWindow(RecordOf(inputs))
           /\ \/ LongestWindow(RecordOf(inputs)) = 0
              \/ \E w \in RecordOf(inputs).windows : LongestWindow(RecordOf(inputs)) = w.hi - w.lo
<1> DEFINE windows == RecordOf(inputs).windows
           S == {0} \union {w.hi - w.lo : w \in windows}
<1>1. \A w \in windows : w.hi - w.lo \in Nat /\ w.hi - w.lo <= inputs.asOf
  BY RecordWindows
<1>2. inputs.asOf \in Nat
  BY DEF Numbered
<1>3. LongestWindow(RecordOf(inputs)) = MaxOf(S)
  BY DEF LongestWindow
<1> HIDE DEF windows
<1>4. S \in SUBSET Nat /\ S # {} /\ \A s \in S : s <= inputs.asOf
  BY <1>1, <1>2
<1>5. \A w \in windows : w.hi - w.lo \in S
  OBVIOUS
<1>6. \A s \in S : s = 0 \/ \E w \in windows : s = w.hi - w.lo
  OBVIOUS
<1> HIDE DEF S
<1>7. MaxOf(S) \in S /\ \A s \in S : s <= MaxOf(S)
  BY <1>2, <1>4, MaxExists
<1> QED
  BY <1>3, <1>4, <1>5, <1>6, <1>7 DEF windows

-----------------------------------------------------------------------------
(* An answer is no worse than a candidate. *)

(* c is at least as bad as a, and its windows are as long. *)
AsBadAs(c, a) ==
    /\ RecordOf(c).band # "UNBOUNDED"
    /\ BandRank(RecordOf(c).band) <= BandRank(RecordOf(a).band)
    /\ LongestWindow(RecordOf(a)) <= LongestWindow(RecordOf(c))

(* c has a band, and its windows are as long as those of a.                *)
AsLongAs(c, a) ==
    /\ RecordOf(c).band # "UNBOUNDED"
    /\ LongestWindow(RecordOf(a)) <= LongestWindow(RecordOf(c))

(* Nothing is lost yet, for a lifetime below those that are tried.         *)
Untried(a) == RecordOf(a).band = "SAVABLE" /\ a.binding < ShortX

(* What makes one row of the confidentiality ledger as bad as another.     *)
LEMMA NoWorseThan ==
    ASSUME NEW a, NEW c, Numbered(a), Numbered(c), ~IsAuth(a), ~IsAuth(c),
           Decided(a), Decided(c),
           a.asOf = c.asOf, ShorBroken(a.context) = ShorBroken(c.context),
           CurrentlyStopped(c.migrations) => CurrentlyStopped(a.migrations),
           a.asOf > Deadline(a.binding, a.z) => a.asOf > Deadline(c.binding, c.z),
           RecordOf(a).band = "SAVABLE" => a.asOf <= Deadline(c.binding, c.z),
           \A w \in WindowsFor(a) : \E v \in WindowsFor(c) : w.hi - w.lo <= v.hi - v.lo
    PROVE  AsBadAs(c, a)
<1> DEFINE D == Deadline(a.binding, a.z)
           E == Deadline(c.binding, c.z)
           asOf == a.asOf
           broken == ShorBroken(a.context)
           stopA == CurrentlyStopped(a.migrations)
           stopC == CurrentlyStopped(c.migrations)
           A == WindowsFor(a)
           C == WindowsFor(c)
<1>1. D \in Int /\ E \in Int /\ asOf \in Nat /\ broken \in BOOLEAN
  <2>1. broken # None /\ a.context.family \in {TRUE, FALSE, None}
    BY DEF Decided, Numbered
  <2>2. broken \in {TRUE, FALSE}
    BY <2>1 DEF ShorBroken
  <2>3. /\ a.binding \in Nat /\ c.binding \in Nat /\ a.z \in Int /\ c.z \in Int
        /\ asOf \in Nat
    BY DEF Decided, Numbered, asOf
  <2>4. D \in Int /\ E \in Int
    BY <2>3 DEF Deadline
  <2>5. broken \in BOOLEAN
    BY <2>2
  <2> HIDE DEF D, E, asOf, broken
  <2> QED
    BY <2>3, <2>4, <2>5
<1>2. stopA \in BOOLEAN /\ stopC \in BOOLEAN
  BY DEF CurrentlyStopped
<1>3. A # {} => asOf > D
  <2> SUFFICES ASSUME NEW w \in A PROVE asOf > D
    OBVIOUS
  <2>1. StartDate(a) \in Nat /\ \A i \in DOMAIN a.migrations : a.migrations[i].at \in Nat
    BY DEF Numbered, Decided
  <2>2. /\ w.lo \in Nat /\ w.hi \in Nat /\ w.lo < w.hi /\ w.hi <= asOf /\ D <= w.lo
    BY <1>1, <2>1, WindowType DEF WindowsFor
  <2> QED
    BY <1>1, <2>2
<1>4. C # {} => asOf > E
  <2> SUFFICES ASSUME NEW w \in C PROVE asOf > E
    OBVIOUS
  <2>1. StartDate(c) \in Nat /\ \A i \in DOMAIN c.migrations : c.migrations[i].at \in Nat
    BY DEF Numbered, Decided
  <2>2. /\ w.lo \in Nat /\ w.hi \in Nat /\ w.lo < w.hi /\ w.hi <= asOf /\ E <= w.lo
    BY <1>1, <2>1, WindowType DEF WindowsFor
  <2> QED
    BY <1>1, <2>2
<1>5. /\ RecordOf(a).band = BandFor(broken, stopA, A, D, asOf)
      /\ RecordOf(c).band = BandFor(broken, stopC, C, E, asOf)
  BY DecidedIs DEF RecordOf, BandOf
<1>6. A # {} => C # {}
  OBVIOUS
<1>7. RecordOf(a).band = "SAVABLE" => asOf <= E
  OBVIOUS
<1>8. (stopC => stopA) /\ (asOf > D => asOf > E)
  OBVIOUS
<1>9. /\ Numbered(a) /\ Numbered(c) /\ ~IsAuth(a) /\ ~IsAuth(c)
      /\ \A w \in A : \E v \in C : w.hi - w.lo <= v.hi - v.lo
  OBVIOUS
<1>10. A = WindowsFor(a) /\ C = WindowsFor(c)
  OBVIOUS
<1> HIDE DEF D, E, asOf, broken, stopA, stopC, A, C
<1>11. RecordOf(a).band \in {"BLEEDING", "UNSAVABLE", "SAVABLE", "SAFE"}
  BY <1>5 DEF BandFor
<1>12. RecordOf(c).band \in {"BLEEDING", "UNSAVABLE", "SAVABLE", "SAFE"}
  BY <1>5 DEF BandFor
<1>13. BandRank(RecordOf(c).band) <= BandRank(RecordOf(a).band)
  <2>1. CASE RecordOf(a).band = "BLEEDING"
    <3>1. RecordOf(c).band = "BLEEDING"
      BY <1>1, <1>2, <1>5, <1>8, <2>1 DEF BandFor
    <3> QED
      BY <2>1, <3>1 DEF BandRank
  <2>2. CASE RecordOf(a).band = "UNSAVABLE"
    <3>1. RecordOf(c).band \in {"BLEEDING", "UNSAVABLE"}
      <4>1. broken /\ A # {} /\ stopA /\ asOf > E
        BY <1>1, <1>2, <1>3, <1>5, <1>8, <2>2 DEF BandFor
      <4> QED
        BY <1>1, <1>2, <1>5, <1>6, <4>1 DEF BandFor
    <3> QED
      BY <2>2, <3>1 DEF BandRank
  <2>3. CASE RecordOf(a).band = "SAVABLE"
    <3>1. RecordOf(c).band = "SAVABLE"
      <4>1. broken /\ asOf <= E /\ C = {}
        BY <1>1, <1>2, <1>4, <1>5, <1>7, <2>3 DEF BandFor
      <4> QED
        BY <1>1, <1>2, <1>5, <4>1 DEF BandFor
    <3> QED
      BY <2>3, <3>1 DEF BandRank
  <2>4. CASE RecordOf(a).band = "SAFE"
    BY <1>12, <2>4 DEF BandRank
  <2> QED
    BY <1>11, <2>1, <2>2, <2>3, <2>4
<1>14. LongestWindow(RecordOf(a)) <= LongestWindow(RecordOf(c))
  <2>1. LongestWindow(RecordOf(a)) \in Nat /\ LongestWindow(RecordOf(c)) \in Nat
    BY <1>9, LongestIs
  <2>2. CASE LongestWindow(RecordOf(a)) = 0
    BY <2>1, <2>2
  <2>3. CASE LongestWindow(RecordOf(a)) # 0
    <3>1. PICK w \in RecordOf(a).windows : LongestWindow(RecordOf(a)) = w.hi - w.lo
      BY <1>9, <2>3, LongestIs
    <3>2. RecordOf(a).band \in {"BLEEDING", "UNSAVABLE"} /\ w \in A
      BY <1>9, <1>10, RecordWindows, <3>1
    <3>3. RecordOf(c).band \in {"BLEEDING", "UNSAVABLE"}
      BY <1>12, <1>13, <3>2 DEF BandRank
    <3>4. PICK v \in C : w.hi - w.lo <= v.hi - v.lo
      BY <1>9, <3>2
    <3>5. v \in RecordOf(c).windows
      BY <1>9, <1>10, <3>3, <3>4, RecordWindows
    <3>6. /\ v.hi - v.lo <= LongestWindow(RecordOf(c)) /\ v.hi - v.lo \in Nat
      BY <1>9, <3>5, LongestIs, RecordWindows
    <3> QED
      BY <2>1, <3>1, <3>4, <3>6
  <2> QED
    BY <2>2, <2>3
<1> QED
  BY <1>12, <1>13, <1>14 DEF AsBadAs

(* A row of the authentication ledger has no windows: its band is all.     *)
LEMMA NoWorseSignature ==
    ASSUME NEW a, NEW c, Numbered(a), Numbered(c), IsAuth(a), IsAuth(c),
           RecordOf(c).band # "UNBOUNDED",
           BandRank(RecordOf(c).band) <= BandRank(RecordOf(a).band)
    PROVE  AsBadAs(c, a)
<1>1. RecordOf(a).windows = {} /\ RecordOf(c).windows = {}
  BY RecordWindows
<1>2. LongestWindow(RecordOf(a)) = 0 /\ LongestWindow(RecordOf(c)) = 0
  BY <1>1, LongestIs
<1> QED
  BY <1>2 DEF AsBadAs

(* Every row is as bad as itself. *)
LEMMA AsBadAsItself ==
    ASSUME NEW a, Numbered(a), RecordOf(a).band # "UNBOUNDED"
    PROVE  AsBadAs(a, a)
BY BandsAre, LongestIs DEF AsBadAs

(* An earlier start and an earlier deadline lose as much, and for as long. *)
LEMMA WindowsGrow ==
    ASSUME NEW ms, \A i \in DOMAIN ms : ms[i].at \in Nat, NEW asOf \in Nat,
           NEW start \in Nat, NEW before \in Nat, before <= start,
           NEW deadline \in Int, NEW early \in Int, early <= deadline,
           NEW w \in WindowsOf(ms, start, deadline, asOf)
    PROVE  \E v \in WindowsOf(ms, before, early, asOf) : w.hi - w.lo <= v.hi - v.lo
<1>1. PICK i \in ExposureIntervals(ms, start, asOf) :
          w = [lo |-> Larger(i.lo, deadline), hi |-> Smaller(i.hi, asOf)] /\ w.lo < w.hi
  BY DEF WindowsOf
<1>2. i.lo \in Nat /\ i.hi \in Nat
  BY IntervalType
<1> DEFINE close(o) == EarliestOf({asOf} \union ClosingDates(ms, o))
           From(day, o) == [lo |-> IF o = 0 THEN day ELSE ms[o].at, hi |-> close(o)]
<1>3. PICK o \in Openings(ms) : i = From(start, o) /\ i.lo <= i.hi
  BY DEF ExposureIntervals
<1> DEFINE j == From(before, o)
<1>4. j.lo \in Nat /\ j.hi = i.hi /\ j.lo <= i.lo
  <2>1. i.hi = close(o) /\ i.lo = IF o = 0 THEN start ELSE ms[o].at
    BY <1>3
  <2>2. j.hi = close(o) /\ j.lo = IF o = 0 THEN before ELSE ms[o].at
    OBVIOUS
  <2> HIDE DEF j
  <2> QED
    BY <1>2, <2>1, <2>2
<1>5. j \in ExposureIntervals(ms, before, asOf)
  <2>1. j.lo <= j.hi
    <3> HIDE DEF j
    <3> QED
      BY <1>2, <1>3, <1>4
  <2> QED
    BY <1>3, <2>1 DEF ExposureIntervals
<1> HIDE DEF j
<1> DEFINE v == [lo |-> Larger(j.lo, early), hi |-> Smaller(j.hi, asOf)]
<1>6. /\ w.lo = Larger(i.lo, deadline) /\ w.hi = Smaller(i.hi, asOf)
      /\ v.lo = Larger(j.lo, early) /\ v.hi = Smaller(i.hi, asOf)
  BY <1>1, <1>4
<1>7. v.lo <= w.lo /\ v.hi = w.hi /\ v.lo < v.hi /\ w.hi - w.lo <= v.hi - v.lo
  <2>1. Larger(j.lo, early) <= Larger(i.lo, deadline) /\ Larger(i.lo, deadline) \in Int
        /\ Larger(j.lo, early) \in Int /\ Smaller(i.hi, asOf) \in Int
    BY <1>2, <1>4 DEF Larger, Smaller
  <2> HIDE DEF v
  <2> QED
    BY <1>1, <1>6, <2>1
<1>8. v \in WindowsOf(ms, before, early, asOf)
  BY <1>5, <1>7 DEF WindowsOf
<1> QED
  BY <1>7, <1>8

-----------------------------------------------------------------------------
(* The candidate an answer is no worse than, key by key. *)

(* What WithStart and the acceptance of INFERRED inputs change. *)
LEMMA CandidateFields ==
    ASSUME NEW inputs \in LedgerInputs, NEW day \in Nat
    PROVE  /\ LET c == WithStart(inputs, day)
              IN  /\ c.asOf = inputs.asOf /\ c.z = inputs.z /\ c.context = inputs.context
                  /\ c.binding = inputs.binding /\ c.migrations = inputs.migrations
                  /\ c.temporal = inputs.temporal
                  /\ c.policy.acceptInferred = inputs.policy.acceptInferred
                  /\ StartDate(c) = day
           /\ LET c == [inputs EXCEPT !.policy.acceptInferred = TRUE]
              IN  /\ c.asOf = inputs.asOf /\ c.z = inputs.z /\ c.context = inputs.context
                  /\ c.binding = inputs.binding /\ c.migrations = inputs.migrations
                  /\ c.authenticity = inputs.authenticity /\ c.signedAt = inputs.signedAt
                  /\ c.policy.acceptInferred = TRUE /\ StartDate(c) = StartDate(inputs)
<1>0. inputs.policy \in PolicyType
  BY DEF LedgerInputs
<1> DEFINE p == [inputs.policy EXCEPT !.mode = "SINCE_DATE", !.since = day]
           q == [inputs.policy EXCEPT !.acceptInferred = TRUE]
<1>1. p.mode = "SINCE_DATE" /\ p.since = day /\ p.acceptInferred = inputs.policy.acceptInferred
  BY <1>0 DEF PolicyType
<1>2. /\ q.mode = inputs.policy.mode /\ q.since = inputs.policy.since
      /\ q.acceptGoLive = inputs.policy.acceptGoLive /\ q.acceptInferred = TRUE
  BY <1>0 DEF PolicyType
<1> HIDE DEF p, q
<1>3. WithStart(inputs, day) = [inputs EXCEPT !.policy = p]
  BY Zenon DEF WithStart, p
<1>4. [inputs EXCEPT !.policy.acceptInferred = TRUE] = [inputs EXCEPT !.policy = q]
  BY Zenon DEF q
<1>5. LET c == WithStart(inputs, day)
      IN  /\ c.asOf = inputs.asOf /\ c.z = inputs.z /\ c.context = inputs.context
          /\ c.binding = inputs.binding /\ c.migrations = inputs.migrations
          /\ c.temporal = inputs.temporal /\ c.policy = p
  BY <1>3 DEF LedgerInputs
<1>6. StartDate(WithStart(inputs, day)) = day
  BY <1>1, <1>5 DEF StartDate
<1>7. LET c == [inputs EXCEPT !.policy.acceptInferred = TRUE]
      IN  /\ c.asOf = inputs.asOf /\ c.z = inputs.z /\ c.context = inputs.context
          /\ c.binding = inputs.binding /\ c.migrations = inputs.migrations
          /\ c.authenticity = inputs.authenticity /\ c.signedAt = inputs.signedAt
          /\ c.temporal = inputs.temporal /\ c.policy = q
  BY <1>4 DEF LedgerInputs
<1>8. StartDate([inputs EXCEPT !.policy.acceptInferred = TRUE]) = StartDate(inputs)
  BY <1>2, <1>7 DEF StartDate
<1> QED
  BY <1>1, <1>2, <1>5, <1>6, <1>7, <1>8

(* Confirming an INFERRED input gives the row it has when it is accepted.  *)
LEMMA ConfirmedIsAccepted ==
    ASSUME NEW inputs \in LedgerInputs, NEW field \in {"fnState", "familyState"},
           inputs.context.fnState # "UNKNOWN",
           RecordOf(Certain(inputs, field)).band # "UNBOUNDED"
    PROVE  AsBadAs([inputs EXCEPT !.policy.acceptInferred = TRUE], Certain(inputs, field))
<1> DEFINE a == Certain(inputs, field)
           c == [inputs EXCEPT !.policy.acceptInferred = TRUE]
           ctx == [inputs.context EXCEPT ![field] = "KNOWN"]
<1>0. inputs.context \in ContextType
  BY DEF LedgerInputs
<1>1. /\ ctx.fn = inputs.context.fn /\ ctx.family = inputs.context.family
      /\ ctx.fnState \in {inputs.context.fnState, "KNOWN"}
  BY <1>0 DEF ContextType
<1>2. a = [inputs EXCEPT !.context = ctx]
  BY Zenon DEF Certain
<1> HIDE DEF ctx
<1>3. /\ a.asOf = inputs.asOf /\ a.z = inputs.z /\ a.context = ctx
      /\ a.binding = inputs.binding /\ a.migrations = inputs.migrations
      /\ a.authenticity = inputs.authenticity /\ a.signedAt = inputs.signedAt
      /\ a.policy = inputs.policy /\ a.temporal = inputs.temporal
  BY <1>2 DEF LedgerInputs
<1>4. /\ c.asOf = inputs.asOf /\ c.z = inputs.z /\ c.context = inputs.context
      /\ c.binding = inputs.binding /\ c.migrations = inputs.migrations
      /\ c.authenticity = inputs.authenticity /\ c.signedAt = inputs.signedAt
      /\ c.policy.acceptInferred = TRUE /\ StartDate(c) = StartDate(inputs)
  BY CandidateFields, 0 \in Nat
<1> HIDE DEF a, c
<1>5. StartDate(a) = StartDate(inputs)
  BY <1>3 DEF StartDate
<1>6. Numbered(inputs)
  BY InputsAreNumbered
<1>7. Numbered(a) /\ Numbered(c)
  BY <1>1, <1>3, <1>4, <1>5, <1>6 DEF Numbered
<1>8. RecordOf(a).band # "UNBOUNDED"
  BY DEF a
<1>9. (IsAuth(a) <=> IsAuth(inputs)) /\ (IsAuth(c) <=> IsAuth(inputs))
  BY <1>1, <1>3, <1>4 DEF IsAuth
<1>10. CASE IsAuth(inputs)
  <2>1. AuthBand(a) = AuthBand(c)
    BY <1>3, <1>4 DEF AuthBand, RequiredUntil
  <2>2. AuthEvaluate(a).band # "UNBOUNDED"
    BY <1>8, <1>9, <1>10 DEF RecordOf
  <2>3. AuthEvaluate(a).band = AuthBand(a)
    BY <2>2 DEF AuthEvaluate, AuthRecord
  <2>4. AuthEvaluate(c).band = AuthBand(c)
    BY <1>3, <1>4, <2>2 DEF AuthEvaluate, AuthRecord
  <2>5. RecordOf(c).band = RecordOf(a).band
    BY <1>9, <1>10, <2>1, <2>3, <2>4 DEF RecordOf
  <2>6. BandRank(RecordOf(c).band) <= BandRank(RecordOf(a).band)
    BY <2>5, BandsAre
  <2>7. AsBadAs(c, a)
    BY <1>7, <1>8, <1>9, <1>10, <2>5, <2>6, NoWorseSignature
  <2> QED
    BY <2>7 DEF a, c
<1>11. CASE ~IsAuth(inputs)
  <2>1. Decided(a)
    BY <1>8, <1>9, <1>11, BandedIsDecided DEF RecordOf
  <2>2. ShorBroken(c.context) = ShorBroken(a.context)
    BY <1>1, <1>3, <1>4 DEF ShorBroken
  <2>3. Decided(c)
    BY <1>3, <1>4, <1>5, <2>1, <2>2 DEF Decided
  <2>4. WindowsFor(c) = WindowsFor(a)
    BY <1>3, <1>4, <1>5 DEF WindowsFor
  <2>5. Deadline(c.binding, c.z) = Deadline(a.binding, a.z)
    BY <1>3, <1>4
  <2>6. \A w \in WindowsFor(a) : w.hi - w.lo <= w.hi - w.lo
    <3>1. /\ StartDate(a) \in Nat /\ Deadline(a.binding, a.z) \in Int /\ a.asOf \in Nat
          /\ \A i \in DOMAIN a.migrations : a.migrations[i].at \in Nat
      BY <1>7, <2>1 DEF Decided, Numbered, Deadline
    <3>2. \A w \in WindowsFor(a) : w.hi - w.lo \in Nat
      BY <3>1, WindowType DEF WindowsFor
    <3> QED
      BY <3>2
  <2>7. RecordOf(a).band = "SAVABLE" => a.asOf <= Deadline(c.binding, c.z)
    <3>1. RecordOf(a).band = BandOf(a)
      BY <1>9, <1>11, <2>1, DecidedIs DEF RecordOf
    <3> QED
      BY <2>5, <3>1 DEF BandOf, BandFor
  <2>8. AsBadAs(c, a)
    BY <1>3, <1>4, <1>7, <1>9, <1>11, <2>1, <2>2, <2>3, <2>4, <2>5, <2>6, <2>7, NoWorseThan
  <2> QED
    BY <2>8 DEF a, c
<1> QED
  BY <1>10, <1>11

(* A lifetime no longer than the longest: one that is tried is as bad, or  *)
(* it is shorter than those, nothing is lost yet and no window is longer.  *)
LEMMA LifetimeIsBracketed ==
    ASSUME NEW inputs \in LedgerInputs, ~IsAuth(inputs), NEW x \in Lifetimes,
           RecordOf(WithBinding(inputs, x)).band # "UNBOUNDED"
    PROVE  \E c \in BindingCandidates(inputs) :
              \/ AsBadAs(c, WithBinding(inputs, x))
              \/ Untried(WithBinding(inputs, x)) /\ AsLongAs(c, WithBinding(inputs, x))
<1> DEFINE At(y) == WithBinding(inputs, y)
<1>0. x \in Nat /\ ShortX \in Nat /\ LongX \in Nat /\ x <= LongX
  BY CitedAssumption
<1>1. \A y \in Nat : /\ At(y).asOf = inputs.asOf /\ At(y).z = inputs.z
                     /\ At(y).context = inputs.context /\ At(y).binding = y
                     /\ At(y).migrations = inputs.migrations
                     /\ At(y).policy = inputs.policy /\ At(y).temporal = inputs.temporal
  BY DEF WithBinding, LedgerInputs
<1>2. At(ShortX) \in BindingCandidates(inputs) /\ At(LongX) \in BindingCandidates(inputs)
  BY DEF BindingCandidates
<1>3. RecordOf(At(x)).band # "UNBOUNDED"
  OBVIOUS
<1> HIDE DEF At
<1>4. \A y \in Nat : StartDate(At(y)) = StartDate(inputs) /\ ~IsAuth(At(y))
  BY <1>1 DEF StartDate, IsAuth
<1>5. Numbered(inputs)
  BY InputsAreNumbered
<1>6. \A y \in Nat : Numbered(At(y))
  BY <1>1, <1>4, <1>5 DEF Numbered
<1>7. Decided(At(x))
  BY <1>0, <1>3, <1>4, BandedIsDecided DEF RecordOf
<1>8. \A y \in Nat : Decided(At(y))
  <2> SUFFICES ASSUME NEW y \in Nat PROVE Decided(At(y))
    OBVIOUS
  <2>1. y # None
    BY NoneAssumption
  <2> QED
    BY <1>0, <1>1, <1>4, <1>7, <2>1 DEF Decided
<1>9. /\ inputs.asOf \in Nat /\ inputs.z \in Int /\ StartDate(inputs) \in Nat
      /\ \A i \in DOMAIN inputs.migrations : inputs.migrations[i].at \in Nat
  BY <1>0, <1>4, <1>5, <1>7 DEF Numbered, Decided
<1>10. ASSUME NEW y \in Nat
       PROVE  /\ Deadline(At(y).binding, At(y).z) = inputs.z - y
              /\ WindowsFor(At(y)) = WindowsOf(inputs.migrations, StartDate(inputs),
                                               inputs.z - y, inputs.asOf)
              /\ RecordOf(At(y)).band = BandOf(At(y))
              /\ At(y).asOf = inputs.asOf
              /\ CurrentlyStopped(At(y).migrations) = CurrentlyStopped(inputs.migrations)
              /\ ShorBroken(At(y).context) = ShorBroken(inputs.context)
  BY <1>1, <1>4, <1>8, DecidedIs DEF Deadline, WindowsFor, RecordOf
<1>11. CASE RecordOf(At(x)).band # "SAVABLE"
  <2>1. \A w \in WindowsFor(At(x)) : \E v \in WindowsFor(At(LongX)) : w.hi - w.lo <= v.hi - v.lo
    <3> SUFFICES ASSUME NEW w \in WindowsFor(At(x))
                 PROVE  \E v \in WindowsFor(At(LongX)) : w.hi - w.lo <= v.hi - v.lo
      OBVIOUS
    <3>1. /\ inputs.z - x \in Int /\ inputs.z - LongX \in Int
          /\ inputs.z - LongX <= inputs.z - x /\ StartDate(inputs) <= StartDate(inputs)
      BY <1>0, <1>9
    <3>2. w \in WindowsOf(inputs.migrations, StartDate(inputs), inputs.z - x, inputs.asOf)
      BY <1>0, <1>10
    <3>3. \E v \in WindowsOf(inputs.migrations, StartDate(inputs), inputs.z - LongX, inputs.asOf) :
             w.hi - w.lo <= v.hi - v.lo
      BY <1>9, <3>1, <3>2, WindowsGrow
    <3> QED
      BY <1>0, <1>10, <3>3
  <2>2. inputs.asOf > inputs.z - x => inputs.asOf > inputs.z - LongX
    BY <1>0, <1>9
  <2>3. AsBadAs(At(LongX), At(x))
    BY <1>0, <1>4, <1>6, <1>8, <1>10, <1>11, <2>1, <2>2, NoWorseThan
  <2> QED
    BY <1>2, <2>3 DEF At
<1>12. CASE RecordOf(At(x)).band = "SAVABLE"
  <2>1. WindowsFor(At(x)) = {} /\ inputs.asOf <= inputs.z - x
    BY <1>0, <1>10, <1>12 DEF BandOf, BandFor
  <2>2. CASE ShortX <= x
    <3>1. inputs.asOf <= inputs.z - ShortX /\ ~(inputs.asOf > inputs.z - x)
      BY <1>0, <1>9, <2>1, <2>2
    <3>2. AsBadAs(At(ShortX), At(x))
      BY <1>0, <1>4, <1>6, <1>8, <1>10, <2>1, <3>1, NoWorseThan
    <3> QED
      BY <1>2, <3>2 DEF At
  <2>3. CASE ~(ShortX <= x)
    <3>1. Untried(At(x))
      BY <1>0, <1>1, <1>12, <2>3 DEF Untried
    <3>2. RecordOf(At(ShortX)).band # "UNBOUNDED"
      BY <1>0, <1>4, <1>8, DecidedIs DEF RecordOf
    <3>3. LongestWindow(RecordOf(At(x))) <= LongestWindow(RecordOf(At(ShortX)))
      <4>1. RecordOf(At(x)).windows = {}
        BY <1>0, <1>6, <1>12, RecordWindows
      <4>2. LongestWindow(RecordOf(At(x))) = 0 /\ LongestWindow(RecordOf(At(ShortX))) \in Nat
        BY <1>0, <1>6, <4>1, LongestIs
      <4> QED
        BY <4>2
    <3>4. AsLongAs(At(ShortX), At(x))
      BY <3>2, <3>3 DEF AsLongAs
    <3> QED
      BY <1>2, <3>1, <3>4 DEF At
  <2> QED
    BY <2>2, <2>3
<1> QED
  BY <1>11, <1>12

(* A start between the two ends: the earlier end is as bad.                *)
LEMMA StartIsBracketed ==
    ASSUME NEW inputs \in LedgerInputs, NEW key \in {"start_confirmed", "start_possible"},
           key \in MissingInputs(inputs), PossibleDates(inputs) # {},
           NEW answer \in Answers(key, inputs), RecordOf(answer).band # "UNBOUNDED"
    PROVE  \E c \in StartCandidates(inputs) : AsBadAs(c, answer)
<1> DEFINE t == inputs.temporal
           p == PossibleSince(t)
           At(day) == WithStart(inputs, day)
<1>1. /\ t \in TemporalType /\ inputs.asOf \in Nat /\ p \in Nat
      /\ AdmissibleDates(inputs) = p .. inputs.asOf
  <2>1. p # None
    BY DEF PossibleDates
  <2> QED
    BY <2>1, DatesType DEF LedgerInputs, AdmissibleDates
<1>2. answer \in LedgerInputs
  BY DateAnswers
<1>3. At(p) \in StartCandidates(inputs) /\ At(inputs.asOf) \in StartCandidates(inputs)
  BY <1>1, NoneAssumption DEF StartCandidates, PossibleDates
<1>4. \A day \in Nat : /\ At(day).asOf = inputs.asOf /\ At(day).z = inputs.z
                       /\ At(day).context = inputs.context /\ At(day).binding = inputs.binding
                       /\ At(day).migrations = inputs.migrations
                       /\ At(day).policy.acceptInferred = inputs.policy.acceptInferred
                       /\ StartDate(At(day)) = day
  <2> SUFFICES ASSUME NEW day \in Nat
               PROVE  /\ At(day).asOf = inputs.asOf /\ At(day).z = inputs.z
                      /\ At(day).context = inputs.context /\ At(day).binding = inputs.binding
                      /\ At(day).migrations = inputs.migrations
                      /\ At(day).policy.acceptInferred = inputs.policy.acceptInferred
                      /\ StartDate(At(day)) = day
    OBVIOUS
  <2> QED
    BY CandidateFields
<1> HIDE DEF At
<1>5. /\ answer.asOf = inputs.asOf /\ answer.z = inputs.z /\ answer.context = inputs.context
      /\ answer.binding = inputs.binding /\ answer.migrations = inputs.migrations
      /\ answer.policy = inputs.policy
  <2>1. \E temporal : answer = [inputs EXCEPT !.temporal = temporal]
    BY DEF Answers, Stated
  <2> QED
    BY <2>1 DEF LedgerInputs
<1>6. ~IsAuth(inputs) /\ inputs.context.fnState # "UNKNOWN"
  BY MissingMeans
<1>7. ~IsAuth(answer) /\ \A day \in Nat : ~IsAuth(At(day))
  BY <1>4, <1>5, <1>6 DEF IsAuth
<1>8. Numbered(answer)
  BY <1>2, InputsAreNumbered
<1>9. \A day \in Nat : Numbered(At(day))
  BY <1>4, <1>5, <1>8 DEF Numbered
<1>10. Decided(answer)
  BY <1>7, BandedIsDecided DEF RecordOf
<1>11. \A day \in Nat : Decided(At(day))
  <2> SUFFICES ASSUME NEW day \in Nat PROVE Decided(At(day))
    OBVIOUS
  <2>1. day # None
    BY NoneAssumption
  <2> QED
    BY <1>4, <1>5, <1>10, <2>1 DEF Decided
<1> DEFINE D == Deadline(inputs.binding, inputs.z)
           s == StartDate(answer)
<1>12. /\ s \in Nat /\ D \in Int
       /\ \A i \in DOMAIN inputs.migrations : inputs.migrations[i].at \in Nat
  BY <1>5, <1>8, <1>10 DEF Numbered, Decided, Deadline
<1>13. ASSUME NEW day \in Nat, day <= s PROVE AsBadAs(At(day), answer)
  <2>1. /\ WindowsFor(answer) = WindowsOf(inputs.migrations, s, D, inputs.asOf)
        /\ WindowsFor(At(day)) = WindowsOf(inputs.migrations, day, D, inputs.asOf)
        /\ Deadline(answer.binding, answer.z) = D
        /\ Deadline(At(day).binding, At(day).z) = D
    BY <1>4, <1>5 DEF WindowsFor
  <2> HIDE DEF D, s
  <2>2. \A w \in WindowsFor(answer) : \E v \in WindowsFor(At(day)) : w.hi - w.lo <= v.hi - v.lo
    <3> SUFFICES ASSUME NEW w \in WindowsFor(answer)
                 PROVE  \E v \in WindowsFor(At(day)) : w.hi - w.lo <= v.hi - v.lo
      OBVIOUS
    <3>1. D <= D /\ D \in Int /\ s \in Nat /\ day <= s /\ inputs.asOf \in Nat
      BY <1>1, <1>12, <1>13
    <3>2. w \in WindowsOf(inputs.migrations, s, D, inputs.asOf)
      BY <2>1
    <3>3. \E v \in WindowsOf(inputs.migrations, day, D, inputs.asOf) : w.hi - w.lo <= v.hi - v.lo
      BY <1>12, <3>1, <3>2, WindowsGrow
    <3> QED
      BY <2>1, <3>3
  <2>3. RecordOf(answer).band = "SAVABLE" => answer.asOf <= D
    <3>1. RecordOf(answer).band = BandOf(answer)
      BY <1>7, <1>10, DecidedIs DEF RecordOf
    <3> QED
      BY <2>1, <3>1 DEF BandOf, BandFor
  <2> QED
    BY <1>4, <1>5, <1>7, <1>8, <1>9, <1>10, <1>11, <2>1, <2>2, <2>3, NoWorseThan
<1>14. s \in (p .. inputs.asOf) \union {inputs.asOf}
  <2>1. \A day \in Nat : \A state \in {"KNOWN", "DECLARED"} :
           /\ Dated(day, state) \in DateFields /\ Dated(day, state) # None
           /\ Dated(day, state).value = day /\ Dated(day, state).state = state
    <3> SUFFICES ASSUME NEW day \in Nat, NEW state \in {"KNOWN", "DECLARED"}
                 PROVE  /\ Dated(day, state) \in DateFields /\ Dated(day, state) # None
                        /\ Dated(day, state).value = day /\ Dated(day, state).state = state
      OBVIOUS
    <3>1. Dated(day, state) \in [value : Nat, state : EpistemicState]
      BY DEF Dated, EpistemicState
    <3> QED
      BY <3>1, NoneAssumption DEF Dated, DateFields
  <2>2. StartDate(inputs) = None /\ inputs.policy \in PolicyType
    <3>1. inputs.binding # None /\ RecordOf(inputs).start = None
      BY MissingMeans
    <3> QED
      BY <1>6, <3>1, StartOf DEF LedgerInputs
  <2>3. CASE key = "start_possible"
    <3>1. inputs.policy.mode = "SINCE_POSSIBLE"
      BY <2>3, MissingMeans
    <3>2. StartDate(inputs) = p
      BY <3>1 DEF StartDate
    <3> QED
      BY <1>1, <2>2, <3>2, NoneAssumption
  <2>4. CASE key = "start_confirmed"
    <3>1. inputs.policy.mode = "SINCE_CONFIRMED"
      <4>1. inputs.policy.mode # "SINCE_POSSIBLE"
        BY <2>4, MissingMeans
      <4> QED
        BY <2>2, <4>1 DEF StartDate, PolicyType
    <3> DEFINE Confirming(u) ==
                  {f \in {u.firstObserved} \ {None} : f.state = "KNOWN"}
                  \union {f \in {u.goLive} \ {None} :
                            /\ inputs.policy.acceptGoLive
                            /\ f.state \in {"DECLARED", "KNOWN"}}
    <3>2. Confirming(t) = {}
      <4> DEFINE fields == Confirming(t)
      <4>1. fields \in SUBSET DateFields /\ None \notin fields
        BY <1>1 DEF TemporalType
      <4>2. EarliestDate(fields) = None
        BY <2>2, <3>1 DEF StartDate, ConfirmedSince
      <4> HIDE DEF fields
      <4>3. \A f \in fields : FALSE
        BY <4>1, <4>2, EarliestDateIs, NoneAssumption
      <4> QED
        BY <4>3 DEF fields
    <3>3. ASSUME NEW field \in {"firstObserved", "goLive"}, NEW day \in Nat,
                 NEW state \in {"KNOWN", "DECLARED"},
                 field = "firstObserved" => state = "KNOWN",
                 field = "goLive" => inputs.policy.acceptGoLive,
                 answer = [inputs EXCEPT !.temporal = [t EXCEPT ![field] = Dated(day, state)]]
          PROVE  s = day
      <4> DEFINE d == Dated(day, state)
                 u == [t EXCEPT ![field] = d]
      <4>1. d \in DateFields /\ d # None /\ d.value = day /\ d.state = state
        BY <2>1
      <4>2. answer.temporal = u
        BY <3>3 DEF LedgerInputs
      <4> HIDE DEF d
      <4>3. Confirming(u) = {d}
        <5>1. CASE field = "firstObserved"
          <6>1. u.firstObserved = d /\ u.goLive = t.goLive
            BY <1>1, <5>1 DEF TemporalType
          <6> HIDE DEF u
          <6> QED
            BY <3>2, <3>3, <4>1, <5>1, <6>1
        <5>2. CASE field = "goLive"
          <6>1. u.goLive = d /\ u.firstObserved = t.firstObserved
            BY <1>1, <5>2 DEF TemporalType
          <6> HIDE DEF u
          <6> QED
            BY <3>2, <3>3, <4>1, <5>2, <6>1
        <5> QED
          BY <5>1, <5>2
      <4> HIDE DEF u
      <4>4. s = EarliestDate(Confirming(u))
        BY <1>5, <3>1, <4>2 DEF StartDate, ConfirmedSince
      <4> HIDE DEF Confirming
      <4>5. EarliestDate({d}) = d.value
        <5>1. {d} \in SUBSET DateFields /\ d \in {d}
          BY <4>1
        <5>2. \E g \in {d} : EarliestDate({d}) = g.value
          BY <4>1, <5>1, EarliestDateIs
        <5> QED
          BY <5>2
      <4> QED
        BY <4>1, <4>3, <4>4, <4>5
    <3> HIDE DEF Confirming, s
    <3>4. CASE answer \in Stated(inputs, "firstObserved", {inputs.asOf}, "KNOWN")
      <4>1. answer = [inputs EXCEPT !.temporal =
                         [t EXCEPT !["firstObserved"] = Dated(inputs.asOf, "KNOWN")]]
        BY <3>4 DEF Stated
      <4>2. s = inputs.asOf
        BY <1>1, <3>3, <4>1
      <4> QED
        BY <4>2
    <3>5. CASE /\ inputs.policy.acceptGoLive
               /\ answer \in Stated(inputs, "goLive", AdmissibleDates(inputs), "DECLARED")
      <4>1. PICK day \in AdmissibleDates(inputs) :
               answer = [inputs EXCEPT !.temporal =
                            [t EXCEPT !["goLive"] = Dated(day, "DECLARED")]]
        BY <3>5 DEF Stated
      <4>2. day \in Nat
        BY <1>1
      <4>3. s = day
        BY <3>3, <3>5, <4>1, <4>2
      <4> QED
        BY <1>1, <4>3
    <3> QED
      BY <2>4, <3>4, <3>5 DEF Answers
  <2> QED
    BY <2>3, <2>4
<1>15. CASE p <= s
  BY <1>1, <1>3, <1>13, <1>15
<1>16. CASE ~(p <= s)
  <2>1. s = inputs.asOf
    BY <1>1, <1>12, <1>14, <1>16
  <2>2. AsBadAs(At(inputs.asOf), answer)
    BY <1>1, <1>12, <1>13, <2>1
  <2> QED
    BY <1>3, <2>2
<1> QED
  BY <1>15, <1>16

(* A surface starts no later than the first thing a probe saw on it. *)
LEMMA ObservedStart ==
    ASSUME NEW inputs \in LedgerInputs, Observed(inputs), NEW i \in KnownIn(inputs.migrations)
    PROVE  StartDate(inputs) \in Nat /\ StartDate(inputs) <= inputs.migrations[i].at
<1> DEFINE t == inputs.temporal
           first == t.firstObserved
           at == inputs.migrations[i].at
<1>1. t \in TemporalType /\ inputs.policy \in PolicyType
  BY DEF LedgerInputs
<1>2. at \in Nat
  <2>1. i \in DOMAIN inputs.migrations
    BY DEF KnownIn
  <2> QED
    BY <2>1, InputsAreNumbered DEF Numbered
<1>3. /\ first # None /\ first.state = "KNOWN" /\ first.value <= at
      /\ inputs.policy.since # None => inputs.policy.since <= at
  BY DEF Observed
<1>4. first \in DateFields /\ first.value \in Nat
  BY <1>1, <1>3 DEF TemporalType, DateFields
<1>5. CASE inputs.policy.mode = "SINCE_DATE"
  BY <1>1, <1>2, <1>3, <1>5 DEF StartDate, PolicyType
<1>6. CASE inputs.policy.mode = "SINCE_POSSIBLE"
  <2> DEFINE fields == {t.notBefore, t.goLive, t.snapshot, t.firstObserved}
  <2>1. fields \in SUBSET DateFields /\ first \in fields
    BY <1>1 DEF TemporalType
  <2>2. StartDate(inputs) = EarliestDate(fields)
    BY <1>6 DEF StartDate, PossibleSince
  <2> HIDE DEF fields
  <2>3. EarliestDate(fields) \in Nat /\ EarliestDate(fields) <= first.value
    BY <1>3, <2>1, EarliestDateIs
  <2> HIDE DEF first, at
  <2>4. StartDate(inputs) \in Nat /\ StartDate(inputs) <= at
    BY <1>2, <1>3, <1>4, <2>2, <2>3
  <2> QED
    BY <2>4 DEF at
<1>7. CASE inputs.policy.mode \notin {"SINCE_DATE", "SINCE_POSSIBLE"}
  <2> DEFINE fields == {f \in {t.firstObserved} \ {None} : f.state = "KNOWN"}
                       \union {f \in {t.goLive} \ {None} :
                                  /\ inputs.policy.acceptGoLive
                                  /\ f.state \in {"DECLARED", "KNOWN"}}
  <2>1. fields \in SUBSET DateFields /\ first \in fields
    BY <1>1, <1>3 DEF TemporalType
  <2>2. StartDate(inputs) = EarliestDate(fields)
    BY <1>7 DEF StartDate, ConfirmedSince
  <2> HIDE DEF fields
  <2>3. EarliestDate(fields) \in Nat /\ EarliestDate(fields) <= first.value
    BY <1>3, <2>1, EarliestDateIs
  <2> HIDE DEF first, at
  <2>4. StartDate(inputs) \in Nat /\ StartDate(inputs) <= at
    BY <1>2, <1>3, <1>4, <2>2, <2>3
  <2> QED
    BY <2>4 DEF at
<1> QED
  BY <1>5, <1>6, <1>7

(* A surface without a stop is exposed from its start to the day of the run. *)
LEMMA NeverStopped ==
    ASSUME NEW start \in Nat, NEW asOf \in Nat, NEW deadline \in Int,
           Larger(start, deadline) < asOf
    PROVE  /\ [lo |-> Larger(start, deadline), hi |-> asOf]
                 \in WindowsOf(<<>>, start, deadline, asOf)
           /\ ~CurrentlyStopped(<<>>)
<1>1. KnownIn(<<>>) = {} /\ StopsIn(<<>>) = {} /\ ClassicalIn(<<>>) = {}
  BY DEF KnownIn, StopsIn, ClassicalIn
<1>2. Openings(<<>>) = {0} /\ ClosingDates(<<>>, 0) = {}
  BY <1>1 DEF Openings, ClosingDates
<1>3. EarliestOf({asOf} \union ClosingDates(<<>>, 0)) = asOf
  <2>1. {asOf} \in SUBSET Nat /\ {asOf} # {}
    OBVIOUS
  <2> QED
    BY <1>2, <2>1, EarliestExists
<1> DEFINE i == [lo |-> start, hi |-> asOf]
           w == [lo |-> Larger(i.lo, deadline), hi |-> Smaller(i.hi, asOf)]
<1>4. i \in ExposureIntervals(<<>>, start, asOf)
  <2>1. start <= asOf
    BY DEF Larger
  <2> QED
    BY <1>2, <1>3, <2>1 DEF ExposureIntervals
<1>5. w = [lo |-> Larger(start, deadline), hi |-> asOf]
  BY DEF Smaller
<1>6. w \in WindowsOf(<<>>, start, deadline, asOf)
  BY <1>4, <1>5 DEF WindowsOf
<1> QED
  BY <1>1, <1>5, <1>6 DEF CurrentlyStopped

(* Whatever a probe sees, the surface no evidence of a stop is known of is *)
(* as bad.                                                                 *)
LEMMA ProbeIsBracketed ==
    ASSUME NEW inputs \in LedgerInputs, Claims(inputs.migrations) # {},
           IsAuth(inputs) \/ StartDate(inputs) # None,
           NEW answer \in Probed(inputs), answer \in LedgerInputs, Observed(answer),
           RecordOf(answer).band # "UNBOUNDED"
    PROVE  \E c \in MigrationCandidates(inputs) : AsBadAs(c, answer)
<1> DEFINE c == [inputs EXCEPT !.migrations = <<>>]
           start == StartDate(inputs)
           D == Deadline(inputs.binding, inputs.z)
           asOf == inputs.asOf
<1>0. c \in MigrationCandidates(inputs)
  BY DEF MigrationCandidates
<1>1. /\ c.asOf = inputs.asOf /\ c.z = inputs.z /\ c.context = inputs.context
      /\ c.binding = inputs.binding /\ c.migrations = <<>> /\ c.policy = inputs.policy
      /\ c.temporal = inputs.temporal /\ c.authenticity = inputs.authenticity
      /\ c.signedAt = inputs.signedAt
  BY DEF LedgerInputs
<1>2. /\ answer.asOf = inputs.asOf /\ answer.z = inputs.z /\ answer.context = inputs.context
      /\ answer.binding = inputs.binding /\ answer.policy = inputs.policy
      /\ answer.authenticity = inputs.authenticity /\ answer.signedAt = inputs.signedAt
  BY ProbedIs
<1> HIDE DEF c
<1>3. StartDate(c) = start
  BY <1>1 DEF StartDate
<1>4. Numbered(inputs) /\ Numbered(answer)
  BY InputsAreNumbered
<1>5. Numbered(c)
  <2>1. DOMAIN c.migrations = {}
    BY <1>1
  <2>2. start # None => start \in Nat
    BY <1>4 DEF Numbered
  <2> HIDE DEF start
  <2> QED
    BY <1>1, <1>3, <1>4, <2>1, <2>2 DEF Numbered
<1>6. (IsAuth(answer) <=> IsAuth(inputs)) /\ (IsAuth(c) <=> IsAuth(inputs))
  BY <1>1, <1>2 DEF IsAuth
<1>7. CASE IsAuth(inputs)
  <2>1. AuthBand(answer) = AuthBand(c)
    BY <1>1, <1>2 DEF AuthBand, RequiredUntil
  <2>2. AuthEvaluate(answer).band = AuthEvaluate(c).band
    BY <1>1, <1>2, <2>1 DEF AuthEvaluate, AuthRecord
  <2>3. RecordOf(answer).band = RecordOf(c).band
    BY <1>6, <1>7, <2>2 DEF RecordOf
  <2>4. BandRank(RecordOf(c).band) <= BandRank(RecordOf(answer).band)
    BY <2>3, BandsAre
  <2> QED
    BY <1>0, <1>4, <1>5, <1>6, <1>7, <2>3, <2>4, NoWorseSignature
<1>8. CASE ~IsAuth(inputs)
  <2>1. Decided(answer)
    BY <1>6, <1>8, BandedIsDecided DEF RecordOf
  <2>2. start # None
    BY <1>8
  <2>3. Decided(c)
    BY <1>1, <1>2, <1>3, <2>1, <2>2 DEF Decided
  <2>4. start \in Nat /\ asOf \in Nat /\ D \in Int /\ StartDate(answer) \in Nat
    BY <1>2, <1>4, <2>1, <2>2 DEF Numbered, Decided, Deadline
  <2>5. StartDate(answer) \in {start, asOf}
    BY <2>2, ProbedStart
  <2>6. \A i \in DOMAIN answer.migrations : answer.migrations[i].at \in Nat
    BY <1>4 DEF Numbered
  <2>7. WindowsFor(answer) = WindowsOf(answer.migrations, StartDate(answer), D, asOf)
        /\ WindowsFor(c) = WindowsOf(<<>>, start, D, asOf)
        /\ Deadline(c.binding, c.z) = D /\ Deadline(answer.binding, answer.z) = D
    BY <1>1, <1>2, <1>3 DEF WindowsFor
  <2> HIDE DEF start, D, asOf
  <2>8. ASSUME NEW w \in WindowsFor(answer)
        PROVE  \E v \in WindowsFor(c) : w.hi - w.lo <= v.hi - v.lo
    <3>1. PICK i \in ExposureIntervals(answer.migrations, StartDate(answer), asOf) :
             w = [lo |-> Larger(i.lo, D), hi |-> Smaller(i.hi, asOf)] /\ w.lo < w.hi
      BY <2>7 DEF WindowsOf
    <3>2. i.lo \in Nat /\ i.hi \in Nat
      BY <2>4, <2>6, IntervalType
    <3> DEFINE ms == answer.migrations
               From(o) == [lo |-> IF o = 0 THEN StartDate(answer) ELSE ms[o].at,
                           hi |-> EarliestOf({asOf} \union ClosingDates(ms, o))]
    <3>3. i \in {From(o) : o \in Openings(ms)}
      BY DEF ExposureIntervals
    <3>4. PICK o \in Openings(ms) : i = From(o)
      BY <3>3
    <3>5. i.lo = IF o = 0 THEN StartDate(answer) ELSE answer.migrations[o].at
      BY <3>4
    <3>6. StartDate(answer) <= i.lo
      <4>1. CASE o = 0
        BY <2>4, <3>5, <4>1
      <4>2. CASE o # 0
        <5>1. o \in KnownIn(answer.migrations)
          BY <4>2 DEF Openings, ClassicalIn
        <5> QED
          BY <3>5, <4>2, <5>1, ObservedStart
      <4> QED
        BY <4>1, <4>2
    <3>7. /\ w.lo = Larger(i.lo, D) /\ w.hi = Smaller(i.hi, asOf) /\ w.lo < w.hi
      BY <3>1
    <3>8. /\ w.lo \in Int /\ w.hi \in Int /\ i.lo <= w.lo /\ D <= w.lo /\ w.hi <= asOf
      BY <2>4, <3>2, <3>7 DEF Larger, Smaller
    <3>9. start <= i.lo /\ start < asOf
      BY <2>4, <2>5, <3>2, <3>6, <3>7, <3>8
    <3>10. Larger(start, D) \in Int /\ Larger(start, D) <= w.lo /\ Larger(start, D) < asOf
      BY <2>4, <3>2, <3>7, <3>8, <3>9 DEF Larger
    <3> DEFINE v == [lo |-> Larger(start, D), hi |-> asOf]
    <3>11. v \in WindowsFor(c)
      BY <2>4, <2>7, <3>10, NeverStopped
    <3>12. w.hi - w.lo <= v.hi - v.lo
      BY <2>4, <3>8, <3>10
    <3> QED
      BY <3>11, <3>12
  <2>9. ~CurrentlyStopped(c.migrations)
    BY <1>1 DEF CurrentlyStopped, StopsIn, KnownIn
  <2>10. RecordOf(answer).band = "SAVABLE" => answer.asOf <= D
    <3>1. RecordOf(answer).band = BandOf(answer)
      BY <1>6, <1>8, <2>1, DecidedIs DEF RecordOf
    <3> QED
      BY <2>7, <3>1 DEF BandOf, BandFor
  <2>11. AsBadAs(c, answer)
    BY <1>1, <1>2, <1>4, <1>5, <1>6, <1>8, <2>1, <2>3, <2>7, <2>8, <2>9, <2>10, NoWorseThan
  <2> QED
    BY <1>0, <2>11
<1> QED
  BY <1>7, <1>8

(* The last day a signature may have been made on is as bad as any. *)
LEMMA SignatureDayIsBracketed ==
    ASSUME NEW inputs \in LedgerInputs, IsAuth(inputs), inputs.authenticity # None,
           NEW answer \in Answers("signed_at", inputs), RecordOf(answer).band # "UNBOUNDED"
    PROVE  \E c \in SignedAtCandidates(inputs) : AsBadAs(c, answer)
<1> DEFINE c == [inputs EXCEPT !.signedAt = inputs.asOf]
<1>1. PICK day \in AdmissibleDates(inputs) : answer = [inputs EXCEPT !.signedAt = day]
  BY DEF Answers
<1>2. /\ day \in Nat /\ inputs.asOf \in Nat /\ day <= inputs.asOf
  <2>1. AdmissibleDates(inputs) \subseteq Nat /\ inputs.asOf \in Nat
    BY DatesType
  <2>2. PossibleDates(inputs) # {} => PossibleSince(inputs.temporal) \in Nat
    BY DatesType DEF PossibleDates
  <2> QED
    BY <2>1, <2>2 DEF AdmissibleDates
<1>3. c \in SignedAtCandidates(inputs)
  BY DEF SignedAtCandidates
<1>4. c \in LedgerInputs /\ answer \in LedgerInputs
  BY <1>1, <1>2 DEF LedgerInputs
<1>5. /\ c.z = inputs.z /\ c.context = inputs.context /\ c.policy = inputs.policy
      /\ c.authenticity = inputs.authenticity /\ c.signedAt = inputs.asOf
      /\ answer.z = inputs.z /\ answer.context = inputs.context
      /\ answer.policy = inputs.policy /\ answer.authenticity = inputs.authenticity
      /\ answer.signedAt = day
  BY <1>1 DEF LedgerInputs
<1>6. IsAuth(c) /\ IsAuth(answer)
  BY <1>5 DEF IsAuth
<1>7. inputs.authenticity \in Nat /\ inputs.z \in Int
  BY DEF LedgerInputs
<1> HIDE DEF c
<1>8. AuthEvaluate(answer).band # "UNBOUNDED"
  BY <1>6 DEF RecordOf
<1>9. AuthEvaluate(answer).band = AuthBand(answer)
  BY <1>8 DEF AuthEvaluate, AuthRecord
<1>10. day # None /\ inputs.asOf # None
  BY <1>2, NoneAssumption
<1>11. AuthEvaluate(c).band = AuthBand(c)
  BY <1>5, <1>8, <1>10 DEF AuthEvaluate, AuthRecord
<1>12. day + inputs.authenticity > inputs.z => inputs.asOf + inputs.authenticity > inputs.z
  BY <1>2, <1>7
<1>13. BandRank(AuthBand(c)) <= BandRank(AuthBand(answer))
  <2>1. CASE inputs.authenticity = 0
    BY <1>5, <2>1 DEF AuthBand, BandRank
  <2>2. CASE inputs.authenticity # 0 /\ day + inputs.authenticity > inputs.z
    BY <1>5, <1>12, <2>2 DEF AuthBand, BandRank, RequiredUntil
  <2>3. CASE inputs.authenticity # 0 /\ ~(day + inputs.authenticity > inputs.z)
    <3>1. AuthBand(answer) = "SAFE_UNTIL_Z"
      BY <1>5, <2>3 DEF AuthBand, RequiredUntil
    <3>2. AuthBand(c) \in {"ROTATE_BEFORE_Z", "RESIGN_BEFORE_Z", "SAFE_UNTIL_Z"}
      BY DEF AuthBand
    <3> QED
      BY <3>1, <3>2 DEF BandRank
  <2> QED
    BY <2>1, <2>2, <2>3
<1>14. AuthBand(c) # "UNBOUNDED"
  BY DEF AuthBand
<1>15. RecordOf(c).band = AuthBand(c) /\ RecordOf(answer).band = AuthBand(answer)
  BY <1>6, <1>9, <1>11 DEF RecordOf
<1> QED
  BY <1>3, <1>4, <1>6, <1>13, <1>14, <1>15, InputsAreNumbered, NoWorseSignature

(* The two ends of the authenticity lifetimes: one of them is as bad.      *)
LEMMA AuthenticityIsBracketed ==
    ASSUME NEW inputs \in LedgerInputs, IsAuth(inputs),
           NEW answer \in Answers("authenticity_lifetime", inputs),
           RecordOf(answer).band # "UNBOUNDED"
    PROVE  \E c \in AuthenticityCandidates(inputs) : AsBadAs(c, answer)
<1> DEFINE sign == IF inputs.signedAt = None THEN inputs.asOf ELSE inputs.signedAt
           At(e) == [inputs EXCEPT !.binding = 0, !.authenticity = e, !.signedAt = sign]
<1>1. PICK a \in Authenticities : answer = [inputs EXCEPT !.binding = 0, !.authenticity = a]
  BY DEF Answers
<1>2. a \in Nat /\ LongA \in Nat /\ a <= LongA /\ 0 \in Nat
  BY CitedAssumption
<1>3. \A e \in {0, LongA} : At(e) \in AuthenticityCandidates(inputs)
  BY Zenon DEF AuthenticityCandidates
<1>4. sign \in Nat /\ inputs.z \in Int /\ (inputs.signedAt # None => sign = inputs.signedAt)
  BY DEF LedgerInputs
<1> HIDE DEF sign
<1>5. /\ answer \in LedgerInputs /\ answer.z = inputs.z /\ answer.context = inputs.context
      /\ answer.policy = inputs.policy /\ answer.authenticity = a
      /\ answer.signedAt = inputs.signedAt
  BY <1>1, <1>2 DEF LedgerInputs
<1>6. \A e \in Nat : /\ At(e) \in LedgerInputs /\ At(e).z = inputs.z
                     /\ At(e).context = inputs.context /\ At(e).policy = inputs.policy
                     /\ At(e).authenticity = e /\ At(e).signedAt = sign
  BY <1>4 DEF LedgerInputs
<1> HIDE DEF At
<1>7. IsAuth(answer) /\ \A e \in Nat : IsAuth(At(e))
  BY <1>5, <1>6 DEF IsAuth
<1>8. AuthEvaluate(answer).band # "UNBOUNDED"
  BY <1>7 DEF RecordOf
<1>9. AuthEvaluate(answer).band = AuthBand(answer)
  BY <1>8 DEF AuthEvaluate, AuthRecord
<1>10. a # None /\ sign # None
  BY <1>2, <1>4, NoneAssumption
<1>11. ASSUME NEW e \in Nat
       PROVE  RecordOf(At(e)).band = AuthBand(At(e)) /\ RecordOf(At(e)).band # "UNBOUNDED"
  <2>1. e # None
    BY NoneAssumption
  <2>2. AuthEvaluate(At(e)).band = AuthBand(At(e))
    BY <1>5, <1>6, <1>8, <1>10, <2>1 DEF AuthEvaluate, AuthRecord
  <2>3. AuthBand(At(e)) # "UNBOUNDED"
    BY DEF AuthBand
  <2> QED
    BY <1>7, <2>2, <2>3 DEF RecordOf
<1>12. RecordOf(answer).band = AuthBand(answer)
  BY <1>7, <1>9 DEF RecordOf
<1>13. ASSUME NEW e \in {0, LongA},
              BandRank(AuthBand(At(e))) <= BandRank(AuthBand(answer))
       PROVE  \E c \in AuthenticityCandidates(inputs) : AsBadAs(c, answer)
  <2>1. e \in Nat
    BY <1>2
  <2>2. AsBadAs(At(e), answer)
    BY <1>5, <1>6, <1>7, <1>11, <1>12, <1>13, <2>1, InputsAreNumbered, NoWorseSignature
  <2> QED
    BY <1>3, <2>2
<1>14. CASE a = 0
  <2>1. AuthBand(At(0)) = "ROTATE_BEFORE_Z" /\ AuthBand(answer) = "ROTATE_BEFORE_Z"
    BY <1>2, <1>5, <1>6, <1>14 DEF AuthBand
  <2> QED
    BY <1>13, <2>1 DEF BandRank
<1>15. CASE a # 0
  <2>1. inputs.signedAt # None
    BY <1>5, <1>8, <1>10, <1>15 DEF AuthEvaluate, AuthRecord
  <2>2. CASE sign + a > inputs.z
    <3>1. LongA # 0 /\ sign + LongA > inputs.z
      BY <1>2, <1>4, <1>15, <2>2
    <3>2. AuthBand(At(LongA)) = "RESIGN_BEFORE_Z" /\ AuthBand(answer) = "RESIGN_BEFORE_Z"
      BY <1>2, <1>4, <1>5, <1>6, <1>15, <2>1, <2>2, <3>1 DEF AuthBand, RequiredUntil
    <3> QED
      BY <1>13, <3>2 DEF BandRank
  <2>3. CASE ~(sign + a > inputs.z)
    <3>1. AuthBand(answer) = "SAFE_UNTIL_Z"
      BY <1>4, <1>5, <1>15, <2>1, <2>3 DEF AuthBand, RequiredUntil
    <3>2. AuthBand(At(0)) = "ROTATE_BEFORE_Z"
      BY <1>2, <1>6 DEF AuthBand
    <3> QED
      BY <1>13, <3>1, <3>2 DEF BandRank
  <2> QED
    BY <2>2, <2>3
<1> QED
  BY <1>14, <1>15

-----------------------------------------------------------------------------
(* What a merged task promises. *)

(* Whatever a task tries is of the day of the run, and in numbers. *)
LEMMA CandidatesAreNumbered ==
    ASSUME NEW inputs \in LedgerInputs, NEW key \in Keys, NEW c \in Candidates(key, inputs)
    PROVE  Numbered(c) /\ c.asOf = inputs.asOf
<1>1. Numbered(inputs) /\ inputs.asOf \in Nat
  BY InputsAreNumbered DEF LedgerInputs
<1>2. PossibleDates(inputs) \subseteq Nat
  BY DatesType DEF PossibleDates
<1>3. CASE key = "function"
  BY <1>3 DEF Candidates
<1>4. CASE key = "algorithm_family"
  <2>1. c \in AlgorithmCandidates(inputs)
    BY <1>4 DEF Candidates
  <2>2. c \in LedgerInputs
    BY <2>1, ContextAnswers DEF Answers
  <2>3. c.asOf = inputs.asOf
    BY <2>1 DEF AlgorithmCandidates, WithFamily, LedgerInputs
  <2> QED
    BY <2>2, <2>3, InputsAreNumbered
<1>5. CASE key \in {"inferred_algorithm", "inferred_function"}
  <2>1. c = [inputs EXCEPT !.policy.acceptInferred = TRUE]
    BY <1>5 DEF Candidates, AcceptInferredCandidates
  <2>2. /\ c.asOf = inputs.asOf /\ c.z = inputs.z /\ c.context = inputs.context
        /\ c.binding = inputs.binding /\ c.migrations = inputs.migrations
        /\ StartDate(c) = StartDate(inputs)
    BY <2>1, CandidateFields, 0 \in Nat
  <2> QED
    BY <1>1, <2>2 DEF Numbered
<1>6. CASE key = "data_class_binding"
  <2>1. c \in BindingCandidates(inputs)
    BY <1>6 DEF Candidates
  <2>2. c \in Answers("data_class_binding", inputs)
    BY <2>1, CitedAssumption DEF Answers, BindingCandidates
  <2>3. c \in LedgerInputs
    BY <2>2, LifetimeAnswers
  <2>4. c.asOf = inputs.asOf
    BY <2>1 DEF BindingCandidates, WithBinding, LedgerInputs
  <2> QED
    BY <2>3, <2>4, InputsAreNumbered
<1>7. CASE key \in {"start_confirmed", "start_possible"}
  <2>1. c \in StartCandidates(inputs)
    BY <1>7 DEF Candidates
  <2>2. PICK day \in Nat : c = WithStart(inputs, day)
    BY <1>1, <1>2, <2>1 DEF StartCandidates
  <2>3. /\ c.asOf = inputs.asOf /\ c.z = inputs.z /\ c.context = inputs.context
        /\ c.binding = inputs.binding /\ c.migrations = inputs.migrations
        /\ StartDate(c) = day
    BY <2>2, CandidateFields
  <2> QED
    BY <1>1, <2>3 DEF Numbered
<1>8. CASE key = "migration_observation"
  <2> DEFINE ms == inputs.migrations
             confirmed == [i \in Claims(ms) |-> Confirmed(ms[i])]
  <2>1. c \in {[inputs EXCEPT !.migrations = confirmed], [inputs EXCEPT !.migrations = <<>>]}
    BY <1>8 DEF Candidates, MigrationCandidates
  <2>2. /\ DOMAIN confirmed = Claims(ms) /\ Claims(ms) \subseteq DOMAIN ms
        /\ \A i \in DOMAIN confirmed : confirmed[i].at = ms[i].at
    <3>1. \A i \in DOMAIN ms : ms[i] \in EventType
      BY DEF LedgerInputs
    <3>2. \A m \in EventType : Confirmed(m).at = m.at
      BY DEF Confirmed, EventType
    <3> QED
      BY <3>1, <3>2 DEF Claims
  <2> HIDE DEF confirmed
  <2>3. /\ c.asOf = inputs.asOf /\ c.z = inputs.z /\ c.context = inputs.context
        /\ c.binding = inputs.binding /\ c.policy = inputs.policy
        /\ c.temporal = inputs.temporal /\ c.migrations \in {confirmed, <<>>}
    BY <2>1 DEF LedgerInputs
  <2>4. StartDate(c) = StartDate(inputs)
    BY <2>3 DEF StartDate
  <2>5. \A i \in DOMAIN c.migrations : c.migrations[i].at \in Nat
    <3>1. CASE c.migrations = confirmed
      BY <1>1, <2>2, <3>1 DEF Numbered
    <3>2. CASE c.migrations = <<>>
      <4>1. DOMAIN c.migrations = {}
        BY <3>2
      <4> QED
        BY <4>1
    <3> QED
      BY <2>3, <3>1, <3>2
  <2> QED
    BY <1>1, <2>3, <2>4, <2>5 DEF Numbered
<1>9. CASE key = "signed_at"
  <2>1. PICK day \in Nat : c = [inputs EXCEPT !.signedAt = day]
    BY <1>1, <1>2, <1>9 DEF Candidates, SignedAtCandidates
  <2>2. c \in LedgerInputs /\ c.asOf = inputs.asOf
    BY <2>1 DEF LedgerInputs
  <2> QED
    BY <2>2, InputsAreNumbered
<1>10. CASE key = "authenticity_lifetime"
  <2> DEFINE sign == IF inputs.signedAt = None THEN inputs.asOf ELSE inputs.signedAt
  <2>1. PICK a \in {0, LongA} :
            c = [inputs EXCEPT !.binding = 0, !.authenticity = a, !.signedAt = sign]
    BY <1>10 DEF Candidates, AuthenticityCandidates
  <2>2. a \in Nat /\ sign \in Nat
    BY CitedAssumption DEF LedgerInputs
  <2> HIDE DEF sign
  <2>3. c \in LedgerInputs /\ c.asOf = inputs.asOf
    BY <2>1, <2>2 DEF LedgerInputs
  <2> QED
    BY <2>3, InputsAreNumbered
<1> QED
  BY <1>3, <1>4, <1>5, <1>6, <1>7, <1>8, <1>9, <1>10 DEF Keys

(* A merged task keeps the promise it makes for each of its rows.          *)
LEMMA PromiseIsKept ==
    ASSUME RowsInv, NEW task \in Queue, NEW r \in task.rows,
           NEW c \in Candidates(task.key, rows[r]), RecordOf(c).band # "UNBOUNDED"
    PROVE  /\ WorstRank(task) \in 0 .. 4 /\ WorstRank(task) <= BandRank(RecordOf(c).band)
           /\ task.longest \in Nat /\ LongestWindow(RecordOf(c)) <= task.longest
<1> DEFINE key == task.key
           outcomes == UNION {Outcomes(key, rows[q]) : q \in Waiting(key)}
<1>1. /\ key \in Keys /\ task.rows = Waiting(key) /\ task = TaskOf(key)
      /\ r \in Waiting(key)
  BY HeadsAre
<1>2. /\ task.bands = {o.band : o \in outcomes}
      /\ task.longest = MaxOf({0} \union {LongestWindow(o) : o \in outcomes})
  <2>1. /\ TaskOf(key).bands = {o.band : o \in outcomes}
        /\ TaskOf(key).longest = MaxOf({0} \union {LongestWindow(o) : o \in outcomes})
    BY DEF TaskOf
  <2> HIDE DEF outcomes
  <2> QED
    BY <1>1, <2>1
<1>3. RecordOf(c) \in outcomes
  BY <1>1 DEF Outcomes
<1>4. PICK b \in Nat : \A q \in Waiting(key) : rows[q].asOf <= b
  <2> DEFINE day == [q \in Rows |-> IF rows[q] = None THEN 0 ELSE rows[q].asOf]
  <2>1. \A q \in Rows : rows[q] # None => rows[q] \in LedgerInputs
    BY DEF RowsInv
  <2>2. \A q \in Rows : rows[q] # None => rows[q].asOf \in Nat
    BY <2>1 DEF LedgerInputs
  <2>3. day \in [Rows -> Nat]
    BY <2>2
  <2>4. \A q \in Waiting(key) : q \in Rows /\ day[q] = rows[q].asOf
    BY DEF Waiting
  <2> HIDE DEF day
  <2>5. \E b \in Nat : \A q \in Rows : day[q] <= b
    BY <2>3, RowsAssumption, FiniteBound
  <2> QED
    BY <2>4, <2>5
<1>5. ASSUME NEW o \in outcomes
      PROVE  /\ BandRank(o.band) \in 0 .. 4
             /\ LongestWindow(o) \in Nat /\ LongestWindow(o) <= b
  <2>1. PICK q \in Waiting(key) : o \in Outcomes(key, rows[q])
    OBVIOUS
  <2>2. PICK d \in Candidates(key, rows[q]) : o = RecordOf(d)
    BY <2>1 DEF Outcomes
  <2>3. rows[q] \in LedgerInputs /\ rows[q].asOf \in Nat /\ rows[q].asOf <= b
    BY <1>4 DEF Waiting, RowsInv, LedgerInputs
  <2>4. Numbered(d) /\ d.asOf = rows[q].asOf
    BY <1>1, <2>2, <2>3, CandidatesAreNumbered
  <2>5. LongestWindow(o) \in Nat /\ LongestWindow(o) <= rows[q].asOf
    BY <2>2, <2>4, LongestIs
  <2>6. BandRank(o.band) \in 0 .. 4
    BY <2>2, BandsAre
  <2> QED
    BY <1>4, <2>3, <2>5, <2>6
<1> HIDE DEF outcomes, key
<1>6. task.longest \in Nat /\ LongestWindow(RecordOf(c)) <= task.longest
  <2> DEFINE S == {0} \union {LongestWindow(o) : o \in outcomes}
  <2>1. S \in SUBSET Nat /\ S # {} /\ \A s \in S : s <= b
    BY <1>4, <1>5
  <2>2. LongestWindow(RecordOf(c)) \in S /\ task.longest = MaxOf(S)
    BY <1>2, <1>3
  <2> HIDE DEF S
  <2>3. MaxOf(S) \in S /\ \A s \in S : s <= MaxOf(S)
    BY <1>4, <2>1, MaxExists
  <2> QED
    BY <2>1, <2>2, <2>3
<1>7. WorstRank(task) \in 0 .. 4 /\ WorstRank(task) <= BandRank(RecordOf(c).band)
  <2> DEFINE ranks == {BandRank(band) : band \in task.bands}
  <2>1. task.bands # {} /\ BandRank(RecordOf(c).band) \in ranks
    BY <1>2, <1>3
  <2>2. ranks \subseteq 0 .. 4
    BY <1>2, <1>5
  <2>3. WorstRank(task) = CHOOSE n \in 0 .. 4 : n \in ranks /\ \A k \in ranks : n <= k
    BY <2>1 DEF WorstRank
  <2> HIDE DEF ranks
  <2>4. EarliestOf(ranks) \in ranks /\ \A k \in ranks : EarliestOf(ranks) <= k
    <3>1. ranks \in SUBSET Nat /\ ranks # {}
      BY <2>1, <2>2
    <3> QED
      BY <3>1, EarliestExists
  <2>5. \E n \in 0 .. 4 : n \in ranks /\ \A k \in ranks : n <= k
    BY <2>2, <2>4
  <2>6. WorstRank(task) \in 0 .. 4 /\ \A k \in ranks : WorstRank(task) <= k
    BY <2>3, <2>5
  <2> QED
    BY <2>1, <2>6
<1> QED
  BY <1>6, <1>7

-----------------------------------------------------------------------------
(* The rows stay observed. *)

QueueInv ==
    /\ RowsInv
    /\ \A r \in Rows : rows[r] # None => Observed(rows[r])

LEMMA SameObserved ==
    ASSUME NEW inputs, NEW answer, Observed(inputs),
           answer.asOf = inputs.asOf, answer.policy = inputs.policy,
           answer.migrations = inputs.migrations,
           answer.temporal.firstObserved = inputs.temporal.firstObserved
    PROVE  Observed(answer)
<1>1. KnownIn(answer.migrations) = KnownIn(inputs.migrations)
  OBVIOUS
<1> QED
  BY <1>1 DEF Observed

LEMMA AnswersStayObserved ==
    ASSUME NEW inputs \in LedgerInputs, Observed(inputs), NEW key \in Keys,
           key \in MissingInputs(inputs), NEW answer \in Answers(key, inputs)
    PROVE  Observed(answer)
<1> DEFINE t == inputs.temporal
<1>0. /\ t \in TemporalType /\ inputs.asOf \in Nat /\ inputs.policy \in PolicyType
      /\ answer \in LedgerInputs
  BY AnswersAreInputs DEF LedgerInputs
<1>1. CASE key \in {"function", "algorithm_family", "inferred_function", "inferred_algorithm"}
  <2>1. \E context : answer = [inputs EXCEPT !.context = context]
    BY <1>1 DEF Answers, Classified, AlgorithmCandidates, WithFamily, Certain
  <2>2. /\ answer.asOf = inputs.asOf /\ answer.policy = inputs.policy
        /\ answer.migrations = inputs.migrations /\ answer.temporal = t
    BY <2>1 DEF LedgerInputs
  <2> QED
    BY <2>2, SameObserved
<1>2. CASE key \in {"data_class_binding", "authenticity_lifetime", "signed_at"}
  <2>1. /\ answer.asOf = inputs.asOf /\ answer.policy = inputs.policy
        /\ answer.migrations = inputs.migrations /\ answer.temporal = t
    BY <1>2 DEF Answers, WithBinding, LedgerInputs
  <2> QED
    BY <2>1, SameObserved
<1>3. CASE key = "start_possible"
  <2>1. PICK day \in AdmissibleDates(inputs) :
          answer = [inputs EXCEPT !.temporal = [t EXCEPT !["notBefore"] = Dated(day, "KNOWN")]]
    BY <1>3 DEF Answers, Stated
  <2> DEFINE u == [t EXCEPT !["notBefore"] = Dated(day, "KNOWN")]
  <2>2. u.firstObserved = t.firstObserved
    BY <1>0 DEF TemporalType
  <2> HIDE DEF u
  <2>3. /\ answer.asOf = inputs.asOf /\ answer.policy = inputs.policy
        /\ answer.migrations = inputs.migrations /\ answer.temporal = u
    BY <2>1 DEF LedgerInputs, u
  <2> QED
    BY <2>2, <2>3, SameObserved
<1>4. CASE key = "start_confirmed"
  <2>1. CASE answer \in Stated(inputs, "goLive", AdmissibleDates(inputs), "DECLARED")
    <3>1. PICK day \in AdmissibleDates(inputs) :
            answer = [inputs EXCEPT !.temporal = [t EXCEPT !["goLive"] = Dated(day, "DECLARED")]]
      BY <2>1 DEF Stated
    <3> DEFINE u == [t EXCEPT !["goLive"] = Dated(day, "DECLARED")]
    <3>2. u.firstObserved = t.firstObserved
      BY <1>0 DEF TemporalType
    <3> HIDE DEF u
    <3>3. /\ answer.asOf = inputs.asOf /\ answer.policy = inputs.policy
          /\ answer.migrations = inputs.migrations /\ answer.temporal = u
      BY <3>1 DEF LedgerInputs, u
    <3> QED
      BY <3>2, <3>3, SameObserved
  <2>2. CASE answer \in Stated(inputs, "firstObserved", {inputs.asOf}, "KNOWN")
    <3> DEFINE d == Dated(inputs.asOf, "KNOWN")
               u == [t EXCEPT !["firstObserved"] = d]
    <3>1. answer = [inputs EXCEPT !.temporal = u]
      BY <2>2 DEF Stated
    <3>2. u.firstObserved = d /\ d.state = "KNOWN" /\ d.value = inputs.asOf
      BY <1>0 DEF TemporalType, Dated
    <3> HIDE DEF u, d
    <3>3. /\ answer.asOf = inputs.asOf /\ answer.policy = inputs.policy
          /\ answer.migrations = inputs.migrations /\ answer.temporal = u
      BY <3>1 DEF LedgerInputs
    <3>4. KnownIn(inputs.migrations) = {}
      <4>1. StartDate(inputs) = None
        BY <1>4, MissingMeans, StartOf
      <4> QED
        BY <4>1, ObservedStart, NoneAssumption
    <3>5. inputs.policy.since # None => inputs.policy.since <= inputs.asOf
      BY DEF Observed
    <3>6. inputs.asOf <= inputs.asOf
      BY <1>0
    <3> QED
      BY <3>2, <3>3, <3>4, <3>5, <3>6 DEF Observed
  <2> QED
    BY <1>4, <2>1, <2>2 DEF Answers
<1>5. CASE key = "migration_observation"
  <2>1. answer \in Probed(inputs)
    BY <1>5 DEF Answers
  <2>2. answer.asOf = inputs.asOf /\ answer.policy = inputs.policy
    BY <2>1, ProbedIs
  <2> DEFINE first == t.firstObserved
             now == answer.temporal.firstObserved
  <2>3. /\ now # None /\ now.state = "KNOWN" /\ now.value <= inputs.asOf
        /\ first # None => now = first
    <3>1. CASE first # None
      BY <2>1, <3>1, ProbedIs DEF Observed
    <3>2. CASE first = None
      <4> DEFINE d == Dated(inputs.asOf, "KNOWN")
      <4>1. d \in [value : Nat, state : EpistemicState]
        BY <1>0 DEF Dated, EpistemicState
      <4>2. d # None /\ d.state = "KNOWN" /\ d.value = inputs.asOf
        BY <4>1, NoneAssumption DEF Dated
      <4>3. answer.temporal = [t EXCEPT !.firstObserved = d]
        BY <2>1, <3>2, ProbedIs
      <4> HIDE DEF d
      <4>4. now = d
        BY <1>0, <4>3 DEF TemporalType
      <4> QED
        BY <1>0, <3>2, <4>2, <4>4
    <3> QED
      BY <3>1, <3>2
  <2>4. inputs.policy.since # None => inputs.policy.since <= inputs.asOf
    BY DEF Observed
  <2>5. ASSUME NEW i \in KnownIn(answer.migrations)
        PROVE  /\ now.value <= answer.migrations[i].at
               /\ inputs.policy.since # None =>
                     inputs.policy.since <= answer.migrations[i].at
    <3>1. i \in DOMAIN inputs.migrations
      BY <2>1, ProbedIs DEF KnownIn
    <3>2. CASE IsClaim(inputs.migrations[i])
      <4>1. answer.migrations[i].at = inputs.asOf
        BY <2>1, <3>1, <3>2, ProbedIs
      <4> QED
        BY <2>3, <2>4, <4>1
    <3>3. CASE ~IsClaim(inputs.migrations[i])
      <4>1. answer.migrations[i] = inputs.migrations[i]
        BY <2>1, <3>1, <3>3, ProbedIs
      <4>2. i \in KnownIn(inputs.migrations)
        BY <3>1, <4>1 DEF KnownIn
      <4>3. /\ first # None /\ first.value <= inputs.migrations[i].at
            /\ inputs.policy.since # None =>
                  inputs.policy.since <= inputs.migrations[i].at
        BY <4>2 DEF Observed
      <4> QED
        BY <2>3, <4>1, <4>3
    <3> QED
      BY <3>2, <3>3
  <2> HIDE DEF first, now
  <2> QED
    BY <2>2, <2>3, <2>4, <2>5 DEF Observed, now
<1> QED
  BY <1>1, <1>2, <1>3, <1>4, <1>5 DEF Keys

(* A row of the run is LedgerInputs, observed, at every step of the        *)
(* operator: an answer never dates an observation after the scan that made *)
(* it, nor a change before the surface was seen.                           *)
THEOREM RowsStayObserved == Spec => []QueueInv
<1>1. Init => \A r \in Rows : rows[r] # None => Observed(rows[r])
  BY SubjectAssumption DEF Init
<1>2. RowsInv /\ QueueInv /\ RowsInv' /\ [Next]_vars => QueueInv'
  <2> SUFFICES ASSUME RowsInv, QueueInv, RowsInv', [Next]_vars, NEW q \in Rows,
                      rows'[q] # None
               PROVE  Observed(rows'[q])
    BY DEF QueueInv
  <2>1. rows[q] # None => Observed(rows[q])
    BY DEF QueueInv
  <2>2. CASE Collect
    <3>1. PICK task \in Heads : \E r \in task.rows :
              \E answer \in Answers(task.key, rows[r]) : rows' = [rows EXCEPT ![r] = answer]
      BY <2>2 DEF Collect
    <3>2. PICK r \in task.rows :
              \E answer \in Answers(task.key, rows[r]) : rows' = [rows EXCEPT ![r] = answer]
      BY <3>1
    <3>3. PICK answer \in Answers(task.key, rows[r]) : rows' = [rows EXCEPT ![r] = answer]
      BY <3>2
    <3>4. task \in Queue
      BY DEF Heads
    <3>5. /\ task.key \in Keys /\ r \in Rows /\ rows[r] # None /\ rows[r] \in LedgerInputs
          /\ task.key \in MissingInputs(rows[r])
      BY <3>2, <3>4, HeadsAre
    <3>6. Observed(rows[r])
      BY <3>5 DEF QueueInv
    <3>7. Observed(answer)
      BY <3>3, <3>5, <3>6, AnswersStayObserved
    <3>8. rows'[q] = IF q = r THEN answer ELSE rows[q]
      BY <3>3, <3>5 DEF RowsInv
    <3> QED
      BY <2>1, <3>7, <3>8
  <2>3. CASE Refute
    <3>1. \E r \in Rows : rows' = [rows EXCEPT ![r] = None]
      <4>1. PICK task \in Heads : \E r \in task.rows : rows' = [rows EXCEPT ![r] = None]
        BY <2>3 DEF Refute
      <4>2. task \in Queue
        BY DEF Heads
      <4> QED
        BY <4>1, <4>2, HeadsAre
    <3> QED
      BY <2>1, <3>1 DEF RowsInv
  <2>4. CASE UNCHANGED vars
    BY <2>1, <2>4 DEF vars
  <2> QED
    BY <2>2, <2>3, <2>4 DEF Next
<1>3. RowsInv /\ (\A r \in Rows : rows[r] # None => Observed(rows[r])) => QueueInv
  BY DEF QueueInv
<1> QED
  BY <1>1, <1>2, <1>3, RowsAreInputs, PTL DEF Spec

-----------------------------------------------------------------------------
(* What a task promises is at least as bad as what is found.               *)

(* For every answer there is a candidate as bad as it: the band the row    *)
(* reaches lies between those the engine tried (closure/engine.py), or the *)
(* answer is a lifetime below those, with nothing lost and windows as long.*)
LEMMA AnswerIsBracketed ==
    ASSUME NEW inputs \in LedgerInputs, Observed(inputs), NEW key \in Keys, key # "function",
           key \in MissingInputs(inputs), Bounded(key, inputs),
           NEW answer \in Answers(key, inputs), RecordOf(answer).band # "UNBOUNDED"
    PROVE  \E c \in Candidates(key, inputs) :
              \/ AsBadAs(c, answer)
              \/ key = "data_class_binding" /\ Untried(answer) /\ AsLongAs(c, answer)
<1>1. answer \in LedgerInputs /\ Observed(answer)
  BY AnswersAreInputs, AnswersStayObserved
<1>2. CASE key = "algorithm_family"
  <2>1. answer \in Candidates(key, inputs)
    BY <1>2 DEF Answers, Candidates
  <2> QED
    BY <1>1, <2>1, InputsAreNumbered, AsBadAsItself
<1>3. CASE key \in {"inferred_function", "inferred_algorithm"}
  <2> DEFINE accepted == [inputs EXCEPT !.policy.acceptInferred = TRUE]
  <2>1. accepted \in Candidates(key, inputs)
    BY <1>3 DEF Candidates, AcceptInferredCandidates
  <2>2. PICK field \in {"fnState", "familyState"} : answer = Certain(inputs, field)
    BY <1>3 DEF Answers
  <2>3. inputs.context.fnState # "UNKNOWN"
    BY <1>3, MissingMeans
  <2>4. AsBadAs(accepted, answer)
    BY <2>2, <2>3, ConfirmedIsAccepted
  <2> HIDE DEF accepted
  <2> QED
    BY <2>1, <2>4
<1>4. CASE key = "data_class_binding"
  <2>1. PICK x \in Lifetimes : answer = WithBinding(inputs, x)
    BY <1>4 DEF Answers
  <2>2. ~IsAuth(inputs) /\ Candidates(key, inputs) = BindingCandidates(inputs)
    BY <1>4, MissingMeans DEF Candidates
  <2> QED
    BY <1>4, <2>1, <2>2, LifetimeIsBracketed
<1>5. CASE key \in {"start_confirmed", "start_possible"}
  <2>1. PossibleDates(inputs) # {} /\ Candidates(key, inputs) = StartCandidates(inputs)
    BY <1>5 DEF Bounded, Candidates
  <2> QED
    BY <1>5, <2>1, StartIsBracketed
<1>6. CASE key = "migration_observation"
  <2>1. /\ answer \in Probed(inputs) /\ Candidates(key, inputs) = MigrationCandidates(inputs)
        /\ IsAuth(inputs) \/ StartDate(inputs) # None
    BY <1>6 DEF Bounded, Candidates, Answers
  <2>2. Claims(inputs.migrations) # {}
    BY <1>6, MissingMeans
  <2> QED
    BY <1>1, <2>1, <2>2, ProbeIsBracketed
<1>7. CASE key = "signed_at"
  <2>1. /\ IsAuth(inputs) /\ inputs.authenticity # None
        /\ Candidates(key, inputs) = SignedAtCandidates(inputs)
    BY <1>7, MissingMeans DEF Candidates
  <2> QED
    BY <1>7, <2>1, SignatureDayIsBracketed
<1>8. CASE key = "authenticity_lifetime"
  <2>1. IsAuth(inputs) /\ Candidates(key, inputs) = AuthenticityCandidates(inputs)
    BY <1>8, MissingMeans DEF Candidates
  <2> QED
    BY <1>8, <2>1, AuthenticityIsBracketed
<1> QED
  BY <1>2, <1>3, <1>4, <1>5, <1>6, <1>7, <1>8 DEF Keys

(* A task that asks for the usage promises no band. *)
LEMMA UsagePromisesNothing ==
    ASSUME NEW task, task = TaskOf("function")
    PROVE  task.bands = {}
<1> DEFINE outcomes == UNION {Outcomes("function", rows[q]) : q \in Waiting("function")}
<1>1. \A inputs : Candidates("function", inputs) = {}
  BY DEF Candidates
<1>2. \A inputs : Outcomes("function", inputs) = {}
  BY <1>1 DEF Outcomes
<1>3. outcomes = {}
  BY <1>2
<1>4. TaskOf("function").bands = {o.band : o \in outcomes}
  BY DEF TaskOf
<1> HIDE DEF outcomes
<1> QED
  BY <1>3, <1>4

(* A record carries the inputs it was made of. *)
LEMMA RecordKeepsInputs == ASSUME NEW inputs PROVE RecordOf(inputs).inputs = inputs
<1>1. Evaluate(inputs).inputs = inputs
  BY DEF Evaluate, Unbounded
<1>2. AuthEvaluate(inputs).inputs = inputs
  BY DEF AuthEvaluate, AuthRecord
<1> QED
  BY <1>1, <1>2 DEF RecordOf

(* The queue never understates a task: whatever the operator finds, of the *)
(* cited lifetimes and the dates the row admits, the band of the row is no *)
(* worse than the worst its task promised and no window is longer, for     *)
(* every set of rows merged into the task (closure/engine.py); except that *)
(* a lifetime shorter than those tried may turn SAFE into SAVABLE.         *)
THEOREM NothingIsUnderstated == Spec => []AnswerIsNoWorse
<1>1. QueueInv => AnswerIsNoWorse
  <2> SUFFICES ASSUME QueueInv, NEW task \in Queue, NEW r \in task.rows,
                      task.bands # {}, Bounded(task.key, rows[r]),
                      NEW answer \in Answers(task.key, rows[r]),
                      RecordOf(answer).band # "UNBOUNDED"
               PROVE  /\ \/ BandRank(RecordOf(answer).band) >= WorstRank(task)
                         \/ BelowTheTried(task, RecordOf(answer))
                      /\ LongestWindow(RecordOf(answer)) <= task.longest
    BY DEF AnswerIsNoWorse, Promised
  <2>1. /\ RowsInv /\ task.key \in Keys /\ task = TaskOf(task.key)
        /\ r \in Rows /\ rows[r] # None /\ rows[r] \in LedgerInputs
        /\ task.key \in MissingInputs(rows[r])
    BY HeadsAre DEF QueueInv
  <2>2. Observed(rows[r]) /\ task.key # "function"
    BY <2>1, UsagePromisesNothing DEF QueueInv
  <2>3. PICK c \in Candidates(task.key, rows[r]) :
          \/ AsBadAs(c, answer)
          \/ task.key = "data_class_binding" /\ Untried(answer) /\ AsLongAs(c, answer)
    BY <2>1, <2>2, AnswerIsBracketed
  <2>4. /\ RecordOf(c).band # "UNBOUNDED"
        /\ \/ BandRank(RecordOf(c).band) <= BandRank(RecordOf(answer).band)
           \/ BelowTheTried(task, RecordOf(answer))
        /\ LongestWindow(RecordOf(answer)) <= LongestWindow(RecordOf(c))
    BY <2>3, RecordKeepsInputs DEF AsBadAs, AsLongAs, Untried, BelowTheTried
  <2>5. /\ WorstRank(task) \in 0 .. 4 /\ WorstRank(task) <= BandRank(RecordOf(c).band)
        /\ task.longest \in Nat /\ LongestWindow(RecordOf(c)) <= task.longest
    BY <2>1, <2>4, PromiseIsKept
  <2>6. BandRank(RecordOf(c).band) \in 0 .. 4 /\ BandRank(RecordOf(answer).band) \in 0 .. 4
    BY BandsAre
  <2>7. LongestWindow(RecordOf(c)) \in Nat /\ LongestWindow(RecordOf(answer)) \in Nat
    BY <2>1, AnswersAreInputs, CandidatesAreNumbered, InputsAreNumbered, LongestIs
  <2> QED
    BY <2>4, <2>5, <2>6, <2>7
<1> QED
  BY <1>1, RowsStayObserved, PTL
=============================================================================
