------------------------------- MODULE Closure -------------------------------
(***************************************************************************)
(* The evidence closure engine (src/ecdat/closure/engine.py) and the       *)
(* operator who works its queue.  Every row of a run is asked which inputs *)
(* it waits on; for each one the ledger is run again over candidate values *)
(* and the bands it reaches are the task's promise.  The tasks of all rows *)
(* are merged by key and ranked.                                           *)
(*                                                                         *)
(* The operator collects what the head of the queue asks for, for one of   *)
(* its rows; the next run evaluates the row with the answer.  What may be  *)
(* answered is any admissible value, not only the candidates.              *)
(***************************************************************************)
EXTENDS AuthenticationLedger

CONSTANTS
    Rows,              \* the rows of the run
    SubjectsOf,        \* row -> the inputs it may start with
    Lifetimes,         \* the cited secrecy lifetimes X, in days
    ShortX, LongX,     \* TEST.X_1Y and TEST.X_25Y
    Authenticities,    \* the cited authenticity lifetimes A
    LongA,             \* TEST.A_15Y
    Scenarios          \* the cited Z dates

ASSUME RowsAssumption == IsFiniteSet(Rows)

(* TEST.X_25Y is the longest cited lifetime; TEST.X_1Y is not the shortest: *)
(* the rows cited for signatures have a secrecy lifetime of 0 days, and may *)
(* be declared for any surface (data/data_lifetime.yaml).                   *)
ASSUME CitedAssumption ==
    /\ Lifetimes \subseteq Nat /\ {ShortX, LongX} \subseteq Lifetimes
    /\ \A x \in Lifetimes : x <= LongX
    /\ Authenticities \subseteq Nat /\ {0, LongA} \subseteq Authenticities
    /\ \A a \in Authenticities : a <= LongA
    /\ Scenarios \subseteq Int

EpistemicState == {"KNOWN", "UNKNOWN", "NOT_OBSERVED", "NOT_APPLICABLE", "INFERRED",
                   "DECLARED", "CONFLICTING"}

CryptoFunction == {"SIGNATURE_AUTH", "KEY_ESTABLISHMENT", "ENCRYPTION", "KEY_TRANSPORT",
                   "HYBRID_KEX", "UNKNOWN"}

ASSUME NoneAssumption ==
    None \notin Nat /\ None \notin BOOLEAN /\ None \notin [value : Nat, state : EpistemicState]

DateFields == {None} \union [value : Nat, state : EpistemicState]

ContextType == [fn : CryptoFunction \union {None}, fnState : EpistemicState,
                family : BOOLEAN \union {None}, familyState : EpistemicState]

TemporalType == [notBefore : DateFields, goLive : DateFields,
                 snapshot : DateFields, firstObserved : DateFields]

EventType == [vantage : STRING, at : Nat, group : STRING \union {None},
              classical : BOOLEAN, status : EpistemicState]

(* A policy states a date when its mode asks for one, and only then. *)
PolicyType ==
    {p \in [mode : {"SINCE_CONFIRMED", "SINCE_POSSIBLE", "SINCE_DATE"},
            since : Nat \union {None}, acceptInferred : BOOLEAN,
            acceptGoLive : BOOLEAN, rollout : Nat] :
        p.mode = "SINCE_DATE" <=> p.since # None}

(* What LedgerInputs may hold. *)
LedgerInputs ==
    [asOf : Nat, z : Int, context : ContextType, temporal : TemporalType,
     binding : Nat \union {None}, authenticity : Nat \union {None},
     signedAt : Nat \union {None}, migrations : Seq(EventType),
     policy : PolicyType]

(* An observation is a fact of a scan that is over; a surface that was     *)
(* probed has been observed, by the scan of the probe or before it.        *)
Observed(inputs) ==
    LET first == inputs.temporal.firstObserved
        since == inputs.policy.since
    IN  /\ first # None => first.state = "KNOWN" /\ first.value <= inputs.asOf
        /\ since # None => since <= inputs.asOf
        /\ \A i \in KnownIn(inputs.migrations) :
              /\ first # None /\ first.value <= inputs.migrations[i].at
              /\ since # None => since <= inputs.migrations[i].at

ASSUME SubjectAssumption ==
    \A r \in Rows : /\ SubjectsOf[r] \subseteq LedgerInputs
                    /\ \A inputs \in SubjectsOf[r] : Observed(inputs)

VARIABLE rows    \* row -> its LedgerInputs, or None: the usage was refuted

vars == rows

Init == rows \in {f \in [Rows -> UNION {SubjectsOf[r] : r \in Rows}] :
                     \A r \in Rows : f[r] \in SubjectsOf[r]}

-----------------------------------------------------------------------------
(* Admissible-value substitution. *)

WithFamily(inputs, broken) ==
    [inputs EXCEPT
        !.context = [inputs.context EXCEPT !.family = broken, !.familyState = "KNOWN"]]

AlgorithmCandidates(inputs) == {WithFamily(inputs, broken) : broken \in BOOLEAN}

WithBinding(inputs, x) == [inputs EXCEPT !.binding = x, !.authenticity = None]

(* Mutant: only the shortest lifetime is tried. *)
BindingCandidates_Short(inputs) == {WithBinding(inputs, ShortX)}

BindingCandidates(inputs) == {WithBinding(inputs, x) : x \in {ShortX, LongX}}

PossibleDates(inputs) == {PossibleSince(inputs.temporal)} \ {None}

WithStart(inputs, day) ==
    [inputs EXCEPT !.policy.mode = "SINCE_DATE", !.policy.since = day]

(* Mutant: only the latest start is tried. *)
StartCandidates_Latest(inputs) == {WithStart(inputs, inputs.asOf)}

StartCandidates(inputs) ==
    {WithStart(inputs, day) : day \in {inputs.asOf} \union PossibleDates(inputs)}

AcceptInferredCandidates(inputs) == {[inputs EXCEPT !.policy.acceptInferred = TRUE]}

(* A migration some evidence claims and no probe has seen. *)
IsClaim(m) == m.status # "KNOWN" /\ ~m.classical

Claims(ms) == {i \in DOMAIN ms : IsClaim(ms[i])}

Confirmed(m) == [m EXCEPT !.status = "KNOWN"]

(* Confirmed, the claims are the whole timeline; refuted, there is none.   *)
(* They keep their positions here: the ledger reads their order alone.     *)
MigrationCandidates(inputs) ==
    LET ms == inputs.migrations
    IN  IF Claims(ms) = {} THEN {}
        ELSE {[inputs EXCEPT !.migrations = [i \in Claims(ms) |-> Confirmed(ms[i])]],
              [inputs EXCEPT !.migrations = <<>>]}

SignedAtCandidates(inputs) ==
    {[inputs EXCEPT !.signedAt = day] : day \in {inputs.asOf} \union PossibleDates(inputs)}

AuthenticityCandidates(inputs) ==
    {[inputs EXCEPT !.binding = 0, !.authenticity = a,
                    !.signedAt = IF @ = None THEN inputs.asOf ELSE @] : a \in {0, LongA}}

Candidates(key, inputs) ==
    CASE key = "function" -> {}
      [] key = "algorithm_family" -> AlgorithmCandidates(inputs)
      [] key \in {"inferred_algorithm", "inferred_function"} -> AcceptInferredCandidates(inputs)
      [] key = "data_class_binding" -> BindingCandidates(inputs)
      [] key \in {"start_confirmed", "start_possible"} -> StartCandidates(inputs)
      [] key = "migration_observation" -> MigrationCandidates(inputs)
      [] key = "signed_at" -> SignedAtCandidates(inputs)
      [] key = "authenticity_lifetime" -> AuthenticityCandidates(inputs)

-----------------------------------------------------------------------------
(* Diagnosis: the catalogue keys a row is waiting on. *)

AuthMissing(inputs) ==
    {k \in {"authenticity_lifetime", "signed_at", "inferred_function"} :
        CASE k = "authenticity_lifetime" -> inputs.authenticity = None
          [] k = "signed_at" -> inputs.authenticity # None /\ inputs.signedAt = None
          [] k = "inferred_function" -> inputs.context.fnState = "INFERRED"}

InferredMissing(context) ==
    {k \in {"inferred_function", "inferred_algorithm"} :
        CASE k = "inferred_function"  -> context.fnState = "INFERRED"
          [] k = "inferred_algorithm" -> context.familyState = "INFERRED"}

(* The first input that is missing, and only that one. *)
ConfidentialityMissing(inputs) ==
    IF inputs.binding = None THEN {"data_class_binding"}
    ELSE IF RecordOf(inputs).start = None
      THEN {IF inputs.policy.mode = "SINCE_POSSIBLE" THEN "start_possible" ELSE "start_confirmed"}
    ELSE IF InferredMissing(inputs.context) # {} THEN InferredMissing(inputs.context)
    ELSE {"algorithm_family"}

(* Mutant: a row that has its band is asked on. *)
BlockingInputs_Always(inputs) ==
    IF inputs.context.fnState = "UNKNOWN" THEN {"function"}
    ELSE IF IsAuth(inputs) THEN AuthMissing(inputs) ELSE ConfidentialityMissing(inputs)

BlockingInputs(inputs) ==
    IF RecordOf(inputs).band # "UNBOUNDED" THEN {}
    ELSE IF inputs.context.fnState = "UNKNOWN" THEN {"function"}
    ELSE IF IsAuth(inputs) THEN AuthMissing(inputs) ELSE ConfidentialityMissing(inputs)

(* Mutant: a row is asked for what blocks its band and nothing else. *)
MissingInputs_Blocking(inputs) == BlockingInputs(inputs)

MissingInputs(inputs) ==
    BlockingInputs(inputs)
        \union (IF Claims(inputs.migrations) # {} THEN {"migration_observation"} ELSE {})

-----------------------------------------------------------------------------
(* Tasks and the queue. *)

BandRank(band) ==
    CASE band = "BLEEDING" -> 0
      [] band \in {"UNSAVABLE", "RESIGN_BEFORE_Z"} -> 1
      [] band \in {"UNBOUNDED", "ROTATE_BEFORE_Z"} -> 2
      [] band = "SAVABLE" -> 3
      [] band \in {"SAFE", "SAFE_UNTIL_Z"} -> 4

MaxOf(numbers) == CHOOSE n \in numbers : \A k \in numbers : k <= n

LongestWindow(record) == MaxOf({0} \union {w.hi - w.lo : w \in record.windows})

Outcomes(key, inputs) ==
    {record \in {RecordOf(c) : c \in Candidates(key, inputs)} : record.band # "UNBOUNDED"}

Waiting(key) == {r \in Rows : rows[r] # None /\ key \in MissingInputs(rows[r])}

(* Mutant: a merged task keeps the promise of one of its rows. *)
TaskOf_OneRow(key) ==
    LET outcomes == Outcomes(key, rows[CHOOSE r \in Waiting(key) : TRUE])
    IN  [key |-> key, rows |-> Waiting(key), bands |-> {o.band : o \in outcomes},
         longest |-> MaxOf({0} \union {LongestWindow(o) : o \in outcomes})]

(* tasks_for on every row, merged by key. *)
TaskOf(key) ==
    LET outcomes == UNION {Outcomes(key, rows[r]) : r \in Waiting(key)}
    IN  [key |-> key, rows |-> Waiting(key), bands |-> {o.band : o \in outcomes},
         longest |-> MaxOf({0} \union {LongestWindow(o) : o \in outcomes})]

Queue ==
    {TaskOf(key) : key \in UNION {MissingInputs(rows[r]) : r \in {q \in Rows : rows[q] # None}}}

(* A task that promises no band ranks with the unbounded rows. *)
WorstRank(task) ==
    CHOOSE n \in 0 .. 4 :
        LET ranks == {BandRank(b) : b \in IF task.bands = {} THEN {"UNBOUNDED"} ELSE task.bands}
        IN  n \in ranks /\ \A k \in ranks : n <= k

RowCount(task) == Cardinality(task.rows)

Outranks(s, t) ==
    \/ WorstRank(s) < WorstRank(t)
    \/ WorstRank(s) = WorstRank(t) /\ RowCount(s) > RowCount(t)
    \/ WorstRank(s) = WorstRank(t) /\ RowCount(s) = RowCount(t) /\ s.longest > t.longest

-----------------------------------------------------------------------------
(* What the operator may find: the inputs of the row's next run.           *)

Dated(day, state) == [value |-> day, state |-> state]

(* The dates a start or a signature may turn out to have. *)
AdmissibleDates(inputs) ==
    (IF PossibleDates(inputs) = {} THEN 0 ELSE PossibleSince(inputs.temporal)) .. inputs.asOf

(* A probe made on the day of the run, in the place of the claims: it is   *)
(* an observation of the surface too.                                      *)
Probed(inputs) ==
    {[inputs EXCEPT
        !.migrations = [i \in DOMAIN inputs.migrations |->
            IF ~IsClaim(inputs.migrations[i]) THEN inputs.migrations[i]
            ELSE [inputs.migrations[i] EXCEPT !.status = "KNOWN", !.at = inputs.asOf,
                                              !.classical = accepted]],
        !.temporal = IF inputs.temporal.firstObserved # None THEN inputs.temporal
                     ELSE [inputs.temporal EXCEPT !.firstObserved = Dated(inputs.asOf, "KNOWN")]] :
        accepted \in BOOLEAN}

Stated(inputs, field, days, state) ==
    {[inputs EXCEPT !.temporal = [inputs.temporal EXCEPT ![field] = Dated(day, state)]] :
        day \in days}

(* The usage observed: a context of its own ledger, the family as before.  *)
Classified(inputs) ==
    {[inputs EXCEPT !.context = [inputs.context EXCEPT !.fn = fn, !.fnState = "KNOWN"]] :
        fn \in {"KEY_ESTABLISHMENT", "HYBRID_KEX", "SIGNATURE_AUTH"}}

(* The scanner's guess confirmed. *)
Certain(inputs, field) ==
    [inputs EXCEPT !.context = [inputs.context EXCEPT ![field] = "KNOWN"]]

Answers(key, inputs) ==
    CASE key = "function" -> Classified(inputs)
      [] key = "algorithm_family" -> AlgorithmCandidates(inputs)
      [] key = "inferred_function" -> {Certain(inputs, "fnState")}
      [] key = "inferred_algorithm" -> {Certain(inputs, "familyState")}
      [] key = "data_class_binding" -> {WithBinding(inputs, x) : x \in Lifetimes}
      [] key = "start_confirmed" ->
            Stated(inputs, "firstObserved", {inputs.asOf}, "KNOWN")
            \union (IF inputs.policy.acceptGoLive
                      THEN Stated(inputs, "goLive", AdmissibleDates(inputs), "DECLARED") ELSE {})
      [] key = "start_possible" ->
            Stated(inputs, "notBefore", AdmissibleDates(inputs), "KNOWN")
      [] key = "migration_observation" -> Probed(inputs)
      [] key = "signed_at" ->
            {[inputs EXCEPT !.signedAt = day] : day \in AdmissibleDates(inputs)}
      [] key = "authenticity_lifetime" ->
            {[inputs EXCEPT !.binding = 0, !.authenticity = a] : a \in Authenticities}

(* The tasks nothing outranks. *)
Heads ==
    LET queue == Queue
    IN  {task \in queue : \A other \in queue : ~Outranks(other, task)}

Collect ==
    \E task \in Heads : \E r \in task.rows :
        \E answer \in Answers(task.key, rows[r]) : rows' = [rows EXCEPT ![r] = answer]

(* An offered suite that is never negotiated: the row goes.                *)
Refute ==
    \E task \in Heads : \E r \in task.rows :
        /\ task.key = "inferred_function"
        /\ rows' = [rows EXCEPT ![r] = None]

Next == Collect \/ Refute

Spec == Init /\ [][Next]_vars

(* An operator who keeps working the queue. *)
FairSpec == Spec /\ WF_vars(Next)

-----------------------------------------------------------------------------
(* Sensitivity: a row's band under every cited Z (risk/sensitivity.py).    *)

UnderScenario(inputs, z) == RecordOf([inputs EXCEPT !.z = z])

-----------------------------------------------------------------------------
(* Properties. *)

(* The day a start nothing bounds may turn out to have is not narrowed by  *)
(* anything the row holds, and a probe of a surface no date is known of    *)
(* gives it its first date as well, which is more than the task asks.      *)
Bounded(key, inputs) ==
    /\ key \in {"start_confirmed", "start_possible"} => PossibleDates(inputs) # {}
    /\ key = "migration_observation" => IsAuth(inputs) \/ StartDate(inputs) # None

Promised(P(_, _)) ==
    \A task \in Queue : \A r \in task.rows :
        task.bands # {} /\ Bounded(task.key, rows[r]) =>
            \A answer \in Answers(task.key, rows[r]) :
                RecordOf(answer).band # "UNBOUNDED" => P(task, RecordOf(answer))

(* The lifetime found is shorter than any the engine tries, and nothing is *)
(* lost yet: the promise may have been SAFE.                               *)
BelowTheTried(task, record) ==
    /\ task.key = "data_class_binding" /\ record.inputs.binding < ShortX
    /\ record.band = "SAVABLE"

(* The queue never understates a task: whatever admissible value is found, *)
(* the row's band is no worse than the worst band the task promised, and   *)
(* its windows are no longer.  A lifetime below the ones tried may break   *)
(* the first part, in one way: the row is SAVABLE, where the promise may   *)
(* be SAFE (_binding_candidates, which says it tries the shortest).        *)
AnswerIsNoWorse ==
    Promised(LAMBDA task, record :
        /\ BandRank(record.band) >= WorstRank(task) \/ BelowTheTried(task, record)
        /\ LongestWindow(record) <= task.longest)

(* Spec 5.8: every UNBOUNDED row is on the queue until it is closed, and   *)
(* an operator who works the queue closes every row.                       *)
EveryRowIsClosed ==
    <>[](\A r \in Rows : rows[r] # None =>
            RecordOf(rows[r]).band # "UNBOUNDED" /\ Claims(rows[r].migrations) = {})

(* What is known is not asked for again: a step of the operator takes the  *)
(* collected input off the row, and never turns a band back to UNBOUNDED.  *)
AnswersLast ==
    [][\A r \in Rows :
          rows'[r] # rows[r] /\ rows'[r] # None =>
              /\ MissingInputs(rows[r]) \ MissingInputs(rows'[r]) # {}
              /\ RecordOf(rows[r]).band # "UNBOUNDED" => RecordOf(rows'[r]).band # "UNBOUNDED"]_vars

(* A flip between scenarios goes one way: what is not lost under some Z is *)
(* not lost under a later one.                                             *)
LaterZLosesNoMore ==
    \A r \in Rows : rows[r] # None =>
        \A y, z \in Scenarios :
            y < z /\ BandRank(UnderScenario(rows[r], z).band) <= 1
                => BandRank(UnderScenario(rows[r], y).band) <= 1
=============================================================================
