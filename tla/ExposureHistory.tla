---------------------------- MODULE ExposureHistory ----------------------------
(***************************************************************************)
(* One ledger subject over time.  The evidence about it accumulates in the *)
(* subjects document (LedgerSubject, risk/run.py), the calendar advances,  *)
(* and `ecdat ledger-run` evaluates the subject and appends the result to  *)
(* the run store, where later runs are compared with earlier ones.         *)
(*                                                                         *)
(* What may be appended is the contract of the document: a probe dates its *)
(* observation with the day it is made (adapters/tls/adapter.py), an       *)
(* observation on the traffic path also bounds first_observed, and a       *)
(* configuration file gives INFERRED evidence only.  The document is kept  *)
(* by hand, as tests/fixtures/ledger/subjects.json is; ScanPipeline models *)
(* the one `ecdat assemble` writes.                                        *)
(***************************************************************************)
EXTENDS RunDiff

CONSTANTS
    LastDay,        \* bound on the calendar: days are 0 .. LastDay
    MaxEvents,      \* bound on the migration evidence
    MaxRuns,        \* bound on the stored runs
    Vantages,       \* where probes are made from
    Groups,         \* the groups a probe may see negotiated
    Contexts,       \* the classifications the usage context may be given
    Keys,           \* data-class keys an operator may declare
    LifetimeOf,     \* Keys -> days, or None: the row is not cited
    Scenarios,      \* the Z dates
    Policies,       \* the ledger policies
    Stated          \* the dates an operator or a certificate may state

ASSUME BoundAssumption ==
    /\ LastDay \in Nat /\ MaxEvents \in Nat /\ MaxRuns \in Nat
ASSUME LifetimeAssumption ==
    /\ None \notin Int /\ None \notin Keys
    /\ LifetimeOf \in [Keys -> Nat \union {None}]
ASSUME GroupAssumption == Groups \subseteq {"classical", "hybrid"}
ASSUME ScenarioAssumption == Scenarios \subseteq Int
ASSUME StatedAssumption == Stated \subseteq {"notBefore", "goLive", "snapshot"}

Days == 0 .. LastDay
Families == {TRUE, FALSE, None}
FieldStates == {"KNOWN", "DECLARED", "INFERRED"}

ASSUME DateAssumption == None \notin [value : Days, state : FieldStates]

ASSUME ContextAssumption ==
    Contexts \subseteq [fn : {"KEY_ESTABLISHMENT", "HYBRID_KEX", "UNKNOWN"},
                        fnState : {"KNOWN", "INFERRED", "UNKNOWN"},
                        family : Families,
                        familyState : {"KNOWN", "INFERRED", "UNKNOWN"}]
ASSUME PolicyAssumption ==
    Policies \subseteq [mode : {"SINCE_CONFIRMED", "SINCE_POSSIBLE", "SINCE_DATE"},
                        since : Days \union {None},
                        acceptInferred : BOOLEAN, acceptGoLive : BOOLEAN]

VARIABLES
    today,     \* date.today()
    subject,   \* the LedgerSubject in the subjects document
    runs       \* the stored runs of this target, oldest first

vars == <<today, subject, runs>>

Events == [vantage : Vantages, at : Days, group : {"classical", "hybrid"},
           classical : BOOLEAN, status : {"KNOWN", "INFERRED"}]
DateFields == [value : Days, state : FieldStates] \union {None}
Temporals == [notBefore : DateFields, goLive : DateFields,
              snapshot : DateFields, firstObserved : DateFields]

Init ==
    /\ today = 0
    /\ subject \in [context : Contexts,
                    temporal : {[notBefore |-> None, goLive |-> None,
                                 snapshot |-> None, firstObserved |-> None]},
                    bindingKey : {None},
                    migrations : {<<>>}]
    /\ runs = <<>>

-----------------------------------------------------------------------------
(* What a run computes for the subject. *)

(* The binding of the subject: none declared, or the cited lifetime.       *)
BindingOf(key) == IF key = None THEN None ELSE LifetimeOf[key]

InputsFor(asOf, z, policy) ==
    [asOf |-> asOf, z |-> z, policy |-> policy,
     context |-> subject.context, temporal |-> subject.temporal,
     binding |-> BindingOf(subject.bindingKey),
     migrations |-> subject.migrations]

(* A declared key with no cited lifetime: the subject is skipped, and the  *)
(* run has no row for it.                                                  *)
Skipped == subject.bindingKey # None /\ LifetimeOf[subject.bindingKey] = None

RowFor(asOf, z, policy) ==
    IF Skipped THEN None ELSE Evaluate(InputsFor(asOf, z, policy))

-----------------------------------------------------------------------------
(* The actions. *)

NextDay ==
    /\ today < LastDay
    /\ today' = today + 1
    /\ UNCHANGED <<subject, runs>>

(* What a probe states (migration_evidence_from): the group it negotiated  *)
(* and whether the classical-only control was accepted, or, when no        *)
(* control was run, INFERRED evidence that assumes it is.                  *)
EvidenceFrom(v, group, tested, accepted) ==
    [vantage |-> v, at |-> today, group |-> group,
     classical |-> ~tested \/ accepted,
     status |-> IF tested THEN "KNOWN" ELSE "INFERRED"]

(* The earliest observation on the traffic path. *)
FirstObserved(observed) ==
    IF observed = None THEN [value |-> today, state |-> "KNOWN"] ELSE observed

(* A probe's evidence joins the document and bounds first_observed. *)
Observe(v, group, tested, accepted) ==
    /\ Len(subject.migrations) < MaxEvents
    /\ subject' = [subject EXCEPT
          !.migrations = Append(@, EvidenceFrom(v, group, tested, accepted)),
          !.temporal.firstObserved = FirstObserved(@)]
    /\ UNCHANGED <<today, runs>>

(* A configuration file that claims the migration: INFERRED, and not on    *)
(* the traffic path.                                                       *)
Configure(v) ==
    /\ Len(subject.migrations) < MaxEvents
    /\ subject' = [subject EXCEPT !.migrations =
          Append(@, [vantage |-> v, at |-> today, group |-> "hybrid",
                     classical |-> FALSE, status |-> "INFERRED"])]
    /\ UNCHANGED <<today, runs>>

(* A certificate's notBefore, the first snapshot that holds the surface or *)
(* the operator's go-live date, each stated once.                          *)
StateDate(field, d) ==
    /\ subject.temporal[field] = None
    /\ subject' = [subject EXCEPT !.temporal[field] =
                      [value |-> d,
                       state |-> IF field = "goLive" THEN "DECLARED" ELSE "KNOWN"]]
    /\ UNCHANGED <<today, runs>>

Declare(key) ==
    /\ subject.bindingKey # key
    /\ subject' = [subject EXCEPT !.bindingKey = key]
    /\ UNCHANGED <<today, runs>>

Reclassify(context) ==
    /\ subject.context # context
    /\ subject' = [subject EXCEPT !.context = context]
    /\ UNCHANGED <<today, runs>>

(* as_of is --as-of, any day up to today, or today itself. *)
LedgerRun(asOf, z, policy) ==
    /\ Len(runs) < MaxRuns
    /\ runs' = Append(runs, RowFor(asOf, z, policy))
    /\ UNCHANGED <<today, subject>>

Next ==
    \/ NextDay
    \/ \E v \in Vantages, group \in Groups, accepted \in BOOLEAN :
          Observe(v, group, TRUE, accepted)
    \/ \E v \in Vantages, group \in Groups : Observe(v, group, FALSE, TRUE)
    \/ \E v \in Vantages : Configure(v)
    \/ \E field \in Stated, d \in 0 .. today : StateDate(field, d)
    \/ \E key \in Keys : Declare(key)
    \/ \E context \in Contexts : Reclassify(context)
    \/ \E asOf \in 0 .. today, z \in Scenarios, policy \in Policies :
          LedgerRun(asOf, z, policy)

Spec == Init /\ [][Next]_vars

-----------------------------------------------------------------------------
(* Properties. *)

Bands == {"UNBOUNDED", "SAFE", "BLEEDING", "UNSAVABLE", "SAVABLE"}

(* Every variable, and the band of every stored row, has its type.         *)
TypeOK ==
    /\ today \in Days
    /\ subject \in [context : Contexts, temporal : Temporals,
                    bindingKey : Keys \union {None}, migrations : Seq(Events)]
    /\ \A i \in DOMAIN runs :
          runs[i] # None => /\ runs[i].band \in Bands
                            /\ runs[i].conditional \in Bands \union {None}

Rows == {runs[i] : i \in DOMAIN runs} \ {None}

(* The days a row says are beyond saving. *)
LostDays(row) == {d \in Days : \E w \in row.windows : w.lo <= d /\ d < w.hi}

(* The reference: what was negotiated on day d is what the latest KNOWN    *)
(* observation up to d says, classical when there is none.                 *)
ClassicalOn(ms, d) ==
    LET past == {i \in KnownIn(ms) : ms[i].at <= d}
    IN  \A i \in past : (\A j \in past : ~SortsBefore(ms, i, j)) => ms[i].classical

(* A banded row of a Shor-broken exchange loses exactly the days from the  *)
(* deadline and the start on, before as_of, on which classical was last    *)
(* seen accepted (_Timeline.exposure_intervals and the window              *)
(* intersection, against a day-by-day definition).                         *)
WindowsAreTheLostDays ==
    \A row \in Rows :
        row.band # "UNBOUNDED" /\ ShorBroken(row.inputs.context) =>
            LostDays(row) =
                {d \in Days : /\ row.start <= d /\ row.deadline <= d
                              /\ d < row.inputs.asOf
                              /\ ClassicalOn(row.inputs.migrations, d)}

(* Migrating stops the bleed and recovers nothing: a later run of the same *)
(* question, under the same policy and at an as_of no earlier, reports     *)
(* every day the earlier run reported as beyond saving.                    *)
SameQuestion(row, later) ==
    /\ row.band # "UNBOUNDED" /\ later.band # "UNBOUNDED"
    /\ later.deadline = row.deadline
    /\ later.inputs.context = row.inputs.context
    /\ later.inputs.policy = row.inputs.policy
    /\ row.inputs.asOf <= later.inputs.asOf

NothingIsRecovered ==
    \A i, j \in DOMAIN runs :
        i < j /\ runs[i] # None /\ runs[j] # None /\ SameQuestion(runs[i], runs[j])
            => LostDays(runs[i]) \subseteq LostDays(runs[j])

(* The diff names new evidence, and only new evidence: MIGRATED between    *)
(* two stored runs means the newer one holds a KNOWN stop the older one    *)
(* did not, REGRESSED a KNOWN classical negotiation it did not.            *)
NewIn(old, new) ==
    {i \in KnownIn(new.inputs.migrations) : i \notin DOMAIN old.inputs.migrations}

DiffNamesNewEvidence ==
    \A i, j \in DOMAIN runs : i < j /\ runs[i] # None /\ runs[j] # None =>
        LET new   == NewIn(runs[i], runs[j])
            class == Classify(runs[i], runs[j])
            ms    == runs[j].inputs.migrations
        IN  /\ class = "MIGRATED"  => \E k \in new : ~ms[k].classical
            /\ class = "REGRESSED" => \E k \in new : ms[k].classical

(* A window that reaches as_of is a bleed that has not stopped: its row is *)
(* BLEEDING, never UNSAVABLE (_band_for reads currently_stopped, the       *)
(* windows come from the walk: the two must agree).  Stated for evidence   *)
(* that is dated before as_of and on different days.                       *)
OpenWindowBleeds ==
    \A row \in Rows :
        LET ms == row.inputs.migrations
        IN  /\ \E w \in row.windows : w.hi = row.inputs.asOf
            /\ \A i, j \in KnownIn(ms) :
                  ms[i].at < row.inputs.asOf /\ (ms[i].at = ms[j].at => i = j)
            => row.band = "BLEEDING"

(* The KNOWN events alone, in their order. *)
KnownOnly(ms) ==
    LET known  == {i \in DOMAIN ms : ms[i].status = "KNOWN"}
        Nth(k) == CHOOSE i \in known : Cardinality({j \in known : j <= i}) = k
    IN  [k \in 1 .. Cardinality(known) |-> ms[Nth(k)]]

(* A configuration file stops nothing: the row is the row the same inputs  *)
(* give without their INFERRED evidence (the "fake M" case).               *)
ConfigurationStopsNothing ==
    \A row \in Rows :
        LET known == KnownOnly(row.inputs.migrations)
            alone == Evaluate([row.inputs EXCEPT !.migrations = known])
        IN  /\ row.band = alone.band /\ row.windows = alone.windows
            /\ row.qualifiers = alone.qualifiers
            /\ row.conditional = alone.conditional

(* The conditional band of a row unbounded by policy is the band the row   *)
(* gets once the policy accepts INFERRED inputs.                           *)
ConditionalIsTheAcceptedBand ==
    \A row \in Rows :
        row.conditional # None /\ ShorBroken(row.inputs.context) # None =>
            row.conditional =
                Evaluate([row.inputs EXCEPT !.policy.acceptInferred = TRUE]).band

(* SINCE_POSSIBLE is the pessimistic reading: of two rows on the same      *)
(* evidence, day and scenario, the one that assumes capture since the      *)
(* surface was possible loses every day the confirmed one loses.           *)
PossibleIsPessimistic ==
    \A row \in Rows : row.inputs.policy.mode = "SINCE_CONFIRMED" =>
        LET other == Evaluate([row.inputs EXCEPT !.policy.mode = "SINCE_POSSIBLE"])
        IN  LostDays(row) \subseteq LostDays(other)
=============================================================================
